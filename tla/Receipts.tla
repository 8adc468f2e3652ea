------------------------------ MODULE Receipts ------------------------------
(***************************************************************************)
(* The receipt ledger of the server (chat/message-receipts.service.ts) and *)
(* all who write it: dispatches and questions that open a receipt, answers *)
(* that ack it, conditional settlements, the nudge handler that the        *)
(* trigger service calls when a receipt falls due, and the expiry sweep.   *)
(*                                                                         *)
(* Time is counted in nudge-ticker periods and only relatively: the age of *)
(* a receipt is the time since its expiresAt (negative before), every      *)
(* timer counts down.  A ticker fires on time; what it starts may take as  *)
(* long as it likes.  One database statement is one action; of the trigger *)
(* table only the state of a receipt's nudge trigger is kept (see module   *)
(* Triggers).  Every settlement write stands for the hook call and the     *)
(* broadcast that follow it.                                               *)
(***************************************************************************)
EXTENDS Integers, FiniteSets

CONSTANTS
  Rows,          \* receipts, one per dedup key
  Questions,     \* those by which a sub asks the main agent
  To,            \* To[r]: the assignee
  Message,       \* Message[r]: the dispatched message
  Ackers,        \* requests in flight in ack()
  Ticks,         \* bound: fireDue() invocations in flight
  None,
  Timeout,       \* receiptTimeoutMin
  Grace,         \* RECEIPT_EXPIRY_GRACE_MS
  NudgePeriod,   \* TIMER_SCAN_INTERVAL_MS
  SweepPeriod,   \* RECEIPT_EXPIRY_SWEEP_INTERVAL_MS
  FollowUp,      \* RECEIPT_TIMEOUT_DEFAULT_MIN, from the nudge to its follow-up
  Cooldown,      \* NUDGE_COOLDOWN_MS
  MaxAutoNudges, \* MAX_AUTO_NUDGES
  Downtime,      \* bound: how long a restart may take
  MaxFaults,     \* bound: statements or dispatches that throw
  MaxCrashes     \* bound: restarts of the server

ASSUME ReceiptsAssumption ==
  /\ Questions \subseteq Rows
  /\ {Timeout, NudgePeriod, SweepPeriod, FollowUp, MaxAutoNudges} \subseteq Nat \ {0}
  /\ {Grace, Cooldown, Downtime, MaxFaults, MaxCrashes} \subseteq Nat

ASSUME NoneAssumption == None \notin Rows

\* RECEIPT_EXPIRY_GRACE_MS, its comment: the grace is at least a ticker period.
ASSUME GraceAssumption == Grace >= NudgePeriod

\* The nudge ticker is the faster one; by default twice as fast (30 s and 60 s).
ASSUME SweepAssumption == NudgePeriod < SweepPeriod

VARIABLES
  row,               \* column status (settled_reason is left out)
  age,               \* time since expires_at
  nudges, muted,     \* column nudge_count; cooldown left since last_nudged_at
  trig, job, wait,   \* the nudge trigger: its state, first or follow-up, time left
  step, seen,        \* where the handler for a row is; the nudge_count it read
  batch, cur,        \* of each tick: the triggers it selected, the one it runs
  nudgeIn, sweepIn,  \* time to the next tick and to the next sweep
  sweep, todo,       \* where the sweep is; the rows it may expire, by the time it began
  acking,            \* of each acker: the row it has read as pending
  answer,            \* of a question: has the main agent posted in its channel?
  faults, crashes,
  sent,              \* history: nudges sent per receipt
  prompt             \* history: triggers armed, and questions answered, before the due date

ledger == <<row, nudges, muted>>
nudger == <<trig, job, wait, step, seen, batch, cur, sent>>
sweeper == <<sweep, todo>>
timing == <<age, nudgeIn, sweepIn>>
others == <<acking, answer, faults, crashes, prompt>>
vars == <<ledger, nudger, sweeper, timing, others>>

TypeOK ==
  /\ row \in [Rows -> {"none", "pending", "acked", "expired"}]
  /\ age \in [Rows -> Int]
  /\ nudges \in [Rows -> Nat]
  /\ muted \in [Rows -> Nat]
  /\ trig \in [Rows -> {"none", "armed", "running", "over"}]
  /\ job \in [Rows -> {"first", "followUp"}]
  /\ wait \in [Rows -> Nat]
  /\ step \in [Rows -> {"idle", "read", "settle", "reread", "check", "send", "record",
                        "follow", "expire"}]
  /\ seen \in [Rows -> Nat]
  /\ batch \in [Ticks -> SUBSET Rows]
  /\ cur \in [Ticks -> Rows \cup {None}]
  /\ \A r \in Rows : trig[r] = "running" <=> \E t \in Ticks : cur[t] = r
  /\ nudgeIn \in 0 .. NudgePeriod /\ sweepIn \in 0 .. SweepPeriod
  /\ sweep \in {"idle", "settle", "select", "expire"}
  /\ todo \subseteq Rows
  /\ acking \in [Ackers -> Rows \cup {None}]
  /\ answer \in [Questions -> {"none", "posted", "handled"}]
  /\ {faults, crashes} \subseteq Nat
  /\ sent \in [Rows -> Nat]
  /\ prompt \subseteq Rows \X {"trigger", "answer"}

Init ==
  /\ row = [r \in Rows |-> "none"]
  /\ age = [r \in Rows |-> 0]
  /\ nudges = [r \in Rows |-> 0]
  /\ muted = [r \in Rows |-> 0]
  /\ trig = [r \in Rows |-> "none"]
  /\ job = [r \in Rows |-> "first"]
  /\ wait = [r \in Rows |-> 0]
  /\ step = [r \in Rows |-> "idle"]
  /\ seen = [r \in Rows |-> 0]
  /\ batch = [t \in Ticks |-> {}]
  /\ cur = [t \in Ticks |-> None]
  /\ nudgeIn = NudgePeriod /\ sweepIn = SweepPeriod
  /\ sweep = "idle" /\ todo = {}
  /\ acking = [a \in Ackers |-> None]
  /\ answer = [q \in Questions |-> "none"]
  /\ faults = 0 /\ crashes = 0
  /\ sent = [r \in Rows |-> 0]
  /\ prompt = {}

-----------------------------------------------------------------------------
(* Opening a receipt: scheduleReceiptNudge.                                *)

Open(r) ==
  /\ row[r] = "none"
  /\ row' = [row EXCEPT ![r] = "pending"]
  /\ age' = [age EXCEPT ![r] = -Timeout]
  /\ UNCHANGED <<nudges, muted, nudger, sweeper, nudgeIn, sweepIn, others>>

\* schedule() after the create, or for the pending row that the same dispatch,
\* repeated, finds under its dedup key.  A second schedule() finds its trigger.
ArmNudge(r) ==
  /\ row[r] = "pending" /\ trig[r] = "none"
  /\ trig' = [trig EXCEPT ![r] = "armed"]
  /\ prompt' = IF age[r] < 0 THEN prompt \cup {<<r, "trigger">>} ELSE prompt
  /\ UNCHANGED <<ledger, job, wait, step, seen, batch, cur, sent, sweeper, timing,
                 acking, answer, faults, crashes>>

-----------------------------------------------------------------------------
(* Settling it.                                                            *)

\* settlePending: the update is conditional on status = 'pending'.
SettlePending(S) ==
  row' = [r \in Rows |-> IF r \in S /\ row[r] = "pending" THEN "acked" ELSE row[r]]

\* settleByReference: a message or an artifact quotes the dispatched message.
Quote(m) ==
  /\ \E r \in Rows : Message[r] = m /\ row[r] = "pending"
  /\ SettlePending({r \in Rows : Message[r] = m})
  /\ UNCHANGED <<nudges, muted, nudger, sweeper, timing, others>>

\* settleSupersededDispatch: a correction, whose own receipt is opened first.
Supersede(r) ==
  /\ row[r] = "pending"
  /\ \E r2 \in Rows : row[r2] # "none" /\ To[r2] = To[r] /\ Message[r2] # Message[r]
  /\ SettlePending({r2 \in Rows : Message[r2] = Message[r]})
  /\ UNCHANGED <<nudges, muted, nudger, sweeper, timing, others>>

\* ack(), called row by row by ackPendingFor: it reads the row first ...
AckReads(a, r) ==
  /\ acking[a] = None /\ row[r] = "pending" /\ r \notin Questions
  /\ acking' = [acking EXCEPT ![a] = r]
  /\ UNCHANGED <<ledger, nudger, sweeper, timing, answer, faults, crashes, prompt>>

\* ... and then updates it, whatever it has become.
AckWrites(a) ==
  /\ acking[a] # None
  /\ row' = [row EXCEPT ![acking[a]] = "acked"]
  /\ acking' = [acking EXCEPT ![a] = None]
  /\ UNCHANGED <<nudges, muted, nudger, sweeper, timing, answer, faults, crashes, prompt>>

\* The main agent posts in the channel of a question ...
MainPosts(q) ==
  /\ row[q] # "none" /\ answer[q] = "none"
  /\ answer' = [answer EXCEPT ![q] = "posted"]
  /\ prompt' = IF age[q] < 0 THEN prompt \cup {<<q, "answer">>} ELSE prompt
  /\ UNCHANGED <<ledger, nudger, sweeper, timing, acking, faults, crashes>>

\* ... and settleQuestionReceiptsAfterMainPost settles its receipt, or fails.
MainPostSettles(q) ==
  /\ answer[q] = "posted"
  /\ answer' = [answer EXCEPT ![q] = "handled"]
  /\ \/ SettlePending({q}) /\ UNCHANGED faults
     \/ /\ faults < MaxFaults /\ faults' = faults + 1
        /\ UNCHANGED row
  /\ UNCHANGED <<nudges, muted, nudger, sweeper, timing, acking, crashes, prompt>>

\* settleAnsweredQuestionReceipts, used by the sweep and by the nudge handler:
\* it looks for the posts and settles the rows one by one, conditionally.
SettleAnswered ==
  \/ SettlePending({q \in Questions : answer[q] # "none"}) /\ UNCHANGED faults
  \/ /\ faults < MaxFaults /\ faults' = faults + 1
     /\ UNCHANGED row

-----------------------------------------------------------------------------
(* The expiry sweep: sweepExpiredReceipts and expireDue.                   *)

\* Mutant of PastGrace: no grace period.
PastDue == {r \in Rows : row[r] = "pending" /\ age[r] >= 0}

PastGrace == {r \in Rows : row[r] = "pending" /\ age[r] >= Grace}

\* Mutant of SweepTick: it expires without a look at what has been answered.
SweepTickExpiresOnly ==
  /\ sweepIn = 0
  /\ sweepIn' = SweepPeriod
  /\ IF sweep = "idle" THEN sweep' = "select" /\ todo' = PastGrace ELSE UNCHANGED sweeper
  /\ UNCHANGED <<ledger, nudger, age, nudgeIn, others>>

\* The sweep ticker; a sweep still in flight makes it skip a round.  What is
\* overdue is judged by the time at which the sweep begins.
SweepTick ==
  /\ sweepIn = 0
  /\ sweepIn' = SweepPeriod
  /\ IF sweep = "idle" THEN sweep' = "settle" /\ todo' = PastGrace ELSE UNCHANGED sweeper
  /\ UNCHANGED <<ledger, nudger, age, nudgeIn, others>>

SweepSettles ==
  /\ sweep = "settle"
  /\ SettleAnswered
  /\ sweep' = "select"
  /\ UNCHANGED <<nudges, muted, nudger, todo, timing, acking, answer, crashes, prompt>>

SweepSelects ==
  /\ sweep = "select"
  /\ todo' = {r \in todo : row[r] = "pending"}
  /\ sweep' = IF todo' = {} THEN "idle" ELSE "expire"
  /\ UNCHANGED <<ledger, nudger, timing, others>>

\* Both ways to expire a receipt update it whatever its status is by then.
Expire(r) ==
  /\ row' = [row EXCEPT ![r] = "expired"]
  /\ UNCHANGED <<nudges, muted>>

SweepExpires(r) ==
  /\ sweep = "expire" /\ r \in todo
  /\ Expire(r)
  /\ todo' = todo \ {r}
  /\ sweep' = IF todo = {r} THEN "idle" ELSE "expire"
  /\ UNCHANGED <<nudger, timing, others>>

\* Mutant of SweepFails: the flag sweepInFlight stays set.
SweepFailsForGood ==
  /\ sweep \in {"settle", "select", "expire"} /\ faults < MaxFaults
  /\ faults' = faults + 1
  /\ sweep' = "in flight" /\ todo' = {}
  /\ UNCHANGED <<ledger, nudger, timing, acking, answer, crashes, prompt>>

\* A statement throws that nobody has caught, also one that settles an answered
\* question: the finally block lets the next sweep in.
SweepFails ==
  /\ sweep \in {"settle", "select", "expire"} /\ faults < MaxFaults
  /\ faults' = faults + 1
  /\ sweep' = "idle" /\ todo' = {}
  /\ UNCHANGED <<ledger, nudger, timing, acking, answer, crashes, prompt>>

-----------------------------------------------------------------------------
(* The nudge: the trigger ticker and ReceiptNudgeHandler.handle.           *)

Due(r) == trig[r] = "armed" /\ (IF job[r] = "first" THEN age[r] >= 0 ELSE wait[r] = 0)

\* setInterval waits for nobody: another invocation, with whatever is due.
NudgeTick ==
  /\ nudgeIn = 0
  /\ nudgeIn' = NudgePeriod
  /\ LET due == {r \in Rows : Due(r)}
     IN \/ due = {} /\ UNCHANGED batch
        \/ /\ due # {}
           /\ \E t \in Ticks : /\ cur[t] = None /\ batch[t] = {}
                             /\ batch' = [batch EXCEPT ![t] = due]
  /\ UNCHANGED <<ledger, trig, job, wait, step, seen, cur, sent, sweeper, age, sweepIn, others>>

\* A tick takes its triggers one after the other; the claim decides.
Claim(t, r) ==
  /\ cur[t] = None /\ r \in batch[t]
  /\ batch' = [batch EXCEPT ![t] = @ \ {r}]
  /\ \/ /\ Due(r)
        /\ trig' = [trig EXCEPT ![r] = "running"]
        /\ cur' = [cur EXCEPT ![t] = r]
        /\ step' = [step EXCEPT ![r] = "read"]
     \/ ~Due(r) /\ UNCHANGED <<trig, cur, step>>
  /\ UNCHANGED <<ledger, job, wait, seen, sent, sweeper, timing, others>>

Goto(r, s) == step' = [step EXCEPT ![r] = s]

\* The handler has returned: its trigger has fired.
Return(t, r) ==
  /\ trig' = [trig EXCEPT ![r] = "over"]
  /\ cur' = [cur EXCEPT ![t] = None]
  /\ step' = [step EXCEPT ![r] = "idle"]
  /\ seen' = [seen EXCEPT ![r] = 0]

HandlerReads(t, r) ==
  /\ step[r] = "read"
  /\ \/ row[r] # "pending" /\ Return(t, r)
     \/ /\ row[r] = "pending"
        /\ seen' = [seen EXCEPT ![r] = nudges[r]]
        /\ Goto(r, "settle")
        /\ UNCHANGED <<trig, cur>>
  /\ UNCHANGED <<ledger, job, wait, batch, sent, sweeper, timing, others>>

HandlerSettles(t, r) ==
  /\ step[r] = "settle"
  /\ SettleAnswered
  /\ Goto(r, "reread")
  /\ UNCHANGED <<nudges, muted, trig, job, wait, seen, batch, cur, sent, sweeper, timing,
                 acking, answer, crashes, prompt>>

HandlerRereads(t, r) ==
  /\ step[r] = "reread"
  /\ \/ row[r] # "pending" /\ Return(t, r)
     \/ /\ row[r] = "pending"
        /\ Goto(r, IF seen[r] < MaxAutoNudges THEN "check" ELSE "expire")
        /\ UNCHANGED <<trig, cur, seen>>
  /\ UNCHANGED <<ledger, job, wait, batch, sent, sweeper, timing, others>>

\* isMessageAlreadyNudged, isAssigneeMuted: by another receipt.  A query that
\* fails does not mute.
Muted(r) ==
  \E o \in Rows \ {r} : \/ Message[o] = Message[r] /\ nudges[o] > 0
                        \/ To[o] = To[r] /\ muted[o] > 0

HandlerChecks(t, r) ==
  /\ step[r] = "check"
  /\ \/ Muted(r) /\ Return(t, r) /\ UNCHANGED faults
     \/ /\ IF Muted(r) THEN faults < MaxFaults /\ faults' = faults + 1 ELSE UNCHANGED faults
        /\ Goto(r, "send")
        /\ UNCHANGED <<trig, cur, seen>>
  /\ UNCHANGED <<ledger, job, wait, batch, sent, sweeper, timing, acking, answer, crashes, prompt>>

\* dispatchAgentMention with kind 'nudge'
HandlerSends(t, r) ==
  /\ step[r] = "send"
  /\ sent' = [sent EXCEPT ![r] = @ + 1]
  /\ Goto(r, "record")
  /\ UNCHANGED <<ledger, trig, job, wait, seen, batch, cur, sweeper, timing, others>>

\* Mutant of HandlerRecords: only last_nudged_at is written.
HandlerRecordsTimeOnly(t, r) ==
  /\ step[r] = "record"
  /\ muted' = [muted EXCEPT ![r] = Cooldown]
  /\ Goto(r, "follow")
  /\ UNCHANGED <<row, nudges, trig, job, wait, seen, batch, cur, sent, sweeper, timing, others>>

\* recordAutoNudge
HandlerRecords(t, r) ==
  /\ step[r] = "record"
  /\ nudges' = [nudges EXCEPT ![r] = @ + 1]
  /\ muted' = [muted EXCEPT ![r] = Cooldown]
  /\ Goto(r, "follow")
  /\ UNCHANGED <<row, trig, job, wait, seen, batch, cur, sent, sweeper,
                 timing, others>>

\* scheduleExpiryFollowUp, which may fail; the key :expiry is used once.
HandlerFollowsUp(t, r) ==
  /\ step[r] = "follow"
  /\ \/ /\ job[r] = "first"
        /\ trig' = [trig EXCEPT ![r] = "armed"]
        /\ job' = [job EXCEPT ![r] = "followUp"]
        /\ wait' = [wait EXCEPT ![r] = FollowUp]
        /\ cur' = [cur EXCEPT ![t] = None]
        /\ Goto(r, "idle")
        /\ seen' = [seen EXCEPT ![r] = 0]
        /\ UNCHANGED faults
     \/ /\ job[r] = "first" => faults < MaxFaults
        /\ faults' = IF job[r] = "first" THEN faults + 1 ELSE faults
        /\ Return(t, r)
        /\ UNCHANGED <<job, wait>>
  /\ UNCHANGED <<ledger, batch, sent, sweeper, timing, acking, answer, crashes, prompt>>

\* expireAfterAutoNudge
HandlerExpires(t, r) ==
  /\ step[r] = "expire"
  /\ Expire(r)
  /\ Return(t, r)
  /\ UNCHANGED <<job, wait, batch, sent, sweeper, timing, others>>

\* Mutant of HandlerThrows: nobody catches the error and closes the trigger.
HandlerThrowsUncaught(t, r) ==
  /\ step[r] \in {"read", "reread", "send", "record", "expire"} /\ faults < MaxFaults
  /\ faults' = faults + 1
  /\ cur' = [cur EXCEPT ![t] = None]
  /\ step' = [step EXCEPT ![r] = "idle"]
  /\ UNCHANGED <<ledger, trig, job, wait, seen, batch, sent, sweeper, timing, acking, answer,
                 crashes, prompt>>

\* A read, the dispatch or an update throws: the trigger is 'failed'.
HandlerThrows(t, r) ==
  /\ step[r] \in {"read", "reread", "send", "record", "expire"} /\ faults < MaxFaults
  /\ faults' = faults + 1
  /\ Return(t, r)
  /\ UNCHANGED <<ledger, job, wait, batch, sent, sweeper, timing, acking, answer, crashes,
                 prompt>>

HandlerStep(t) ==
  \E r \in {cur[t]} \ {None} :
    \/ HandlerReads(t, r) \/ HandlerSettles(t, r) \/ HandlerRereads(t, r)
    \/ HandlerChecks(t, r) \/ HandlerSends(t, r) \/ HandlerRecords(t, r)
    \/ HandlerFollowsUp(t, r) \/ HandlerExpires(t, r) \/ HandlerThrows(t, r)

-----------------------------------------------------------------------------

Older(a, n) == IF a + n < Grace THEN a + n ELSE Grace
Sooner(w) == IF w > 0 THEN w - 1 ELSE 0
Elapse(n) == age' = [r \in Rows |-> IF row[r] = "none" THEN 0 ELSE Older(age[r], n)]

\* Tickers are on time, and a tick claims its next trigger at once; handlers,
\* sweeps and requests may last.
TimePasses ==
  /\ nudgeIn > 0 /\ sweepIn > 0
  /\ \A t \in Ticks : cur[t] = None => batch[t] = {}
  /\ nudgeIn' = nudgeIn - 1 /\ sweepIn' = sweepIn - 1
  /\ Elapse(1)
  /\ muted' = [r \in Rows |-> Sooner(muted[r])]
  /\ wait' = [r \in Rows |-> Sooner(wait[r])]
  /\ UNCHANGED <<row, nudges, trig, job, step, seen, batch, cur, sent, sweeper,
                 others>>

\* The server restarts: requests, handlers, ticks and the sweep are gone, the
\* triggers they had claimed stay 'firing', and the tickers start anew.
Crash ==
  /\ crashes < MaxCrashes
  /\ crashes' = crashes + 1
  /\ \E n \in {0, Downtime} : Elapse(n)
  /\ trig' = [r \in Rows |-> IF trig[r] = "running" THEN "over" ELSE trig[r]]
  /\ step' = [r \in Rows |-> "idle"]
  /\ seen' = [r \in Rows |-> 0]
  /\ batch' = [t \in Ticks |-> {}]
  /\ cur' = [t \in Ticks |-> None]
  /\ nudgeIn' = NudgePeriod /\ sweepIn' = SweepPeriod
  /\ sweep' = "idle" /\ todo' = {}
  /\ acking' = [a \in Ackers |-> None]
  /\ answer' = [q \in Questions |-> IF answer[q] = "posted" THEN "handled" ELSE answer[q]]
  /\ UNCHANGED <<ledger, job, wait, sent, faults, prompt>>

Next ==
  \/ \E r \in Rows : Open(r) \/ ArmNudge(r) \/ Quote(Message[r]) \/ Supersede(r)
  \/ \E a \in Ackers : AckWrites(a) \/ \E r \in Rows : AckReads(a, r)
  \/ \E q \in Questions : MainPosts(q) \/ MainPostSettles(q)
  \/ SweepTick \/ SweepSettles \/ SweepSelects \/ SweepFails
  \/ \E r \in Rows : SweepExpires(r)
  \/ NudgeTick
  \/ \E t \in Ticks : HandlerStep(t) \/ \E r \in Rows : Claim(t, r)
  \/ TimePasses
  \/ Crash

Spec == Init /\ [][Next]_vars

\* Time passes, tickers tick, a sweep that has started goes on and so does a
\* tick that claims; handlers and requests owe nothing.
Fairness ==
  /\ WF_vars(TimePasses) /\ WF_vars(NudgeTick) /\ WF_vars(SweepTick)
  /\ WF_vars(SweepSettles) /\ WF_vars(SweepSelects)
  /\ WF_vars(\E r \in Rows : SweepExpires(r))
  /\ \A t \in Ticks : WF_vars(\E r \in Rows : Claim(t, r))

FairSpec == Spec /\ Fairness

-----------------------------------------------------------------------------
(* Properties.                                                             *)

\* MAX_AUTO_NUDGES = 1 across triggers, follow-ups, repeated dispatches,
\* errors and restarts: the assignee is nudged at most once for a receipt.
NudgedOnce == \A r \in Rows : sent[r] <= MaxAutoNudges

\* A question that the main agent answered before its receipt fell due is
\* never booked as expired (unless a query failed): both ways to expire look
\* for answers first.
AnsweredInTimeIsNotExpired ==
  \A q \in Questions : <<q, "answer">> \in prompt /\ faults = 0 => row[q] # "expired"

\* The grace period does what it is for: the sweep does not expire a receipt
\* whose nudge, scheduled in time, has not had its turn, across restarts too;
\* unless a tick has taken the nudge up and serves others of its batch first.
NudgeGoesFirst ==
  [][\A r \in Rows :
       SweepExpires(r) /\ trig[r] = "armed" /\ job[r] = "first" /\ <<r, "trigger">> \in prompt
         => \E t \in Ticks : r \in batch[t]]_vars

\* No receipt stays pending for ever (it would block the drain of its fan-out
\* for ever), whatever errors and restarts do to its nudge.
PendingEnds == \A r \in Rows : (row[r] = "pending") ~> (row[r] # "pending")
=============================================================================
