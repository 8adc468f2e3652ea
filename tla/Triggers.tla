------------------------------ MODULE Triggers ------------------------------
(***************************************************************************)
(* The generic trigger service (server/src/timers/trigger.service.ts): the *)
(* `triggers` table, the ticker whose invocations of fireDue() may overlap *)
(* (setInterval waits for nobody), the handlers they await, cancel(), the  *)
(* idempotent schedule(), and the two ways its consumers re-arm a key.     *)
(*                                                                         *)
(* One database statement is one action; whatever the server remembers     *)
(* between two statements (a tick's batch of row snapshots and its clock,  *)
(* a caller's last read) is a variable of its own and is lost in a crash.  *)
(* A statement may fail; nobody does it again.                             *)
(* Diagnostic columns (busyRetries, attempts, lastError, skipReason) and   *)
(* payloads are left out.                                                  *)
(***************************************************************************)
EXTENDS Integers, Sequences, FiniteSets

CONSTANTS
  Rows,          \* ids the id generator can hand out, each at most once
  Keys,          \* dedup keys
  Opt,           \* Opt[k]: what rows of key k are scheduled with, see OptType
  Ticks,         \* fireDue() invocations that can be in flight together
  Callers,       \* requests in flight in schedule() or in a re-arming helper
  None,          \* SQL NULL
  BatchLimit,    \* TRIGGER_FIRE_BATCH_LIMIT
  Jitter,        \* TRIGGER_RESCHEDULE_JITTER_MS
  MaxTime,       \* bound: the database clock stops here
  RetryBound,    \* bound: a handler asks for another date fewer times than this
  MaxCrashes,    \* bound: restarts of the server
  MaxFailures    \* bound: database statements that fail

Outcomes == {"done", "expire", "reschedule", "throw"}

OptType == [every    : (Nat \ {0}) \cup {None},     \* intervalMs
            max      : (Nat \ {0}) \cup {None},     \* maxFires
            expires  : Nat \cup {None},             \* expiresAt
            guarded  : BOOLEAN,                     \* guardKey # null
            outcomes : SUBSET Outcomes,             \* what the kind's handler returns
            rearm    : {"never", "replace", "repair"}]

ASSUME TriggersAssumption ==
  /\ None \notin Nat \cup Keys
  /\ IsFiniteSet(Ticks)
  /\ Opt \in [Keys -> OptType]
  /\ BatchLimit \in Nat \ {0}
  /\ {Jitter, MaxTime, RetryBound, MaxCrashes, MaxFailures} \subseteq Nat

VARIABLES
  status,        \* column status; "unused" and "gone" before and after the row exists
  dedup,         \* column dedup_key
  due,           \* column due_at
  fires,         \* column fire_count
  clock,         \* NOW(3)
  phase,         \* where each tick is in fireDue / fireOne
  now,           \* the clock a tick read when it started
  queue,         \* snapshots of the rows a tick has still to handle
  pc, target,    \* where each caller is, and for which key
  seen,          \* the status a repairing caller read
  crashes,       \* restarts so far
  failures,      \* failed statements so far
  dropped        \* history: rows a restart or a failed statement has left firing

table == <<status, dedup, due, fires>>
ticker == <<phase, now, queue>>
calls == <<pc, target, seen>>
upsets == <<crashes, failures, dropped>>
vars == <<table, clock, ticker, calls, upsets>>

LiveStatus == {"pending", "firing", "fired", "cancelled", "failed"}
Status == LiveStatus \cup {"unused", "gone"}
Phases == {"idle", "select", "scan", "guard", "handler"}
Steps == {"idle", "delete", "purge", "find", "create"}
Snapshot == [id : Rows, fires : Nat]

TypeOK ==
  /\ status \in [Rows -> Status]
  /\ dedup \in [Rows -> Keys \cup {None}]
  /\ \A r \in Rows : status[r] # "unused" => dedup[r] \in Keys
  /\ due \in [Rows -> Nat]
  /\ fires \in [Rows -> Nat]
  /\ clock \in Nat
  /\ phase \in [Ticks -> Phases]
  /\ now \in [Ticks -> Nat]
  /\ queue \in [Ticks -> Seq(Snapshot)]
  /\ pc \in [Callers -> Steps]
  /\ target \in [Callers -> Keys \cup {None}]
  /\ \A c \in Callers : pc[c] # "idle" => target[c] \in Keys
  /\ seen \in [Callers -> Status]
  /\ crashes \in Nat /\ failures \in Nat
  /\ dropped \in SUBSET Rows

Init ==
  /\ status = [r \in Rows |-> "unused"]
  /\ dedup = [r \in Rows |-> None]
  /\ due = [r \in Rows |-> 0]
  /\ fires = [r \in Rows |-> 0]
  /\ clock = 0
  /\ phase = [t \in Ticks |-> "idle"]
  /\ now = [t \in Ticks |-> 0]
  /\ queue = [t \in Ticks |-> <<>>]
  /\ pc = [c \in Callers |-> "idle"]
  /\ target = [c \in Callers |-> None]
  /\ seen = [c \in Callers |-> "unused"]
  /\ crashes = 0 /\ failures = 0 /\ dropped = {}

-----------------------------------------------------------------------------
(* The table.                                                              *)

Live(r) == status[r] \in LiveStatus

\* findUnique({dedupKey}): no row or one row.
Owner(k) == {r \in Rows : Live(r) /\ dedup[r] = k}

\* Mutant of Save: an upsert, which brings a deleted row back.
SaveUpserts(r, s) == status' = [status EXCEPT ![r] = s]

\* update({where: {id}}): on a row deleted meanwhile it throws P2025, which
\* fireDue logs before it goes on with the next row.
Save(r, s) == status' = [status EXCEPT ![r] = IF Live(r) THEN s ELSE @]

\* Mutant of SaveFired: the key is given up once the row has run.
SaveFiredFreesKey(r, s, at) ==
  /\ Save(r, s)
  /\ fires' = [fires EXCEPT ![r] = IF Live(r) THEN @ + 1 ELSE @]
  /\ due' = [due EXCEPT ![r] = IF Live(r) THEN at ELSE @]
  /\ dedup' = [dedup EXCEPT ![r] = None]

SaveFired(r, s, at) ==
  /\ Save(r, s)
  /\ fires' = [fires EXCEPT ![r] = IF Live(r) THEN @ + 1 ELSE @]
  /\ due' = [due EXCEPT ![r] = IF Live(r) THEN at ELSE @]
  /\ UNCHANGED dedup

SaveStatus(r, s) ==
  /\ Save(r, s)
  /\ UNCHANGED <<dedup, due, fires>>

DueRows == {r \in Rows : status[r] = "pending" /\ due[r] <= clock}

-----------------------------------------------------------------------------
(* fireDue and fireOne, statement by statement.                            *)

Head_(t) == Head(queue[t])
Current(t) == Head_(t).id
OptOf(t) == Opt[dedup[Current(t)]]
Running(t, r) == phase[t] \in {"guard", "handler"} /\ Current(t) = r

\* The loop over the batch goes on with the next row, or the tick is over.
NextRow(t) ==
  /\ queue' = [queue EXCEPT ![t] = Tail(@)]
  /\ phase' = [phase EXCEPT ![t] = IF Len(queue[t]) = 1 THEN "idle" ELSE "scan"]
  /\ now' = [now EXCEPT ![t] = IF Len(queue[t]) = 1 THEN 0 ELSE @]

OutsideTick == UNCHANGED <<clock, calls, upsets>>

\* Mutant of StartTick: the ticker is started by the first schedule() of a
\* process instead of at boot, so a restarted server does not tick.
StartTickLazily(t) ==
  /\ phase[t] = "idle" /\ crashes = 0
  /\ phase' = [phase EXCEPT ![t] = "select"]
  /\ now' = [now EXCEPT ![t] = clock]
  /\ UNCHANGED <<table, queue>>
  /\ OutsideTick

\* setInterval calls fireDue(), whatever earlier calls are doing; it reads NOW(3).
StartTick(t) ==
  /\ phase[t] = "idle"
  /\ phase' = [phase EXCEPT ![t] = "select"]
  /\ now' = [now EXCEPT ![t] = clock]
  /\ UNCHANGED <<table, queue>>
  /\ OutsideTick

\* A possible result of ORDER BY due_at LIMIT BatchLimit over the due rows.
DueBatch(batch) ==
  /\ \A i, j \in DOMAIN batch : i < j => batch[i] # batch[j] /\ due[batch[i]] <= due[batch[j]]
  /\ \A r \in DueRows : (\A i \in DOMAIN batch : batch[i] # r) =>
        /\ Len(batch) = BatchLimit
        /\ \A i \in DOMAIN batch : due[batch[i]] <= due[r]

\* Mutant of SelectDue: the raw SELECT forgets the column fire_count.
SelectDueWithoutFires(t) ==
  /\ phase[t] = "select"
  /\ \E n \in 0 .. BatchLimit : \E batch \in [1 .. n -> DueRows] :
       /\ DueBatch(batch)
       /\ queue' = [queue EXCEPT ![t] = [i \in 1 .. n |-> [id |-> batch[i], fires |-> 0]]]
       /\ phase' = [phase EXCEPT ![t] = IF n = 0 THEN "idle" ELSE "scan"]
       /\ now' = [now EXCEPT ![t] = IF n = 0 THEN 0 ELSE @]
  /\ UNCHANGED table
  /\ OutsideTick

SelectDue(t) ==
  /\ phase[t] = "select"
  /\ \E n \in 0 .. BatchLimit : \E batch \in [1 .. n -> DueRows] :
       /\ DueBatch(batch)
       /\ queue' = [queue EXCEPT ![t] =
                      [i \in 1 .. n |-> [id |-> batch[i], fires |-> fires[batch[i]]]]]
       /\ phase' = [phase EXCEPT ![t] = IF n = 0 THEN "idle" ELSE "scan"]
       /\ now' = [now EXCEPT ![t] = IF n = 0 THEN 0 ELSE @]
  /\ UNCHANGED table
  /\ OutsideTick

\* The limits are judged on the tick's snapshot and the tick's clock.
Exhausted(t) ==
  \/ OptOf(t).max # None /\ Head_(t).fires >= OptOf(t).max
  \/ OptOf(t).expires # None /\ now[t] >= OptOf(t).expires

CloseExhausted(t) ==
  /\ phase[t] = "scan" /\ Exhausted(t)
  /\ SaveStatus(Current(t), "cancelled")
  /\ NextRow(t)
  /\ OutsideTick

\* Mutant of Claimable: the claim does not look at the status.
ClaimableWhenDue(r) == Live(r) /\ due[r] <= clock

\* WHERE id AND status = 'pending' AND due_at <= NOW(3)
Claimable(r) == status[r] = "pending" /\ due[r] <= clock

Claim(t) ==
  /\ phase[t] = "scan" /\ ~Exhausted(t) /\ Claimable(Current(t))
  /\ SaveStatus(Current(t), "firing")
  /\ phase' = [phase EXCEPT ![t] = IF OptOf(t).guarded THEN "guard" ELSE "handler"]
  /\ UNCHANGED <<now, queue>>
  /\ OutsideTick

\* The row was claimed by another tick, cancelled, moved or deleted meanwhile.
ClaimLost(t) ==
  /\ phase[t] = "scan" /\ ~Exhausted(t) /\ ~Claimable(Current(t))
  /\ NextRow(t)
  /\ UNCHANGED table
  /\ OutsideTick

GuardPasses(t) ==
  /\ phase[t] = "guard"
  /\ phase' = [phase EXCEPT ![t] = "handler"]
  /\ UNCHANGED <<table, now, queue>>
  /\ OutsideTick

\* Mutant of GuardSkips: the row is left as the claim made it.
GuardSkipsSilently(t) ==
  /\ phase[t] = "guard"
  /\ NextRow(t)
  /\ UNCHANGED table
  /\ OutsideTick

\* The row stays pending with its old date and is looked at in the next round.
GuardSkips(t) ==
  /\ phase[t] = "guard"
  /\ SaveStatus(Current(t), "pending")
  /\ NextRow(t)
  /\ OutsideTick

\* The guard or the handler throws, or none is registered for the kind.
RunFails(t) ==
  /\ \/ phase[t] = "guard"
     \/ phase[t] = "handler" /\ "throw" \in OptOf(t).outcomes
  /\ SaveStatus(Current(t), "failed")
  /\ NextRow(t)
  /\ OutsideTick

HandlerExpires(t) ==
  /\ phase[t] = "handler" /\ "expire" \in OptOf(t).outcomes
  /\ SaveFired(Current(t), "cancelled", due[Current(t)])
  /\ NextRow(t)
  /\ OutsideTick

\* clampOverdue: a date that has passed becomes now + jitter.
Clamp(t, date, j) == IF date > now[t] THEN date ELSE now[t] + j

\* Mutant of HandlerReschedules: the new date is saved, the status is not.
HandlerReschedulesInPlace(t) ==
  /\ phase[t] = "handler" /\ "reschedule" \in OptOf(t).outcomes
  /\ fires[Current(t)] < RetryBound
  /\ \E date \in 0 .. MaxTime, j \in 0 .. Jitter :
       SaveFired(Current(t), status[Current(t)], Clamp(t, date, j))
  /\ NextRow(t)
  /\ OutsideTick

HandlerReschedules(t) ==
  /\ phase[t] = "handler" /\ "reschedule" \in OptOf(t).outcomes
  /\ fires[Current(t)] < RetryBound
  /\ \E date \in 0 .. MaxTime, j \in 0 .. Jitter :
       SaveFired(Current(t), "pending", Clamp(t, date, j))
  /\ NextRow(t)
  /\ OutsideTick

\* A handler that is done closes a one-shot row and moves an interval row on,
\* unless that was its last run or its next run would come too late.
LastRun(t, next) ==
  \/ OptOf(t).max # None /\ Head_(t).fires + 1 >= OptOf(t).max
  \/ OptOf(t).expires # None /\ next >= OptOf(t).expires

HandlerDone(t) ==
  /\ phase[t] = "handler" /\ "done" \in OptOf(t).outcomes
  /\ \/ /\ OptOf(t).every = None
        /\ SaveFired(Current(t), "fired", due[Current(t)])
     \/ /\ OptOf(t).every # None
        /\ \E j \in 0 .. Jitter :
             LET next == now[t] + OptOf(t).every + j IN
             IF LastRun(t, next)
             THEN SaveFired(Current(t), "cancelled", due[Current(t)])
             ELSE SaveFired(Current(t), "pending", next)
  /\ NextRow(t)
  /\ OutsideTick

Fails == failures < MaxFailures /\ failures' = failures + 1

\* A statement of the tick fails.  Without the batch the tick is over; else
\* fireDue logs the error and goes on with the next row.  The claim may have
\* been made all the same; the outcome of a run is lost and its row stays firing.
StatementFails(t) ==
  /\ phase[t] # "idle" /\ Fails
  /\ \/ /\ phase[t] = "select"
        /\ phase' = [phase EXCEPT ![t] = "idle"]
        /\ now' = [now EXCEPT ![t] = 0]
        /\ UNCHANGED <<table, queue, dropped>>
     \/ phase[t] = "scan" /\ NextRow(t) /\ UNCHANGED <<table, dropped>>
     \/ /\ phase[t] = "scan" /\ ~Exhausted(t) /\ Claimable(Current(t))
        /\ SaveStatus(Current(t), "firing")
        /\ NextRow(t)
        /\ dropped' = dropped \cup {Current(t)}
     \/ /\ phase[t] \in {"guard", "handler"}
        /\ NextRow(t)
        /\ dropped' = dropped \cup {Current(t)}
        /\ UNCHANGED table
  /\ UNCHANGED <<clock, calls, crashes>>

TickStep(t) ==
  \/ StartTick(t) \/ SelectDue(t)
  \/ CloseExhausted(t) \/ Claim(t) \/ ClaimLost(t)
  \/ GuardPasses(t) \/ GuardSkips(t) \/ RunFails(t)
  \/ HandlerExpires(t) \/ HandlerReschedules(t) \/ HandlerDone(t)

-----------------------------------------------------------------------------
(* Scheduling, re-arming and cancelling.                                   *)

OutsideCalls == UNCHANGED <<clock, ticker, upsets>>

Goto(c, step, k) ==
  /\ pc' = [pc EXCEPT ![c] = step]
  /\ target' = [target EXCEPT ![c] = IF step = "idle" THEN None ELSE k]

Remember(c, s) == seen' = [seen EXCEPT ![c] = s]

\* A one-off consumer calls schedule() for its key.
Schedule(c, k) ==
  /\ pc[c] = "idle" /\ Opt[k].rearm = "never"
  /\ Goto(c, "find", k)
  /\ UNCHANGED <<table, seen>>
  /\ OutsideCalls

\* persistPatrolTrigger / ensureGlobalPoll: a pending row is kept, any other
\* row of the key is deleted first.
Rearm(c, k) ==
  /\ pc[c] = "idle" /\ Opt[k].rearm = "replace"
  /\ \A r \in Owner(k) : status[r] # "pending"
  /\ Goto(c, IF Owner(k) = {} THEN "find" ELSE "delete", k)
  /\ UNCHANGED <<table, seen>>
  /\ OutsideCalls

\* Mutant of DeleteOwner: the row that is not pending is made pending again.
DeleteOwnerReuses(c) ==
  /\ pc[c] = "delete"
  /\ status' = [r \in Rows |-> IF r \in Owner(target[c]) THEN "pending" ELSE status[r]]
  /\ Goto(c, "find", target[c])
  /\ UNCHANGED <<dedup, due, fires, seen>>
  /\ OutsideCalls

DeleteOwner(c) ==
  /\ pc[c] = "delete"
  /\ status' = [r \in Rows |-> IF r \in Owner(target[c]) THEN "gone" ELSE status[r]]
  /\ Goto(c, "find", target[c])
  /\ UNCHANGED <<dedup, due, fires, seen>>
  /\ OutsideCalls

\* repairHookSide: a row that failed or was cancelled is deleted, provided
\* its status is still the one that was read, and built anew.
Repair(c, k) ==
  /\ pc[c] = "idle" /\ Opt[k].rearm = "repair"
  /\ \/ Owner(k) = {} /\ Goto(c, "create", k) /\ UNCHANGED seen
     \/ \E r \in Owner(k) :
          /\ status[r] \in {"cancelled", "failed"}
          /\ Goto(c, "purge", k)
          /\ Remember(c, status[r])
  /\ UNCHANGED table
  /\ OutsideCalls

PurgeOwner(c) ==
  /\ pc[c] = "purge"
  /\ LET claimed == {r \in Owner(target[c]) : status[r] = seen[c]} IN
       /\ status' = [r \in Rows |-> IF r \in claimed THEN "gone" ELSE status[r]]
       /\ Goto(c, IF claimed = {} THEN "idle" ELSE "create", target[c])
  /\ Remember(c, "unused")
  /\ UNCHANGED <<dedup, due, fires>>
  /\ OutsideCalls

\* schedule(): findUnique; an existing row, whatever its status, is returned.
Find(c) ==
  /\ pc[c] = "find"
  /\ Goto(c, IF Owner(target[c]) = {} THEN "create" ELSE "idle", target[c])
  /\ UNCHANGED <<table, seen>>
  /\ OutsideCalls

\* create: the unique index on dedup_key turns the loser of a race away.
Create(c) ==
  /\ pc[c] = "create"
  /\ \/ Owner(target[c]) # {} /\ UNCHANGED table
     \/ /\ Owner(target[c]) = {}
        /\ \E r \in Rows, at \in clock .. MaxTime :
             /\ status[r] = "unused"
             /\ status' = [status EXCEPT ![r] = "pending"]
             /\ dedup' = [dedup EXCEPT ![r] = target[c]]
             /\ due' = [due EXCEPT ![r] = at]
             /\ UNCHANGED fires
  /\ Goto(c, "idle", None)
  /\ UNCHANGED seen
  /\ OutsideCalls

\* cancel(): an update by id or by dedup key, whatever the status.
Cancel(r) ==
  /\ Live(r)
  /\ SaveStatus(r, "cancelled")
  /\ UNCHANGED <<clock, ticker, calls, upsets>>

\* A statement of a caller fails and ends the call; only the patrol goes on to
\* schedule() when its delete fails.
CallFails(c) ==
  /\ pc[c] # "idle" /\ Fails
  /\ \/ Goto(c, "idle", None)
     \/ pc[c] = "delete" /\ Goto(c, "find", target[c])
  /\ Remember(c, "unused")
  /\ UNCHANGED <<table, clock, ticker, crashes, dropped>>

CallStep(c) ==
  \/ \E k \in Keys : Schedule(c, k) \/ Rearm(c, k) \/ Repair(c, k)
  \/ DeleteOwner(c) \/ PurgeOwner(c) \/ Find(c) \/ Create(c)

-----------------------------------------------------------------------------

TimePasses ==
  /\ clock < MaxTime
  /\ clock' = clock + 1
  /\ UNCHANGED <<table, ticker, calls, upsets>>

\* The server restarts: ticks and callers vanish between two statements, the
\* table stays as it is, and nothing looks after rows left in 'firing'.
Crash ==
  /\ crashes < MaxCrashes
  /\ crashes' = crashes + 1
  /\ phase' = [t \in Ticks |-> "idle"]
  /\ now' = [t \in Ticks |-> 0]
  /\ queue' = [t \in Ticks |-> <<>>]
  /\ pc' = [c \in Callers |-> "idle"]
  /\ target' = [c \in Callers |-> None]
  /\ seen' = [c \in Callers |-> "unused"]
  /\ dropped' = dropped \cup {r \in Rows : status[r] = "firing"}
  /\ UNCHANGED <<table, clock, failures>>

Next ==
  \/ \E t \in Ticks : TickStep(t) \/ StatementFails(t)
  \/ \E c \in Callers : CallStep(c) \/ CallFails(c)
  \/ \E r \in Rows : Cancel(r)
  \/ TimePasses
  \/ Crash

Spec == Init /\ [][Next]_vars

\* The ticker keeps ticking, a tick that has started goes on (its guards and
\* handlers settle), and time passes.  Callers and cancels owe nothing.
Fairness ==
  /\ \A t \in Ticks : WF_vars(TickStep(t))
  /\ WF_vars(TimePasses)

FairSpec == Spec /\ Fairness

-----------------------------------------------------------------------------
(* Properties.                                                             *)

\* However ticks overlap, no row is in the hands of two of them: the claim is
\* the only way in, and nobody but the claimer makes the row pending again.
OneRunPerRow ==
  \A t1, t2 \in Ticks, r \in Rows : Running(t1, r) /\ Running(t2, r) => t1 = t2

\* While a tick runs a row, the row is firing unless it was cancelled or
\* deleted behind the tick's back; and a tick that works has a row to work on.
ClaimHeld ==
  /\ \A t \in Ticks : phase[t] \in {"scan", "guard", "handler"} => queue[t] # <<>>
  /\ \A t \in Ticks, r \in Rows : Running(t, r) => status[r] \in {"firing", "cancelled", "gone"}

\* No path through a tick forgets a row it has claimed: a row that is firing is
\* being run, unless a restart or a failed statement dropped it.
FiringIsHeld ==
  \A r \in Rows : status[r] = "firing" => r \in dropped \/ \E t \in Ticks : Running(t, r)

\* What is left of maxFires when ticks overlap: a snapshot taken before the
\* last permitted run lets its tick run the row once more, so a row may exceed
\* its limit by one run for every tick but one.
BoundedOvershoot ==
  \A r \in Rows : Live(r) /\ Opt[dedup[r]].max # None =>
    fires[r] <= Opt[dedup[r]].max + Cardinality(Ticks) - 1

\* A due row does not stay due: some tick claims it, closes it or finds it
\* gone, if all the rows fit in one batch.
DueIsServed ==
  \A r \in Rows : (r \in DueRows) ~> (r \notin DueRows)

\* A one-shot row without a guard is over some day, whatever its handler
\* returns, unless a restart caught it running or the statement that should
\* close it failed: nothing looks after a row that was dropped so.
Settled(r) == status[r] \in {"fired", "cancelled", "failed", "gone"}

OneShotSettles ==
  \A r \in Rows :
    (status[r] = "pending" /\ Opt[dedup[r]].every = None /\ ~Opt[dedup[r]].guarded)
      ~> (Settled(r) \/ (r \in dropped /\ status[r] = "firing"))

\* The life of each row as TriggerLedger tells it: whoever runs it, it is
\* running, even when its row has been cancelled or deleted; otherwise its
\* status says whether it can still run.
LedgerOf(r) ==
  IF \E t \in Ticks : Running(t, r) THEN "running"
  ELSE IF status[r] = "unused" THEN "free"
  ELSE IF status[r] = "pending" THEN "armed" ELSE "over"

Ledger == INSTANCE TriggerLedger WITH ledger <- [r \in Rows |-> LedgerOf(r)]

\* Triggers implements TriggerLedger: a row is armed once, runs only when
\* armed, one run at a time, and is never revived once it is over.
ImplementsLedger == Ledger!Spec
=============================================================================
