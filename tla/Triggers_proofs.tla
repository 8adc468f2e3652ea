-------------------------- MODULE Triggers_proofs --------------------------
(***************************************************************************)
(* Proofs about Triggers, for any set of rows, keys, ticks and callers and *)
(* any bounds.                                                             *)
(*                                                                         *)
(* OneRunPerRow is not inductive by itself.  A claim needs a pending row,  *)
(* so what excludes a second run is that the row of a running tick is not  *)
(* pending (ClaimHeld); that in turn survives the end of another run only  *)
(* because the other run is of another row (OneRunPerRow).  The two are    *)
(* therefore proved together, with the types they need.                    *)
(***************************************************************************)
EXTENDS Triggers, SequenceTheorems, FiniteSetTheorems, TLAPS

IInv == TypeOK /\ ClaimHeld /\ OneRunPerRow

Working == {"scan", "guard", "handler"}

-----------------------------------------------------------------------------
(* What a tick that works has in its hands.                                *)

\* A tick at work has a row in its queue.
LEMMA WorkingTick ==
  ASSUME TypeOK, ClaimHeld, NEW t \in Ticks, phase[t] \in Working
  PROVE  /\ queue[t] \in Seq(Snapshot) /\ queue[t] # <<>>
         /\ Head_(t) \in Snapshot /\ Current(t) \in Rows
         /\ Tail(queue[t]) \in Seq(Snapshot)
         /\ Len(queue[t]) # 1 => Tail(queue[t]) # <<>>
<1>1. queue[t] \in Seq(Snapshot) /\ queue[t] # <<>>
  BY DEF TypeOK, ClaimHeld, Working
<1>2. Head(queue[t]) \in Snapshot /\ Tail(queue[t]) \in Seq(Snapshot)
  BY <1>1
<1>3. Len(queue[t]) # 1 => Tail(queue[t]) # <<>>
  <2>1. Len(queue[t]) \in Nat \ {0} /\ Len(Tail(queue[t])) = Len(queue[t]) - 1
    BY <1>1, EmptySeq, HeadTailProperties
  <2>2. Len(<<>>) = 0
    BY EmptySeq
  <2>3. Tail(queue[t]) = <<>> => Len(Tail(queue[t])) = 0
    BY <2>2
  <2>4. QED
    BY <2>1, <2>3
<1>4. QED
  BY <1>1, <1>2, <1>3 DEF Head_, Current, Snapshot

\* After NextRow the tick holds no row in a run, and the others hold theirs.
LEMMA NextRowTicker ==
  ASSUME TypeOK, ClaimHeld, NEW t \in Ticks, phase[t] \in Working, NextRow(t)
  PROVE  /\ phase' \in [Ticks -> Phases] /\ now' \in [Ticks -> Nat]
         /\ queue' \in [Ticks -> Seq(Snapshot)]
         /\ \A u \in Ticks : phase'[u] \in Working => queue'[u] # <<>>
         /\ \A u \in Ticks, r \in Rows : Running(u, r)' <=> (u # t /\ Running(u, r))
<1>1. /\ Tail(queue[t]) \in Seq(Snapshot)
      /\ Len(queue[t]) # 1 => Tail(queue[t]) # <<>>
  BY WorkingTick
<1>2. /\ phase' \in [Ticks -> Phases] /\ now' \in [Ticks -> Nat]
      /\ queue' \in [Ticks -> Seq(Snapshot)]
  BY <1>1 DEF NextRow, TypeOK, Phases
<1>3. phase'[t] \in {"idle", "scan"} /\ queue'[t] = Tail(queue[t])
  BY DEF NextRow, TypeOK
<1>4. \A u \in Ticks : u # t => phase'[u] = phase[u] /\ queue'[u] = queue[u]
  BY DEF NextRow, TypeOK
<1>5. \A u \in Ticks : phase'[u] \in Working => queue'[u] # <<>>
  BY <1>1, <1>4 DEF NextRow, TypeOK, ClaimHeld, Working
<1>6. \A u \in Ticks, r \in Rows : Running(u, r)' <=> (u # t /\ Running(u, r))
  BY <1>3, <1>4 DEF Running, Current, Head_
<1>7. QED
  BY <1>2, <1>5, <1>6

-----------------------------------------------------------------------------
(* The three parts of the invariant for a step of a tick that leaves its   *)
(* row r with a status of the live ones, or leaves the table alone.        *)

\* What a step of a tick does outside the table and the ticker.
Elsewhere ==
  /\ UNCHANGED <<clock, pc, target, seen>>
  /\ crashes' \in Nat /\ failures' \in Nat /\ dropped' \in SUBSET Rows

\* OutsideTick is the case in which the counters and the history rest too.
LEMMA OutsideIsElsewhere ==
  ASSUME TypeOK, OutsideTick
  PROVE  Elsewhere
BY DEF TypeOK, OutsideTick, Elsewhere, calls, upsets

\* A tick that lets go of its row, with a write of its outcome or without, keeps the invariant.
LEMMA LeaveRow ==
  ASSUME IInv, NEW t \in Ticks, phase[t] \in Working, NextRow(t), Elsewhere,
         \/ UNCHANGED table
         \/ \E s \in LiveStatus, at \in Nat :
              \/ /\ SaveStatus(Current(t), s)
                 /\ phase[t] = "scan" => s = "cancelled" \/ status[Current(t)] = "pending"
              \/ /\ SaveFired(Current(t), s, at)
                 /\ phase[t] # "scan"
  PROVE  IInv'
<1>1. Current(t) \in Rows
  BY WorkingTick DEF IInv
<1>2. /\ phase' \in [Ticks -> Phases] /\ now' \in [Ticks -> Nat]
      /\ queue' \in [Ticks -> Seq(Snapshot)]
      /\ \A u \in Ticks : phase'[u] \in Working => queue'[u] # <<>>
      /\ \A u \in Ticks, r \in Rows : Running(u, r)' <=> (u # t /\ Running(u, r))
  BY NextRowTicker DEF IInv
<1>3. /\ status' \in [Rows -> Status] /\ dedup' = dedup
      /\ due' \in [Rows -> Nat] /\ fires' \in [Rows -> Nat]
      /\ \A r \in Rows : status'[r] = "unused" <=> status[r] = "unused"
      /\ \A r \in Rows : r # Current(t) => status'[r] = status[r]
  <2>1. CASE UNCHANGED table
    BY <2>1 DEF IInv, TypeOK, table
  <2>2. ASSUME NEW s \in LiveStatus, SaveStatus(Current(t), s)
        PROVE  <1>3
    BY <1>1, <2>2 DEF IInv, TypeOK, SaveStatus, Save, Live, LiveStatus, Status
  <2>3. ASSUME NEW s \in LiveStatus, NEW at \in Nat, SaveFired(Current(t), s, at)
        PROVE  <1>3
    <3>1. /\ status' \in [Rows -> Status] /\ dedup' = dedup
          /\ \A r \in Rows : status'[r] = "unused" <=> status[r] = "unused"
          /\ \A r \in Rows : r # Current(t) => status'[r] = status[r]
      BY <1>1, <2>3 DEF IInv, TypeOK, SaveFired, Save, Live, LiveStatus, Status
    <3>2. due' \in [Rows -> Nat] /\ fires' \in [Rows -> Nat]
      BY <1>1, <2>3 DEF IInv, TypeOK, SaveFired
    <3>3. QED
      BY <3>1, <3>2
  <2>4. QED
    BY <2>1, <2>2, <2>3
<1>5. phase[t] = "scan" =>
        \/ status'[Current(t)] = status[Current(t)]
        \/ status'[Current(t)] = "cancelled"
        \/ status[Current(t)] = "pending"
  BY <1>1 DEF IInv, TypeOK, SaveStatus, Save, table
<1>6. TypeOK'
  BY <1>2, <1>3 DEF IInv, TypeOK, Elsewhere
<1>7. OneRunPerRow'
  BY <1>2 DEF IInv, OneRunPerRow
<1>8. \A u \in Ticks, r \in Rows : Running(u, r)' => status'[r] \in {"firing", "cancelled", "gone"}
  <2> SUFFICES ASSUME NEW u \in Ticks, NEW r \in Rows, Running(u, r)'
               PROVE  status'[r] \in {"firing", "cancelled", "gone"}
    OBVIOUS
  <2>1. u # t /\ Running(u, r)
    BY <1>2
  <2>2. status[r] \in {"firing", "cancelled", "gone"}
    BY <2>1 DEF IInv, ClaimHeld
  <2>3. CASE r # Current(t)
    BY <2>2, <2>3, <1>3
  <2>4. CASE r = Current(t)
    <3>1. phase[t] = "scan"
      BY <2>1, <2>4 DEF IInv, OneRunPerRow, Running, Working
    <3>2. QED
      BY <3>1, <2>2, <2>4, <1>5
  <2>5. QED
    BY <2>3, <2>4
<1>9. ClaimHeld'
  BY <1>2, <1>8 DEF ClaimHeld, Working
<1>10. QED
  BY <1>6, <1>7, <1>9 DEF IInv

-----------------------------------------------------------------------------
(* One lemma for each kind of step.                                        *)

\* The invariant holds at first.
LEMMA InitInv == Init => IInv
<1> SUFFICES ASSUME Init PROVE IInv
  OBVIOUS
<1>1. TypeOK
  <2>1. \A t \in Ticks : queue[t] \in Seq(Snapshot)
    BY EmptySeq DEF Init
  <2>2. QED
    BY <2>1 DEF Init, TypeOK, Status, Phases, Steps
<1>2. ClaimHeld /\ OneRunPerRow
  BY DEF Init, ClaimHeld, OneRunPerRow, Running
<1>3. QED
  BY <1>1, <1>2 DEF IInv

\* A tick that starts has no row yet.
LEMMA StartTickInv ==
  ASSUME IInv, NEW t \in Ticks, StartTick(t)
  PROVE  IInv'
<1>1. /\ phase' = [phase EXCEPT ![t] = "select"] /\ now' = [now EXCEPT ![t] = clock]
      /\ UNCHANGED <<status, dedup, due, fires, queue, clock, pc, target, seen>>
      /\ UNCHANGED <<crashes, failures, dropped>>
  BY DEF StartTick, OutsideTick, table, calls, upsets
<1>2. TypeOK'
  BY <1>1 DEF IInv, TypeOK, Phases
<1>3. \A u \in Ticks, r \in Rows : Running(u, r)' => Running(u, r)
  BY <1>1 DEF IInv, TypeOK, Running, Current, Head_
<1>4. ClaimHeld'
  BY <1>1, <1>3 DEF IInv, TypeOK, ClaimHeld
<1>5. OneRunPerRow'
  BY <1>3 DEF IInv, OneRunPerRow
<1>6. QED
  BY <1>2, <1>4, <1>5 DEF IInv

\* The rows a tick selects are in nobody's hands through it.
LEMMA SelectDueInv ==
  ASSUME IInv, NEW t \in Ticks, SelectDue(t)
  PROVE  IInv'
<1>0. PICK n \in 0 .. BatchLimit : \E batch \in [1 .. n -> DueRows] :
        /\ queue' = [queue EXCEPT ![t] =
                       [i \in 1 .. n |-> [id |-> batch[i], fires |-> fires[batch[i]]]]]
        /\ phase' = [phase EXCEPT ![t] = IF n = 0 THEN "idle" ELSE "scan"]
        /\ now' = [now EXCEPT ![t] = IF n = 0 THEN 0 ELSE @]
  BY DEF SelectDue
<1>1. PICK batch \in [1 .. n -> DueRows] :
        /\ queue' = [queue EXCEPT ![t] =
                       [i \in 1 .. n |-> [id |-> batch[i], fires |-> fires[batch[i]]]]]
        /\ phase' = [phase EXCEPT ![t] = IF n = 0 THEN "idle" ELSE "scan"]
        /\ now' = [now EXCEPT ![t] = IF n = 0 THEN 0 ELSE @]
  BY <1>0
<1> DEFINE fresh == [i \in 1 .. n |-> [id |-> batch[i], fires |-> fires[batch[i]]]]
<1>2. n \in Nat
  BY TriggersAssumption
<1>3. fresh \in Seq(Snapshot)
  <2>1. \A i \in 1 .. n : [id |-> batch[i], fires |-> fires[batch[i]]] \in Snapshot
    BY <1>1 DEF IInv, TypeOK, Snapshot, DueRows
  <2>2. fresh \in [1 .. n -> Snapshot]
    BY <2>1
  <2>3. QED
    BY <2>2, <1>2, SeqDef
<1>4. n # 0 => fresh # <<>>
  <2>1. fresh \in [1 .. n -> Snapshot] /\ DOMAIN fresh = 1 .. n
    BY <1>1 DEF IInv, TypeOK, Snapshot, DueRows
  <2>2. Len(fresh) = n
    BY <2>1, <1>2, <1>3, LenProperties
  <2>3. fresh = <<>> => Len(fresh) = 0
    BY EmptySeq
  <2>4. QED
    BY <2>2, <2>3
<1>5. queue'[t] = fresh /\ queue' = [queue EXCEPT ![t] = fresh]
  BY <1>1 DEF IInv, TypeOK
<1> HIDE DEF fresh
<1>6. /\ UNCHANGED <<status, dedup, due, fires, clock, pc, target, seen, crashes, failures, dropped>>
      /\ phase' \in [Ticks -> Phases] /\ now' \in [Ticks -> Nat]
      /\ queue' \in [Ticks -> Seq(Snapshot)]
  BY <1>1, <1>3, <1>5 DEF SelectDue, OutsideTick, table, calls, upsets, IInv, TypeOK, Phases
<1>7. TypeOK'
  BY <1>6 DEF IInv, TypeOK
<1>8. \A u \in Ticks, r \in Rows : Running(u, r)' => Running(u, r)
  BY <1>1, <1>5 DEF IInv, TypeOK, Running, Current, Head_
<1>9. \A u \in Ticks : phase'[u] \in Working => queue'[u] # <<>>
  BY <1>1, <1>4, <1>5 DEF IInv, TypeOK, ClaimHeld, Working
<1>10. ClaimHeld'
  BY <1>6, <1>8, <1>9 DEF IInv, ClaimHeld, Working
<1>11. OneRunPerRow'
  BY <1>8 DEF IInv, OneRunPerRow
<1>12. QED
  BY <1>7, <1>10, <1>11 DEF IInv

\* The claim: the row was pending, so by ClaimHeld no other tick runs it.
LEMMA ClaimInv ==
  ASSUME IInv, NEW t \in Ticks, Claim(t)
  PROVE  IInv'
<1>1. phase[t] = "scan" /\ Current(t) \in Rows /\ status[Current(t)] = "pending"
  BY WorkingTick DEF Claim, Claimable, IInv, Working
<1>2. /\ status' = [status EXCEPT ![Current(t)] = "firing"]
      /\ UNCHANGED <<dedup, due, fires, now, queue, clock, pc, target, seen>>
      /\ UNCHANGED <<crashes, failures, dropped>>
  BY <1>1 DEF Claim, SaveStatus, Save, Live, LiveStatus, OutsideTick, calls, upsets, IInv, TypeOK
<1>3. /\ phase'[t] \in {"guard", "handler"} /\ phase' \in [Ticks -> Phases]
      /\ \A u \in Ticks : u # t => phase'[u] = phase[u]
  BY DEF Claim, IInv, TypeOK, Phases
<1>4. TypeOK'
  BY <1>1, <1>2, <1>3 DEF IInv, TypeOK, Status, LiveStatus
<1>5. \A u \in Ticks, r \in Rows :
        Running(u, r)' <=> (u = t /\ r = Current(t)) \/ (u # t /\ Running(u, r))
  BY <1>1, <1>2, <1>3 DEF Running, Current, Head_
<1>6. \A u \in Ticks : ~Running(u, Current(t))
  BY <1>1 DEF IInv, ClaimHeld
<1>7. OneRunPerRow'
  BY <1>5, <1>6 DEF IInv, OneRunPerRow
<1>8. ClaimHeld'
  <2>1. \A u \in Ticks : phase'[u] \in Working => queue'[u] # <<>>
    BY <1>1, <1>2, <1>3 DEF IInv, ClaimHeld, Working
  <2>2. \A u \in Ticks, r \in Rows : Running(u, r)' => status'[r] \in {"firing", "cancelled", "gone"}
    BY <1>1, <1>2, <1>5, <1>6 DEF IInv, TypeOK, ClaimHeld
  <2>3. QED
    BY <2>1, <2>2 DEF ClaimHeld, Working
<1>9. QED
  BY <1>4, <1>7, <1>8 DEF IInv

\* A guard that passes leaves the row with its tick.
LEMMA GuardPassesInv ==
  ASSUME IInv, NEW t \in Ticks, GuardPasses(t)
  PROVE  IInv'
<1>1. /\ phase[t] = "guard" /\ phase' = [phase EXCEPT ![t] = "handler"]
      /\ UNCHANGED <<status, dedup, due, fires, now, queue, clock, pc, target, seen>>
      /\ UNCHANGED <<crashes, failures, dropped>>
  BY DEF GuardPasses, OutsideTick, table, calls, upsets
<1>2. TypeOK'
  BY <1>1 DEF IInv, TypeOK, Phases
<1>3. \A u \in Ticks, r \in Rows : Running(u, r)' <=> Running(u, r)
  BY <1>1 DEF IInv, TypeOK, Running, Current, Head_
<1>4. ClaimHeld'
  BY <1>1, <1>3 DEF IInv, TypeOK, ClaimHeld
<1>5. OneRunPerRow'
  BY <1>3 DEF IInv, OneRunPerRow
<1>6. QED
  BY <1>2, <1>4, <1>5 DEF IInv

\* Every step with which a tick ends its work on a row is a LeaveRow step.
LEMMA LeavingInv ==
  ASSUME IInv, NEW t \in Ticks,
         \/ CloseExhausted(t) \/ ClaimLost(t) \/ GuardSkips(t) \/ RunFails(t)
         \/ HandlerExpires(t) \/ HandlerReschedules(t) \/ HandlerDone(t)
  PROVE  IInv'
<1>1. /\ phase[t] \in Working /\ NextRow(t) /\ OutsideTick
      /\ Elsewhere
  BY OutsideIsElsewhere DEF IInv, CloseExhausted, ClaimLost, GuardSkips, RunFails, HandlerExpires, HandlerReschedules,
         HandlerDone, Working
<1>2. Current(t) \in Rows /\ due[Current(t)] \in Nat /\ now[t] \in Nat
  BY <1>1, WorkingTick DEF IInv, TypeOK
<1> DEFINE Leaves ==
      \/ UNCHANGED table
      \/ \E s \in LiveStatus, at \in Nat :
           \/ /\ SaveStatus(Current(t), s)
              /\ phase[t] = "scan" => s = "cancelled" \/ status[Current(t)] = "pending"
           \/ /\ SaveFired(Current(t), s, at)
              /\ phase[t] # "scan"
<1>3. Leaves
  <2>1. CASE CloseExhausted(t)
    BY <2>1 DEF CloseExhausted, LiveStatus
  <2>2. CASE ClaimLost(t)
    BY <2>2 DEF ClaimLost
  <2>3. CASE GuardSkips(t)
    BY <2>3 DEF GuardSkips, LiveStatus
  <2>4. CASE RunFails(t)
    BY <2>4 DEF RunFails, LiveStatus
  <2>5. CASE HandlerExpires(t)
    BY <2>5, <1>2 DEF HandlerExpires, LiveStatus
  <2>6. CASE HandlerReschedules(t)
    <3>1. PICK date \in 0 .. MaxTime, j \in 0 .. Jitter :
            SaveFired(Current(t), "pending", Clamp(t, date, j))
      BY <2>6 DEF HandlerReschedules
    <3>2. Clamp(t, date, j) \in Nat
      BY <1>2, TriggersAssumption DEF Clamp
    <3>3. QED
      BY <2>6, <3>1, <3>2 DEF HandlerReschedules, LiveStatus
  <2>7. CASE HandlerDone(t)
    <3>1. OptOf(t) \in OptType
      <4>1. Running(t, Current(t))
        BY <2>7 DEF HandlerDone, Running
      <4>2. status[Current(t)] # "unused"
        BY <4>1, <1>2 DEF IInv, ClaimHeld
      <4>3. QED
        BY <4>2, <1>2, TriggersAssumption DEF IInv, TypeOK, OptOf
    <3>2. CASE OptOf(t).every = None /\ SaveFired(Current(t), "fired", due[Current(t)])
      BY <2>7, <3>2, <1>2 DEF HandlerDone, LiveStatus
    <3>3. CASE OptOf(t).every # None
      <4>1. PICK j \in 0 .. Jitter :
              LET next == now[t] + OptOf(t).every + j IN
              IF LastRun(t, next)
              THEN SaveFired(Current(t), "cancelled", due[Current(t)])
              ELSE SaveFired(Current(t), "pending", next)
        BY <2>7, <3>3 DEF HandlerDone
      <4>2. now[t] + OptOf(t).every + j \in Nat
        BY <1>2, <3>1, <3>3, TriggersAssumption DEF OptType
      <4>3. QED
        BY <2>7, <4>1, <4>2, <1>2 DEF HandlerDone, LiveStatus
    <3>4. QED
      BY <2>7, <3>2, <3>3 DEF HandlerDone
  <2>8. QED
    BY <2>1, <2>2, <2>3, <2>4, <2>5, <2>6, <2>7
<1>4. QED
  BY <1>1, <1>3, LeaveRow

\* What a statement that fails leaves: a tick without a batch, or a row that is
\* let go with its status as it was or, when the claim was made, firing.
LostClaim(t) ==
  /\ phase[t] = "scan" /\ status[Current(t)] = "pending"
  /\ SaveStatus(Current(t), "firing")

\* The three outcomes of a failed statement.
LEMMA FailureCases ==
  ASSUME IInv, NEW t \in Ticks, StatementFails(t)
  PROVE  /\ Elsewhere
         /\ \/ /\ phase[t] = "select" /\ UNCHANGED <<table, queue>>
               /\ phase' = [phase EXCEPT ![t] = "idle"]
               /\ now' = [now EXCEPT ![t] = 0]
            \/ /\ phase[t] \in Working /\ NextRow(t)
               /\ UNCHANGED table \/ LostClaim(t)
<1>1. phase[t] \in Working => Current(t) \in Rows
  BY WorkingTick DEF IInv
<1>2. Elsewhere
  BY <1>1 DEF StatementFails, Fails, Elsewhere, calls, IInv, TypeOK, Working
<1> QED
  BY <1>2 DEF StatementFails, LostClaim, Claimable, Working

\* A statement that fails costs the tick its batch or its row at most.
LEMMA StatementFailsInv ==
  ASSUME IInv, NEW t \in Ticks, StatementFails(t)
  PROVE  IInv'
<1>1. CASE /\ phase[t] = "select" /\ UNCHANGED <<table, queue>>
           /\ phase' = [phase EXCEPT ![t] = "idle"]
           /\ now' = [now EXCEPT ![t] = 0]
           /\ Elsewhere
  <2>1. TypeOK'
    BY <1>1 DEF IInv, TypeOK, Phases, Elsewhere, table
  <2>2. \A u \in Ticks, r \in Rows : Running(u, r)' => Running(u, r)
    BY <1>1 DEF IInv, TypeOK, Running, Current, Head_
  <2>3. ClaimHeld'
    BY <1>1, <2>2 DEF IInv, TypeOK, ClaimHeld, table
  <2>4. OneRunPerRow'
    BY <2>2 DEF IInv, OneRunPerRow
  <2> QED
    BY <2>1, <2>3, <2>4 DEF IInv
<1>2. CASE /\ phase[t] \in Working /\ NextRow(t) /\ Elsewhere
           /\ UNCHANGED table \/ LostClaim(t)
  <2>1. 0 \in Nat /\ "firing" \in LiveStatus
    BY DEF LiveStatus
  <2> QED
    BY <1>2, <2>1, LeaveRow DEF LostClaim
<1> QED
  BY <1>1, <1>2, FailureCases

\* Steps that leave the ticks alone and only close, delete or create rows.
LEMMA OutsideTicksInv ==
  ASSUME IInv, UNCHANGED ticker,
         \A r \in Rows : status'[r] # status[r] =>
                           status[r] = "unused" \/ status'[r] \in {"cancelled", "gone"}
  PROVE  ClaimHeld' /\ OneRunPerRow'
<1>1. \A u \in Ticks, r \in Rows : Running(u, r)' <=> Running(u, r)
  BY DEF ticker, Running, Current, Head_
<1>2. OneRunPerRow'
  BY <1>1 DEF IInv, OneRunPerRow
<1>3. \A u \in Ticks, r \in Rows : Running(u, r)' => status'[r] \in {"firing", "cancelled", "gone"}
  <2> SUFFICES ASSUME NEW u \in Ticks, NEW r \in Rows, Running(u, r)
               PROVE  status'[r] \in {"firing", "cancelled", "gone"}
    BY <1>1
  <2>1. status[r] \in {"firing", "cancelled", "gone"}
    BY DEF IInv, ClaimHeld
  <2>2. QED
    BY <2>1
<1>4. ClaimHeld'
  BY <1>3 DEF IInv, ClaimHeld, ticker
<1>5. QED
  BY <1>2, <1>4

\* The types of a caller's own variables after Goto.
LEMMA GotoType ==
  ASSUME TypeOK, NEW c \in Callers, NEW step \in Steps, NEW k \in Keys, Goto(c, step, k)
  PROVE  /\ pc' \in [Callers -> Steps] /\ target' \in [Callers -> Keys \cup {None}]
         /\ \A d \in Callers : pc'[d] # "idle" => target'[d] \in Keys
BY DEF TypeOK, Goto, Steps

\* The statements of schedule() and of re-arming make no row pending that a tick has.
LEMMA CallStepInv ==
  ASSUME IInv, NEW c \in Callers, CallStep(c)
  PROVE  IInv'
<1> USE DEF IInv
<1>1. ASSUME NEW k \in Keys, Schedule(c, k) \/ Rearm(c, k) \/ Repair(c, k)
      PROVE  IInv'
  <2>1. UNCHANGED table /\ OutsideCalls
    BY <1>1 DEF Schedule, Rearm, Repair
  <2>2. \E step \in Steps : Goto(c, step, k)
    BY <1>1 DEF Schedule, Rearm, Repair, Steps
  <2>3. seen' \in [Callers -> Status]
    BY <1>1 DEF Schedule, Rearm, Repair, Remember, TypeOK, Status, LiveStatus
  <2>4. TypeOK'
    BY <2>1, <2>2, <2>3, GotoType DEF TypeOK, table, OutsideCalls, ticker, upsets
  <2>5. QED
    BY <2>1, <2>4, OutsideTicksInv DEF table, OutsideCalls
<1>2. CASE DeleteOwner(c) \/ PurgeOwner(c)
  <2>1. /\ status' \in [Rows -> Status]
        /\ \A r \in Rows : status'[r] = status[r] \/ (Live(r) /\ status'[r] = "gone")
    BY <1>2 DEF DeleteOwner, PurgeOwner, Owner, TypeOK, Status
  <2>2. UNCHANGED <<dedup, due, fires>> /\ OutsideCalls /\ target[c] \in Keys
    BY <1>2 DEF DeleteOwner, PurgeOwner, TypeOK
  <2>3. \E step \in Steps : Goto(c, step, target[c])
    BY <1>2 DEF DeleteOwner, PurgeOwner, Steps
  <2>4. seen' \in [Callers -> Status]
    BY <1>2 DEF DeleteOwner, PurgeOwner, Remember, TypeOK, Status
  <2>5. \A r \in Rows : status'[r] # "unused" => status[r] # "unused"
    BY <2>1 DEF Live, LiveStatus
  <2>6. TypeOK'
    BY <2>1, <2>2, <2>3, <2>4, <2>5, GotoType DEF TypeOK, OutsideCalls, ticker, upsets
  <2>7. QED
    BY <2>1, <2>2, <2>6, OutsideTicksInv DEF OutsideCalls, TypeOK
<1>3. CASE Find(c)
  <2>1. UNCHANGED <<status, dedup, due, fires, seen>> /\ OutsideCalls /\ target[c] \in Keys
    BY <1>3 DEF Find, table, TypeOK
  <2>2. \E step \in Steps : Goto(c, step, target[c])
    BY <1>3 DEF Find, Steps
  <2>3. TypeOK'
    BY <2>1, <2>2, GotoType DEF TypeOK, OutsideCalls, ticker, upsets
  <2>4. QED
    BY <2>1, <2>3, OutsideTicksInv DEF OutsideCalls
<1>4. CASE Create(c)
  <2>1. OutsideCalls /\ UNCHANGED seen /\ target[c] \in Keys
    BY <1>4 DEF Create, TypeOK
  <2>2. /\ pc' \in [Callers -> Steps] /\ target' \in [Callers -> Keys \cup {None}]
        /\ \A d \in Callers : pc'[d] # "idle" => target'[d] \in Keys
    BY <1>4 DEF Create, Goto, TypeOK, Steps
  <2>3. CASE UNCHANGED table
    <3>1. TypeOK'
      BY <2>1, <2>2, <2>3 DEF TypeOK, OutsideCalls, ticker, upsets, table
    <3>2. QED
      BY <2>1, <2>3, <3>1, OutsideTicksInv DEF OutsideCalls, table
  <2>4. CASE ~UNCHANGED table
    <3>1. PICK r \in Rows, at \in clock .. MaxTime :
            /\ status[r] = "unused"
            /\ status' = [status EXCEPT ![r] = "pending"]
            /\ dedup' = [dedup EXCEPT ![r] = target[c]]
            /\ due' = [due EXCEPT ![r] = at]
            /\ UNCHANGED fires
      BY <1>4, <2>4 DEF Create
    <3>2. at \in Nat
      BY TriggersAssumption DEF TypeOK
    <3>3. TypeOK'
      BY <2>1, <2>2, <3>1, <3>2 DEF TypeOK, OutsideCalls, ticker, upsets, Status, LiveStatus
    <3>4. QED
      BY <2>1, <3>1, <3>3, OutsideTicksInv DEF OutsideCalls, TypeOK
  <2>5. QED
    BY <2>3, <2>4
<1>5. QED
  BY <1>1, <1>2, <1>3, <1>4 DEF CallStep

\* A call that fails leaves the table and the ticks alone.
LEMMA CallFailsInv ==
  ASSUME IInv, NEW c \in Callers, CallFails(c)
  PROVE  IInv'
<1>1. /\ pc' \in [Callers -> Steps] /\ target' \in [Callers -> Keys \cup {None}]
      /\ \A d \in Callers : pc'[d] # "idle" => target'[d] \in Keys
  BY DEF CallFails, Goto, IInv, TypeOK, Steps
<1>2. seen' \in [Callers -> Status]
  BY DEF CallFails, Remember, IInv, TypeOK, Status
<1>3. TypeOK'
  BY <1>1, <1>2 DEF CallFails, Fails, IInv, TypeOK, table, ticker
<1> QED
  BY <1>3, OutsideTicksInv DEF CallFails, IInv, table

\* A cancel takes a row from its tick at most.
LEMMA CancelInv ==
  ASSUME IInv, NEW r \in Rows, Cancel(r)
  PROVE  IInv'
<1>1. /\ status' = [status EXCEPT ![r] = "cancelled"] /\ status[r] # "unused"
      /\ UNCHANGED <<dedup, due, fires, clock, ticker, calls, upsets>>
  BY DEF Cancel, SaveStatus, Save, Live, LiveStatus, IInv, TypeOK
<1>2. TypeOK'
  BY <1>1 DEF IInv, TypeOK, Status, LiveStatus, ticker, calls, upsets
<1>3. QED
  BY <1>1, <1>2, OutsideTicksInv DEF IInv, TypeOK

\* Time changes no row.
LEMMA TimePassesInv ==
  ASSUME IInv, TimePasses
  PROVE  IInv'
<1>1. TypeOK'
  BY DEF IInv, TypeOK, TimePasses, table, ticker, calls, upsets
<1>2. QED
  BY <1>1, OutsideTicksInv DEF IInv, TimePasses, table

\* After a restart no tick has a row.
LEMMA CrashInv ==
  ASSUME IInv, Crash
  PROVE  IInv'
<1>1. \A t \in Ticks : queue'[t] \in Seq(Snapshot)
  BY EmptySeq DEF Crash
<1>2. TypeOK'
  BY <1>1 DEF IInv, TypeOK, Crash, table, Phases, Steps, Status
<1>3. ClaimHeld' /\ OneRunPerRow'
  BY DEF Crash, ClaimHeld, OneRunPerRow, Running
<1>4. QED
  BY <1>2, <1>3 DEF IInv

\* So every step keeps the invariant.
LEMMA NextInv == IInv /\ [Next]_vars => IInv'
<1> SUFFICES ASSUME IInv, [Next]_vars PROVE IInv'
  OBVIOUS
<1>1. ASSUME NEW t \in Ticks, TickStep(t)
      PROVE  IInv'
  BY <1>1, StartTickInv, SelectDueInv, ClaimInv, GuardPassesInv, LeavingInv DEF TickStep
<1>2. CASE UNCHANGED vars
  <2>1. TypeOK'
    BY <1>2 DEF IInv, TypeOK, vars, table, ticker, calls, upsets
  <2>2. QED
    BY <1>2, <2>1, OutsideTicksInv DEF IInv, vars, table
<1>3. QED
  BY <1>1, <1>2, StatementFailsInv, CallStepInv, CallFailsInv, CancelInv, TimePassesInv,
     CrashInv DEF Next

-----------------------------------------------------------------------------
(* Theorems.                                                               *)

\* IInv holds in every reachable state: types, the claim and exclusion.
THEOREM InvariantHolds == Spec => []IInv
<1>1. QED
  BY InitInv, NextInv, PTL DEF Spec

\* Every variable of the trigger service keeps its type.
THEOREM TypeCorrect == Spec => []TypeOK
<1>1. IInv => TypeOK
  BY DEF IInv
<1>2. QED
  BY <1>1, InvariantHolds, PTL

\* A row is never run by two overlapping ticks, however fireDue, cancel,
\* re-arming and restarts interleave (the claim of fireOne).
THEOREM ExclusiveRuns == Spec => []OneRunPerRow
<1>1. IInv => OneRunPerRow
  BY DEF IInv
<1>2. QED
  BY <1>1, InvariantHolds, PTL

\* While a tick runs a row, nobody else makes that row pending, fired or failed.
THEOREM ClaimIsHeld == Spec => []ClaimHeld
<1>1. IInv => ClaimHeld
  BY DEF IInv
<1>2. QED
  BY <1>1, InvariantHolds, PTL

-----------------------------------------------------------------------------
(* Triggers implements TriggerLedger.  The mapping reads a row as running  *)
(* when a tick runs it and by its status otherwise, so every step moves    *)
(* one row of the ledger at most, except a restart.  That a deletion by    *)
(* key closes one row only needs the unique index on dedup_key.            *)

UniqueKeys ==
  \A r1, r2 \in Rows : Live(r1) /\ Live(r2) /\ dedup[r1] = dedup[r2] => r1 = r2

\* A step that creates no row keeps the keys unique.
LEMMA SameKeys ==
  ASSUME UniqueKeys, dedup' = dedup, \A r \in Rows : Live(r)' => Live(r)
  PROVE  UniqueKeys'
BY DEF UniqueKeys

\* A save touches its own row only, and a row that is gone not at all.
LEMMA SaveKeeps ==
  ASSUME IInv, NEW r \in Rows, NEW s \in LiveStatus, Save(r, s)
  PROVE  /\ \A q \in Rows : Live(q)' <=> Live(q)
         /\ \A q \in Rows : q # r => status'[q] = status[q]
         /\ Live(r) => status'[r] = s
         /\ ~Live(r) => status'[r] = status[r]
BY DEF IInv, TypeOK, Save, Live, LiveStatus

\* What a step of a tick does to the table: nothing, or Save on its row.
LEMMA TickTable ==
  ASSUME IInv, NEW t \in Ticks, TickStep(t)
  PROVE  /\ dedup' = dedup
         /\ \/ status' = status
            \/ phase[t] \in Working /\ \E s \in LiveStatus : Save(Current(t), s)
<1>1. CASE StartTick(t) \/ SelectDue(t) \/ GuardPasses(t) \/ ClaimLost(t)
  BY <1>1 DEF StartTick, SelectDue, GuardPasses, ClaimLost, table
<1>2. CASE CloseExhausted(t) \/ Claim(t) \/ GuardSkips(t) \/ RunFails(t)
  BY <1>2 DEF CloseExhausted, Claim, GuardSkips, RunFails, SaveStatus, Working, LiveStatus
<1>3. CASE HandlerExpires(t) \/ HandlerReschedules(t)
  BY <1>3 DEF HandlerExpires, HandlerReschedules, SaveFired, Working, LiveStatus
<1>4. CASE HandlerDone(t)
  <2>1. \E s \in LiveStatus, at \in {due[Current(t)]} \cup {now[t] + OptOf(t).every + j : j \in 0 .. Jitter} :
          SaveFired(Current(t), s, at)
    BY <1>4 DEF HandlerDone, LiveStatus
  <2>2. QED
    BY <1>4, <2>1 DEF HandlerDone, SaveFired, Working
<1>5. QED
  BY <1>1, <1>2, <1>3, <1>4 DEF TickStep

\* A key has one row that is not gone: Create and Rearm look, and the index refuses.
LEMMA UniqueKeysInv == IInv /\ UniqueKeys /\ [Next]_vars => UniqueKeys'
<1> SUFFICES ASSUME IInv, UniqueKeys, [Next]_vars PROVE UniqueKeys'
  OBVIOUS
<1>1. ASSUME NEW t \in Ticks, TickStep(t)
      PROVE  UniqueKeys'
  <2>1. CASE status' = status
    BY <2>1, <1>1, TickTable, SameKeys DEF Live
  <2>2. CASE phase[t] \in Working /\ \E s \in LiveStatus : Save(Current(t), s)
    <3>1. Current(t) \in Rows
      BY <2>2, WorkingTick DEF IInv
    <3>2. QED
      BY <2>2, <3>1, <1>1, TickTable, SaveKeeps, SameKeys
  <2>3. QED
    BY <2>1, <2>2, <1>1, TickTable
<1>2. ASSUME NEW c \in Callers, CallStep(c)
      PROVE  UniqueKeys'
  <2>1. CASE \E k \in Keys : Schedule(c, k) \/ Rearm(c, k) \/ Repair(c, k)
    BY <2>1, SameKeys DEF Schedule, Rearm, Repair, table, Live
  <2>2. CASE Find(c)
    BY <2>2, SameKeys DEF Find, table, Live
  <2>3. CASE DeleteOwner(c) \/ PurgeOwner(c)
    <3>1. dedup' = dedup /\ \A r \in Rows : status'[r] = "gone" \/ status'[r] = status[r]
      BY <2>3 DEF DeleteOwner, PurgeOwner, IInv, TypeOK
    <3>2. QED
      BY <3>1, SameKeys DEF Live, LiveStatus
  <2>4. CASE Create(c) /\ UNCHANGED table
    BY <2>4, SameKeys DEF table, Live
  <2>5. CASE Create(c) /\ ~UNCHANGED table
    <3>1. PICK r \in Rows :
            /\ Owner(target[c]) = {}
            /\ status' = [status EXCEPT ![r] = "pending"]
            /\ dedup' = [dedup EXCEPT ![r] = target[c]]
      BY <2>5 DEF Create
    <3>2. \A q \in Rows : q # r => (Live(q)' <=> Live(q)) /\ dedup'[q] = dedup[q]
      BY <3>1 DEF IInv, TypeOK, Live
    <3>3. dedup'[r] = target[c]
      BY <3>1 DEF IInv, TypeOK
    <3>4. \A q \in Rows : Live(q) => dedup[q] # target[c]
      BY <3>1 DEF Owner
    <3>5. QED
      BY <3>2, <3>3, <3>4 DEF UniqueKeys
  <2>6. QED
    BY <1>2, <2>1, <2>2, <2>3, <2>4, <2>5 DEF CallStep
<1>3. ASSUME NEW r \in Rows, Cancel(r)
      PROVE  UniqueKeys'
  BY <1>3, SaveKeeps, SameKeys DEF Cancel, SaveStatus, LiveStatus
<1>4. CASE TimePasses \/ Crash \/ UNCHANGED vars \/ \E c \in Callers : CallFails(c)
  BY <1>4, SameKeys DEF TimePasses, Crash, CallFails, vars, table, Live
<1>5. ASSUME NEW t \in Ticks, StatementFails(t)
      PROVE  UniqueKeys'
  <2>1. CASE UNCHANGED table
    BY <2>1, SameKeys DEF table, Live
  <2>2. CASE phase[t] \in Working /\ LostClaim(t)
    <3>1. Current(t) \in Rows
      BY <2>2, WorkingTick DEF IInv
    <3>2. QED
      BY <2>2, <3>1, SaveKeeps, SameKeys DEF LostClaim, SaveStatus, LiveStatus
  <2>3. QED
    BY <1>5, <2>1, <2>2, FailureCases DEF table
<1>6. QED
  BY <1>1, <1>2, <1>3, <1>4, <1>5 DEF Next

\* A step after which the same rows are run by the same ticks and have the
\* same status stutters.
LEMMA LedgerStutters ==
  ASSUME status' = status, \A t \in Ticks, r \in Rows : Running(t, r)' <=> Running(t, r)
  PROVE  [r \in Rows |-> LedgerOf(r)]' = [r \in Rows |-> LedgerOf(r)]
BY DEF LedgerOf

\* A step that changes the ledger of one row only, along one of the arrows of
\* TriggerLedger, is a step of TriggerLedger.
Arrow(from, to) ==
  \/ from = "free" /\ to = "armed"
  \/ from = "armed" /\ to \in {"running", "over"}
  \/ from = "running" /\ to \in {"armed", "over"}

\* One row that takes an arrow of the ledger, while the others rest, is a step of it.
LEMMA LedgerMoves ==
  ASSUME NEW r \in Rows, Arrow(LedgerOf(r), LedgerOf(r)'),
         \A q \in Rows : q # r => LedgerOf(q)' = LedgerOf(q)
  PROVE  Ledger!Next
<1> DEFINE L == [q \in Rows |-> LedgerOf(q)]
<1>1. L' = [L EXCEPT ![r] = LedgerOf(r)'] /\ L[r] = LedgerOf(r)
  OBVIOUS
<1>2. \/ Ledger!Arm(r) \/ Ledger!Run(r) \/ Ledger!Return(r) \/ Ledger!Withdraw(r)
  BY <1>1 DEF Arrow, Ledger!Arm, Ledger!Run, Ledger!Return, Ledger!Withdraw
<1>3. QED
  BY <1>2 DEF Ledger!Next

\* A row nobody runs, or that the same ticks still run, whose status changes.
LEMMA LedgerOfStatus ==
  ASSUME NEW r \in Rows, \A t \in Ticks : Running(t, r)' <=> Running(t, r)
  PROVE  /\ status'[r] = status[r] => LedgerOf(r)' = LedgerOf(r)
         /\ (\E t \in Ticks : Running(t, r)) => LedgerOf(r)' = LedgerOf(r)
         /\ status[r] \notin {"unused", "pending"} /\ status'[r] \notin {"unused", "pending"}
              => LedgerOf(r)' = LedgerOf(r)
         /\ status[r] = "pending" /\ status'[r] \notin {"unused", "pending"}
              => LedgerOf(r)' = LedgerOf(r) \/ Arrow(LedgerOf(r), LedgerOf(r)')
BY DEF LedgerOf, Arrow

\* Every step of the trigger service is such a step, or a stutter.
LEMMA LedgerStep == IInv /\ IInv' /\ UniqueKeys /\ [Next]_vars
                      => Ledger!Next \/ UNCHANGED [r \in Rows |-> LedgerOf(r)]
<1> SUFFICES ASSUME IInv, IInv', UniqueKeys, [Next]_vars
             PROVE  Ledger!Next \/ UNCHANGED [r \in Rows |-> LedgerOf(r)]
  OBVIOUS
<1>1. ASSUME NEW t \in Ticks, StartTick(t) \/ SelectDue(t) \/ GuardPasses(t) \/ ClaimLost(t)
      PROVE  UNCHANGED [r \in Rows |-> LedgerOf(r)]
  <2>1. status' = status
    BY <1>1 DEF StartTick, SelectDue, GuardPasses, ClaimLost, table
  <2>2. \A u \in Ticks, r \in Rows : Running(u, r)' <=> Running(u, r)
    <3>1. CASE StartTick(t) \/ SelectDue(t)
      BY <3>1 DEF StartTick, SelectDue, IInv, TypeOK, Running, Current, Head_
    <3>2. CASE GuardPasses(t)
      BY <3>2 DEF GuardPasses, IInv, TypeOK, Running, Current, Head_
    <3>3. CASE ClaimLost(t)
      BY <3>3, NextRowTicker DEF ClaimLost, Running, IInv, Working
    <3>4. QED
      BY <1>1, <3>1, <3>2, <3>3
  <2>3. QED
    BY <2>1, <2>2, LedgerStutters
<1>2. ASSUME NEW t \in Ticks, Claim(t)
      PROVE  Ledger!Next
  <2>0. PICK r \in Rows : r = Current(t)
    BY <1>2, WorkingTick DEF Claim, IInv, Working
  <2>1. status[r] = "pending" /\ phase[t] = "scan" /\ queue' = queue
    BY <1>2, <2>0 DEF Claim, Claimable
  <2>2. \A u \in Ticks : ~Running(u, r)
    BY <2>1 DEF IInv, ClaimHeld
  <2>3. phase'[t] \in {"guard", "handler"} /\ \A u \in Ticks : u # t => phase'[u] = phase[u]
    BY <1>2 DEF Claim, IInv, TypeOK
  <2>4. Running(t, r)' /\ \A u \in Ticks, q \in Rows : q # r => (Running(u, q)' <=> Running(u, q))
    BY <2>0, <2>1, <2>3 DEF Running, Current, Head_
  <2>5. \A q \in Rows : q # r => status'[q] = status[q]
    BY <1>2, <2>0, SaveKeeps DEF Claim, SaveStatus, LiveStatus
  <2>6. LedgerOf(r) = "armed" /\ LedgerOf(r)' = "running"
    BY <2>1, <2>2, <2>4 DEF LedgerOf
  <2>7. \A q \in Rows : q # r => LedgerOf(q)' = LedgerOf(q)
    BY <2>4, <2>5, LedgerOfStatus
  <2>8. QED
    BY <2>1, <2>6, <2>7, LedgerMoves DEF Arrow
<1>3. ASSUME NEW t \in Ticks, CloseExhausted(t)
      PROVE  Ledger!Next \/ UNCHANGED [r \in Rows |-> LedgerOf(r)]
  <2>0. PICK r \in Rows : r = Current(t)
    BY <1>3, WorkingTick DEF CloseExhausted, IInv, Working
  <2>1. phase[t] = "scan" /\ NextRow(t) /\ Save(r, "cancelled")
    BY <1>3, <2>0 DEF CloseExhausted, SaveStatus
  <2>2. \A u \in Ticks, q \in Rows : Running(u, q)' <=> Running(u, q)
    BY <2>1, NextRowTicker DEF IInv, Working, Running
  <2>3. /\ \A q \in Rows : q # r => status'[q] = status[q]
        /\ status'[r] = status[r] \/ (Live(r) /\ status'[r] = "cancelled")
    BY <2>1, SaveKeeps DEF LiveStatus
  <2>4. \A q \in Rows : q # r => LedgerOf(q)' = LedgerOf(q)
    BY <2>2, <2>3, LedgerOfStatus
  <2>5. LedgerOf(r)' = LedgerOf(r) \/ Arrow(LedgerOf(r), LedgerOf(r)')
    BY <2>1, <2>2, <2>3, LedgerOfStatus DEF Live, LiveStatus
  <2>6. QED
    BY <2>1, <2>4, <2>5, LedgerMoves
<1>4. ASSUME NEW t \in Ticks,
             GuardSkips(t) \/ RunFails(t) \/ HandlerExpires(t) \/ HandlerReschedules(t) \/ HandlerDone(t)
      PROVE  Ledger!Next
  <2>1. phase[t] \in {"guard", "handler"} /\ NextRow(t)
    BY <1>4 DEF GuardSkips, RunFails, HandlerExpires, HandlerReschedules, HandlerDone
  <2>0. PICK r \in Rows : r = Current(t)
    BY <2>1, WorkingTick DEF IInv, Working
  <2>2. Running(t, r)
    BY <2>0, <2>1 DEF Running
  <2>3. \A u \in Ticks, q \in Rows : Running(u, q)' <=> (u # t /\ Running(u, q))
    BY <2>1, NextRowTicker DEF IInv, Working
  <2>4. \A u \in Ticks : ~Running(u, r)'
    BY <2>2, <2>3 DEF IInv, OneRunPerRow
  <2>5. /\ \A q \in Rows : q # r => status'[q] = status[q]
        /\ status'[r] # "unused"
    <3>1. TickStep(t)
      BY <1>4 DEF TickStep
    <3>2. status[r] # "unused"
      BY <2>2 DEF IInv, ClaimHeld
    <3>3. QED
      BY <2>0, <2>2, <3>1, <3>2, TickTable, SaveKeeps DEF LiveStatus
  <2>6. LedgerOf(r) = "running" /\ LedgerOf(r)' \in {"armed", "over"}
    BY <2>2, <2>4, <2>5 DEF LedgerOf
  <2>7. \A q \in Rows : q # r => LedgerOf(q)' = LedgerOf(q)
    <3> SUFFICES ASSUME NEW q \in Rows, q # r PROVE LedgerOf(q)' = LedgerOf(q)
      OBVIOUS
    <3>1. ~Running(t, q)
      BY <2>0 DEF Running
    <3>2. \A u \in Ticks : Running(u, q)' <=> Running(u, q)
      BY <2>3, <3>1
    <3>3. QED
      BY <2>5, <3>2, LedgerOfStatus
  <2>8. QED
    BY <2>2, <2>6, <2>7, LedgerMoves DEF Arrow
<1>5. ASSUME UNCHANGED ticker,
             NEW r \in Rows, \A q \in Rows : q # r => status'[q] = status[q],
             \/ status'[r] = status[r]
             \/ status[r] \notin {"unused"} /\ status'[r] \in {"cancelled", "gone"}
             \/ status[r] = "unused" /\ status'[r] = "pending"
      PROVE  Ledger!Next \/ UNCHANGED [q \in Rows |-> LedgerOf(q)]
  <2>1. \A u \in Ticks, q \in Rows : Running(u, q)' <=> Running(u, q)
    BY <1>5 DEF ticker, Running, Current, Head_
  <2>2. \A q \in Rows : q # r => LedgerOf(q)' = LedgerOf(q)
    BY <1>5, <2>1, LedgerOfStatus
  <2>3. LedgerOf(r)' = LedgerOf(r) \/ Arrow(LedgerOf(r), LedgerOf(r)')
    <3>1. CASE status[r] = "unused" /\ status'[r] = "pending"
      <4>1. \A u \in Ticks : ~Running(u, r)
        BY <3>1 DEF IInv, ClaimHeld
      <4>2. QED
        BY <3>1, <4>1, <2>1 DEF LedgerOf, Arrow
    <3>2. CASE status'[r] = status[r]
      BY <3>2, <2>1, LedgerOfStatus
    <3>3. CASE status[r] \notin {"unused"} /\ status'[r] \in {"cancelled", "gone"}
      BY <3>3, <2>1, LedgerOfStatus
    <3>4. QED
      BY <1>5, <3>1, <3>2, <3>3
  <2>4. QED
    BY <2>2, <2>3, LedgerMoves
<1>6. ASSUME UNCHANGED ticker, status' = status
      PROVE  UNCHANGED [r \in Rows |-> LedgerOf(r)]
  <2>1. \A u \in Ticks, q \in Rows : Running(u, q)' <=> Running(u, q)
    BY <1>6 DEF ticker, Running, Current, Head_
  <2>2. QED
    BY <1>6, <2>1, LedgerStutters
<1>7. ASSUME NEW c \in Callers, CallStep(c)
      PROVE  Ledger!Next \/ UNCHANGED [r \in Rows |-> LedgerOf(r)]
  <2>1. UNCHANGED ticker
    BY <1>7 DEF CallStep, Schedule, Rearm, Repair, DeleteOwner, PurgeOwner, Find, Create, OutsideCalls
  <2>2. CASE status' = status
    BY <2>1, <2>2, <1>6
  <2>3. CASE (DeleteOwner(c) \/ PurgeOwner(c)) /\ status' # status
    <3>1. \A q \in Rows : \/ status'[q] = status[q]
                          \/ q \in Owner(target[c]) /\ status'[q] = "gone"
      BY <2>3 DEF DeleteOwner, PurgeOwner
    <3>2. \A q1, q2 \in Owner(target[c]) : q1 = q2
      BY DEF UniqueKeys, Owner
    <3>3. PICK r \in Rows : status'[r] # status[r]
      BY <2>3 DEF IInv, TypeOK
    <3>4. /\ \A q \in Rows : q # r => status'[q] = status[q]
          /\ status[r] # "unused" /\ status'[r] = "gone"
      BY <3>1, <3>2, <3>3 DEF Owner, Live, LiveStatus
    <3>5. QED
      BY <2>1, <3>4, <1>5
  <2>4. CASE Create(c) /\ status' # status
    <3>1. PICK r \in Rows : status[r] = "unused" /\ status' = [status EXCEPT ![r] = "pending"]
      BY <2>4 DEF Create, table
    <3>2. \A q \in Rows : q # r => status'[q] = status[q]
      BY <3>1
    <3>3. status'[r] = "pending"
      BY <3>1 DEF IInv, TypeOK
    <3>4. QED
      BY <2>1, <3>1, <3>2, <3>3, <1>5
  <2>5. (\E k \in Keys : Schedule(c, k) \/ Rearm(c, k) \/ Repair(c, k)) \/ Find(c) => status' = status
    BY DEF Schedule, Rearm, Repair, Find, table
  <2>6. QED
    BY <1>7, <2>2, <2>3, <2>4, <2>5 DEF CallStep
<1>8. ASSUME NEW r \in Rows, Cancel(r)
      PROVE  Ledger!Next \/ UNCHANGED [q \in Rows |-> LedgerOf(q)]
  <2>1. UNCHANGED ticker /\ Live(r) /\ Save(r, "cancelled")
    BY <1>8 DEF Cancel, SaveStatus
  <2>2. /\ \A q \in Rows : q # r => status'[q] = status[q]
        /\ status'[r] = "cancelled" /\ status[r] # "unused"
    BY <2>1, SaveKeeps DEF Live, LiveStatus
  <2>3. QED
    BY <2>1, <2>2, <1>5
<1>9. CASE Crash
  <2>1. \A u \in Ticks, q \in Rows : ~Running(u, q)'
    BY <1>9 DEF Crash, Running
  <2>2. status' = status
    BY <1>9 DEF Crash, table
  <2>3. \A q \in Rows : LedgerOf(q)' = IF LedgerOf(q) = "running" THEN "over" ELSE LedgerOf(q)
    <3> SUFFICES ASSUME NEW q \in Rows
                 PROVE  LedgerOf(q)' = IF LedgerOf(q) = "running" THEN "over" ELSE LedgerOf(q)
      OBVIOUS
    <3>1. CASE \E u \in Ticks : Running(u, q)
      <4>1. status[q] \notin {"unused", "pending"}
        BY <3>1 DEF IInv, ClaimHeld
      <4>2. QED
        BY <3>1, <4>1, <2>1, <2>2 DEF LedgerOf
    <3>2. CASE ~\E u \in Ticks : Running(u, q)
      BY <3>2, <2>1, <2>2 DEF LedgerOf
    <3>3. QED
      BY <3>1, <3>2
  <2>4. Ledger!Restart
    BY <2>3 DEF Ledger!Restart
  <2>5. QED
    BY <2>4 DEF Ledger!Next
<1>10. CASE TimePasses \/ UNCHANGED vars \/ \E c \in Callers : CallFails(c)
  BY <1>10, <1>6 DEF TimePasses, CallFails, vars, table
<1>11. ASSUME NEW t \in Ticks, StatementFails(t)
       PROVE  Ledger!Next \/ UNCHANGED [q \in Rows |-> LedgerOf(q)]
  <2>1. CASE /\ phase[t] = "select" /\ UNCHANGED <<table, queue>>
             /\ phase' = [phase EXCEPT ![t] = "idle"]
    <3>1. \A u \in Ticks, r \in Rows : Running(u, r)' <=> Running(u, r)
      BY <2>1 DEF IInv, TypeOK, Running, Current, Head_
    <3>2. QED
      BY <2>1, <3>1, LedgerStutters DEF table
  <2>2. CASE phase[t] \in Working /\ NextRow(t) /\ (UNCHANGED table \/ LostClaim(t))
    <3>0. PICK r \in Rows : r = Current(t)
      BY <2>2, WorkingTick DEF IInv
    <3>1. \A u \in Ticks, q \in Rows : Running(u, q)' <=> (u # t /\ Running(u, q))
      BY <2>2, NextRowTicker DEF IInv
    <3>2. \A u \in Ticks, q \in Rows : q # r => (Running(u, q)' <=> Running(u, q))
      BY <3>0, <3>1 DEF Running
    <3>3. \A q \in Rows : q # r => status'[q] = status[q]
      BY <2>2, <3>0, SaveKeeps DEF LostClaim, SaveStatus, LiveStatus, table
    <3>4. \A q \in Rows : q # r => LedgerOf(q)' = LedgerOf(q)
      BY <3>2, <3>3, LedgerOfStatus
    <3>5. LedgerOf(r)' = LedgerOf(r) \/ Arrow(LedgerOf(r), LedgerOf(r)')
      <4>1. CASE Running(t, r)
        <5>1. \A u \in Ticks : ~Running(u, r)'
          BY <4>1, <3>1 DEF IInv, OneRunPerRow
        <5>2. status'[r] = status[r] /\ status[r] \notin {"unused", "pending"}
          BY <4>1, <2>2, <3>0 DEF IInv, ClaimHeld, LostClaim, table
        <5>3. QED
          BY <4>1, <5>1, <5>2 DEF LedgerOf, Arrow
      <4>2. CASE ~Running(t, r)
        <5>1. \A u \in Ticks : Running(u, r)' <=> Running(u, r)
          BY <4>2, <3>1
        <5>2. \/ status'[r] = status[r]
              \/ status[r] = "pending" /\ status'[r] = "firing"
          BY <2>2, <3>0, SaveKeeps DEF LostClaim, SaveStatus, LiveStatus, Live, table
        <5>3. QED
          BY <5>1, <5>2, LedgerOfStatus
      <4>3. QED
        BY <4>1, <4>2
    <3>6. QED
      BY <3>4, <3>5, LedgerMoves
  <2>3. QED
    BY <1>11, <2>1, <2>2, FailureCases DEF table
<1>12. QED
  BY <1>1, <1>2, <1>3, <1>4, <1>7, <1>8, <1>9, <1>10, <1>11 DEF Next, TickStep

\* Whatever ticks, callers, cancels and restarts do, each row lives the life
\* TriggerLedger describes: armed once, one run at a time, never revived.
THEOREM ImplementsTriggerLedger == Spec => ImplementsLedger
<1>1. Init => Ledger!Init
  BY DEF Init, Ledger!Init, LedgerOf, Running
<1>2. Init => UniqueKeys
  BY DEF Init, UniqueKeys, Live, LiveStatus
<1>3. IInv /\ IInv' /\ UniqueKeys /\ [Next]_vars => [Ledger!Next]_[r \in Rows |-> LedgerOf(r)]
  BY LedgerStep
<1>4. QED
  BY <1>1, <1>2, <1>3, InvariantHolds, UniqueKeysInv, PTL DEF Spec, ImplementsLedger, Ledger!Spec

-----------------------------------------------------------------------------
(* How far a row can run beyond maxFires.  A tick whose snapshot of a row  *)
(* is below the limit may still run it; each of its runs uses one such     *)
(* snapshot up, and no tick takes a new one once the limit is reached.  So *)
(* what the runs and the open snapshots come to together is bounded, and   *)
(* that is inductive where the bound on the runs alone is not.             *)

MaxOf(r) == Opt[dedup[r]].max

Permits(t, r) ==
  \E i \in DOMAIN queue[t] : queue[t][i].id = r /\ queue[t][i].fires < MaxOf(r)

Holders(r) == {t \in Ticks : Permits(t, r)}

Bounded(r) ==
  status[r] # "unused" /\ MaxOf(r) # None =>
    fires[r] + Cardinality(Holders(r)) <= MaxOf(r) + Cardinality(Ticks) - 1

\* A row that is run was below its limit when its tick looked at it.
RunsPermitted ==
  \A t \in Ticks : phase[t] \in {"guard", "handler"} /\ MaxOf(Current(t)) # None =>
    Head_(t).fires < MaxOf(Current(t))

\* No batch has a row twice.
Distinct(q) == \A i, j \in DOMAIN q : q[i].id = q[j].id => i = j

OvershootBook ==
  /\ \A r \in Rows : status[r] = "unused" => fires[r] = 0
  /\ \A t \in Ticks : Distinct(queue[t])
  /\ RunsPermitted
  /\ \A r \in Rows : Bounded(r)

\* The limit of a row that has one is a positive number.
LEMMA MaxOfRow ==
  ASSUME TypeOK, NEW r \in Rows, status[r] # "unused", MaxOf(r) # None
  PROVE  MaxOf(r) \in Nat \ {0}
  BY TriggersAssumption DEF TypeOK, MaxOf, OptType

\* How many ticks hold a snapshot of a row.
LEMMA HoldersCount ==
  ASSUME NEW S, S \subseteq Ticks
  PROVE  /\ Cardinality(S) \in Nat /\ Cardinality(Ticks) \in Nat
         /\ Cardinality(S) <= Cardinality(Ticks)
         /\ \A T \in SUBSET S : Cardinality(T) \in Nat /\ Cardinality(T) <= Cardinality(S)
         /\ \A t \in S : \A T \in SUBSET (S \ {t}) :
              Cardinality(T) \in Nat /\ Cardinality(T) <= Cardinality(S) - 1
<1>1. IsFiniteSet(Ticks)
  BY TriggersAssumption
<1>2. IsFiniteSet(S) /\ Cardinality(S) <= Cardinality(Ticks)
  BY <1>1, FS_Subset
<1>3. Cardinality(S) \in Nat /\ Cardinality(Ticks) \in Nat
  BY <1>1, <1>2, FS_CardinalityType
<1>4. \A T \in SUBSET S : Cardinality(T) \in Nat /\ Cardinality(T) <= Cardinality(S)
  BY <1>2, FS_Subset, FS_CardinalityType
<1>5. ASSUME NEW t \in S, NEW T \in SUBSET (S \ {t})
      PROVE  Cardinality(T) \in Nat /\ Cardinality(T) <= Cardinality(S) - 1
  <2>1. IsFiniteSet(S \ {t}) /\ Cardinality(S \ {t}) = Cardinality(S) - 1
    BY <1>2, FS_RemoveElement
  <2> QED
    BY <2>1, FS_Subset, FS_CardinalityType
<1> QED
  BY <1>2, <1>3, <1>4, <1>5

\* No run, and no new snapshot at the limit.
LEMMA BoundedFrame ==
  ASSUME TypeOK, NEW r \in Rows, Bounded(r), status[r] # "unused",
         dedup'[r] = dedup[r], fires'[r] = fires[r],
         \A t \in Ticks : Permits(t, r)' => Permits(t, r) \/ fires[r] < MaxOf(r)
  PROVE  Bounded(r)'
<1> SUFFICES ASSUME MaxOf(r) # None
             PROVE  fires[r] + Cardinality(Holders(r)') <= MaxOf(r) + Cardinality(Ticks) - 1
  BY DEF Bounded, MaxOf
<1>1. MaxOf(r) \in Nat \ {0} /\ fires[r] \in Nat
  BY MaxOfRow DEF TypeOK
<1>2. Holders(r) \subseteq Ticks /\ Holders(r)' \subseteq Ticks
  BY DEF Holders
<1>3. CASE fires[r] < MaxOf(r)
  BY <1>1, <1>2, <1>3, HoldersCount
<1>4. CASE ~(fires[r] < MaxOf(r))
  <2>1. Holders(r)' \in SUBSET Holders(r)
    BY <1>4 DEF Holders
  <2>2. /\ Cardinality(Holders(r)') \in Nat /\ Cardinality(Holders(r)) \in Nat
        /\ Cardinality(Ticks) \in Nat
        /\ Cardinality(Holders(r)') <= Cardinality(Holders(r))
    BY <1>2, <2>1, HoldersCount
  <2>3. fires[r] + Cardinality(Holders(r)) <= MaxOf(r) + Cardinality(Ticks) - 1
    BY DEF Bounded
  <2> QED
    BY <1>1, <2>2, <2>3
<1> QED
  BY <1>3, <1>4

\* A run uses up the snapshot of its tick.
LEMMA BoundedRun ==
  ASSUME TypeOK, NEW r \in Rows, Bounded(r), status[r] # "unused",
         dedup'[r] = dedup[r], fires'[r] = fires[r] + 1,
         NEW t \in Ticks, MaxOf(r) # None => Permits(t, r),
         \A u \in Ticks : Permits(u, r)' => u # t /\ Permits(u, r)
  PROVE  Bounded(r)'
<1> SUFFICES ASSUME MaxOf(r) # None
             PROVE  fires[r] + 1 + Cardinality(Holders(r)') <= MaxOf(r) + Cardinality(Ticks) - 1
  BY DEF Bounded, MaxOf
<1>1. MaxOf(r) \in Nat \ {0} /\ fires[r] \in Nat
  BY MaxOfRow DEF TypeOK
<1>2. /\ Holders(r) \subseteq Ticks /\ t \in Holders(r)
      /\ Holders(r)' \in SUBSET (Holders(r) \ {t})
  BY DEF Holders
<1>3. /\ Cardinality(Holders(r)') \in Nat /\ Cardinality(Holders(r)) \in Nat
      /\ Cardinality(Ticks) \in Nat
      /\ Cardinality(Holders(r)') <= Cardinality(Holders(r)) - 1
  BY <1>2, HoldersCount
<1>4. fires[r] + Cardinality(Holders(r)) <= MaxOf(r) + Cardinality(Ticks) - 1
  BY DEF Bounded
<1> QED
  BY <1>1, <1>3, <1>4

\* The batch of a tick that goes on to its next row.
LEMMA NextRowQueue ==
  ASSUME TypeOK, ClaimHeld, NEW t \in Ticks, phase[t] \in Working, NextRow(t)
  PROVE  /\ \A u \in Ticks : u # t => queue'[u] = queue[u] /\ phase'[u] = phase[u]
         /\ phase'[t] \in {"idle", "scan"}
         /\ 1 \in DOMAIN queue[t] /\ queue[t][1] = Head_(t) /\ DOMAIN queue[t] \subseteq Nat
         /\ \A i \in DOMAIN queue'[t] :
              i \in Nat \ {0} /\ i + 1 \in DOMAIN queue[t] /\ queue'[t][i] = queue[t][i + 1]
<1> DEFINE q == queue[t]
<1>1. q \in Seq(Snapshot) /\ q # <<>> /\ Tail(q) \in Seq(Snapshot)
  BY WorkingTick
<1>2. queue'[t] = Tail(q) /\ phase'[t] \in {"idle", "scan"}
      /\ \A u \in Ticks : u # t => queue'[u] = queue[u] /\ phase'[u] = phase[u]
  BY DEF NextRow, TypeOK
<1> HIDE DEF q
<1>3. /\ Len(q) \in Nat \ {0} /\ DOMAIN q = 1 .. Len(q) /\ Head(q) = q[1]
      /\ Len(Tail(q)) = Len(q) - 1 /\ DOMAIN Tail(q) = 1 .. Len(Tail(q))
      /\ \A i \in 1 .. Len(Tail(q)) : Tail(q)[i] = q[i + 1]
  BY <1>1, LenProperties, EmptySeq, HeadTailProperties
<1> QED
  BY <1>2, <1>3 DEF Head_, q

\* A tick that is done with a row: a run, or a row that it does not run.
LEMMA LeavingBook ==
  ASSUME IInv, OvershootBook, NEW t \in Ticks, phase[t] \in Working, NextRow(t),
         dedup' = dedup,
         \A r \in Rows : status'[r] = "unused" <=> status[r] = "unused",
         \A r \in Rows : \/ fires'[r] = fires[r]
                         \/ /\ r = Current(t) /\ phase[t] = "handler"
                            /\ fires'[r] = fires[r] + 1
  PROVE  OvershootBook'
<1> DEFINE q == queue[t]
<1>0. TypeOK /\ ClaimHeld /\ Current(t) \in Rows
  BY WorkingTick DEF IInv
<1>1. /\ \A u \in Ticks : u # t => queue'[u] = queue[u] /\ phase'[u] = phase[u]
      /\ phase'[t] \in {"idle", "scan"}
      /\ 1 \in DOMAIN q /\ q[1] = Head_(t) /\ DOMAIN q \subseteq Nat
      /\ \A i \in DOMAIN queue'[t] :
           i \in Nat \ {0} /\ i + 1 \in DOMAIN q /\ queue'[t][i] = q[i + 1]
  BY <1>0, NextRowQueue
<1>2. Distinct(q)
  BY DEF OvershootBook
<1>3. \A u \in Ticks : Distinct(queue[u])'
  <2>1. Distinct(queue[t])'
    BY <1>1, <1>2 DEF Distinct
  <2> QED
    BY <1>1, <2>1 DEF OvershootBook, Distinct
<1>4. RunsPermitted'
  BY <1>1 DEF OvershootBook, RunsPermitted, MaxOf, Current, Head_
<1>5. \A u \in Ticks, r \in Rows : Permits(u, r)' => Permits(u, r)
  BY <1>1 DEF Permits, MaxOf
<1>6. \A r \in Rows : r = Current(t) => ~Permits(t, r)'
  BY <1>1, <1>2 DEF Permits, MaxOf, Distinct, Current, Head_
<1>7. \A r \in Rows : status'[r] = "unused" => fires'[r] = 0
  <2> SUFFICES ASSUME NEW r \in Rows, status'[r] = "unused"
               PROVE  fires'[r] = 0
    OBVIOUS
  <2>1. status[r] = "unused" /\ fires[r] = 0
    BY DEF OvershootBook
  <2>2. ~Running(t, r)
    BY <2>1 DEF IInv, ClaimHeld
  <2> QED
    BY <2>1, <2>2 DEF Running
<1>8. ASSUME NEW r \in Rows, status[r] # "unused"
      PROVE  Bounded(r)'
  <2>1. Bounded(r)
    BY DEF OvershootBook
  <2>2. CASE fires'[r] = fires[r]
    BY <1>0, <1>5, <1>8, <2>1, <2>2, BoundedFrame
  <2>3. CASE r = Current(t) /\ phase[t] = "handler" /\ fires'[r] = fires[r] + 1
    <3>1. MaxOf(r) # None => Permits(t, r)
      BY <1>1, <2>3 DEF OvershootBook, RunsPermitted, Permits, Current
    <3>2. \A u \in Ticks : Permits(u, r)' => u # t /\ Permits(u, r)
      BY <1>5, <1>6, <2>3
    <3> QED
      BY <1>0, <1>8, <2>1, <2>3, <3>1, <3>2, BoundedRun
  <2> QED
    BY <2>2, <2>3
<1> QED
  BY <1>3, <1>4, <1>7, <1>8 DEF OvershootBook, Bounded

\* A tick takes new snapshots, of rows below their limits or not.
LEMMA SelectDueBook ==
  ASSUME IInv, OvershootBook, NEW t \in Ticks, SelectDue(t)
  PROVE  OvershootBook'
<1>1. PICK n \in 0 .. BatchLimit : \E batch \in [1 .. n -> DueRows] :
        /\ DueBatch(batch)
        /\ queue' = [queue EXCEPT ![t] =
                       [i \in 1 .. n |-> [id |-> batch[i], fires |-> fires[batch[i]]]]]
        /\ phase' = [phase EXCEPT ![t] = IF n = 0 THEN "idle" ELSE "scan"]
  BY DEF SelectDue
<1>2. PICK batch \in [1 .. n -> DueRows] :
        /\ DueBatch(batch)
        /\ queue' = [queue EXCEPT ![t] =
                       [i \in 1 .. n |-> [id |-> batch[i], fires |-> fires[batch[i]]]]]
        /\ phase' = [phase EXCEPT ![t] = IF n = 0 THEN "idle" ELSE "scan"]
  BY <1>1
<1>3. /\ UNCHANGED <<status, dedup, fires>> /\ TypeOK
      /\ n \in Nat /\ \A i \in 1 .. n : batch[i] \in Rows /\ i \in Nat
  BY TriggersAssumption DEF SelectDue, table, IInv, DueRows
<1>4. /\ queue'[t] = [i \in 1 .. n |-> [id |-> batch[i], fires |-> fires[batch[i]]]]
      /\ phase'[t] \in {"idle", "scan"}
      /\ \A u \in Ticks : u # t => queue'[u] = queue[u] /\ phase'[u] = phase[u]
  BY <1>2 DEF IInv, TypeOK
<1>5. \A i, j \in 1 .. n : batch[i] = batch[j] => i = j
  BY <1>2, <1>3 DEF DueBatch
<1>6. \A u \in Ticks : Distinct(queue[u])'
  <2>1. Distinct(queue[t])'
    BY <1>4, <1>5 DEF Distinct
  <2> QED
    BY <1>4, <2>1 DEF OvershootBook, Distinct
<1>7. RunsPermitted'
  BY <1>3, <1>4 DEF OvershootBook, RunsPermitted, MaxOf, Current, Head_
<1>8. ASSUME NEW r \in Rows, NEW u \in Ticks, Permits(u, r)'
      PROVE  Permits(u, r) \/ fires[r] < MaxOf(r)
  <2>1. CASE u = t
    BY <1>3, <1>4, <1>8, <2>1 DEF Permits, MaxOf
  <2>2. CASE u # t
    BY <1>3, <1>4, <1>8, <2>2 DEF Permits, MaxOf
  <2> QED
    BY <2>1, <2>2
<1>9. \A r \in Rows : status[r] # "unused" => Bounded(r)'
  BY <1>3, <1>8, BoundedFrame DEF OvershootBook
<1> QED
  BY <1>3, <1>6, <1>7, <1>9 DEF OvershootBook, Bounded

\* Steps that leave the batches alone and make nothing of a row that is run.
LEMMA SameBatches ==
  ASSUME IInv, IInv', OvershootBook, queue' = queue, fires' = fires,
         \A r \in Rows : status'[r] = "unused" => status[r] = "unused",
         \A r \in Rows : status[r] # "unused" => dedup'[r] = dedup[r],
         \A t \in Ticks :
           phase'[t] \in {"guard", "handler"} => phase[t] \in {"guard", "handler"}
  PROVE  OvershootBook'
<1>1. \A t \in Ticks, r \in Rows : Running(t, r) => dedup'[r] = dedup[r]
  BY DEF IInv, ClaimHeld
<1>2. RunsPermitted'
  <2> SUFFICES ASSUME NEW t \in Ticks, phase'[t] \in {"guard", "handler"},
                      MaxOf(Current(t))' # None
               PROVE  Head_(t)'.fires < MaxOf(Current(t))'
    BY DEF RunsPermitted
  <2>1. Head_(t)' = Head_(t) /\ Current(t)' = Current(t) /\ phase[t] \in {"guard", "handler"}
    BY DEF Current, Head_
  <2>2. Current(t) \in Rows
    BY <2>1, WorkingTick DEF IInv, Working
  <2>3. MaxOf(Current(t))' = MaxOf(Current(t))
    BY <1>1, <2>1, <2>2 DEF Running, MaxOf
  <2> QED
    BY <2>1, <2>3 DEF OvershootBook, RunsPermitted
<1>3. ASSUME NEW r \in Rows
      PROVE  Bounded(r)'
  <2>1. CASE status[r] # "unused"
    <3>1. Bounded(r) /\ dedup'[r] = dedup[r] /\ fires'[r] = fires[r] /\ TypeOK
      BY <2>1 DEF OvershootBook, IInv
    <3>2. \A t \in Ticks : Permits(t, r)' => Permits(t, r)
      BY <3>1 DEF Permits, MaxOf
    <3> QED
      BY <2>1, <3>1, <3>2, BoundedFrame
  <2>2. CASE status[r] = "unused"
    <3>1. fires'[r] = 0
      BY <2>2 DEF OvershootBook
    <3>2. CASE status'[r] # "unused" /\ MaxOf(r)' # None
      <4>1. MaxOf(r)' \in Nat \ {0}
        BY <3>2, TriggersAssumption DEF IInv, TypeOK, MaxOf, OptType
      <4>2. /\ Cardinality(Holders(r)') \in Nat /\ Cardinality(Ticks) \in Nat
            /\ Cardinality(Holders(r)') <= Cardinality(Ticks)
        <5>1. Holders(r)' \subseteq Ticks
          BY DEF Holders
        <5> QED
          BY <5>1, HoldersCount
      <4> QED
        BY <3>1, <4>1, <4>2 DEF Bounded
    <3> QED
      BY <3>2 DEF Bounded
  <2> QED
    BY <2>1, <2>2
<1>4. \A r \in Rows : status'[r] = "unused" => fires'[r] = 0
  BY DEF OvershootBook
<1> QED
  BY <1>2, <1>3, <1>4 DEF OvershootBook, Distinct

\* Every step of a tick, and every step.
LEMMA TickBook ==
  ASSUME IInv, IInv', OvershootBook, NEW t \in Ticks, TickStep(t)
  PROVE  OvershootBook'
<1>1. TypeOK /\ ClaimHeld
  BY DEF IInv
<1>2. CASE StartTick(t)
  <2>1. /\ UNCHANGED <<status, dedup, fires, queue>>
        /\ phase' = [phase EXCEPT ![t] = "select"]
    BY <1>2 DEF StartTick, table
  <2> QED
    BY <1>1, <2>1, SameBatches DEF TypeOK
<1>3. CASE GuardPasses(t)
  <2>1. /\ UNCHANGED <<status, dedup, fires, queue>>
        /\ phase[t] = "guard" /\ phase' = [phase EXCEPT ![t] = "handler"]
    BY <1>3 DEF GuardPasses, table
  <2> QED
    BY <1>1, <2>1, SameBatches DEF TypeOK
<1>4. CASE Claim(t)
  <2>0. Current(t) \in Rows /\ phase[t] = "scan" /\ status[Current(t)] = "pending"
    BY <1>1, <1>4, WorkingTick DEF Claim, Claimable, Working
  <2>1. /\ UNCHANGED <<dedup, fires, queue>>
        /\ status' = [status EXCEPT ![Current(t)] = "firing"]
        /\ MaxOf(Current(t)) # None => ~(Head_(t).fires >= MaxOf(Current(t)))
        /\ \A u \in Ticks : u # t => phase'[u] = phase[u]
    BY <1>1, <1>4, <2>0 DEF Claim, SaveStatus, Save, Live, LiveStatus, Exhausted, OptOf, MaxOf,
       TypeOK
  <2>2. MaxOf(Current(t)) # None => Head_(t).fires < MaxOf(Current(t))
    <3>1. Head_(t).fires \in Nat
      BY <1>1, <2>0, WorkingTick DEF Working, Snapshot
    <3>2. MaxOf(Current(t)) # None => MaxOf(Current(t)) \in Nat
      BY <1>1, <2>0, MaxOfRow
    <3> QED
      BY <2>1, <3>1, <3>2
  <2>3. RunsPermitted'
    <3> SUFFICES ASSUME NEW u \in Ticks, phase'[u] \in {"guard", "handler"},
                        MaxOf(Current(u)) # None
                 PROVE  Head_(u).fires < MaxOf(Current(u))
      BY <2>1 DEF RunsPermitted, MaxOf, Current, Head_
    <3>1. CASE u = t
      BY <2>2, <3>1
    <3>2. CASE u # t
      BY <2>1, <3>2 DEF OvershootBook, RunsPermitted
    <3> QED
      BY <3>1, <3>2
  <2>4. \A r \in Rows : status[r] = "unused" <=> status'[r] = "unused"
    BY <1>1, <2>0, <2>1 DEF TypeOK
  <2>5. \A r \in Rows, u \in Ticks : Permits(u, r)' <=> Permits(u, r)
    BY <2>1 DEF Permits, MaxOf
  <2>6. \A r \in Rows : status[r] # "unused" => Bounded(r)'
    BY <1>1, <2>1, <2>5, BoundedFrame DEF OvershootBook
  <2> QED
    BY <2>1, <2>3, <2>4, <2>6 DEF OvershootBook, Bounded, Distinct
<1>5. CASE CloseExhausted(t) \/ ClaimLost(t) \/ GuardSkips(t) \/ RunFails(t)
           \/ HandlerExpires(t) \/ HandlerReschedules(t) \/ HandlerDone(t)
  <2>1. phase[t] \in Working /\ NextRow(t)
    BY <1>5 DEF CloseExhausted, ClaimLost, GuardSkips, RunFails, HandlerExpires,
       HandlerReschedules, HandlerDone, Working
  <2>2. Current(t) \in Rows
    BY <1>1, <2>1, WorkingTick
  <2>3. dedup' = dedup /\ \A r \in Rows : status'[r] = "unused" <=> status[r] = "unused"
    <3>1. TickStep(t)
      OBVIOUS
    <3>2. dedup' = dedup /\ (status' = status \/ \E s \in LiveStatus : Save(Current(t), s))
      BY <3>1, TickTable
    <3> QED
      BY <1>1, <2>2, <3>2 DEF Save, Live, LiveStatus, TypeOK
  <2>4. fires' = fires \/ (phase[t] = "handler"
                           /\ fires' = [fires EXCEPT ![Current(t)] = IF Live(Current(t))
                                                                     THEN @ + 1 ELSE @])
    BY <1>5 DEF CloseExhausted, ClaimLost, GuardSkips, RunFails, HandlerExpires,
       HandlerReschedules, HandlerDone, SaveStatus, SaveFired, table
  <2>5. \A r \in Rows : \/ fires'[r] = fires[r]
                        \/ /\ r = Current(t) /\ phase[t] = "handler"
                           /\ fires'[r] = fires[r] + 1
    BY <1>1, <2>2, <2>4 DEF TypeOK
  <2> QED
    BY <2>1, <2>3, <2>5, LeavingBook
<1> QED
  BY <1>2, <1>3, <1>4, <1>5, SelectDueBook DEF TickStep

\* Every step hands out a permit, keeps it or spends it on a run.
LEMMA OvershootStep ==
  ASSUME IInv, IInv', OvershootBook, [Next]_vars
  PROVE  OvershootBook'
<1>1. ASSUME NEW c \in Callers, CallStep(c)
      PROVE  OvershootBook'
  <2>1. UNCHANGED <<queue, fires, phase>>
    BY <1>1 DEF CallStep, Schedule, Rearm, Repair, DeleteOwner, PurgeOwner, Find, Create,
       OutsideCalls, ticker, table
  <2>2. \A r \in Rows : /\ status'[r] = "unused" => status[r] = "unused"
                        /\ status[r] # "unused" => dedup'[r] = dedup[r]
    <3>1. CASE (\E k \in Keys : Schedule(c, k) \/ Rearm(c, k) \/ Repair(c, k)) \/ Find(c)
      BY <3>1 DEF Schedule, Rearm, Repair, Find, table
    <3>2. CASE DeleteOwner(c) \/ PurgeOwner(c)
      BY <3>2 DEF DeleteOwner, PurgeOwner, IInv, TypeOK
    <3>3. CASE Create(c)
      BY <3>3 DEF Create, IInv, TypeOK, table
    <3> QED
      BY <1>1, <3>1, <3>2, <3>3 DEF CallStep
  <2> QED
    BY <2>1, <2>2, SameBatches
<1>2. ASSUME NEW r \in Rows, Cancel(r)
      PROVE  OvershootBook'
  <2>1. UNCHANGED <<queue, fires, phase, dedup>> /\ Save(r, "cancelled")
    BY <1>2 DEF Cancel, SaveStatus, ticker
  <2>2. \A q \in Rows : status'[q] = "unused" => status[q] = "unused"
    BY <2>1 DEF Save, IInv, TypeOK
  <2> QED
    BY <2>1, <2>2, SameBatches
<1>3. CASE TimePasses \/ UNCHANGED vars \/ \E c \in Callers : CallFails(c)
  BY <1>3, SameBatches DEF TimePasses, CallFails, vars, table, ticker
<1>4. CASE Crash
  <2>1. /\ UNCHANGED <<status, dedup, fires>>
        /\ \A t \in Ticks : queue'[t] = <<>> /\ phase'[t] = "idle"
    BY <1>4 DEF Crash, table
  <2>2. \A t \in Ticks : DOMAIN queue'[t] = {}
    BY <2>1
  <2>3. \A t \in Ticks, r \in Rows : ~Permits(t, r)'
    BY <2>2 DEF Permits
  <2>4. \A r \in Rows : status[r] # "unused" => Bounded(r)'
    BY <2>1, <2>3, BoundedFrame DEF OvershootBook, IInv
  <2> QED
    BY <2>1, <2>2, <2>4 DEF OvershootBook, RunsPermitted, Bounded, Distinct
<1>5. ASSUME NEW t \in Ticks, StatementFails(t)
      PROVE  OvershootBook'
  <2>1. CASE /\ phase[t] = "select" /\ UNCHANGED <<table, queue>>
             /\ phase' = [phase EXCEPT ![t] = "idle"]
    <3>1. UNCHANGED <<status, dedup, fires, queue>>
      BY <2>1 DEF table
    <3> QED
      BY <2>1, <3>1, SameBatches DEF IInv, TypeOK
  <2>2. CASE phase[t] \in Working /\ NextRow(t) /\ (UNCHANGED table \/ LostClaim(t))
    <3>1. Current(t) \in Rows
      BY <2>2, WorkingTick DEF IInv
    <3>2. UNCHANGED <<dedup, fires>>
      BY <2>2 DEF LostClaim, SaveStatus, table
    <3>3. \A r \in Rows : status'[r] = "unused" <=> status[r] = "unused"
      BY <2>2, <3>1 DEF LostClaim, SaveStatus, Save, Live, LiveStatus, table, IInv, TypeOK
    <3> QED
      BY <2>2, <3>2, <3>3, LeavingBook
  <2> QED
    BY <1>5, <2>1, <2>2, FailureCases DEF table
<1> QED
  BY <1>1, <1>2, <1>3, <1>4, <1>5, TickBook DEF Next

\* However many ticks overlap, a row runs at most one time for every other
\* tick beyond the maxFires it was scheduled with.
THEOREM OvershootIsBounded == Spec => []BoundedOvershoot
<1>1. Init => OvershootBook
  <2> SUFFICES ASSUME Init
               PROVE  OvershootBook
    OBVIOUS
  <2>1. \A t \in Ticks : DOMAIN queue[t] = {} /\ phase[t] = "idle"
    BY DEF Init
  <2>2. \A r \in Rows : status[r] = "unused" /\ fires[r] = 0
    BY DEF Init
  <2> QED
    BY <2>1, <2>2 DEF OvershootBook, RunsPermitted, Bounded, Distinct
<1>2. IInv /\ IInv' /\ OvershootBook /\ [Next]_vars => OvershootBook'
  BY OvershootStep
<1>3. IInv /\ OvershootBook => BoundedOvershoot
  <2> SUFFICES ASSUME IInv, OvershootBook, NEW r \in Rows, Live(r), MaxOf(r) # None
               PROVE  fires[r] <= MaxOf(r) + Cardinality(Ticks) - 1
    BY DEF BoundedOvershoot, MaxOf
  <2>1. Bounded(r) /\ status[r] # "unused" /\ TypeOK
    BY DEF OvershootBook, Live, LiveStatus, IInv
  <2>2. Cardinality(Holders(r)) \in Nat /\ Cardinality(Ticks) \in Nat
    <3>1. Holders(r) \subseteq Ticks
      BY DEF Holders
    <3> QED
      BY <3>1, HoldersCount
  <2>3. MaxOf(r) \in Nat \ {0} /\ fires[r] \in Nat
    BY <2>1, MaxOfRow DEF TypeOK
  <2> QED
    BY <2>1, <2>2, <2>3 DEF Bounded
<1> QED
  BY <1>1, <1>2, <1>3, InvariantHolds, PTL DEF Spec

-----------------------------------------------------------------------------
(* No path through a tick forgets a row it has claimed.                    *)

\* A step of a tick that ends its work on a row leaves no row firing that was
\* not firing, and not its own if it ran it.
LEMMA LeavesNothingFiring ==
  ASSUME IInv, NEW t \in Ticks, phase[t] \in Working,
         \/ CloseExhausted(t) \/ ClaimLost(t) \/ GuardSkips(t) \/ RunFails(t)
         \/ HandlerExpires(t) \/ HandlerReschedules(t) \/ HandlerDone(t),
         NEW r \in Rows, status'[r] = "firing"
  PROVE  status[r] = "firing" /\ ~Running(t, r)
<1>0. Current(t) \in Rows
  BY WorkingTick DEF IInv
<1>1. CASE ClaimLost(t)
  BY <1>1 DEF ClaimLost, table, Running
<1>2. CASE ~ClaimLost(t)
  <2>1. \E s \in {"pending", "failed", "fired", "cancelled"} : Save(Current(t), s)
    <3>1. CASE HandlerDone(t)
      BY <3>1 DEF HandlerDone, SaveFired
    <3> QED
      BY <1>2, <3>1 DEF CloseExhausted, GuardSkips, RunFails, HandlerExpires,
         HandlerReschedules, SaveStatus, SaveFired
  <2>2. status'[Current(t)] # "firing" /\ \A q \in Rows : q # Current(t) => status'[q] = status[q]
    BY <1>0, <2>1 DEF Save, Live, LiveStatus, IInv, TypeOK
  <2> QED
    BY <2>2 DEF Running
<1> QED
  BY <1>1, <1>2

\* A step after which the same ticks run the same rows, and no row is firing
\* that was not, keeps a firing row held.
LEMMA HeldFrame ==
  ASSUME FiringIsHeld, dropped \subseteq dropped',
         \A r \in Rows : status'[r] = "firing" => status[r] = "firing",
         \A t \in Ticks, r \in Rows : Running(t, r) => Running(t, r)' \/ r \in dropped'
  PROVE  FiringIsHeld'
BY DEF FiringIsHeld

\* A tick keeps the row it has claimed or writes what became of it.
LEMMA TickHolds ==
  ASSUME IInv, FiringIsHeld, NEW t \in Ticks, TickStep(t)
  PROVE  FiringIsHeld'
<1>0. dropped' = dropped
  BY DEF TickStep, StartTick, SelectDue, CloseExhausted, Claim, ClaimLost, GuardPasses, GuardSkips,
     RunFails, HandlerExpires, HandlerReschedules, HandlerDone, OutsideTick, upsets
<1>1. CASE StartTick(t) \/ SelectDue(t) \/ GuardPasses(t)
  <2>1. status' = status
    BY <1>1 DEF StartTick, SelectDue, GuardPasses, table
  <2>2. \A u \in Ticks, r \in Rows : Running(u, r) => Running(u, r)'
    BY <1>1 DEF StartTick, SelectDue, GuardPasses, IInv, TypeOK, Running, Current, Head_
  <2> QED
    BY <1>0, <2>1, <2>2, HeldFrame
<1>2. CASE Claim(t)
  <2>0. Current(t) \in Rows /\ phase[t] = "scan" /\ queue' = queue
    BY <1>2, WorkingTick DEF Claim, Working, IInv
  <2>1. phase'[t] \in {"guard", "handler"} /\ \A u \in Ticks : u # t => phase'[u] = phase[u]
    BY <1>2 DEF Claim, IInv, TypeOK
  <2>2. Running(t, Current(t))' /\ \A u \in Ticks, r \in Rows : Running(u, r) => Running(u, r)'
    BY <2>0, <2>1 DEF Running, Current, Head_
  <2>3. \A r \in Rows : r # Current(t) => status'[r] = status[r]
    BY <1>2, <2>0, SaveKeeps DEF Claim, SaveStatus, LiveStatus
  <2>4. \A r \in Rows : r = Current(t) => Running(t, r)'
    BY <2>0, <2>1 DEF Running, Current, Head_
  <2> QED
    BY <1>0, <2>2, <2>3, <2>4 DEF FiringIsHeld
<1>3. CASE \/ CloseExhausted(t) \/ ClaimLost(t) \/ GuardSkips(t) \/ RunFails(t)
           \/ HandlerExpires(t) \/ HandlerReschedules(t) \/ HandlerDone(t)
  <2>1. phase[t] \in Working /\ NextRow(t)
    BY <1>3 DEF CloseExhausted, ClaimLost, GuardSkips, RunFails, HandlerExpires,
       HandlerReschedules, HandlerDone, Working
  <2>2. \A u \in Ticks, r \in Rows : Running(u, r)' <=> (u # t /\ Running(u, r))
    BY <2>1, NextRowTicker DEF IInv
  <2>3. \A r \in Rows : status'[r] = "firing" => status[r] = "firing" /\ ~Running(t, r)
    BY <1>3, <2>1, LeavesNothingFiring
  <2> QED
    BY <1>0, <2>2, <2>3 DEF FiringIsHeld
<1> QED
  BY <1>1, <1>2, <1>3 DEF TickStep

\* Every step keeps a firing row in somebody's hands or records it as dropped.
LEMMA HeldStep ==
  ASSUME IInv, FiringIsHeld, [Next]_vars
  PROVE  FiringIsHeld'
<1>1. ASSUME NEW t \in Ticks, StatementFails(t)
      PROVE  FiringIsHeld'
  <2>1. CASE /\ phase[t] = "select" /\ UNCHANGED <<table, queue>>
             /\ phase' = [phase EXCEPT ![t] = "idle"]
    <3>1. \A u \in Ticks, r \in Rows : Running(u, r) => Running(u, r)'
      BY <2>1 DEF IInv, TypeOK, Running, Current, Head_
    <3>2. dropped' = dropped /\ status' = status
      BY <1>1, <2>1 DEF StatementFails, table
    <3> QED
      BY <3>1, <3>2, HeldFrame
  <2>2. CASE phase[t] \in Working /\ NextRow(t) /\ (UNCHANGED table \/ LostClaim(t))
    <3>1. Current(t) \in Rows
      BY <2>2, WorkingTick DEF IInv
    <3>2. \A u \in Ticks, r \in Rows : Running(u, r)' <=> (u # t /\ Running(u, r))
      BY <2>2, NextRowTicker DEF IInv
    <3>3. /\ dropped \subseteq dropped'
          /\ Running(t, Current(t)) => Current(t) \in dropped'
      BY <1>1, <2>2 DEF StatementFails, Working, Running
    <3>4. \A r \in Rows : status'[r] = "firing" => status[r] = "firing" \/ r \in dropped'
      <4>1. CASE UNCHANGED table
        BY <4>1 DEF table
      <4>2. CASE LostClaim(t) /\ ~UNCHANGED table
        <5>1. Current(t) \in dropped'
          BY <1>1, <4>2 DEF StatementFails, LostClaim
        <5>2. \A r \in Rows : r # Current(t) => status'[r] = status[r]
          BY <3>1, <4>2, SaveKeeps DEF LostClaim, SaveStatus, LiveStatus
        <5> QED
          BY <5>1, <5>2
      <4> QED
        BY <2>2, <4>1, <4>2
    <3>5. \A r \in Rows : Running(t, r) => r \in dropped'
      BY <3>3 DEF Running
    <3> QED
      BY <3>2, <3>3, <3>4, <3>5 DEF FiringIsHeld
  <2> QED
    BY <1>1, <2>1, <2>2, FailureCases DEF table
<1>2. CASE \/ \E c \in Callers : CallStep(c) \/ CallFails(c)
           \/ \E r \in Rows : Cancel(r)
           \/ TimePasses \/ UNCHANGED vars
  <2>1. UNCHANGED <<ticker, dropped>>
    BY <1>2 DEF CallStep, Schedule, Rearm, Repair, DeleteOwner, PurgeOwner, Find, Create,
       CallFails, OutsideCalls, Cancel, TimePasses, vars, upsets
  <2>2. \A r \in Rows : status'[r] = "firing" => status[r] = "firing"
    <3>1. ASSUME NEW r \in Rows, Cancel(r)
          PROVE  <2>2
      BY <3>1 DEF Cancel, SaveStatus, Save, IInv, TypeOK
    <3>2. ASSUME NEW c \in Callers, CallStep(c)
          PROVE  <2>2
      <4>1. CASE DeleteOwner(c) \/ PurgeOwner(c)
        BY <4>1 DEF DeleteOwner, PurgeOwner
      <4>2. CASE Create(c)
        BY <4>2 DEF Create, table, IInv, TypeOK
      <4> QED
        BY <3>2, <4>1, <4>2 DEF CallStep, Schedule, Rearm, Repair, Find, table
    <3> QED
      BY <1>2, <3>1, <3>2 DEF CallFails, TimePasses, vars, table
  <2>3. \A u \in Ticks, r \in Rows : Running(u, r) => Running(u, r)'
    BY <2>1 DEF ticker, Running, Current, Head_
  <2> QED
    BY <2>1, <2>2, <2>3, HeldFrame
<1>3. CASE Crash
  BY <1>3 DEF Crash, FiringIsHeld, table
<1> QED
  BY <1>1, <1>2, <1>3, TickHolds DEF Next

\* Through all overlapping ticks, cancels, re-arming, restarts and failed
\* statements, a row stands firing only while a tick runs it, or because a
\* restart or a failed statement of its own tick dropped it (fireDue's catch).
THEOREM NoRunIsForgotten == Spec => []FiringIsHeld
<1>1. Init => FiringIsHeld
  BY DEF Init, FiringIsHeld
<1>2. IInv /\ FiringIsHeld /\ [Next]_vars => FiringIsHeld'
  BY HeldStep
<1>3. QED
  BY <1>1, <1>2, InvariantHolds, PTL DEF Spec
=============================================================================
