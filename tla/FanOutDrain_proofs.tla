------------------------- MODULE FanOutDrain_proofs -------------------------
(***************************************************************************)
(* Proofs about FanOutDrain, for any team, any receipts, any number of     *)
(* drains in flight: the claim admits one drain at a time, and every wake  *)
(* of the main agent goes back to a settlement or an answer of its own.    *)
(***************************************************************************)
EXTENDS FanOutDrain, TLAPS

\* The claim is held exactly while a drain executes.
ClaimTaken == claim <=> \E e \in Execs : phase[e] # "idle"

\* OneExecutor is not inductive without ClaimTaken: a drain starts when the
\* claim is free, and then no other one may be executing.
EInv == TypeOK /\ ClaimTaken /\ OneExecutor

\* WakesArePaidFor needs both: when a drain ends, no other one is left to
\* account for.
IInv == EInv /\ WakesArePaidFor

Active == \E e \in Execs : phase[e] \in {"count", "session", "wake"}
Armed == recheck # None /\ recheck.armed
Count(b) == IF b THEN 1 ELSE 0

\* The three kinds of check in flight, as named parts, before and after a step.
LEMMA InFlightParts ==
  /\ InFlight = Count(timer # None) + Count(Active) + Count(Armed)
  /\ InFlight' = Count(timer' # None) + Count(Active') + Count(Armed')
BY DEF InFlight, Active, Armed, Count

-----------------------------------------------------------------------------
(* Types.                                                                  *)

\* The types hold at first.
LEMMA InitTypeOK == Init => TypeOK
<1> SUFFICES ASSUME Init PROVE TypeOK
  OBVIOUS
<1> USE DrainAssumption DEF Init
<1>1. BooksOK  BY DEF BooksOK
<1>2. DrainOK  BY DEF DrainOK, Phases
<1>3. HistoryOK  BY DEF HistoryOK
<1> QED  BY <1>1, <1>2, <1>3 DEF TypeOK

\* What armDrainRecheck writes to the recheck entry has its type.
LEMMA ArmRecheckType ==
  ASSUME DrainOK, NEW m \in Members, ArmRecheck(m)
  PROVE  /\ recheck' \in Recheck \cup {None}
         /\ recheck' # None => recheck'.vetoes \in 1 .. MaxVetoes
<1>0. MaxVetoes \in Nat
  BY DrainAssumption
<1>1. PICK v : v = (IF recheck = None THEN 0 ELSE recheck.vetoes) + 1
  OBVIOUS
<1>2. v \in Nat \ {0}
  BY <1>1, <1>0 DEF DrainOK, Recheck
<1>3. recheck' = IF v > MaxVetoes THEN None
                 ELSE [vetoes |-> v, axis |-> m, armed |-> TRUE]
  BY <1>1 DEF ArmRecheck
<1>4. CASE v > MaxVetoes
  BY <1>3, <1>4
<1>5. CASE ~(v > MaxVetoes)
  <2>1. recheck' = [vetoes |-> v, axis |-> m, armed |-> TRUE]
    BY <1>3, <1>5
  <2>2. recheck' \in Recheck /\ recheck'.vetoes = v
    BY <2>1, <1>2 DEF Recheck
  <2> QED  BY <2>2, <1>2, <1>5, <1>0
<1> QED  BY <1>4, <1>5

\* Every step keeps the types of receipts, turns and counters ...
LEMMA StepBooksOK ==
  ASSUME TypeOK, [Next]_vars
  PROVE  BooksOK'
<1> USE DEF BooksOK
<1>0. BooksOK /\ Main \in Members
  BY DrainAssumption DEF TypeOK
<1>1. ASSUME NEW r \in Rows, Dispatch(r) PROVE BooksOK'
  BY <1>0, <1>1 DEF Dispatch
<1>2. ASSUME NEW r \in Rows, FallsDue(r) PROVE BooksOK'
  BY <1>0, <1>2 DEF FallsDue
<1>3. ASSUME NEW r \in Rows, Settle(r) PROVE BooksOK'
  BY <1>0, <1>3 DEF Settle
<1>3a. ASSUME NEW r \in Rows, SettleAgain(r) PROVE BooksOK'
  BY <1>0, <1>3a DEF SettleAgain
<1>4. ASSUME NEW r \in Rows, Hook(r) PROVE BooksOK'
  BY <1>0, <1>4 DEF Hook
<1>5. ASSUME NEW m \in Members, TurnStarts(m) \/ TurnEnds(m) PROVE BooksOK'
  BY <1>0, <1>5 DEF TurnStarts, TurnEnds
<1>6. CASE Report
  BY <1>0, <1>6 DEF Report
<1>7. CASE RecheckFires
  BY <1>0, <1>7 DEF RecheckFires, books
<1>8. ASSUME NEW e \in Execs, DrainStep(e) PROVE BooksOK'
  <2>1. CASE UNCHANGED books
    BY <1>0, <2>1 DEF books
  <2>2. CASE WakeMain(e)
    BY <1>0, <2>2 DEF WakeMain
  <2>3. CASE DrainFails(e)
    BY <1>0, <2>3 DEF DrainFails
  <2> QED
    BY <1>8, <2>1, <2>2, <2>3 DEF DrainStep, TimerFires, CountPending, CheckSession, Finish
<1>9. CASE Crash
  BY <1>0, <1>9 DEF Crash
<1>10. CASE UNCHANGED vars
  BY <1>0, <1>10 DEF vars, books
<1> QED
  BY <1>1, <1>2, <1>3, <1>3a, <1>4, <1>5, <1>6, <1>7, <1>8, <1>9, <1>10 DEF Next

\* ... those of timers, claim, executions and recheck ...
LEMMA StepDrainOK ==
  ASSUME TypeOK, [Next]_vars
  PROVE  DrainOK'
<1> USE DEF DrainOK
<1>0. /\ DrainOK
      /\ Main \in Members /\ None \notin Members /\ From \in [Rows -> Members]
  BY DrainAssumption DEF TypeOK
<1>1. CASE UNCHANGED drain
  BY <1>0, <1>1 DEF drain
<1>2. ASSUME NEW r \in Rows, Hook(r) PROVE DrainOK'
  BY <1>0, <1>2 DEF Hook, CheckAndDrain
<1>3. CASE Report
  BY <1>0, <1>3 DEF Report, CheckAndDrain
<1>4. CASE RecheckFires
  <2>1. recheck \in Recheck
    BY <1>0, <1>4 DEF RecheckFires
  <2>2. /\ recheck' \in Recheck /\ recheck'.vetoes = recheck.vetoes
        /\ recheck.axis \in Members
    BY <2>1, <1>4 DEF RecheckFires, Recheck
  <2> QED  BY <1>0, <1>4, <2>2 DEF RecheckFires, CheckAndDrain
<1>5. ASSUME NEW e \in Execs, DrainStep(e) PROVE DrainOK'
  <2>0. axis[e] \in Members
    BY <1>0
  <2>1. CASE TimerFires(e)
    BY <1>0, <2>1 DEF TimerFires, Phases
  <2>2. CASE CountPending(e)
    BY <1>0, <2>0, <2>2 DEF CountPending, CancelRecheck, Release, Phases
  <2>3. CASE CheckSession(e)
    <3>1. \/ ArmRecheck(axis[e])
          \/ recheck' = recheck
      BY <2>3 DEF CheckSession
    <3>2. /\ recheck' \in Recheck \cup {None}
          /\ recheck' # None => recheck'.vetoes \in 1 .. MaxVetoes
      BY <1>0, <2>0, <3>1, ArmRecheckType
    <3> QED  BY <1>0, <3>2, <2>3 DEF CheckSession, Release, Phases
  <2>4. CASE WakeMain(e)
    BY <1>0, <2>4 DEF WakeMain, Phases
  <2>5. CASE Finish(e)
    BY <1>0, <2>5 DEF Finish, CancelRecheck, Release, Phases
  <2>6. CASE DrainFails(e)
    BY <1>0, <2>6 DEF DrainFails, Release, Phases
  <2> QED  BY <1>5, <2>1, <2>2, <2>3, <2>4, <2>5, <2>6 DEF DrainStep
<1>6. CASE Crash
  BY <1>0, <1>6 DEF Crash, Phases
<1> QED
  BY <1>1, <1>2, <1>3, <1>4, <1>5, <1>6
  DEF Next, Dispatch, FallsDue, Settle, SettleAgain, TurnStarts, TurnEnds, vars

\* ... and those of the history.
LEMMA StepHistoryOK ==
  ASSUME TypeOK, [Next]_vars
  PROVE  HistoryOK'
<1> USE DEF HistoryOK
<1>0. HistoryOK
  BY DEF TypeOK
<1>1. CASE UNCHANGED history
  BY <1>0, <1>1 DEF history
<1>2. ASSUME NEW r \in Rows, Dispatch(r) PROVE HistoryOK'
  BY <1>0, <1>2 DEF Dispatch
<1>3. ASSUME NEW r \in Rows, Settle(r) PROVE HistoryOK'
  BY <1>0, <1>3 DEF Settle
<1>4. ASSUME NEW r \in Rows, Hook(r) PROVE HistoryOK'
  BY <1>0, <1>4 DEF Hook, CheckAndDrain
<1>5. CASE Report
  BY <1>0, <1>5 DEF Report, CheckAndDrain
<1>6. CASE RecheckFires
  BY <1>0, <1>6 DEF RecheckFires, CheckAndDrain
<1>7. ASSUME NEW e \in Execs, DrainStep(e) PROVE HistoryOK'
  <2>1. CASE TimerFires(e)
    BY <1>0, <2>1 DEF TimerFires
  <2>2. CASE CountPending(e)
    BY <1>0, <2>2 DEF CountPending, CancelRecheck, Release
  <2>3. CASE CheckSession(e)
    BY <1>0, <2>3 DEF CheckSession, ArmRecheck, Release
  <2>4. CASE WakeMain(e)
    <3>1. wakes' \in Nat
      BY <1>0, <2>4 DEF WakeMain
    <3>2. /\ owed' = FALSE
          /\ UNCHANGED <<signals, lost>>
      BY <2>4 DEF WakeMain
    <3> QED  BY <1>0, <3>1, <3>2, Zenon
  <2>5. CASE Finish(e)
    BY <1>0, <2>5 DEF Finish, CancelRecheck, Release
  <2>6. CASE DrainFails(e)
    BY <1>0, <2>6 DEF DrainFails, Release
  <2> QED  BY <1>7, <2>1, <2>2, <2>3, <2>4, <2>5, <2>6 DEF DrainStep
<1>8. CASE Crash
  BY <1>0, <1>8 DEF Crash
<1> QED
  BY <1>1, <1>2, <1>3, <1>4, <1>5, <1>6, <1>7, <1>8
  DEF Next, FallsDue, SettleAgain, TurnStarts, TurnEnds, vars

\* So every step keeps the types.
LEMMA StepTypeOK ==
  ASSUME TypeOK, [Next]_vars
  PROVE  TypeOK'
BY StepBooksOK, StepDrainOK, StepHistoryOK DEF TypeOK

-----------------------------------------------------------------------------
(* The claim.                                                              *)

\* The steps outside a drain leave the claim and the executors alone.
LEMMA OutsideSteps ==
  ASSUME \/ \E r \in Rows : Dispatch(r) \/ FallsDue(r) \/ Settle(r) \/ SettleAgain(r) \/ Hook(r)
         \/ \E m \in Members : TurnStarts(m) \/ TurnEnds(m)
         \/ Report
         \/ RecheckFires
         \/ UNCHANGED vars
  PROVE  UNCHANGED <<claim, phase>>
BY DEF Dispatch, FallsDue, Settle, SettleAgain, Hook, TurnStarts, TurnEnds, Report,
       RecheckFires, vars, books, drain, history

\* A drain that ends leaves nobody executing, and the claim free.
LEMMA ReleaseEnds ==
  ASSUME EInv, NEW e \in Execs, Release(e), phase[e] # "idle"
  PROVE  ~claim' /\ \A x \in Execs : phase'[x] = "idle"
BY DEF Release, EInv, TypeOK, DrainOK, OneExecutor

\* A step lets no second execution in, and whoever executes has the claim.
LEMMA StepClaim ==
  ASSUME EInv, [Next]_vars
  PROVE  (ClaimTaken /\ OneExecutor)'
<1> USE DEF ClaimTaken, OneExecutor
<1>0. phase \in [Execs -> Phases]
  BY DEF EInv, TypeOK, DrainOK
<1>1. CASE \/ \E r \in Rows : Dispatch(r) \/ FallsDue(r) \/ Settle(r) \/ SettleAgain(r) \/ Hook(r)
           \/ \E m \in Members : TurnStarts(m) \/ TurnEnds(m)
           \/ Report
           \/ RecheckFires
           \/ UNCHANGED vars
  BY <1>1, OutsideSteps DEF EInv
<1>2. ASSUME NEW e \in Execs, DrainStep(e) PROVE (ClaimTaken /\ OneExecutor)'
  <2>1. CASE TimerFires(e)
    <3>1. CASE claim
      <4>1. UNCHANGED <<claim, phase>>  BY <2>1, <3>1 DEF TimerFires
      <4> QED  BY <4>1 DEF EInv
    <3>2. CASE ~claim
      <4>1. claim' /\ phase' = [phase EXCEPT ![e] = "count"]
        BY <2>1, <3>2 DEF TimerFires
      <4>2. \A x \in Execs : phase[x] = "idle"
        BY <3>2 DEF EInv
      <4> QED  BY <4>1, <4>2, <1>0
    <3> QED  BY <3>1, <3>2
  <2>2. ASSUME Release(e), phase[e] # "idle"
        PROVE  (ClaimTaken /\ OneExecutor)'
    BY <2>2, ReleaseEnds
  <2>3. ASSUME NEW p \in {"session", "wake", "finish"}, phase[e] # "idle",
               phase' = [phase EXCEPT ![e] = p], UNCHANGED claim
        PROVE  (ClaimTaken /\ OneExecutor)'
    <3>1. \A x \in Execs : phase'[x] # "idle" <=> phase[x] # "idle"
      BY <2>3, <1>0
    <3> QED  BY <2>3, <3>1 DEF EInv
  <2>4. CASE CountPending(e)  BY <2>2, <2>3, <2>4 DEF CountPending
  <2>5. CASE CheckSession(e)  BY <2>2, <2>3, <2>5 DEF CheckSession
  <2>6. CASE WakeMain(e)  BY <2>3, <2>6 DEF WakeMain
  <2>7. CASE Finish(e)  BY <2>2, <2>7 DEF Finish
  <2>8. CASE DrainFails(e)  BY <2>2, <2>8 DEF DrainFails
  <2> QED  BY <1>2, <2>1, <2>4, <2>5, <2>6, <2>7, <2>8 DEF DrainStep
<1>3. CASE Crash
  BY <1>3 DEF Crash
<1> QED  BY <1>1, <1>2, <1>3 DEF Next

-----------------------------------------------------------------------------
(* The account of signals and wakes.                                       *)

\* Arithmetic of the account: what a step adds to the wakes and the checks in
\* flight, it adds to the signals.
LEMMA Balance ==
  ASSUME WakesArePaidFor, wakes \in Nat, signals \in Nat, wakes' \in Nat, signals' \in Nat,
         wakes' + Count(timer' # None) + Count(Active') + Count(Armed') + signals
           <= wakes + Count(timer # None) + Count(Active) + Count(Armed) + signals'
  PROVE  WakesArePaidFor'
<1>1. \A b \in BOOLEAN : Count(b) \in {0, 1}
  BY DEF Count
<1>2. /\ Count(timer # None) \in {0, 1} /\ Count(Active) \in {0, 1}
      /\ Count(Armed) \in {0, 1}
      /\ Count(timer' # None) \in {0, 1} /\ Count(Active') \in {0, 1}
      /\ Count(Armed') \in {0, 1}
  BY DEF Count
<1>3. wakes + (Count(timer # None) + Count(Active) + Count(Armed)) <= signals
  BY InFlightParts DEF WakesArePaidFor
<1>4. wakes' + (Count(timer' # None) + Count(Active') + Count(Armed')) <= signals'
  BY <1>2, <1>3
<1> QED  BY <1>4, InFlightParts DEF WakesArePaidFor

\* A step keeps the account in balance: it moves a unit, drops it or pays for it.
LEMMA StepAccount ==
  ASSUME IInv, [Next]_vars, TypeOK'
  PROVE  WakesArePaidFor'
<1>0. WakesArePaidFor /\ EInv
  BY DEF IInv
<1>t. /\ wakes \in Nat /\ signals \in Nat /\ wakes' \in Nat /\ signals' \in Nat
      /\ phase \in [Execs -> Phases]
      /\ timer \in Members \cup {None} /\ recheck \in Recheck \cup {None}
      /\ None \notin Members
  BY <1>0, DrainAssumption DEF EInv, TypeOK, DrainOK, HistoryOK
<1>a. UNCHANGED phase => (Active' <=> Active)
  BY DEF Active
<1>b. UNCHANGED recheck => (Armed' <=> Armed)
  BY DEF Armed
<1>1. CASE \/ \E r \in Rows : Dispatch(r) \/ FallsDue(r) \/ Settle(r) \/ SettleAgain(r)
           \/ \E m \in Members : TurnStarts(m) \/ TurnEnds(m)
           \/ UNCHANGED vars
  <2>1. UNCHANGED <<timer, phase, recheck, wakes, signals>>
    BY <1>1 DEF Dispatch, FallsDue, Settle, SettleAgain, TurnStarts, TurnEnds, vars, books,
                drain, history
  <2>2. (Active' <=> Active) /\ (Armed' <=> Armed)
    BY <2>1, <1>a, <1>b
  <2> QED  BY <2>1, <2>2, <1>0, <1>t, Balance DEF Count
<1>2. CASE (\E r \in Rows : Hook(r)) \/ Report
  <2>1. /\ signals' = signals + 1
        /\ UNCHANGED <<phase, recheck, wakes>>
    BY <1>2 DEF Hook, Report
  <2>2. (Active' <=> Active) /\ (Armed' <=> Armed)
    BY <2>1, <1>a, <1>b
  <2> QED  BY <2>1, <2>2, <1>0, <1>t, Balance DEF Count
<1>3. CASE RecheckFires
  <2>1. UNCHANGED <<phase, wakes, signals>>
    BY <1>3 DEF RecheckFires
  <2>2. Armed /\ recheck' = [recheck EXCEPT !.armed = FALSE] /\ recheck \in Recheck
    BY <1>3, <1>t DEF RecheckFires, Armed
  <2>3. ~Armed' /\ (Active' <=> Active)
    BY <2>1, <2>2, <1>a DEF Armed, Recheck
  <2> QED  BY <2>1, <2>2, <2>3, <1>0, <1>t, Balance DEF Count
<1>4. ASSUME NEW e \in Execs, DrainStep(e) PROVE WakesArePaidFor'
  <2>e. ASSUME Release(e), phase[e] # "idle" PROVE ~Active'
    BY <2>e, <1>0, ReleaseEnds DEF Active
  <2>1. CASE TimerFires(e)
    <3>1. timer # None /\ timer' = None /\ UNCHANGED <<recheck, wakes, signals>>
      BY <2>1 DEF TimerFires
    <3>2. Armed' <=> Armed
      BY <3>1, <1>b
    <3> QED  BY <3>1, <3>2, <1>0, <1>t, Balance DEF Count
  <2>2. CASE CountPending(e)
    <3>1. Active /\ UNCHANGED <<timer, wakes, signals>> /\ phase[e] # "idle"
      BY <2>2 DEF CountPending, Active
    <3>2. ASSUME CancelRecheck(axis[e]) PROVE ~Armed'
      BY <3>2 DEF CancelRecheck, Armed
    <3>3. Armed' => Armed
      BY <2>2, <3>2, <1>b DEF CountPending
    <3> QED  BY <3>1, <3>3, <1>0, <1>t, Balance DEF Count
  <2>3. CASE CheckSession(e)
    <3>1. Active /\ UNCHANGED <<timer, wakes, signals>> /\ phase[e] # "idle"
      BY <2>3 DEF CheckSession, Active
    <3>2. CASE Release(e)
      BY <3>1, <3>2, <2>e, <1>0, <1>t, Balance DEF Count
    <3>3. CASE UNCHANGED recheck
      BY <3>1, <3>3, <1>b, <1>0, <1>t, Balance DEF Count
    <3> QED  BY <2>3, <3>2, <3>3 DEF CheckSession
  <2>4. CASE WakeMain(e)
    <3>1. /\ Active /\ phase[e] = "wake"
          /\ phase' = [phase EXCEPT ![e] = "finish"]
          /\ wakes' = wakes + 1
          /\ UNCHANGED <<timer, recheck, signals>>
      BY <2>4 DEF WakeMain, Active
    <3>2. ~Active'
      BY <3>1, <1>0, <1>t DEF Active, EInv, OneExecutor
    <3>3. Armed' <=> Armed
      BY <3>1, <1>b
    <3> QED  BY <3>1, <3>2, <3>3, <1>0, <1>t, Balance DEF Count
  <2>5. CASE Finish(e)
    <3>1. /\ Release(e) /\ phase[e] # "idle" /\ recheck' = None
          /\ UNCHANGED <<timer, wakes, signals>>
      BY <2>5 DEF Finish, CancelRecheck
    <3>2. ~Active' /\ ~Armed'
      BY <3>1, <2>e DEF Armed
    <3> QED  BY <3>1, <3>2, <1>0, <1>t, Balance DEF Count
  <2>6. CASE DrainFails(e)
    <3>1. /\ Release(e) /\ phase[e] # "idle"
          /\ UNCHANGED <<timer, recheck, wakes, signals>>
      BY <2>6 DEF DrainFails
    <3>2. ~Active' /\ (Armed' <=> Armed)
      BY <3>1, <2>e, <1>b
    <3> QED  BY <3>1, <3>2, <1>0, <1>t, Balance DEF Count
  <2> QED  BY <1>4, <2>1, <2>2, <2>3, <2>4, <2>5, <2>6 DEF DrainStep
<1>5. CASE Crash
  <2>1. /\ timer' = None /\ recheck' = None /\ phase' = [e \in Execs |-> "idle"]
        /\ UNCHANGED <<wakes, signals>>
    BY <1>5 DEF Crash
  <2>2. ~Active' /\ ~Armed'
    BY <2>1 DEF Active, Armed
  <2> QED  BY <2>1, <2>2, <1>0, <1>t, Balance DEF Count
<1> QED  BY <1>1, <1>2, <1>3, <1>4, <1>5 DEF Next

-----------------------------------------------------------------------------

\* The invariant holds at first, with nothing asked for and nobody executing.
LEMMA InitIInv == Init => IInv
<1> SUFFICES ASSUME Init PROVE IInv
  OBVIOUS
<1>1. TypeOK
  BY InitTypeOK
<1>2. ClaimTaken /\ OneExecutor
  BY DEF Init, ClaimTaken, OneExecutor
<1>3. InFlight = 0
  BY DEF Init, InFlight
<1>4. WakesArePaidFor
  BY <1>3 DEF WakesArePaidFor, Init
<1> QED  BY <1>1, <1>2, <1>4 DEF IInv, EInv

\* Every step keeps it.
LEMMA StepIInv == IInv /\ [Next]_vars => IInv'
<1> SUFFICES ASSUME IInv, [Next]_vars PROVE IInv'
  OBVIOUS
<1>0. EInv /\ TypeOK
  BY DEF IInv, EInv
<1>1. TypeOK'
  BY <1>0, StepTypeOK
<1>2. (ClaimTaken /\ OneExecutor)'
  BY <1>0, StepClaim
<1>3. WakesArePaidFor'
  BY <1>1, StepAccount
<1> QED  BY <1>1, <1>2, <1>3 DEF IInv, EInv

\* The inductive invariant of the drain holds in every reachable state.
THEOREM DrainInvariant == Spec => []IInv
BY InitIInv, StepIInv, PTL DEF Spec

\* Every variable keeps its type; the veto count stays within MaxVetoes.
THEOREM DrainTypeCorrect == Spec => []TypeOK
<1>1. IInv => TypeOK  BY DEF IInv, EInv
<1> QED  BY <1>1, DrainInvariant, PTL

\* drainClaims is a mutual exclusion: whatever signals, rechecks, errors and
\* restarts interleave, one drain at a time is between its count and its wake.
THEOREM DrainExclusion == Spec => []OneExecutor
<1>1. IInv => OneExecutor  BY DEF IInv, EInv
<1> QED  BY <1>1, DrainInvariant, PTL

\* Every drain wake of the main agent, and every check still in flight, goes
\* back to a settlement or an answer of its own: no signal wakes twice.
THEOREM EveryWakeIsPaidFor == Spec => []WakesArePaidFor
<1>1. IInv => WakesArePaidFor  BY DEF IInv
<1> QED  BY <1>1, DrainInvariant, PTL
=============================================================================
