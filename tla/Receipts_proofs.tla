--------------------------- MODULE Receipts_proofs ---------------------------
(***************************************************************************)
(* Theorems about Receipts, for any receipts and questions, any number of  *)
(* ticks and requests, any periods, errors and restarts.                   *)
(***************************************************************************)
EXTENDS Receipts, TLAPS

\* The assumption on the constants, one by one.
LEMMA Periods ==
  /\ Timeout \in Nat \ {0} /\ NudgePeriod \in Nat \ {0} /\ SweepPeriod \in Nat \ {0}
  /\ FollowUp \in Nat \ {0} /\ MaxAutoNudges \in Nat \ {0}
  /\ Grace \in Nat /\ Cooldown \in Nat /\ Downtime \in Nat
  /\ MaxFaults \in Nat /\ MaxCrashes \in Nat
  BY ReceiptsAssumption

\* Every step is one of these.
OneOf ==
  \/ \E r \in Rows : Open(r) \/ ArmNudge(r) \/ Quote(Message[r]) \/ Supersede(r)
  \/ \E a \in Ackers : AckWrites(a) \/ \E r \in Rows : AckReads(a, r)
  \/ \E q \in Questions : MainPosts(q) \/ MainPostSettles(q)
  \/ SweepTick \/ SweepSettles \/ SweepSelects \/ SweepFails \/ NudgeTick
  \/ \E r \in Rows : SweepExpires(r)
  \/ \E t \in Ticks, r \in Rows :
       \/ Claim(t, r)
       \/ /\ cur[t] = r
          /\ \/ HandlerReads(t, r) \/ HandlerSettles(t, r) \/ HandlerRereads(t, r)
             \/ HandlerChecks(t, r) \/ HandlerSends(t, r) \/ HandlerRecords(t, r)
             \/ HandlerFollowsUp(t, r) \/ HandlerExpires(t, r) \/ HandlerThrows(t, r)
  \/ TimePasses \/ Crash

\* HandlerStep, with the row of the tick for its bound variable.
LEMMA EveryStep == ASSUME TypeOK, Next PROVE OneOf
<1>1. CASE \E t \in Ticks : HandlerStep(t)
  <2>1. PICK t \in Ticks : HandlerStep(t)
    BY <1>1
  <2>2. cur[t] \in Rows
    BY <2>1 DEF HandlerStep, TypeOK
  <2> QED
    BY <2>1, <2>2 DEF HandlerStep, OneOf
<1> QED
  BY <1>1 DEF Next, OneOf

-----------------------------------------------------------------------------
(* Types, and one handler for a row.                                       *)

\* A claim needs an armed trigger, so no two ticks run the same one.
OneHandler == \A t, u \in Ticks : cur[t] = cur[u] /\ cur[t] # None => t = u

\* What the end of a handler leaves.
ReturnTypes(t, r) ==
  /\ trig' \in [Rows -> {"none", "armed", "running", "over"}]
  /\ cur' \in [Ticks -> Rows \cup {None}]
  /\ step' \in [Rows -> {"idle", "read", "settle", "reread", "check", "send", "record",
                         "follow", "expire"}]
  /\ seen' \in [Rows -> Nat]
  /\ \A r2 \in Rows : trig'[r2] = "running" <=> \E u \in Ticks : cur'[u] = r2

\* A handler that returns frees its tick, and no other tick has its row.
LEMMA ReturnKeepsTypes ==
  ASSUME TypeOK, OneHandler, NEW t \in Ticks, NEW r \in Rows, cur[t] = r, Return(t, r)
  PROVE  ReturnTypes(t, r)
<1> USE NoneAssumption DEF TypeOK, OneHandler, Return
<1>1. \A r2 \in Rows : trig'[r2] = "running" <=> \E u \in Ticks : cur'[u] = r2
  <2>1. \A u \in Ticks : u # t => cur'[u] = cur[u] /\ cur[u] # r
    OBVIOUS
  <2>2. cur'[t] = None
    OBVIOUS
  <2> QED
    BY <2>1, <2>2
<1> QED
  BY <1>1 DEF ReturnTypes

\* Ages stay integers when time passes.
LEMMA AgesAreInt ==
  ASSUME TypeOK, NEW n \in Nat, Elapse(n)
  PROVE  age' \in [Rows -> Int]
BY Periods DEF TypeOK, Elapse, Older

\* A step keeps the types.
LEMMA TypesStep == ASSUME TypeOK, OneHandler, Next PROVE TypeOK'
<1> USE Periods, NoneAssumption, ReceiptsAssumption DEF TypeOK, OneHandler
<1>1. ASSUME NEW r \in Rows, Open(r)
      PROVE  TypeOK'
  BY <1>1 DEF Open, nudger, sweeper, others
<1>2. ASSUME NEW r \in Rows, ArmNudge(r)
      PROVE  TypeOK'
  BY <1>2 DEF ArmNudge, ledger, sweeper, timing
<1>3. ASSUME NEW m, Quote(m)
      PROVE  TypeOK'
  BY <1>3 DEF Quote, SettlePending, nudger, sweeper, timing, others
<1>4. ASSUME NEW r \in Rows, Supersede(r)
      PROVE  TypeOK'
  BY <1>4 DEF Supersede, SettlePending, nudger, sweeper, timing, others
<1>5. ASSUME NEW a \in Ackers, NEW r \in Rows, AckReads(a, r)
      PROVE  TypeOK'
  BY <1>5 DEF AckReads, ledger, nudger, sweeper, timing
<1>6. ASSUME NEW a \in Ackers, AckWrites(a)
      PROVE  TypeOK'
  BY <1>6 DEF AckWrites, nudger, sweeper, timing
<1>7. ASSUME NEW q \in Questions, MainPosts(q)
      PROVE  TypeOK'
  BY <1>7 DEF MainPosts, ledger, nudger, sweeper, timing
<1>8. ASSUME NEW q \in Questions, MainPostSettles(q)
      PROVE  TypeOK'
  BY <1>8 DEF MainPostSettles, SettlePending, nudger, sweeper, timing
<1>9. CASE SweepTick
  BY <1>9 DEF SweepTick, PastGrace, ledger, nudger, sweeper, others
<1>10. CASE SweepSettles
  BY <1>10 DEF SweepSettles, SettleAnswered, SettlePending, nudger, timing
<1>11. CASE SweepSelects
  BY <1>11 DEF SweepSelects, ledger, nudger, timing, others
<1>12. ASSUME NEW r \in Rows, SweepExpires(r)
      PROVE  TypeOK'
  BY <1>12 DEF SweepExpires, Expire, nudger, timing, others
<1>13. CASE SweepFails
  BY <1>13 DEF SweepFails, ledger, nudger, timing
<1>14. CASE NudgeTick
  <2>1. batch' \in [Ticks -> SUBSET Rows]
    BY <1>14 DEF NudgeTick
  <2>2. nudgeIn' \in 0 .. NudgePeriod
    BY <1>14 DEF NudgeTick
  <2> QED
    BY <1>14, <2>1, <2>2 DEF NudgeTick, ledger, sweeper, others
<1>15. ASSUME NEW t \in Ticks, NEW r \in Rows, Claim(t, r)
      PROVE  TypeOK'
  <2>1. batch' \in [Ticks -> SUBSET Rows]
    BY <1>15 DEF Claim
  <2>2. CASE Due(r)
    <3>1. /\ trig' = [trig EXCEPT ![r] = "running"]
          /\ cur' = [cur EXCEPT ![t] = r]
          /\ step' = [step EXCEPT ![r] = "read"]
          /\ cur[t] = None
      BY <1>15, <2>2 DEF Claim
    <3>2. \A r2 \in Rows : trig'[r2] = "running" <=> \E u \in Ticks : cur'[u] = r2
      BY <3>1
    <3> QED
      BY <1>15, <2>1, <3>1, <3>2 DEF Claim, ledger, sweeper, timing, others
  <2>3. CASE ~Due(r)
    BY <1>15, <2>1, <2>3 DEF Claim, ledger, sweeper, timing, others
  <2> QED
    BY <2>2, <2>3
<1>16. ASSUME NEW t \in Ticks, NEW r \in Rows, cur[t] = r, HandlerReads(t, r)
      PROVE  TypeOK'
  <2>1. CASE Return(t, r)
    <3>1. ReturnTypes(t, r)
      BY <1>16, <2>1, ReturnKeepsTypes
    <3> QED
      BY <1>16, <2>1, <3>1 DEF ReturnTypes, Return, HandlerReads, Goto,
                             ledger, sweeper, timing, others
  <2>2. CASE ~Return(t, r)
    BY <1>16, <2>2 DEF HandlerReads, Goto, ledger, sweeper, timing, others
  <2> QED
    BY <2>1, <2>2
<1>17. ASSUME NEW t \in Ticks, NEW r \in Rows, cur[t] = r, HandlerSettles(t, r)
      PROVE  TypeOK'
  BY <1>17 DEF HandlerSettles, SettleAnswered, SettlePending, Goto, sweeper, timing
<1>18. ASSUME NEW t \in Ticks, NEW r \in Rows, cur[t] = r, HandlerRereads(t, r)
      PROVE  TypeOK'
  <2>1. CASE Return(t, r)
    <3>1. ReturnTypes(t, r)
      BY <1>18, <2>1, ReturnKeepsTypes
    <3> QED
      BY <1>18, <2>1, <3>1 DEF ReturnTypes, Return, HandlerRereads, Goto,
                             ledger, sweeper, timing, others
  <2>2. CASE ~Return(t, r)
    BY <1>18, <2>2 DEF HandlerRereads, Goto, ledger, sweeper, timing, others
  <2> QED
    BY <2>1, <2>2
<1>19. ASSUME NEW t \in Ticks, NEW r \in Rows, cur[t] = r, HandlerChecks(t, r)
      PROVE  TypeOK'
  <2>1. CASE Return(t, r)
    <3>1. ReturnTypes(t, r)
      BY <1>19, <2>1, ReturnKeepsTypes
    <3> QED
      BY <1>19, <2>1, <3>1 DEF ReturnTypes, Return, HandlerChecks, Goto,
                             ledger, sweeper, timing, others
  <2>2. CASE ~Return(t, r)
    BY <1>19, <2>2 DEF HandlerChecks, Goto, ledger, sweeper, timing, others
  <2> QED
    BY <2>1, <2>2
<1>20. ASSUME NEW t \in Ticks, NEW r \in Rows, cur[t] = r, HandlerSends(t, r)
      PROVE  TypeOK'
  BY <1>20 DEF HandlerSends, Goto, ledger, sweeper, timing, others
<1>21. ASSUME NEW t \in Ticks, NEW r \in Rows, cur[t] = r, HandlerRecords(t, r)
      PROVE  TypeOK'
  BY <1>21 DEF HandlerRecords, Goto, sweeper, timing, others
<1>22. ASSUME NEW t \in Ticks, NEW r \in Rows, cur[t] = r, HandlerFollowsUp(t, r)
      PROVE  TypeOK'
  BY <1>22 DEF HandlerFollowsUp, Return, Goto, ledger, sweeper, timing
<1>23. ASSUME NEW t \in Ticks, NEW r \in Rows, cur[t] = r, HandlerExpires(t, r)
      PROVE  TypeOK'
  <2>1. Return(t, r)
    BY <1>23 DEF HandlerExpires
  <2>2. ReturnTypes(t, r)
    BY <1>23, <2>1, ReturnKeepsTypes
  <2> QED
    BY <1>23, <2>2 DEF ReturnTypes, HandlerExpires, Expire, ledger, sweeper, timing, others
<1>24. ASSUME NEW t \in Ticks, NEW r \in Rows, cur[t] = r, HandlerThrows(t, r)
      PROVE  TypeOK'
  <2>1. Return(t, r)
    BY <1>24 DEF HandlerThrows
  <2>2. ReturnTypes(t, r)
    BY <1>24, <2>1, ReturnKeepsTypes
  <2> QED
    BY <1>24, <2>2 DEF ReturnTypes, HandlerThrows, ledger, sweeper, timing, others
<1>25. CASE TimePasses
  <2>1. age' \in [Rows -> Int]
    BY <1>25, AgesAreInt DEF TimePasses
  <2>2. muted' \in [Rows -> Nat] /\ wait' \in [Rows -> Nat]
    BY <1>25 DEF TimePasses, Sooner
  <2>3. nudgeIn' \in 0 .. NudgePeriod /\ sweepIn' \in 0 .. SweepPeriod
    BY <1>25 DEF TimePasses
  <2>4. UNCHANGED <<row, nudges, trig, job, step, seen, batch, cur, sent, sweep, todo,
                    acking, answer, faults, crashes, prompt>>
    BY <1>25 DEF TimePasses, sweeper, others
  <2> QED
    BY <2>1, <2>2, <2>3, <2>4
<1>26. CASE Crash
  <2>1. age' \in [Rows -> Int]
    <3>1. PICK n \in {0, Downtime} : Elapse(n)
      BY <1>26 DEF Crash
    <3> QED
      BY <3>1, AgesAreInt
  <2>2. \A r \in Rows : trig'[r] = "running" <=> \E t \in Ticks : cur'[t] = r
    BY <1>26 DEF Crash
  <2> QED
    BY <1>26, <2>1, <2>2 DEF Crash, ledger
<1> QED
  BY <1>1, <1>2, <1>3, <1>4, <1>5, <1>6, <1>7, <1>8, <1>9, <1>10, <1>11, <1>12, <1>13, <1>14,
     <1>15, <1>16, <1>17, <1>18, <1>19, <1>20, <1>21, <1>22, <1>23, <1>24, <1>25, <1>26,
     EveryStep DEF OneOf

\* A step lets no second tick run a row.
LEMMA OneHandlerStep == ASSUME TypeOK, OneHandler, Next PROVE OneHandler'
<1> USE NoneAssumption DEF TypeOK, OneHandler
<1>1. ASSUME NEW r \in Rows, Open(r)
      PROVE  OneHandler'
  BY <1>1 DEF Open, nudger, sweeper, others
<1>2. ASSUME NEW r \in Rows, ArmNudge(r)
      PROVE  OneHandler'
  BY <1>2 DEF ArmNudge, ledger, sweeper, timing
<1>3. ASSUME NEW m, Quote(m)
      PROVE  OneHandler'
  BY <1>3 DEF Quote, SettlePending, nudger, sweeper, timing, others
<1>4. ASSUME NEW r \in Rows, Supersede(r)
      PROVE  OneHandler'
  BY <1>4 DEF Supersede, SettlePending, nudger, sweeper, timing, others
<1>5. ASSUME NEW a \in Ackers, NEW r \in Rows, AckReads(a, r)
      PROVE  OneHandler'
  BY <1>5 DEF AckReads, ledger, nudger, sweeper, timing
<1>6. ASSUME NEW a \in Ackers, AckWrites(a)
      PROVE  OneHandler'
  BY <1>6 DEF AckWrites, nudger, sweeper, timing
<1>7. ASSUME NEW q \in Questions, MainPosts(q)
      PROVE  OneHandler'
  BY <1>7 DEF MainPosts, ledger, nudger, sweeper, timing
<1>8. ASSUME NEW q \in Questions, MainPostSettles(q)
      PROVE  OneHandler'
  BY <1>8 DEF MainPostSettles, SettlePending, nudger, sweeper, timing
<1>9. CASE SweepTick
  BY <1>9 DEF SweepTick, PastGrace, ledger, nudger, sweeper, others
<1>10. CASE SweepSettles
  BY <1>10 DEF SweepSettles, SettleAnswered, SettlePending, nudger, timing
<1>11. CASE SweepSelects
  BY <1>11 DEF SweepSelects, ledger, nudger, timing, others
<1>12. ASSUME NEW r \in Rows, SweepExpires(r)
      PROVE  OneHandler'
  BY <1>12 DEF SweepExpires, Expire, nudger, timing, others
<1>13. CASE SweepFails
  BY <1>13 DEF SweepFails, ledger, nudger, timing
<1>14. CASE NudgeTick
  BY <1>14 DEF NudgeTick, ledger, sweeper, others
<1>15. ASSUME NEW t \in Ticks, NEW r \in Rows, Claim(t, r)
      PROVE  OneHandler'
  BY <1>15 DEF Claim, Due, ledger, sweeper, timing, others
<1>16. ASSUME NEW t \in Ticks, NEW r \in Rows, cur[t] = r, HandlerReads(t, r)
      PROVE  OneHandler'
  BY <1>16 DEF HandlerReads, Return, Goto, ledger, sweeper, timing, others
<1>17. ASSUME NEW t \in Ticks, NEW r \in Rows, cur[t] = r, HandlerSettles(t, r)
      PROVE  OneHandler'
  BY <1>17 DEF HandlerSettles, SettleAnswered, SettlePending, Goto, sweeper, timing
<1>18. ASSUME NEW t \in Ticks, NEW r \in Rows, cur[t] = r, HandlerRereads(t, r)
      PROVE  OneHandler'
  BY <1>18 DEF HandlerRereads, Return, Goto, ledger, sweeper, timing, others
<1>19. ASSUME NEW t \in Ticks, NEW r \in Rows, cur[t] = r, HandlerChecks(t, r)
      PROVE  OneHandler'
  BY <1>19 DEF HandlerChecks, Return, Goto, ledger, sweeper, timing, others
<1>20. ASSUME NEW t \in Ticks, NEW r \in Rows, cur[t] = r, HandlerSends(t, r)
      PROVE  OneHandler'
  BY <1>20 DEF HandlerSends, Goto, ledger, sweeper, timing, others
<1>21. ASSUME NEW t \in Ticks, NEW r \in Rows, cur[t] = r, HandlerRecords(t, r)
      PROVE  OneHandler'
  BY <1>21 DEF HandlerRecords, Goto, sweeper, timing, others
<1>22. ASSUME NEW t \in Ticks, NEW r \in Rows, cur[t] = r, HandlerFollowsUp(t, r)
      PROVE  OneHandler'
  BY <1>22 DEF HandlerFollowsUp, Return, Goto, ledger, sweeper, timing
<1>23. ASSUME NEW t \in Ticks, NEW r \in Rows, cur[t] = r, HandlerExpires(t, r)
      PROVE  OneHandler'
  BY <1>23 DEF HandlerExpires, Expire, Return, sweeper, timing, others
<1>24. ASSUME NEW t \in Ticks, NEW r \in Rows, cur[t] = r, HandlerThrows(t, r)
      PROVE  OneHandler'
  BY <1>24 DEF HandlerThrows, Return, ledger, sweeper, timing
<1>25. CASE TimePasses
  BY <1>25 DEF TimePasses, Elapse, Older, Sooner, others
<1>26. CASE Crash
  BY <1>26 DEF Crash, Elapse, Older, ledger
<1> QED
  BY <1>1, <1>2, <1>3, <1>4, <1>5, <1>6, <1>7, <1>8, <1>9, <1>10, <1>11, <1>12, <1>13, <1>14,
     <1>15, <1>16, <1>17, <1>18, <1>19, <1>20, <1>21, <1>22, <1>23, <1>24, <1>25, <1>26,
     EveryStep DEF OneOf

\* Types, and one handler for a row, whatever overlaps, throws or restarts.
THEOREM ReceiptsTypeCorrect == Spec => [](TypeOK /\ OneHandler)
<1>1. Init => TypeOK /\ OneHandler
  BY Periods, NoneAssumption, ReceiptsAssumption DEF Init, TypeOK, OneHandler
<1>2. TypeOK /\ OneHandler /\ [Next]_vars => (TypeOK /\ OneHandler)'
  <2>1. CASE Next
    BY <2>1, TypesStep, OneHandlerStep
  <2>2. CASE UNCHANGED vars
    BY <2>2 DEF vars, ledger, nudger, sweeper, timing, others, TypeOK, OneHandler
  <2> QED
    BY <2>1, <2>2
<1> QED
  BY <1>1, <1>2, PTL DEF Spec

-----------------------------------------------------------------------------
(* At most one nudge per receipt.                                          *)

\* What is sent and what is recorded agree whenever a trigger may still fire;
\* only a handler cut off before its record leaves one nudge unrecorded, and
\* its trigger is then over for good.
NudgeBook(r) ==
  /\ nudges[r] <= MaxAutoNudges /\ sent[r] <= MaxAutoNudges
  /\ step[r] # "idle" => trig[r] = "running"
  /\ trig[r] \in {"none", "armed"} => sent[r] = nudges[r]
  /\ step[r] \in {"read", "settle", "reread", "check", "send", "follow", "expire"}
       => sent[r] = nudges[r]
  /\ step[r] = "record" => sent[r] = nudges[r] + 1 /\ nudges[r] < MaxAutoNudges
  /\ step[r] \in {"settle", "reread", "check", "send"} => seen[r] = nudges[r]
  /\ step[r] \in {"check", "send"} => seen[r] < MaxAutoNudges

NudgeInv == \A r \in Rows : NudgeBook(r)

\* A step keeps the nudge book.
LEMMA NudgeStep == ASSUME TypeOK, OneHandler, NudgeInv, Next PROVE NudgeInv'
<1> USE Periods, NoneAssumption DEF TypeOK, OneHandler, NudgeInv, NudgeBook
<1>1. ASSUME NEW r \in Rows, Open(r)
      PROVE  NudgeInv'
  BY <1>1 DEF Open, nudger, sweeper, others
<1>2. ASSUME NEW r \in Rows, ArmNudge(r)
      PROVE  NudgeInv'
  BY <1>2 DEF ArmNudge, ledger, sweeper, timing
<1>3. ASSUME NEW m, Quote(m)
      PROVE  NudgeInv'
  BY <1>3 DEF Quote, SettlePending, nudger, sweeper, timing, others
<1>4. ASSUME NEW r \in Rows, Supersede(r)
      PROVE  NudgeInv'
  BY <1>4 DEF Supersede, SettlePending, nudger, sweeper, timing, others
<1>5. ASSUME NEW a \in Ackers, NEW r \in Rows, AckReads(a, r)
      PROVE  NudgeInv'
  BY <1>5 DEF AckReads, ledger, nudger, sweeper, timing
<1>6. ASSUME NEW a \in Ackers, AckWrites(a)
      PROVE  NudgeInv'
  BY <1>6 DEF AckWrites, nudger, sweeper, timing
<1>7. ASSUME NEW q \in Questions, MainPosts(q)
      PROVE  NudgeInv'
  BY <1>7 DEF MainPosts, ledger, nudger, sweeper, timing
<1>8. ASSUME NEW q \in Questions, MainPostSettles(q)
      PROVE  NudgeInv'
  BY <1>8 DEF MainPostSettles, SettlePending, nudger, sweeper, timing
<1>9. CASE SweepTick
  BY <1>9 DEF SweepTick, PastGrace, ledger, nudger, sweeper, others
<1>10. CASE SweepSettles
  BY <1>10 DEF SweepSettles, SettleAnswered, SettlePending, nudger, timing
<1>11. CASE SweepSelects
  BY <1>11 DEF SweepSelects, ledger, nudger, timing, others
<1>12. ASSUME NEW r \in Rows, SweepExpires(r)
      PROVE  NudgeInv'
  BY <1>12 DEF SweepExpires, Expire, nudger, timing, others
<1>13. CASE SweepFails
  BY <1>13 DEF SweepFails, ledger, nudger, timing
<1>14. CASE NudgeTick
  BY <1>14 DEF NudgeTick, ledger, sweeper, others
<1>15. ASSUME NEW t \in Ticks, NEW r \in Rows, Claim(t, r)
      PROVE  NudgeInv'
  BY <1>15 DEF Claim, Due, ledger, sweeper, timing, others
<1>16. ASSUME NEW t \in Ticks, NEW r \in Rows, cur[t] = r, HandlerReads(t, r)
      PROVE  NudgeInv'
  BY <1>16 DEF HandlerReads, Return, Goto, ledger, sweeper, timing, others
<1>17. ASSUME NEW t \in Ticks, NEW r \in Rows, cur[t] = r, HandlerSettles(t, r)
      PROVE  NudgeInv'
  BY <1>17 DEF HandlerSettles, SettleAnswered, SettlePending, Goto, sweeper, timing
<1>18. ASSUME NEW t \in Ticks, NEW r \in Rows, cur[t] = r, HandlerRereads(t, r)
      PROVE  NudgeInv'
  BY <1>18 DEF HandlerRereads, Return, Goto, ledger, sweeper, timing, others
<1>19. ASSUME NEW t \in Ticks, NEW r \in Rows, cur[t] = r, HandlerChecks(t, r)
      PROVE  NudgeInv'
  BY <1>19 DEF HandlerChecks, Return, Goto, ledger, sweeper, timing, others
<1>20. ASSUME NEW t \in Ticks, NEW r \in Rows, cur[t] = r, HandlerSends(t, r)
      PROVE  NudgeInv'
  BY <1>20 DEF HandlerSends, Goto, ledger, sweeper, timing, others
<1>21. ASSUME NEW t \in Ticks, NEW r \in Rows, cur[t] = r, HandlerRecords(t, r)
      PROVE  NudgeInv'
  BY <1>21 DEF HandlerRecords, Goto, sweeper, timing, others
<1>22. ASSUME NEW t \in Ticks, NEW r \in Rows, cur[t] = r, HandlerFollowsUp(t, r)
      PROVE  NudgeInv'
  BY <1>22 DEF HandlerFollowsUp, Return, Goto, ledger, sweeper, timing
<1>23. ASSUME NEW t \in Ticks, NEW r \in Rows, cur[t] = r, HandlerExpires(t, r)
      PROVE  NudgeInv'
  BY <1>23 DEF HandlerExpires, Expire, Return, sweeper, timing, others
<1>24. ASSUME NEW t \in Ticks, NEW r \in Rows, cur[t] = r, HandlerThrows(t, r)
      PROVE  NudgeInv'
  BY <1>24 DEF HandlerThrows, Return, ledger, sweeper, timing
<1>25. CASE TimePasses
  BY <1>25 DEF TimePasses, Elapse, Older, Sooner, others
<1>26. CASE Crash
  BY <1>26 DEF Crash, Elapse, Older, ledger
<1> QED
  BY <1>1, <1>2, <1>3, <1>4, <1>5, <1>6, <1>7, <1>8, <1>9, <1>10, <1>11, <1>12, <1>13, <1>14,
     <1>15, <1>16, <1>17, <1>18, <1>19, <1>20, <1>21, <1>22, <1>23, <1>24, <1>25, <1>26,
     EveryStep DEF OneOf

\* The nudge book stays balanced.
THEOREM NudgeBookKept == Spec => []NudgeInv
<1>1. Init => NudgeInv
  BY Periods DEF Init, NudgeInv, NudgeBook
<1>2. TypeOK /\ OneHandler /\ NudgeInv /\ [Next]_vars => NudgeInv'
  <2>1. CASE Next
    BY <2>1, NudgeStep
  <2>2. CASE UNCHANGED vars
    BY <2>2 DEF vars, ledger, nudger, NudgeInv, NudgeBook
  <2> QED
    BY <2>1, <2>2
<1> QED
  BY ReceiptsTypeCorrect, <1>1, <1>2, PTL DEF Spec

\* NudgedOnce, for any number of receipts, ticks, restarts and errors: the
\* count that recordAutoNudge keeps and the key that schedule() finds bound
\* what dispatchAgentMention sends.
THEOREM NudgedAtMostOnce == Spec => []NudgedOnce
<1>1. NudgeInv => NudgedOnce
  BY DEF NudgeInv, NudgeBook, NudgedOnce
<1> QED
  BY NudgeBookKept, <1>1, PTL

-----------------------------------------------------------------------------
(* An answer given in time.                                                *)

\* Whoever works on a receipt, or may expire it, found it open and due; and
\* being due lasts.
DueBook(r) ==
  /\ step[r] # "idle" \/ r \in todo \/ job[r] = "followUp" => row[r] # "none" /\ age[r] >= 0
  /\ trig[r] # "none" => row[r] # "none"
  /\ row[r] = "expired" => age[r] >= 0

\* A question answered before that is settled by the look for answers that
\* comes before every expiry, so that no one who may expire it has it.
AnswerBook(q) ==
  <<q, "answer">> \in prompt /\ faults = 0 =>
    /\ answer[q] # "none" /\ row[q] \notin {"none", "expired"}
    /\ q \in todo => sweep = "settle" \/ (sweep = "select" /\ row[q] # "pending")
    /\ step[q] \in {"idle", "read", "settle", "reread"}
    /\ step[q] = "reread" => row[q] # "pending"

DueInv == \A r \in Rows : DueBook(r)
AnswerInv == \A q \in Questions : AnswerBook(q)

\* A step keeps the due book.
LEMMA DueStep == ASSUME TypeOK, OneHandler, NudgeInv, DueInv, Next PROVE DueInv'
<1> USE Periods, NoneAssumption DEF TypeOK, OneHandler, DueInv, DueBook
<1>1. ASSUME NEW r \in Rows, Open(r)
      PROVE  DueInv'
  BY <1>1 DEF Open, nudger, sweeper, others
<1>2. ASSUME NEW r \in Rows, ArmNudge(r)
      PROVE  DueInv'
  BY <1>2 DEF ArmNudge, ledger, sweeper, timing
<1>3. ASSUME NEW m, Quote(m)
      PROVE  DueInv'
  BY <1>3 DEF Quote, SettlePending, nudger, sweeper, timing, others
<1>4. ASSUME NEW r \in Rows, Supersede(r)
      PROVE  DueInv'
  BY <1>4 DEF Supersede, SettlePending, nudger, sweeper, timing, others
<1>5. ASSUME NEW a \in Ackers, NEW r \in Rows, AckReads(a, r)
      PROVE  DueInv'
  BY <1>5 DEF AckReads, ledger, nudger, sweeper, timing
<1>6. ASSUME NEW a \in Ackers, AckWrites(a)
      PROVE  DueInv'
  BY <1>6 DEF AckWrites, nudger, sweeper, timing
<1>7. ASSUME NEW q \in Questions, MainPosts(q)
      PROVE  DueInv'
  BY <1>7 DEF MainPosts, ledger, nudger, sweeper, timing
<1>8. ASSUME NEW q \in Questions, MainPostSettles(q)
      PROVE  DueInv'
  BY <1>8 DEF MainPostSettles, SettlePending, nudger, sweeper, timing
<1>9. CASE SweepTick
  BY <1>9 DEF SweepTick, PastGrace, ledger, nudger, sweeper, others
<1>10. CASE SweepSettles
  BY <1>10 DEF SweepSettles, SettleAnswered, SettlePending, nudger, timing
<1>11. CASE SweepSelects
  BY <1>11 DEF SweepSelects, ledger, nudger, timing, others
<1>12. ASSUME NEW r \in Rows, SweepExpires(r)
      PROVE  DueInv'
  BY <1>12 DEF SweepExpires, Expire, nudger, timing, others
<1>13. CASE SweepFails
  BY <1>13 DEF SweepFails, ledger, nudger, timing
<1>14. CASE NudgeTick
  BY <1>14 DEF NudgeTick, ledger, sweeper, others
<1>15. ASSUME NEW t \in Ticks, NEW r \in Rows, Claim(t, r)
      PROVE  DueInv'
  BY <1>15 DEF Claim, Due, ledger, sweeper, timing, others
<1>16. ASSUME NEW t \in Ticks, NEW r \in Rows, cur[t] = r, HandlerReads(t, r)
      PROVE  DueInv'
  BY <1>16 DEF HandlerReads, Return, Goto, ledger, sweeper, timing, others
<1>17. ASSUME NEW t \in Ticks, NEW r \in Rows, cur[t] = r, HandlerSettles(t, r)
      PROVE  DueInv'
  BY <1>17 DEF HandlerSettles, SettleAnswered, SettlePending, Goto, sweeper, timing
<1>18. ASSUME NEW t \in Ticks, NEW r \in Rows, cur[t] = r, HandlerRereads(t, r)
      PROVE  DueInv'
  BY <1>18 DEF HandlerRereads, Return, Goto, ledger, sweeper, timing, others
<1>19. ASSUME NEW t \in Ticks, NEW r \in Rows, cur[t] = r, HandlerChecks(t, r)
      PROVE  DueInv'
  BY <1>19 DEF HandlerChecks, Return, Goto, ledger, sweeper, timing, others
<1>20. ASSUME NEW t \in Ticks, NEW r \in Rows, cur[t] = r, HandlerSends(t, r)
      PROVE  DueInv'
  BY <1>20 DEF HandlerSends, Goto, ledger, sweeper, timing, others
<1>21. ASSUME NEW t \in Ticks, NEW r \in Rows, cur[t] = r, HandlerRecords(t, r)
      PROVE  DueInv'
  BY <1>21 DEF HandlerRecords, Goto, sweeper, timing, others
<1>22. ASSUME NEW t \in Ticks, NEW r \in Rows, cur[t] = r, HandlerFollowsUp(t, r)
      PROVE  DueInv'
  BY <1>22 DEF HandlerFollowsUp, Return, Goto, ledger, sweeper, timing
<1>23. ASSUME NEW t \in Ticks, NEW r \in Rows, cur[t] = r, HandlerExpires(t, r)
      PROVE  DueInv'
  BY <1>23 DEF HandlerExpires, Expire, Return, sweeper, timing, others
<1>24. ASSUME NEW t \in Ticks, NEW r \in Rows, cur[t] = r, HandlerThrows(t, r)
      PROVE  DueInv'
  BY <1>24 DEF HandlerThrows, Return, ledger, sweeper, timing
<1>25. CASE TimePasses
  <2>1. \A r \in Rows : row[r] # "none" /\ age[r] >= 0 => age'[r] >= 0
    BY <1>25 DEF TimePasses, Elapse, Older
  <2>2. UNCHANGED <<row, trig, job, step, todo>>
    BY <1>25 DEF TimePasses, sweeper
  <2> QED
    BY <2>1, <2>2
<1>26. CASE Crash
  BY <1>26 DEF Crash, Elapse, Older, ledger
<1> QED
  BY <1>1, <1>2, <1>3, <1>4, <1>5, <1>6, <1>7, <1>8, <1>9, <1>10, <1>11, <1>12, <1>13, <1>14,
     <1>15, <1>16, <1>17, <1>18, <1>19, <1>20, <1>21, <1>22, <1>23, <1>24, <1>25, <1>26,
     EveryStep DEF OneOf

\* A step keeps the answer book.
LEMMA AnswerStep == ASSUME TypeOK, OneHandler, DueInv, AnswerInv, Next PROVE AnswerInv'
<1> USE Periods, NoneAssumption, ReceiptsAssumption
    DEF TypeOK, OneHandler, DueInv, DueBook, AnswerInv, AnswerBook
<1>1. ASSUME NEW r \in Rows, Open(r)
      PROVE  AnswerInv'
  BY <1>1 DEF Open, nudger, sweeper, others
<1>2. ASSUME NEW r \in Rows, ArmNudge(r)
      PROVE  AnswerInv'
  BY <1>2 DEF ArmNudge, ledger, sweeper, timing
<1>3. ASSUME NEW m, Quote(m)
      PROVE  AnswerInv'
  BY <1>3 DEF Quote, SettlePending, nudger, sweeper, timing, others
<1>4. ASSUME NEW r \in Rows, Supersede(r)
      PROVE  AnswerInv'
  BY <1>4 DEF Supersede, SettlePending, nudger, sweeper, timing, others
<1>5. ASSUME NEW a \in Ackers, NEW r \in Rows, AckReads(a, r)
      PROVE  AnswerInv'
  BY <1>5 DEF AckReads, ledger, nudger, sweeper, timing
<1>6. ASSUME NEW a \in Ackers, AckWrites(a)
      PROVE  AnswerInv'
  BY <1>6 DEF AckWrites, nudger, sweeper, timing
<1>7. ASSUME NEW q \in Questions, MainPosts(q)
      PROVE  AnswerInv'
  BY <1>7 DEF MainPosts, ledger, nudger, sweeper, timing
<1>8. ASSUME NEW q \in Questions, MainPostSettles(q)
      PROVE  AnswerInv'
  BY <1>8 DEF MainPostSettles, SettlePending, nudger, sweeper, timing
<1>9. CASE SweepTick
  BY <1>9 DEF SweepTick, PastGrace, ledger, nudger, sweeper, others
<1>10. CASE SweepSettles
  BY <1>10 DEF SweepSettles, SettleAnswered, SettlePending, nudger, timing
<1>11. CASE SweepSelects
  BY <1>11 DEF SweepSelects, ledger, nudger, timing, others
<1>12. ASSUME NEW r \in Rows, SweepExpires(r)
      PROVE  AnswerInv'
  BY <1>12 DEF SweepExpires, Expire, nudger, timing, others
<1>13. CASE SweepFails
  BY <1>13 DEF SweepFails, ledger, nudger, timing
<1>14. CASE NudgeTick
  BY <1>14 DEF NudgeTick, ledger, sweeper, others
<1>15. ASSUME NEW t \in Ticks, NEW r \in Rows, Claim(t, r)
      PROVE  AnswerInv'
  BY <1>15 DEF Claim, Due, ledger, sweeper, timing, others
<1>16. ASSUME NEW t \in Ticks, NEW r \in Rows, cur[t] = r, HandlerReads(t, r)
      PROVE  AnswerInv'
  BY <1>16 DEF HandlerReads, Return, Goto, ledger, sweeper, timing, others
<1>17. ASSUME NEW t \in Ticks, NEW r \in Rows, cur[t] = r, HandlerSettles(t, r)
      PROVE  AnswerInv'
  BY <1>17 DEF HandlerSettles, SettleAnswered, SettlePending, Goto, sweeper, timing
<1>18. ASSUME NEW t \in Ticks, NEW r \in Rows, cur[t] = r, HandlerRereads(t, r)
      PROVE  AnswerInv'
  BY <1>18 DEF HandlerRereads, Return, Goto, ledger, sweeper, timing, others
<1>19. ASSUME NEW t \in Ticks, NEW r \in Rows, cur[t] = r, HandlerChecks(t, r)
      PROVE  AnswerInv'
  BY <1>19 DEF HandlerChecks, Return, Goto, ledger, sweeper, timing, others
<1>20. ASSUME NEW t \in Ticks, NEW r \in Rows, cur[t] = r, HandlerSends(t, r)
      PROVE  AnswerInv'
  BY <1>20 DEF HandlerSends, Goto, ledger, sweeper, timing, others
<1>21. ASSUME NEW t \in Ticks, NEW r \in Rows, cur[t] = r, HandlerRecords(t, r)
      PROVE  AnswerInv'
  BY <1>21 DEF HandlerRecords, Goto, sweeper, timing, others
<1>22. ASSUME NEW t \in Ticks, NEW r \in Rows, cur[t] = r, HandlerFollowsUp(t, r)
      PROVE  AnswerInv'
  BY <1>22 DEF HandlerFollowsUp, Return, Goto, ledger, sweeper, timing
<1>23. ASSUME NEW t \in Ticks, NEW r \in Rows, cur[t] = r, HandlerExpires(t, r)
      PROVE  AnswerInv'
  BY <1>23 DEF HandlerExpires, Expire, Return, sweeper, timing, others
<1>24. ASSUME NEW t \in Ticks, NEW r \in Rows, cur[t] = r, HandlerThrows(t, r)
      PROVE  AnswerInv'
  BY <1>24 DEF HandlerThrows, Return, ledger, sweeper, timing
<1>25. CASE TimePasses
  <2>1. UNCHANGED <<row, step, sweep, todo, answer, faults, prompt>>
    BY <1>25 DEF TimePasses, sweeper, others
  <2> QED
    BY <2>1
<1>26. CASE Crash
  BY <1>26 DEF Crash, Elapse, Older, ledger
<1> QED
  BY <1>1, <1>2, <1>3, <1>4, <1>5, <1>6, <1>7, <1>8, <1>9, <1>10, <1>11, <1>12, <1>13, <1>14,
     <1>15, <1>16, <1>17, <1>18, <1>19, <1>20, <1>21, <1>22, <1>23, <1>24, <1>25, <1>26,
     EveryStep DEF OneOf

\* Both books are kept.
LEMMA AnswersAreBooked == Spec => [](DueInv /\ AnswerInv)
<1>1. Init => DueInv /\ AnswerInv
  BY ReceiptsAssumption DEF Init, DueInv, DueBook, AnswerInv, AnswerBook
<1>2. TypeOK /\ OneHandler /\ NudgeInv /\ DueInv /\ AnswerInv /\ [Next]_vars
        => (DueInv /\ AnswerInv)'
  <2>1. CASE Next
    BY <2>1, DueStep, AnswerStep
  <2>2. CASE UNCHANGED vars
    BY <2>2 DEF vars, ledger, nudger, sweeper, timing, others, DueInv, DueBook,
                AnswerInv, AnswerBook
  <2> QED
    BY <2>1, <2>2
<1> QED
  BY ReceiptsTypeCorrect, NudgeBookKept, <1>1, <1>2, PTL DEF Spec

\* AnsweredInTimeIsNotExpired: settleAnsweredQuestionReceipts, called by the
\* sweep and by the nudge handler before they expire anything, is enough.
THEOREM AnswersInTimeCount == Spec => []AnsweredInTimeIsNotExpired
<1>1. AnswerInv => AnsweredInTimeIsNotExpired
  BY DEF AnswerInv, AnswerBook, AnsweredInTimeIsNotExpired
<1> QED
  BY AnswersAreBooked, <1>1, PTL

-----------------------------------------------------------------------------
(* The turn of the nudge.                                                  *)

\* Scheduled in time and not claimed yet; selected by an invocation of fireDue().
Waiting(r) == trig[r] = "armed" /\ job[r] = "first" /\ <<r, "trigger">> \in prompt
Taken(r) == \E t \in Ticks : r \in batch[t]

\* A nudge scheduled in time, and not yet selected, is selected at the latest by
\* the tick after its due date, less than a period old; the exception are nudges
\* that fell due while the server was down: the first tick selects these, and
\* the first sweep comes after it.  So no sweep has a receipt to expire whose
\* nudge still waits.
TurnBook(r) ==
  /\ <<r, "trigger">> \in prompt => trig[r] # "none"
  /\ \A t \in Ticks : r \in batch[t] => trig[r] # "none" /\ (Waiting(r) => age[r] >= 0)
  /\ Waiting(r) /\ ~Taken(r)
       => \/ age[r] + nudgeIn < NudgePeriod
          \/ sweep = "idle" /\ nudgeIn < sweepIn
  /\ r \in todo /\ Waiting(r) => Taken(r)

TurnInv == \A r \in Rows : TurnBook(r)

\* What a handler does leaves the book in balance: it makes no nudge wait.
LEMMA HandlersKeepTurns ==
  ASSUME TurnInv, UNCHANGED <<age, batch, prompt, nudgeIn, sweepIn, sweep, todo>>,
         \A r \in Rows : trig[r] # "none" => trig'[r] # "none",
         \A r \in Rows : trig'[r] = "armed" /\ job'[r] = "first"
                         => trig[r] = "armed" /\ job[r] = "first"
  PROVE  TurnInv'
<1>1. \A r \in Rows : (Waiting(r)' => Waiting(r)) /\ (Taken(r) <=> Taken(r)')
  BY DEF Waiting, Taken
<1> HIDE DEF Waiting, Taken
<1> QED
  BY <1>1 DEF TurnInv, TurnBook

\* A step keeps the turn book.
LEMMA TurnStep == ASSUME TypeOK, DueInv, TurnInv, Next PROVE TurnInv'
<1> USE Periods, NoneAssumption, GraceAssumption, SweepAssumption
    DEF TypeOK, DueInv, DueBook, TurnInv, TurnBook, Waiting, Taken
<1>1. ASSUME NEW r \in Rows, Open(r)
      PROVE  TurnInv'
  <2>1. /\ UNCHANGED <<trig, job, batch, prompt, nudgeIn, sweepIn, sweep, todo>>
        /\ \A r2 \in Rows : r2 # r => age'[r2] = age[r2]
    BY <1>1 DEF Open, nudger, sweeper, others
  <2>2. trig[r] = "none"
    BY <1>1 DEF Open
  <2>3. \A r2 \in Rows : /\ Waiting(r2) <=> Waiting(r2)'
                        /\ Taken(r2) <=> Taken(r2)'
    BY ONLY <2>1 DEF Waiting, Taken
  <2>4. ~Waiting(r)
    BY ONLY <2>2 DEF Waiting
  <2> QED
    BY ONLY <2>1, <2>3, <2>4, TurnInv DEF TurnInv, TurnBook
<1>2. ASSUME NEW r \in Rows, ArmNudge(r)
      PROVE  TurnInv'
  <2>1. /\ UNCHANGED <<job, batch, age, nudgeIn, sweepIn, sweep, todo>>
        /\ trig' = [trig EXCEPT ![r] = "armed"] /\ trig[r] = "none"
    BY <1>2 DEF ArmNudge, sweeper, timing
  <2>2. prompt' = prompt \/ (age[r] < 0 /\ prompt' = prompt \cup {<<r, "trigger">>})
    BY <1>2 DEF ArmNudge
  <2>3. ASSUME NEW r2 \in Rows, r2 # r
        PROVE  TurnBook(r2)'
    <3>1. (Waiting(r2) <=> Waiting(r2)') /\ (Taken(r2) <=> Taken(r2)')
      BY <2>1, <2>2, <2>3
    <3>2. <<r2, "trigger">> \in prompt' => <<r2, "trigger">> \in prompt
      BY <2>2, <2>3
    <3> HIDE DEF Waiting, Taken
    <3> QED
      BY <2>1, <2>3, <3>1, <3>2
  <2>4. TurnBook(r)'
    <3>1. ~Taken(r) /\ <<r, "trigger">> \notin prompt
      BY <2>1
    <3>2. Waiting(r)' => age[r] < 0
      BY <2>2, <3>1
    <3>3. ~Taken(r)'
      BY <2>1, <3>1
    <3>4. age[r] < 0 => r \notin todo /\ age[r] + nudgeIn < NudgePeriod
      OBVIOUS
    <3>5. trig'[r] # "none" /\ age' = age /\ todo' = todo /\ nudgeIn' = nudgeIn
      BY <2>1
    <3> QED
      BY <3>2, <3>3, <3>4, <3>5
  <2> QED
    BY ONLY <2>3, <2>4 DEF TurnInv
<1>3. ASSUME NEW m, Quote(m)
      PROVE  TurnInv'
  BY <1>3 DEF Quote, nudger, sweeper, timing, others
<1>4. ASSUME NEW r \in Rows, Supersede(r)
      PROVE  TurnInv'
  BY <1>4 DEF Supersede, nudger, sweeper, timing, others
<1>5. ASSUME NEW a \in Ackers, NEW r \in Rows, AckReads(a, r)
      PROVE  TurnInv'
  BY <1>5 DEF AckReads, ledger, nudger, sweeper, timing
<1>6. ASSUME NEW a \in Ackers, AckWrites(a)
      PROVE  TurnInv'
  BY <1>6 DEF AckWrites, nudger, sweeper, timing
<1>7. ASSUME NEW q \in Questions, MainPosts(q)
      PROVE  TurnInv'
  BY <1>7 DEF MainPosts, ledger, nudger, sweeper, timing
<1>8. ASSUME NEW q \in Questions, MainPostSettles(q)
      PROVE  TurnInv'
  BY <1>8 DEF MainPostSettles, nudger, sweeper, timing
<1>9. CASE SweepTick
  <2>1. /\ UNCHANGED <<trig, job, batch, age, prompt, nudgeIn>>
        /\ sweepIn = 0 /\ sweepIn' = SweepPeriod
        /\ todo' = todo \/ todo' = PastGrace
    BY <1>9 DEF SweepTick, nudger, sweeper, others
  <2>2. \A r \in Rows : (Waiting(r) <=> Waiting(r)') /\ (Taken(r) <=> Taken(r)')
    BY <2>1
  <2>3. \A r \in Rows : Waiting(r) /\ ~Taken(r) => age[r] + nudgeIn < NudgePeriod
    BY <2>1
  <2>4. \A r \in PastGrace : r \in Rows /\ age[r] >= NudgePeriod
    BY DEF PastGrace
  <2>5. \A r \in Rows : r \in PastGrace /\ Waiting(r) => Taken(r)
    BY <2>3, <2>4
  <2> HIDE DEF Waiting, Taken
  <2> QED
    BY <2>1, <2>2, <2>3, <2>5
<1>10. CASE SweepSettles
  BY <1>10 DEF SweepSettles, nudger, timing
<1>11. CASE SweepSelects
  <2>1. \A r \in Rows : (Waiting(r) <=> Waiting(r)') /\ (Taken(r) <=> Taken(r)')
    BY <1>11 DEF SweepSelects, nudger, others
  <2>2. UNCHANGED <<trig, age, batch, prompt, nudgeIn, sweepIn>>
    BY <1>11 DEF SweepSelects, nudger, timing, others
  <2>3. todo' \subseteq todo /\ sweep = "select"
    BY <1>11 DEF SweepSelects
  <2> QED
    BY ONLY TurnInv, <2>1, <2>2, <2>3 DEF TurnInv, TurnBook
<1>12. ASSUME NEW r \in Rows, SweepExpires(r)
      PROVE  TurnInv'
  BY <1>12 DEF SweepExpires, nudger, timing, others
<1>13. CASE SweepFails
  BY <1>13 DEF SweepFails, ledger, nudger, timing
<1>14. CASE NudgeTick
  <2>1. UNCHANGED <<trig, job, prompt, age, sweep, todo>> /\ nudgeIn = 0
    BY <1>14 DEF NudgeTick, sweeper, others
  <2>2. \A r \in Rows : Waiting(r) <=> Waiting(r)'
    BY <2>1
  <2>3. \A r \in Rows : Waiting(r) /\ age[r] >= 0 => Due(r)
    BY DEF Due
  <2>4. \A t \in Ticks :
          \/ batch'[t] = batch[t]
          \/ batch[t] = {} /\ batch'[t] = {r \in Rows : Due(r)}
    BY <1>14 DEF NudgeTick
  <2>5. \A r \in Rows : Due(r) => Taken(r)'
    BY <1>14 DEF NudgeTick
  <2>6. \A r \in Rows : Taken(r) => Taken(r)'
    BY <2>4
  <2>7. \A r \in Rows : Due(r) => trig[r] # "none" /\ (Waiting(r) => age[r] >= 0)
    BY DEF Due
  <2>8. nudgeIn' = NudgePeriod
    BY <1>14 DEF NudgeTick
  <2>9. ASSUME NEW r \in Rows
        PROVE  TurnBook(r)'
    <3>1. Waiting(r) /\ ~Taken(r)' => age[r] < 0
      BY <2>3, <2>5
    <3>2. \A t \in Ticks :
            r \in batch'[t] => trig[r] # "none" /\ (Waiting(r) => age[r] >= 0)
      BY <2>4, <2>7
    <3>3. /\ <<r, "trigger">> \in prompt => trig[r] # "none"
          /\ r \in todo /\ Waiting(r) => Taken(r)
          /\ age[r] \in Int
      OBVIOUS
    <3> HIDE DEF Waiting, Taken
    <3> QED
      BY <2>1, <2>2, <2>6, <2>8, <3>1, <3>2, <3>3
  <2> QED
    BY <2>9
<1>15. ASSUME NEW t \in Ticks, NEW r \in Rows, Claim(t, r)
      PROVE  TurnInv'
  <2>1. /\ UNCHANGED <<job, prompt, age, nudgeIn, sweepIn, sweep, todo>>
        /\ batch' = [batch EXCEPT ![t] = @ \ {r}]
        /\ r \in batch[t]
    BY <1>15 DEF Claim, sweeper, timing, others
  <2>2. \/ ~Due(r) /\ trig' = trig
        \/ trig' = [trig EXCEPT ![r] = "running"]
    BY <1>15 DEF Claim
  <2>3. \A r2 \in Rows : Waiting(r2)' => Waiting(r2) /\ r2 # r
    BY <2>1, <2>2 DEF Due
  <2>4. \A r2 \in Rows : r2 # r => (Taken(r2) <=> Taken(r2)')
    BY <2>1
  <2>5. \A u \in Ticks : batch'[u] \subseteq batch[u]
    BY <2>1
  <2>6. \A r2 \in Rows : trig[r2] # "none" => trig'[r2] # "none"
    BY <2>2
  <2> HIDE DEF Waiting, Taken
  <2> QED
    BY <2>1, <2>3, <2>4, <2>5, <2>6
<1>16. ASSUME NEW t \in Ticks, NEW r \in Rows, cur[t] = r, HandlerReads(t, r)
      PROVE  TurnInv'
  <2>1. UNCHANGED <<age, batch, prompt, nudgeIn, sweepIn, sweep, todo>>
    BY <1>16 DEF HandlerReads, sweeper, timing, others
  <2>2. \A r2 \in Rows : trig[r2] # "none" => trig'[r2] # "none"
    BY <1>16 DEF HandlerReads, Return
  <2>3. \A r2 \in Rows : trig'[r2] = "armed" /\ job'[r2] = "first"
                        => trig[r2] = "armed" /\ job[r2] = "first"
    BY <1>16 DEF HandlerReads, Return
  <2> QED
    BY <2>1, <2>2, <2>3, HandlersKeepTurns
<1>17. ASSUME NEW t \in Ticks, NEW r \in Rows, cur[t] = r, HandlerSettles(t, r)
      PROVE  TurnInv'
  BY <1>17 DEF HandlerSettles, sweeper, timing
<1>18. ASSUME NEW t \in Ticks, NEW r \in Rows, cur[t] = r, HandlerRereads(t, r)
      PROVE  TurnInv'
  <2>1. UNCHANGED <<age, batch, prompt, nudgeIn, sweepIn, sweep, todo>>
    BY <1>18 DEF HandlerRereads, sweeper, timing, others
  <2>2. \A r2 \in Rows : trig[r2] # "none" => trig'[r2] # "none"
    BY <1>18 DEF HandlerRereads, Return
  <2>3. \A r2 \in Rows : trig'[r2] = "armed" /\ job'[r2] = "first"
                        => trig[r2] = "armed" /\ job[r2] = "first"
    BY <1>18 DEF HandlerRereads, Return
  <2> QED
    BY <2>1, <2>2, <2>3, HandlersKeepTurns
<1>19. ASSUME NEW t \in Ticks, NEW r \in Rows, cur[t] = r, HandlerChecks(t, r)
      PROVE  TurnInv'
  <2>1. UNCHANGED <<age, batch, prompt, nudgeIn, sweepIn, sweep, todo>>
    BY <1>19 DEF HandlerChecks, sweeper, timing, others
  <2>2. \A r2 \in Rows : trig[r2] # "none" => trig'[r2] # "none"
    BY <1>19 DEF HandlerChecks, Return
  <2>3. \A r2 \in Rows : trig'[r2] = "armed" /\ job'[r2] = "first"
                        => trig[r2] = "armed" /\ job[r2] = "first"
    BY <1>19 DEF HandlerChecks, Return
  <2> QED
    BY <2>1, <2>2, <2>3, HandlersKeepTurns
<1>20. ASSUME NEW t \in Ticks, NEW r \in Rows, cur[t] = r, HandlerSends(t, r)
      PROVE  TurnInv'
  BY <1>20 DEF HandlerSends, ledger, sweeper, timing, others
<1>21. ASSUME NEW t \in Ticks, NEW r \in Rows, cur[t] = r, HandlerRecords(t, r)
      PROVE  TurnInv'
  BY <1>21 DEF HandlerRecords, sweeper, timing, others
<1>22. ASSUME NEW t \in Ticks, NEW r \in Rows, cur[t] = r, HandlerFollowsUp(t, r)
      PROVE  TurnInv'
  <2>1. UNCHANGED <<age, batch, prompt, nudgeIn, sweepIn, sweep, todo>>
    BY <1>22 DEF HandlerFollowsUp, sweeper, timing, others
  <2>2. \A r2 \in Rows : trig[r2] # "none" => trig'[r2] # "none"
    BY <1>22 DEF HandlerFollowsUp, Return
  <2>3. \A r2 \in Rows : trig'[r2] = "armed" /\ job'[r2] = "first"
                        => trig[r2] = "armed" /\ job[r2] = "first"
    BY <1>22 DEF HandlerFollowsUp, Return
  <2> QED
    BY <2>1, <2>2, <2>3, HandlersKeepTurns
<1>23. ASSUME NEW t \in Ticks, NEW r \in Rows, cur[t] = r, HandlerExpires(t, r)
      PROVE  TurnInv'
  <2>1. UNCHANGED <<age, batch, prompt, nudgeIn, sweepIn, sweep, todo>>
    BY <1>23 DEF HandlerExpires, sweeper, timing, others
  <2>2. \A r2 \in Rows : trig[r2] # "none" => trig'[r2] # "none"
    BY <1>23 DEF HandlerExpires, Return
  <2>3. \A r2 \in Rows : trig'[r2] = "armed" /\ job'[r2] = "first"
                        => trig[r2] = "armed" /\ job[r2] = "first"
    BY <1>23 DEF HandlerExpires, Return
  <2> QED
    BY <2>1, <2>2, <2>3, HandlersKeepTurns
<1>24. ASSUME NEW t \in Ticks, NEW r \in Rows, cur[t] = r, HandlerThrows(t, r)
      PROVE  TurnInv'
  <2>1. UNCHANGED <<age, batch, prompt, nudgeIn, sweepIn, sweep, todo>>
    BY <1>24 DEF HandlerThrows, sweeper, timing, others
  <2>2. \A r2 \in Rows : trig[r2] # "none" => trig'[r2] # "none"
    BY <1>24 DEF HandlerThrows, Return
  <2>3. \A r2 \in Rows : trig'[r2] = "armed" /\ job'[r2] = "first"
                        => trig[r2] = "armed" /\ job[r2] = "first"
    BY <1>24 DEF HandlerThrows, Return
  <2> QED
    BY <2>1, <2>2, <2>3, HandlersKeepTurns
<1>25. CASE TimePasses
  <2>1. /\ UNCHANGED <<row, trig, job, prompt, batch, sweep, todo>>
        /\ nudgeIn' = nudgeIn - 1 /\ sweepIn' = sweepIn - 1
    BY <1>25 DEF TimePasses, sweeper, others
  <2>2. \A r \in Rows :
          row[r] # "none" => age'[r] <= age[r] + 1 /\ (age[r] >= 0 => age'[r] >= 0)
    BY <1>25 DEF TimePasses, Elapse, Older
  <2>3. \A r \in Rows :
          /\ Waiting(r) <=> Waiting(r)'
          /\ Taken(r) <=> Taken(r)'
          /\ Waiting(r) => row[r] # "none"
    BY <2>1
  <2>4. \A r \in Rows : age[r] \in Int /\ age'[r] \in Int
    BY <1>25, AgesAreInt DEF TimePasses
  <2>5. nudgeIn \in Int /\ sweepIn \in Int
    OBVIOUS
  <2>6. ASSUME NEW r \in Rows
        PROVE  TurnBook(r)'
    <3> HIDE DEF Waiting, Taken, TypeOK, DueInv, DueBook
    <3>1. /\ \A t \in Ticks :
               r \in batch'[t] => trig'[r] # "none" /\ (Waiting(r)' => age'[r] >= 0)
          /\ <<r, "trigger">> \in prompt' => trig'[r] # "none"
          /\ r \in todo' /\ Waiting(r)' => Taken(r)'
      BY <2>1, <2>2, <2>3
    <3>2. Waiting(r) /\ ~Taken(r)
            => \/ age'[r] + nudgeIn' < NudgePeriod
               \/ sweep' = "idle" /\ nudgeIn' < sweepIn'
      <4>1. TurnBook(r)
        OBVIOUS
      <4> QED
        BY ONLY <4>1, <2>1, <2>2, <2>3, <2>4, <2>5, Periods DEF TurnBook
    <3> QED
      BY <2>3, <3>1, <3>2
  <2> QED
    BY <2>6
<1>26. CASE Crash
  <2>1. /\ \A t \in Ticks : batch'[t] = {}
        /\ nudgeIn' = NudgePeriod /\ sweepIn' = SweepPeriod
        /\ sweep' = "idle" /\ todo' = {} /\ prompt' = prompt
        /\ \A r \in Rows : trig[r] # "none" => trig'[r] # "none"
    BY <1>26 DEF Crash
  <2> QED
    BY <2>1
<1> QED
  BY <1>1, <1>2, <1>3, <1>4, <1>5, <1>6, <1>7, <1>8, <1>9, <1>10, <1>11, <1>12, <1>13, <1>14,
     <1>15, <1>16, <1>17, <1>18, <1>19, <1>20, <1>21, <1>22, <1>23, <1>24, <1>25, <1>26,
     EveryStep DEF OneOf

\* The turn book stays balanced.
LEMMA TurnBookKept == Spec => []TurnInv
<1>1. Init => TurnInv
  BY DEF Init, TurnInv, TurnBook, Waiting
<1>2. TypeOK /\ DueInv /\ TurnInv /\ [Next]_vars => TurnInv'
  <2>1. CASE Next
    BY <2>1, TurnStep
  <2>2. CASE UNCHANGED vars
    BY <2>2 DEF vars, ledger, nudger, sweeper, timing, others, TurnInv, TurnBook,
                Waiting, Taken
  <2> QED
    BY <2>1, <2>2
<1> QED
  BY ReceiptsTypeCorrect, AnswersAreBooked, <1>1, <1>2, PTL DEF Spec

\* NudgeGoesFirst, for any receipts, ticks, errors and restarts and any periods
\* of which the grace is the longest and the sweep's longer than the nudge's:
\* a grace of one ticker period is enough.
THEOREM NudgeHasItsTurn == Spec => NudgeGoesFirst
<1>1. TurnInv =>
        \A r \in Rows :
          SweepExpires(r) /\ trig[r] = "armed" /\ job[r] = "first"
              /\ <<r, "trigger">> \in prompt
            => \E t \in Ticks : r \in batch[t]
  BY DEF TurnInv, TurnBook, SweepExpires, Waiting, Taken
<1> QED
  BY TurnBookKept, <1>1, PTL DEF NudgeGoesFirst
=============================================================================
