---------------------------- MODULE Turns_proofs ----------------------------
(***************************************************************************)
(* Theorems about Turns, for any number of messages and wakes, any limit   *)
(* of wakes and any number of restarts, losses and failed calls.           *)
(***************************************************************************)
EXTENDS Turns, TLAPS

-----------------------------------------------------------------------------
(* The inductive invariant.                                                *)

\* The messages whose answer the server owes, and which nothing excuses.
Waiting == Open \ excused

\* Such a message has the session to itself: it was not injected, no other
\* message is there, no wake has been sent while its own dispatch goes on, and
\* once the worker has taken it the marks of earlier turns are gone.
Alone ==
  \A m \in Waiting :
    /\ m \notin injected /\ dispatch[m] \in {"sent", "announce", "done"}
    /\ \A u \in Messages \ {m} : u \notin Open /\ ~Live(u)
    /\ dispatch[m] # "done" => \A w \in Wakes : ~Live(w)
    /\ dispatch[m] # "sent" => ~completed /\ ~failed

\* Between the two reports of an end whose handler is through, nothing waits
\* that is not excused (a handler that fails excuses what it leaves): the second
\* report may take the watchdog and the session's status with it.
EndIsHeard ==
  \A t \in Turns :
    worker[t] \in {"completed", "error"} /\ handler[t] = "none" => Waiting = {}

\* A turn that was not sent is not at the worker.
SentOnce ==
  \A t \in Turns : dispatch[t] \in {"none", "guard", "check", "send"} => worker[t] = "none"

TurnsInv == TypeOK /\ SentOnce /\ Alone /\ EndIsHeard /\ OpenIsLookedAfter

\* The assumption on the limits, one by one.
LEMMA Limits == MaxWakes \in Nat /\ MaxUpsets \in Nat
  BY TurnsAssumption

\* A turn is for a message or for a wake.
LEMMA TwoKinds == Turns = Messages \cup Wakes /\ Messages \cap Wakes = {}
  BY TurnsAssumption DEF Turns

\* Every step is one of these.
OneOf ==
  \/ \E t \in Messages : Ask(t)
  \/ \E t \in Turns :
       \/ Guard(t) \/ CheckSession(t) \/ Send(t) \/ SendFails(t) \/ SendUnanswered(t)
       \/ Accepted(t) \/ Watch(t) \/ WatchFails(t)
       \/ Begins(t) \/ Idles(t) \/ Completes(t) \/ Errs(t) \/ FailsSession(t)
       \/ ReportIsLost(t) \/ Settle(t) \/ Store(t) \/ Fail(t) \/ HandlerFails(t)
  \/ \E r \in {"own", "orphan"} : RowFires(r) \/ RowIsDropped(r)
  \/ \E by \in {"timer", "row"} : Wake(by) \/ GiveUp(by)
  \/ RowSaved \/ SilenceFires \/ Restart \/ WorkerDies \/ WorkerReturns

\* Every step is one of these.
LEMMA EveryStep == Next => OneOf
  BY DEF Next, OneOf, DispatchStep, HandlerStep, Reap

-----------------------------------------------------------------------------
(* Types.                                                                  *)

\* The types hold at first.
LEMMA InitTypes == Init => TypeOK
<1> SUFFICES ASSUME Init PROVE TypeOK
  OBVIOUS
<1>1. attempts \in 0..MaxWakes /\ upsets \in Nat
  BY Limits DEF Init
<1> QED
  BY <1>1 DEF Init, TypeOK, DispatchSteps, HandlerSteps, WorkerSteps

\* The two counters: a wake asks for the limit before it counts.
LEMMA CountersStep ==
  ASSUME TypeOK, Next PROVE attempts' \in 0..MaxWakes /\ upsets' \in Nat
<1> USE Limits DEF TypeOK
<1>1. CASE attempts' \in {0, attempts} /\ upsets' \in {upsets, upsets + 1}
  BY <1>1
<1>2. ASSUME NEW by \in {"timer", "row"}, Wake(by)
      PROVE  attempts' \in 0..MaxWakes /\ upsets' \in Nat
  BY <1>2 DEF Wake, Upset
<1>3. \/ attempts' \in {0, attempts} /\ upsets' \in {upsets, upsets + 1}
      \/ \E by \in {"timer", "row"} : Wake(by)
  BY EveryStep DEF OneOf, Ask, Guard, CheckSession, Send, SendFails, SendUnanswered, Accepted,
     Watch, WatchFails, Begins, Idles, Completes, Errs, FailsSession, SavesStatus, Ends,
     ReportIsLost, Settle, Store, Fail, HandlerFails, RowFires, RowIsDropped, GiveUp,
     RowSaved, SilenceFires, Restart, WorkerDies, WorkerReturns, Upset, memory, history
<1> QED
  BY <1>1, <1>2, <1>3

\* Every step keeps them.
LEMMA TypesStep == ASSUME TypeOK, Next PROVE TypeOK'
<1>0. attempts' \in 0..MaxWakes /\ upsets' \in Nat
  BY CountersStep
<1> USE DEF TypeOK, DispatchSteps, HandlerSteps, WorkerSteps

<1>1. ASSUME NEW t \in Messages, Ask(t) PROVE TypeOK'
  BY <1>1, <1>0 DEF Ask, Goto, memory, history
<1>2. ASSUME NEW t \in Turns, Guard(t) PROVE TypeOK'
  BY <1>2, <1>0 DEF Guard, Goto, history
<1>3. ASSUME NEW t \in Turns, CheckSession(t) PROVE TypeOK'
  BY <1>3, <1>0 DEF CheckSession, Goto, history, Upset
<1>4. ASSUME NEW t \in Turns, Send(t) PROVE TypeOK'
  BY <1>4, <1>0 DEF Send, Goto, Says, Overlapping
<1>5. ASSUME NEW t \in Turns, SendFails(t) PROVE TypeOK'
  BY <1>5, <1>0 DEF SendFails, Goto, history, Upset
<1>6. ASSUME NEW t \in Turns, Accepted(t) PROVE TypeOK'
  BY <1>6, <1>0 DEF Accepted, Goto, history
<1>7. ASSUME NEW t \in Turns, Watch(t) PROVE TypeOK'
  BY <1>7, <1>0 DEF Watch, Goto, history, ArmWatch
<1>8. CASE RowSaved
  BY <1>8, <1>0 DEF RowSaved, turns, history, Upset
<1>9. ASSUME NEW t \in Turns, Begins(t) PROVE TypeOK'
  BY <1>9, <1>0 DEF Begins, Says, memory, history, SavesStatus, Upset
<1>10. ASSUME NEW t \in Turns, Idles(t) PROVE TypeOK'
  BY <1>10, <1>0 DEF Idles, Ends, Says, ClearWatch, history, SavesStatus, Upset
<1>11. ASSUME NEW t \in Turns, Completes(t) PROVE TypeOK'
  BY <1>11, <1>0 DEF Completes, Ends, Says, Handle, ClearWatch, history
<1>12. ASSUME NEW t \in Turns, Errs(t) PROVE TypeOK'
  BY <1>12, <1>0 DEF Errs, Ends, Says, Handle, ClearWatch, history
<1>13. ASSUME NEW t \in Turns, FailsSession(t) PROVE TypeOK'
  BY <1>13, <1>0 DEF FailsSession, Ends, Says, ClearWatch, history, SavesStatus, Upset
<1>14. ASSUME NEW t \in Turns, ReportIsLost(t) PROVE TypeOK'
  <2>1. PICK s \in Following(worker[t]) : Says(t, s)
    BY <1>14 DEF ReportIsLost
  <2>2. s \in WorkerSteps
    BY <2>1 DEF Following
  <2>3. worker' \in [Turns -> WorkerSteps]
    BY <2>1, <2>2 DEF Says
  <2>4. excused' \in SUBSET Messages
    BY <1>14 DEF ReportIsLost, Open
  <2>5. session' \in {"created", "running", "idle", "failed"}
    BY <1>14 DEF ReportIsLost, Reported, Following
  <2> QED
    BY <1>0, <1>14, <2>3, <2>4, <2>5 DEF ReportIsLost, memory
<1>15. ASSUME NEW t \in Turns, Settle(t) PROVE TypeOK'
  BY <1>15, <1>0 DEF Settle, Handle, ClearWatch, history
<1>16. ASSUME NEW t \in Turns, Store(t) PROVE TypeOK'
  BY <1>16, <1>0 DEF Store, Handle, Hear, SavesStatus, Upset
<1>17. ASSUME NEW t \in Turns, Fail(t) PROVE TypeOK'
  BY <1>17, <1>0 DEF Fail, Handle, Hear
<1>18. CASE SilenceFires
  BY <1>18, <1>0 DEF SilenceFires, ForgetWatch, turns, history
<1>19. ASSUME NEW r \in {"own", "orphan"}, RowFires(r) PROVE TypeOK'
  BY <1>19, <1>0 DEF RowFires, turns, history
<1>20. ASSUME NEW by \in {"timer", "row"}, Wake(by) PROVE TypeOK'
  <2>1. dispatch' \in [Turns -> DispatchSteps]
    BY <1>20 DEF Wake, Goto, Unused
  <2>2. watch' = "saving" /\ rows' \in SUBSET {"own", "orphan"} /\ reaping' \in SUBSET {"timer", "row"}
    BY <1>20 DEF Wake, ArmWatch
  <2>3. excused' \in SUBSET Messages
    BY <1>20 DEF Wake, Open
  <2> QED
    BY <1>0, <1>20, <2>1, <2>2, <2>3 DEF Wake
<1>21. ASSUME NEW by \in {"timer", "row"}, GiveUp(by) PROVE TypeOK'
  BY <1>21, <1>0 DEF GiveUp, ForgetWatch, turns, Upset, Excuse, Open
<1>22. CASE Restart
  <2>1. dispatch' \in [Turns -> DispatchSteps] /\ handler' \in [Turns -> HandlerSteps]
    BY <1>22 DEF Restart
  <2>2. rows' \in SUBSET {"own", "orphan"} /\ excused' \in SUBSET Messages
    BY <1>22 DEF Restart, Open
  <2> QED
    BY <1>0, <1>22, <2>1, <2>2 DEF Restart
<1>23. CASE WorkerDies
  <2>1. worker' \in [Turns -> WorkerSteps] /\ excused' \in SUBSET Messages
    BY <1>23 DEF WorkerDies, Open
  <2> QED
    BY <1>0, <1>23, <2>1 DEF WorkerDies, memory
<1>24. CASE WorkerReturns
  BY <1>24, <1>0 DEF WorkerReturns, memory, turns, history
<1>25. ASSUME NEW t \in Turns, SendUnanswered(t) PROVE TypeOK'
  BY <1>25, <1>0 DEF SendUnanswered, Upset, Goto, Says, Overlapping
<1>26. ASSUME NEW t \in Turns, WatchFails(t) PROVE TypeOK'
  BY <1>26, <1>0 DEF WatchFails, Upset, Goto, ExcuseUnwatched, memory, Open
<1>27. ASSUME NEW t \in Turns, HandlerFails(t) PROVE TypeOK'
  BY <1>27, <1>0 DEF HandlerFails, Upset, Handle, Hear, Excuse, Open
<1>28. ASSUME NEW r \in {"own", "orphan"}, RowIsDropped(r) PROVE TypeOK'
  BY <1>28, <1>0 DEF RowIsDropped, Upset, ExcuseUnwatched, memory, turns, Open
<1> QED
  BY <1>1, <1>2, <1>3, <1>4, <1>5, <1>6, <1>7, <1>8, <1>9, <1>10, <1>11, <1>12, <1>13, <1>14, <1>15, <1>16, <1>17, <1>18, <1>19, <1>20, <1>21, <1>22, <1>23, <1>24,
     <1>25, <1>26, <1>27, <1>28,
     EveryStep DEF OneOf

\* Every step keeps SentOnce.
LEMMA SentOnceStep == ASSUME TypeOK, SentOnce, Next PROVE SentOnce'
<1> USE TwoKinds DEF TypeOK, SentOnce
<1>1. ASSUME NEW t \in Messages, Ask(t) PROVE SentOnce'
  BY <1>1 DEF Ask, Goto, memory, history
<1>2. ASSUME NEW t \in Turns, Guard(t) PROVE SentOnce'
  BY <1>2 DEF Guard, Goto, history
<1>3. ASSUME NEW t \in Turns, CheckSession(t) PROVE SentOnce'
  BY <1>3 DEF CheckSession, Goto, history, Upset
<1>4. ASSUME NEW t \in Turns, Send(t) PROVE SentOnce'
  BY <1>4 DEF Send, Goto, Says, Overlapping
<1>5. ASSUME NEW t \in Turns, SendFails(t) PROVE SentOnce'
  BY <1>5 DEF SendFails, Goto, history, Upset
<1>6. ASSUME NEW t \in Turns, Accepted(t) PROVE SentOnce'
  BY <1>6 DEF Accepted, Goto, history
<1>7. ASSUME NEW t \in Turns, Watch(t) PROVE SentOnce'
  BY <1>7 DEF Watch, Goto, history, ArmWatch
<1>8. CASE RowSaved
  BY <1>8 DEF RowSaved, turns, history, Upset
<1>9. ASSUME NEW t \in Turns, Begins(t) PROVE SentOnce'
  BY <1>9 DEF Begins, Says, memory, history, SavesStatus, Upset
<1>10. ASSUME NEW t \in Turns, Idles(t) PROVE SentOnce'
  BY <1>10 DEF Idles, Ends, Says, ClearWatch, history, SavesStatus, Upset
<1>11. ASSUME NEW t \in Turns, Completes(t) PROVE SentOnce'
  BY <1>11 DEF Completes, Ends, Says, Handle, ClearWatch, history
<1>12. ASSUME NEW t \in Turns, Errs(t) PROVE SentOnce'
  BY <1>12 DEF Errs, Ends, Says, Handle, ClearWatch, history
<1>13. ASSUME NEW t \in Turns, FailsSession(t) PROVE SentOnce'
  BY <1>13 DEF FailsSession, Ends, Says, ClearWatch, history, SavesStatus, Upset
<1>14. ASSUME NEW t \in Turns, ReportIsLost(t) PROVE SentOnce'
  BY <1>14 DEF ReportIsLost, Says, Reported
<1>15. ASSUME NEW t \in Turns, Settle(t) PROVE SentOnce'
  BY <1>15 DEF Settle, Handle, ClearWatch, history
<1>16. ASSUME NEW t \in Turns, Store(t) PROVE SentOnce'
  BY <1>16 DEF Store, Handle, Hear, SavesStatus, Upset
<1>17. ASSUME NEW t \in Turns, Fail(t) PROVE SentOnce'
  BY <1>17 DEF Fail, Handle, Hear
<1>18. CASE SilenceFires
  BY <1>18 DEF SilenceFires, ForgetWatch, turns, history
<1>19. ASSUME NEW r \in {"own", "orphan"}, RowFires(r) PROVE SentOnce'
  BY <1>19 DEF RowFires, turns, history
<1>20. ASSUME NEW by \in {"timer", "row"}, Wake(by) PROVE SentOnce'
  BY <1>20 DEF Wake, ArmWatch, Goto, Unused, Upset
<1>21. ASSUME NEW by \in {"timer", "row"}, GiveUp(by) PROVE SentOnce'
  BY <1>21 DEF GiveUp, ForgetWatch, turns, Upset, Excuse
<1>22. CASE Restart
  BY <1>22 DEF Restart, Upset
<1>23. CASE WorkerDies
  BY <1>23 DEF WorkerDies, Upset, memory
<1>24. CASE WorkerReturns
  BY <1>24 DEF WorkerReturns, memory, turns, history
<1>25. ASSUME NEW t \in Turns, SendUnanswered(t) PROVE SentOnce'
  BY <1>25 DEF SendUnanswered, Upset, Goto, Says, Overlapping
<1>26. ASSUME NEW t \in Turns, WatchFails(t) PROVE SentOnce'
  BY <1>26 DEF WatchFails, Upset, Goto, ExcuseUnwatched, memory
<1>27. ASSUME NEW t \in Turns, HandlerFails(t) PROVE SentOnce'
  BY <1>27 DEF HandlerFails, Upset, Handle, Hear, Excuse
<1>28. ASSUME NEW r \in {"own", "orphan"}, RowIsDropped(r) PROVE SentOnce'
  BY <1>28 DEF RowIsDropped, Upset, ExcuseUnwatched, memory, turns
<1> QED
  BY <1>1, <1>2, <1>3, <1>4, <1>5, <1>6, <1>7, <1>8, <1>9, <1>10, <1>11, <1>12, <1>13, <1>14, <1>15, <1>16, <1>17, <1>18, <1>19, <1>20, <1>21, <1>22, <1>23, <1>24,
     <1>25, <1>26, <1>27, <1>28,
     EveryStep DEF OneOf

-----------------------------------------------------------------------------
(* The message that waits has the session to itself.                       *)

\* No step brings a second turn into the session of a message that is not excused.
LEMMA AloneStep == ASSUME TypeOK, Alone, EndIsHeard, Next PROVE Alone'
<1> USE TwoKinds DEF TypeOK, Alone, Waiting, Open, Live
<1>1. ASSUME NEW t \in Messages, Ask(t) PROVE Alone'
  BY <1>1 DEF Ask, Goto, memory, history
<1>2. ASSUME NEW t \in Turns, Guard(t) PROVE Alone'
  BY <1>2 DEF Guard, Goto, history
<1>3. ASSUME NEW t \in Turns, CheckSession(t) PROVE Alone'
  BY <1>3 DEF CheckSession, Goto, history, Upset
<1>4. ASSUME NEW t \in Turns, Send(t) PROVE Alone'
  BY <1>4 DEF Send, Goto, Says, Overlapping
<1>5. ASSUME NEW t \in Turns, SendFails(t) PROVE Alone'
  BY <1>5 DEF SendFails, Goto, history, Upset
<1>6. ASSUME NEW t \in Turns, Accepted(t) PROVE Alone'
  BY <1>6 DEF Accepted, Goto, history
<1>7. ASSUME NEW t \in Turns, Watch(t) PROVE Alone'
  BY <1>7 DEF Watch, Goto, history, ArmWatch
<1>8. CASE RowSaved
  BY <1>8 DEF RowSaved, turns, history, Upset
<1>9. ASSUME NEW t \in Turns, Begins(t) PROVE Alone'
  BY <1>9 DEF Begins, Says, memory, history, SavesStatus, Upset
<1>10. ASSUME NEW t \in Turns, Idles(t) PROVE Alone'
  BY <1>10 DEF Idles, Ends, Says, ClearWatch, history, SavesStatus, Upset
<1>11. ASSUME NEW t \in Turns, Completes(t) PROVE Alone'
  BY <1>11 DEF Completes, Ends, Says, Handle, ClearWatch, history
<1>12. ASSUME NEW t \in Turns, Errs(t) PROVE Alone'
  BY <1>12 DEF Errs, Ends, Says, Handle, ClearWatch, history
<1>13. ASSUME NEW t \in Turns, FailsSession(t) PROVE Alone'
  BY <1>13 DEF FailsSession, Ends, Says, ClearWatch, history, SavesStatus, Upset
<1>14. ASSUME NEW t \in Turns, ReportIsLost(t) PROVE Alone'
  BY <1>14 DEF ReportIsLost, Upset, Following, Says, memory, Reported
<1>15. ASSUME NEW t \in Turns, Settle(t) PROVE Alone'
  BY <1>15 DEF Settle, Handle, ClearWatch, history
<1>16. ASSUME NEW t \in Turns, Store(t) PROVE Alone'
  BY <1>16 DEF Store, Handle, Hear, SavesStatus, Upset
<1>17. ASSUME NEW t \in Turns, Fail(t) PROVE Alone'
  BY <1>17 DEF Fail, Handle, Hear
<1>18. CASE SilenceFires
  BY <1>18 DEF SilenceFires, ForgetWatch, turns, history
<1>19. ASSUME NEW r \in {"own", "orphan"}, RowFires(r) PROVE Alone'
  BY <1>19 DEF RowFires, turns, history
<1>20. ASSUME NEW by \in {"timer", "row"}, Wake(by) PROVE Alone'
  BY <1>20 DEF Wake, ArmWatch, Goto, Unused, Upset
<1>21. ASSUME NEW by \in {"timer", "row"}, GiveUp(by) PROVE Alone'
  BY <1>21 DEF GiveUp, ForgetWatch, turns, Upset, Excuse
<1>22. CASE Restart
  BY <1>22 DEF Restart, Upset
<1>23. CASE WorkerDies
  BY <1>23 DEF WorkerDies, Upset, memory
<1>24. CASE WorkerReturns
  BY <1>24 DEF WorkerReturns, memory, turns, history
<1>25. ASSUME NEW t \in Turns, SendUnanswered(t) PROVE Alone'
  BY <1>25 DEF SendUnanswered, Upset, Goto, Says, Overlapping
<1>26. ASSUME NEW t \in Turns, WatchFails(t) PROVE Alone'
  BY <1>26 DEF WatchFails, Upset, Goto, ExcuseUnwatched, memory
<1>27. ASSUME NEW t \in Turns, HandlerFails(t) PROVE Alone'
  BY <1>27 DEF HandlerFails, Upset, Handle, Hear, Excuse
<1>28. ASSUME NEW r \in {"own", "orphan"}, RowIsDropped(r) PROVE Alone'
  BY <1>28 DEF RowIsDropped, Upset, ExcuseUnwatched, memory, turns
<1> QED
  BY <1>1, <1>2, <1>3, <1>4, <1>5, <1>6, <1>7, <1>8, <1>9, <1>10, <1>11, <1>12, <1>13, <1>14, <1>15, <1>16, <1>17, <1>18, <1>19, <1>20, <1>21, <1>22, <1>23, <1>24,
     <1>25, <1>26, <1>27, <1>28,
     EveryStep DEF OneOf

\* Who is about to end alone has been heard, or a handler is at it.
LEMMA EndIsHeardStep == ASSUME TypeOK, Alone, EndIsHeard, Next PROVE EndIsHeard'
<1> USE TwoKinds DEF TypeOK, Alone, EndIsHeard, Waiting, Open, Live
<1>1. ASSUME NEW t \in Messages, Ask(t) PROVE EndIsHeard'
  BY <1>1 DEF Ask, Goto, memory, history
<1>2. ASSUME NEW t \in Turns, Guard(t) PROVE EndIsHeard'
  BY <1>2 DEF Guard, Goto, history
<1>3. ASSUME NEW t \in Turns, CheckSession(t) PROVE EndIsHeard'
  BY <1>3 DEF CheckSession, Goto, history, Upset
<1>4. ASSUME NEW t \in Turns, Send(t) PROVE EndIsHeard'
  BY <1>4 DEF Send, Goto, Says, Overlapping
<1>5. ASSUME NEW t \in Turns, SendFails(t) PROVE EndIsHeard'
  BY <1>5 DEF SendFails, Goto, history, Upset
<1>6. ASSUME NEW t \in Turns, Accepted(t) PROVE EndIsHeard'
  BY <1>6 DEF Accepted, Goto, history
<1>7. ASSUME NEW t \in Turns, Watch(t) PROVE EndIsHeard'
  BY <1>7 DEF Watch, Goto, history, ArmWatch
<1>8. CASE RowSaved
  BY <1>8 DEF RowSaved, turns, history, Upset
<1>9. ASSUME NEW t \in Turns, Begins(t) PROVE EndIsHeard'
  BY <1>9 DEF Begins, Says, memory, history, SavesStatus, Upset
<1>10. ASSUME NEW t \in Turns, Idles(t) PROVE EndIsHeard'
  BY <1>10 DEF Idles, Ends, Says, ClearWatch, history, SavesStatus, Upset
<1>11. ASSUME NEW t \in Turns, Completes(t) PROVE EndIsHeard'
  BY <1>11 DEF Completes, Ends, Says, Handle, ClearWatch, history
<1>12. ASSUME NEW t \in Turns, Errs(t) PROVE EndIsHeard'
  BY <1>12 DEF Errs, Ends, Says, Handle, ClearWatch, history
<1>13. ASSUME NEW t \in Turns, FailsSession(t) PROVE EndIsHeard'
  BY <1>13 DEF FailsSession, Ends, Says, ClearWatch, history, SavesStatus, Upset
<1>14. ASSUME NEW t \in Turns, ReportIsLost(t) PROVE EndIsHeard'
  BY <1>14 DEF ReportIsLost, Upset, Following, Says, memory, Reported
<1>15. ASSUME NEW t \in Turns, Settle(t) PROVE EndIsHeard'
  BY <1>15 DEF Settle, Handle, ClearWatch, history
<1>16. ASSUME NEW t \in Turns, Store(t) PROVE EndIsHeard'
  BY <1>16 DEF Store, Handle, Hear, SavesStatus, Upset
<1>17. ASSUME NEW t \in Turns, Fail(t) PROVE EndIsHeard'
  BY <1>17 DEF Fail, Handle, Hear
<1>18. CASE SilenceFires
  BY <1>18 DEF SilenceFires, ForgetWatch, turns, history
<1>19. ASSUME NEW r \in {"own", "orphan"}, RowFires(r) PROVE EndIsHeard'
  BY <1>19 DEF RowFires, turns, history
<1>20. ASSUME NEW by \in {"timer", "row"}, Wake(by) PROVE EndIsHeard'
  BY <1>20 DEF Wake, ArmWatch, Goto, Unused, Upset
<1>21. ASSUME NEW by \in {"timer", "row"}, GiveUp(by) PROVE EndIsHeard'
  BY <1>21 DEF GiveUp, ForgetWatch, turns, Upset, Excuse
<1>22. CASE Restart
  BY <1>22 DEF Restart, Upset
<1>23. CASE WorkerDies
  BY <1>23 DEF WorkerDies, Upset, memory
<1>24. CASE WorkerReturns
  BY <1>24 DEF WorkerReturns, memory, turns, history
<1>25. ASSUME NEW t \in Turns, SendUnanswered(t) PROVE EndIsHeard'
  BY <1>25 DEF SendUnanswered, Upset, Goto, Says, Overlapping
<1>26. ASSUME NEW t \in Turns, WatchFails(t) PROVE EndIsHeard'
  BY <1>26 DEF WatchFails, Upset, Goto, ExcuseUnwatched, memory
<1>27. ASSUME NEW t \in Turns, HandlerFails(t) PROVE EndIsHeard'
  BY <1>27 DEF HandlerFails, Upset, Handle, Hear, Excuse
<1>28. ASSUME NEW r \in {"own", "orphan"}, RowIsDropped(r) PROVE EndIsHeard'
  BY <1>28 DEF RowIsDropped, Upset, ExcuseUnwatched, memory, turns
<1> QED
  BY <1>1, <1>2, <1>3, <1>4, <1>5, <1>6, <1>7, <1>8, <1>9, <1>10, <1>11, <1>12, <1>13, <1>14, <1>15, <1>16, <1>17, <1>18, <1>19, <1>20, <1>21, <1>22, <1>23, <1>24,
     <1>25, <1>26, <1>27, <1>28,
     EveryStep DEF OneOf

-----------------------------------------------------------------------------
(* Something looks after it.                                               *)

\* No step leaves an open message without somebody who looks after it.
LEMMA LookedAfterStep == ASSUME TurnsInv, Next PROVE OpenIsLookedAfter'
<1> USE TwoKinds DEF TurnsInv, TypeOK, SentOnce, Alone, EndIsHeard, Waiting, Open, Live,
                     OpenIsLookedAfter, LookedAfter
<1>1. ASSUME NEW t \in Messages, Ask(t) PROVE OpenIsLookedAfter'
  BY <1>1 DEF Ask, Goto, memory, history
<1>2. ASSUME NEW t \in Turns, Guard(t) PROVE OpenIsLookedAfter'
  BY <1>2 DEF Guard, Goto, history
<1>3. ASSUME NEW t \in Turns, CheckSession(t) PROVE OpenIsLookedAfter'
  BY <1>3 DEF CheckSession, Goto, history, Upset
<1>4. ASSUME NEW t \in Turns, Send(t) PROVE OpenIsLookedAfter'
  <2>1. dispatch' = [dispatch EXCEPT ![t] = "sent"] /\ dispatch[t] = "send"
    BY <1>4 DEF Send, Goto
  <2>2. dispatch'[t] = "sent" /\ injected' = injected
    BY <1>4, <2>1 DEF Send
  <2>3. CASE t \notin injected
    BY <2>2, <2>3
  <2>4. CASE t \in injected
    <3>1. Open' \subseteq Open \cup (Messages \cap {t})
      BY <1>4 DEF Send
    <3>2. excused' = excused \cup Overlapping(t) /\ Messages \cap {t} \subseteq Overlapping(t)
      BY <1>4, <2>4 DEF Send, Overlapping
    <3>3. CASE Open \subseteq excused
      BY <3>1, <3>2, <3>3
    <3>4. CASE LookedAfter
      <4>1. UNCHANGED <<watch, reaping, rows, session, handler>>
        BY <1>4 DEF Send
      <4>2. worker[t] = "none"
        BY <2>1
      <4> QED
        BY <1>4, <2>1, <2>2, <3>1, <3>2, <3>4, <4>1, <4>2 DEF Send, Says
    <3> QED
      BY <3>3, <3>4
  <2> QED
    BY <2>3, <2>4
<1>5. ASSUME NEW t \in Turns, SendFails(t) PROVE OpenIsLookedAfter'
  BY <1>5 DEF SendFails, Goto, history, Upset
<1>6. ASSUME NEW t \in Turns, Accepted(t) PROVE OpenIsLookedAfter'
  BY <1>6 DEF Accepted, Goto, history
<1>7. ASSUME NEW t \in Turns, Watch(t) PROVE OpenIsLookedAfter'
  BY <1>7 DEF Watch, Goto, history, ArmWatch
<1>8. CASE RowSaved
  BY <1>8 DEF RowSaved, turns, history, Upset
<1>9. ASSUME NEW t \in Turns, Begins(t) PROVE OpenIsLookedAfter'
  BY <1>9 DEF Begins, Says, memory, history, SavesStatus, Upset
<1>10. ASSUME NEW t \in Turns, Idles(t) PROVE OpenIsLookedAfter'
  BY <1>10 DEF Idles, Ends, Says, ClearWatch, history, SavesStatus, Upset
<1>11. ASSUME NEW t \in Turns, Completes(t) PROVE OpenIsLookedAfter'
  BY <1>11 DEF Completes, Ends, Says, Handle, ClearWatch, history
<1>12. ASSUME NEW t \in Turns, Errs(t) PROVE OpenIsLookedAfter'
  BY <1>12 DEF Errs, Ends, Says, Handle, ClearWatch, history
<1>13. ASSUME NEW t \in Turns, FailsSession(t) PROVE OpenIsLookedAfter'
  BY <1>13 DEF FailsSession, Ends, Says, ClearWatch, history, SavesStatus, Upset
<1>14. ASSUME NEW t \in Turns, ReportIsLost(t) PROVE OpenIsLookedAfter'
  BY <1>14 DEF ReportIsLost, Upset, Following, Says, memory, Reported
<1>15. ASSUME NEW t \in Turns, Settle(t) PROVE OpenIsLookedAfter'
  BY <1>15 DEF Settle, Handle, ClearWatch, history
<1>16. ASSUME NEW t \in Turns, Store(t) PROVE OpenIsLookedAfter'
  BY <1>16 DEF Store, Handle, Hear, SavesStatus, Upset
<1>17. ASSUME NEW t \in Turns, Fail(t) PROVE OpenIsLookedAfter'
  BY <1>17 DEF Fail, Handle, Hear
<1>18. CASE SilenceFires
  BY <1>18 DEF SilenceFires, ForgetWatch, turns, history
<1>19. ASSUME NEW r \in {"own", "orphan"}, RowFires(r) PROVE OpenIsLookedAfter'
  BY <1>19 DEF RowFires, turns, history
<1>20. ASSUME NEW by \in {"timer", "row"}, Wake(by) PROVE OpenIsLookedAfter'
  BY <1>20 DEF Wake, ArmWatch, Goto, Unused, Upset
<1>21. ASSUME NEW by \in {"timer", "row"}, GiveUp(by) PROVE OpenIsLookedAfter'
  BY <1>21 DEF GiveUp, ForgetWatch, turns, Upset, Excuse
<1>22. CASE Restart
  BY <1>22 DEF Restart, Upset
<1>23. CASE WorkerDies
  BY <1>23 DEF WorkerDies, Upset, memory
<1>24. CASE WorkerReturns
  BY <1>24 DEF WorkerReturns, memory, turns, history
<1>25. ASSUME NEW t \in Turns, SendUnanswered(t) PROVE OpenIsLookedAfter'
  BY <1>25 DEF SendUnanswered, Upset, Goto, Says, Overlapping
<1>26. ASSUME NEW t \in Turns, WatchFails(t) PROVE OpenIsLookedAfter'
  BY <1>26 DEF WatchFails, Upset, Goto, ExcuseUnwatched, memory
<1>27. ASSUME NEW t \in Turns, HandlerFails(t) PROVE OpenIsLookedAfter'
  BY <1>27 DEF HandlerFails, Upset, Handle, Hear, Excuse
<1>28. ASSUME NEW r \in {"own", "orphan"}, RowIsDropped(r) PROVE OpenIsLookedAfter'
  BY <1>28 DEF RowIsDropped, Upset, ExcuseUnwatched, memory, turns
<1> QED
  BY <1>1, <1>2, <1>3, <1>4, <1>5, <1>6, <1>7, <1>8, <1>9, <1>10, <1>11, <1>12, <1>13, <1>14, <1>15, <1>16, <1>17, <1>18, <1>19, <1>20, <1>21, <1>22, <1>23, <1>24,
     <1>25, <1>26, <1>27, <1>28,
     EveryStep DEF OneOf

-----------------------------------------------------------------------------
(* The theorems.                                                           *)

\* The invariant holds at first.
LEMMA InitInv == Init => TurnsInv
<1> SUFFICES ASSUME Init PROVE SentOnce /\ Alone /\ EndIsHeard /\ OpenIsLookedAfter
  BY InitTypes DEF TurnsInv
<1>1. Open = {}
  BY DEF Init, Open
<1>2. SentOnce
  BY DEF Init, SentOnce
<1> QED
  BY <1>1, <1>2 DEF Alone, EndIsHeard, OpenIsLookedAfter, Waiting

\* Every step keeps it.
LEMMA InvStep == TurnsInv /\ [Next]_vars => TurnsInv'
<1>1. ASSUME TurnsInv, Next PROVE TurnsInv'
  BY <1>1, TypesStep, SentOnceStep, AloneStep, EndIsHeardStep, LookedAfterStep DEF TurnsInv
<1>2. ASSUME TurnsInv, UNCHANGED vars PROVE TurnsInv'
  BY <1>2 DEF TurnsInv, vars, memory, turns, history, TypeOK, SentOnce, Alone, EndIsHeard, Waiting, Open,
              Live, OpenIsLookedAfter, LookedAfter
<1> QED
  BY <1>1, <1>2

\* The inductive invariant of the turns holds in every reachable state, through
\* restarts, lost reports, failed calls and failed handlers.
THEOREM TurnsInvariant == Spec => []TurnsInv
  BY InitInv, InvStep, PTL DEF Spec

\* Every variable of the dispatcher and the worker keeps its type, and no
\* session is woken more often than the limit says.
THEOREM TurnsTypeCorrect == Spec => []TypeOK
<1>1. TurnsInv => TypeOK
  BY DEF TurnsInv
<1> QED
  BY <1>1, TurnsInvariant, PTL

\* A message that the worker took and the user has heard nothing of is looked
\* after, whatever reports are late, lost or repeated, wherever the server
\* restarts and whichever of its queries and writes fail: but for the messages
\* that one of the upsets named with OpenIsLookedAfter has excused.
THEOREM OpenStaysLookedAfter == Spec => []OpenIsLookedAfter
<1>1. TurnsInv => OpenIsLookedAfter
  BY DEF TurnsInv
<1> QED
  BY <1>1, TurnsInvariant, PTL
=============================================================================
