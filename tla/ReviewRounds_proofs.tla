------------------------ MODULE ReviewRounds_proofs ------------------------
(***************************************************************************)
(* Theorems about ReviewRounds: the types, and the safety properties of the *)
(* ledger and of the plan, for any number of reviewers, messages, calls,   *)
(* users and rounds.                                                       *)
(***************************************************************************)
EXTENDS ReviewRounds, TLAPS

\* Whatever carries on with a ledger that it has read: the ledger is there,
\* and so is the round that a revision will open.
Hosted ==
  /\ \A c \in Calls : call[c].step \in {"write", "close"} => ledger # None
  /\ \A n \in 1 .. MaxRound : timer[n] # "none" => ledger # None
  /\ opening.step = "schedule" => ledger # None
  /\ \A u \in Users : request[u] # Idle =>
       /\ request[u].step = "raise" \/ request[u].round > 0 => ledger # None
       /\ request[u].act = "revise" => request[u].round < MaxRound

\* A counted verdict of the current round is received, one of an older round
\* is archived.
CountedKept ==
  \A x \in counted :
    /\ ledger # None /\ x[2] <= ledger.round
    /\ x[2] = ledger.round => ledger.received[By[x[1]]] = x[1]
    /\ x[2] < ledger.round => x[1] \in ledger.archive

\* Who is about to close a round has seen all its verdicts, and they are
\* still there unless a new round was opened.
ClosingConverged == Closing => isConverged(ledger) \/ overtaken

\* A request that leads to a final state without freezing a version has found
\* a plan with a frozen version.
FrozenKept ==
  \A u \in Users :
    /\ request[u] # Idle /\ request[u].act = "finalize" => request[u].freezes
    /\ request[u] # Idle /\ request[u].act \in {"confirm", "complete"} /\ ~request[u].freezes
         => frozen # None

\* The inductive invariant.
IInv ==
  /\ TypeOK
  /\ Hosted
  /\ CountedKept
  /\ ClosingConverged /\ CompleteIsConverged
  /\ FrozenKept /\ FrozenWhenFinal

-----------------------------------------------------------------------------
(* The operators on the ledger.                                            *)

USE DEF Idle

\* The order of versions is irreflexive, so a merge never lowers the version.
LEMMA VersionFacts ==
  ASSUME NEW a \in Nat, NEW b \in Nat
  PROVE  /\ mergePlanVersion(a, b) \in Nat
         /\ ~Lower(mergePlanVersion(a, b), a)
  <1>1. ~Lower(a, a)
    BY DEF Lower
  <1>. QED
    BY <1>1 DEF mergePlanVersion

\* The ledger that a first dispatch starts from is a ledger.
LEMMA CreateFacts == createLedger \in Ledger
  BY RoundsAssumption DEF createLedger, Ledger, NoVotes

\* What a merge keeps of a ledger, and what a new round does to it.
LEMMA MergeFacts ==
  ASSUME NEW l \in Ledger, NEW r \in 0 .. MaxRound, NEW v \in Nat,
         NEW k, k = mergeLedger(l, r, v)
  PROVE  /\ k \in Ledger /\ k.status = l.status
         /\ k.round = IF r > l.round THEN r ELSE l.round
         /\ ~Lower(k.version, l.version)
         /\ r <= l.round => k.received = l.received /\ k.archive = l.archive
         /\ r > l.round => k.received = NoVotes /\ k.archive = l.archive \cup Received(l)
  <1>1. Received(l) \subseteq Messages
    BY DEF Ledger, Received
  <1>2. NoVotes \in [Members -> Messages \cup {None}]
    BY DEF NoVotes
  <1>3. mergePlanVersion(l.version, v) \in Nat /\ ~Lower(mergePlanVersion(l.version, v), l.version)
    BY VersionFacts DEF Ledger
  <1>. DEFINE n == IF r > l.round THEN r ELSE l.round
              g == IF r > l.round THEN NoVotes ELSE l.received
              h == IF r > l.round THEN l.archive \cup Received(l) ELSE l.archive
              w == mergePlanVersion(l.version, v)
  <1>4. k = [round |-> n, version |-> w, received |-> g, archive |-> h, status |-> l.status]
    BY DEF mergeLedger, Ledger
  <1>5. n \in 1 .. MaxRound /\ g \in [Members -> Messages \cup {None}] /\ h \subseteq Messages
    BY <1>1, <1>2, RoundsAssumption DEF Ledger
  <1>. HIDE DEF w
  <1>6. k \in Ledger
    BY <1>3, <1>4, <1>5 DEF Ledger, w
  <1>. QED
    BY <1>3, <1>4, <1>6, RoundsAssumption DEF Ledger, w

\* A verdict is received in the place of its reviewer, or archived.
LEMMA ResolveFacts ==
  ASSUME NEW l \in Ledger, NEW m \in Messages, NEW v, NEW k, k = resolveVerdict(l, m, v)
  PROVE  /\ k \in Ledger /\ k.status = l.status /\ k.round = l.round /\ k.version = l.version
         /\ \/ k.received = [l.received EXCEPT ![By[m]] = m] /\ k.archive = l.archive
            \/ k.received = l.received /\ k.archive = l.archive \cup {m}
         /\ isConverged(l) => isConverged(k)
  <1>1. By[m] \in Members /\ m # None
    BY RoundsAssumption
  <1>2. CASE v = l.version
    <2>1. k = [l EXCEPT !.received = [@ EXCEPT ![By[m]] = m]]
      BY <1>2 DEF resolveVerdict, Ledger
    <2>. QED
      BY <1>1, <2>1 DEF Ledger, isConverged
  <1>3. CASE v # l.version
    BY <1>3 DEF resolveVerdict, Ledger, isConverged
  <1>. QED
    BY <1>2, <1>3

\* Writing the status changes nothing else.
LEMMA StatusFacts ==
  ASSUME NEW l \in Ledger, NEW s \in {"collecting", "complete", "stale"},
         NEW k, k = [l EXCEPT !.status = s]
  PROVE  /\ k \in Ledger /\ k.status = s /\ k.round = l.round /\ k.version = l.version
         /\ k.received = l.received /\ k.archive = l.archive
  BY DEF Ledger

-----------------------------------------------------------------------------
(* What a handler in flight carries, by the step it is at.                 *)

\* What a verdict in flight carries.
LEMMA CallFacts ==
  ASSUME TypeOK, NEW c \in Calls
  PROVE  /\ call[c].step = "write" => call[c].msg \in Messages /\ call[c].version \in Versions
         /\ call[c].step = "flip" => call[c].to \in {"pending_final", "draft"}
  BY DEF TypeOK

\* What a dispatch under way carries.
LEMMA OpeningFacts ==
  ASSUME TypeOK, opening # Idle
  PROVE  opening \in [step : {"open", "schedule"}, round : 1 .. MaxRound, version : Versions]
  BY DEF TypeOK

\* What a request to the plan's life cycle carries.
LEMMA RequestFacts ==
  ASSUME TypeOK, NEW u \in Users, request[u] # Idle
  PROVE  request[u] \in [step : {"read", "write", "raise"}, act : Actions,
                         freezes : BOOLEAN, round : 0 .. MaxRound, version : Nat]
  BY DEF TypeOK

\* The versions that are quoted are among those a ledger may have.
LEMMA VersionsAreNumbers == Versions \subseteq Nat
  BY RoundsAssumption

-----------------------------------------------------------------------------
(* The steps that write the ledger.                                        *)

\* The ledger is still there; round and version have not dropped; within a
\* round, what was received or archived is kept, up to verdicts that come in;
\* a new round finds everything received in the archive.
LedgerMoves(l, k) ==
  /\ k \in Ledger
  /\ k.round >= l.round /\ ~Lower(k.version, l.version)
  /\ k.round = l.round => k.received = l.received /\ k.archive = l.archive
  /\ k.round > l.round => k.archive = l.archive \cup Received(l)

\* A write that only sets the status moves the ledger; so does no write.
LEMMA StatusMoves ==
  ASSUME NEW l \in Ledger, NEW s \in {"collecting", "complete", "stale"}
  PROVE  LedgerMoves(l, [l EXCEPT !.status = s]) /\ LedgerMoves(l, l)
  <1>1. ~Lower(l.version, l.version) /\ l.round \in Nat
    BY RoundsAssumption DEF Lower, Ledger
  <1>. QED
    BY <1>1, StatusFacts DEF LedgerMoves

\* So does a merge, of whatever round and version, and one with a new status.
LEMMA MergeMoves ==
  ASSUME NEW l \in Ledger, NEW r \in 0 .. MaxRound, NEW v \in Nat,
         NEW s \in {"collecting", "complete", "stale"}
  PROVE  /\ LedgerMoves(l, mergeLedger(l, r, v))
         /\ LedgerMoves(l, [mergeLedger(l, r, v) EXCEPT !.status = s])
  <1>. DEFINE k == mergeLedger(l, r, v)
              j == [k EXCEPT !.status = s]
  <1>1. /\ k \in Ledger /\ ~Lower(k.version, l.version)
        /\ k.round = IF r > l.round THEN r ELSE l.round
        /\ r <= l.round => k.received = l.received /\ k.archive = l.archive
        /\ r > l.round => k.archive = l.archive \cup Received(l)
    BY MergeFacts
  <1>. HIDE DEF k
  <1>2. LedgerMoves(l, k)
    <2>1. l.round \in Nat /\ r \in Nat
      BY RoundsAssumption DEF Ledger
    <2>. QED
      BY <1>1, <2>1 DEF LedgerMoves
  <1>. HIDE DEF j
  <1>3. /\ j \in Ledger /\ j.round = k.round /\ j.version = k.version
        /\ j.received = k.received /\ j.archive = k.archive
    BY <1>2, StatusFacts DEF LedgerMoves, j
  <1>4. LedgerMoves(l, j)
    BY <1>2, <1>3 DEF LedgerMoves
  <1>. QED
    BY <1>2, <1>4 DEF k, j
\* A dispatch moves the ledger on, whatever it has become since it was read,
\* and leaves it collecting.
LEMMA OpenMoves ==
  ASSUME TypeOK, openReviewRound
  PROVE  /\ ledger' \in Ledger /\ ledger'.status = "collecting"
         /\ ledger # None => LedgerMoves(ledger, ledger')
  <1>. DEFINE base == IF ledger = None THEN createLedger ELSE ledger
              k == mergeLedger(base, opening.round, opening.version)
  <1>1. base \in Ledger
    BY CreateFacts DEF TypeOK
  <1>2. opening.round \in 0 .. MaxRound /\ opening.version \in Nat
    BY OpeningFacts, VersionsAreNumbers DEF openReviewRound
  <1>3. ledger' = [k EXCEPT !.status = "collecting"]
    BY DEF openReviewRound
  <1>. HIDE DEF base
  <1>4. LedgerMoves(base, k) /\ LedgerMoves(base, ledger')
    BY <1>1, <1>2, <1>3, MergeMoves
  <1>. HIDE DEF k
  <1>5. ledger'.status = "collecting"
    BY <1>3, <1>4, StatusFacts DEF LedgerMoves
  <1>. QED
    BY <1>4, <1>5 DEF LedgerMoves, base

\* So does a revision, unless its write fails.
LEMMA NextRoundMoves ==
  ASSUME TypeOK, Hosted, NEW u \in Users, openNextRound(u)
  PROVE  ledger # None => /\ LedgerMoves(ledger, ledger')
                          /\ ledger' # ledger => ledger'.status = "collecting"
  <1>. DEFINE k == mergeLedger(ledger, request[u].round + 1, Bump(request[u].version))
  <1>1. SUFFICES ASSUME ledger # None PROVE LedgerMoves(ledger, ledger') /\ (ledger' # ledger => ledger'.status = "collecting")
    OBVIOUS
  <1>2. ledger \in Ledger
    BY <1>1 DEF TypeOK
  <1>3. CASE ledger' = ledger
    BY <1>2, <1>3, StatusMoves
  <1>4. CASE ledger' = [k EXCEPT !.status = "collecting"] /\ request[u].round < MaxRound
    <2>1. request[u].round + 1 \in 0 .. MaxRound /\ Bump(request[u].version) \in Nat
      BY <1>4, RequestFacts, RoundsAssumption DEF openNextRound, Bump
    <2>2. LedgerMoves(ledger, k) /\ LedgerMoves(ledger, [k EXCEPT !.status = "collecting"])
      BY <1>2, <2>1, MergeMoves
    <2>. HIDE DEF k
    <2>3. ledger'.status = "collecting"
      BY <1>4, <2>2, StatusFacts DEF LedgerMoves
    <2>. QED
      BY <1>4, <2>2, <2>3
  <1>5. request[u].round < MaxRound
    BY DEF openNextRound, Hosted
  <1>. QED
    BY <1>3, <1>4, <1>5 DEF openNextRound

\* A rejection moves nothing but the version.
LEMMA BumpMoves ==
  ASSUME TypeOK, NEW u \in Users, bumpLedgerVersion(u), ledger # None
  PROVE  /\ LedgerMoves(ledger, ledger') /\ ledger'.status = ledger.status
         /\ ledger'.round = ledger.round
  <1>1. ledger \in Ledger /\ 0 <= ledger.round /\ ~(0 > ledger.round)
    BY RoundsAssumption DEF TypeOK, Ledger
  <1>2. CASE ledger' = ledger
    BY <1>1, <1>2, StatusMoves
  <1>3. CASE ledger' = mergeLedger(ledger, 0, Bump(request[u].version))
    <2>1. 0 \in 0 .. MaxRound /\ Bump(request[u].version) \in Nat
      BY RequestFacts, RoundsAssumption DEF bumpLedgerVersion, Bump
    <2>2. LedgerMoves(ledger, ledger')
      BY <1>1, <1>3, <2>1, MergeMoves
    <2>3. ledger'.status = ledger.status /\ ledger'.round = ledger.round
      BY <1>1, <1>3, <2>1, MergeFacts
    <2>. QED
      BY <2>2, <2>3
  <1>. QED
    BY <1>2, <1>3 DEF bumpLedgerVersion

\* A verdict is received or archived, and no other one goes with it - save
\* that of the same reviewer.
LEMMA VerdictMoves ==
  ASSUME TypeOK, Hosted, NEW c \in Calls, VerdictWritten(c)
  PROVE  /\ ledger # None /\ call[c].msg \in Messages
         /\ ledger' \in Ledger /\ ledger'.status = ledger.status
         /\ ledger'.round = ledger.round /\ ledger'.version = ledger.version
         /\ LET m == call[c].msg IN
              \/ ledger'.received = [ledger.received EXCEPT ![By[m]] = m] /\ ledger'.archive = ledger.archive
              \/ ledger'.received = ledger.received /\ ledger'.archive = ledger.archive \cup {m}
         /\ isConverged(ledger) => isConverged(ledger')
  <1>1. ledger # None /\ ledger \in Ledger /\ call[c].msg \in Messages
    BY CallFacts DEF VerdictWritten, Hosted, TypeOK
  <1>2. ledger' = resolveVerdict(ledger, call[c].msg, call[c].version)
    BY DEF VerdictWritten
  <1>. QED
    BY <1>1, <1>2, ResolveFacts
\* A round that is closed, or turns stale, changes its status only.
LEMMA EndMoves ==
  ASSUME TypeOK, Hosted,
         \/ \E c \in Calls : RoundClosed(c)
         \/ \E n \in 1 .. MaxRound : TurnsStale(n)
  PROVE  /\ ledger # None /\ LedgerMoves(ledger, ledger')
         /\ ledger'.status \in {"complete", "stale"}
         /\ ledger'.round = ledger.round /\ ledger'.received = ledger.received
  <1>1. ledger # None /\ ledger \in Ledger
    BY DEF RoundClosed, TurnsStale, Hosted, TypeOK
  <1>2. PICK s \in {"complete", "stale"} : ledger' = [ledger EXCEPT !.status = s]
    BY DEF RoundClosed, TurnsStale
  <1>. QED
    BY <1>1, <1>2, StatusMoves, StatusFacts

-----------------------------------------------------------------------------
(* Types.                                                                  *)

\* Every step keeps the types.
LEMMA TypeStep ==
  ASSUME TypeOK, Hosted, [Next]_vars
  PROVE  TypeOK'
  <1>. USE RoundsAssumption DEF TypeOK
  <1>1. ASSUME NEW n \in 1 .. MaxRound, NEW v \in Versions, DispatchReads(n, v) PROVE TypeOK'
    BY <1>1 DEF DispatchReads, verdicts, lifecycle
  <1>2. ASSUME openReviewRound PROVE TypeOK'
    <2>1. ledger' \in Ledger
      BY <1>2, OpenMoves
    <2>2. opening' \in [step : {"open", "schedule"}, round : 1 .. MaxRound, version : Versions]
      BY <1>2, OpeningFacts DEF openReviewRound
    <2>3. overtaken' \in BOOLEAN
      BY <1>2 DEF openReviewRound, Opened
    <2>. QED
      BY <1>2, <2>1, <2>2, <2>3 DEF openReviewRound, verdicts, lifecycle
  <1>3. ASSUME scheduleReviewRoundTimeout PROVE TypeOK'
    <2>1. opening.round \in 1 .. MaxRound
      BY <1>3, OpeningFacts DEF scheduleReviewRoundTimeout
    <2>2. timer' \in [1 .. MaxRound -> {"none", "armed", "check", "stale", "over", "lost"}]
      BY <1>3, <2>1 DEF scheduleReviewRoundTimeout
    <2>3. wait' \in [1 .. MaxRound -> 0 .. Timeout] /\ kept' \in 0 .. MaxRound
      BY <1>3, <2>1 DEF scheduleReviewRoundTimeout
    <2>. QED
      BY <1>3, <2>2, <2>3 DEF scheduleReviewRoundTimeout, verdicts, lifecycle
  <1>4. ASSUME DispatchFails PROVE TypeOK'
    BY <1>4 DEF DispatchFails, verdicts, lifecycle
  <1>5. ASSUME NEW c \in Calls, NEW m \in Messages, NEW v \in Versions, recordVerdict(c, m, v)
        PROVE TypeOK'
    BY <1>5 DEF recordVerdict, Step, review, lifecycle
  <1>6. ASSUME NEW c \in Calls, VerdictWritten(c) PROVE TypeOK'
    <2>1. ledger' \in Ledger /\ call[c].msg \in Messages
      BY <1>6, VerdictMoves
    <2>2. counted' \subseteq Messages \X (1 .. MaxRound)
      <3>1. counted' \subseteq counted \cup {<<call[c].msg, ledger'.round>>}
        BY <1>6 DEF VerdictWritten
      <3>. QED
        BY <2>1, <3>1 DEF Ledger
    <2>3. \E s \in {Idle, [step |-> "close"]} : call' = [call EXCEPT ![c] = s]
      BY <1>6 DEF VerdictWritten, Step
    <2>. QED
      BY <1>6, <2>1, <2>2, <2>3 DEF VerdictWritten, lifecycle
  <1>7. ASSUME NEW c \in Calls, RoundClosed(c) PROVE TypeOK'
    <2>1. ledger' \in Ledger
      BY <1>7, EndMoves DEF LedgerMoves
    <2>. QED
      BY <1>7, <2>1 DEF RoundClosed, Step, lifecycle
  <1>8. ASSUME NEW c \in Calls, PlanFlipped(c) PROVE TypeOK'
    BY <1>8, CallFacts DEF PlanFlipped, Step, review
  <1>9. ASSUME NEW c \in Calls, VerdictFails(c) PROVE TypeOK'
    BY <1>9 DEF VerdictFails, Step, review, lifecycle
  <1>10. ASSUME NEW n \in 1 .. MaxRound, handle(n) \/ TimeoutFails(n) PROVE TypeOK'
    <2>1. ledger' \in Ledger \cup {None}
      BY <1>10, EndMoves DEF handle, TimerFires, checkTimeout, TurnsStale, TimeoutFails, LedgerMoves
    <2>2. timer' \in [1 .. MaxRound -> {"none", "armed", "check", "stale", "over", "lost"}]
      BY <1>10 DEF handle, TimerFires, checkTimeout, TurnsStale, TimeoutFails, Handler
    <2>3. OutsideTimeout
      BY <1>10 DEF handle, TimerFires, checkTimeout, TurnsStale, TimeoutFails
    <2>. QED
      BY <2>1, <2>2, <2>3 DEF OutsideTimeout, verdicts, lifecycle
  <1>11. ASSUME NEW u \in Users, NEW act \in Actions, NEW waived \in BOOLEAN,
                loadWritablePlan(u, act, waived)
         PROVE TypeOK'
    <2>1. Freezes(act, plan) \in BOOLEAN
      BY DEF Freezes
    <2>. QED
      BY <1>11, <2>1 DEF loadWritablePlan, Go, OutsidePlan, verdicts
  <1>12. ASSUME NEW u \in Users, findLedgerHost(u) PROVE TypeOK'
    <2>. DEFINE n == IF ledger # None /\ SendsBack(request[u].act) THEN ledger.round ELSE 0
                v == IF ledger = None THEN 1 ELSE ledger.version
    <2>1. n \in 0 .. MaxRound /\ v \in Nat
      BY DEF Ledger
    <2>2. request' = [request EXCEPT ![u] =
                        [request[u] EXCEPT !.step = "write", !.round = n, !.version = v]]
      BY <1>12 DEF findLedgerHost, Go
    <2>. HIDE DEF n, v
    <2>3. [request[u] EXCEPT !.step = "write", !.round = n, !.version = v]
            \in [step : {"read", "write", "raise"}, act : Actions,
                 freezes : BOOLEAN, round : 0 .. MaxRound, version : Nat]
      <3>1. request[u] \in [step : {"read", "write", "raise"}, act : Actions,
                            freezes : BOOLEAN, round : 0 .. MaxRound, version : Nat]
        BY <1>12, RequestFacts DEF findLedgerHost
      <3>. HIDE DEF TypeOK
      <3>. QED
        BY <2>1, <3>1
    <2>. QED
      BY <1>12, <2>2, <2>3 DEF findLedgerHost, OutsidePlan, verdicts
  <1>13. ASSUME NEW u \in Users, transition(u) PROVE TypeOK'
    <2>1. request[u].act \in Actions /\ request[u].version \in Nat
      BY <1>13, RequestFacts DEF transition
    <2>2. request' \in [Users -> {Idle} \cup [step : {"read", "write", "raise"}, act : Actions,
                                 freezes : BOOLEAN, round : 0 .. MaxRound, version : Nat]]
      <3>1. [request[u] EXCEPT !.step = "raise"] \in
              [step : {"read", "write", "raise"}, act : Actions,
               freezes : BOOLEAN, round : 0 .. MaxRound, version : Nat]
        <4>1. request[u] \in [step : {"read", "write", "raise"}, act : Actions,
                              freezes : BOOLEAN, round : 0 .. MaxRound, version : Nat]
          BY <1>13, RequestFacts DEF transition
        <4>. HIDE DEF TypeOK
        <4>. QED
          BY <4>1
      <3>. QED
        BY <1>13, <3>1 DEF transition, Go
    <2>3. plan' \in {"draft", "pending_final", "approved", "executing", "completed"}
      BY <1>13, <2>1 DEF transition, Target, Actions
    <2>. QED
      BY <1>13, <2>1, <2>2, <2>3 DEF transition, OutsidePlan, verdicts
  <1>14. ASSUME NEW u \in Users, bumpLedgerVersion(u) PROVE TypeOK'
    <2>1. ledger' \in Ledger \cup {None}
      <3>1. ledger # None
        BY <1>14 DEF bumpLedgerVersion, Hosted
      <3>. QED
        BY <1>14, <3>1, BumpMoves DEF LedgerMoves
    <2>. QED
      BY <1>14, <2>1 DEF bumpLedgerVersion, Go, OutsidePlan, verdicts
  <1>15. ASSUME NEW u \in Users, openNextRound(u) PROVE TypeOK'
    <2>1. ledger' \in Ledger \cup {None}
      <3>1. ledger # None
        BY <1>15 DEF openNextRound, Hosted
      <3>. QED
        BY <1>15, <3>1, NextRoundMoves DEF LedgerMoves
    <2>2. overtaken' \in BOOLEAN
      BY <1>15 DEF openNextRound, Opened
    <2>3. kept' \in 0 .. MaxRound
      BY <1>15 DEF openNextRound
    <2>. QED
      BY <1>15, <2>1, <2>2, <2>3 DEF openNextRound, Go, OutsidePlan, verdicts
  <1>16. ASSUME TimePasses PROVE TypeOK'
    BY <1>16 DEF TimePasses, verdicts, lifecycle
  <1>17. ASSUME Crash PROVE TypeOK'
    BY <1>17 DEF Crash
  <1>18. ASSUME UNCHANGED vars PROVE TypeOK'
    BY <1>18 DEF vars, review, verdicts, lifecycle
  <1>. HIDE DEF TypeOK
  <1>. QED
    BY <1>1, <1>2, <1>3, <1>4, <1>5, <1>6, <1>7, <1>8, <1>9, <1>10, <1>11, <1>12, <1>13,
       <1>14, <1>15, <1>16, <1>17, <1>18
    DEF Next, UndisturbedNext, dispatch, verdict, confirmPlan
-----------------------------------------------------------------------------
(* The ledger never goes away, nor back.                                   *)

\* Every step keeps the ledger, and takes neither round nor version back.
LEMMA LedgerStep ==
  ASSUME TypeOK, Hosted, [Next]_vars, ledger # None
  PROVE  /\ ledger' \in Ledger
         /\ ledger'.round >= ledger.round /\ ~Lower(ledger'.version, ledger.version)
  <1>0. ledger \in Ledger
    BY DEF TypeOK
  <1>. SUFFICES LedgerMoves(ledger, ledger') \/ \E c \in Calls : VerdictWritten(c)
    <2>1. ASSUME NEW c \in Calls, VerdictWritten(c)
          PROVE  ledger' \in Ledger /\ ledger'.round = ledger.round /\ ledger'.version = ledger.version
      BY <2>1, VerdictMoves
    <2>2. ledger.round >= ledger.round /\ ~Lower(ledger.version, ledger.version)
      BY <1>0, StatusMoves DEF LedgerMoves
    <2>. QED
      BY <2>1, <2>2 DEF LedgerMoves
  <1>1. CASE UNCHANGED ledger
    BY <1>0, <1>1, StatusMoves
  <1>2. CASE openReviewRound
    BY <1>2, OpenMoves
  <1>3. CASE \E c \in Calls : RoundClosed(c)
    BY <1>3, EndMoves
  <1>4. CASE \E n \in 1 .. MaxRound : TurnsStale(n)
    BY <1>4, EndMoves
  <1>5. CASE \E u \in Users : bumpLedgerVersion(u)
    BY <1>5, BumpMoves
  <1>6. CASE \E u \in Users : openNextRound(u)
    BY <1>6, NextRoundMoves
  <1>. QED
    <2>1. dispatch => openReviewRound \/ UNCHANGED ledger
      BY DEF dispatch, DispatchReads, scheduleReviewRoundTimeout
    <2>2. ASSUME NEW c \in Calls, verdict(c)
          PROVE  VerdictWritten(c) \/ RoundClosed(c) \/ UNCHANGED ledger
      BY <2>2 DEF verdict, recordVerdict, PlanFlipped, VerdictFails, review
    <2>3. ASSUME NEW n \in 1 .. MaxRound, handle(n) PROVE TurnsStale(n) \/ UNCHANGED ledger
      BY <2>3 DEF handle, TimerFires, checkTimeout
    <2>4. ASSUME NEW u \in Users, confirmPlan(u)
          PROVE  bumpLedgerVersion(u) \/ openNextRound(u) \/ UNCHANGED ledger
      BY <2>4 DEF confirmPlan, loadWritablePlan, findLedgerHost, transition
    <2>5. TimePasses \/ DispatchFails \/ (\E n \in 1 .. MaxRound : TimeoutFails(n)) \/ Crash
            \/ UNCHANGED vars
            => UNCHANGED ledger
      BY DEF TimePasses, DispatchFails, TimeoutFails, Crash, vars, review
    <2>. QED
      BY <1>1, <1>2, <1>3, <1>4, <1>5, <1>6, <2>1, <2>2, <2>3, <2>4, <2>5
      DEF Next, UndisturbedNext

\* Every step leaves a ledger to those that carry on with one.
LEMMA HostedStep ==
  ASSUME TypeOK, Hosted, [Next]_vars
  PROVE  Hosted'
  <1>0. ledger # None => ledger' # None
    BY LedgerStep, NoneAssumption
  <1>. DEFINE InFlight == /\ \A c \in Calls : call'[c].step \in {"write", "close"} =>
                                call[c].step \in {"write", "close"} \/ ledger # None
                          /\ \A n \in 1 .. MaxRound : timer'[n] # "none" =>
                                timer[n] # "none" \/ opening.step = "schedule"
                          /\ opening'.step = "schedule" => opening.step = "schedule" \/ ledger' # None
              Asked(u) == /\ request'[u] # Idle /\ (request'[u].step = "raise" \/ request'[u].round > 0)
                               => ledger' # None
                          /\ request'[u] # Idle /\ request'[u].act = "revise"
                               => request'[u].round < MaxRound
  <1>1. ASSUME InFlight, \A u \in Users : Asked(u) PROVE Hosted'
    BY <1>0, <1>1 DEF Hosted
  <1>2. ASSUME UNCHANGED request PROVE \A u \in Users : Asked(u)
    BY <1>0, <1>2 DEF Hosted
  <1>3. CASE dispatch \/ DispatchFails
    <2>1. openReviewRound => ledger' # None
      BY OpenMoves, NoneAssumption
    <2>2. opening'.step = "schedule" => ledger' # None
      BY <1>3, <2>1 DEF dispatch, DispatchReads, openReviewRound, scheduleReviewRoundTimeout, DispatchFails
    <2>3. UNCHANGED <<call, request>>
      BY <1>3 DEF dispatch, DispatchReads, openReviewRound, scheduleReviewRoundTimeout, DispatchFails,
                  verdicts, lifecycle
    <2>4. UNCHANGED timer \/ opening.step = "schedule"
      BY <1>3 DEF dispatch, DispatchReads, openReviewRound, scheduleReviewRoundTimeout, DispatchFails
    <2>5. InFlight
      BY <2>2, <2>3, <2>4
    <2>. QED
      BY <1>1, <1>2, <2>3, <2>5
  <1>4. ASSUME NEW c \in Calls, verdict(c) PROVE Hosted'
    <2>1. UNCHANGED <<timer, opening, request>>
      BY <1>4 DEF verdict, recordVerdict, VerdictWritten, RoundClosed, PlanFlipped, VerdictFails,
                  review, lifecycle
    <2>2. \A d \in Calls : d = c \/ call'[d] = call[d]
      BY <1>4 DEF verdict, recordVerdict, VerdictWritten, RoundClosed, PlanFlipped, VerdictFails,
                  Step, TypeOK
    <2>3. call'[c].step \in {"write", "close"} => call[c].step \in {"write", "close"} \/ ledger # None
      BY <1>4 DEF verdict, recordVerdict, VerdictWritten, RoundClosed, PlanFlipped, VerdictFails,
                  Step, TypeOK
    <2>4. InFlight
      BY <2>1, <2>2, <2>3
    <2>. QED
      BY <1>1, <1>2, <2>1, <2>4
  <1>5. ASSUME NEW n \in 1 .. MaxRound, handle(n) \/ TimeoutFails(n) PROVE Hosted'
    <2>1. UNCHANGED <<call, opening, request>>
      BY <1>5 DEF handle, TimerFires, checkTimeout, TurnsStale, TimeoutFails, OutsideTimeout,
                  verdicts, lifecycle
    <2>2. timer[n] # "none" /\ \A i \in 1 .. MaxRound : i = n \/ timer'[i] = timer[i]
      BY <1>5 DEF handle, TimerFires, checkTimeout, TurnsStale, TimeoutFails, Handler, TypeOK
    <2>3. InFlight
      BY <2>1, <2>2
    <2>. QED
      BY <1>1, <1>2, <2>1, <2>3
  <1>6. ASSUME NEW u \in Users, confirmPlan(u) PROVE Hosted'
    <2>1. UNCHANGED <<call, opening, timer>>
      BY <1>6 DEF confirmPlan, loadWritablePlan, findLedgerHost, transition, bumpLedgerVersion,
                  openNextRound, OutsidePlan, verdicts
    <2>2. InFlight
      BY <2>1
    <2>3. \E q : request' = [request EXCEPT ![u] = q]
      BY <1>6 DEF confirmPlan, loadWritablePlan, findLedgerHost, transition, bumpLedgerVersion,
                  openNextRound, Go
    <2>4. \A w \in Users : w = u \/ request'[w] = request[w]
      BY <2>3 DEF TypeOK
    <2>5. Asked(u)
      <3>1. ASSUME NEW act \in Actions, NEW waived \in BOOLEAN, loadWritablePlan(u, act, waived)
            PROVE  Asked(u)
        <4>1. request'[u].step \in {"read", "write"} /\ request'[u].round = 0
          BY <3>1 DEF loadWritablePlan, Go, TypeOK
        <4>. QED
          BY <4>1, RoundsAssumption
      <3>2. ASSUME findLedgerHost(u) PROVE Asked(u)
        <4>1. request[u] \in [step : {"read", "write", "raise"}, act : Actions,
                              freezes : BOOLEAN, round : 0 .. MaxRound, version : Nat]
          BY <3>2, RequestFacts DEF findLedgerHost
        <4>2. /\ request'[u].step = "write" /\ request'[u].act = request[u].act
              /\ request'[u].round = IF ledger # None /\ SendsBack(request[u].act) THEN ledger.round ELSE 0
          BY <3>2, <4>1 DEF findLedgerHost, Go, TypeOK
        <4>3. request'[u].act = "revise" => request'[u].round < MaxRound
          BY <3>2, <4>2, RoundsAssumption DEF findLedgerHost
        <4>. QED
          BY <1>0, <4>2, <4>3
      <3>3. ASSUME transition(u) PROVE Asked(u)
        <4>1. request[u] \in [step : {"read", "write", "raise"}, act : Actions,
                              freezes : BOOLEAN, round : 0 .. MaxRound, version : Nat]
          BY <3>3, RequestFacts DEF transition
        <4>2. \/ request'[u] = Idle
              \/ /\ request'[u].round = request[u].round /\ request'[u].act = request[u].act
                 /\ request[u].round > 0
          BY <3>3, <4>1 DEF transition, Go, TypeOK
        <4>. QED
          BY <1>0, <4>1, <4>2 DEF Hosted
      <3>4. ASSUME bumpLedgerVersion(u) \/ openNextRound(u) PROVE Asked(u)
        BY <3>4 DEF bumpLedgerVersion, openNextRound, Go, TypeOK
      <3>. QED
        BY <1>6, <3>1, <3>2, <3>3, <3>4 DEF confirmPlan
    <2>6. \A w \in Users : Asked(w)
      BY <1>0, <2>4, <2>5 DEF Hosted
    <2>. QED
      BY <1>1, <2>2, <2>6
  <1>7. CASE TimePasses \/ UNCHANGED vars
    <2>1. UNCHANGED <<call, opening, timer, request>>
      BY <1>7 DEF TimePasses, vars, review, verdicts, lifecycle
    <2>. QED
      BY <1>1, <1>2, <2>1
  <1>8. CASE Crash
    BY <1>0, <1>8 DEF Crash, Hosted, TypeOK
  <1>. QED
    BY <1>3, <1>4, <1>5, <1>6, <1>7, <1>8 DEF Next, UndisturbedNext
-----------------------------------------------------------------------------
(* What was counted, and what is complete.                                 *)

\* The parts of the invariant about verdicts.
Verdicts == CountedKept /\ ClosingConverged /\ CompleteIsConverged

\* A step that moves the ledger, counts nothing and lets nobody begin to close
\* a round keeps what was counted; a new round is noted by who is closing.
LEMMA CountedMoves ==
  ASSUME TypeOK, Hosted, CountedKept, ClosingConverged,
         UNCHANGED counted, Closing' => Closing,
         ledger # None => LedgerMoves(ledger, ledger'),
         overtaken => overtaken',
         Closing /\ ledger # None /\ ledger'.round > ledger.round => overtaken'
  PROVE  CountedKept' /\ ClosingConverged'
  <1>1. ASSUME NEW x \in counted
        PROVE  /\ ledger' # None /\ x[2] <= ledger'.round
               /\ x[2] = ledger'.round => ledger'.received[By[x[1]]] = x[1]
               /\ x[2] < ledger'.round => x[1] \in ledger'.archive
    <2>1. ledger # None /\ ledger \in Ledger /\ LedgerMoves(ledger, ledger')
      BY DEF CountedKept, TypeOK
    <2>2. ledger' # None
      BY <2>1, NoneAssumption DEF LedgerMoves
    <2>3. ledger.round \in Nat /\ ledger'.round \in Nat /\ x[2] \in Nat
      BY <2>1, RoundsAssumption DEF LedgerMoves, Ledger, TypeOK
    <2>4. x[1] \in Messages /\ By[x[1]] \in Members /\ x[1] # None
      BY RoundsAssumption DEF TypeOK
    <2>5. CASE ledger'.round = ledger.round
      BY <2>1, <2>2, <2>5 DEF CountedKept, LedgerMoves
    <2>6. CASE ledger'.round > ledger.round
      <3>1. ledger'.archive = ledger.archive \cup Received(ledger)
        BY <2>1, <2>6 DEF LedgerMoves
      <3>2. x[1] \in Received(ledger) \/ x[1] \in ledger.archive
        BY <2>3, <2>4 DEF CountedKept, Received
      <3>3. x[2] < ledger'.round
        BY <2>3, <2>6 DEF CountedKept
      <3>. QED
        BY <2>2, <2>3, <3>1, <3>2, <3>3
    <2>. QED
      BY <2>1, <2>3, <2>5, <2>6 DEF LedgerMoves
  <1>2. ASSUME Closing' PROVE isConverged(ledger') \/ overtaken'
    <2>1. Closing /\ ledger # None
      BY <1>2 DEF Closing, Hosted
    <2>2. ledger \in Ledger /\ LedgerMoves(ledger, ledger')
      BY <2>1 DEF TypeOK
    <2>3. ledger.round \in Nat /\ ledger'.round \in Nat
      BY <2>2, RoundsAssumption DEF LedgerMoves, Ledger
    <2>4. CASE ledger'.round > ledger.round
      BY <2>1, <2>4
    <2>5. CASE ledger'.round = ledger.round
      BY <2>1, <2>2, <2>5 DEF ClosingConverged, LedgerMoves, isConverged
    <2>. QED
      BY <2>2, <2>3, <2>4, <2>5 DEF LedgerMoves
  <1>. QED
    BY <1>1, <1>2 DEF CountedKept, ClosingConverged

\* Every step keeps what was counted, and closes a round only when it has all
\* its verdicts or was overtaken.
LEMMA VerdictsStep ==
  ASSUME TypeOK, Hosted, Verdicts, [Next]_vars
  PROVE  Verdicts'
  <1>0. ledger # None => ledger \in Ledger
    BY DEF TypeOK
  <1>1. CASE UNCHANGED <<ledger, counted, overtaken>> /\ (Closing' => Closing)
    <2>1. ledger # None => LedgerMoves(ledger, ledger') /\ ~(ledger'.round > ledger.round)
      <3>1. ledger # None => LedgerMoves(ledger, ledger)
        BY <1>0, StatusMoves
      <3>2. ledger # None => ~(ledger.round > ledger.round)
        BY <1>0, RoundsAssumption DEF Ledger
      <3>. QED
        BY <1>1, <3>1, <3>2
    <2>2. CountedKept' /\ ClosingConverged'
      BY <1>1, <2>1, CountedMoves DEF Verdicts
    <2>3. CompleteIsConverged'
      BY <1>1 DEF Verdicts, CompleteIsConverged
    <2>. QED
      BY <2>2, <2>3 DEF Verdicts
  <1>2. CASE openReviewRound \/ \E u \in Users : openNextRound(u)
    <2>1. UNCHANGED <<counted, call>>
      BY <1>2 DEF openReviewRound, openNextRound, OutsidePlan, verdicts
    <2>2. (Closing' => Closing) /\ (Opened(ledger') \/ UNCHANGED <<ledger, overtaken>>)
      BY <1>2, <2>1 DEF openReviewRound, openNextRound, Closing
    <2>3. ledger # None => LedgerMoves(ledger, ledger')
      BY <1>2, OpenMoves, NextRoundMoves
    <2>4. ledger # None => ledger.round \in Nat
      BY <1>0, RoundsAssumption DEF Ledger
    <2>5. /\ overtaken => overtaken'
          /\ Closing /\ ledger # None /\ ledger'.round > ledger.round => overtaken'
      <3>1. CASE Opened(ledger')
        BY <3>1 DEF Opened
      <3>2. CASE UNCHANGED <<ledger, overtaken>>
        BY <2>4, <3>2
      <3>. QED
        BY <2>2, <3>1, <3>2
    <2>6. CountedKept' /\ ClosingConverged'
      BY <2>1, <2>2, <2>3, <2>5, CountedMoves DEF Verdicts
    <2>7. ledger'.status = "collecting" \/ UNCHANGED <<ledger, overtaken>>
      <3>1. ASSUME NEW u \in Users, openNextRound(u)
            PROVE  ledger'.status = "collecting" \/ UNCHANGED <<ledger, overtaken>>
        <4>1. ledger # None
          BY <3>1 DEF openNextRound, Hosted
        <4>2. ledger' # ledger => ledger'.status = "collecting"
          BY <3>1, <4>1, NextRoundMoves
        <4>3. UNCHANGED ledger => UNCHANGED overtaken
          BY <2>2, <2>4, <4>1 DEF Opened, TypeOK
        <4>. QED
          BY <4>2, <4>3
      <3>. QED
        BY <1>2, <3>1, OpenMoves
    <2>8. CompleteIsConverged'
      BY <2>7 DEF Verdicts, CompleteIsConverged
    <2>. QED
      BY <2>6, <2>8 DEF Verdicts
  <1>3. CASE \E u \in Users : bumpLedgerVersion(u)
    <2>1. ledger # None
      BY <1>3 DEF bumpLedgerVersion, Hosted
    <2>2. UNCHANGED <<counted, call, overtaken>> /\ (Closing' => Closing)
      BY <1>3 DEF bumpLedgerVersion, OutsidePlan, verdicts, Closing
    <2>3. /\ LedgerMoves(ledger, ledger') /\ ledger'.status = ledger.status
          /\ ledger'.round = ledger.round /\ ~(ledger'.round > ledger.round)
      <3>1. LedgerMoves(ledger, ledger') /\ ledger'.status = ledger.status /\ ledger'.round = ledger.round
        BY <1>3, <2>1, BumpMoves
      <3>. QED
        BY <1>0, <2>1, <3>1, RoundsAssumption DEF Ledger
    <2>4. CountedKept' /\ ClosingConverged'
      BY <2>2, <2>3, CountedMoves DEF Verdicts
    <2>5. CompleteIsConverged'
      BY <2>1, <2>2, <2>3 DEF Verdicts, CompleteIsConverged, LedgerMoves
    <2>. QED
      BY <2>4, <2>5 DEF Verdicts
  <1>4. CASE \/ \E c \in Calls : RoundClosed(c)
             \/ \E n \in 1 .. MaxRound : TurnsStale(n)
    <2>1. /\ ledger # None /\ LedgerMoves(ledger, ledger')
          /\ ledger'.status \in {"complete", "stale"}
          /\ ledger'.round = ledger.round /\ ledger'.received = ledger.received
      BY <1>4, EndMoves
    <2>2. ~(ledger'.round > ledger.round)
      BY <1>0, <2>1, RoundsAssumption DEF Ledger
    <2>3. UNCHANGED <<counted, overtaken>> /\ (Closing' => Closing)
      BY <1>4 DEF RoundClosed, Step, TurnsStale, OutsideTimeout, verdicts, Closing, TypeOK
    <2>4. CountedKept' /\ ClosingConverged'
      BY <2>1, <2>2, <2>3, CountedMoves DEF Verdicts
    <2>5. ledger'.status = "complete" => Closing
      BY <1>4, <2>1, <1>0, StatusFacts DEF RoundClosed, TurnsStale, Closing
    <2>6. CompleteIsConverged'
      BY <2>1, <2>3, <2>5 DEF Verdicts, ClosingConverged, CompleteIsConverged, isConverged
    <2>. QED
      BY <2>4, <2>6 DEF Verdicts
  <1>5. ASSUME NEW c \in Calls, VerdictWritten(c) PROVE Verdicts'
    <2>. DEFINE m == call[c].msg
    <2>1. /\ ledger # None /\ m \in Messages
          /\ ledger' \in Ledger /\ ledger'.status = ledger.status /\ ledger'.round = ledger.round
          /\ \/ ledger'.received = [ledger.received EXCEPT ![By[m]] = m] /\ ledger'.archive = ledger.archive
             \/ ledger'.received = ledger.received /\ ledger'.archive = ledger.archive \cup {m}
          /\ isConverged(ledger) => isConverged(ledger')
      BY <1>5, VerdictMoves
    <2>2. /\ counted' = IF ledger'.received[By[m]] # m THEN counted
                        ELSE {x \in counted : By[x[1]] # By[m] \/ x[2] # ledger'.round}
                               \cup {<<m, ledger'.round>>}
          /\ call' = [call EXCEPT ![c] = IF isConverged(ledger') /\ ledger'.status # "complete"
                                         THEN [step |-> "close"] ELSE Idle]
          /\ UNCHANGED overtaken
      BY <1>5 DEF VerdictWritten, Step
    <2>. HIDE DEF m
    <2>3. ASSUME NEW x \in counted'
          PROVE  /\ ledger' # None /\ x[2] <= ledger'.round
                 /\ x[2] = ledger'.round => ledger'.received[By[x[1]]] = x[1]
                 /\ x[2] < ledger'.round => x[1] \in ledger'.archive
      <3>1. ledger' # None /\ ledger'.round \in Nat
        BY <2>1, NoneAssumption, RoundsAssumption DEF Ledger
      <3>2. CASE x \in counted /\ (ledger'.received[By[m]] = m => By[x[1]] # By[m] \/ x[2] # ledger'.round)
        <4>1. x[1] \in Messages /\ By[x[1]] \in Members /\ By[m] \in Members
          BY <2>1, <3>2, RoundsAssumption DEF TypeOK
        <4>2. /\ x[2] <= ledger.round
              /\ x[2] = ledger.round => ledger.received[By[x[1]]] = x[1]
              /\ x[2] < ledger.round => x[1] \in ledger.archive
          BY <3>2 DEF Verdicts, CountedKept
        <4>3. ledger.received \in [Members -> Messages \cup {None}]
          BY <1>0, <2>1 DEF Ledger
        <4>4. ledger.archive \subseteq ledger'.archive
          BY <2>1
        <4>5. x[2] = ledger'.round => ledger'.received[By[x[1]]] = ledger.received[By[x[1]]]
          BY <2>1, <3>2, <4>1, <4>3
        <4>. QED
          BY <2>1, <3>1, <4>2, <4>4, <4>5
      <3>3. CASE x = <<m, ledger'.round>> /\ ledger'.received[By[m]] = m
        BY <3>1, <3>3
      <3>. QED
        BY <2>2, <3>2, <3>3
    <2>4. ASSUME Closing' PROVE isConverged(ledger') \/ overtaken'
      <3>1. CASE Closing
        BY <2>1, <2>2, <3>1 DEF Verdicts, ClosingConverged
      <3>2. CASE ~Closing
        <4>1. PICK d \in Calls : call'[d].step = "close"
          BY <2>4 DEF Closing
        <4>2. d = c
          BY <2>2, <3>2, <4>1 DEF Closing, TypeOK
        <4>. QED
          BY <2>2, <4>1, <4>2 DEF TypeOK
      <3>. QED
        BY <3>1, <3>2
    <2>5. CompleteIsConverged'
      BY <2>1, <2>2 DEF Verdicts, CompleteIsConverged, isConverged
    <2>. QED
      BY <2>3, <2>4, <2>5 DEF Verdicts, CountedKept, ClosingConverged
  <1>. QED
    <2>1. ASSUME dispatch \/ DispatchFails
          PROVE  openReviewRound \/ (UNCHANGED <<ledger, counted, overtaken>> /\ UNCHANGED call)
      BY <2>1 DEF dispatch, DispatchReads, scheduleReviewRoundTimeout, DispatchFails, verdicts
    <2>2. ASSUME NEW c \in Calls, verdict(c)
          PROVE  \/ VerdictWritten(c) \/ RoundClosed(c)
                 \/ UNCHANGED <<ledger, counted, overtaken>> /\ (Closing' => Closing)
      <3>1. ASSUME ~VerdictWritten(c), ~RoundClosed(c)
            PROVE  UNCHANGED <<ledger, counted, overtaken>>
        BY <2>2, <3>1 DEF verdict, recordVerdict, PlanFlipped, VerdictFails, review
      <3>2. ASSUME ~VerdictWritten(c), ~RoundClosed(c)
            PROVE  /\ \A d \in Calls : d = c \/ call'[d] = call[d]
                   /\ call'[c].step = "close" => call[c].step = "close"
        BY <2>2, <3>2 DEF verdict, recordVerdict, PlanFlipped, VerdictFails, Step, TypeOK
      <3>. QED
        BY <3>1, <3>2 DEF Closing
    <2>3. ASSUME NEW n \in 1 .. MaxRound, handle(n) \/ TimeoutFails(n)
          PROVE  TurnsStale(n) \/ (UNCHANGED <<ledger, counted, overtaken>> /\ UNCHANGED call)
      BY <2>3 DEF handle, TimerFires, checkTimeout, TimeoutFails, OutsideTimeout, verdicts
    <2>4. ASSUME NEW u \in Users, confirmPlan(u)
          PROVE  \/ bumpLedgerVersion(u) \/ openNextRound(u)
                 \/ UNCHANGED <<ledger, counted, overtaken>> /\ UNCHANGED call
      BY <2>4 DEF confirmPlan, loadWritablePlan, findLedgerHost, transition, OutsidePlan, verdicts
    <2>5. ASSUME TimePasses \/ UNCHANGED vars
          PROVE  UNCHANGED <<ledger, counted, overtaken>> /\ UNCHANGED call
      BY <2>5 DEF TimePasses, vars, review, verdicts
    <2>6. Crash => UNCHANGED <<ledger, counted, overtaken>> /\ (Closing' => Closing)
      BY DEF Crash, Closing
    <2>7. UNCHANGED call => (Closing' => Closing)
      BY DEF Closing
    <2>. QED
      BY <1>1, <1>2, <1>3, <1>4, <1>5, <2>1, <2>2, <2>3, <2>4, <2>5, <2>6, <2>7
      DEF Next, UndisturbedNext
-----------------------------------------------------------------------------
(* The frozen version.                                                     *)

\* Every step into a final state freezes a version or finds one frozen, and
\* none is ever taken away.
LEMMA FrozenStep ==
  ASSUME TypeOK, FrozenKept, FrozenWhenFinal, [Next]_vars
  PROVE  FrozenKept' /\ FrozenWhenFinal'
  <1>1. CASE UNCHANGED <<plan, frozen>> /\ \A u \in Users : request'[u] \in {request[u], Idle}
    BY <1>1 DEF FrozenKept, FrozenWhenFinal
  <1>2. CASE dispatch \/ DispatchFails \/ TimePasses \/ UNCHANGED vars
             \/ \E n \in 1 .. MaxRound : handle(n) \/ TimeoutFails(n)
    <2>1. UNCHANGED lifecycle
      BY <1>2 DEF dispatch, DispatchReads, openReviewRound, scheduleReviewRoundTimeout, DispatchFails,
                  handle, TimerFires, checkTimeout, TurnsStale, TimeoutFails, OutsideTimeout,
                  TimePasses, vars
    <2>. QED
      BY <1>1, <2>1 DEF lifecycle
  <1>3. CASE Crash
    BY <1>1, <1>3 DEF Crash
  <1>4. ASSUME NEW c \in Calls, verdict(c) PROVE FrozenKept' /\ FrozenWhenFinal'
    <2>1. UNCHANGED <<frozen, request>>
      BY <1>4 DEF verdict, recordVerdict, VerdictWritten, RoundClosed, PlanFlipped, VerdictFails, lifecycle
    <2>2. UNCHANGED plan \/ plan' \in {"pending_final", "draft"}
      BY <1>4, CallFacts
      DEF verdict, recordVerdict, VerdictWritten, RoundClosed, PlanFlipped, VerdictFails, lifecycle
    <2>. QED
      BY <2>1, <2>2 DEF FrozenKept, FrozenWhenFinal
  <1>5. ASSUME NEW u \in Users, confirmPlan(u) PROVE FrozenKept' /\ FrozenWhenFinal'
    <2>1. ASSUME NEW act \in Actions, NEW waived \in BOOLEAN, loadWritablePlan(u, act, waived)
          PROVE  FrozenKept' /\ FrozenWhenFinal'
      <3>1. /\ UNCHANGED <<plan, frozen>> /\ plan \in Admits(act, waived)
            /\ \A w \in Users \ {u} : request'[w] = request[w]
            /\ request'[u].act = act /\ request'[u].freezes = Freezes(act, plan)
        BY <2>1 DEF loadWritablePlan, Go, TypeOK
      <3>2. act = "finalize" => Freezes(act, plan)
        BY DEF Freezes
      <3>3. act \in {"confirm", "complete"} /\ ~Freezes(act, plan) => frozen # None
        <4>1. act = "confirm" /\ ~Freezes(act, plan) => plan = "approved"
          BY DEF Freezes
        <4>2. act = "complete" => plan = "executing"
          BY <3>1 DEF Admits
        <4>. QED
          BY <4>1, <4>2 DEF FrozenWhenFinal
      <3>. QED
        BY <3>1, <3>2, <3>3 DEF FrozenKept, FrozenWhenFinal
    <2>2. ASSUME findLedgerHost(u) PROVE FrozenKept' /\ FrozenWhenFinal'
      <3>1. request[u] \in [step : {"read", "write", "raise"}, act : Actions,
                            freezes : BOOLEAN, round : 0 .. MaxRound, version : Nat]
        BY <2>2, RequestFacts DEF findLedgerHost
      <3>2. /\ UNCHANGED <<plan, frozen>> /\ request[u] # Idle
            /\ \A w \in Users \ {u} : request'[w] = request[w]
            /\ request'[u].act = request[u].act /\ request'[u].freezes = request[u].freezes
        BY <2>2, <3>1 DEF findLedgerHost, Go, TypeOK
      <3>. QED
        BY <3>2 DEF FrozenKept, FrozenWhenFinal
    <2>3. ASSUME transition(u) PROVE FrozenKept' /\ FrozenWhenFinal'
      <3>1. request[u] \in [step : {"read", "write", "raise"}, act : Actions,
                            freezes : BOOLEAN, round : 0 .. MaxRound, version : Nat]
        BY <2>3, RequestFacts DEF transition
      <3>2. /\ plan' = Target(request[u].act) /\ request[u] # Idle
            /\ frozen' = IF request[u].freezes THEN request[u].version ELSE frozen
        BY <2>3 DEF transition
      <3>3. /\ \A w \in Users \ {u} : request'[w] = request[w]
            /\ \/ request'[u] = Idle
               \/ request'[u].act = request[u].act /\ request'[u].freezes = request[u].freezes
        BY <2>3, <3>1 DEF transition, Go, TypeOK
      <3>4. frozen # None \/ request[u].freezes => frozen' # None
        BY <3>1, <3>2, RoundsAssumption
      <3>5. FrozenKept'
        BY <3>2, <3>3, <3>4 DEF FrozenKept
      <3>6. plan' \in {"approved", "executing", "completed"} => frozen' # None
        <4>1. plan' \in {"approved", "executing", "completed"} =>
                request[u].act \in {"finalize", "confirm", "complete"}
          BY <3>1, <3>2 DEF Target
        <4>. QED
          BY <3>2, <3>4, <4>1 DEF FrozenKept
      <3>. QED
        BY <3>5, <3>6 DEF FrozenWhenFinal
    <2>4. ASSUME bumpLedgerVersion(u) \/ openNextRound(u) PROVE FrozenKept' /\ FrozenWhenFinal'
      BY <1>1, <2>4 DEF bumpLedgerVersion, openNextRound, Go, TypeOK
    <2>. QED
      BY <1>5, <2>1, <2>2, <2>3, <2>4 DEF confirmPlan
  <1>. QED
    BY <1>2, <1>3, <1>4, <1>5 DEF Next, UndisturbedNext

-----------------------------------------------------------------------------
(* The theorems.                                                           *)

\* The inductive invariant of the review holds in every reachable state: it
\* adds to the properties what a handler in flight may rely on.
THEOREM ReviewInvariant == Spec => []IInv
  <1>1. Init => IInv
    <2>. SUFFICES ASSUME Init PROVE IInv
      OBVIOUS
    <2>1. TypeOK
      <3>1. /\ timer \in [1 .. MaxRound -> {"none", "armed", "check", "stale", "over", "lost"}]
            /\ wait \in [1 .. MaxRound -> 0 .. Timeout] /\ left \in 0 .. Timeout
            /\ kept \in 0 .. MaxRound
        BY RoundsAssumption DEF Init
      <3>2. /\ call \in [Calls -> {Idle} \cup [step : {"write"}, msg : Messages, version : Versions]
                                 \cup [step : {"close"}]
                                 \cup [step : {"flip"}, to : {"pending_final", "draft"}]]
            /\ request \in [Users -> {Idle} \cup [step : {"read", "write", "raise"}, act : Actions,
                                freezes : BOOLEAN, round : 0 .. MaxRound, version : Nat]]
        BY DEF Init
      <3>3. overtaken \in BOOLEAN
        BY DEF Init
      <3>. QED
        BY <3>1, <3>2, <3>3 DEF Init, TypeOK
    <2>2. Hosted
      BY DEF Init, Hosted
    <2>3. CountedKept /\ ClosingConverged /\ CompleteIsConverged
      BY DEF Init, CountedKept, ClosingConverged, CompleteIsConverged, Closing
    <2>4. FrozenKept /\ FrozenWhenFinal
      BY DEF Init, FrozenKept, FrozenWhenFinal
    <2>. QED
      BY <2>1, <2>2, <2>3, <2>4 DEF IInv
  <1>2. IInv /\ [Next]_vars => IInv'
    <2>. SUFFICES ASSUME IInv, [Next]_vars PROVE IInv'
      OBVIOUS
    <2>1. TypeOK' /\ Hosted'
      BY TypeStep, HostedStep DEF IInv
    <2>2. CountedKept' /\ ClosingConverged' /\ CompleteIsConverged'
      BY VerdictsStep DEF IInv, Verdicts
    <2>3. FrozenKept' /\ FrozenWhenFinal'
      BY FrozenStep DEF IInv
    <2>. QED
      BY <2>1, <2>2, <2>3 DEF IInv
  <1>. QED
    BY <1>1, <1>2, PTL DEF Spec

\* Every variable of the review keeps its type, through dispatches, verdicts,
\* the time-out, the plan's requests and restarts.
THEOREM ReviewTypeCorrect == Spec => []TypeOK
  <1>1. IInv => TypeOK
    BY DEF IInv
  <1>. QED
    BY <1>1, ReviewInvariant, PTL

\* However verdicts, dispatches and revisions interleave, a verdict that was
\* counted stays in the ledger until its reviewer votes again in that round.
THEOREM CountedIsKept == Spec => []NoVerdictLost
  <1>1. IInv => NoVerdictLost
    <2>. SUFFICES ASSUME IInv, NEW x \in counted
                  PROVE  x[1] \in ledger.archive \cup Received(ledger)
      BY DEF NoVerdictLost
    <2>1. x[1] \in Messages /\ x[2] \in Nat /\ By[x[1]] \in Members /\ x[1] # None
      BY RoundsAssumption DEF IInv, TypeOK
    <2>2. ledger.round \in Nat
      BY RoundsAssumption DEF IInv, CountedKept, TypeOK, Ledger
    <2>. QED
      BY <2>1, <2>2 DEF IInv, CountedKept, Received
  <1>. QED
    BY <1>1, ReviewInvariant, PTL

\* A complete round has the verdict of every expected reviewer, unless a new
\* round was opened between its last verdict and its closing.
THEOREM CompleteHasAllVerdicts == Spec => []CompleteIsConverged
  <1>1. IInv => CompleteIsConverged
    BY DEF IInv
  <1>. QED
    BY <1>1, ReviewInvariant, PTL

\* By whichever way, a plan is approved, executed or completed only with a
\* frozen version.
THEOREM FinalIsFrozen == Spec => []FrozenWhenFinal
  <1>1. IInv => FrozenWhenFinal
    BY DEF IInv
  <1>. QED
    BY <1>1, ReviewInvariant, PTL

\* No write of the ledger, on however old a reading, takes round or version
\* back, in the order in which the code compares versions.
THEOREM LedgerOnlyAdvances == Spec => RoundAdvances
  <1>1. IInv /\ [Next]_vars =>
          [ledger # None => /\ ledger' # None
                            /\ ledger'.round >= ledger.round
                            /\ ~Lower(ledger'.version, ledger.version)]_vars
    BY LedgerStep, NoneAssumption DEF IInv
  <1>. QED
    BY <1>1, ReviewInvariant, PTL DEF Spec, RoundAdvances
=============================================================================
