------------------------ MODULE TaskLifecycle_proofs ------------------------
(***************************************************************************)
(* Theorems about TaskLifecycle, for any number of tasks, requests and     *)
(* watchdogs, any limit and any bound on versions.                         *)
(***************************************************************************)
EXTENDS TaskLifecycle, FiniteSetTheorems, TLAPS

-----------------------------------------------------------------------------
(* What the steps do.                                                      *)

\* The record of a caller without a request has its type.
LEMMA IdleCall == NoCall \in Call
<1>1. (CHOOSE t \in Tasks : TRUE) \in Tasks
  BY TaskAssumption
<1>2. "start" \in Actions
  BY DEF Actions, From
<1> QED
  BY <1>1, <1>2 DEF NoCall, Call

\* The table of transitions, entry by entry.
LEMMA Table ==
  /\ Actions = {"start", "submit", "accept", "reject", "archive", "block", "resume"}
  /\ \A a \in Actions : From[a] \in TASK_STATUS /\ To[a] \in TASK_STATUS
  BY DEF Actions, From, To, TASK_STATUS

\* The statements that write a row of the table of tasks; every other step
\* leaves the rows alone.
RowsStep ==
  \/ \E t \in Tasks : Create(t)
  \/ \E c \in Callers : Commit(c) \/ RemoveCommits(c)
  \/ UNCHANGED rows

\* Every step writes the row of one task, in one of three ways, or none.
LEMMA FourKinds == Next => RowsStep
<1> SUFFICES ASSUME Next PROVE RowsStep
  OBVIOUS
<1>1. CASE \E t \in Tasks : Create(t)
  BY <1>1 DEF RowsStep
<1>2. CASE \E c \in Users : UserStep(c)
  <2>1. PICK c \in Users : UserStep(c)
    BY <1>2
  <2>2. c \in Callers
    BY DEF Callers
  <2>3. CASE \E t \in Tasks, a \in Actions : Request(c, t, a)
    BY <2>3 DEF Request, Reads, RowsStep
  <2>4. CASE \E t \in Tasks : RemoveReads(c, t)
    BY <2>4 DEF RemoveReads, RowsStep
  <2>5. CASE RemoveCommits(c)
    BY <2>2, <2>5 DEF RowsStep
  <2> QED
    BY <2>1, <2>3, <2>4, <2>5 DEF UserStep
<1>3. CASE \E w \in Watchdogs : SystemBlock(w) \/ \E t \in Tasks : AskBlock(w, t)
  BY <1>3 DEF SystemBlock, AskBlock, Reads, RowsStep
<1>4. CASE \E c \in Callers : CallStep(c)
  BY <1>4 DEF CallStep, Preflight, CommitRefused, Return, CallFails, RowsStep
<1>5. CASE Crash
  BY <1>5 DEF Crash, RowsStep
<1> QED
  BY <1>1, <1>2, <1>3, <1>4, <1>5 DEF Next

-----------------------------------------------------------------------------
(* Types.                                                                  *)

\* The types hold at first.
LEMMA InitTypes == Init => TypeOK
  BY IdleCall DEF Init, TypeOK, TASK_STATUS

\* What a request has read and where it is keep their types.
LEMMA CallTypes == ASSUME TypeOK, Next PROVE call' \in [Callers -> Call]
<1> USE IdleCall DEF TypeOK, Call
<1>1. CASE \E t \in Tasks : Create(t)
  BY <1>1 DEF Create
<1>2. ASSUME NEW c \in Callers, NEW t \in Tasks, NEW a \in Actions, Reads(c, t, a)
      PROVE  call' \in [Callers -> Call]
  BY <1>2 DEF Reads
<1>3. ASSUME NEW c \in Callers, NEW p \in {"idle", "asked", "preflight", "commit", "after", "remove"},
             Goto(c, p)
      PROVE  call' \in [Callers -> Call]
  BY <1>3 DEF Goto
<1>4. ASSUME NEW c \in Callers, Ends(c) PROVE call' \in [Callers -> Call]
  BY <1>4 DEF Ends
<1>5. ASSUME NEW c \in Callers, NEW t \in Tasks, NEW p \in {"asked", "remove"},
             call' = [call EXCEPT ![c].phase = p, ![c].task = t]
      PROVE  call' \in [Callers -> Call]
  <2>1. call[c] \in Call
    OBVIOUS
  <2>2. call' = [[call EXCEPT ![c].phase = p] EXCEPT ![c].task = t]
    BY <1>5
  <2>3. [call EXCEPT ![c].phase = p] \in [Callers -> Call]
    BY <2>1
  <2> QED
    BY <2>2, <2>3
<1>6. CASE \E c \in Users : UserStep(c)
  <2>1. PICK c \in Users : UserStep(c)
    BY <1>6
  <2>2. c \in Callers
    BY DEF Callers
  <2>3. CASE \E t \in Tasks, a \in Actions : Request(c, t, a)
    BY <1>2, <2>2, <2>3 DEF Request
  <2>4. CASE \E t \in Tasks : RemoveReads(c, t)
    <3>1. PICK t \in Tasks : RemoveReads(c, t)
      BY <2>4
    <3>2. call' = [call EXCEPT ![c].phase = "remove", ![c].task = t]
      BY <3>1 DEF RemoveReads
    <3> QED
      BY <1>5, <2>2, <3>2
  <2>5. CASE RemoveCommits(c)
    BY <1>4, <2>2, <2>5 DEF RemoveCommits
  <2> QED
    BY <2>1, <2>3, <2>4, <2>5 DEF UserStep
<1>7. CASE \E w \in Watchdogs : SystemBlock(w) \/ \E t \in Tasks : AskBlock(w, t)
  <2>1. PICK w \in Watchdogs : SystemBlock(w) \/ \E t \in Tasks : AskBlock(w, t)
    BY <1>7
  <2>2. w \in Callers /\ call[w].task \in Tasks /\ "block" \in Actions
    BY Table DEF Callers
  <2>3. CASE SystemBlock(w)
    BY <1>2, <1>4, <2>2, <2>3 DEF SystemBlock
  <2>4. CASE \E t \in Tasks : AskBlock(w, t)
    BY <1>5, <2>2, <2>4 DEF AskBlock
  <2> QED
    BY <2>1, <2>3, <2>4
<1>8. CASE \E c \in Callers : CallStep(c)
  <2>1. PICK c \in Callers : CallStep(c)
    BY <1>8
  <2>2. Goto(c, "commit") \/ Goto(c, "after") \/ Ends(c)
    BY <2>1 DEF CallStep, Preflight, Commit, CommitRefused, Return, CallFails
  <2> QED
    BY <1>3, <1>4, <2>2
<1>9. CASE Crash
  BY <1>9 DEF Crash
<1> QED
  BY <1>1, <1>6, <1>7, <1>8, <1>9 DEF Next

\* So do the rows, whichever of the three ways writes them.
LEMMA RowTypes ==
  ASSUME TypeOK, RowsStep
  PROVE  /\ status' \in [Tasks -> TASK_STATUS] /\ version' \in [Tasks -> Nat]
         /\ submitted' \in [Tasks -> Nat] /\ readmitted' \in SUBSET Tasks
<1>1. CASE \E t \in Tasks : Create(t)
  BY <1>1 DEF Create, TypeOK, TASK_STATUS
<1>2. ASSUME NEW c \in Callers, Commit(c)
      PROVE  /\ status' \in [Tasks -> TASK_STATUS] /\ version' \in [Tasks -> Nat]
             /\ submitted' \in [Tasks -> Nat] /\ readmitted' \in SUBSET Tasks
  <2>1. call[c].task \in Tasks /\ call[c].action \in Actions
    BY DEF TypeOK, Call
  <2>2. To[call[c].action] \in TASK_STATUS
    BY <2>1, Table
  <2> QED
    BY <1>2, <2>1, <2>2 DEF Commit, TypeOK
<1>3. ASSUME NEW c \in Callers, RemoveCommits(c)
      PROVE  /\ status' \in [Tasks -> TASK_STATUS] /\ version' \in [Tasks -> Nat]
             /\ submitted' \in [Tasks -> Nat] /\ readmitted' \in SUBSET Tasks
  BY <1>3 DEF RemoveCommits, TypeOK, TASK_STATUS
<1>4. CASE UNCHANGED rows
  BY <1>4 DEF rows, TypeOK
<1> QED
  BY <1>1, <1>2, <1>3, <1>4 DEF RowsStep

\* So every step keeps the types.
LEMMA TypesStep == TypeOK /\ [Next]_vars => TypeOK'
<1>1. ASSUME TypeOK, Next PROVE TypeOK'
  BY <1>1, CallTypes, FourKinds, RowTypes DEF TypeOK
<1>2. ASSUME TypeOK, UNCHANGED vars PROVE TypeOK'
  BY <1>2 DEF TypeOK, vars
<1> QED
  BY <1>1, <1>2

\* Requests, handlers and restarts keep every variable in its type.
THEOREM TaskTypeCorrect == Spec => []TypeOK
  BY InitTypes, TypesStep, PTL DEF Spec

-----------------------------------------------------------------------------
(* The start slots.                                                        *)

Admitted == Occupying \ readmitted

\* There are finitely many tasks to count.
LEMMA FiniteTasks == Occupying \in SUBSET Tasks /\ IsFiniteSet(Occupying)
  BY TaskAssumption, FS_Subset DEF Occupying

\* No task occupies a slot at first.
LEMMA InitLimit == Init => AdmittedWithinLimit
<1> SUFFICES ASSUME Init PROVE AdmittedWithinLimit
  OBVIOUS
<1>1. Occupying \ readmitted = {}
  BY DEF Init, Occupying
<1> QED
  BY <1>1, FS_EmptySet, TaskAssumption DEF AdmittedWithinLimit

\* Only a start adds to what counts, and it has looked at all of it.
LEMMA AdmittedGrows ==
  ASSUME TypeOK, RowsStep
  PROVE  \/ Admitted' \subseteq Admitted
         \/ /\ Cardinality(Occupying) < MaxConcurrent
            /\ \E t \in Tasks : Admitted' \subseteq Occupying \cup {t}
<1>1. CASE \E t \in Tasks : Create(t)
  BY <1>1 DEF Create, Admitted, Occupying, TypeOK
<1>2. ASSUME NEW c \in Callers, Commit(c)
      PROVE  \/ Admitted' \subseteq Admitted
             \/ /\ Cardinality(Occupying) < MaxConcurrent
                /\ \E t \in Tasks : Admitted' \subseteq Occupying \cup {t}
  <2> DEFINE t == call[c].task  a == call[c].action
  <2>1. t \in Tasks /\ a \in Actions
    BY DEF TypeOK, Call
  <2>2. /\ status[t] = From[a] /\ status' = [status EXCEPT ![t] = To[a]]
        /\ readmitted' = CASE a = "reject" -> readmitted \cup {t}
                           [] a = "submit" -> readmitted \ {t}
                           [] OTHER -> readmitted
        /\ a = "start" => Cardinality(Occupying) < MaxConcurrent
    BY <1>2 DEF Commit, Unchanged, SlotFree
  <2>3. \A u \in Tasks : u # t => status'[u] = status[u]
    BY <2>1, <2>2 DEF TypeOK
  <2>4. status'[t] = To[a]
    BY <2>1, <2>2 DEF TypeOK
  <2> HIDE DEF t, a
  <2>5. CASE a = "start"
    <3>1. Admitted' \subseteq Occupying \cup {t}
      BY <2>3 DEF Admitted, Occupying
    <3> QED
      BY <2>1, <2>2, <2>5, <3>1
  <2>6. CASE a = "reject"
    BY <2>1, <2>2, <2>3, <2>6 DEF Admitted, Occupying
  <2>7. CASE a = "submit"
    BY <2>1, <2>2, <2>3, <2>4, <2>7 DEF Admitted, Occupying, To
  <2>8. CASE a \in {"accept", "archive"}
    BY <2>1, <2>2, <2>3, <2>4, <2>8 DEF Admitted, Occupying, To
  <2>9. CASE a \in {"block", "resume"}
    BY <2>1, <2>2, <2>3, <2>4, <2>9 DEF Admitted, Occupying, To, From
  <2> QED
    BY <2>1, <2>5, <2>6, <2>7, <2>8, <2>9, Table
<1>3. ASSUME NEW c \in Callers, RemoveCommits(c) PROVE Admitted' \subseteq Admitted
  BY <1>3 DEF RemoveCommits, Admitted, Occupying, TypeOK, Call
<1>4. CASE UNCHANGED rows
  BY <1>4 DEF rows, Admitted, Occupying
<1> QED
  BY <1>1, <1>2, <1>3, <1>4 DEF RowsStep

\* A start counts what occupies a slot under the lock, and nothing else admits a task.
LEMMA LimitStep == TypeOK /\ AdmittedWithinLimit /\ [Next]_vars => AdmittedWithinLimit'
<1> SUFFICES ASSUME TypeOK, AdmittedWithinLimit, [Next]_vars PROVE AdmittedWithinLimit'
  OBVIOUS
<1>1. RowsStep
  BY FourKinds DEF vars, rows, RowsStep
<1>2. IsFiniteSet(Admitted) /\ Cardinality(Admitted) \in Nat
  BY FiniteTasks, FS_Subset, FS_CardinalityType DEF Admitted
<1>3. CASE Admitted' \subseteq Admitted
  <2>1. Cardinality(Admitted') <= Cardinality(Admitted) /\ Cardinality(Admitted') \in Nat
    BY <1>2, <1>3, FS_Subset, FS_CardinalityType
  <2> QED
    BY <1>2, <2>1, TaskAssumption DEF AdmittedWithinLimit, Admitted
<1>4. CASE /\ Cardinality(Occupying) < MaxConcurrent
           /\ \E t \in Tasks : Admitted' \subseteq Occupying \cup {t}
  <2>1. PICK t \in Tasks : Admitted' \subseteq Occupying \cup {t}
    BY <1>4
  <2>2. IsFiniteSet(Occupying \cup {t}) /\ Cardinality(Occupying \cup {t}) <= Cardinality(Occupying) + 1
        /\ Cardinality(Occupying) \in Nat
    BY FiniteTasks, FS_AddElement, FS_CardinalityType
  <2>3. Cardinality(Admitted') <= Cardinality(Occupying \cup {t})
        /\ Cardinality(Admitted') \in Nat /\ Cardinality(Occupying \cup {t}) \in Nat
    BY <2>1, <2>2, FS_Subset, FS_CardinalityType
  <2> QED
    BY <1>4, <2>2, <2>3, TaskAssumption DEF AdmittedWithinLimit, Admitted
<1> QED
  BY <1>1, <1>3, <1>4, AdmittedGrows

\* However many starts, blocks, resumes and watchdogs overlap, what was
\* not sent back by a rejection stays within the limit of the team.
THEOREM StartsStayWithinLimit == Spec => []AdmittedWithinLimit
<1>1. Init => TypeOK /\ AdmittedWithinLimit
  BY InitTypes, InitLimit
<1>2. (TypeOK /\ AdmittedWithinLimit) /\ [Next]_vars => (TypeOK /\ AdmittedWithinLimit)'
  BY TypesStep, LimitStep
<1> QED
  BY <1>1, <1>2, PTL DEF Spec

-----------------------------------------------------------------------------
(* The gate of an accept.                                                  *)

\* A submission is older than the row, so a request that read the row's present
\* version has read its latest submission.
SubmittedBefore == \A t \in Tasks : submitted[t] <= version[t]

\* Nothing has been submitted at first.
LEMMA InitSubmitted == Init => SubmittedBefore
  BY DEF Init, SubmittedBefore

\* A submission gets the version its row has from then on, and versions only rise.
LEMMA SubmittedStep == TypeOK /\ SubmittedBefore /\ [Next]_vars => SubmittedBefore'
<1> SUFFICES ASSUME TypeOK, SubmittedBefore, [Next]_vars PROVE SubmittedBefore'
  OBVIOUS
<1>1. RowsStep
  BY FourKinds DEF vars, rows, RowsStep
<1>2. CASE UNCHANGED <<version, submitted>>
  BY <1>2 DEF SubmittedBefore
<1>3. ASSUME NEW c \in Callers, Commit(c) PROVE SubmittedBefore'
  BY <1>3 DEF Commit, SubmittedBefore, TypeOK, Call
<1> QED
  BY <1>1, <1>2, <1>3 DEF RowsStep, Create, RemoveCommits, rows

\* Only a commit completes a task, of a request that read it at its version.
LEMMA AcceptStep ==
  ASSUME TypeOK, SubmittedBefore, [Next]_vars, NEW t \in Tasks,
         status[t] # "completed", status'[t] = "completed"
  PROVE  \E c \in Callers : /\ call[c].phase = "commit" /\ call[c].task = t
                            /\ call'[c].phase = "after"
                            /\ call[c].version >= submitted[t]
<1>1. RowsStep
  BY FourKinds DEF vars, rows, RowsStep
<1>2. ~ \E u \in Tasks : Create(u)
  BY DEF Create, TypeOK
<1>3. ~ \E c \in Callers : RemoveCommits(c)
  BY DEF RemoveCommits, TypeOK, Call
<1>4. ~ UNCHANGED rows
  BY DEF rows
<1>5. PICK c \in Callers : Commit(c)
  BY <1>1, <1>2, <1>3, <1>4 DEF RowsStep
<1>6. call[c].phase = "commit" /\ call[c].task = t
  BY <1>5 DEF Commit, TypeOK, Call
<1>7. call'[c].phase = "after"
  BY <1>5 DEF Commit, Goto, TypeOK
<1>8. call[c].version = version[t]
  BY <1>5, <1>6 DEF Commit, Unchanged
<1> QED
  BY <1>6, <1>7, <1>8 DEF SubmittedBefore, TypeOK

\* A task becomes completed only by an accept that read it, and ran its gate,
\* after it was last submitted.
THEOREM AcceptJudgesTheLatest == Spec => AcceptJudgesThisSubmission
<1>1. Init => TypeOK /\ SubmittedBefore
  BY InitTypes, InitSubmitted
<1>2. (TypeOK /\ SubmittedBefore) /\ [Next]_vars => (TypeOK /\ SubmittedBefore)'
  BY TypesStep, SubmittedStep
<1>3. (TypeOK /\ SubmittedBefore) /\ [Next]_vars =>
        [\A t \in Tasks :
           status[t] # "completed" /\ status'[t] = "completed" =>
             \E c \in Callers : /\ call[c].phase = "commit" /\ call[c].task = t
                                /\ call'[c].phase = "after"
                                /\ call[c].version >= submitted[t]]_vars
  BY AcceptStep
<1> QED
  BY <1>1, <1>2, <1>3, PTL DEF Spec, AcceptJudgesThisSubmission

-----------------------------------------------------------------------------
(* The table of transitions.                                               *)

\* A task changes its status along the table, or is created or deleted.
LEMMA TableStep ==
  ASSUME TypeOK, [Next]_vars, NEW t \in Tasks, status'[t] # status[t]
  PROVE  \/ status[t] = "absent" \/ status'[t] = "deleted"
         \/ \E a \in Actions : status[t] = From[a] /\ status'[t] = To[a]
<1>1. RowsStep
  BY FourKinds DEF vars, rows, RowsStep
<1>2. CASE \E u \in Tasks : Create(u)
  BY <1>2 DEF Create, TypeOK
<1>3. ASSUME NEW c \in Callers, Commit(c)
      PROVE  \E a \in Actions : status[t] = From[a] /\ status'[t] = To[a]
  <2>1. call[c].task = t /\ call[c].action \in Actions
    BY <1>3 DEF Commit, TypeOK, Call
  <2>2. status[t] = From[call[c].action] /\ status'[t] = To[call[c].action]
    BY <1>3, <2>1 DEF Commit, Unchanged, TypeOK
  <2> QED
    BY <2>1, <2>2
<1>4. CASE \E c \in Callers : RemoveCommits(c)
  BY <1>4 DEF RemoveCommits, TypeOK, Call
<1>5. CASE UNCHANGED rows
  BY <1>5 DEF rows
<1> QED
  BY <1>1, <1>2, <1>3, <1>4, <1>5 DEF RowsStep

\* Requests that overlap move a task along TASK_TRANSITIONS only.
THEOREM TableIsFollowed == Spec => FollowsTheTable
<1>1. TypeOK /\ [Next]_vars =>
        [\A t \in Tasks :
           status'[t] # status[t] =>
             \/ status[t] = "absent" \/ status'[t] = "deleted"
             \/ \E a \in Actions : status[t] = From[a] /\ status'[t] = To[a]]_vars
  BY TableStep
<1> QED
  BY <1>1, TaskTypeCorrect, PTL DEF Spec, FollowsTheTable
=============================================================================
