-------------------------- MODULE TaskStoreProofs --------------------------
(***************************************************************************)
(* Machine-checked safety of the task store, for every finite set of       *)
(* agents and messages and every bound on claims.                          *)
(***************************************************************************)
EXTENDS TaskStore, FiniteSetTheorems, TLAPS

(* Row ids are naturals: they count rows of finite tables.                 *)
LEMMA RowidsAreNat == NextRowid \in Nat /\ NextMessageRowid \in Nat
<1>1. Cardinality({b \in Agents : task[b].phase # "ABSENT"}) \in Nat
  BY StoreAssumption, FS_Subset, FS_CardinalityType
<1>2. Cardinality({m \in Messages : msg[m].state # "ABSENT"}) \in Nat
  BY StoreAssumption, FS_Subset, FS_CardinalityType
<1> QED BY <1>1, <1>2 DEF NextRowid, NextMessageRowid

(* Epochs are naturals.                                                    *)
LEMMA EpochsAreNat == \A e \in 1..MaxEpoch : e \in Nat
BY StoreAssumption

(* The ledger takes any phase and epoch.                                   *)
LEMMA RecordType ==
  ASSUME TypeOK, NEW a \in Agents, NEW p \in Phases, NEW e \in Nat, Record(a, p, e)
  PROVE  ledger' \in [Agents -> [to : Phases \cup {"ABSENT"}, epoch : Nat]]
BY DEF TypeOK, Record

(* The updates of a message row and of a request row.                      *)
LEMMA CommandRowUpdates ==
  /\ \A r \in MessageRow, s \in {"SENDING", "DELIVERED", "FAILED"} :
       [r EXCEPT !.state = s] \in MessageRow
  /\ \A r \in RequestRow, s \in {"PENDING", "SENDING", "RESPONDED"} :
       [r EXCEPT !.state = s] \in RequestRow
<1>1. ASSUME NEW r \in MessageRow, NEW s \in {"SENDING", "DELIVERED", "FAILED"}
      PROVE  [r EXCEPT !.state = s] \in MessageRow
  BY DEF MessageRow
<1>2. ASSUME NEW r \in RequestRow, NEW s \in {"PENDING", "SENDING", "RESPONDED"}
      PROVE  [r EXCEPT !.state = s] \in RequestRow
  BY DEF RequestRow
<1> QED BY <1>1, <1>2

(* What a settled command table is: rows of the same type.                 *)
LEMMA SettleType ==
  ASSUME TypeOK, NEW a \in Agents, SettleTerminalCommands(a)
  PROVE  /\ msg' \in [Messages -> MessageRow]
         /\ req' \in [Requests -> RequestRow]
         /\ rolled' \in [Agents -> BOOLEAN]
<1>1. \A m \in Messages : [msg[m] EXCEPT !.state = "FAILED"] \in MessageRow
  BY CommandRowUpdates DEF TypeOK
<1>2. NoRequest \in RequestRow
  BY DEF NoRequest, RequestRow
<1> QED BY <1>1, <1>2 DEF TypeOK, SettleTerminalCommands, SettledMessage

(* The updates of a task row, on any row.                                  *)
LEMMA RowUpdates ==
  ASSUME NEW r \in TaskRow, NEW p \in Phases, NEW e \in Nat
  PROVE  /\ r.epoch \in Nat
         /\ r.epoch + 1 \in Nat
         /\ [r EXCEPT !.phase = p] \in TaskRow
         /\ [r EXCEPT !.phase = p, !.epoch = e] \in TaskRow
         /\ [r EXCEPT !.phase = p, !.runtime = e, !.session = TRUE] \in TaskRow
         /\ [r EXCEPT !.reaped = TRUE] \in TaskRow
         /\ [r EXCEPT !.epoch = e] \in TaskRow
         /\ [r EXCEPT !.phase = p, !.outcome = None, !.stop = FALSE, !.close = FALSE,
                      !.runtime = 0, !.reaped = FALSE] \in TaskRow
<1>1. r.epoch \in Nat /\ r.epoch + 1 \in Nat
  BY DEF TaskRow
<1>2. [r EXCEPT !.phase = p] \in TaskRow
  BY DEF TaskRow
<1>3. [r EXCEPT !.phase = p, !.epoch = e] \in TaskRow
  BY DEF TaskRow
<1>4. [r EXCEPT !.phase = p, !.runtime = e, !.session = TRUE] \in TaskRow
  BY DEF TaskRow
<1>5. [r EXCEPT !.reaped = TRUE] \in TaskRow
  BY DEF TaskRow
<1>6. [r EXCEPT !.epoch = e] \in TaskRow
  BY DEF TaskRow
<1>7. [r EXCEPT !.phase = p, !.outcome = None, !.stop = FALSE, !.close = FALSE,
                !.runtime = 0, !.reaped = FALSE] \in TaskRow
  BY DEF TaskRow
<1> QED BY <1>1, <1>2, <1>3, <1>4, <1>5, <1>6, <1>7

(* A row that ends.                                                        *)
LEMMA RowOutcome ==
  ASSUME NEW r \in TaskRow, NEW p \in Phases, NEW o \in Outcomes
  PROVE  [r EXCEPT !.phase = p, !.outcome = o] \in TaskRow
BY DEF TaskRow

(* A row that is asked to stop.                                            *)
LEMMA RowStop ==
  ASSUME NEW r \in TaskRow, NEW c \in BOOLEAN, NEW s \in BOOLEAN
  PROVE  [r EXCEPT !.phase = IF r.phase = "TERMINAL" THEN "TERMINAL" ELSE "CANCELLING",
                   !.close = r.close \/ c, !.stop = r.stop \/ s] \in TaskRow
<1>1. (IF r.phase = "TERMINAL" THEN "TERMINAL" ELSE "CANCELLING") \in Phases
  BY DEF Phases
<1>2. (r.close \/ c) \in BOOLEAN /\ (r.stop \/ s) \in BOOLEAN
  OBVIOUS
<1> QED BY <1>1, <1>2 DEF TaskRow

(* Submission, claim, stop, result and reap write well-formed rows.        *)
LEMMA TypeTaskStep ==
  ASSUME TypeOK, NEW a \in Agents, TaskStep(a)
  PROVE  TypeOK'
<1> USE DEF Record
<1>0. task[a] \in TaskRow
  BY DEF TypeOK
<1>1. CASE EnqueueTask(a)
  <2>1. [NoTask EXCEPT !.phase = "QUEUED", !.rowid = NextRowid] \in TaskRow
    BY RowidsAreNat, StoreAssumption DEF NoTask, TaskRow, Phases
  <2> QED BY <1>1, <2>1 DEF EnqueueTask, TypeOK, Phases
<1>2. CASE ClaimNext(a)
  <2>1. task[a].epoch + 1 \in Nat
    BY <1>0 DEF TaskRow
  <2>2. [task[a] EXCEPT !.phase = "PREPARING", !.epoch = task[a].epoch + 1] \in TaskRow
    BY <1>0, <2>1, RowUpdates DEF Phases
  <2> QED BY <1>2, <2>1, <2>2 DEF ClaimNext, TypeOK, Phases
<1>3. ASSUME NEW e \in 1..MaxEpoch, MarkSessionRunning(a, e)
      PROVE  TypeOK'
  <2>1. e \in Nat
    BY EpochsAreNat
  <2>2. [task[a] EXCEPT !.phase = "RUNNING", !.runtime = e, !.session = TRUE] \in TaskRow
    BY <1>0, <2>1, RowUpdates DEF Phases
  <2> QED BY <1>3, <2>1, <2>2 DEF MarkSessionRunning, TypeOK, Phases
<1>4. ASSUME NEW close \in BOOLEAN, NEW intent \in BOOLEAN, RequestStopInternal(a, close, intent)
      PROVE  TypeOK'
  <2> DEFINE row ==
        [task[a] EXCEPT !.phase = IF task[a].phase = "TERMINAL" THEN "TERMINAL" ELSE "CANCELLING",
                        !.close = task[a].close \/ close,
                        !.stop = task[a].stop \/ intent]
  <2>0. row \in TaskRow
    BY <1>0, RowStop
  <2>1. task' \in [Agents -> TaskRow]
    <3>1. task' = [task EXCEPT ![a] = row]
      BY <1>4 DEF RequestStopInternal
    <3> HIDE DEF row
    <3> QED BY <2>0, <3>1 DEF TypeOK
  <2>2. /\ msg' \in [Messages -> MessageRow]
        /\ req' \in [Requests -> RequestRow]
        /\ rolled' \in [Agents -> BOOLEAN]
    BY <1>4, SettleType DEF RequestStopInternal, TypeOK
  <2>3. ledger' \in [Agents -> [to : Phases \cup {"ABSENT"}, epoch : Nat]]
    BY <1>4 DEF RequestStopInternal, TypeOK, Phases, TaskRow
  <2> QED BY <1>4, <2>1, <2>2, <2>3 DEF RequestStopInternal, TypeOK
<1>5. ASSUME NEW o \in ResultOutcomes, NEW b \in Bodies, StoreTaskResult(a, o, b)
      PROVE  TypeOK'
  <2> DEFINE outcome == IF StopIntent(a) THEN "CANCELLED" ELSE o
  <2>0. outcome \in Outcomes
    BY StoreAssumption DEF Outcomes
  <2> HIDE DEF outcome
  <2>9. [task[a] EXCEPT !.phase = "TERMINAL", !.outcome = outcome] \in TaskRow
    BY <1>0, <2>0, RowOutcome DEF Phases
  <2>1. task' \in [Agents -> TaskRow]
    BY <1>5, <2>9 DEF StoreTaskResult, ApplyTerminal, TypeOK, outcome
  <2>2. /\ msg' \in [Messages -> MessageRow]
        /\ req' \in [Requests -> RequestRow]
        /\ rolled' \in [Agents -> BOOLEAN]
    BY <1>5, SettleType DEF StoreTaskResult, ApplyTerminal
  <2>3. result' \in [Agents -> TaskResult \cup {None}]
    BY <1>5, StoreAssumption DEF StoreTaskResult, TypeOK, TaskResult
  <2>4. ledger' \in [Agents -> [to : Phases \cup {"ABSENT"}, epoch : Nat]]
    BY <1>5 DEF StoreTaskResult, ApplyTerminal, TypeOK, Phases, TaskRow
  <2> QED BY <1>5, <2>1, <2>2, <2>3, <2>4 DEF StoreTaskResult, TypeOK
<1>6. CASE ReapTask(a)
  <2>1. [task[a] EXCEPT !.reaped = TRUE] \in TaskRow
    BY <1>0 DEF TaskRow
  <2> QED BY <1>6, <2>1 DEF ReapTask, TypeOK
<1> QED
  BY <1>1, <1>2, <1>3, <1>4, <1>5, <1>6
     DEF TaskStep, RequestClose, RequestStop, RequestRuntimeStop

(* Requeue and rollback write well-formed rows.                            *)
LEMMA TypeResumeStep ==
  ASSUME TypeOK, NEW r \in Resumers, NEW a \in Agents, ResumeStep(r, a)
  PROVE  TypeOK'
<1> USE DEF Record
<1>0. task[a] \in TaskRow
  BY DEF TypeOK
<1>1. CASE CheckTerminal(r, a) \/ ReadOriginal(r) \/ ReadOriginalResult(r)
  <2>1. NoTask \in TaskRow
    BY StoreAssumption DEF NoTask, TaskRow
  <2>2. saved[r] # None => saved[r] \in Snapshot
    BY DEF TypeOK
  <2>3. saved[r] # None => task[saved[r].agent] \in TaskRow
                           /\ result[saved[r].agent] \in TaskResult \cup {None}
    BY <2>2 DEF Snapshot, TypeOK
  <2>4. saved' \in [Resumers -> Snapshot \cup {None}]
    <3>1. CASE CheckTerminal(r, a)
      BY <3>1, <2>1 DEF CheckTerminal, Snapshot, TypeOK
    <3>2. CASE ReadOriginal(r)
      BY <3>2, <2>2, <2>3 DEF ReadOriginal, SnapshotAt, Snapshot, TypeOK
    <3>3. CASE ReadOriginalResult(r)
      BY <3>3, <2>2, <2>3 DEF ReadOriginalResult, SnapshotAt, Snapshot, TypeOK
    <3> QED BY <1>1, <3>1, <3>2, <3>3
  <2> QED BY <1>1, <2>4 DEF CheckTerminal, ReadOriginal, ReadOriginalResult, TypeOK
<1>2. ASSUME NEW m \in Messages, RequeueTaskForResume(r, a, m)
      PROVE  TypeOK'
  <2>1. NewMessage(a) \in MessageRow
    BY RowidsAreNat DEF NewMessage, MessageRow
  <2>5. [task[a] EXCEPT !.phase = "QUEUED", !.outcome = None, !.stop = FALSE,
                        !.close = FALSE, !.runtime = 0, !.reaped = FALSE] \in TaskRow
    BY <1>0, RowUpdates DEF Phases
  <2>2. task' \in [Agents -> TaskRow]
    BY <1>2, <2>5 DEF RequeueTaskForResume, TypeOK
  <2>3. saved' \in [Resumers -> Snapshot \cup {None}]
    BY <1>2 DEF RequeueTaskForResume, SnapshotAt, TypeOK, Snapshot
  <2>4. ledger' \in [Agents -> [to : Phases \cup {"ABSENT"}, epoch : Nat]]
    BY <1>2 DEF RequeueTaskForResume, TypeOK, Phases, TaskRow
  <2> QED BY <1>2, <2>1, <2>2, <2>3, <2>4 DEF RequeueTaskForResume, TypeOK
<1>3. CASE RestoreTerminalAfterResumeFailure(r, a)
  <2>1. saved[r] \in Snapshot
    BY <1>3 DEF RestoreTerminalAfterResumeFailure, SnapshotAt, TypeOK
  <2>2. RestoredRow(r, a) \in TaskRow
    BY <1>0, <2>1 DEF RestoredRow, Snapshot, TaskRow, Phases
  <2>3. task' \in [Agents -> TaskRow]
    BY <1>3, <2>2 DEF RestoreTerminalAfterResumeFailure, TypeOK
  <2>4. result' \in [Agents -> TaskResult \cup {None}]
    BY <1>3, <2>1 DEF RestoreTerminalAfterResumeFailure, Snapshot, TypeOK
  <2>5. /\ saved' \in [Resumers -> Snapshot \cup {None}]
        /\ rolled' \in [Agents -> BOOLEAN]
        /\ torn' \in [Agents -> BOOLEAN]
    BY <1>3 DEF RestoreTerminalAfterResumeFailure, Coherent, TypeOK
  <2> QED BY <1>3, <2>3, <2>4, <2>5 DEF RestoreTerminalAfterResumeFailure, TypeOK
<1>4. CASE DropOriginal(r)
  BY <1>4 DEF DropOriginal, TypeOK
<1> QED BY <1>1, <1>2, <1>3, <1>4 DEF ResumeStep

(* Message and request steps write well-formed rows.                       *)
LEMMA TypeCommandStep ==
  ASSUME TypeOK
  PROVE  /\ \A a \in Agents, m \in Messages : MessageStep(a, m) => TypeOK'
         /\ \A m \in Messages : CompleteMessage(m) \/ FailMessage(m) => TypeOK'
         /\ \A a \in Agents, q \in Requests : RequestStep(a, q) => TypeOK'
<1>1. ASSUME NEW a \in Agents, NEW m \in Messages, InsertMessage(m, a)
      PROVE  TypeOK'
  <2>1. NewMessage(a) \in MessageRow
    BY RowidsAreNat DEF NewMessage, MessageRow
  <2> QED BY <1>1, <2>1 DEF InsertMessage, TypeOK
<1>2. ASSUME NEW a \in Agents, NEW m \in Messages, ClaimNextMessage(a, m)
      PROVE  TypeOK'
  <2>1. [msg[m] EXCEPT !.state = "SENDING"] \in MessageRow
    BY CommandRowUpdates DEF TypeOK
  <2> QED BY <1>2, <2>1 DEF ClaimNextMessage, TypeOK
<1>3. ASSUME NEW m \in Messages, CompleteMessage(m) \/ FailMessage(m)
      PROVE  TypeOK'
  <2>1. /\ [msg[m] EXCEPT !.state = "DELIVERED"] \in MessageRow
        /\ [msg[m] EXCEPT !.state = "FAILED"] \in MessageRow
    BY CommandRowUpdates DEF TypeOK
  <2> QED BY <1>3, <2>1 DEF CompleteMessage, FailMessage, TypeOK
<1>4. ASSUME NEW a \in Agents, NEW q \in Requests, NEW c \in Correlations,
             InsertPendingRequest(q, a, c)
      PROVE  TypeOK'
  <2>1. [state |-> "PENDING", agent |-> a, corr |-> c] \in RequestRow
    BY DEF RequestRow
  <2>2. [task[a] EXCEPT !.phase = "WAITING_INPUT"] \in TaskRow /\ task[a].epoch \in Nat
    <3>1. task[a] \in TaskRow
      BY DEF TypeOK
    <3> QED BY <3>1, RowUpdates DEF Phases
  <2>3. task' \in [Agents -> TaskRow] /\ req' \in [Requests -> RequestRow]
    BY <1>4, <2>1, <2>2 DEF InsertPendingRequest, TypeOK
  <2>4. ledger' \in [Agents -> [to : Phases \cup {"ABSENT"}, epoch : Nat]]
    <3>1. CASE UNCHANGED ledger
      BY <3>1 DEF TypeOK
    <3>2. CASE Record(a, "WAITING_INPUT", task[a].epoch)
      BY <2>2, <3>2, RecordType DEF Phases
    <3> QED BY <1>4, <3>1, <3>2 DEF InsertPendingRequest
  <2> QED BY <1>4, <2>3, <2>4 DEF InsertPendingRequest, TypeOK
<1>5. ASSUME NEW a \in Agents, NEW q \in Requests,
             ClaimPendingResponse(a, q) \/ ReleasePendingResponse(a, q)
      PROVE  TypeOK'
  <2>1. /\ [req[q] EXCEPT !.state = "SENDING"] \in RequestRow
        /\ [req[q] EXCEPT !.state = "PENDING"] \in RequestRow
    BY CommandRowUpdates DEF TypeOK
  <2> QED BY <1>5, <2>1 DEF ClaimPendingResponse, ReleasePendingResponse, TypeOK
<1>6. ASSUME NEW a \in Agents, NEW q \in Requests, CompletePendingResponse(a, q)
      PROVE  TypeOK'
  <2>1. [req[q] EXCEPT !.state = "RESPONDED"] \in RequestRow
    BY CommandRowUpdates DEF TypeOK
  <2>2. [task[a] EXCEPT !.phase = "RUNNING"] \in TaskRow /\ task[a].epoch \in Nat
    <3>1. task[a] \in TaskRow
      BY DEF TypeOK
    <3> QED BY <3>1, RowUpdates DEF Phases
  <2>3. CASE task' = [task EXCEPT ![a].phase = "RUNNING"] /\ Record(a, "RUNNING", task[a].epoch)
    BY <1>6, <2>1, <2>2, <2>3 DEF CompletePendingResponse, LastOpenRequest, Record, TypeOK, Phases
  <2>4. CASE UNCHANGED <<task, ledger>>
    BY <1>6, <2>1, <2>4 DEF CompletePendingResponse, LastOpenRequest, TypeOK
  <2> QED BY <1>6, <2>3, <2>4 DEF CompletePendingResponse, LastOpenRequest
<1> QED BY <1>1, <1>2, <1>3, <1>4, <1>5, <1>6 DEF MessageStep, RequestStep

(* The empty tables are well-formed.                                       *)
LEMMA TypeInit == StoreInit => TypeOK
BY DEF StoreInit, TypeOK, TaskRow, MessageRow, RequestRow, NoTask, NoMessage, NoRequest

(* Every step writes well-formed rows.                                     *)
LEMMA TypeNext == TypeOK /\ [StoreNext]_storeVars => TypeOK'
<1> SUFFICES ASSUME TypeOK, [StoreNext]_storeVars PROVE TypeOK'
  OBVIOUS
<1>1. CASE StoreNext
  BY <1>1, TypeTaskStep, TypeResumeStep, TypeCommandStep DEF StoreNext
<1>2. CASE UNCHANGED storeVars
  BY <1>2 DEF storeVars, TypeOK
<1> QED BY <1>1, <1>2

(* Every table always holds well-formed rows.                              *)
THEOREM TypeCorrect == StoreSpec => []TypeOK
<1>1. StoreInit => TypeOK
  BY TypeInit
<1>2. TypeOK /\ [StoreNext]_storeVars => TypeOK'
  BY TypeNext
<1> QED BY <1>1, <1>2, PTL DEF StoreSpec


-----------------------------------------------------------------------------
(* Tasks, results and ledger.                                              *)

(* A task not yet submitted was never claimed.                             *)
AbsentIsEmpty ==
  \A a \in Agents : task[a].phase = "ABSENT" => task[a].epoch = 0

(* The part of the inductive invariant about tasks.  EpochFence needs      *)
(* AbsentIsEmpty because a submission writes epoch 0.                      *)
TaskInv ==
  /\ TypeOK
  /\ TerminalHasResult
  /\ WorkspaceExclusive
  /\ RuntimeBelongsToClaim
  /\ LedgerFollowsPhase
  /\ AbsentIsEmpty

(* Submission, claim, stop, result and reap keep TaskInv.                  *)
LEMMA TaskInvTaskStep ==
  ASSUME TaskInv, NEW a \in Agents, TaskStep(a)
  PROVE  TaskInv'
<1>0. TypeOK'
  BY TypeTaskStep DEF TaskInv
<1> USE DEF TaskInv, TypeOK, TaskRow, TerminalHasResult, WorkspaceExclusive,
            RuntimeBelongsToClaim, LedgerFollowsPhase, AbsentIsEmpty, Live, ActivePhases, Record
<1>1. CASE EnqueueTask(a)
  BY <1>0, <1>1, StoreAssumption DEF EnqueueTask, NoTask
<1>2. CASE ClaimNext(a)
  BY <1>0, <1>2 DEF ClaimNext, Claimable
<1>3. ASSUME NEW e \in 1..MaxEpoch, MarkSessionRunning(a, e) PROVE TaskInv'
  BY <1>0, <1>3 DEF MarkSessionRunning, CanMarkRunning
<1>4. ASSUME NEW close \in BOOLEAN, NEW intent \in BOOLEAN, RequestStopInternal(a, close, intent)
      PROVE  TaskInv'
  <2>0. /\ task[a].phase # "ABSENT"
        /\ task'[a].phase = IF task[a].phase = "TERMINAL" THEN "TERMINAL" ELSE "CANCELLING"
        /\ task'[a].outcome = task[a].outcome
        /\ task'[a].runtime = task[a].runtime
        /\ task'[a].epoch = task[a].epoch
        /\ task'[a].session = task[a].session
        /\ \A b \in Agents \ {a} : task'[b] = task[b]
        /\ UNCHANGED <<result, torn>>
    BY <1>4 DEF RequestStopInternal
  <2>1. TerminalHasResult'
    BY <2>0
  <2>5. task[a].phase \in Phases
    BY <2>0
  <2>2. WorkspaceExclusive'
    <3>1. \A b \in Agents : Live(b)' => Live(b)
      BY <2>0, <2>5 DEF Phases
    <3> HIDE DEF Live, TypeOK
    <3> QED BY <3>1
  <2>3. RuntimeBelongsToClaim' /\ AbsentIsEmpty'
    <3>1. task[a].phase # "TERMINAL" => task[a].runtime \in {0, task[a].epoch}
      BY <2>0, <2>5 DEF Phases
    <3> HIDE DEF Live, TypeOK, TaskRow
    <3> QED BY <2>0, <3>1
  <2>4. LedgerFollowsPhase'
    BY <1>4 DEF RequestStopInternal
  <2> QED BY <1>0, <2>1, <2>2, <2>3, <2>4
<1>5. ASSUME NEW o \in ResultOutcomes, NEW b \in Bodies, StoreTaskResult(a, o, b)
      PROVE  TaskInv'
  <2>0. /\ task'[a].phase = "TERMINAL"
        /\ task'[a].outcome = o
        /\ \A c \in Agents \ {a} : task'[c] = task[c] /\ result'[c] = result[c]
        /\ result'[a] = [outcome |-> o, body |-> b]
        /\ UNCHANGED torn
    BY <1>5 DEF StoreTaskResult, ApplyTerminal, CanStoreResult
  <2>9. o # None /\ [outcome |-> o, body |-> b] # None
    BY StoreAssumption, NoneIsNoResult DEF TaskResult
  <2>1. TerminalHasResult'
    BY <2>0, <2>9
  <2>2. WorkspaceExclusive'
    BY <1>5 DEF StoreTaskResult, ApplyTerminal
  <2>3. RuntimeBelongsToClaim' /\ AbsentIsEmpty'
    BY <1>5 DEF StoreTaskResult, ApplyTerminal
  <2>4. LedgerFollowsPhase'
    BY <1>5 DEF StoreTaskResult, ApplyTerminal
  <2> QED BY <1>0, <2>1, <2>2, <2>3, <2>4
<1>6. CASE ReapTask(a)
  BY <1>0, <1>6 DEF ReapTask
<1> QED
  BY <1>1, <1>2, <1>3, <1>4, <1>5, <1>6
     DEF TaskStep, RequestClose, RequestStop, RequestRuntimeStop

(* Requeue and rollback keep TaskInv.                                      *)
LEMMA TaskInvResumeStep ==
  ASSUME TaskInv, NEW r \in Resumers, NEW a \in Agents, ResumeStep(r, a)
  PROVE  TaskInv'
<1>0. TypeOK'
  BY TypeResumeStep DEF TaskInv
<1> USE DEF TaskInv, TypeOK, TaskRow, TerminalHasResult, WorkspaceExclusive,
            RuntimeBelongsToClaim, LedgerFollowsPhase, AbsentIsEmpty, Live, ActivePhases, Record
<1>1. CASE CheckTerminal(r, a) \/ ReadOriginal(r) \/ ReadOriginalResult(r)
  BY <1>0, <1>1 DEF CheckTerminal, ReadOriginal, ReadOriginalResult
<1>2. ASSUME NEW m \in Messages, RequeueTaskForResume(r, a, m) PROVE TaskInv'
  BY <1>0, <1>2 DEF RequeueTaskForResume, CanRequeue
<1>3. CASE RestoreTerminalAfterResumeFailure(r, a)
  <2>1. saved[r].row \in TaskRow
    BY <1>3 DEF RestoreTerminalAfterResumeFailure, SnapshotAt, Snapshot
  <2>2. /\ task'[a].phase = "TERMINAL"
        /\ task'[a].outcome = saved[r].row.outcome
        /\ task'[a].epoch = task[a].epoch
        /\ \A b \in Agents \ {a} : task'[b] = task[b]
    BY <1>3, <2>1 DEF RestoreTerminalAfterResumeFailure, RestoredRow
  <2>3. TerminalHasResult'
    <3>1. /\ ~torn'[a] => result'[a] # None /\ task'[a].outcome = result'[a].outcome
          /\ \A b \in Agents \ {a} : result'[b] = result[b] /\ torn'[b] = torn[b]
      BY <1>3, <2>2 DEF RestoreTerminalAfterResumeFailure, Coherent
    <3> QED BY <2>2, <3>1
  <2>4. LedgerFollowsPhase'
    BY <1>3, <2>2 DEF RestoreTerminalAfterResumeFailure
  <2>5. WorkspaceExclusive'
    <3>1. ~Live(a)' /\ \A b \in Agents \ {a} : Live(b)' <=> Live(b)
      BY <2>2
    <3> HIDE DEF Live, TypeOK
    <3> QED BY <3>1
  <2>6. RuntimeBelongsToClaim' /\ AbsentIsEmpty'
    <3> HIDE DEF Live, TypeOK, TaskRow
    <3> QED BY <2>2
  <2> QED BY <1>0, <2>3, <2>4, <2>5, <2>6
<1>4. CASE DropOriginal(r)
  BY <1>0, <1>4 DEF DropOriginal
<1> QED BY <1>1, <1>2, <1>3, <1>4 DEF ResumeStep

(* Of the command steps only requests change a task row.                   *)
LEMMA TaskInvCommandStep ==
  ASSUME TaskInv, TypeOK'
  PROVE  /\ \A a \in Agents, m \in Messages : MessageStep(a, m) => TaskInv'
         /\ \A m \in Messages : CompleteMessage(m) \/ FailMessage(m) => TaskInv'
         /\ \A a \in Agents, q \in Requests : RequestStep(a, q) => TaskInv'
<1> USE DEF TaskInv, TypeOK, TaskRow, TerminalHasResult, WorkspaceExclusive,
            RuntimeBelongsToClaim, LedgerFollowsPhase, AbsentIsEmpty, Live, ActivePhases, Record
<1>1. ASSUME UNCHANGED <<task, result, ledger, torn>>
      PROVE  TaskInv'
  BY <1>1
<1>2. ASSUME NEW a \in Agents, NEW q \in Requests, NEW c \in Correlations,
             InsertPendingRequest(q, a, c)
      PROVE  TaskInv'
  BY <1>2 DEF InsertPendingRequest, CanInsertRequest
<1>3. ASSUME NEW a \in Agents, NEW q \in Requests, CompletePendingResponse(a, q)
      PROVE  TaskInv'
  <2>1. CASE /\ task[a].phase = "WAITING_INPUT"
             /\ task' = [task EXCEPT ![a].phase = "RUNNING"]
             /\ Record(a, "RUNNING", task[a].epoch)
    BY <1>3, <2>1 DEF CompletePendingResponse, LastOpenRequest
  <2>2. CASE UNCHANGED <<task, ledger>>
    BY <1>1, <1>3, <2>2 DEF CompletePendingResponse, LastOpenRequest
  <2> QED BY <1>3, <2>1, <2>2 DEF CompletePendingResponse, LastOpenRequest
<1> QED BY <1>1, <1>2, <1>3 DEF MessageStep, RequestStep, InsertMessage, ClaimNextMessage, CompleteMessage, FailMessage, ClaimPendingResponse, ReleasePendingResponse

-----------------------------------------------------------------------------
(* Commands.                                                               *)

(* The part of the inductive invariant about messages and requests: the    *)
(* two properties need each other, since a waiting task returns to RUNNING  *)
(* only when no stop is wanted.                                            *)
CommandInv ==
  /\ TypeOK
  /\ StopFencesCommands
  /\ InputWaitMatchesRequests

(* Settling closes the commands of one task and of no other.               *)
LEMMA Settled ==
  ASSUME TypeOK, NEW a \in Agents, SettleTerminalCommands(a)
  PROVE  /\ OpenMessages(a)' = {}
         /\ OpenRequests(a)' = {}
         /\ rolled'[a] = FALSE
         /\ \A b \in Agents \ {a} :
              /\ OpenMessages(b)' = OpenMessages(b)
              /\ OpenRequests(b)' = OpenRequests(b)
              /\ rolled'[b] = rolled[b]
<1> USE DEF SettleTerminalCommands, SettledMessage, OpenMessages, OpenRequests, TypeOK, MessageRow, RequestRow,
            NoRequest
<1>1. OpenMessages(a)' = {}
  OBVIOUS
<1>2. OpenRequests(a)' = {}
  BY StoreAssumption
<1>3. ASSUME NEW b \in Agents, a # b
      PROVE  OpenMessages(b)' = OpenMessages(b)
  BY <1>3
<1>4. ASSUME NEW b \in Agents, a # b
      PROVE  OpenRequests(b)' = OpenRequests(b)
  BY <1>4, StoreAssumption
<1> QED BY <1>1, <1>2, <1>3, <1>4

(* Submission, claim, stop, result and reap keep CommandInv.               *)
LEMMA CommandTaskStep ==
  ASSUME CommandInv, NEW a \in Agents, TaskStep(a)
  PROVE  CommandInv'
<1>0. TypeOK'
  BY TypeTaskStep DEF CommandInv
<1> USE DEF CommandInv, TypeOK, TaskRow, StopFencesCommands, InputWaitMatchesRequests,
            Live, StopIntent, ActivePhases
<1>a. (UNCHANGED <<msg, req>>) =>
         \A b \in Agents : OpenMessages(b)' = OpenMessages(b) /\ OpenRequests(b)' = OpenRequests(b)
  BY DEF OpenMessages, OpenRequests
<1>1. CASE EnqueueTask(a)
  BY <1>0, <1>1, <1>a DEF EnqueueTask, NoTask
<1>2. CASE ClaimNext(a)
  BY <1>0, <1>2, <1>a DEF ClaimNext, Claimable
<1>3. ASSUME NEW e \in 1..MaxEpoch, MarkSessionRunning(a, e) PROVE CommandInv'
  BY <1>0, <1>3, <1>a DEF MarkSessionRunning, CanMarkRunning
<1>4. ASSUME NEW close \in BOOLEAN, NEW intent \in BOOLEAN, RequestStopInternal(a, close, intent)
      PROVE  CommandInv'
  <2>1. CASE task[a].phase = "TERMINAL"
    BY <1>0, <1>4, <2>1, <1>a DEF RequestStopInternal
  <2>2. CASE task[a].phase # "TERMINAL"
    <3>1. SettleTerminalCommands(a)
      BY <1>4, <2>2 DEF RequestStopInternal
    <3>2. /\ task'[a].phase = "CANCELLING"
          /\ \A b \in Agents \ {a} : task'[b] = task[b]
      BY <1>4, <2>2 DEF RequestStopInternal
    <3>3. /\ OpenMessages(a)' = {} /\ OpenRequests(a)' = {}
          /\ \A b \in Agents \ {a} :
               /\ OpenMessages(b)' = OpenMessages(b)
               /\ OpenRequests(b)' = OpenRequests(b)
               /\ rolled'[b] = rolled[b]
      BY <3>1, Settled
    <3>4. StopFencesCommands' /\ InputWaitMatchesRequests'
      <4> HIDE DEF TypeOK, TaskRow
      <4> QED BY <3>2, <3>3
    <3> QED BY <1>0, <3>4
  <2> QED BY <2>1, <2>2
<1>5. ASSUME NEW o \in ResultOutcomes, NEW b \in Bodies, StoreTaskResult(a, o, b)
      PROVE  CommandInv'
  <2>1. SettleTerminalCommands(a)
    BY <1>5 DEF StoreTaskResult, ApplyTerminal
  <2>2. /\ task'[a].phase = "TERMINAL"
        /\ \A c \in Agents \ {a} : task'[c] = task[c]
    BY <1>5 DEF StoreTaskResult, ApplyTerminal
  <2>3. /\ OpenMessages(a)' = {} /\ OpenRequests(a)' = {}
        /\ \A c \in Agents \ {a} :
             /\ OpenMessages(c)' = OpenMessages(c)
             /\ OpenRequests(c)' = OpenRequests(c)
             /\ rolled'[c] = rolled[c]
    BY <2>1, Settled
  <2>4. StopFencesCommands' /\ InputWaitMatchesRequests'
    <3> HIDE DEF TypeOK, TaskRow
    <3> QED BY <2>2, <2>3
  <2> QED BY <1>0, <2>4
<1>6. CASE ReapTask(a)
  BY <1>0, <1>6, <1>a DEF ReapTask
<1> QED
  BY <1>1, <1>2, <1>3, <1>4, <1>5, <1>6
     DEF TaskStep, RequestClose, RequestStop, RequestRuntimeStop

(* Requeue and rollback keep CommandInv.                                   *)
LEMMA CommandResumeStep ==
  ASSUME CommandInv, NEW r \in Resumers, NEW a \in Agents, ResumeStep(r, a)
  PROVE  CommandInv'
<1>0. TypeOK'
  BY TypeResumeStep DEF CommandInv
<1> USE DEF CommandInv, TypeOK, TaskRow, StopFencesCommands, InputWaitMatchesRequests,
            Live, StopIntent, ActivePhases
<1>a. (UNCHANGED <<msg, req>>) =>
         \A b \in Agents : OpenMessages(b)' = OpenMessages(b) /\ OpenRequests(b)' = OpenRequests(b)
  BY DEF OpenMessages, OpenRequests
<1>1. CASE CheckTerminal(r, a) \/ ReadOriginal(r) \/ ReadOriginalResult(r)
  BY <1>0, <1>1, <1>a DEF CheckTerminal, ReadOriginal, ReadOriginalResult
<1>2. ASSUME NEW m \in Messages, RequeueTaskForResume(r, a, m) PROVE CommandInv'
  <2>1. \A b \in Agents : OpenRequests(b)' = OpenRequests(b)
    BY <1>2 DEF RequeueTaskForResume, OpenRequests
  <2>2. \A b \in Agents \ {a} : OpenMessages(b)' = OpenMessages(b)
    BY <1>2 DEF RequeueTaskForResume, CanRequeue, OpenMessages, NewMessage, MessageRow
  <2>3. /\ task[a].phase = "TERMINAL"
        /\ task'[a].phase = "QUEUED" /\ ~task'[a].stop /\ ~task'[a].close
        /\ \A b \in Agents \ {a} : task'[b] = task[b]
        /\ UNCHANGED rolled
    BY <1>2 DEF RequeueTaskForResume, CanRequeue
  <2>4. StopFencesCommands' /\ InputWaitMatchesRequests'
    <3> HIDE DEF TypeOK, TaskRow
    <3> QED BY <2>1, <2>2, <2>3
  <2> QED BY <1>0, <2>4
<1>3. CASE RestoreTerminalAfterResumeFailure(r, a)
  <2>1. /\ rolled'[a]
        /\ \A b \in Agents \ {a} : task'[b] = task[b] /\ rolled'[b] = rolled[b]
        /\ UNCHANGED <<msg, req>>
    BY <1>3 DEF RestoreTerminalAfterResumeFailure
  <2>2. StopFencesCommands' /\ InputWaitMatchesRequests'
    <3> HIDE DEF TypeOK, TaskRow
    <3> QED BY <1>a, <2>1
  <2> QED BY <1>0, <2>2
<1>4. CASE DropOriginal(r)
  BY <1>0, <1>4, <1>a DEF DropOriginal
<1> QED BY <1>1, <1>2, <1>3, <1>4 DEF ResumeStep

(* Message steps keep CommandInv.                                          *)
LEMMA CommandMessageStep ==
  ASSUME CommandInv, TypeOK'
  PROVE  /\ \A a \in Agents, m \in Messages : MessageStep(a, m) => CommandInv'
         /\ \A m \in Messages : CompleteMessage(m) \/ FailMessage(m) => CommandInv'
<1> USE DEF CommandInv, StopFencesCommands, InputWaitMatchesRequests, Live, StopIntent
<1>a. (UNCHANGED req) => \A b \in Agents : OpenRequests(b)' = OpenRequests(b)
  BY DEF OpenRequests
<1>b. ASSUME UNCHANGED <<task, req, rolled>>,
             \A b \in Agents : OpenMessages(b)' \subseteq OpenMessages(b)
      PROVE  CommandInv'
  BY <1>a, <1>b
<1>1. ASSUME NEW a \in Agents, NEW m \in Messages, InsertMessage(m, a)
      PROVE  CommandInv'
  <2>1. \A b \in Agents \ {a} : OpenMessages(b)' = OpenMessages(b)
    BY <1>1 DEF InsertMessage, OpenMessages, NewMessage, TypeOK, MessageRow
  <2>2. task[a].phase # "TERMINAL" /\ ~StopIntent(a)
    BY <1>1 DEF InsertMessage, CanInsertMessage, ActivePhases
  <2>3. UNCHANGED <<task, req, rolled>>
    BY <1>1 DEF InsertMessage
  <2> QED BY <1>a, <2>1, <2>2, <2>3
<1>2. ASSUME NEW a \in Agents, NEW m \in Messages, ClaimNextMessage(a, m)
      PROVE  CommandInv'
  <2>1. \A b \in Agents : OpenMessages(b)' \subseteq OpenMessages(b)
    BY <1>2 DEF ClaimNextMessage, OldestQueued, QueuedMessages, OpenMessages, TypeOK, MessageRow
  <2> QED BY <1>2, <1>b, <2>1 DEF ClaimNextMessage, OldestQueued
<1>3. ASSUME NEW m \in Messages, CompleteMessage(m) \/ FailMessage(m)
      PROVE  CommandInv'
  <2>1. \A b \in Agents : OpenMessages(b)' \subseteq OpenMessages(b)
    <3>1. /\ msg[m].state \in {"QUEUED", "SENDING"}
          /\ msg'[m].agent = msg[m].agent
          /\ \A n \in Messages \ {m} : msg'[n] = msg[n]
      BY <1>3 DEF CompleteMessage, FailMessage, TypeOK, MessageRow
    <3> QED BY <3>1 DEF OpenMessages
  <2> QED BY <1>3, <1>b, <2>1 DEF CompleteMessage, FailMessage
<1> QED BY <1>1, <1>2, <1>3 DEF MessageStep

(* Request steps keep CommandInv.                                          *)
LEMMA CommandRequestStep ==
  ASSUME CommandInv, TypeOK', NEW a \in Agents, NEW q \in Requests, RequestStep(a, q)
  PROVE  CommandInv'
<1> USE DEF CommandInv, StopFencesCommands, InputWaitMatchesRequests, Live, StopIntent
<1>a. (UNCHANGED msg) => \A b \in Agents : OpenMessages(b)' = OpenMessages(b)
  BY DEF OpenMessages
<1>1. ASSUME NEW c \in Correlations, InsertPendingRequest(q, a, c)
      PROVE  CommandInv'
  <2>1. /\ OpenRequests(a)' # {}
        /\ \A b \in Agents \ {a} : OpenRequests(b)' = OpenRequests(b)
    BY <1>1 DEF InsertPendingRequest, RequestSlotFree, OpenRequests, TypeOK, RequestRow
  <2>2. /\ task[a].phase # "TERMINAL" /\ ~StopIntent(a)
        /\ task'[a].phase = "WAITING_INPUT" /\ ~StopIntent(a)'
        /\ \A b \in Agents \ {a} : task'[b] = task[b]
    BY <1>1 DEF InsertPendingRequest, CanInsertRequest, TypeOK, TaskRow
  <2>3. UNCHANGED <<msg, rolled>>
    BY <1>1 DEF InsertPendingRequest
  <2> QED BY <1>a, <2>1, <2>2, <2>3 
<1>2. ASSUME ClaimPendingResponse(a, q) \/ ReleasePendingResponse(a, q)
      PROVE  CommandInv'
  <2>1. \A b \in Agents : OpenRequests(b)' = OpenRequests(b)
    BY <1>2 DEF ClaimPendingResponse, ReleasePendingResponse, OpenRequests, TypeOK, RequestRow
  <2>2. UNCHANGED <<task, msg, rolled>>
    BY <1>2 DEF ClaimPendingResponse, ReleasePendingResponse
  <2> QED BY <1>a, <2>1, <2>2
<1>3. ASSUME CompletePendingResponse(a, q)
      PROVE  CommandInv'
  <2>1. /\ q \in OpenRequests(a)
        /\ OpenRequests(a)' = OpenRequests(a) \ {q}
        /\ \A b \in Agents \ {a} : OpenRequests(b)' = OpenRequests(b)
    BY <1>3 DEF CompletePendingResponse, LastOpenRequest, OpenRequests, TypeOK, RequestRow
  <2>2. UNCHANGED <<msg, rolled>>
    BY <1>3 DEF CompletePendingResponse, LastOpenRequest
  <2>3. CASE /\ OpenRequests(a) = {q}
             /\ task[a].phase = "WAITING_INPUT"
             /\ ~StopIntent(a)
    <3>1. /\ task'[a].phase = "RUNNING" /\ ~StopIntent(a)'
          /\ \A b \in Agents \ {a} : task'[b] = task[b]
      BY <1>3, <2>3 DEF CompletePendingResponse, LastOpenRequest, TypeOK, TaskRow
    <3>2. OpenRequests(a)' = {}
      BY <2>1, <2>3
    <3> QED BY <1>a, <2>1, <2>2, <2>3, <3>1, <3>2
  <2>4. CASE ~ /\ OpenRequests(a) = {q}
               /\ task[a].phase = "WAITING_INPUT"
               /\ ~StopIntent(a)
    <3>1. UNCHANGED task
      BY <1>3, <2>4 DEF CompletePendingResponse, LastOpenRequest
    <3>2. ~rolled[a] => OpenRequests(a)' # {}
      BY <2>1, <2>4 DEF ActivePhases
    <3> QED BY <1>a, <2>1, <2>2, <3>1, <3>2
  <2> QED BY <2>3, <2>4
<1> QED BY <1>1, <1>2, <1>3 DEF RequestStep

-----------------------------------------------------------------------------
(* The order of messages.                                                  *)

(* Row ids in use are below the next one.                                  *)
MessageRowidsBounded ==
  \A m \in Messages : msg[m].state # "ABSENT" => msg[m].rowid < NextMessageRowid

(* The part of the inductive invariant about the message queue.            *)
OrderInv == TypeOK /\ MessagesInOrder /\ MessageRowidsBounded

(* A new message goes behind all others.                                   *)
LEMMA OrderInsert ==
  ASSUME OrderInv, NEW a \in Agents, NEW m \in Messages, msg[m].state = "ABSENT",
         msg' = [msg EXCEPT ![m] = NewMessage(a)]
  PROVE  MessagesInOrder' /\ MessageRowidsBounded'
<1> DEFINE P == {n \in Messages : msg[n].state # "ABSENT"}
<1>1. msg'[m] = NewMessage(a) /\ \A n \in Messages \ {m} : msg'[n] = msg[n]
  BY DEF OrderInv, TypeOK
<1>2. IsFiniteSet(P) /\ Cardinality(P) \in Nat
  BY StoreAssumption, FS_Subset, FS_CardinalityType
<1>3. {n \in Messages : msg'[n].state # "ABSENT"} = P \cup {m}
  BY <1>1 DEF NewMessage
<1>4. m \notin P
  OBVIOUS
<1>5. Cardinality(P \cup {m}) = Cardinality(P) + 1
  <2> HIDE DEF P
  <2> QED BY <1>2, <1>4, FS_AddElement
<1>6. NextMessageRowid \in Nat /\ NextMessageRowid' = NextMessageRowid + 1
  <2>1. NextMessageRowid = Cardinality(P) + 1
    BY DEF NextMessageRowid
  <2>2. NextMessageRowid' = Cardinality(P \cup {m}) + 1
    BY <1>3 DEF NextMessageRowid
  <2> HIDE DEF P
  <2> QED BY <1>2, <1>5, <2>1, <2>2
<1>7. /\ msg'[m].rowid = NextMessageRowid
      /\ msg'[m].state = "QUEUED"
  BY <1>1 DEF NewMessage
<1>8. \A n \in Messages : msg[n].rowid \in Nat
  BY DEF OrderInv, TypeOK, MessageRow
<1>9. MessageRowidsBounded'
  <2> SUFFICES ASSUME NEW n \in Messages, msg'[n].state # "ABSENT"
               PROVE  msg'[n].rowid < NextMessageRowid'
    BY DEF MessageRowidsBounded
  <2> QED BY <1>1, <1>6, <1>7, <1>8 DEF OrderInv, MessageRowidsBounded
<1>10. MessagesInOrder'
  BY <1>1, <1>6, <1>7, <1>8 DEF OrderInv, MessagesInOrder, MessageRowidsBounded
<1> QED BY <1>9, <1>10

(* No step but an insertion moves a message back to QUEUED or to another   *)
(* place in the queue.                                                     *)
LEMMA OrderKept ==
  ASSUME OrderInv,
         \A m \in Messages :
           /\ msg'[m].agent = msg[m].agent
           /\ msg'[m].rowid = msg[m].rowid
           /\ msg'[m].state = "ABSENT" <=> msg[m].state = "ABSENT"
           /\ msg'[m].state = "QUEUED" => msg[m].state = "QUEUED"
           /\ msg'[m].state \in {"SENDING", "DELIVERED"} =>
                msg[m].state \in {"SENDING", "DELIVERED"}
  PROVE  MessagesInOrder' /\ MessageRowidsBounded'
<1>1. NextMessageRowid' = NextMessageRowid
  <2>1. {m \in Messages : msg'[m].state # "ABSENT"} = {m \in Messages : msg[m].state # "ABSENT"}
    OBVIOUS
  <2> QED BY <2>1 DEF NextMessageRowid
<1> QED BY <1>1 DEF OrderInv, MessagesInOrder, MessageRowidsBounded

(* A claim takes the oldest queued message of its task.                    *)
LEMMA OrderClaim ==
  ASSUME OrderInv, NEW a \in Agents, NEW m \in Messages, ClaimNextMessage(a, m)
  PROVE  MessagesInOrder' /\ MessageRowidsBounded'
<1>1. /\ msg[m].state = "QUEUED" /\ msg'[m].state = "SENDING"
      /\ msg[m].agent = a
      /\ msg'[m].agent = a /\ msg'[m].rowid = msg[m].rowid
      /\ \A n \in Messages \ {m} : msg'[n] = msg[n]
      /\ \A n \in QueuedMessages(a) : msg[m].rowid <= msg[n].rowid
  BY DEF ClaimNextMessage, OldestQueued, QueuedMessages, OrderInv, TypeOK, MessageRow
<1>2. NextMessageRowid' = NextMessageRowid
  <2>1. {n \in Messages : msg'[n].state # "ABSENT"} = {n \in Messages : msg[n].state # "ABSENT"}
    BY <1>1
  <2> QED BY <2>1 DEF NextMessageRowid
<1>3. \A n \in Messages : msg[n].rowid \in Nat
  BY DEF OrderInv, TypeOK, MessageRow
<1>4. MessagesInOrder'
  BY <1>1, <1>3 DEF OrderInv, MessagesInOrder, QueuedMessages
<1> QED BY <1>1, <1>2, <1>4 DEF OrderInv, MessageRowidsBounded

(* Every step keeps OrderInv.                                              *)
LEMMA OrderNext ==
  ASSUME OrderInv, TypeOK', StoreNext
  PROVE  OrderInv'
<1>a. ASSUME NEW a \in Agents, SettleTerminalCommands(a)
      PROVE  MessagesInOrder' /\ MessageRowidsBounded'
  BY <1>a, OrderKept DEF SettleTerminalCommands, SettledMessage, OpenMessages, OrderInv, TypeOK, MessageRow
<1>b. ASSUME UNCHANGED msg PROVE MessagesInOrder' /\ MessageRowidsBounded'
  BY <1>b, OrderKept
<1>1. ASSUME NEW a \in Agents, TaskStep(a)
      PROVE  MessagesInOrder' /\ MessageRowidsBounded'
  BY <1>1, <1>a, <1>b
     DEF TaskStep, EnqueueTask, ClaimNext, MarkSessionRunning, RequestClose, RequestStop,
         RequestRuntimeStop, RequestStopInternal, StoreTaskResult, ApplyTerminal, ReapTask
<1>2. ASSUME NEW r \in Resumers, NEW a \in Agents, ResumeStep(r, a)
      PROVE  MessagesInOrder' /\ MessageRowidsBounded'
  BY <1>2, <1>b, OrderInsert
     DEF ResumeStep, CheckTerminal, ReadOriginal, ReadOriginalResult, RequeueTaskForResume, CanRequeue,
         RestoreTerminalAfterResumeFailure, DropOriginal
<1>3. ASSUME NEW a \in Agents, NEW m \in Messages, MessageStep(a, m)
      PROVE  MessagesInOrder' /\ MessageRowidsBounded'
  BY <1>3, OrderInsert, OrderClaim DEF MessageStep, InsertMessage
<1>4. ASSUME NEW m \in Messages, CompleteMessage(m) \/ FailMessage(m)
      PROVE  MessagesInOrder' /\ MessageRowidsBounded'
  BY <1>4, OrderKept DEF CompleteMessage, FailMessage, OrderInv, TypeOK, MessageRow
<1>5. ASSUME NEW a \in Agents, NEW q \in Requests, RequestStep(a, q)
      PROVE  MessagesInOrder' /\ MessageRowidsBounded'
  BY <1>5, <1>b
     DEF RequestStep, InsertPendingRequest, ClaimPendingResponse, CompletePendingResponse,
         ReleasePendingResponse
<1> QED BY <1>1, <1>2, <1>3, <1>4, <1>5 DEF StoreNext, OrderInv

-----------------------------------------------------------------------------
(* The inductive invariant of the store, and the theorems.                 *)

StoreInv == TaskInv /\ CommandInv /\ OrderInv

(* The initial tables satisfy the invariant.                               *)
LEMMA StoreInvInit == StoreInit => StoreInv
<1> SUFFICES ASSUME StoreInit PROVE StoreInv
  OBVIOUS
<1>0. TypeOK
  BY TypeInit
<1>1. TaskInv
  BY <1>0 DEF StoreInit, TaskInv, NoTask, TerminalHasResult, WorkspaceExclusive,
              RuntimeBelongsToClaim, LedgerFollowsPhase, AbsentIsEmpty, Live, ActivePhases
<1>2. CommandInv
  BY <1>0, StoreAssumption
     DEF StoreInit, CommandInv, NoTask, NoMessage, NoRequest, StopFencesCommands,
         InputWaitMatchesRequests, OpenMessages, OpenRequests, Live, ActivePhases
<1>3. OrderInv
  BY <1>0 DEF StoreInit, OrderInv, NoMessage, MessagesInOrder, MessageRowidsBounded
<1> QED BY <1>1, <1>2, <1>3 DEF StoreInv

(* Every store method keeps the invariant.                                 *)
LEMMA StoreInvNext == StoreInv /\ [StoreNext]_storeVars => StoreInv'
<1> SUFFICES ASSUME StoreInv, [StoreNext]_storeVars PROVE StoreInv'
  OBVIOUS
<1>0. TypeOK'
  BY TypeNext DEF StoreInv, TaskInv
<1>1. CASE StoreNext
  <2>1. TaskInv'
    BY <1>0, <1>1, TaskInvTaskStep, TaskInvResumeStep, TaskInvCommandStep DEF StoreInv, StoreNext
  <2>2. CommandInv'
    BY <1>0, <1>1, CommandTaskStep, CommandResumeStep, CommandMessageStep, CommandRequestStep
       DEF StoreInv, StoreNext
  <2>3. OrderInv'
    BY <1>0, <1>1, OrderNext DEF StoreInv
  <2> QED BY <2>1, <2>2, <2>3 DEF StoreInv
<1>2. CASE UNCHANGED storeVars
  <2>1. TaskInv'
    BY <1>0, <1>2
       DEF storeVars, StoreInv, TaskInv, TerminalHasResult, WorkspaceExclusive,
           RuntimeBelongsToClaim, LedgerFollowsPhase, AbsentIsEmpty, Live
  <2>2. CommandInv'
    BY <1>0, <1>2
       DEF storeVars, StoreInv, CommandInv, StopFencesCommands, InputWaitMatchesRequests,
           OpenMessages, OpenRequests, StopIntent, Live
  <2>3. OrderInv'
    BY <1>0, <1>2, OrderKept DEF storeVars, StoreInv, OrderInv
  <2> QED BY <2>1, <2>2, <2>3 DEF StoreInv
<1> QED BY <1>1, <1>2

(* The conjunction of the three parts is an invariant of the store.        *)
THEOREM StoreInvariant == StoreSpec => []StoreInv
<1>1. StoreInit => StoreInv
  BY StoreInvInit
<1>2. StoreInv /\ [StoreNext]_storeVars => StoreInv'
  BY StoreInvNext
<1> QED BY <1>1, <1>2, PTL DEF StoreSpec

(* A terminal task has its result and its outcome, and only it has.        *)
THEOREM TerminalResults == StoreSpec => []TerminalHasResult
<1>1. StoreInv => TerminalHasResult
  BY DEF StoreInv, TaskInv
<1> QED BY <1>1, StoreInvariant, PTL

(* A canonical workspace never has two live tasks.                         *)
THEOREM OneLiveTask == StoreSpec => []WorkspaceExclusive
<1>1. StoreInv => WorkspaceExclusive
  BY DEF StoreInv, TaskInv
<1> QED BY <1>1, StoreInvariant, PTL

(* The runtime a row names is the one its last claim started.              *)
THEOREM RuntimeOfClaim == StoreSpec => []RuntimeBelongsToClaim
<1>1. StoreInv => RuntimeBelongsToClaim
  BY DEF StoreInv, TaskInv
<1> QED BY <1>1, StoreInvariant, PTL

(* The ledger agrees with the row of every live task.                      *)
THEOREM LedgerAgrees == StoreSpec => []LedgerFollowsPhase
<1>1. StoreInv => LedgerFollowsPhase
  BY DEF StoreInv, TaskInv
<1> QED BY <1>1, StoreInvariant, PTL

(* A stop fences every command of the task.                                *)
THEOREM StopFences == StoreSpec => []StopFencesCommands
<1>1. StoreInv => StopFencesCommands
  BY DEF StoreInv, CommandInv
<1> QED BY <1>1, StoreInvariant, PTL

(* A task waits for input exactly while a request is open.                 *)
THEOREM InputWait == StoreSpec => []InputWaitMatchesRequests
<1>1. StoreInv => InputWaitMatchesRequests
  BY DEF StoreInv, CommandInv
<1> QED BY <1>1, StoreInvariant, PTL

(* Messages are claimed in the order of their insertion.                   *)
THEOREM MessageOrder == StoreSpec => []MessagesInOrder
<1>1. StoreInv => MessagesInOrder
  BY DEF StoreInv, OrderInv
<1> QED BY <1>1, StoreInvariant, PTL

-----------------------------------------------------------------------------
(* Action properties.                                                      *)

(* What a step does to outcomes, results and epochs.                       *)
LEMMA ActionSteps ==
  ASSUME StoreInv, StoreNext
  PROVE  CancelWinsStep /\ ResultImmutableStep /\ EpochFenceStep
<1> USE DEF StoreInv, TaskInv, TypeOK, TaskRow, CancelWinsStep, ResultImmutableStep,
            EpochFenceStep, Live, ActivePhases
<1>0. ASSUME UNCHANGED <<task, result>>
      PROVE  CancelWinsStep /\ ResultImmutableStep /\ EpochFenceStep
  BY <1>0
<1>1. ASSUME NEW a \in Agents, TaskStep(a)
      PROVE  CancelWinsStep /\ ResultImmutableStep /\ EpochFenceStep
  <2>1. CASE EnqueueTask(a)
    BY <1>1, <2>1, StoreAssumption DEF EnqueueTask, NoTask, AbsentIsEmpty
  <2>2. CASE ClaimNext(a)
    BY <2>2 DEF ClaimNext, Claimable
  <2>3. CASE \E e \in 1..MaxEpoch : MarkSessionRunning(a, e)
    BY <2>3 DEF MarkSessionRunning, CanMarkRunning
  <2>4. ASSUME NEW close \in BOOLEAN, NEW intent \in BOOLEAN, RequestStopInternal(a, close, intent)
        PROVE  CancelWinsStep /\ ResultImmutableStep /\ EpochFenceStep
    BY <2>4 DEF RequestStopInternal
  <2>5. ASSUME NEW o \in ResultOutcomes, NEW b \in Bodies, StoreTaskResult(a, o, b)
        PROVE  CancelWinsStep /\ ResultImmutableStep /\ EpochFenceStep
    <3>1. /\ task'[a].outcome = IF StopIntent(a) THEN "CANCELLED" ELSE o
          /\ task'[a].epoch = task[a].epoch
          /\ result[a] = None
          /\ \A c \in Agents \ {a} : task'[c] = task[c] /\ result'[c] = result[c]
      BY <2>5 DEF StoreTaskResult, ApplyTerminal, CanStoreResult
    <3> HIDE DEF StoreInv, TaskInv, TypeOK, TaskRow
    <3> QED BY <3>1 DEF StopIntent
  <2>6. CASE ReapTask(a)
    BY <2>6 DEF ReapTask
  <2> QED
    BY <1>1, <2>1, <2>2, <2>3, <2>4, <2>5, <2>6
       DEF TaskStep, RequestClose, RequestStop, RequestRuntimeStop
<1>2. ASSUME NEW r \in Resumers, NEW a \in Agents, ResumeStep(r, a)
      PROVE  CancelWinsStep /\ ResultImmutableStep /\ EpochFenceStep
  <2>1. ASSUME NEW m \in Messages, RequeueTaskForResume(r, a, m)
        PROVE  CancelWinsStep /\ ResultImmutableStep /\ EpochFenceStep
    BY <2>1 DEF RequeueTaskForResume, CanRequeue
  <2>2. CASE RestoreTerminalAfterResumeFailure(r, a)
    <3>1. saved[r].row \in TaskRow
      BY <2>2 DEF RestoreTerminalAfterResumeFailure, SnapshotAt, Snapshot
    <3>2. /\ task'[a].epoch = task[a].epoch /\ rolled'[a]
          /\ \A b \in Agents \ {a} : task'[b] = task[b] /\ result'[b] = result[b]
      BY <2>2, <3>1 DEF RestoreTerminalAfterResumeFailure, RestoredRow
    <3>3. result'[a] = result[a] \/ result'[a] = saved[r].result
      BY <2>2 DEF RestoreTerminalAfterResumeFailure
    <3>4. SnapshotAt(r, "start") /\ saved[r].agent = a
      BY <2>2 DEF RestoreTerminalAfterResumeFailure
    <3> QED BY <3>2, <3>3, <3>4
  <2> QED BY <1>0, <1>2, <2>1, <2>2 DEF ResumeStep, CheckTerminal, ReadOriginal, ReadOriginalResult, DropOriginal
<1>3. ASSUME NEW a \in Agents, NEW q \in Requests, RequestStep(a, q)
      PROVE  CancelWinsStep /\ ResultImmutableStep /\ EpochFenceStep
  <2>1. ASSUME NEW c \in Correlations, InsertPendingRequest(q, a, c)
        PROVE  CancelWinsStep /\ ResultImmutableStep /\ EpochFenceStep
    BY <2>1 DEF InsertPendingRequest
  <2>2. CASE CompletePendingResponse(a, q)
    <3>1. CASE /\ task[a].phase = "WAITING_INPUT"
               /\ task' = [task EXCEPT ![a].phase = "RUNNING"]
      BY <2>2, <3>1 DEF CompletePendingResponse, LastOpenRequest
    <3>2. CASE UNCHANGED task
      BY <1>0, <2>2, <3>2 DEF CompletePendingResponse, LastOpenRequest
    <3> QED BY <2>2, <3>1, <3>2 DEF CompletePendingResponse, LastOpenRequest
  <2> QED BY <1>0, <1>3, <2>1, <2>2 DEF RequestStep, ClaimPendingResponse, ReleasePendingResponse
<1> QED
  BY <1>0, <1>1, <1>2, <1>3
     DEF StoreNext, MessageStep, InsertMessage, ClaimNextMessage, CompleteMessage, FailMessage

(* What a step does to delivered, failed and answered commands.            *)
LEMMA CommandsForwardStep ==
  ASSUME StoreInv, StoreNext
  PROVE  CommandsMoveForwardStep
<1> USE DEF CommandsMoveForwardStep, StoreInv, TaskInv, TypeOK, MessageRow, RequestRow
<1>a. ASSUME NEW a \in Agents, SettleTerminalCommands(a) PROVE CommandsMoveForwardStep
  BY <1>a DEF SettleTerminalCommands, SettledMessage, OpenMessages, OpenRequests
<1>b. ASSUME UNCHANGED <<msg, req>> PROVE CommandsMoveForwardStep
  BY <1>b
<1>1. ASSUME NEW a \in Agents, TaskStep(a) PROVE CommandsMoveForwardStep
  <2> HIDE DEF CommandsMoveForwardStep, StoreInv
  <2> QED
    BY <1>1, <1>a, <1>b
       DEF TaskStep, EnqueueTask, ClaimNext, MarkSessionRunning, RequestClose, RequestStop,
           RequestRuntimeStop, RequestStopInternal, StoreTaskResult, ApplyTerminal, ReapTask
<1>2. ASSUME NEW r \in Resumers, NEW a \in Agents, ResumeStep(r, a) PROVE CommandsMoveForwardStep
  <2>1. ASSUME NEW m \in Messages, RequeueTaskForResume(r, a, m) PROVE CommandsMoveForwardStep
    BY <2>1 DEF RequeueTaskForResume, CanRequeue, NewMessage
  <2> QED
    BY <1>2, <1>b, <2>1
       DEF ResumeStep, CheckTerminal, ReadOriginal, ReadOriginalResult,
           RestoreTerminalAfterResumeFailure, DropOriginal
<1>3. ASSUME NEW a \in Agents, NEW m \in Messages, MessageStep(a, m) PROVE CommandsMoveForwardStep
  BY <1>3 DEF MessageStep, InsertMessage, ClaimNextMessage, OldestQueued, QueuedMessages, NewMessage
<1>4. ASSUME NEW m \in Messages, CompleteMessage(m) \/ FailMessage(m) PROVE CommandsMoveForwardStep
  BY <1>4 DEF CompleteMessage, FailMessage
<1>5. ASSUME NEW a \in Agents, NEW q \in Requests, RequestStep(a, q) PROVE CommandsMoveForwardStep
  BY <1>5
     DEF RequestStep, InsertPendingRequest, RequestSlotFree, ClaimPendingResponse,
         CompletePendingResponse, ReleasePendingResponse
<1> QED BY <1>1, <1>2, <1>3, <1>4, <1>5 DEF StoreNext

(* A stop that was requested wins over every later outcome.                *)
THEOREM CancelPrecedence == StoreSpec => CancelWins
<1>1. StoreInv /\ [StoreNext]_storeVars => [CancelWinsStep]_storeVars
  BY ActionSteps
<1> QED BY <1>1, StoreInvariant, PTL DEF StoreSpec, CancelWins

(* Results are immutable until the task is requeued.                       *)
THEOREM ImmutableResults == StoreSpec => ResultImmutable
<1>1. StoreInv /\ [StoreNext]_storeVars => [ResultImmutableStep]_storeVars
  BY ActionSteps
<1> QED BY <1>1, StoreInvariant, PTL DEF StoreSpec, ResultImmutable

(* Epochs grow by one, at claims only.                                     *)
THEOREM EpochsFence == StoreSpec => EpochFence
<1>1. StoreInv /\ [StoreNext]_storeVars => [EpochFenceStep]_storeVars
  BY ActionSteps
<1> QED BY <1>1, StoreInvariant, PTL DEF StoreSpec, EpochFence

(* Commands never move back.                                               *)
THEOREM CommandsForward == StoreSpec => CommandsMoveForward
<1>1. StoreInv /\ [StoreNext]_storeVars => [CommandsMoveForwardStep]_storeVars
  BY CommandsForwardStep
<1> QED BY <1>1, StoreInvariant, PTL DEF StoreSpec, CommandsMoveForward

=============================================================================
