----------------------------- MODULE TaskStore -----------------------------
(***************************************************************************)
(* The durable task store of the daemon (zcode-agent-store): the tasks,    *)
(* messages, pending_requests, task_results and lifecycle_ledger tables,   *)
(* and one action per Store method that changes them.                      *)
(*                                                                         *)
(* A Store holds one SQLite connection behind one mutex and every method   *)
(* is one immediate transaction, so every action is atomic.  A method that *)
(* returns an error, None or false without writing is a step that changes  *)
(* nothing: it is left to stuttering, and the conditions under which it    *)
(* happens are the negation of the action's guard.                         *)
(***************************************************************************)
EXTENDS Integers, FiniteSets

CONSTANTS
  Agents,             \* agent ids
  Workspaces,         \* canonical workspaces (repository = workspace_path)
  Keys,               \* idempotency keys
  WorkspaceOf,        \* the workspace and the key an agent id is the hash of
  KeyOf,
  Messages,           \* message ids chosen by the callers of task_send
  Requests,           \* request ids of permission and input requests
  Correlations,       \* wire ids of those requests
  Resumers,           \* threads that serve task_send on a terminal task
  Bodies,             \* contents of results, told apart by their digest
  ResultOutcomes,     \* the outcomes callers store (all of them in the code)
  PerWorkspaceLimit,  \* SchedulerConfig.per_workspace_max_agents
  MaxEpoch,           \* bound on claims of one task
  None                \* SQL NULL, or a row that is absent

Phases == {"QUEUED", "PREPARING", "RUNNING", "WAITING_INPUT", "CANCELLING", "TERMINAL"}

Outcomes == {"COMPLETED", "FAILED", "CANCELLED", "TIMED_OUT", "BUDGET_EXHAUSTED",
             "RUNTIME_LOST", "RESULT_INVALID"}

ASSUME StoreAssumption ==
  /\ WorkspaceOf \in [Agents -> Workspaces]
  /\ KeyOf \in [Agents -> Keys]
  /\ \A a, b \in Agents :
        WorkspaceOf[a] = WorkspaceOf[b] /\ KeyOf[a] = KeyOf[b] => a = b
  /\ ResultOutcomes \subseteq Outcomes
  /\ PerWorkspaceLimit \in Nat \ {0}
  /\ MaxEpoch \in Nat
  /\ IsFiniteSet(Agents) /\ IsFiniteSet(Messages)
  /\ None \notin Agents \cup Outcomes \cup Correlations

VARIABLES
  task,     \* tasks: one row per agent id
  msg,      \* messages
  req,      \* pending_requests
  result,   \* task_results
  ledger,   \* the latest lifecycle_ledger entry of each task
  saved,    \* what each resumer read of a terminal task before requeuing it
  rolled,   \* history: a resume rollback overwrote the row, not yet settled
  torn      \* history: that rollback wrote a row and a result read apart

storeVars == <<task, msg, req, result, ledger, saved, rolled, torn>>

-----------------------------------------------------------------------------
(* Rows.  The phase ABSENT stands for no row.  rowid is the order of       *)
(* insertion, which is the order of (created_at, rowid).  runtime is the   *)
(* epoch in runtime_agent_id = "agent:epoch", written together with the    *)
(* process identity; 0 is NULL.                                            *)

TaskRow ==
  [phase : Phases \cup {"ABSENT"}, outcome : Outcomes \cup {None}, rowid : Nat,
   epoch : Nat, stop : BOOLEAN, close : BOOLEAN, session : BOOLEAN,
   runtime : Nat, reaped : BOOLEAN]

NoTask ==
  [phase |-> "ABSENT", outcome |-> None, rowid |-> 0, epoch |-> 0, stop |-> FALSE,
   close |-> FALSE, session |-> FALSE, runtime |-> 0, reaped |-> FALSE]

MessageRow ==
  [state : {"ABSENT", "QUEUED", "SENDING", "DELIVERED", "FAILED"},
   agent : Agents \cup {None}, rowid : Nat]

NoMessage == [state |-> "ABSENT", agent |-> None, rowid |-> 0]

RequestRow ==
  [state : {"ABSENT", "PENDING", "SENDING", "RESPONDED"},
   agent : Agents \cup {None}, corr : Correlations \cup {None}]

NoRequest == [state |-> "ABSENT", agent |-> None, corr |-> None]

TaskResult == [outcome : Outcomes, body : Bodies]

ASSUME NoneIsNoResult == None \notin TaskResult

(* The locals original and original_result of queue_message, and the store *)
(* call it makes next; three reads come before the requeue.                *)
Snapshot ==
  [agent : Agents, row : TaskRow, result : TaskResult \cup {None},
   step : {"readRow", "readResult", "requeue", "start"}]

(* Every table holds well-formed rows; the schema's CHECK constraints and  *)
(* the parsers of phases, outcomes and states never meet another value.    *)
TypeOK ==
  /\ task \in [Agents -> TaskRow]
  /\ msg \in [Messages -> MessageRow]
  /\ req \in [Requests -> RequestRow]
  /\ result \in [Agents -> TaskResult \cup {None}]
  /\ ledger \in [Agents -> [to : Phases \cup {"ABSENT"}, epoch : Nat]]
  /\ saved \in [Resumers -> Snapshot \cup {None}]
  /\ rolled \in [Agents -> BOOLEAN]
  /\ torn \in [Agents -> BOOLEAN]

StoreInit ==
  /\ task = [a \in Agents |-> NoTask]
  /\ msg = [m \in Messages |-> NoMessage]
  /\ req = [q \in Requests |-> NoRequest]
  /\ result = [a \in Agents |-> None]
  /\ ledger = [a \in Agents |-> [to |-> "ABSENT", epoch |-> 0]]
  /\ saved = [r \in Resumers |-> None]
  /\ rolled = [a \in Agents |-> FALSE]
  /\ torn = [a \in Agents |-> FALSE]

-----------------------------------------------------------------------------
ActivePhases == {"PREPARING", "RUNNING", "WAITING_INPUT", "CANCELLING"}

Live(a) == task[a].phase \in {"QUEUED"} \cup ActivePhases

\* Mutant: only close_requested is read.
StopIntentIgnoresStop(a) == task[a].close

StopIntent(a) == task[a].stop \/ task[a].close

OpenMessages(a) ==
  {m \in Messages : msg[m].agent = a /\ msg[m].state \in {"QUEUED", "SENDING"}}

OpenRequests(a) ==
  {q \in Requests : req[q].agent = a /\ req[q].state \in {"PENDING", "SENDING"}}

ActiveInWorkspace(w) ==
  {b \in Agents : WorkspaceOf[b] = w /\ task[b].phase \in ActivePhases}

Record(a, phase, epoch) ==
  ledger' = [ledger EXCEPT ![a] = [to |-> phase, epoch |-> epoch]]

\* Mutant: only the message being sent is settled.
SettlesOnlySending(row) == IF row.state = "SENDING" THEN [row EXCEPT !.state = "FAILED"] ELSE row

\* Mutant: a state the schema does not know.
SettlesAsCancelled(row) == [row EXCEPT !.state = "CANCELLED"]

SettledMessage(row) == [row EXCEPT !.state = "FAILED"]

(* Messages not yet delivered fail, unanswered requests are deleted.       *)
SettleTerminalCommands(a) ==
  /\ msg' = [m \in Messages |->
               IF m \in OpenMessages(a) THEN SettledMessage(msg[m]) ELSE msg[m]]
  /\ req' = [q \in Requests |-> IF q \in OpenRequests(a) THEN NoRequest ELSE req[q]]
  /\ rolled' = [rolled EXCEPT ![a] = FALSE]

(* A task that was asked to stop or close ends CANCELLED whatever the      *)
(* caller says.                                                            *)
ApplyTerminal(a, outcome) ==
  /\ task' = [task EXCEPT ![a] =
                  [@ EXCEPT !.phase = "TERMINAL",
                            !.outcome = IF StopIntent(a) THEN "CANCELLED" ELSE outcome]]
  /\ SettleTerminalCommands(a)
  /\ Record(a, "TERMINAL", task[a].epoch)

-----------------------------------------------------------------------------
(* Submission and claiming.                                                *)

NextRowid == Cardinality({b \in Agents : task[b].phase # "ABSENT"}) + 1

(* A known key or agent id answers Existing or Conflict and writes nothing. *)
EnqueueTask(a) ==
  /\ \A b \in Agents : task[b].phase # "ABSENT" => KeyOf[b] # KeyOf[a]
  /\ \A b \in Agents : WorkspaceOf[b] = WorkspaceOf[a] => ~Live(b)
  /\ task' = [task EXCEPT ![a] = [NoTask EXCEPT !.phase = "QUEUED", !.rowid = NextRowid]]
  /\ Record(a, "QUEUED", 0)
  /\ UNCHANGED <<msg, req, result, saved, rolled, torn>>

Claimable(a) ==
  /\ task[a].phase = "QUEUED"
  /\ ~task[a].close
  /\ Cardinality(ActiveInWorkspace(WorkspaceOf[a])) < PerWorkspaceLimit

ClaimNext(a) ==
  /\ Claimable(a)
  /\ \A b \in Agents : Claimable(b) => task[a].rowid <= task[b].rowid
  /\ task[a].epoch < MaxEpoch
  /\ task' = [task EXCEPT ![a] =
                  [@ EXCEPT !.phase = "PREPARING", !.epoch = task[a].epoch + 1]]
  /\ Record(a, "PREPARING", task[a].epoch + 1)
  /\ UNCHANGED <<msg, req, result, saved, rolled, torn>>

\* Mutant: the epoch of the claim is not compared.
MarksAnyEpoch(a, e) == task[a].phase = "PREPARING"

CanMarkRunning(a, e) == task[a].phase = "PREPARING" /\ task[a].epoch = e

MarkSessionRunning(a, e) ==
  /\ CanMarkRunning(a, e)
  /\ task' = [task EXCEPT ![a] =
                  [@ EXCEPT !.phase = "RUNNING", !.runtime = e, !.session = TRUE]]
  /\ Record(a, "RUNNING", e)
  /\ UNCHANGED <<msg, req, result, saved, rolled, torn>>

-----------------------------------------------------------------------------
(* Stopping.  request_close and request_stop record the caller's intent,   *)
(* request_runtime_stop (timeouts, budgets, cleanup) does not.             *)

RequestStopInternal(a, close, intent) ==
  /\ task[a].phase # "ABSENT"
  /\ task' = [task EXCEPT ![a] =
                  [@ EXCEPT !.phase = IF task[a].phase = "TERMINAL" THEN "TERMINAL"
                                                                    ELSE "CANCELLING",
                            !.close = task[a].close \/ close,
                            !.stop = task[a].stop \/ intent]]
  /\ IF task[a].phase = "TERMINAL"
       THEN UNCHANGED <<msg, req, rolled, ledger>>
       ELSE /\ SettleTerminalCommands(a)
            /\ IF task[a].phase = "CANCELLING"
                 THEN UNCHANGED ledger
                 ELSE Record(a, "CANCELLING", task[a].epoch)
  /\ UNCHANGED <<result, saved, torn>>

RequestClose(a) == RequestStopInternal(a, TRUE, TRUE)

RequestStop(a) == RequestStopInternal(a, FALSE, TRUE)

RequestRuntimeStop(a) == RequestStopInternal(a, FALSE, FALSE)

-----------------------------------------------------------------------------
(* Results.                                                                *)

\* Mutant: the caller's outcome is stored over a requested stop.
StoresOverStop(a, outcome) ==
  /\ result[a] = None
  /\ task[a].phase \in ActivePhases
  /\ outcome = "COMPLETED" => OpenMessages(a) = {} /\ OpenRequests(a) = {}

\* Mutant: a second result replaces the first.
StoresAgain(a, outcome) ==
  /\ task[a].phase \in ActivePhases \cup {"TERMINAL"}
  /\ outcome = "COMPLETED" => OpenMessages(a) = {} /\ OpenRequests(a) = {}
  /\ StopIntent(a) => outcome = "CANCELLED"

CanStoreResult(a, outcome) ==
  /\ result[a] = None
  /\ task[a].phase \in ActivePhases
  /\ outcome = "COMPLETED" => OpenMessages(a) = {} /\ OpenRequests(a) = {}
  /\ StopIntent(a) => outcome = "CANCELLED"

StoreTaskResult(a, outcome, body) ==
  /\ CanStoreResult(a, outcome)
  /\ result' = [result EXCEPT ![a] = [outcome |-> outcome, body |-> body]]
  /\ ApplyTerminal(a, outcome)
  /\ UNCHANGED <<saved, torn>>

ReapTask(a) ==
  /\ task[a].phase = "TERMINAL"
  /\ task' = [task EXCEPT ![a].reaped = TRUE]
  /\ UNCHANGED <<msg, req, result, ledger, saved, rolled, torn>>

-----------------------------------------------------------------------------
(* Resuming a terminal task with a new message.                            *)

CheckTerminal(r, a) ==
  /\ saved[r] = None
  /\ task[a].phase = "TERMINAL"
  /\ saved' = [saved EXCEPT ![r] =
                  [agent |-> a, row |-> NoTask, result |-> None, step |-> "readRow"]]
  /\ UNCHANGED <<task, msg, req, result, ledger, rolled, torn>>

SnapshotAt(r, step) == saved[r] # None /\ saved[r].step = step

ReadOriginal(r) ==
  /\ SnapshotAt(r, "readRow")
  /\ saved' = [saved EXCEPT ![r] =
                  [@ EXCEPT !.row = task[saved[r].agent], !.step = "readResult"]]
  /\ UNCHANGED <<task, msg, req, result, ledger, rolled, torn>>

ReadOriginalResult(r) ==
  /\ SnapshotAt(r, "readResult")
  /\ saved' = [saved EXCEPT ![r] =
                  [@ EXCEPT !.result = result[saved[r].agent], !.step = "requeue"]]
  /\ UNCHANGED <<task, msg, req, result, ledger, rolled, torn>>

NextMessageRowid == Cardinality({m \in Messages : msg[m].state # "ABSENT"}) + 1

NewMessage(a) == [state |-> "QUEUED", agent |-> a, rowid |-> NextMessageRowid]

\* Mutant: the workspace is not checked on resume.
RequeuesIntoBusyWorkspace(a, m) ==
  /\ task[a].phase = "TERMINAL"
  /\ task[a].session
  /\ msg[m].state = "ABSENT"

CanRequeue(a, m) ==
  /\ task[a].phase = "TERMINAL"
  /\ task[a].session
  /\ \A b \in Agents \ {a} : WorkspaceOf[b] = WorkspaceOf[a] => ~Live(b)
  /\ msg[m].state = "ABSENT"

(* owner_epoch and zcode_session_id survive; the result is deleted.        *)
RequeueTaskForResume(r, a, m) ==
  /\ SnapshotAt(r, "requeue") /\ saved[r].agent = a
  /\ CanRequeue(a, m)
  /\ saved' = [saved EXCEPT ![r].step = "start"]
  /\ task' = [task EXCEPT ![a] =
                  [@ EXCEPT !.phase = "QUEUED", !.outcome = None, !.stop = FALSE,
                            !.close = FALSE, !.runtime = 0, !.reaped = FALSE]]
  /\ result' = [result EXCEPT ![a] = None]
  /\ msg' = [msg EXCEPT ![m] = NewMessage(a)]
  /\ torn' = [torn EXCEPT ![a] = FALSE]
  /\ Record(a, "QUEUED", task[a].epoch)
  /\ UNCHANGED <<req, rolled>>

RestoredRow(r, a) ==
  [saved[r].row EXCEPT !.phase = "TERMINAL", !.epoch = task[a].epoch, !.rowid = task[a].rowid]

(* The row and the result that were read belong together.                  *)
Coherent(r) ==
  /\ saved[r].row.outcome # None
  /\ saved[r].result # None
  /\ saved[r].result.outcome = saved[r].row.outcome

(* The rollback writes the columns it saved whatever the row holds by now, *)
(* owner_epoch excepted, and the result if one was read; it settles no     *)
(* command and writes no ledger entry.                                     *)
RestoreTerminalAfterResumeFailure(r, a) ==
  /\ SnapshotAt(r, "start") /\ saved[r].agent = a
  /\ task' = [task EXCEPT ![a] = RestoredRow(r, a)]
  /\ result' = [result EXCEPT ![a] = IF saved[r].result = None THEN @ ELSE saved[r].result]
  /\ torn' = [torn EXCEPT ![a] = ~Coherent(r)]
  /\ rolled' = [rolled EXCEPT ![a] = TRUE]
  /\ saved' = [saved EXCEPT ![r] = None]
  /\ UNCHANGED <<msg, req, ledger>>

(* queue_message returns without a rollback.                               *)
DropOriginal(r) ==
  /\ saved[r] # None
  /\ saved' = [saved EXCEPT ![r] = None]
  /\ UNCHANGED <<task, msg, req, result, ledger, rolled, torn>>

-----------------------------------------------------------------------------
(* Messages.                                                               *)

CanInsertMessage(a) ==
  /\ Live(a)
  /\ ~StopIntent(a)

InsertMessage(m, a) ==
  /\ CanInsertMessage(a)
  /\ msg[m].state = "ABSENT"
  /\ msg' = [msg EXCEPT ![m] = NewMessage(a)]
  /\ UNCHANGED <<task, req, result, ledger, saved, rolled, torn>>

QueuedMessages(a) == {m \in Messages : msg[m].agent = a /\ msg[m].state = "QUEUED"}

CanClaimMessage(a) ==
  /\ task[a].phase = "RUNNING"
  /\ ~StopIntent(a)

\* Mutant: SELECT without ORDER BY.
AnyQueued(a, m) == m \in QueuedMessages(a)

OldestQueued(a, m) ==
  /\ m \in QueuedMessages(a)
  /\ \A n \in QueuedMessages(a) : msg[m].rowid <= msg[n].rowid

ClaimNextMessage(a, m) ==
  /\ CanClaimMessage(a)
  /\ OldestQueued(a, m)
  /\ msg' = [msg EXCEPT ![m].state = "SENDING"]
  /\ UNCHANGED <<task, req, result, ledger, saved, rolled, torn>>

CompleteMessage(m) ==
  /\ msg[m].state = "SENDING"
  /\ msg' = [msg EXCEPT ![m].state = "DELIVERED"]
  /\ UNCHANGED <<task, req, result, ledger, saved, rolled, torn>>

\* Mutant: the state of the message is not compared.
FailsAnyMessage(m) ==
  /\ msg[m].state # "ABSENT"
  /\ msg' = [msg EXCEPT ![m].state = "FAILED"]
  /\ UNCHANGED <<task, req, result, ledger, saved, rolled, torn>>

FailMessage(m) ==
  /\ msg[m].state \in {"QUEUED", "SENDING"}
  /\ msg' = [msg EXCEPT ![m].state = "FAILED"]
  /\ UNCHANGED <<task, req, result, ledger, saved, rolled, torn>>

-----------------------------------------------------------------------------
(* Permission and input requests of the runtime.                           *)

CanInsertRequest(a) ==
  /\ task[a].phase \in {"RUNNING", "WAITING_INPUT"}
  /\ ~StopIntent(a)

(* The primary key and UNIQUE(agent_id, correlation_id) are both free.     *)
RequestSlotFree(q, a, c) ==
  /\ req[q].state = "ABSENT"
  /\ \A p \in Requests : req[p].agent = a => req[p].corr # c

InsertPendingRequest(q, a, c) ==
  /\ CanInsertRequest(a)
  /\ RequestSlotFree(q, a, c)
  /\ req' = [req EXCEPT ![q] = [state |-> "PENDING", agent |-> a, corr |-> c]]
  /\ task' = [task EXCEPT ![a].phase = "WAITING_INPUT"]
  /\ IF task[a].phase = "RUNNING"
       THEN Record(a, "WAITING_INPUT", task[a].epoch)
       ELSE UNCHANGED ledger
  /\ UNCHANGED <<msg, result, saved, rolled, torn>>

ClaimPendingResponse(a, q) ==
  /\ req[q].agent = a
  /\ req[q].state = "PENDING"
  /\ CanInsertRequest(a)
  /\ req' = [req EXCEPT ![q].state = "SENDING"]
  /\ UNCHANGED <<task, msg, result, ledger, saved, rolled, torn>>

\* Mutant: any answer returns a waiting task to RUNNING.
AnyOpenRequest(a, q) == q \in OpenRequests(a)

LastOpenRequest(a, q) == OpenRequests(a) = {q}

(* The last answer returns a waiting task to RUNNING.                      *)
CompletePendingResponse(a, q) ==
  /\ req[q].agent = a
  /\ req[q].state = "SENDING"
  /\ req' = [req EXCEPT ![q].state = "RESPONDED"]
  /\ IF /\ LastOpenRequest(a, q)
        /\ task[a].phase = "WAITING_INPUT"
        /\ ~StopIntent(a)
       THEN /\ task' = [task EXCEPT ![a].phase = "RUNNING"]
            /\ Record(a, "RUNNING", task[a].epoch)
       ELSE UNCHANGED <<task, ledger>>
  /\ UNCHANGED <<msg, result, saved, rolled, torn>>

ReleasePendingResponse(a, q) ==
  /\ req[q].agent = a
  /\ req[q].state = "SENDING"
  /\ req' = [req EXCEPT ![q].state = "PENDING"]
  /\ UNCHANGED <<task, msg, result, ledger, saved, rolled, torn>>

-----------------------------------------------------------------------------
(* Any caller may call any method at any time.                             *)

TaskStep(a) ==
  \/ EnqueueTask(a)
  \/ ClaimNext(a)
  \/ \E e \in 1..MaxEpoch : MarkSessionRunning(a, e)
  \/ RequestClose(a)
  \/ RequestStop(a)
  \/ RequestRuntimeStop(a)
  \/ \E o \in ResultOutcomes, b \in Bodies : StoreTaskResult(a, o, b)
  \/ ReapTask(a)

ResumeStep(r, a) ==
  \/ CheckTerminal(r, a)
  \/ ReadOriginal(r)
  \/ ReadOriginalResult(r)
  \/ \E m \in Messages : RequeueTaskForResume(r, a, m)
  \/ RestoreTerminalAfterResumeFailure(r, a)
  \/ DropOriginal(r)

MessageStep(a, m) ==
  \/ InsertMessage(m, a)
  \/ ClaimNextMessage(a, m)

RequestStep(a, q) ==
  \/ \E c \in Correlations : InsertPendingRequest(q, a, c)
  \/ ClaimPendingResponse(a, q)
  \/ CompletePendingResponse(a, q)
  \/ ReleasePendingResponse(a, q)

StoreNext ==
  \/ \E a \in Agents : TaskStep(a)
  \/ \E r \in Resumers, a \in Agents : ResumeStep(r, a)
  \/ \E a \in Agents, m \in Messages : MessageStep(a, m)
  \/ \E m \in Messages : CompleteMessage(m) \/ FailMessage(m)
  \/ \E a \in Agents, q \in Requests : RequestStep(a, q)

StoreSpec == StoreInit /\ [][StoreNext]_storeVars

-----------------------------------------------------------------------------
(* Safety.                                                                 *)

(* A task is TERMINAL exactly when it has an outcome and exactly when its  *)
(* immutable result is stored, and the two agree, unless a rollback wrote  *)
(* a row and a result that were read around another resume.  task_result,  *)
(* and the startup recovery that refuses a terminal task without a result, *)
(* rest on it across completion, requeue and rollback.                     *)
TerminalHasResult ==
  \A a \in Agents :
    /\ result[a] # None => task[a].phase = "TERMINAL"
    /\ task[a].outcome # None => task[a].phase = "TERMINAL"
    /\ task[a].phase = "TERMINAL" /\ ~torn[a] =>
         result[a] # None /\ task[a].outcome = result[a].outcome

(* One canonical workspace has at most one task that is not terminal, over *)
(* submissions and resumes alike.                                          *)
WorkspaceExclusive ==
  \A a, b \in Agents :
    WorkspaceOf[a] = WorkspaceOf[b] /\ Live(a) /\ Live(b) => a = b

(* A task waits for input exactly while it has an unanswered request: it   *)
(* neither runs over an open request nor waits for an answer nobody owes.  *)
InputWaitMatchesRequests ==
  \A a \in Agents :
    ~rolled[a] => (task[a].phase = "WAITING_INPUT" <=> OpenRequests(a) # {})

(* A requested stop or close holds the task in CANCELLING, with nothing    *)
(* left to deliver or answer, until it is terminal; a terminal task has    *)
(* no command open either.                                                 *)
StopFencesCommands ==
  \A a \in Agents :
    ~rolled[a] =>
      /\ Live(a) /\ StopIntent(a) => task[a].phase = "CANCELLING"
      /\ task[a].phase = "TERMINAL" \/ (Live(a) /\ StopIntent(a)) =>
           OpenMessages(a) = {} /\ OpenRequests(a) = {}

(* A running row names the runtime of the epoch that claimed it, and a row *)
(* that is queued or preparing names none: startup recovery reads the      *)
(* process to reap, or that there is none, from the row alone.             *)
RuntimeBelongsToClaim ==
  \A a \in Agents :
    /\ task[a].phase \in {"RUNNING", "WAITING_INPUT"} =>
         task[a].runtime = task[a].epoch /\ task[a].session
    /\ task[a].phase = "CANCELLING" => task[a].runtime \in {0, task[a].epoch}
    /\ task[a].phase \in {"ABSENT", "QUEUED", "PREPARING"} => task[a].runtime = 0

(* Messages of a task leave the queue in the order they entered it.        *)
MessagesInOrder ==
  \A m, n \in Messages :
    /\ msg[m].agent = msg[n].agent
    /\ msg[m].rowid < msg[n].rowid
    /\ msg[n].state \in {"SENDING", "DELIVERED"}
    => msg[m].state # "QUEUED"

(* The ledger's latest entry is the phase and epoch of every live task.    *)
LedgerFollowsPhase ==
  \A a \in Agents :
    Live(a) => ledger[a] = [to |-> task[a].phase, epoch |-> task[a].epoch]

-----------------------------------------------------------------------------
(* What a step may never do.                                               *)

(* A live task that was asked to stop or close ends CANCELLED, unless a    *)
(* resume rollback overwrites it.                                          *)
CancelWinsStep ==
  \A a \in Agents :
    Live(a) /\ (task[a].stop \/ task[a].close) /\ task'[a].phase = "TERMINAL" =>
      task'[a].outcome = "CANCELLED" \/ rolled'[a]

CancelWins == [][CancelWinsStep]_storeVars

(* A stored result never changes; it goes only when the task is requeued,  *)
(* and a resumer that requeued it may only put back the one it read.       *)
ResultImmutableStep ==
  \A a \in Agents :
    result[a] # None /\ result'[a] # result[a] =>
      \/ task'[a].phase = "QUEUED" /\ result'[a] = None
      \/ \E r \in Resumers :
           /\ SnapshotAt(r, "start") /\ saved[r].agent = a
           /\ result'[a] = saved[r].result

ResultImmutable == [][ResultImmutableStep]_storeVars

(* Only a claim changes the epoch of a task, by one: no two runtimes of a  *)
(* task share an epoch, so a write fenced by an epoch is from its claim.   *)
EpochFenceStep ==
  \A a \in Agents :
    task'[a].epoch # task[a].epoch =>
      /\ task'[a].epoch = task[a].epoch + 1
      /\ task[a].phase = "QUEUED" /\ task'[a].phase = "PREPARING"

EpochFence == [][EpochFenceStep]_storeVars

(* A message is claimed for delivery once and a final state stays: a       *)
(* retried task_send never delivers twice, an answer is never undone.      *)
CommandsMoveForwardStep ==
  /\ \A m \in Messages :
       /\ msg[m].state \in {"DELIVERED", "FAILED"} => msg'[m] = msg[m]
       /\ msg[m].state = "SENDING" => msg'[m].state # "QUEUED"
       /\ msg[m].state # "ABSENT" => msg'[m].agent = msg[m].agent
  /\ \A q \in Requests : req[q].state = "RESPONDED" => req'[q] = req[q]

CommandsMoveForward == [][CommandsMoveForwardStep]_storeVars

=============================================================================
