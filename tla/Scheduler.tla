----------------------------- MODULE Scheduler -----------------------------
(***************************************************************************)
(* The scheduler of the daemon (zcode-agentd): the threads that submit,    *)
(* claim, start, monitor, cancel, resume and recover tasks over the task   *)
(* store, the runtime processes they own, and crashes of the daemon.       *)
(*                                                                         *)
(* A step is one store call of one thread together with the in-memory work *)
(* up to its next store call or blocking point; any two threads interleave *)
(* between steps.  A claim of a task is identified by its owner_epoch: the *)
(* thread that runs start_claim and then the monitor of that claim, its    *)
(* runtime, sink and operation lock are the incarnation inc[a][e].         *)
(***************************************************************************)
EXTENDS TaskStore

CONSTANTS
  Callers,        \* RPC threads, each serving one cancel
  Closers,        \* or, the callers among these, one close
  Senders,        \* RPC threads, each serving one task_send to a live task
  MaxCrashes,     \* bound on daemon crashes
  CleanupMayFail  \* whether a stop may fail to prove the process group reaped,
                  \* or the finalizer to prove the worktree clean

ASSUME SchedulerAssumption ==
  /\ MaxCrashes \in Nat
  /\ CleanupMayFail \in BOOLEAN
  /\ Closers \subseteq Callers
  /\ {"free", "self"} \cap (Callers \cup Senders) = {}
  /\ Callers \cap Senders = {}

(* The outcomes the scheduler stores of its own accord.                    *)
ASSUME OutcomesAssumption ==
  {"CANCELLED", "FAILED", "RUNTIME_LOST", "RESULT_INVALID"} \subseteq ResultOutcomes

Epochs == 1..MaxEpoch

VARIABLES
  inc,      \* incarnations: one per agent and epoch
  active,   \* SchedulerState.active: the epoch of an agent's entry, 0 for none
  ctl,      \* cancel and close calls
  run,      \* start_ready of each resumer
  send,     \* task_send calls to a live task
  daemon,   \* "up", "starting" (reconcile_startup) or "refused" (it failed)
  crashes

memVars == <<inc, active, ctl, run, send, daemon, crashes>>

vars == <<storeVars, memVars>>

-----------------------------------------------------------------------------
(* pc: where the thread is in start_claim, its cleanup or spawn_monitor.   *)
(* ret: what start_claim is to return ("started" is Ok(true), and then the *)
(* thread is the monitor).  proc: the runtime as its owner knows it, alive *)
(* or by its terminal: "stopped" and "completed" prove the process group   *)
(* reaped, "lost" does not.  life: RuntimeLifecycle (StopRequested,        *)
(* StopAcknowledged and ForceTerminating are "Stopping").  lock: the       *)
(* operation mutex.  outcome: what the thread is to persist.  failure:     *)
(* the argument of cleanup_registered_runtime.  bail: an error returns     *)
(* before release_active (finish_monitor_timeout).  written: the sink's    *)
(* terminal_written, "writing" while finish_general holds write_state.     *)

Pcs == {"none", "claimed", "booting", "booted", "registered", "unmarked", "marked",
        "delivering", "cleanup", "stopping", "monitor", "sending", "timeout", "finish",
        "persist", "fallback", "reap", "done"}

Procs == {"none", "alive", "stopped", "completed", "lost"}

Lives == {"Running", "Stopping", "Terminal"}

Locks == {"free", "self"} \cup Callers \cup Senders

Incarnation ==
  [pc : Pcs, resumed : BOOLEAN, ret : {"none", "started", "notStarted", "error"},
   failure : BOOLEAN, bail : BOOLEAN, proc : Procs, turn : {"idle", "active", "completed", "failed"},
   life : Lives, lock : Locks, outcome : Outcomes \cup {None}, written : {"no", "writing", "yes"}]

NoIncarnation ==
  [pc |-> "none", resumed |-> FALSE, ret |-> "none", failure |-> FALSE, bail |-> FALSE,
   proc |-> "none", turn |-> "idle", life |-> "Running", lock |-> "free", outcome |-> None, written |-> "no"]

(* A cancel or close call: the entry it read (epoch), the entry whose sink *)
(* it writes through (sink).                                               *)
CallPcs == {"idle", "request", "lock", "failClosed", "cleanup", "persist", "fallback", "reap", "done"}

Call ==
  [pc : CallPcs,
   agent : Agents \cup {None}, epoch : 0..MaxEpoch, sink : 0..MaxEpoch,
   outcome : Outcomes \cup {None}]

NoCall == [pc |-> "idle", agent |-> None, epoch |-> 0, sink |-> 0, outcome |-> None]

CallReturned == [NoCall EXCEPT !.pc = "done"]

(* start_ready of a resumer: the claim it is in, and what it has started.  *)
Run ==
  [pc : {"idle", "claiming", "failed", "restore", "done"},
   agent : Agents \cup {None}, epoch : 0..MaxEpoch, started : SUBSET Agents]

NoRun == [pc |-> "idle", agent |-> None, epoch |-> 0, started |-> {}]

(* queue_message: the entry it read, 0 for none.                           *)
Send ==
  [pc : {"idle", "read", "admitted", "done"}, agent : Agents \cup {None}, epoch : 0..MaxEpoch]

NoSend == [pc |-> "idle", agent |-> None, epoch |-> 0]

SendReturned == [NoSend EXCEPT !.pc = "done"]

(* Every thread, lock and process is in a state the code has.              *)
SchedulerTypeOK ==
  /\ inc \in [Agents -> [Epochs -> Incarnation]]
  /\ active \in [Agents -> 0..MaxEpoch]
  /\ ctl \in [Callers -> Call]
  /\ run \in [Resumers -> Run]
  /\ send \in [Senders -> Send]
  /\ daemon \in {"up", "starting", "refused"}
  /\ crashes \in 0..MaxCrashes

SchedulerInit ==
  /\ StoreInit
  /\ inc = [a \in Agents |-> [e \in Epochs |-> NoIncarnation]]
  /\ active = [a \in Agents |-> 0]
  /\ ctl = [c \in Callers |-> NoCall]
  /\ run = [r \in Resumers |-> NoRun]
  /\ send = [s \in Senders |-> NoSend]
  /\ daemon = "up"
  /\ crashes = 0

-----------------------------------------------------------------------------
(* Finishing a task: shared by the claim, monitor and control threads.     *)

(* What is stored instead of outcome: CANCELLED after a requested stop;    *)
(* RESULT_INVALID for a COMPLETED that open commands block.                *)
EffectiveOutcome(a, outcome) ==
  IF StopIntent(a) THEN "CANCELLED"
  ELSE IF outcome = "COMPLETED" /\ (OpenMessages(a) # {} \/ OpenRequests(a) # {})
    THEN "RESULT_INVALID"
    ELSE outcome

\* Mutant: the task is terminal before its result is stored.
TerminalWithoutResult(a, outcome) ==
  /\ task' = [task EXCEPT ![a].phase = "TERMINAL", ![a].outcome = outcome]
  /\ UNCHANGED <<msg, req, result, ledger, saved, rolled, torn>>

(* store_result_with_cancel_precedence and its RESULT_INVALID fallback are *)
(* one step: which of their calls stores depends only on the row.          *)
PersistGeneralCompletion(a, outcome) ==
  IF CanStoreResult(a, EffectiveOutcome(a, outcome))
    THEN \E b \in Bodies : StoreTaskResult(a, EffectiveOutcome(a, outcome), b)
    ELSE UNCHANGED storeVars

(* finish_general of the sink of epoch e gets past append_lifecycle and    *)
(* stores: only for the epoch that owns the task.                          *)
SinkStores(a, e, outcome) ==
  /\ task[a].epoch = e
  /\ CanStoreResult(a, IF StopIntent(a) THEN "CANCELLED" ELSE outcome)

ProvesReaped(proc) == proc \in {"none", "stopped", "completed"}

Cleaned == IF CleanupMayFail THEN BOOLEAN ELSE {TRUE}

ReapIfProved(a, proc) ==
  \E cleaned \in Cleaned :
    IF cleaned /\ ProvesReaped(proc) /\ task[a].phase = "TERMINAL"
      THEN ReapTask(a)
      ELSE UNCHANGED storeVars

\* Mutant: the turn is stopped, and the process left.
StopsOnlyTheTurn(proc, terminal) == {proc}

\* Mutant: the exit status is reported as it is.
StopsWithExit(proc, terminal) == IF proc = "alive" THEN {"exited"} ELSE {proc}

(* What stopping a runtime leaves of it: the first terminal stays.         *)
Stopped(proc, terminal) ==
  IF proc = "alive" THEN {terminal} \cup (IF CleanupMayFail THEN {"lost"} ELSE {}) ELSE {proc}

RequestLifeStop(life) == IF life = "Running" THEN "Stopping" ELSE life

(* release_active: the entry goes only if it is this epoch's.              *)
ReleaseActive(a, e) == active' = [active EXCEPT ![a] = IF @ = e THEN 0 ELSE @]

At(a, e, pc) == daemon = "up" /\ inc[a][e].pc = pc

Goto(a, e, row) == inc' = [inc EXCEPT ![a][e] = row]

Free(a, e) == inc[a][e].lock = "free"

\* Mutant: write_state stays locked.
KeepsWriting(a, e, row) ==
  /\ Goto(a, e, [row EXCEPT !.pc = "done", !.outcome = None, !.failure = FALSE, !.bail = FALSE,
                            !.life = IF active[a] = e THEN "Terminal" ELSE @,
                            !.lock = IF @ = "self" THEN "free" ELSE @])
  /\ ReleaseActive(a, e)

(* The thread is done: it drops its lock and its locals, and releases its  *)
(* entry.                                                                  *)
Done(a, e, row) ==
  /\ Goto(a, e, [row EXCEPT !.pc = "done", !.outcome = None, !.failure = FALSE, !.bail = FALSE,
                            !.life = IF active[a] = e THEN "Terminal" ELSE @,
                            !.lock = IF @ = "self" THEN "free" ELSE @,
                            !.written = IF @ = "writing" THEN "yes" ELSE @])
  /\ ReleaseActive(a, e)

-----------------------------------------------------------------------------
(* start_claim.                                                            *)

Claim(a) ==
  /\ daemon = "up"
  /\ ClaimNext(a)
  /\ Goto(a, task[a].epoch + 1,
          [NoIncarnation EXCEPT !.pc = "claimed", !.resumed = task[a].session])

(* start_ready of the claim loop, or of a thread that finished a task: any *)
(* number of claims may be under way at once.                              *)
StartReady(a) ==
  /\ Claim(a)
  /\ UNCHANGED <<active, ctl, run, send, daemon, crashes>>

(* Policy, budget or spawn fails: nothing to stop.                         *)
SpawnFails(a, e) ==
  /\ At(a, e, "claimed")
  /\ \E o \in {"RESULT_INVALID", "TIMED_OUT", "FAILED"} \cap ResultOutcomes :
       Goto(a, e, [inc[a][e] EXCEPT !.pc = "fallback", !.ret = "error", !.outcome = o])
  /\ UNCHANGED <<storeVars, active, ctl, run, send, daemon, crashes>>

Spawn(a, e) ==
  /\ At(a, e, "claimed")
  /\ Goto(a, e, [inc[a][e] EXCEPT !.pc = "booting", !.proc = "alive"])
  /\ UNCHANGED <<storeVars, active, ctl, run, send, daemon, crashes>>

(* The prompt starts the first turn of a new session; a resumed session    *)
(* waits for its message.                                                  *)
Bootstrap(a, e) ==
  /\ At(a, e, "booting")
  /\ inc[a][e].proc = "alive"
  /\ Goto(a, e, [inc[a][e] EXCEPT !.pc = "booted",
                                  !.turn = IF inc[a][e].resumed THEN "idle" ELSE "active"])
  /\ UNCHANGED <<storeVars, active, ctl, run, send, daemon, crashes>>

(* Session start or the model check fails: stop, then finish_unstarted.    *)
BootstrapFails(a, e) ==
  /\ At(a, e, "booting")
  /\ \E o \in {"TIMED_OUT", "FAILED"} \cap ResultOutcomes,
        p \in Stopped(inc[a][e].proc, "stopped") :
       Goto(a, e, [inc[a][e] EXCEPT !.pc = "fallback", !.ret = "error", !.outcome = o, !.proc = p])
  /\ UNCHANGED <<storeVars, active, ctl, run, send, daemon, crashes>>

(* The entry replaces one of an earlier epoch.                             *)
Register(a, e) ==
  /\ At(a, e, "booted")
  /\ active' = [active EXCEPT ![a] = e]
  /\ Goto(a, e, [inc[a][e] EXCEPT !.pc = "registered"])
  /\ UNCHANGED <<storeVars, ctl, run, send, daemon, crashes>>

MarkRunning(a, e) ==
  /\ At(a, e, "registered")
  /\ IF CanMarkRunning(a, e)
       THEN /\ MarkSessionRunning(a, e)
            /\ Goto(a, e, [inc[a][e] EXCEPT !.pc = "marked"])
       ELSE /\ Goto(a, e, [inc[a][e] EXCEPT !.pc = "unmarked"])
            /\ UNCHANGED storeVars
  /\ UNCHANGED <<active, ctl, run, send, daemon, crashes>>

\* Mutant: a refused transition just returns.
ReturnsUnmarked(a, e) ==
  /\ At(a, e, "unmarked")
  /\ Goto(a, e, [inc[a][e] EXCEPT !.pc = "done", !.ret = "notStarted"])
  /\ UNCHANGED <<storeVars, active, ctl, run, send, daemon, crashes>>

(* The transition was refused: a stop or a terminal task is a cancelled    *)
(* start, anything else a failed one.                                      *)
Unmarked(a, e) ==
  /\ At(a, e, "unmarked")
  /\ Goto(a, e, [inc[a][e] EXCEPT !.pc = "cleanup", !.ret = "notStarted",
                   !.failure = ~StopIntent(a) /\ task[a].phase \notin {"CANCELLING", "TERMINAL"}])
  /\ UNCHANGED <<storeVars, active, ctl, run, send, daemon, crashes>>

(* The second look at the task, for a stop that landed since.              *)
StillRunning(a) == ~StopIntent(a) /\ task[a].phase = "RUNNING"

Recheck(a, e) ==
  /\ At(a, e, "marked")
  /\ Goto(a, e,
       IF StillRunning(a)
         THEN IF inc[a][e].resumed THEN [inc[a][e] EXCEPT !.pc = "delivering"]
                                   ELSE [inc[a][e] EXCEPT !.pc = "monitor", !.ret = "started"]
         ELSE [inc[a][e] EXCEPT !.pc = "cleanup", !.ret = "notStarted"])
  /\ UNCHANGED <<storeVars, active, ctl, run, send, daemon, crashes>>

-----------------------------------------------------------------------------
(* deliver_next_message, by start_claim of a resumed session and by the    *)
(* monitor.  The caller holds the operation lock while it sends.           *)

NothingToDeliver(a) == ~CanClaimMessage(a) \/ QueuedMessages(a) = {}

(* No message to deliver: start_claim goes on to the monitor.              *)
DeliverNone(a, e) ==
  /\ At(a, e, "delivering") /\ Free(a, e)
  /\ inc[a][e].life = "Running"
  /\ NothingToDeliver(a)
  /\ Goto(a, e, [inc[a][e] EXCEPT !.pc = "monitor", !.ret = "started"])
  /\ UNCHANGED <<storeVars, active, ctl, run, send, daemon, crashes>>

DeliverClaim(a, e) ==
  /\ At(a, e, "delivering") /\ Free(a, e)
  /\ inc[a][e].life = "Running"
  /\ \E m \in Messages : ClaimNextMessage(a, m)
  /\ Goto(a, e, [inc[a][e] EXCEPT !.pc = "sending", !.lock = "self"])
  /\ UNCHANGED <<active, ctl, run, send, daemon, crashes>>

(* The runtime stopped taking input before the claim.                      *)
DeliverLate(a, e) ==
  /\ At(a, e, "delivering") /\ Free(a, e)
  /\ inc[a][e].life # "Running"
  /\ Goto(a, e, [inc[a][e] EXCEPT !.pc = "cleanup", !.ret = "error", !.failure = TRUE,
                                  !.lock = "self"])
  /\ UNCHANGED <<storeVars, active, ctl, run, send, daemon, crashes>>

Claimed(a) == {m \in Messages : msg[m].agent = a /\ msg[m].state = "SENDING"}

(* A failed delivery ends the claim: cleanup in start_claim, FAILED with   *)
(* the turn's process stopped in the monitor.                              *)
DeliveryError(a, e) ==
  IF inc[a][e].ret = "started"
    THEN \E p \in Stopped(inc[a][e].proc, "stopped") :
           Goto(a, e, [inc[a][e] EXCEPT !.pc = "finish", !.outcome = "FAILED", !.proc = p])
    ELSE Goto(a, e, [inc[a][e] EXCEPT !.pc = "cleanup", !.ret = "error", !.failure = TRUE])

(* send_turn was accepted: the message is DELIVERED, unless a stop settled *)
(* it meanwhile.                                                           *)
Sent(a, e) ==
  /\ At(a, e, "sending")
  /\ inc[a][e].proc = "alive"
  /\ IF Claimed(a) # {}
       THEN /\ \E m \in Claimed(a) : CompleteMessage(m)
            /\ Goto(a, e, [inc[a][e] EXCEPT !.pc = "monitor", !.ret = "started",
                                            !.turn = "active", !.lock = "free"])
       ELSE /\ DeliveryError(a, e)
            /\ UNCHANGED storeVars
  /\ UNCHANGED <<active, ctl, run, send, daemon, crashes>>

SendFails(a, e) ==
  /\ At(a, e, "sending")
  /\ IF Claimed(a) # {} THEN \E m \in Claimed(a) : FailMessage(m) ELSE UNCHANGED storeVars
  /\ DeliveryError(a, e)
  /\ UNCHANGED <<active, ctl, run, send, daemon, crashes>>

-----------------------------------------------------------------------------
(* cleanup_registered_runtime of start_claim.                              *)

CleanupRequest(a, e) ==
  /\ At(a, e, "cleanup")
  /\ RequestRuntimeStop(a)
  /\ Goto(a, e, [inc[a][e] EXCEPT
                   !.pc = "stopping",
                   !.outcome = IF StopIntent(a) \/ ~inc[a][e].failure THEN "CANCELLED"
                                                                      ELSE "FAILED"])
  /\ UNCHANGED <<active, ctl, run, send, daemon, crashes>>

(* A task that left its runtime phases is finished without the sink.       *)
FinishRoute(a) ==
  IF task[a].phase \in {"RUNNING", "CANCELLING", "TERMINAL"} THEN "persist" ELSE "fallback"

(* Without its entry the cleanup gives up, and leaves the process.         *)
CleanupStop(a, e) ==
  /\ At(a, e, "stopping")
  /\ IF active[a] = e
       THEN /\ \E p \in Stopped(inc[a][e].proc, "stopped") :
                 Goto(a, e, [inc[a][e] EXCEPT !.pc = FinishRoute(a),
                                              !.life = RequestLifeStop(@), !.proc = p])
            /\ UNCHANGED active
       ELSE Done(a, e, [inc[a][e] EXCEPT !.ret = "error"])
  /\ UNCHANGED <<storeVars, ctl, run, send, daemon, crashes>>

-----------------------------------------------------------------------------
(* finish_routed_terminal: finish_general through the sink, then, if that  *)
(* fails, persist_general_completion, which no epoch fences.               *)

Persist(a, e) ==
  LET row == [inc[a][e] EXCEPT !.life = "Terminal"] IN
  /\ At(a, e, "persist")
  /\ \/ /\ row.written = "yes"
        /\ Done(a, e, row)
        /\ UNCHANGED storeVars
     \/ /\ row.written = "no" /\ SinkStores(a, e, row.outcome)
        /\ PersistGeneralCompletion(a, row.outcome)
        /\ Goto(a, e, [row EXCEPT !.pc = "reap", !.written = "writing"])
        /\ UNCHANGED active
     \/ /\ row.written = "no" /\ ~SinkStores(a, e, row.outcome)
        /\ Goto(a, e, [row EXCEPT !.pc = "fallback"])
        /\ UNCHANGED <<storeVars, active>>
  /\ UNCHANGED <<ctl, run, send, daemon, crashes>>

(* The fallback fails on a task that has no result and takes none: one     *)
(* that was requeued.                                                      *)
FallbackFails(a, outcome) ==
  result[a] = None /\ ~CanStoreResult(a, EffectiveOutcome(a, outcome))

GiveUp(a, e) ==
  IF inc[a][e].bail
    THEN /\ Goto(a, e, [inc[a][e] EXCEPT !.pc = "done", !.outcome = None, !.bail = FALSE, !.lock = "free"])
         /\ UNCHANGED active
    ELSE Done(a, e, [inc[a][e] EXCEPT !.ret = IF @ = "started" THEN @ ELSE "error"])

Fallback(a, e) ==
  /\ At(a, e, "fallback")
  /\ PersistGeneralCompletion(a, inc[a][e].outcome)
  /\ IF FallbackFails(a, inc[a][e].outcome)
       THEN GiveUp(a, e)
       ELSE /\ Goto(a, e, [inc[a][e] EXCEPT !.pc = "reap"])
            /\ UNCHANGED active
  /\ UNCHANGED <<ctl, run, send, daemon, crashes>>

(* reap_task fails on a task that was requeued since its result.           *)
ReapFails(a, proc) == ProvesReaped(proc) /\ task[a].phase # "TERMINAL"

Reap(a, e) ==
  /\ At(a, e, "reap")
  /\ \/ /\ ~ReapFails(a, inc[a][e].proc) \/ CleanupMayFail
        /\ ReapIfProved(a, inc[a][e].proc)
        /\ Done(a, e, inc[a][e])
     \/ /\ ReapFails(a, inc[a][e].proc)
        /\ IF inc[a][e].written = "writing"
             THEN /\ Goto(a, e, [inc[a][e] EXCEPT !.pc = "fallback", !.written = "no"])
                  /\ UNCHANGED active
             ELSE GiveUp(a, e)
        /\ UNCHANGED storeVars
  /\ UNCHANGED <<ctl, run, send, daemon, crashes>>

-----------------------------------------------------------------------------
(* The runtime, and the monitor's loop.                                    *)

TurnEnds(a, e) ==
  /\ inc[a][e].proc = "alive" /\ inc[a][e].turn = "active"
  /\ \E t \in {"completed", "failed"} : Goto(a, e, [inc[a][e] EXCEPT !.turn = t])
  /\ UNCHANGED <<storeVars, active, ctl, run, send, daemon, crashes>>

(* Exit 0 after a completed turn is a completion; any other exit leaves    *)
(* the runtime lost.                                                       *)
ProcessExits(a, e) ==
  /\ inc[a][e].proc = "alive"
  /\ \E p \in {"lost"} \cup (IF inc[a][e].turn = "completed" THEN {"completed"} ELSE {}) :
       Goto(a, e, [inc[a][e] EXCEPT !.proc = p])
  /\ UNCHANGED <<storeVars, active, ctl, run, send, daemon, crashes>>

(* A wall-time, idle, input-wait or turn budget is exhausted.              *)
Timeout(a, e) ==
  /\ At(a, e, "monitor")
  /\ RequestRuntimeStop(a)
  /\ \E o \in {"TIMED_OUT", "BUDGET_EXHAUSTED"} \cap ResultOutcomes :
       Goto(a, e, [inc[a][e] EXCEPT !.pc = "timeout", !.life = RequestLifeStop(@),
                                    !.outcome = IF StopIntent(a) THEN "CANCELLED" ELSE o,
                                    !.bail = (o = "TIMED_OUT")])
  /\ UNCHANGED <<active, ctl, run, send, daemon, crashes>>

TimeoutStops(a, e) ==
  /\ At(a, e, "timeout") /\ Free(a, e)
  /\ \E p \in Stopped(inc[a][e].proc, "stopped") :
       Goto(a, e, [inc[a][e] EXCEPT !.pc = "finish", !.lock = "self", !.proc = p,
                                    !.life = RequestLifeStop(@)])
  /\ UNCHANGED <<storeVars, active, ctl, run, send, daemon, crashes>>

(* The runtime's terminal, and the outcome it stands for.  A completion    *)
(* goes through the finalizer and the required checks; a check is only     *)
(* cancelled after a stop was recorded, and then the stop decides.         *)
TerminalOutcomes(proc) ==
  CASE proc = "completed" -> {"COMPLETED", "RESULT_INVALID", "FAILED", "TIMED_OUT"} \cap ResultOutcomes
    [] proc = "stopped" -> {"CANCELLED"}
    [] OTHER -> {"RUNTIME_LOST"}

(* The runtime ended without a completion.  After LATE_AFTER_STOP someone  *)
(* else has finished the task, and releases it.                            *)
MonitorExit(a, e) ==
  /\ At(a, e, "monitor") /\ Free(a, e)
  /\ inc[a][e].proc \in {"stopped", "lost"}
  /\ \E o \in TerminalOutcomes(inc[a][e].proc) :
       Goto(a, e,
         IF inc[a][e].life = "Terminal"
           THEN [inc[a][e] EXCEPT !.pc = "done"]
           ELSE [inc[a][e] EXCEPT !.pc = "finish", !.lock = "self", !.outcome = o])
  /\ UNCHANGED <<storeVars, active, ctl, run, send, daemon, crashes>>

(* A completed turn of a live runtime, or a runtime that exited after one. *)
CompletedTurn(row) == row.proc = "completed" \/ (row.proc = "alive" /\ row.turn = "completed")

(* begin_natural_completion finds no pending request and no message.       *)
CompletionReady(a) == OpenRequests(a) = {} /\ OpenMessages(a) = {}

(* The completion is admitted (Ready), or a stop already closed the        *)
(* ingress (Bypass): the runtime is ended and the task finished.           *)
MonitorComplete(a, e) ==
  /\ At(a, e, "monitor") /\ Free(a, e)
  /\ CompletedTurn(inc[a][e])
  /\ inc[a][e].life # "Running" \/ CompletionReady(a)
  /\ \E p \in Stopped(inc[a][e].proc, "completed") : \E o \in TerminalOutcomes(p) :
       Goto(a, e, [inc[a][e] EXCEPT !.pc = "finish", !.lock = "self", !.proc = p, !.outcome = o,
                                    !.life = IF @ = "Running" THEN "Terminal" ELSE @])
  /\ UNCHANGED <<storeVars, active, ctl, run, send, daemon, crashes>>

(* A turn boundary at which the monitor looks for the next message: a      *)
(* completed turn with messages left, or a failed turn.                    *)
DeliveryBoundary(a, e) ==
  /\ At(a, e, "monitor") /\ Free(a, e)
  /\ inc[a][e].proc = "alive"
  /\ inc[a][e].life = "Running"
  /\ \/ inc[a][e].turn = "completed" /\ OpenRequests(a) = {} /\ OpenMessages(a) # {}
     \/ inc[a][e].turn = "failed"

MonitorClaims(a, e) ==
  /\ DeliveryBoundary(a, e)
  /\ \E m \in Messages : ClaimNextMessage(a, m)
  /\ Goto(a, e, [inc[a][e] EXCEPT !.pc = "sending", !.lock = "self"])
  /\ UNCHANGED <<active, ctl, run, send, daemon, crashes>>

(* There is none: the runtime is ended at the boundary.                    *)
MonitorEnds(a, e) ==
  LET failed == inc[a][e].turn = "failed" IN
  /\ DeliveryBoundary(a, e)
  /\ NothingToDeliver(a)
  /\ \E p \in Stopped(inc[a][e].proc, IF failed THEN "stopped" ELSE "completed") :
     \E o \in (IF failed /\ p # "lost" THEN {"FAILED"} ELSE TerminalOutcomes(p)) :
       Goto(a, e, [inc[a][e] EXCEPT !.pc = "finish", !.lock = "self", !.proc = p, !.outcome = o])
  /\ UNCHANGED <<storeVars, active, ctl, run, send, daemon, crashes>>

(* A failed turn after a stop is left to the thread that stops.            *)
MonitorLeaves(a, e) ==
  /\ At(a, e, "monitor") /\ Free(a, e)
  /\ inc[a][e].proc = "alive" /\ inc[a][e].turn = "failed"
  /\ inc[a][e].life # "Running"
  /\ Goto(a, e, [inc[a][e] EXCEPT !.pc = "done"])
  /\ UNCHANGED <<storeVars, active, ctl, run, send, daemon, crashes>>

(* A message for a runtime that exited is claimed, and its send fails.     *)
MonitorDrops(a, e) ==
  /\ At(a, e, "monitor") /\ Free(a, e)
  /\ inc[a][e].proc = "completed"
  /\ inc[a][e].life = "Running"
  /\ OpenRequests(a) = {}
  /\ CanClaimMessage(a)
  /\ \E m \in Messages : OldestQueued(a, m) /\ FailMessage(m)
  /\ UNCHANGED memVars

(* finish_locked_monitor_terminal: nothing to do for a task that is done   *)
(* or claimed again; a requested stop wins.                                *)
Finish(a, e) ==
  /\ At(a, e, "finish")
  /\ IF task[a].phase = "TERMINAL" \/ task[a].epoch # e
       THEN Done(a, e, inc[a][e])
       ELSE /\ \E p \in (IF StopIntent(a) THEN Stopped(inc[a][e].proc, "stopped")
                                          ELSE {inc[a][e].proc}) :
                 Goto(a, e, [inc[a][e] EXCEPT
                               !.pc = "persist", !.proc = p,
                               !.outcome = IF StopIntent(a) THEN "CANCELLED" ELSE @,
                               !.life = IF StopIntent(a) THEN RequestLifeStop(@) ELSE @])
            /\ UNCHANGED active
  /\ UNCHANGED <<storeVars, ctl, run, send, daemon, crashes>>

-----------------------------------------------------------------------------
(* request_stop_or_close: one cancel or close call.                        *)

CtlAt(c, pc) == daemon = "up" /\ ctl[c].pc = pc

CtlGoto(c, row) == ctl' = [ctl EXCEPT ![c] = row]

CtlProc(c) == IF ctl[c].epoch = 0 THEN "none" ELSE inc[ctl[c].agent][ctl[c].epoch].proc

CtlRead(c, a) ==
  /\ CtlAt(c, "idle")
  /\ task[a].phase # "ABSENT"
  /\ CtlGoto(c, [NoCall EXCEPT !.pc = "request", !.agent = a, !.epoch = active[a]])
  /\ UNCHANGED <<storeVars, inc, active, run, send, daemon, crashes>>

(* A task that never started is finished here; one whose runtime is not    *)
(* the one that was read is left to the thread that starts or monitors it. *)
CtlRequest(c) ==
  LET a == ctl[c].agent
      e == ctl[c].epoch IN
  /\ CtlAt(c, "request")
  /\ IF c \in Closers THEN RequestClose(a) ELSE RequestStop(a)
  /\ LET next == [ctl[c] EXCEPT !.outcome = "CANCELLED"] IN
     CtlGoto(c, CASE task[a].phase = "QUEUED" /\ e = 0 -> [next EXCEPT !.pc = "fallback"]
                  [] task[a].phase \in ActivePhases /\ e # 0 /\ e = task[a].epoch ->
                       [next EXCEPT !.pc = "lock"]
                  [] OTHER -> CallReturned)
  /\ IF e = 0 THEN UNCHANGED inc
              ELSE Goto(a, e, [inc[a][e] EXCEPT !.life = RequestLifeStop(@)])
  /\ UNCHANGED <<active, run, send, daemon, crashes>>

(* With the lock: stop the runtime that was read, and finish through the   *)
(* sink of the entry there is now.                                         *)
CtlLock(c) ==
  LET a == ctl[c].agent
      e == ctl[c].epoch IN
  /\ CtlAt(c, "lock") /\ Free(a, e)
  /\ IF active[a] = 0
       THEN /\ CtlGoto(c, CallReturned)
            /\ UNCHANGED inc
       ELSE /\ CtlGoto(c, [ctl[c] EXCEPT !.pc = "persist", !.sink = active[a]])
            /\ \E p \in Stopped(inc[a][e].proc, "stopped") :
                 Goto(a, e, [inc[a][e] EXCEPT !.lock = c, !.proc = p, !.life = RequestLifeStop(@)])
  /\ UNCHANGED <<storeVars, active, run, send, daemon, crashes>>

(* The control deadline passes while the lock is held: fail_closed_control *)
(* stops the runtime without it.                                           *)
CtlDeadline(c) ==
  LET a == ctl[c].agent IN
  /\ CtlAt(c, "lock") /\ ~Free(a, ctl[c].epoch)
  /\ CtlGoto(c, IF active[a] = ctl[c].epoch THEN [ctl[c] EXCEPT !.pc = "failClosed"]
                                             ELSE CallReturned)
  /\ UNCHANGED <<storeVars, inc, active, run, send, daemon, crashes>>

CtlFailClosed(c) ==
  LET a == ctl[c].agent IN
  /\ CtlAt(c, "failClosed")
  /\ RequestRuntimeStop(a)
  /\ CtlGoto(c, [ctl[c] EXCEPT !.pc = "cleanup",
                               !.outcome = IF StopIntent(a) THEN "CANCELLED" ELSE "FAILED"])
  /\ UNCHANGED <<inc, active, run, send, daemon, crashes>>

CtlCleanup(c) ==
  LET a == ctl[c].agent
      e == ctl[c].epoch IN
  /\ CtlAt(c, "cleanup")
  /\ IF active[a] = e
       THEN /\ CtlGoto(c, [ctl[c] EXCEPT !.pc = FinishRoute(a), !.sink = e])
            /\ \E p \in Stopped(inc[a][e].proc, "stopped") :
                 Goto(a, e, [inc[a][e] EXCEPT !.proc = p, !.life = RequestLifeStop(@)])
       ELSE /\ CtlGoto(c, CallReturned)
            /\ UNCHANGED inc
  /\ UNCHANGED <<storeVars, active, run, send, daemon, crashes>>

(* The call returns: it drops its lock and releases the entry it read.     *)
CtlDone(c, written) ==
  LET a == ctl[c].agent
      e == ctl[c].epoch
      s == ctl[c].sink IN
  /\ CtlGoto(c, CallReturned)
  /\ inc' = [inc EXCEPT ![a] = [f \in Epochs |->
               [inc[a][f] EXCEPT
                  !.lock = IF @ = c THEN "free" ELSE @,
                  !.life = IF f = s \/ (f = e /\ active[a] = e) THEN "Terminal" ELSE @,
                  !.written = IF f = s THEN written ELSE @]]]
  /\ ReleaseActive(a, e)

SinkWritten(c) ==
  IF ctl[c].sink = 0 THEN "no" ELSE inc[ctl[c].agent][ctl[c].sink].written

CtlPersist(c) ==
  LET a == ctl[c].agent
      s == ctl[c].sink IN
  /\ CtlAt(c, "persist")
  /\ \/ /\ SinkWritten(c) = "yes"
        /\ CtlDone(c, "yes")
        /\ UNCHANGED storeVars
     \/ /\ SinkWritten(c) = "no" /\ SinkStores(a, s, ctl[c].outcome)
        /\ PersistGeneralCompletion(a, ctl[c].outcome)
        /\ Goto(a, s, [inc[a][s] EXCEPT !.life = "Terminal", !.written = "writing"])
        /\ CtlGoto(c, [ctl[c] EXCEPT !.pc = "reap"])
        /\ UNCHANGED active
     \/ /\ SinkWritten(c) = "no" /\ ~SinkStores(a, s, ctl[c].outcome)
        /\ Goto(a, s, [inc[a][s] EXCEPT !.life = "Terminal"])
        /\ CtlGoto(c, [ctl[c] EXCEPT !.pc = "fallback"])
        /\ UNCHANGED <<storeVars, active>>
  /\ UNCHANGED <<run, send, daemon, crashes>>

CtlFallback(c) ==
  LET a == ctl[c].agent IN
  /\ CtlAt(c, "fallback")
  /\ PersistGeneralCompletion(a, ctl[c].outcome)
  /\ IF FallbackFails(a, ctl[c].outcome)
       THEN CtlDone(c, SinkWritten(c))
       ELSE /\ CtlGoto(c, [ctl[c] EXCEPT !.pc = "reap"])
            /\ UNCHANGED <<inc, active>>
  /\ UNCHANGED <<run, send, daemon, crashes>>

CtlReap(c) ==
  LET a == ctl[c].agent
      s == ctl[c].sink
      writing == SinkWritten(c) = "writing" IN
  /\ CtlAt(c, "reap")
  /\ \/ /\ ~ReapFails(a, CtlProc(c)) \/ CleanupMayFail
        /\ ReapIfProved(a, CtlProc(c))
        /\ CtlDone(c, IF writing THEN "yes" ELSE SinkWritten(c))
     \/ /\ ReapFails(a, CtlProc(c))
        /\ IF writing
             THEN /\ Goto(a, s, [inc[a][s] EXCEPT !.written = "no"])
                  /\ CtlGoto(c, [ctl[c] EXCEPT !.pc = "fallback"])
                  /\ UNCHANGED active
             ELSE CtlDone(c, SinkWritten(c))
        /\ UNCHANGED storeVars
  /\ UNCHANGED <<run, send, daemon, crashes>>

-----------------------------------------------------------------------------
(* Submission, and task_send to a live or a terminal task.                 *)

Submit(a) ==
  /\ daemon = "up"
  /\ EnqueueTask(a)
  /\ UNCHANGED memVars

SendAt(s, pc) == daemon = "up" /\ send[s].pc = pc

SendGoto(s, row) == send' = [send EXCEPT ![s] = row]

(* queue_message of a task that is not terminal reads its entry.           *)
SendRead(s, a) ==
  /\ SendAt(s, "idle")
  /\ Live(a)
  /\ SendGoto(s, [pc |-> "read", agent |-> a, epoch |-> active[a]])
  /\ UNCHANGED <<storeVars, inc, active, ctl, run, daemon, crashes>>

(* With an entry, the message is admitted under its lock while its runtime *)
(* takes input; without one, on a look at the row alone.                   *)
Admits(s) ==
  LET a == send[s].agent
      e == send[s].epoch IN
  IF e # 0 THEN Free(a, e) /\ inc[a][e].life = "Running"
           ELSE task[a].phase = "RUNNING" /\ ~StopIntent(a)

SendAdmit(s) ==
  LET a == send[s].agent
      e == send[s].epoch IN
  /\ SendAt(s, "read") /\ Admits(s)
  /\ SendGoto(s, [send[s] EXCEPT !.pc = "admitted"])
  /\ IF e = 0 THEN UNCHANGED inc ELSE Goto(a, e, [inc[a][e] EXCEPT !.lock = s])
  /\ UNCHANGED <<storeVars, active, ctl, run, daemon, crashes>>

(* The runtime or the task takes no input, or the lock's deadline passes.  *)
SendRefused(s) ==
  /\ SendAt(s, "read") /\ ~Admits(s)
  /\ SendGoto(s, SendReturned)
  /\ UNCHANGED <<storeVars, inc, active, ctl, run, daemon, crashes>>

(* A message id that is already stored, of a repeated call, changes        *)
(* nothing.                                                                *)
SendInsert(s) ==
  LET a == send[s].agent
      e == send[s].epoch IN
  /\ SendAt(s, "admitted")
  /\ \E m \in Messages :
       IF CanInsertMessage(a) /\ msg[m].state = "ABSENT" THEN InsertMessage(m, a)
                                                        ELSE UNCHANGED storeVars
  /\ SendGoto(s, SendReturned)
  /\ IF e = 0 THEN UNCHANGED inc ELSE Goto(a, e, [inc[a][e] EXCEPT !.lock = "free"])
  /\ UNCHANGED <<active, ctl, run, daemon, crashes>>

ResumeAt(r, pc) == daemon = "up" /\ run[r].pc = pc

ResumeGoto(r, row) == run' = [run EXCEPT ![r] = row]

ResumeTerminal(r, a) ==
  /\ ResumeAt(r, "idle")
  /\ CheckTerminal(r, a)
  /\ UNCHANGED memVars

ResumeRead(r) ==
  /\ ResumeAt(r, "idle")
  /\ ReadOriginal(r) \/ ReadOriginalResult(r)
  /\ UNCHANGED memVars

ResumeRequeue(r, m) ==
  /\ ResumeAt(r, "idle") /\ SnapshotAt(r, "requeue")
  /\ RequeueTaskForResume(r, saved[r].agent, m)
  /\ ResumeGoto(r, [run[r] EXCEPT !.pc = "claiming"])
  /\ UNCHANGED <<inc, active, ctl, send, daemon, crashes>>

(* No longer terminal, the workspace is busy, or the session is unknown.   *)
ResumeRefused(r) ==
  /\ ResumeAt(r, "idle") /\ SnapshotAt(r, "requeue")
  /\ \A m \in Messages : ~CanRequeue(saved[r].agent, m)
  /\ DropOriginal(r)
  /\ ResumeGoto(r, [run[r] EXCEPT !.pc = "done"])
  /\ UNCHANGED <<inc, active, ctl, send, daemon, crashes>>

(* start_ready in the caller's thread, one claim after another: the claims *)
(* may be of other tasks.                                                  *)
ResumeClaim(r, b) ==
  /\ ResumeAt(r, "claiming") /\ run[r].agent = None
  /\ Claim(b)
  /\ ResumeGoto(r, [run[r] EXCEPT !.agent = b, !.epoch = task[b].epoch + 1])
  /\ UNCHANGED <<active, ctl, send, daemon, crashes>>

ResumeReturned(r) ==
  LET b == run[r].agent
      row == inc[b][run[r].epoch] IN
  /\ ResumeAt(r, "claiming") /\ b # None
  /\ row.ret = "started" \/ row.pc = "done"
  /\ ResumeGoto(r, [run[r] EXCEPT
                      !.pc = IF row.ret = "error" THEN "failed" ELSE @,
                      !.agent = None, !.epoch = 0,
                      !.started = IF row.ret = "started" THEN @ \cup {b} ELSE @])
  /\ UNCHANGED <<storeVars, inc, active, ctl, send, daemon, crashes>>

(* Nothing left to claim: the resume succeeded if this thread started it.  *)
ResumeEnds(r) ==
  /\ ResumeAt(r, "claiming") /\ run[r].agent = None
  /\ \A b \in Agents : ~Claimable(b)
  /\ IF saved[r].agent \in run[r].started
       THEN DropOriginal(r)
       ELSE RestoreTerminalAfterResumeFailure(r, saved[r].agent)
  /\ ResumeGoto(r, [run[r] EXCEPT !.pc = "done"])
  /\ UNCHANGED <<inc, active, ctl, send, daemon, crashes>>

(* start_ready failed: the rollback is for a task that is terminal again.  *)
ResumeFailed(r) ==
  /\ ResumeAt(r, "failed")
  /\ IF task[saved[r].agent].phase = "TERMINAL"
       THEN /\ ResumeGoto(r, [run[r] EXCEPT !.pc = "restore"])
            /\ UNCHANGED storeVars
       ELSE /\ ResumeGoto(r, [run[r] EXCEPT !.pc = "done"])
            /\ DropOriginal(r)
  /\ UNCHANGED <<inc, active, ctl, send, daemon, crashes>>

ResumeRestore(r) ==
  /\ ResumeAt(r, "restore")
  /\ RestoreTerminalAfterResumeFailure(r, saved[r].agent)
  /\ ResumeGoto(r, [run[r] EXCEPT !.pc = "done"])
  /\ UNCHANGED <<inc, active, ctl, send, daemon, crashes>>

-----------------------------------------------------------------------------
(* Crash and reconcile_startup.  The store and the runtime processes       *)
(* survive the daemon, its threads and its memory do not.                  *)

Crash ==
  /\ daemon # "refused"
  /\ crashes < MaxCrashes
  /\ crashes' = crashes + 1
  /\ daemon' = "starting"
  /\ inc' = [a \in Agents |-> [e \in Epochs |->
               [NoIncarnation EXCEPT !.proc = inc[a][e].proc]]]
  /\ active' = [a \in Agents |-> 0]
  /\ ctl' = [c \in Callers |-> IF ctl[c].pc = "idle" THEN NoCall ELSE CallReturned]
  /\ send' = [s \in Senders |-> IF send[s].pc = "idle" THEN NoSend ELSE SendReturned]
  /\ run' = [r \in Resumers |-> IF saved[r] = None THEN run[r] ELSE [NoRun EXCEPT !.pc = "done"]]
  /\ UNCHANGED storeVars

(* startup_recovery_tasks.                                                 *)
NeedsRecovery(a) ==
  task[a].phase \in ActivePhases \/ (task[a].phase = "TERMINAL" /\ ~task[a].reaped)

NextToRecover(a) ==
  /\ daemon = "starting"
  /\ NeedsRecovery(a)
  /\ \A b \in Agents : NeedsRecovery(b) => task[a].rowid <= task[b].rowid

(* The row names a runtime, or is one that need not have one yet, and if   *)
(* terminal has its outcome and its result.                                *)
Recoverable(a) ==
  /\ task[a].runtime # 0 \/ task[a].phase \in {"PREPARING", "TERMINAL"}
  /\ task[a].phase = "TERMINAL" => result[a] # None /\ task[a].outcome # None

\* Mutant: the process group is left to the operating system.
RecoversWithoutStop(a) ==
  /\ NextToRecover(a)
  /\ Recoverable(a)
  /\ IF task[a].phase = "TERMINAL"
       THEN ReapTask(a)
       ELSE \E b \in Bodies :
              StoreTaskResult(a, IF StopIntent(a) THEN "CANCELLED" ELSE "RUNTIME_LOST", b)
  /\ UNCHANGED memVars

(* The process group that the row names is stopped and reaped, the task    *)
(* finished, and, as a terminal task, marked as reaped.                    *)
RecoverTask(a) ==
  /\ NextToRecover(a)
  /\ Recoverable(a)
  /\ IF task[a].phase = "TERMINAL"
       THEN ReapTask(a)
       ELSE \E b \in Bodies :
              StoreTaskResult(a, IF StopIntent(a) THEN "CANCELLED" ELSE "RUNTIME_LOST", b)
  /\ inc' = [inc EXCEPT ![a] = [e \in Epochs |->
               IF e = task[a].runtime THEN [inc[a][e] EXCEPT !.proc = "stopped"] ELSE inc[a][e]]]
  /\ UNCHANGED <<active, ctl, run, send, daemon, crashes>>

(* The daemon does not start: the row is incomplete, or a cleanup cannot   *)
(* be proved.                                                              *)
RefuseTask(a) ==
  /\ NextToRecover(a)
  /\ ~Recoverable(a) \/ CleanupMayFail
  /\ daemon' = "refused"
  /\ UNCHANGED <<storeVars, inc, active, ctl, run, send, crashes>>

Recovered ==
  /\ daemon = "starting"
  /\ \A a \in Agents : ~NeedsRecovery(a)
  /\ daemon' = "up"
  /\ UNCHANGED <<storeVars, inc, active, ctl, run, send, crashes>>

-----------------------------------------------------------------------------
StartStep(a, e) ==
  \/ SpawnFails(a, e) \/ Spawn(a, e) \/ Bootstrap(a, e) \/ BootstrapFails(a, e)
  \/ Register(a, e) \/ MarkRunning(a, e) \/ Unmarked(a, e) \/ Recheck(a, e)
  \/ DeliverNone(a, e) \/ DeliverClaim(a, e) \/ DeliverLate(a, e)
  \/ CleanupRequest(a, e) \/ CleanupStop(a, e)

MonitorStep(a, e) ==
  \/ Sent(a, e) \/ SendFails(a, e)
  \/ TimeoutStops(a, e)
  \/ MonitorExit(a, e) \/ MonitorComplete(a, e) \/ MonitorClaims(a, e)
  \/ MonitorEnds(a, e) \/ MonitorLeaves(a, e) \/ MonitorDrops(a, e)
  \/ Finish(a, e) \/ Persist(a, e) \/ Fallback(a, e) \/ Reap(a, e)

CtlStep(c) ==
  \/ CtlRequest(c) \/ CtlLock(c) \/ CtlDeadline(c) \/ CtlFailClosed(c)
  \/ CtlCleanup(c) \/ CtlPersist(c) \/ CtlFallback(c) \/ CtlReap(c)

ResumerStep(r) ==
  \/ ResumeRead(r)
  \/ \E m \in Messages : ResumeRequeue(r, m)
  \/ ResumeRefused(r)
  \/ \E b \in Agents : ResumeClaim(r, b)
  \/ ResumeReturned(r) \/ ResumeEnds(r) \/ ResumeFailed(r) \/ ResumeRestore(r)

SendStep(s) == SendAdmit(s) \/ SendRefused(s) \/ SendInsert(s)

RecoveryStep ==
  \/ \E a \in Agents : RecoverTask(a) \/ RefuseTask(a)
  \/ Recovered

SchedulerNext ==
  \/ \E a \in Agents : Submit(a) \/ StartReady(a)
  \/ \E a \in Agents, e \in Epochs :
       \/ StartStep(a, e) \/ MonitorStep(a, e) \/ Timeout(a, e)
       \/ TurnEnds(a, e) \/ ProcessExits(a, e)
  \/ \E c \in Callers : CtlStep(c) \/ \E a \in Agents : CtlRead(c, a)
  \/ \E s \in Senders : SendStep(s) \/ \E a \in Agents : SendRead(s, a)
  \/ \E r \in Resumers : ResumerStep(r) \/ \E a \in Agents : ResumeTerminal(r, a)
  \/ RecoveryStep
  \/ Crash

SchedulerSpec == SchedulerInit /\ [][SchedulerNext]_vars

(* Threads run, the claim loop polls, and every wait on a runtime or for a *)
(* lock has a deadline.  Nothing is assumed of callers, of turns or of     *)
(* runtime exits.                                                          *)
ThreadFairness ==
  /\ WF_vars(\E a \in Agents : StartReady(a))
  /\ \A a \in Agents, e \in Epochs : WF_vars(StartStep(a, e)) /\ WF_vars(MonitorStep(a, e))
  /\ \A c \in Callers : WF_vars(CtlStep(c))
  /\ \A r \in Resumers : WF_vars(ResumerStep(r))
  /\ \A s \in Senders : WF_vars(SendStep(s))
  /\ WF_vars(RecoveryStep)

(* Every task also has a wall-time budget, which runs out.                 *)
FairSchedulerSpec ==
  SchedulerSpec /\ ThreadFairness /\ \A a \in Agents, e \in Epochs : WF_vars(Timeout(a, e))

-----------------------------------------------------------------------------
(* Safety.                                                                 *)

(* A task is TERMINAL only after its runtimes were ended: the next task of *)
(* the workspace never shares it with a process of the last one.  Results  *)
(* are stored by the monitor, by start_claim and by cancel calls, with and *)
(* without the operation lock.                                             *)
TerminalAfterStop ==
  \A a \in Agents :
    task[a].phase = "TERMINAL" => \A e \in Epochs : inc[a][e].proc # "alive"

(* reaped_at is written only when the process group that the row names is  *)
(* proved gone, over late terminals, failed stops and crashes.             *)
ReapedIsProved ==
  \A a \in Agents :
    task[a].reaped /\ task[a].runtime # 0 =>
      inc[a][task[a].runtime].proc \in {"stopped", "completed"}

(* A live runtime of a live task has a thread of the daemon that will end  *)
(* it: its own start_claim or monitor, or a control call that is about to  *)
(* stop it.  No race between starting, resuming, finishing and cancelling  *)
(* loses one; after the task is terminal TerminalAfterStop speaks of it.   *)
RuntimeIsOwned ==
  \A a \in Agents, e \in Epochs :
    inc[a][e].proc = "alive" /\ Live(a) =>
      \/ inc[a][e].pc \notin {"none", "done"}
      \/ \E c \in Callers :
           ctl[c].agent = a /\ ctl[c].epoch = e /\ ctl[c].pc \in {"lock", "failClosed", "cleanup"}

-----------------------------------------------------------------------------
(* Liveness.                                                               *)

(* Every task that is submitted ends, whatever its runtime, its callers    *)
(* and its messages do, over a crash too unless the daemon then refuses to *)
(* start.                                                                  *)
EveryTaskEnds ==
  \A a \in Agents : Live(a) ~> (task[a].phase = "TERMINAL" \/ daemon = "refused")

(* Every cancel and close call returns: none waits for ever on the locks   *)
(* it shares with the monitor, with start_claim and with other calls.      *)
ControlReturns == \A c \in Callers : ctl[c].pc = "request" ~> ctl[c].pc = "done"

-----------------------------------------------------------------------------
(* What the documentation says and the code does not do.                   *)

(* "Startup reconciliation runs before publication. [...] interrupted work *)
(* becomes runtime-lost or orphaned": the daemon starts again after a      *)
(* crash when every process group it knows of can be reaped.               *)
StartupReconciles == daemon # "refused"

(* "A canonical workspace has one active Agent": no two agents have a live *)
(* runtime in one workspace.                                               *)
OneAgentPerWorkspace ==
  \A a, b \in Agents, e, f \in Epochs :
    /\ WorkspaceOf[a] = WorkspaceOf[b]
    /\ inc[a][e].proc = "alive" /\ inc[b][f].proc = "alive"
    => a = b

=============================================================================
