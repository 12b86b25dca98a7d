------------------------------ MODULE Runtime ------------------------------
(***************************************************************************)
(* One incarnation of a task's runtime, from the app-server's lines to the *)
(* records in the store: the RuntimeOwner with its event pump, publisher,  *)
(* turn tracker and cache of offered permissions over the Driver, the sink *)
(* that admits, counts and persists its events, and the threads that use   *)
(* it: the one that sends commands, the ones that answer permissions, and  *)
(* the ones that finish the process.                                       *)
(***************************************************************************)
EXTENDS Driver, PassiveActivity

CONSTANTS Script,      \* methods of the bootstrap and of the messages queued after it
          Responders,  \* threads in Scheduler::respond_request
          MaxTurns,    \* max_turns of the budget
          MaxTools,    \* max_tool_calls of the budget
          MaxOffered,  \* MAX_PENDING_PERMISSION_RESPONSES
          MaxStops     \* bound on the cancels and timeouts of a behaviour

ASSUME ScriptIsMethods == Script \in Seq({"create", "send"})
\* Sessions are created by the bootstrap only: what follows its first turn are messages.
CreatesFirst(todo) == \A i, j \in DOMAIN todo : i < j /\ todo[i] = "send" => todo[j] = "send"
ASSUME BootstrapFirst == CreatesFirst(Script)
ASSUME ResponderNames == Responders \cap {"task", "cancel"} = {}
ASSUME BudgetsAreNat == MaxTurns \in Nat /\ MaxTools \in Nat /\ MaxOffered \in Nat

VARIABLES
  phase,      \* the task row: "PREPARING", "RUNNING", "STOPPING" or "TERMINAL"
  ingress,    \* RuntimeLifecycle phase: "Running", "Stopping" or "Terminal"
  owner,      \* OwnerState: "Running", "Stopping" or "Terminal"
  terminal,   \* the published terminal
  boundary,   \* exit_boundary_delivered
  sequence,   \* next_sequence of the publisher
  tracker,    \* TurnTracker: generation, active, boundary
  pump,       \* the event pump: "idle", "holding" an event, or "ended"
  held,       \* the event it holds
  verdict,    \* exit_terminal it computed for that event
  cache,      \* wire ids of OfferedPermissionCache
  sink,       \* StoreLifecycleSink: first_error, sequences, budget, text
  log,        \* the events table of this runtime
  requests,   \* pending_requests rows by correlation id
  cmd,        \* the request in progress and the methods still to be sent
  fin,        \* how far each thread is with finishing the process
  resp,       \* the responding threads
  operation,  \* holder of the operation lock, at most one
  answers,    \* how often each wire id was answered
  result      \* outcome of the stored result

ownerVars == <<owner, terminal, boundary, sequence>>
pumpVars == <<pump, held, verdict>>
sinkVars == <<sink, log, requests>>
threadVars == <<cmd, fin, resp, operation, answers, result>>
vars == <<driverVars, phase, ingress, ownerVars, tracker, pumpVars, cache, sinkVars, threadVars>>

NoItem == Item(None, 0, FALSE)
Orderly == {"Completed", "FailedTurn", "Stopped"}
Terminals == Orderly \cup {"Exited", "Lost", "Orphaned"}

\* The task's own thread, which starts the runtime and then monitors it, a thread in
\* cancel_task, and the responders: each of them may come to finish the process.
Threads == {"task", "cancel"} \cup Responders

(* ------------------------------ the sink ------------------------------- *)
\* RuntimeBudget::observe counts turns and tool calls of known events only.
BudgetObserve(s, item) ==
  IF s.violation # None \/ item.k \notin TurnKinds THEN s
  ELSE LET turns == IF item.k = "started" THEN s.turns \cup {item.v} ELSE s.turns
           tools == IF item.k = "tool" THEN s.tools \cup {item.v} ELSE s.tools
       IN [s EXCEPT !.turns = turns, !.tools = tools,
                    !.violation = IF Cardinality(turns) > MaxTurns THEN "TurnLimit"
                                  ELSE IF Cardinality(tools) > MaxTools THEN "ToolCallLimit"
                                  ELSE None]

\* insert_pending_request: the row must accept requests, and a correlation id is unique.
InsertFails(item, rows) == item.k = "permission" /\ (phase # "RUNNING" \/ rows[item.v] # None)

(* ------------------------- lifecycle_projection ------------------------ *)
TerminalType == [Completed |-> "runtime.completed", FailedTurn |-> "runtime.turn_failed",
                 Stopped |-> "runtime.stopped", Exited |-> "runtime.exited",
                 Lost |-> "runtime.failed_runtime_lost", Orphaned |-> "runtime.orphaned"]

TerminalTypes == {TerminalType[t] : t \in Terminals}

\* The type under which an event is stored; all session events but the turns are unknown.
Projected(item) ==
  CASE item.k \in TurnKinds \cup {"permission", "preferences"} -> "driver.message"
    [] item.k \in {"turnActive", "turnIdle", "turnFailed"} -> "driver.lifecycle"
    [] item.k = "unmatched" -> "driver.unmatched_response"
    [] item.k = "malformed" -> "driver.malformed"
    [] item.k = "oversized" -> "driver.oversized_line"
    [] item.k = "exit" -> "driver.child_exited"
    [] OTHER -> "raw.unknown"

\* What the sink writes: its own state, the events and the requests.
Tables(s, l, rows) == [sink |-> s, log |-> l, requests |-> rows]
Stored == Tables(sink, log, requests)

\* Store::append_lifecycle: a source number is stored once, and nothing after the result.
AppendLifecycle(d, seq, type) ==
  IF \E i \in DOMAIN d.log : d.log[i].seq = seq THEN d
  ELSE IF phase = "TERMINAL" THEN Tables([d.sink EXCEPT !.failed = TRUE], d.log, d.requests)
  ELSE Tables(d.sink, Append(d.log, [seq |-> seq, type |-> type]), d.requests)

\* What an event makes of the budget and of the activity.
Seen(s, item) == [BudgetObserve(s, item) EXCEPT !.activity = ActivityObserve(@, item)]

\* StoreLifecycleSink::emit of a record: what it makes of sink, events and requests.
\* The first error ends the writing, and the terminal is left to finish_general.
Sunk(d, seq, item) ==
  LET counted == [Seen(d.sink, item) EXCEPT !.last = seq]
      rows == IF item.k = "permission" THEN [d.requests EXCEPT ![item.v] = "pending"] ELSE d.requests
  IN CASE ingress # "Running" -> d
       [] ingress = "Running" /\ d.sink.failed -> Tables(Seen(d.sink, item), d.log, d.requests)
       [] ingress = "Running" /\ ~d.sink.failed /\ item.k = "terminal" ->
            Tables([counted EXCEPT !.pendingTerminal = seq], d.log, d.requests)
       [] ingress = "Running" /\ ~d.sink.failed /\ InsertFails(item, d.requests) ->
            Tables([counted EXCEPT !.failed = TRUE], d.log, d.requests)
       [] OTHER -> AppendLifecycle(Tables(counted, d.log, rows), seq, Projected(item))

Sink(d) == sink' = d.sink /\ log' = d.log /\ requests' = d.requests
TerminalItem == Item("terminal", 0, TRUE)

(* ---------------------------- the publisher ---------------------------- *)
\* publish_terminal: the first one wins and is emitted.
PublishTerminal(t) ==
  IF owner = "Terminal" THEN UNCHANGED <<owner, terminal, sequence, sinkVars>>
  ELSE /\ owner' = "Terminal"
       /\ terminal' = t
       /\ sequence' = sequence + 1
       /\ Sink(Sunk(Stored, sequence, TerminalItem))

\* Mutant: the exit of the process does not publish a terminal.
ExitNotPublished(item) ==
  IF owner = "Terminal" THEN UNCHANGED <<ownerVars, sinkVars>>
  ELSE /\ boundary' = (boundary \/ item.k = "exit")
       /\ sequence' = sequence + 1
       /\ Sink(Sunk(Stored, sequence, item))
       /\ UNCHANGED <<owner, terminal>>

\* Mutant: events are emitted after the terminal.
EmitAfterTerminal(item) ==
  /\ boundary' = (boundary \/ item.k = "exit")
  /\ sequence' = sequence + 1
  /\ Sink(Sunk(Stored, sequence, item))
  /\ UNCHANGED <<owner, terminal>>

\* emit_driver: an exit is the boundary, and publishes its verdict unless somebody
\* stops the runtime already.
EmitDriver(item) ==
  LET emitted == Sunk(Stored, sequence, item)
      publishes == verdict # None /\ owner = "Running"
  IN IF owner = "Terminal" THEN UNCHANGED <<ownerVars, sinkVars>>
     ELSE /\ boundary' = (boundary \/ item.k = "exit")
          /\ owner' = IF publishes THEN "Terminal" ELSE owner
          /\ terminal' = IF publishes THEN verdict ELSE terminal
          /\ sequence' = IF publishes THEN sequence + 2 ELSE sequence + 1
          /\ Sink(IF publishes THEN Sunk(emitted, sequence + 1, TerminalItem) ELSE emitted)

(* ----------------------------- event pump ------------------------------ *)
\* TurnTracker::observe
TrackerObserve(item) ==
  CASE item.k = "started" -> [generation |-> tracker.generation + 1, active |-> TRUE, boundary |-> None]
    [] item.k \in {"completed", "failed"} /\ tracker.active ->
         [tracker EXCEPT !.active = FALSE, !.boundary = item.k]
    [] OTHER -> tracker

\* OfferedPermissionCache::observe: a reused id is dropped and not offered again.
CacheObserve(item) ==
  CASE item.k = "permission" /\ item.v \in cache -> cache \ {item.v}
    [] item.k = "permission" /\ item.v \notin cache /\ Cardinality(cache) < MaxOffered -> cache \cup {item.v}
    [] OTHER -> cache

\* The verdict on an exit, from the observed group and the last turn.
ExitVerdict(item, orphans) ==
  CASE orphans -> "Orphaned"
    [] ~orphans /\ ~item.ok -> "Exited"
    [] ~orphans /\ item.ok /\ ~tracker.active /\ tracker.boundary = "completed" -> "Completed"
    [] OTHER -> "Lost"

PumpTake ==
  /\ pump = "idle" /\ inbox # <<>>
  /\ LET item == Head(inbox)
     IN /\ item.k = "preferences" => WriteSucceeds
        /\ cache' = CacheObserve(item)
        /\ tracker' = TrackerObserve(item)
        /\ held' = item
        /\ \E unknown \in BOOLEAN :
             verdict' = IF item.k = "exit" THEN ExitVerdict(item, proc.orphan \/ unknown) ELSE None
  /\ inbox' = Tail(inbox)
  /\ pump' = "holding"
  /\ UNCHANGED <<proc, talk, wire, reader, turnActive, raw, monitor, late, dispatcher, tableVars,
                 sends, phase, ingress, ownerVars, sinkVars, threadVars>>

\* The answer to a preferences request cannot be written: the stream is lost.
PumpCannotAnswer ==
  /\ pump = "idle" /\ inbox # <<>>
  /\ Head(inbox).k = "preferences" /\ WriteFails
  /\ pump' = "ended"
  /\ PublishTerminal("Lost")
  /\ UNCHANGED <<driverVars, phase, ingress, boundary, tracker, held, verdict, cache, threadVars>>

PumpEmit ==
  /\ pump = "holding"
  /\ EmitDriver(held)
  /\ pump' = IF held.k = "exit" THEN "ended" ELSE "idle"
  /\ cache' = IF held.k = "exit" THEN {} ELSE cache
  /\ held' = NoItem /\ verdict' = None
  /\ UNCHANGED <<driverVars, phase, ingress, tracker, threadVars>>

Pump == PumpTake \/ PumpCannotAnswer \/ PumpEmit

(* ------------------------- sending a request --------------------------- *)
restOfOwner == <<phase, ingress, ownerVars, tracker, pumpVars, cache, sinkVars>>
others == <<fin, resp, answers, result>>

Method == Head(cmd.todo)
CmdFails == [cmd EXCEPT !.at = "failed", !.todo = <<>>, !.id = 0, !.since = 0]
Advance == [cmd EXCEPT !.at = "next", !.todo = Tail(@), !.id = 0, !.since = 0]
Accepting == ingress = "Running" /\ phase = "RUNNING"
OpenRequests == {q \in Ids : requests[q] \in {"pending", "sending"}}

\* The bootstrap sends its requests before the row is RUNNING. Later messages are
\* delivered between turns under the operation lock, by the thread of the task.
MaySend == \/ phase = "PREPARING" /\ cmd.turns = 0
           \/ /\ phase = "RUNNING" /\ ingress = "Running" /\ operation = {} /\ fin["task"].at = "idle"
              /\ ~tracker.active /\ tracker.boundary # None
              /\ tracker.boundary = "completed" => OpenRequests = {}
           \/ Method = "stop"

\* send_turn and stop_turn take their snapshot of the turn before the request.
CmdBegin ==
  /\ cmd.at = "next" /\ cmd.todo # <<>>
  /\ MaySend
  /\ BeginRequest
  /\ operation' = IF phase = "RUNNING" /\ Method # "stop" THEN {"task"} ELSE operation
  /\ cmd' = [cmd EXCEPT !.at = "write", !.id = nextId, !.since = tracker.generation,
                         !.ended = (owner = "Terminal")]
  /\ UNCHANGED <<sends, restOfOwner, others>>

CmdWrite ==
  /\ cmd.at = "write"
  /\ \/ /\ WriteSucceeds
        /\ sends' = IF Method = "send" /\ proc.alive THEN sends + 1 ELSE sends
        /\ cmd' = [cmd EXCEPT !.at = "wait"]
        /\ UNCHANGED <<streamVars, tableVars>>
     \/ /\ WriteFails
        /\ RemoveEntry(cmd.id)
        /\ cmd' = CmdFails
        /\ UNCHANGED sends
  /\ UNCHANGED <<restOfOwner, others, operation>>

\* SessionCreateProjection may refuse the result of session/create, and so may the
\* comparison of its model with the requested one.
Refusable(method) == method = "create"

CmdReply ==
  /\ cmd.at = "wait" /\ reply[cmd.id] # None
  /\ RemoveEntry(cmd.id)
  /\ \/ /\ reply[cmd.id] = "result"
        /\ cmd' = CASE Method = "send" -> [cmd EXCEPT !.at = "turn"]
                    [] Method = "stop" -> [cmd EXCEPT !.at = "boundary"]
                    [] OTHER -> Advance
     \/ /\ reply[cmd.id] # "result" \/ Refusable(Method)
        /\ cmd' = CmdFails
  /\ UNCHANGED <<sends, restOfOwner, others, operation>>

\* wait_started_after and wait_boundary_after; a delivery then gives the lock back.
CmdTurn ==
  /\ \/ cmd.at = "turn" /\ tracker.generation > cmd.since
     \/ /\ cmd.at = "boundary" /\ tracker.generation >= cmd.since
        /\ ~tracker.active /\ tracker.boundary # None
  /\ cmd' = [Advance EXCEPT !.turns = IF cmd.at = "turn" THEN @ + 1 ELSE @]
  /\ operation' = IF cmd.at = "turn" /\ phase # "PREPARING" THEN {} ELSE operation
  /\ UNCHANGED <<driverVars, restOfOwner, others>>

\* Mutant: a wait that times out leaves its entry in the table.
TimeoutLeavesEntry ==
  /\ cmd.at \in {"wait", "turn", "boundary"}
  /\ cmd' = CmdFails
  /\ UNCHANGED <<driverVars, restOfOwner, others, operation>>

CmdTimeout ==
  /\ \/ cmd.at = "wait" /\ reply[cmd.id] = None /\ RemoveEntry(cmd.id) /\ UNCHANGED sends
     \/ cmd.at \in {"turn", "boundary"} /\ UNCHANGED driverVars
  /\ cmd' = CmdFails
  /\ UNCHANGED <<restOfOwner, others, operation>>

\* mark_session_running, once the bootstrap has sent the first turn.
MarkRunning == /\ phase = "PREPARING" /\ cmd.turns > 0
               /\ phase' = "RUNNING"
               /\ UNCHANGED <<driverVars, ingress, ownerVars, tracker, pumpVars, cache, sinkVars, threadVars>>

\* The second look of start_claim: a row that is no longer RUNNING, because it was
\* stopped or because it waits for an answer, is cleaned up as cancelled.
Recheck ==
  /\ fin["task"].at = "starting" /\ phase \notin {"PREPARING", "TERMINAL"}
  /\ IF phase = "RUNNING" /\ OpenRequests = {}
     THEN fin' = [fin EXCEPT !["task"].at = "idle"]
     ELSE fin' = [fin EXCEPT !["task"] = [at |-> "failClosed", with |-> None, why |-> "recheck"]]
  /\ UNCHANGED <<driverVars, restOfOwner, cmd, resp, operation, answers, result>>

Command == CmdBegin \/ CmdWrite \/ CmdReply \/ CmdTurn \/ CmdTimeout \/ MarkRunning \/ Recheck

(* ----------------------- Scheduler::respond_request -------------------- *)
respFrame == <<ownerVars, tracker, pumpVars, sink, log, cmd, result>>

\* Under the operation lock: the checks, the policy's decision and the claim.
RespClaim(r, q) ==
  /\ resp[r].at \in {"idle", "done"} /\ operation = {}
  /\ Accepting /\ requests[q] = "pending"
  /\ requests' = [requests EXCEPT ![q] = "sending"]
  /\ operation' = {r}
  /\ resp' = [resp EXCEPT ![r] = [at |-> "claimed", q |-> q]]
  /\ UNCHANGED <<driverVars, phase, ingress, cache, answers, fin, respFrame>>

Release(q) == requests' = [requests EXCEPT ![q] = IF @ = "sending" THEN "pending" ELSE @]

\* The second look at ingress and row.
RespCheck(r) ==
  /\ resp[r].at = "claimed"
  /\ \/ Accepting /\ resp' = [resp EXCEPT ![r].at = "respond"] /\ UNCHANGED <<requests, operation>>
     \/ /\ ~Accepting
        /\ Release(resp[r].q)
        /\ resp' = [resp EXCEPT ![r] = [at |-> "done", q |-> 0]]
        /\ operation' = {}
  /\ UNCHANGED <<driverVars, phase, ingress, cache, answers, fin, respFrame>>

\* RuntimeOwner::respond_request writes the offered response, then forgets the offer.
RespWrite(r) ==
  /\ resp[r].at = "respond"
  /\ resp[r].q \in cache /\ WriteSucceeds
  /\ answers' = [answers EXCEPT ![resp[r].q] = @ + 1]
  /\ resp' = [resp EXCEPT ![r].at = "sent"]
  /\ UNCHANGED <<driverVars, phase, ingress, cache, requests, operation, fin, respFrame>>

RespSent(r) ==
  /\ resp[r].at = "sent"
  /\ cache' = cache \ {resp[r].q}
  /\ resp' = [resp EXCEPT ![r].at = "answered"]
  /\ UNCHANGED <<driverVars, phase, ingress, answers, requests, operation, fin, respFrame>>

RespComplete(r) ==
  /\ resp[r].at = "answered"
  /\ requests' = [requests EXCEPT ![resp[r].q] = IF @ = "sending" THEN "responded" ELSE @]
  /\ resp' = [resp EXCEPT ![r] = [at |-> "done", q |-> 0]]
  /\ operation' = {}
  /\ UNCHANGED <<driverVars, phase, ingress, cache, answers, fin, respFrame>>

\* Mutant: a failed answer does not stop the runtime.
FailureKeepsRuntime(r) ==
  /\ resp[r].at \in {"respond", "answered"}
  /\ Release(resp[r].q)
  /\ resp' = [resp EXCEPT ![r] = [at |-> "done", q |-> 0]]
  /\ operation' = {}
  /\ UNCHANGED <<driverVars, phase, ingress, cache, answers, fin, respFrame>>

\* Nothing was offered, the write failed or the deadline passed, before or after the
\* frame was written: the claim is released and the runtime is stopped fail-closed,
\* with the lock still held.
RespFails(r) ==
  /\ resp[r].at \in {"respond", "answered"}
  /\ Release(resp[r].q)
  /\ resp' = [resp EXCEPT ![r] = [at |-> "done", q |-> 0]]
  /\ fin' = [fin EXCEPT ![r] = [at |-> "failClosed", with |-> None, why |-> "control"]]
  /\ UNCHANGED <<driverVars, phase, ingress, cache, answers, operation, respFrame>>

Respond(r) == \/ \E q \in Ids : RespClaim(r, q)
              \/ RespCheck(r) \/ RespWrite(r) \/ RespSent(r) \/ RespComplete(r) \/ RespFails(r)

(* ---------------------- deciding to finish ----------------------------- *)
finFrame == <<cmd, resp, answers, result>>
Move(f, to) == fin' = [fin EXCEPT ![f].at = to]
\* The thread is done; that a cancel was requested stays in the row.
Leave(f) == fin' = [fin EXCEPT ![f] = [at |-> "done", with |-> None, why |-> IF f = "cancel" THEN @.why ELSE None]]
CloseIngress == ingress' = IF ingress = "Running" THEN "Stopping" ELSE ingress

\* request_stop_internal: the open requests are deleted and the queued messages fail.
RequestStop ==
  IF phase = "TERMINAL" THEN UNCHANGED <<phase, requests, cmd>>
  ELSE /\ phase' = "STOPPING"
       /\ requests' = [q \in Ids |-> IF q \in OpenRequests THEN None ELSE requests[q]]
       /\ cmd' = [cmd EXCEPT !.todo = IF @ # <<>> /\ (cmd.at # "next" \/ Head(@) = "stop")
                                      THEN <<Head(@)>> ELSE <<>>]
stopFrame == <<driverVars, ownerVars, tracker, pumpVars, cache, sink, log, resp, answers, result, operation>>

\* stop_requested of the row.
StopRequested == fin["cancel"].why = "cancel"

Begin(why, with) == fin' = [fin EXCEPT !["task"] = [at |-> "begin", with |-> with, why |-> why]]

\* The bootstrap failed: the process is stopped, with the ingress still open.
StartFailed ==
  /\ fin["task"].at = "starting" /\ cmd.at = "failed" /\ phase = "PREPARING"
  /\ Begin("start", None)
  /\ UNCHANGED <<driverVars, phase, ingress, ownerVars, tracker, pumpVars, cache, sinkVars, finFrame, operation>>

\* A delivery failed, and with it the turn, unless the runtime had ended before.
DeliveryFailed ==
  /\ fin["task"].at = "idle" /\ cmd.at = "failed" /\ operation = {"task"}
  /\ IF cmd.ended
     THEN operation' = {} /\ UNCHANGED fin
     ELSE UNCHANGED operation /\ Begin("delivery", "failed")
  /\ cmd' = [cmd EXCEPT !.at = "next"]
  /\ UNCHANGED <<driverVars, phase, ingress, ownerVars, tracker, pumpVars, cache, sinkVars, resp, answers, result>>

TaskIdle == /\ fin["task"].at = "idle" /\ operation = {}
            /\ phase \notin {"PREPARING", "TERMINAL"}

\* begin_natural_completion: nobody stops the runtime, no request is open and no
\* message queued; it closes the ingress in the same step.
BeginNatural ==
  \/ /\ ingress = "Running" /\ OpenRequests = {} /\ cmd.todo = <<>>
     /\ ingress' = "Terminal"
  \/ /\ ingress # "Running"
     /\ UNCHANGED ingress

\* The monitor sees the end of a turn.
SeeBoundary ==
  /\ TaskIdle
  /\ ~tracker.active
  /\ \/ tracker.boundary = "completed" /\ BeginNatural
     \/ tracker.boundary = "failed" /\ ingress = "Running" /\ cmd.todo = <<>> /\ UNCHANGED ingress
  /\ Begin("boundary", tracker.boundary)
  /\ operation' = {"task"}
  /\ UNCHANGED <<driverVars, phase, ownerVars, tracker, pumpVars, cache, sinkVars, finFrame>>

\* It sees that the runtime published a terminal.
SeeTerminal ==
  /\ TaskIdle
  /\ owner = "Terminal"
  /\ \/ terminal = "Completed" /\ BeginNatural
     \/ terminal # "Completed" /\ ingress # "Terminal" /\ UNCHANGED ingress
  /\ fin' = [fin EXCEPT !["task"] = [at |-> "persist", with |-> terminal, why |-> "exit"]]
  /\ operation' = {"task"}
  /\ UNCHANGED <<driverVars, phase, ownerVars, tracker, pumpVars, cache, sinkVars, finFrame>>

\* It sees that an event could not be stored.
SeeSinkError ==
  /\ TaskIdle
  /\ sink.failed
  /\ CloseIngress
  /\ Begin("sink", None)
  /\ operation' = {"task"}
  /\ UNCHANGED <<driverVars, phase, ownerVars, tracker, pumpVars, cache, sinkVars, finFrame>>

Close(f, why) == fin' = [fin EXCEPT ![f] = [at |-> "close", with |-> None, why |-> why]]
MayStop == Cardinality({f \in Threads : fin[f].why \in {"cancel", "timeout"}}) < MaxStops
MonitorLooks == fin["task"].at = "idle" /\ phase \in {"RUNNING", "STOPPING"} /\ operation # {"task"}

\* It sees that a budget is exhausted.
SeeViolation ==
  /\ MonitorLooks /\ sink.violation # None
  /\ RequestStop
  /\ Close("task", "budget")
  /\ UNCHANGED <<ingress, stopFrame>>

\* It sees that the timeout for what the runtime is doing has passed.
SeeTimeout(reason) ==
  /\ MonitorLooks /\ MayStop /\ reason # None
  /\ reason = TimeoutReason(sink.activity, OpenRequests # {})
  /\ RequestStop
  /\ Close("task", "timeout")
  /\ UNCHANGED <<ingress, stopFrame>>

\* A client cancels the task.
CancelTask ==
  /\ fin["cancel"].at = "idle" /\ phase = "RUNNING" /\ MayStop
  /\ RequestStop
  /\ Close("cancel", "cancel")
  /\ UNCHANGED <<ingress, stopFrame>>

CloseAndWait(f) ==
  /\ fin[f].at = "close"
  /\ CloseIngress
  /\ Move(f, "lock")
  /\ UNCHANGED <<driverVars, phase, ownerVars, tracker, pumpVars, cache, sinkVars, finFrame, operation>>

\* Mutant: the operation lock is not exclusive.
LockShared(f) ==
  /\ fin[f].at = "lock"
  /\ Move(f, "cooperate")
  /\ operation' = operation \cup {f}
  /\ UNCHANGED <<driverVars, phase, ingress, ownerVars, tracker, pumpVars, cache, sinkVars, finFrame>>

Lock(f) ==
  /\ fin[f].at = "lock" /\ operation = {}
  /\ IF phase = "TERMINAL" THEN Leave(f) /\ UNCHANGED operation
     ELSE Move(f, "cooperate") /\ operation' = {f}
  /\ UNCHANGED <<driverVars, phase, ingress, ownerVars, tracker, pumpVars, cache, sinkVars, finFrame>>

\* A cancel whose deadline passes stops the runtime without the lock.
LockTimeout ==
  /\ fin["cancel"].at = "lock" /\ operation # {}
  /\ Move("cancel", "failClosed")
  /\ UNCHANGED <<driverVars, phase, ingress, ownerVars, tracker, pumpVars, cache, sinkVars, finFrame, operation>>

\* cleanup_registered_runtime_with_grace, up to its stop.
FailClosed(f) ==
  /\ fin[f].at = "failClosed"
  /\ RequestStop
  /\ CloseIngress
  /\ Move(f, "begin")
  /\ UNCHANGED stopFrame

\* request_cooperative_stop asks the active turn to stop and waits for its end.
Cooperate(f) ==
  /\ fin[f].at = "cooperate"
  /\ IF tracker.active /\ nextId <= MaxRequests
     THEN cmd' = [cmd EXCEPT !.at = "next", !.todo = <<"stop">>] /\ Move(f, "cooperating")
     ELSE UNCHANGED cmd /\ Move(f, "begin")
  /\ UNCHANGED <<driverVars, phase, ingress, ownerVars, tracker, pumpVars, cache, sinkVars,
                 resp, answers, result, operation>>

Cooperated(f) ==
  /\ fin[f].at = "cooperating" /\ cmd.todo = <<>>
  /\ Move(f, "begin")
  /\ UNCHANGED <<driverVars, phase, ingress, ownerVars, tracker, pumpVars, cache, sinkVars, finFrame, operation>>

(* ---------------------------- finish_process --------------------------- *)
BeginStopping(f) ==
  /\ fin[f].at = "begin"
  /\ \/ owner = "Terminal" /\ fin' = [fin EXCEPT ![f].at = "persist", ![f].with = terminal] /\ UNCHANGED owner
     \/ owner # "Terminal" /\ Move(f, "reap") /\ owner' = "Stopping"
  /\ UNCHANGED <<driverVars, phase, ingress, terminal, boundary, sequence, tracker, pumpVars, cache,
                 sinkVars, finFrame, operation>>

\* stop_and_reap, as StopService states it: success leaves no process behind.
Reap(f) ==
  /\ fin[f].at = "reap"
  /\ \/ /\ proc' = [alive |-> FALSE, exit |-> IF proc.alive THEN "signal" ELSE proc.exit, orphan |-> FALSE]
        /\ sends' = 0
        /\ Move(f, "await")
     \/ fin' = [fin EXCEPT ![f].at = "publish", ![f].with = "Lost"] /\ UNCHANGED <<proc, sends>>
  /\ UNCHANGED <<talk, wire, reader, turnActive, raw, monitor, late, dispatcher, inbox, tableVars,
                 phase, ingress, ownerVars, tracker, pumpVars, cache, sinkVars, finFrame, operation>>

Finished(with) == CASE with = "completed" -> "Completed"
                    [] with = "failed" -> "FailedTurn"
                    [] OTHER -> "Stopped"

\* Mutant: the exit boundary is not awaited.
BoundaryNotAwaited(f) ==
  /\ fin[f].at = "await"
  /\ fin' = [fin EXCEPT ![f].at = "publish", ![f].with = Finished(@)]
  /\ UNCHANGED <<driverVars, phase, ingress, ownerVars, tracker, pumpVars, cache, sinkVars, finFrame, operation>>

\* wait_for_exit_boundary: delivered, a terminal of somebody else, or the timeout.
AwaitBoundary(f) ==
  /\ fin[f].at = "await"
  /\ fin' = [fin EXCEPT ![f].at = "publish",
                         ![f].with = CASE boundary -> Finished(@)
                                       [] ~boundary /\ owner = "Terminal" -> terminal
                                       [] OTHER -> "Lost"]
  /\ UNCHANGED <<driverVars, phase, ingress, ownerVars, tracker, pumpVars, cache, sinkVars, finFrame, operation>>

\* Mutant: a thread goes on with the terminal it wanted to publish.
PublishKeepsOwn(f) ==
  /\ fin[f].at = "publish"
  /\ cache' = {}
  /\ PublishTerminal(fin[f].with)
  /\ Move(f, "persist")
  /\ UNCHANGED <<driverVars, phase, ingress, boundary, tracker, pumpVars, finFrame, operation>>

Publish(f) ==
  /\ fin[f].at = "publish"
  /\ cache' = {}
  /\ PublishTerminal(fin[f].with)
  /\ fin' = [fin EXCEPT ![f].at = "persist", ![f].with = terminal']
  /\ UNCHANGED <<driverVars, phase, ingress, boundary, tracker, pumpVars, finFrame, operation>>

(* ------------------- finish_routed_terminal ---------------------------- *)
\* run_required_general_checks: they succeed, fail or meet the deadline. A stop during
\* the checks ends them, and storing the result makes the same of it.
CheckedOutcomes == {"COMPLETED", "FAILED", "TIMED_OUT"}

\* A completed turn needs a visible text, a finalized tree and its checks.
NaturalOutcomes ==
  IF TakeTerminalText(sink.activity) = "Visible" THEN CheckedOutcomes ELSE {"RESULT_INVALID"}

\* What the terminal says when nothing else is known.
TerminalOutcome(t) == CASE t = "Stopped" -> "CANCELLED"
                        [] t \in {"Lost", "Orphaned", "Exited"} -> "RUNTIME_LOST"
                        [] OTHER -> "FAILED"

\* What the thread that finishes the process insists on.
ForcedOutcome(f) ==
  CASE fin[f].why \in {"cancel", "recheck"} -> "CANCELLED"
    [] fin[f].why \in {"delivery", "control", "start"} -> "FAILED"
    [] fin[f].why = "budget" -> "BUDGET_EXHAUSTED"
    [] fin[f].why = "timeout" -> "TIMED_OUT"
    [] fin[f].why = "sink" -> "RUNTIME_LOST"
    [] OTHER -> TerminalOutcome(fin[f].with)

\* Mutant: a stop or a lost event does not change the outcome.
EndedTurnCompletes(f) ==
  IF fin[f].with \in {"Completed", "FailedTurn"} THEN NaturalOutcomes ELSE {ForcedOutcome(f)}

\* finish_locked_monitor_terminal: a stop request wins over what the runtime did, and
\* a lost event over a natural end.
Outcomes(f) ==
  LET natural == fin[f].why \in {"boundary", "exit"}
  IN CASE StopRequested -> {"CANCELLED"}
       [] ~StopRequested /\ natural /\ sink.failed -> {"RUNTIME_LOST"}
       [] ~StopRequested /\ natural /\ ~sink.failed /\ fin[f].with = "Completed" -> NaturalOutcomes
       [] OTHER -> {ForcedOutcome(f)}

\* The ingress is closed for good, unless the runtime never came to run.
Finalize(f) ==
  /\ fin[f].at = "persist"
  /\ ingress' = IF fin[f].why = "start" THEN ingress ELSE "Terminal"
  /\ \/ /\ phase = "TERMINAL"
        /\ Leave(f) /\ operation' = operation \ {f}
     \/ /\ phase # "TERMINAL"
        /\ \E outcome \in Outcomes(f) : fin' = [fin EXCEPT ![f].at = "store", ![f].with = outcome]
        /\ UNCHANGED operation
  /\ UNCHANGED <<driverVars, phase, ownerVars, tracker, pumpVars, cache, sinkVars, finFrame>>

\* The terminal record, numbered when it was published or now.
TerminalRecord(d) ==
  LET seq == IF d.sink.pendingTerminal > 0 THEN d.sink.pendingTerminal ELSE d.sink.last + 1
  IN AppendLifecycle(d, seq, TerminalType[terminal])

\* finish_general, or persist_general_completion after a lost event: the terminal record,
\* once; storing the result makes the row terminal and deletes the open requests, and
\* a stop requested before that wins over any other outcome.
Persist(f) ==
  LET writes == ~sink.failed /\ ~sink.written /\ fin[f].why # "start" /\ phase # "TERMINAL"
      recorded == IF writes THEN TerminalRecord(Stored) ELSE Stored
  IN /\ fin[f].at = "store"
     /\ Sink(Tables([recorded.sink EXCEPT !.written = @ \/ writes], recorded.log,
                    [q \in Ids |-> IF q \in OpenRequests THEN None ELSE requests[q]]))
     /\ result' = CASE phase = "TERMINAL" -> result
                    [] phase # "TERMINAL" /\ StopRequested -> "CANCELLED"
                    [] OTHER -> fin[f].with
     /\ phase' = "TERMINAL"
     /\ Leave(f)
     /\ operation' = operation \ {f}
     /\ UNCHANGED <<driverVars, ingress, ownerVars, tracker, pumpVars, cache, cmd, resp, answers>>

FinishProcess(f) == BeginStopping(f) \/ Reap(f) \/ AwaitBoundary(f) \/ Publish(f) \/ Finalize(f) \/ Persist(f)

Finish(f) == \/ CloseAndWait(f) \/ Lock(f) \/ FailClosed(f) \/ Cooperate(f) \/ Cooperated(f)
             \/ FinishProcess(f)

Decide == \/ StartFailed \/ DeliveryFailed
          \/ SeeBoundary \/ SeeTerminal \/ SeeSinkError \/ SeeViolation
          \/ SeeTimeout("INPUT_WAIT_TIMEOUT")
IdleTimeouts == {"TOOL_CALL_TIMEOUT", "MODEL_STREAM_IDLE_TIMEOUT", "RUNTIME_ACTIVITY_IDLE_TIMEOUT"}
Cancel == CancelTask \/ LockTimeout

(* ---------------------------- specification ---------------------------- *)
Init ==
  /\ DriverInit
  /\ phase = "PREPARING" /\ ingress = "Running"
  /\ owner = "Running" /\ terminal = None /\ boundary = FALSE /\ sequence = 1
  /\ tracker = [generation |-> 0, active |-> FALSE, boundary |-> None]
  /\ pump = "idle" /\ held = NoItem /\ verdict = None
  /\ cache = {}
  /\ sink = [failed |-> FALSE, last |-> 0, pendingTerminal |-> 0, written |-> FALSE,
             turns |-> {}, tools |-> {}, violation |-> None, activity |-> NoActivity]
  /\ log = <<>>
  /\ requests = [q \in Ids |-> None]
  /\ cmd = [at |-> "next", todo |-> Script, id |-> 0, since |-> 0, turns |-> 0, ended |-> FALSE]
  /\ fin = [f \in Threads |-> [at |-> IF f = "task" THEN "starting" ELSE "idle", with |-> None, why |-> None]]
  /\ resp = [r \in Responders |-> [at |-> "idle", q |-> 0]]
  /\ operation = {}
  /\ answers = [q \in Ids |-> 0]
  /\ result = None

DriverStep == /\ DriverThreads \/ AppServer
              /\ UNCHANGED <<restOfOwner, threadVars>>

Next == \/ DriverStep
        \/ Pump
        \/ Command
        \/ \E r \in Responders : Respond(r)
        \/ Decide \/ Cancel \/ \E reason \in IdleTimeouts : SeeTimeout(reason)
        \/ \E f \in Threads : Finish(f)

Spec == Init /\ [][Next]_vars

(* ----------------------------- properties ------------------------------ *)
Results == {"COMPLETED", "FAILED", "CANCELLED", "TIMED_OUT", "BUDGET_EXHAUSTED", "RUNTIME_LOST",
            "RESULT_INVALID"}

\* The states of the threads, tables and rows; at most one thread holds the operation
\* lock, and the row is terminal exactly when its result is stored.
RuntimeTypeOK ==
  /\ reader \in {"reading", "done"} /\ monitor \in {"polling", "done"}
  /\ dispatcher \in {"running", "ended"}
  /\ pending \subseteq Requests
  /\ reply \in [Requests -> {None, "result", "error", "childExited", "streamClosed"}]
  /\ phase \in {"PREPARING", "RUNNING", "STOPPING", "TERMINAL"}
  /\ ingress \in {"Running", "Stopping", "Terminal"}
  /\ owner \in {"Running", "Stopping", "Terminal"}
  /\ terminal \in Terminals \cup {None} /\ (terminal = None) = (owner # "Terminal")
  /\ cache \subseteq Ids /\ Cardinality(cache) <= MaxOffered
  /\ requests \in [Ids -> {None, "pending", "sending", "responded"}]
  /\ operation \subseteq Threads /\ Cardinality(operation) <= 1
  /\ result \in Results \cup {None} /\ (result = None) = (phase # "TERMINAL")

\* The pending table holds no entry whose waiter is gone: timeouts, failed writes,
\* answers and the two drains of the dispatcher race for it, and a late or repeated
\* response must find nothing.
NoStaleEntry == pending \subseteq (IF cmd.at \in {"write", "wait"} THEN {cmd.id} ELSE {})

\* Whoever finishes the process, with the operation lock or after a deadline without
\* it, and whatever the pump publishes meanwhile, all threads go on with the one
\* terminal of the publisher, and it is the one in the event log.
SameTerminal ==
  /\ \A f \in Threads : fin[f].at = "persist" => fin[f].with = terminal
  /\ \A i \in DOMAIN log : log[i].type \in TerminalTypes => log[i].type = TerminalType[terminal]

\* An orderly terminal is published only after everything the reader read before the
\* exit reached the publisher, unless the reader missed the barrier of one second.
EventsBeforeTerminal ==
  terminal \in Orderly /\ ~late => reader = "done" /\ raw = <<>> /\ inbox = <<>> /\ pump = "ended"

\* The events of a runtime have increasing source numbers and the terminal record is
\* the last of them, also when it was numbered before the sink saw it.
TerminalIsLast ==
  \A i \in 1..(Len(log) - 1) : log[i].seq < log[i + 1].seq /\ log[i].type \notin TerminalTypes

SaidChunks(n) == {talk[i].v : i \in {j \in 1..n : talk[j].k = "text"}}

\* The identities a conversation samples: those of its chunks and tools.
SampleIds(c) == {ParseActivity(c[i]).identity : i \in {j \in DOMAIN c : ParseActivity(c[j]).sample # None}}

\* No conversation has more identities than the tracker remembers: it forgets the oldest
\* beyond its limit, and takes a chunk that is repeated after that for a new one.
FewIdentities == \A c \in Conversations : Cardinality(SampleIds(c)) <= MaxIdentities

\* An event id names one event. Text and reasoning share the identities of the stream, so
\* a chunk of text under the id of one of reasoning would be refused as its repetition.
OneEventPerId ==
  \A c \in Conversations : \A i, j \in DOMAIN c : c[i].k = "text" /\ c[j].k = "reasoning" => c[i].v # c[j].v

\* The text of the task has no chunk twice and is not dropped as too long, although the
\* session and the telemetry repeat chunks; and when the monitor completes a turn
\* naturally no chunk said before the end of the turn is missing, although the tracker
\* of turns sees that end before the sink does.
TextIsComplete ==
  LET text == sink.activity.text
      oversized == sink.activity.oversized
  IN /\ \A i, j \in DOMAIN text : text[i] = text[j] => i = j
     /\ oversized => Cardinality(SaidChunks(Len(talk))) > TextLimit
     /\ fin["task"].with = "completed" /\ (\A f \in Threads \ {"task"} : fin[f].at = "idle") =>
          \A j \in DOMAIN talk :
            talk[j].k = "completed" /\ (\A n \in 1..(j - 1) : talk[n].k # "completed") =>
              oversized \/ SaidChunks(j) \subseteq {text[i] : i \in DOMAIN text}

\* A result COMPLETED is earned: the process was proved dead after a turn that completed,
\* the whole event log was stored, the text is there, and nobody asked to stop before.
CompletedIsEarned ==
  result = "COMPLETED" =>
    /\ terminal = "Completed" /\ ~proc.alive /\ ~tracker.active /\ tracker.boundary = "completed"
    /\ ~sink.failed /\ sink.activity.text # <<>> /\ ~StopRequested
    /\ \E i \in DOMAIN log : log[i].type = "runtime.completed"

\* With failing writes, deadlines that pass after the frame was written and a process
\* that exits in between, a permission request is answered at most once, a claim is
\* not left behind, and a request that was answered is offered to the clients again
\* only when the runtime is being stopped.
RequestsSettle ==
  \A q \in Ids :
    /\ answers[q] <= 1
    /\ requests[q] = "sending" => \E r \in Responders : resp[r].q = q /\ resp[r].at \notin {"idle", "done"}
    /\ requests[q] = "pending" /\ answers[q] = 1 => \E r \in Responders : fin[r].at # "idle"

\* More tool calls at a time than the budget allows are noticed.
ToolCallsBounded == Cardinality(sink.activity.tools) > MaxTools => sink.violation # None

\* What the daemon does by itself, without another line of the app-server, another call
\* of a client or a timeout of a silent runtime.
DaemonStep ==
  \/ DriverThreads /\ UNCHANGED <<restOfOwner, threadVars>>
  \/ Pump \/ Command \/ Decide
  \/ \E r \in Responders : resp[r].at \notin {"idle", "done"} /\ Respond(r)
  \/ \E f \in Threads : Finish(f)

\* Nothing gets stuck: as long as a dead process has no result, a thread finishes the
\* process, a request waits for its reply or somebody holds the operation lock, a
\* thread of the daemon can go on. Every behaviour is finite, so it does end.
NothingIsStuck ==
  \/ /\ ~proc.alive => phase = "TERMINAL" /\ owner = "Terminal"
     /\ \A f \in Threads : fin[f].at \in {"starting", "idle", "done"}
     /\ pending = {} /\ operation = {}
  \/ ENABLED DaemonStep
=============================================================================
