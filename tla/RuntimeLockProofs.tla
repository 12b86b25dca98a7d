------------------------- MODULE RuntimeLockProofs -------------------------
(***************************************************************************)
(* The threads of one runtime and what they share: the operation lock, the *)
(* request in progress with the driver's table of pending requests, the    *)
(* permission requests with their answers, the turn that is on its way,    *)
(* what the result COMPLETED takes, the text of the turn, and that the     *)
(* holder of the lock is always at work.                                   *)
(***************************************************************************)
EXTENDS RuntimeProofs

(* -------------------------------- types -------------------------------- *)
Methods == {"create", "send", "stop"}
Trackers == [generation : Nat, active : BOOLEAN, boundary : {None, "completed", "failed"}]
CmdAts == {"next", "write", "wait", "turn", "boundary", "failed"}
Cmds == [at : CmdAts, todo : Seq(Methods), id : Nat, since : Nat, turns : Nat, ended : BOOLEAN]

RespAts == {"idle", "claimed", "respond", "sent", "answered", "done"}
Resps == [at : RespAts, q : Ids \cup {0}]

TableTypes ==
  /\ nextId \in Nat \ {0} /\ pending \in SUBSET Requests
  /\ reply \in [Requests -> {None, "result", "error", "childExited", "streamClosed"}]
  /\ cmd \in Cmds /\ (cmd.at \in {"write", "wait"} => cmd.id \in Requests)
  /\ tracker \in Trackers

ThreadTypes ==
  /\ resp \in [Responders -> Resps]
  /\ operation = {} \/ \E f \in Threads : operation = {f}

(* ----------------------------- invariants ------------------------------ *)
Working == {"claimed", "respond", "sent", "answered"}
Busy == {"write", "wait", "turn", "boundary"}
Finishing == {"begin", "reap", "await", "publish", "persist", "store"}

\* Before the row is running there is only the bootstrap.
BootInv ==
  phase = "PREPARING" =>
    /\ operation = {}
    /\ \A f \in Threads : f # "task" => fin[f].at = "idle"
    /\ \A r \in Responders : resp[r].at = "idle"
    /\ fin["task"].at = "starting" \/ (fin["task"].at \in Finishing /\ fin["task"].why = "start" /\ cmd.at = "failed")
    /\ cmd.at # "next" => cmd.turns = 0

\* Who holds the operation lock.
LockInv ==
  /\ \A f \in Threads : fin[f].at \in {"cooperate", "cooperating"} => operation = {f}
  /\ \A r \in Responders : resp[r].at \in Working => operation = {r}
  /\ \A r \in Responders : fin[r].at \notin {"idle", "done"} => operation = {r} /\ resp[r].at = "done"

\* A request in progress belongs to the bootstrap, to a delivery that holds the lock, or to
\* the thread that asks the turn to stop.
Cooperating == \E f \in Threads : fin[f].at = "cooperating"
RequestInv ==
  /\ cmd.todo \in Seq({"create", "send"}) \/ (cmd.todo = <<"stop">> /\ Cooperating)
  /\ cmd.at \in Busy => /\ cmd.todo # <<>>
                        /\ \/ phase = "PREPARING"
                           \/ cmd.todo = <<"stop">>
                           \/ operation = {"task"} /\ fin["task"].at = "idle"
  /\ cmd.at = "turn" => Head(cmd.todo) = "send"

LaneInv == TableTypes /\ ThreadTypes /\ BootInv /\ LockInv /\ RequestInv /\ NoStaleEntry

(* ------------------------- requests in progress ------------------------ *)
(* The parts of the request in progress. *)
LEMMA CmdParts ==
  ASSUME cmd \in Cmds
  PROVE  /\ cmd.at \in CmdAts /\ cmd.todo \in Seq(Methods) /\ cmd.id \in Nat /\ cmd.since \in Nat
         /\ cmd.turns \in Nat /\ cmd.ended \in BOOLEAN
<1> QED BY DEF Cmds

(* The methods still to be sent, by the first of them. *)
LEMMA TodoParts ==
  ASSUME RequestInv, cmd.todo # <<>>
  PROVE  /\ Head(cmd.todo) \in Methods /\ Tail(cmd.todo) \in Seq({"create", "send"})
         /\ Head(cmd.todo) = "stop" => cmd.todo = <<"stop">>
         /\ Head(cmd.todo) # "stop" => cmd.todo \in Seq({"create", "send"})
<1>1. CASE cmd.todo \in Seq({"create", "send"})
  BY <1>1 DEF Methods
<1>2. CASE cmd.todo = <<"stop">>
  <2>1. Head(cmd.todo) = "stop" /\ Tail(cmd.todo) = <<>>
    BY <1>2
  <2> QED BY <1>2, <2>1 DEF Methods
<1> QED BY <1>1, <1>2 DEF RequestInv

\* A step of the request in progress.
CmdStep(at, todo, id, turns) ==
  /\ cmd' \in Cmds
  /\ cmd'.at = at /\ cmd'.todo = todo /\ cmd'.id = id /\ cmd'.turns = turns

(* A request by its fields. *)
LEMMA CmdRecord ==
  ASSUME cmd \in Cmds, NEW at \in CmdAts, NEW todo \in Seq(Methods), NEW id \in Nat, NEW since \in Nat,
         NEW turns \in Nat, NEW ended \in BOOLEAN,
         cmd' = [at |-> at, todo |-> todo, id |-> id, since |-> since, turns |-> turns, ended |-> ended]
  PROVE  CmdStep(at, todo, id, turns)
<1> QED BY DEF Cmds, CmdStep

(* A request that fails, and one that is over. *)
LEMMA CmdEnds ==
  ASSUME cmd \in Cmds
  PROVE  /\ cmd' = CmdFails => CmdStep("failed", <<>>, 0, cmd.turns)
         /\ cmd' = Advance /\ Tail(cmd.todo) \in Seq(Methods) => CmdStep("next", Tail(cmd.todo), 0, cmd.turns)
<1>2. <<>> \in Seq(Methods) /\ "failed" \in CmdAts /\ "next" \in CmdAts
  BY DEF CmdAts
<1>3. ASSUME cmd' = CmdFails
      PROVE  cmd' = [at |-> "failed", todo |-> <<>>, id |-> 0, since |-> 0, turns |-> cmd.turns, ended |-> cmd.ended]
  BY <1>3 DEF CmdFails, Cmds
<1>4. ASSUME cmd' = Advance
      PROVE  cmd' = [at |-> "next", todo |-> Tail(cmd.todo), id |-> 0, since |-> 0, turns |-> cmd.turns,
                     ended |-> cmd.ended]
  BY <1>4 DEF Advance, Cmds
<1> QED BY <1>2, <1>3, <1>4, CmdParts, CmdRecord

(* Steps that leave the threads alone. *)
LEMMA LaneKept ==
  ASSUME LaneInv, UNCHANGED <<phase, operation, fin, resp, cmd>>, TableTypes', pending' \subseteq pending
  PROVE  LaneInv'
<1>1. ThreadTypes' /\ BootInv' /\ LockInv'
  BY DEF LaneInv, ThreadTypes, BootInv, LockInv
<1>2. RequestInv'
  BY DEF LaneInv, RequestInv, Cooperating
<1>3. NoStaleEntry'
  BY DEF LaneInv, NoStaleEntry
<1> QED BY <1>1, <1>2, <1>3 DEF LaneInv

(* The dispatcher only takes entries out of the table. *)
LEMMA LaneDriver ==
  ASSUME LaneInv, StreamInv, DriverStep
  PROVE  LaneInv'
<1>1. UNCHANGED <<phase, operation, fin, resp, cmd, tracker>>
  BY DEF DriverStep, restOfOwner, threadVars
<1>2. TableTypes
  BY DEF LaneInv
<1>3. /\ nextId' = nextId /\ pending' \subseteq pending
      /\ reply' \in [Requests -> {None, "result", "error", "childExited", "streamClosed"}]
  <2> USE DEF TableTypes
  <2>1. CASE DispatchEnds \/ (Dispatch /\ DispatchExit)
    BY <1>2, <2>1 DEF DispatchEnds, DispatchExit, DrainPending
  <2>2. CASE Dispatch /\ DispatchResponse
    BY <1>2, <2>2 DEF DispatchResponse, tableVars
  <2>3. CASE Dispatch /\ DispatchOther
    BY <1>2, <2>3 DEF DispatchOther, tableVars
  <2>4. CASE AppServer \/ Read \/ ReadEof \/ MonitorPublishes
    BY <1>2, <2>4 DEF AppServer, Say, Exit, OrphanDies, Read, ReadEof, MonitorPublishes, tableVars
  <2> QED BY <2>1, <2>2, <2>3, <2>4 DEF DriverStep, DriverThreads, Dispatch
<1>4. TableTypes'
  BY <1>1, <1>2, <1>3 DEF TableTypes
<1> QED BY <1>1, <1>3, <1>4, LaneKept

(* The pump keeps the turns. *)
LEMMA LanePump ==
  ASSUME LaneInv, Pump
  PROVE  LaneInv'
<1>1. UNCHANGED <<phase, operation, fin, resp, cmd, nextId, pending, reply>>
  BY DEF Pump, PumpTake, PumpCannotAnswer, PumpEmit, threadVars, driverVars, tableVars
<1>2. TableTypes
  BY DEF LaneInv
<1>3. tracker' \in Trackers
  <2>1. CASE PumpTake
    <3>1. tracker \in Trackers /\ tracker' = TrackerObserve(Head(inbox))
      BY <1>2, <2>1 DEF PumpTake, TableTypes
    <3>2. CASE Head(inbox).k = "started"
      BY <3>1, <3>2 DEF TrackerObserve, Trackers
    <3>3. CASE Head(inbox).k # "started" /\ Head(inbox).k \in {"completed", "failed"} /\ tracker.active
      <4>1. tracker' = [tracker EXCEPT !.active = FALSE, !.boundary = Head(inbox).k]
        BY <3>1, <3>3 DEF TrackerObserve
      <4> QED BY <3>1, <3>3, <4>1 DEF Trackers
    <3>4. CASE Head(inbox).k # "started" /\ ~(Head(inbox).k \in {"completed", "failed"} /\ tracker.active)
      BY <3>1, <3>4 DEF TrackerObserve
    <3> QED BY <3>2, <3>3, <3>4
  <2>2. CASE PumpCannotAnswer \/ PumpEmit
    BY <1>2, <2>2 DEF PumpCannotAnswer, PumpEmit, TableTypes
  <2> QED BY <2>1, <2>2 DEF Pump
<1>4. TableTypes'
  BY <1>1, <1>2, <1>3 DEF TableTypes
<1> QED BY <1>1, <1>4, LaneKept

(* What the steps of a request do to it. *)
LEMMA CommandSteps ==
  ASSUME TableTypes, RequestInv
  PROVE  /\ CmdBegin => CmdStep("write", cmd.todo, nextId, cmd.turns)
         /\ CmdWrite => \/ UNCHANGED <<pending, reply>> /\ CmdStep("wait", cmd.todo, cmd.id, cmd.turns)
                        \/ RemoveEntry(cmd.id) /\ CmdStep("failed", <<>>, 0, cmd.turns)
         /\ CmdReply /\ cmd.todo # <<>> =>
              \/ Head(cmd.todo) = "send" /\ CmdStep("turn", cmd.todo, cmd.id, cmd.turns)
              \/ Head(cmd.todo) = "stop" /\ CmdStep("boundary", cmd.todo, cmd.id, cmd.turns)
              \/ CmdStep("next", Tail(cmd.todo), 0, cmd.turns)
              \/ CmdStep("failed", <<>>, 0, cmd.turns)
         /\ CmdTurn /\ cmd.todo # <<>> =>
              CmdStep("next", Tail(cmd.todo), 0, IF cmd.at = "turn" THEN cmd.turns + 1 ELSE cmd.turns)
         /\ CmdTimeout => CmdStep("failed", <<>>, 0, cmd.turns)
<1>1. cmd \in Cmds /\ nextId \in Nat /\ tracker.generation \in Nat
  BY DEF TableTypes, Trackers
<1>2. \A at \in {"next", "write", "wait", "turn", "boundary", "failed"} : at \in CmdAts
  BY DEF CmdAts
<1>3. /\ cmd.at \in CmdAts /\ cmd.todo \in Seq(Methods) /\ cmd.id \in Nat /\ cmd.since \in Nat
      /\ cmd.turns \in Nat /\ cmd.ended \in BOOLEAN
  BY <1>1, CmdParts
<1>4. cmd.todo # <<>> => Tail(cmd.todo) \in Seq(Methods)
  BY <1>3
<1>5. CmdBegin => CmdStep("write", cmd.todo, nextId, cmd.turns)
  <2>1. SUFFICES ASSUME CmdBegin
                 PROVE  CmdStep("write", cmd.todo, nextId, cmd.turns)
    OBVIOUS
  <2>2. cmd' = [cmd EXCEPT !.at = "write", !.id = nextId, !.since = tracker.generation, !.ended = (owner = "Terminal")]
    BY <2>1 DEF CmdBegin
  <2> DEFINE ended == (owner = "Terminal")
  <2>3. ended \in BOOLEAN
    OBVIOUS
  <2> HIDE DEF ended
  <2>4. cmd' = [cmd EXCEPT !.at = "write", !.id = nextId, !.since = tracker.generation, !.ended = ended]
    BY <2>2 DEF ended
  <2>5. cmd' = [at |-> "write", todo |-> cmd.todo, id |-> nextId, since |-> tracker.generation,
                turns |-> cmd.turns, ended |-> ended]
    BY <1>1, <2>4 DEF Cmds
  <2> QED BY <1>1, <1>2, <1>3, <2>3, <2>5, CmdRecord
<1>6. ASSUME NEW at \in CmdAts, cmd' = [cmd EXCEPT !.at = at]
      PROVE  CmdStep(at, cmd.todo, cmd.id, cmd.turns)
  <2>1. cmd' = [at |-> at, todo |-> cmd.todo, id |-> cmd.id, since |-> cmd.since,
                turns |-> cmd.turns, ended |-> cmd.ended]
    BY <1>1, <1>6 DEF Cmds
  <2> QED BY <1>1, <1>3, <2>1, CmdRecord
<1>7. CmdWrite => \/ UNCHANGED <<pending, reply>> /\ CmdStep("wait", cmd.todo, cmd.id, cmd.turns)
                  \/ RemoveEntry(cmd.id) /\ CmdStep("failed", <<>>, 0, cmd.turns)
  <2>1. CmdWrite => \/ UNCHANGED <<pending, reply>> /\ cmd' = [cmd EXCEPT !.at = "wait"]
                    \/ RemoveEntry(cmd.id) /\ cmd' = CmdFails
    BY DEF CmdWrite, tableVars
  <2>2. cmd' = [cmd EXCEPT !.at = "wait"] => CmdStep("wait", cmd.todo, cmd.id, cmd.turns)
    BY <1>2, <1>6
  <2> QED BY <1>1, <2>1, <2>2, CmdEnds
<1>8. CmdReply /\ cmd.todo # <<>> =>
        \/ Head(cmd.todo) = "send" /\ CmdStep("turn", cmd.todo, cmd.id, cmd.turns)
        \/ Head(cmd.todo) = "stop" /\ CmdStep("boundary", cmd.todo, cmd.id, cmd.turns)
        \/ CmdStep("next", Tail(cmd.todo), 0, cmd.turns)
        \/ CmdStep("failed", <<>>, 0, cmd.turns)
  <2>1. CmdReply => \/ Head(cmd.todo) = "send" /\ cmd' = [cmd EXCEPT !.at = "turn"]
                    \/ Head(cmd.todo) = "stop" /\ cmd' = [cmd EXCEPT !.at = "boundary"]
                    \/ cmd' = Advance \/ cmd' = CmdFails
    BY DEF CmdReply, Method
  <2>2. /\ cmd' = [cmd EXCEPT !.at = "turn"] => CmdStep("turn", cmd.todo, cmd.id, cmd.turns)
        /\ cmd' = [cmd EXCEPT !.at = "boundary"] => CmdStep("boundary", cmd.todo, cmd.id, cmd.turns)
    BY <1>2, <1>6
  <2> QED BY <1>1, <1>4, <2>1, <2>2, CmdEnds
<1>9. CmdTurn /\ cmd.todo # <<>> =>
        CmdStep("next", Tail(cmd.todo), 0, IF cmd.at = "turn" THEN cmd.turns + 1 ELSE cmd.turns)
  <2>1. SUFFICES ASSUME CmdTurn, cmd.todo # <<>>
                 PROVE  CmdStep("next", Tail(cmd.todo), 0, IF cmd.at = "turn" THEN cmd.turns + 1 ELSE cmd.turns)
    OBVIOUS
  <2> DEFINE turns == IF cmd.at = "turn" THEN cmd.turns + 1 ELSE cmd.turns
  <2>2. cmd' = [Advance EXCEPT !.turns = IF cmd.at = "turn" THEN @ + 1 ELSE @]
    BY <2>1 DEF CmdTurn
  <2>3. cmd' = [at |-> "next", todo |-> Tail(cmd.todo), id |-> 0, since |-> 0, turns |-> turns, ended |-> cmd.ended]
    BY <1>1, <2>2 DEF Advance, Cmds
  <2>4. turns \in Nat
    BY <1>3
  <2> HIDE DEF turns
  <2>5. CmdStep("next", Tail(cmd.todo), 0, turns)
    BY <1>1, <1>2, <1>3, <1>4, <2>1, <2>3, <2>4, CmdRecord
  <2> QED BY <2>5 DEF turns
<1>10. CmdTimeout => CmdStep("failed", <<>>, 0, cmd.turns)
  BY <1>1, CmdEnds DEF CmdTimeout
<1> QED BY <1>5, <1>7, <1>8, <1>9, <1>10

(* A request goes on: the holder of the lock and the threads stay.         *)
LEMMA LaneRequest ==
  ASSUME LaneInv, UNCHANGED <<phase, fin, resp, operation>>, TableTypes', NoStaleEntry',
         NEW at, NEW todo, NEW id, NEW turns, CmdStep(at, todo, id, turns),
         cmd.at \in Busy, todo \in Seq({"create", "send"}) \/ todo = cmd.todo,
         at \in Busy => todo = cmd.todo,
         at = "turn" => Head(todo) = "send",
         at # "next" => turns = cmd.turns
  PROVE  LaneInv'
<1>1. ThreadTypes' /\ LockInv'
  BY DEF LaneInv, ThreadTypes, LockInv
<1>2. cmd.at # "failed" /\ cmd.at # "next"
  BY DEF Busy
<1>3. BootInv'
  BY <1>2 DEF LaneInv, BootInv, CmdStep
<1>4. Cooperating' = Cooperating
  BY DEF Cooperating
<1>5. RequestInv'
  BY <1>4 DEF LaneInv, RequestInv, CmdStep
<1> QED BY <1>1, <1>3, <1>5 DEF LaneInv

(* The entries of the table when a request goes on or is over. *)
LEMMA TableStep ==
  ASSUME TableTypes, NoStaleEntry, UNCHANGED <<nextId, tracker>>,
         NEW at, NEW todo, NEW id, NEW turns, CmdStep(at, todo, id, turns), cmd.at \in Busy,
         \/ RemoveEntry(cmd.id) /\ at \notin {"write", "wait"}
         \/ UNCHANGED <<pending, reply>> /\ cmd.at \notin {"write", "wait"} /\ at \notin {"write", "wait"}
         \/ UNCHANGED <<pending, reply>> /\ cmd.at \in {"write", "wait"} /\ at \in {"write", "wait"} /\ id = cmd.id
  PROVE  TableTypes' /\ NoStaleEntry'
<1>1. /\ pending' \in SUBSET Requests
      /\ reply' \in [Requests -> {None, "result", "error", "childExited", "streamClosed"}]
  BY DEF RemoveEntry, TableTypes, None
<1>2. pending' \subseteq (IF at \in {"write", "wait"} THEN {id} ELSE {})
  BY DEF RemoveEntry, NoStaleEntry
<1>3. NoStaleEntry'
  BY <1>2 DEF NoStaleEntry, CmdStep
<1>4. TableTypes'
  BY <1>1 DEF TableTypes, CmdStep
<1> QED BY <1>3, <1>4

(* The thread that sends commands. *)
LEMMA LaneCommand ==
  ASSUME LaneInv, FinInv, Command
  PROVE  LaneInv'
<1> USE FinNames
<1>0. TableTypes /\ RequestInv /\ NoStaleEntry /\ BootInv /\ LockInv /\ ThreadTypes
  BY DEF LaneInv
<1>1. CASE CmdBegin
  <2>1. /\ cmd.at = "next" /\ cmd.todo # <<>> /\ MaySend /\ nextId <= MaxRequests
        /\ nextId' = nextId + 1 /\ pending' = pending \cup {nextId} /\ reply' = reply
        /\ operation' = (IF phase = "RUNNING" /\ Head(cmd.todo) # "stop" THEN {"task"} ELSE operation)
        /\ UNCHANGED <<phase, fin, resp, tracker>>
    BY <1>1 DEF CmdBegin, BeginRequest, restOfOwner, others, Method
  <2>2. CmdStep("write", cmd.todo, nextId, cmd.turns)
    BY <1>0, <1>1, CommandSteps
  <2>3. pending = {} /\ nextId \in Requests
    BY <1>0, <2>1, DriverAssumption DEF NoStaleEntry, TableTypes, Requests
  <2>4. TableTypes' /\ NoStaleEntry'
    BY <1>0, <2>1, <2>2, <2>3 DEF TableTypes, NoStaleEntry, CmdStep
  <2>5. CASE Head(cmd.todo) = "stop"
    <3>1. cmd.todo = <<"stop">> /\ operation' = operation /\ Cooperating
      <4>1. cmd.todo = <<"stop">>
        BY <1>0, <2>1, <2>5, TodoParts
      <4>2. cmd.todo \notin Seq({"create", "send"})
        BY <4>1
      <4> QED BY <1>0, <2>1, <2>5, <4>1, <4>2 DEF RequestInv
    <3>2. phase # "PREPARING"
      BY <1>0, <3>1 DEF BootInv, Cooperating, Finishing
    <3>3. BootInv' /\ LockInv' /\ ThreadTypes'
      BY <1>0, <2>1, <3>1, <3>2 DEF BootInv, LockInv, ThreadTypes
    <3>4. RequestInv'
      BY <2>1, <2>2, <3>1 DEF RequestInv, CmdStep, Cooperating
    <3> QED BY <2>4, <3>3, <3>4 DEF LaneInv
  <2>6. CASE Head(cmd.todo) # "stop"
    <3>1. cmd.todo \in Seq({"create", "send"})
      BY <1>0, <2>1, <2>6, TodoParts
    <3>2. \/ phase = "PREPARING" /\ cmd.turns = 0 /\ operation' = operation
          \/ phase = "RUNNING" /\ operation = {} /\ fin["task"].at = "idle" /\ operation' = {"task"}
      BY <2>1, <2>6 DEF MaySend, Method
    <3>3. BootInv'
      BY <1>0, <2>1, <2>2, <3>2 DEF BootInv, CmdStep
    <3>4. LockInv' /\ ThreadTypes'
      BY <1>0, <2>1, <3>2 DEF LockInv, ThreadTypes
    <3>5. RequestInv'
      BY <2>1, <2>2, <3>1, <3>2 DEF RequestInv, CmdStep
    <3> QED BY <2>4, <3>3, <3>4, <3>5 DEF LaneInv
  <2> QED BY <2>5, <2>6
<1>2. CASE CmdWrite
  <2>1. cmd.at = "write" /\ UNCHANGED <<phase, fin, resp, operation, nextId, tracker>>
    BY <1>2 DEF CmdWrite, RemoveEntry, restOfOwner, others, tableVars
  <2>2. \/ UNCHANGED <<pending, reply>> /\ CmdStep("wait", cmd.todo, cmd.id, cmd.turns)
        \/ RemoveEntry(cmd.id) /\ CmdStep("failed", <<>>, 0, cmd.turns)
    BY <1>0, <1>2, CommandSteps
  <2>3. CASE UNCHANGED <<pending, reply>> /\ CmdStep("wait", cmd.todo, cmd.id, cmd.turns)
    <3>1. TableTypes' /\ NoStaleEntry'
      BY <1>0, <2>1, <2>3, TableStep DEF Busy
    <3> QED BY <2>1, <2>3, <3>1, LaneRequest DEF Busy
  <2>4. CASE RemoveEntry(cmd.id) /\ CmdStep("failed", <<>>, 0, cmd.turns)
    <3>1. TableTypes' /\ NoStaleEntry'
      BY <1>0, <2>1, <2>4, TableStep DEF Busy
    <3>2. <<>> \in Seq({"create", "send"}) /\ "failed" \notin Busy /\ cmd.at \in Busy
      BY <2>1 DEF Busy
    <3> QED BY <2>1, <2>4, <3>1, <3>2, LaneRequest
  <2> QED BY <2>2, <2>3, <2>4
<1>3. CASE CmdReply
  <2>1. cmd.at = "wait" /\ RemoveEntry(cmd.id) /\ UNCHANGED <<phase, fin, resp, operation, nextId, tracker>>
    BY <1>3 DEF CmdReply, RemoveEntry, restOfOwner, others
  <2>2. cmd.todo # <<>> /\ cmd.at \in Busy
    BY <1>0, <2>1 DEF RequestInv, Busy
  <2>3. Tail(cmd.todo) \in Seq({"create", "send"}) /\ <<>> \in Seq({"create", "send"})
    BY <1>0, <2>2, TodoParts
  <2>4. \/ Head(cmd.todo) = "send" /\ CmdStep("turn", cmd.todo, cmd.id, cmd.turns)
        \/ CmdStep("boundary", cmd.todo, cmd.id, cmd.turns)
        \/ CmdStep("next", Tail(cmd.todo), 0, cmd.turns)
        \/ CmdStep("failed", <<>>, 0, cmd.turns)
    BY <1>0, <1>3, <2>2, CommandSteps
  <2>5. TableTypes' /\ NoStaleEntry'
    BY <1>0, <2>1, <2>2, <2>4, TableStep
  <2>6. "next" \notin Busy /\ "failed" \notin Busy
    BY DEF Busy
  <2> QED BY <2>1, <2>2, <2>3, <2>4, <2>5, <2>6, LaneRequest
<1>4. CASE CmdTimeout
  <2>1. /\ cmd.at \in Busy /\ UNCHANGED <<phase, fin, resp, operation, nextId, tracker>>
        /\ RemoveEntry(cmd.id) \/ (UNCHANGED <<pending, reply>> /\ cmd.at \notin {"write", "wait"})
    BY <1>4 DEF CmdTimeout, RemoveEntry, restOfOwner, others, driverVars, Busy
  <2>2. CmdStep("failed", <<>>, 0, cmd.turns)
    BY <1>0, <1>4, CommandSteps
  <2>3. TableTypes' /\ NoStaleEntry'
    BY <1>0, <2>1, <2>2, TableStep
  <2>4. <<>> \in Seq({"create", "send"}) /\ "failed" \notin Busy
    BY DEF Busy
  <2> QED BY <2>1, <2>2, <2>3, <2>4, LaneRequest
<1>5. CASE CmdTurn
  <2>1. /\ cmd.at \in {"turn", "boundary"} /\ UNCHANGED <<phase, fin, resp, nextId, tracker, pending, reply>>
        /\ operation' = IF cmd.at = "turn" /\ phase # "PREPARING" THEN {} ELSE operation
    BY <1>5 DEF CmdTurn, restOfOwner, others, driverVars
  <2>2. cmd.todo # <<>> /\ cmd.at \in Busy /\ cmd.at \notin {"write", "wait"}
    BY <1>0, <2>1 DEF RequestInv, Busy
  <2>3. Tail(cmd.todo) \in Seq({"create", "send"}) /\ "next" \notin Busy
    BY <1>0, <2>2, TodoParts DEF Busy
  <2>4. PICK turns : CmdStep("next", Tail(cmd.todo), 0, turns)
    BY <1>0, <1>5, <2>2, CommandSteps
  <2>5. TableTypes' /\ NoStaleEntry'
    BY <1>0, <2>1, <2>2, <2>4, TableStep
  <2>6. CASE operation' = operation
    BY <2>1, <2>2, <2>3, <2>4, <2>5, <2>6, LaneRequest
  <2>7. CASE cmd.at = "turn" /\ phase # "PREPARING" /\ operation' = {}
    <3>1. operation = {"task"} /\ fin["task"].at = "idle"
      BY <1>0, <2>2, <2>7 DEF RequestInv
    <3>2. BootInv' /\ ThreadTypes'
      BY <1>0, <2>1, <2>7 DEF BootInv, ThreadTypes
    <3>3. LockInv'
      BY <1>0, <2>1, <2>7, <3>1, ResponderNames DEF LockInv
    <3>4. RequestInv'
      BY <2>3, <2>4 DEF RequestInv, CmdStep
    <3> QED BY <2>5, <3>2, <3>3, <3>4 DEF LaneInv
  <2> QED BY <2>1, <2>6, <2>7
<1>6. CASE MarkRunning
  <2>1. /\ phase = "PREPARING" /\ cmd.turns > 0 /\ phase' = "RUNNING"
        /\ UNCHANGED <<fin, resp, operation, cmd, nextId, tracker, pending, reply>>
    BY <1>6 DEF MarkRunning, driverVars, threadVars
  <2>2. cmd.at = "next"
    BY <1>0, <2>1 DEF BootInv
  <2>3. TableTypes' /\ ThreadTypes' /\ NoStaleEntry' /\ LockInv' /\ BootInv'
    BY <1>0, <2>1 DEF TableTypes, ThreadTypes, NoStaleEntry, LockInv, BootInv
  <2>4. RequestInv'
    BY <1>0, <2>1, <2>2 DEF RequestInv, Cooperating, Busy
  <2> QED BY <2>3, <2>4 DEF LaneInv
<1>7. CASE Recheck
  <2>1. /\ fin["task"].at = "starting" /\ phase # "PREPARING"
        /\ UNCHANGED <<phase, resp, operation, cmd, nextId, tracker, pending, reply>>
    BY <1>7 DEF Recheck, driverVars, restOfOwner
  <2>2. \E at \in {"idle", "failClosed"} : \E with, why : FinStep("task", at, with, why)
    BY <1>7, MoveIsStep, RecordIsStep DEF Recheck, Move, FinInv
  <2>3. TableTypes' /\ ThreadTypes' /\ NoStaleEntry' /\ BootInv'
    BY <1>0, <2>1 DEF TableTypes, ThreadTypes, NoStaleEntry, BootInv
  <2>4. LockInv'
    BY <1>0, <2>1, <2>2, ResponderNames DEF LockInv, FinStep
  <2>5. Cooperating => Cooperating'
    BY <2>1, <2>2 DEF Cooperating, FinStep
  <2>6. RequestInv'
    BY <1>0, <2>1, <2>5 DEF RequestInv
  <2> QED BY <2>3, <2>4, <2>6 DEF LaneInv
<1> QED BY <1>1, <1>2, <1>3, <1>4, <1>5, <1>6, <1>7 DEF Command

\* A step of a responder.
RespStep(r, at, q) ==
  /\ resp' \in [Responders -> Resps]
  /\ resp'[r].at = at /\ resp'[r].q = q
  /\ \A s \in Responders : s # r => resp'[s] = resp[s]

(* What the steps of an answer do to the responder. *)
LEMMA RespondSteps ==
  ASSUME resp \in [Responders -> Resps], NEW r \in Responders
  PROVE  /\ resp[r].at \in RespAts /\ resp[r].q \in Ids \cup {0}
         /\ \A q \in Ids : RespClaim(r, q) => RespStep(r, "claimed", q)
         /\ RespCheck(r) => IF Accepting THEN RespStep(r, "respond", resp[r].q) ELSE RespStep(r, "done", 0)
         /\ RespWrite(r) => RespStep(r, "sent", resp[r].q)
         /\ RespSent(r) => RespStep(r, "answered", resp[r].q)
         /\ RespComplete(r) \/ RespFails(r) => RespStep(r, "done", 0)
<1>1. /\ resp[r].at \in RespAts /\ resp[r].q \in Ids \cup {0}
  BY DEF Resps
<1>2. \A at \in {"idle", "claimed", "respond", "sent", "answered", "done"} : at \in RespAts
  BY DEF RespAts
<1>3. ASSUME NEW at \in RespAts, NEW q \in Ids \cup {0}, resp' = [resp EXCEPT ![r] = [at |-> at, q |-> q]]
      PROVE  RespStep(r, at, q)
  BY <1>3 DEF RespStep, Resps
<1>4. ASSUME NEW at \in RespAts, resp' = [resp EXCEPT ![r].at = at]
      PROVE  RespStep(r, at, resp[r].q)
  BY <1>4 DEF RespStep, Resps
<1>5. \A q \in Ids : RespClaim(r, q) => RespStep(r, "claimed", q)
  BY <1>2, <1>3 DEF RespClaim
<1>6. RespCheck(r) => IF Accepting THEN RespStep(r, "respond", resp[r].q) ELSE RespStep(r, "done", 0)
  BY <1>2, <1>3, <1>4 DEF RespCheck
<1>7. RespWrite(r) => RespStep(r, "sent", resp[r].q)
  BY <1>2, <1>4 DEF RespWrite
<1>8. RespSent(r) => RespStep(r, "answered", resp[r].q)
  BY <1>2, <1>4 DEF RespSent
<1>9. RespComplete(r) \/ RespFails(r) => RespStep(r, "done", 0)
  BY <1>2, <1>3 DEF RespComplete, RespFails
<1> QED BY <1>1, <1>5, <1>6, <1>7, <1>8, <1>9

(* The responders take the lock and give it back, or keep it to stop the   *)
(* runtime.                                                                *)
LEMMA LaneRespond ==
  ASSUME LaneInv, FinInv, NEW r \in Responders, Respond(r)
  PROVE  LaneInv'
<1> USE FinNames
<1>0. TableTypes /\ RequestInv /\ NoStaleEntry /\ BootInv /\ LockInv /\ ThreadTypes
      /\ resp \in [Responders -> Resps] /\ fin \in [Threads -> Fins] /\ r \in Threads /\ r # "task"
  BY ResponderNames DEF LaneInv, FinInv, ThreadTypes
<1>1. UNCHANGED <<phase, cmd, nextId, tracker, pending, reply>>
  BY DEF Respond, RespClaim, RespCheck, RespWrite, RespSent, RespComplete, RespFails, respFrame, driverVars
<1>2. TableTypes' /\ NoStaleEntry'
  BY <1>0, <1>1 DEF TableTypes, NoStaleEntry
<1>3. CASE \E q \in Ids : RespClaim(r, q)
  <2>1. operation = {} /\ operation' = {r} /\ phase = "RUNNING" /\ resp[r].at \in {"idle", "done"} /\ UNCHANGED fin
    BY <1>3 DEF RespClaim, Accepting
  <2>2. PICK q \in Ids : RespStep(r, "claimed", q)
    BY <1>0, <1>3, RespondSteps
  <2>3. ThreadTypes' /\ BootInv'
    BY <1>0, <1>1, <2>1, <2>2 DEF ThreadTypes, BootInv, RespStep
  <2>4. LockInv'
    BY <1>0, <2>1, <2>2 DEF LockInv, RespStep, Working
  <2>5. RequestInv'
    BY <1>0, <1>1, <2>1 DEF RequestInv, Cooperating
  <2> QED BY <1>2, <2>3, <2>4, <2>5 DEF LaneInv
<1>4. CASE RespCheck(r) \/ RespWrite(r) \/ RespSent(r) \/ RespComplete(r) \/ RespFails(r)
  <2>1. resp[r].at \in Working /\ operation = {r}
    BY <1>0, <1>4 DEF RespCheck, RespWrite, RespSent, RespComplete, RespFails, Working, LockInv
  <2>2. phase # "PREPARING" /\ fin[r].at \in {"idle", "done"}
    BY <1>0, <2>1 DEF BootInv, LockInv, Working
  <2>3. \/ /\ operation' = operation /\ UNCHANGED fin
           /\ \E at \in Working : RespStep(r, at, resp[r].q)
        \/ operation' = {} /\ UNCHANGED fin /\ RespStep(r, "done", 0)
        \/ operation' = operation /\ RespStep(r, "done", 0) /\ FinStep(r, "failClosed", None, "control")
    <3>1. CASE RespCheck(r)
      BY <1>0, <3>1, RespondSteps DEF RespCheck, Working
    <3>2. CASE RespWrite(r) \/ RespSent(r)
      BY <1>0, <3>2, RespondSteps DEF RespWrite, RespSent, Working
    <3>3. CASE RespComplete(r)
      BY <1>0, <3>3, RespondSteps DEF RespComplete
    <3>4. CASE RespFails(r)
      BY <1>0, <3>4, RespondSteps, RecordIsStep DEF RespFails
    <3> QED BY <1>4, <3>1, <3>2, <3>3, <3>4
  <2>4. ThreadTypes' /\ BootInv'
    BY <1>0, <1>1, <2>1, <2>2, <2>3 DEF ThreadTypes, BootInv, RespStep
  <2>5. \A f \in Threads : f # r => fin'[f] = fin[f] /\ fin[f].at \notin {"cooperate", "cooperating"}
    BY <1>0, <2>1, <2>3 DEF LockInv, FinStep
  <2>6. fin'[r].at \notin {"cooperate", "cooperating"} /\ fin[r].at \notin {"cooperate", "cooperating"}
    BY <2>2, <2>3 DEF FinStep
  <2>7. \A s \in Responders : s # r => fin[s].at \in {"idle", "done"} /\ resp[s].at \notin Working
    BY <1>0, <2>1 DEF LockInv
  <2>8. LockInv'
    BY <2>1, <2>2, <2>3, <2>5, <2>6, <2>7 DEF LockInv, RespStep, FinStep, Working
  <2>9. ~Cooperating /\ operation # {"task"}
    BY <1>0, <2>1, <2>5, <2>6 DEF Cooperating
  <2>10. RequestInv'
    BY <1>0, <1>1, <2>2, <2>9 DEF RequestInv
  <2> QED BY <1>2, <2>4, <2>8, <2>10 DEF LaneInv
<1> QED BY <1>3, <1>4 DEF Respond

(* request_stop_internal on the request in progress: it goes on, and what  *)
(* is queued after it is dropped.                                          *)
LEMMA StopCmd ==
  ASSUME TableTypes, RequestInv, RequestStop
  PROVE  \E todo : /\ CmdStep(cmd.at, todo, cmd.id, cmd.turns)
                   /\ todo \in Seq({"create", "send"}) \/ todo = cmd.todo
                   /\ cmd.todo # <<>> /\ cmd.at # "next" => todo # <<>> /\ Head(todo) = Head(cmd.todo)
                   /\ cmd.todo = <<"stop">> => todo = cmd.todo
<1>1. cmd \in Cmds
  BY DEF TableTypes
<1>2. /\ cmd.at \in CmdAts /\ cmd.todo \in Seq(Methods) /\ cmd.id \in Nat /\ cmd.since \in Nat
      /\ cmd.turns \in Nat /\ cmd.ended \in BOOLEAN
  BY <1>1, CmdParts
<1>3. CASE phase = "TERMINAL"
  <2>1. cmd' = cmd
    BY <1>3 DEF RequestStop
  <2>2. CmdStep(cmd.at, cmd.todo, cmd.id, cmd.turns)
    BY <1>1, <2>1 DEF CmdStep
  <2> QED BY <2>2
<1>4. CASE phase # "TERMINAL"
  <2> DEFINE todo == IF cmd.todo # <<>> /\ (cmd.at # "next" \/ Head(cmd.todo) = "stop")
                     THEN <<Head(cmd.todo)>> ELSE <<>>
  <2>1. /\ todo \in Seq(Methods)
        /\ todo \in Seq({"create", "send"}) \/ todo = cmd.todo
        /\ cmd.todo # <<>> /\ cmd.at # "next" => todo # <<>> /\ Head(todo) = Head(cmd.todo)
        /\ cmd.todo = <<"stop">> => todo = cmd.todo
    <3>1. CASE cmd.todo = <<>>
      BY <3>1
    <3>2. CASE cmd.todo # <<>> /\ Head(cmd.todo) = "stop"
      <4>1. cmd.todo = <<"stop">>
        BY <3>2, TodoParts
      <4>2. todo = <<"stop">>
        BY <3>2
      <4> QED BY <1>2, <3>2, <4>1, <4>2
    <3>3. CASE cmd.todo # <<>> /\ Head(cmd.todo) # "stop"
      <4>1. cmd.todo \in Seq({"create", "send"}) /\ Head(cmd.todo) \in Methods
        BY <3>3, TodoParts
      <4>2. Head(cmd.todo) \in {"create", "send"}
        BY <3>3, <4>1
      <4>3. cmd.todo # <<"stop">>
        BY <3>3
      <4>4. <<Head(cmd.todo)>> \in Seq({"create", "send"}) /\ <<Head(cmd.todo)>> \in Seq(Methods)
            /\ <<Head(cmd.todo)>> # <<>> /\ Head(<<Head(cmd.todo)>>) = Head(cmd.todo)
        BY <4>1, <4>2
      <4>5. CASE cmd.at # "next"
        <5>1. todo = <<Head(cmd.todo)>>
          BY <3>3, <4>5
        <5> QED BY <4>3, <4>4, <5>1
      <4>6. CASE cmd.at = "next"
        <5>1. todo = <<>>
          BY <3>3, <4>6
        <5> QED BY <4>3, <4>6, <5>1
      <4> QED BY <4>5, <4>6
    <3> QED BY <3>1, <3>2, <3>3
  <2>2. cmd' = [cmd EXCEPT !.todo = todo]
    BY <1>4 DEF RequestStop
  <2> HIDE DEF todo
  <2>3. cmd' = [at |-> cmd.at, todo |-> todo, id |-> cmd.id, since |-> cmd.since, turns |-> cmd.turns,
                ended |-> cmd.ended]
    BY <1>1, <2>2 DEF Cmds
  <2>4. CmdStep(cmd.at, todo, cmd.id, cmd.turns)
    BY <1>1, <1>2, <2>1, <2>3, CmdRecord
  <2> QED BY <2>1, <2>4
<1> QED BY <1>3, <1>4

(* A thread asks the runtime to stop. *)
LEMMA LaneStop ==
  ASSUME LaneInv, OwnerInv, RequestStop, phase # "PREPARING",
         UNCHANGED <<operation, resp, nextId, tracker, pending, reply>>,
         NEW f \in Threads, NEW at \in {"close", "begin"}, NEW with, NEW why, FinStep(f, at, with, why),
         fin[f].at \in {"idle", "failClosed"},
         fin[f].at = "idle" => f \notin Responders /\ (f = "task" => operation # {"task"})
  PROVE  LaneInv'
<1> USE FinNames
<1>0. TableTypes /\ RequestInv /\ NoStaleEntry /\ BootInv /\ LockInv /\ ThreadTypes
  BY DEF LaneInv
<1>1. PICK todo : /\ CmdStep(cmd.at, todo, cmd.id, cmd.turns)
                  /\ todo \in Seq({"create", "send"}) \/ todo = cmd.todo
                  /\ cmd.todo # <<>> /\ cmd.at # "next" => todo # <<>> /\ Head(todo) = Head(cmd.todo)
                  /\ cmd.todo = <<"stop">> => todo = cmd.todo
  BY <1>0, StopCmd
<1>2. phase' # "PREPARING"
  BY StopRows
<1>3. TableTypes' /\ NoStaleEntry'
  BY <1>0, <1>1 DEF TableTypes, NoStaleEntry, CmdStep
<1>4. BootInv' /\ ThreadTypes'
  BY <1>0, <1>2 DEF BootInv, ThreadTypes
<1>5. LockInv'
  BY <1>0 DEF LockInv, FinStep
<1>6. Cooperating => Cooperating'
  BY DEF Cooperating, FinStep
<1>7. RequestInv'
  <2>1. cmd'.todo \in Seq({"create", "send"}) \/ (cmd'.todo = <<"stop">> /\ Cooperating')
    BY <1>0, <1>1, <1>6 DEF RequestInv, CmdStep
  <2>2. cmd'.at \in Busy => cmd.at # "next" /\ cmd.todo # <<>> /\ cmd'.at = cmd.at
    BY <1>0, <1>1 DEF RequestInv, CmdStep, Busy
  <2>3. operation = {"task"} /\ fin["task"].at = "idle" => operation' = {"task"} /\ fin'["task"].at = "idle"
    BY DEF FinStep
  <2>4. cmd'.at \in Busy => /\ cmd'.todo # <<>>
                            /\ \/ cmd'.todo = <<"stop">>
                               \/ operation' = {"task"} /\ fin'["task"].at = "idle"
    BY <1>0, <1>1, <2>2, <2>3 DEF RequestInv, CmdStep
  <2>5. cmd'.at = "turn" => Head(cmd'.todo) = "send"
    BY <1>0, <1>1, <2>2 DEF RequestInv, CmdStep, Busy
  <2> QED BY <2>1, <2>4, <2>5 DEF RequestInv
<1> QED BY <1>3, <1>4, <1>5, <1>7 DEF LaneInv

(* A thread that finishes the process goes on, and gives the lock back when *)
(* it is done.                                                             *)
LEMMA LaneMove ==
  ASSUME LaneInv, UNCHANGED <<cmd, resp, nextId, tracker, pending, reply>>,
         NEW f \in Threads, NEW at \in FinAts, NEW with, FinStep(f, at, with, fin[f].why) \/ at = "done",
         NEW why, FinStep(f, at, with, why),
         fin[f].at \notin {"starting", "idle", "done"},
         at \notin {"starting", "idle", "cooperate", "cooperating"},
         fin[f].at = "cooperating" => cmd.todo = <<>>,
         operation' = IF at = "done" THEN operation \ {f} ELSE operation,
         phase' = phase \/ phase' = "TERMINAL", phase' = "PREPARING" => at \in Finishing,
         phase = "PREPARING" => fin[f].at \in Finishing
  PROVE  LaneInv'
<1> USE FinNames
<1>0. TableTypes /\ RequestInv /\ NoStaleEntry /\ BootInv /\ LockInv /\ ThreadTypes
  BY DEF LaneInv
<1>1. TableTypes' /\ NoStaleEntry'
  BY <1>0 DEF TableTypes, NoStaleEntry
<1>2. ThreadTypes'
  <2>1. operation' = {} \/ \E g \in Threads : operation' = {g}
    BY <1>0 DEF ThreadTypes
  <2> QED BY <1>0, <2>1 DEF ThreadTypes
<1>3. BootInv'
  <2> SUFFICES ASSUME phase' = "PREPARING"
               PROVE  BootInv'
    BY DEF BootInv
  <2>1. phase = "PREPARING" /\ at \in Finishing /\ at # "done"
    BY DEF Finishing
  <2>2. f = "task" /\ fin[f].why = "start" /\ cmd.at = "failed"
    BY <1>0, <2>1 DEF BootInv
  <2> QED BY <1>0, <2>1, <2>2 DEF BootInv, FinStep
<1>4. \A g \in Threads : g # f /\ operation = {g} => operation' = {g}
  BY <1>0
<1>5. LockInv'
  BY <1>0, <1>4 DEF LockInv, FinStep, Working
<1>6. RequestInv'
  <2>1. cmd.todo \in Seq({"create", "send"}) \/ (cmd.todo = <<"stop">> /\ Cooperating')
    BY <1>0 DEF RequestInv, Cooperating, FinStep
  <2>2. operation = {"task"} /\ fin["task"].at = "idle" => operation' = {"task"} /\ fin'["task"].at = "idle"
    BY <1>4 DEF FinStep
  <2>3. phase = "PREPARING" => cmd.at \notin Busy
    BY <1>0 DEF BootInv, Busy, Finishing
  <2> QED BY <1>0, <2>1, <2>2, <2>3 DEF RequestInv
<1> QED BY <1>1, <1>2, <1>3, <1>5, <1>6 DEF LaneInv

(* The decisions to finish. *)
LEMMA LaneDecide ==
  ASSUME LaneInv, OwnerInv, FinInv, Decide \/ Cancel \/ \E reason \in IdleTimeouts : SeeTimeout(reason)
  PROVE  LaneInv'
<1> USE FinNames
<1>0. /\ TableTypes /\ RequestInv /\ NoStaleEntry /\ BootInv /\ LockInv /\ ThreadTypes
      /\ OwnerTypes /\ fin \in [Threads -> Fins]
  BY DEF LaneInv, OwnerInv, FinInv
<1>1. UNCHANGED <<resp, nextId, tracker, pending, reply>>
  BY DEF Decide, Cancel, StartFailed, DeliveryFailed, SeeBoundary, SeeTerminal, SeeSinkError, SeeViolation,
         SeeTimeout, CancelTask, LockTimeout, stopFrame, finFrame, driverVars
<1>2. CASE SeeViolation \/ CancelTask \/ \E reason : SeeTimeout(reason)
  <2>1. RequestStop /\ operation' = operation /\ phase # "PREPARING"
    BY <1>2 DEF SeeViolation, CancelTask, SeeTimeout, MonitorLooks, stopFrame
  <2>2. \/ /\ FinStep("task", "close", None, "budget") \/ FinStep("task", "close", None, "timeout")
           /\ fin["task"].at = "idle" /\ operation # {"task"}
        \/ FinStep("cancel", "close", None, "cancel") /\ fin["cancel"].at = "idle"
    <3>1. SeeViolation \/ (\E reason : SeeTimeout(reason)) => fin["task"].at = "idle" /\ operation # {"task"}
      BY DEF SeeViolation, SeeTimeout, MonitorLooks
    <3>2. CancelTask => fin["cancel"].at = "idle"
      BY DEF CancelTask
    <3> QED BY <1>0, <1>2, <3>1, <3>2, DecideSteps
  <2> QED BY <1>1, <2>1, <2>2, LaneStop, ResponderNames
<1>3. CASE SeeBoundary \/ SeeTerminal \/ SeeSinkError
  <2>1. /\ fin["task"].at = "idle" /\ operation = {} /\ operation' = {"task"} /\ phase # "PREPARING"
        /\ UNCHANGED <<phase, cmd>>
    BY <1>3 DEF SeeBoundary, SeeTerminal, SeeSinkError, TaskIdle, finFrame
  <2>2. \E at \in {"begin", "persist"} : \E with, why : FinStep("task", at, with, why)
    BY <1>0, <1>3, DecideSteps
  <2>3. TableTypes' /\ NoStaleEntry' /\ BootInv' /\ ThreadTypes'
    BY <1>0, <1>1, <2>1 DEF TableTypes, NoStaleEntry, BootInv, ThreadTypes
  <2>4. LockInv'
    BY <1>0, <1>1, <2>1, <2>2, ResponderNames DEF LockInv, FinStep
  <2>5. Cooperating => Cooperating'
    BY <2>1, <2>2 DEF Cooperating, FinStep
  <2>6. RequestInv'
    BY <1>0, <2>1, <2>5 DEF RequestInv
  <2> QED BY <2>3, <2>4, <2>6 DEF LaneInv
<1>4. CASE StartFailed
  <2>1. /\ fin["task"].at = "starting" /\ cmd.at = "failed" /\ phase = "PREPARING" /\ UNCHANGED <<phase, cmd, operation>>
        /\ FinStep("task", "begin", None, "start")
    BY <1>0, <1>4, DecideSteps DEF StartFailed, finFrame
  <2>2. TableTypes' /\ NoStaleEntry' /\ ThreadTypes'
    BY <1>0, <1>1, <2>1 DEF TableTypes, NoStaleEntry, ThreadTypes
  <2>3. BootInv'
    BY <1>0, <1>1, <2>1 DEF BootInv, FinStep, Finishing
  <2>4. LockInv'
    BY <1>0, <1>1, <2>1, ResponderNames DEF LockInv, FinStep
  <2>5. Cooperating => Cooperating'
    BY <2>1 DEF Cooperating, FinStep
  <2>6. RequestInv'
    BY <1>0, <2>1, <2>5 DEF RequestInv, Busy
  <2> QED BY <2>2, <2>3, <2>4, <2>6 DEF LaneInv
<1>5. CASE DeliveryFailed
  <2>1. /\ fin["task"].at = "idle" /\ cmd.at = "failed" /\ operation = {"task"} /\ UNCHANGED phase
        /\ operation' = {} \/ operation' = operation
        /\ cmd' = [cmd EXCEPT !.at = "next"]
    BY <1>5 DEF DeliveryFailed
  <2>2. UNCHANGED fin \/ FinStep("task", "begin", "failed", "delivery")
    BY <1>0, <1>5, DecideSteps
  <2>3. CmdStep("next", cmd.todo, cmd.id, cmd.turns)
    <3>1. cmd' = [at |-> "next", todo |-> cmd.todo, id |-> cmd.id, since |-> cmd.since,
                  turns |-> cmd.turns, ended |-> cmd.ended]
      BY <1>0, <2>1 DEF TableTypes, Cmds
    <3>2. "next" \in CmdAts
      BY DEF CmdAts
    <3> QED BY <1>0, <3>1, <3>2, CmdParts, CmdRecord DEF TableTypes
  <2>4. phase # "PREPARING"
    BY <1>0, <2>1 DEF BootInv
  <2>5. TableTypes' /\ NoStaleEntry' /\ ThreadTypes' /\ BootInv'
    BY <1>0, <1>1, <2>1, <2>3, <2>4 DEF TableTypes, NoStaleEntry, ThreadTypes, BootInv, CmdStep
  <2>6. LockInv'
    <3>1. /\ \A f \in Threads : fin[f].at \notin {"cooperate", "cooperating"}
          /\ \A r \in Responders : resp[r].at \notin Working /\ fin[r].at \in {"idle", "done"} /\ r # "task"
      BY <1>0, <2>1, ResponderNames DEF LockInv
    <3> QED BY <1>1, <2>2, <3>1 DEF LockInv, FinStep
  <2>7. Cooperating => Cooperating'
    BY <2>1, <2>2 DEF Cooperating, FinStep
  <2>8. RequestInv'
    BY <1>0, <2>3, <2>7 DEF RequestInv, CmdStep, Busy
  <2> QED BY <2>5, <2>6, <2>8 DEF LaneInv
<1>6. CASE LockTimeout
  <2>1. /\ fin["cancel"].at = "lock" /\ UNCHANGED <<phase, cmd, operation>>
        /\ FinStep("cancel", "failClosed", fin["cancel"].with, fin["cancel"].why)
    BY <1>0, <1>6, DecideSteps DEF LockTimeout, finFrame
  <2>2. phase # "PREPARING"
    BY <1>0, <2>1 DEF BootInv
  <2> QED BY <1>1, <2>1, <2>2, LaneMove
<1> QED BY <1>2, <1>3, <1>4, <1>5, <1>6 DEF Decide, Cancel

(* The threads that finish the process. *)
LEMMA LaneFinish ==
  ASSUME LaneInv, OwnerInv, FinInv, OwnerInv', NEW f \in Threads, Finish(f)
  PROVE  LaneInv'
<1> USE FinNames
<1>0. /\ TableTypes /\ RequestInv /\ NoStaleEntry /\ BootInv /\ LockInv /\ ThreadTypes
      /\ OwnerTypes /\ fin \in [Threads -> Fins]
  BY DEF LaneInv, OwnerInv, FinInv
<1>1. UNCHANGED <<resp, nextId, tracker, pending, reply>>
  BY DEF Finish, CloseAndWait, Lock, FailClosed, Cooperate, Cooperated, FinishProcess, BeginStopping, Reap,
         AwaitBoundary, Publish, Finalize, Persist, stopFrame, finFrame, driverVars, tableVars
<1>2. CASE FailClosed(f)
  <2>1. /\ RequestStop /\ operation' = operation /\ fin[f].at = "failClosed"
        /\ FinStep(f, "begin", fin[f].with, fin[f].why)
    BY <1>0, <1>2, FinishSteps DEF FailClosed, stopFrame
  <2>2. phase # "PREPARING"
    BY <1>0, <2>1 DEF BootInv, Finishing
  <2> QED BY <1>1, <2>1, <2>2, LaneStop
<1>3. CASE Lock(f)
  <2>1. fin[f].at = "lock" /\ operation = {} /\ UNCHANGED <<phase, cmd>>
    BY <1>3 DEF Lock, finFrame
  <2>2. phase # "PREPARING" /\ f \notin Responders
    BY <1>0, <2>1 DEF BootInv, Finishing, LockInv
  <2>3. CASE phase = "TERMINAL"
    <3>1. operation' = operation /\ FinStep(f, "done", None, IF f = "cancel" THEN fin[f].why ELSE None)
      BY <1>0, <1>3, <2>3, FinishSteps DEF Lock
    <3>2. operation' = operation \ {f}
      BY <2>1, <3>1
    <3> QED BY <1>1, <2>1, <2>2, <3>1, <3>2, LaneMove
  <2>4. CASE phase # "TERMINAL"
    <3>1. operation' = {f} /\ FinStep(f, "cooperate", fin[f].with, fin[f].why)
      BY <1>0, <1>3, <2>4, FinishSteps DEF Lock
    <3>2. TableTypes' /\ NoStaleEntry' /\ BootInv' /\ ThreadTypes'
      BY <1>0, <1>1, <2>1, <2>2, <3>1 DEF TableTypes, NoStaleEntry, BootInv, ThreadTypes
    <3>3. LockInv'
      BY <1>0, <1>1, <2>1, <2>2, <3>1 DEF LockInv, FinStep
    <3>4. Cooperating => Cooperating'
      BY <2>1, <3>1 DEF Cooperating, FinStep
    <3>5. RequestInv'
      BY <1>0, <2>1, <2>2, <3>4 DEF RequestInv
    <3> QED BY <3>2, <3>3, <3>5 DEF LaneInv
  <2> QED BY <2>3, <2>4
<1>4. CASE Cooperate(f)
  <2>1. fin[f].at = "cooperate" /\ operation = {f} /\ UNCHANGED <<phase, operation>>
    BY <1>0, <1>4 DEF Cooperate, LockInv
  <2>2. phase # "PREPARING"
    BY <1>0, <2>1 DEF BootInv, Finishing
  <2>3. CASE UNCHANGED cmd /\ FinStep(f, "begin", fin[f].with, fin[f].why)
    BY <1>1, <2>1, <2>2, <2>3, LaneMove
  <2>4. CASE /\ cmd' = [cmd EXCEPT !.at = "next", !.todo = <<"stop">>]
             /\ FinStep(f, "cooperating", fin[f].with, fin[f].why)
    <3>1. \A g \in Threads : fin[g].at # "cooperating"
      BY <1>0, <2>1 DEF LockInv
    <3>2. cmd.todo \in Seq({"create", "send"}) /\ cmd.todo # <<"stop">>
      <4>1. cmd.todo \in Seq({"create", "send"})
        BY <1>0, <3>1 DEF RequestInv, Cooperating
      <4>2. ASSUME cmd.todo = <<"stop">>
            PROVE  FALSE
        <5>1. Head(cmd.todo) = "stop" /\ Head(cmd.todo) \in {"create", "send"}
          BY <4>1, <4>2
        <5> QED BY <5>1
      <4> QED BY <4>1, <4>2
    <3>3. cmd.at \notin Busy
      BY <1>0, <2>1, <2>2, <3>2 DEF RequestInv
    <3>4. CmdStep("next", <<"stop">>, cmd.id, cmd.turns)
      <4>1. cmd' = [at |-> "next", todo |-> <<"stop">>, id |-> cmd.id, since |-> cmd.since,
                    turns |-> cmd.turns, ended |-> cmd.ended]
        BY <1>0, <2>4 DEF TableTypes, Cmds
      <4>2. "next" \in CmdAts /\ <<"stop">> \in Seq(Methods)
        BY DEF CmdAts, Methods
      <4> QED BY <1>0, <4>1, <4>2, CmdParts, CmdRecord DEF TableTypes
    <3>5. TableTypes' /\ NoStaleEntry' /\ BootInv' /\ ThreadTypes'
      BY <1>0, <1>1, <2>1, <2>2, <3>3, <3>4 DEF TableTypes, NoStaleEntry, BootInv, ThreadTypes, CmdStep, Busy
    <3>6. LockInv'
      BY <1>0, <1>1, <2>1, <2>4 DEF LockInv, FinStep
    <3>7. RequestInv'
      BY <2>4, <3>4 DEF RequestInv, CmdStep, Cooperating, FinStep, Busy
    <3> QED BY <3>5, <3>6, <3>7 DEF LaneInv
  <2>5. \/ UNCHANGED cmd /\ FinStep(f, "begin", fin[f].with, fin[f].why)
        \/ /\ cmd' = [cmd EXCEPT !.at = "next", !.todo = <<"stop">>]
           /\ FinStep(f, "cooperating", fin[f].with, fin[f].why)
    BY <1>0, <1>4, FinFields, MoveIsStep DEF Cooperate
  <2> QED BY <2>3, <2>4, <2>5
<1>5. CASE CloseAndWait(f) \/ Cooperated(f)
  <2>1. /\ UNCHANGED <<phase, cmd, operation>> /\ fin[f].at \in {"close", "cooperating"}
        /\ fin[f].at = "cooperating" => cmd.todo = <<>>
        /\ \E at \in {"lock", "begin"} : FinStep(f, at, fin[f].with, fin[f].why)
    BY <1>0, <1>5, FinishSteps DEF CloseAndWait, Cooperated, finFrame
  <2>2. phase # "PREPARING"
    BY <1>0, <2>1 DEF BootInv, Finishing
  <2> QED BY <1>1, <2>1, <2>2, LaneMove
<1>6. CASE BeginStopping(f) \/ Reap(f) \/ AwaitBoundary(f) \/ Publish(f)
  <2>1. UNCHANGED <<phase, cmd, operation>> /\ fin[f].at \in {"begin", "reap", "await", "publish"}
    BY <1>6 DEF BeginStopping, Reap, AwaitBoundary, Publish, finFrame
  <2>2. Publish(f) => terminal' \in Terminals
    <3>1. Publish(f) => owner' = "Terminal"
      BY DEF Publish, PublishTerminal
    <3> QED BY <3>1 DEF OwnerInv, OwnerTypes
  <2>3. \E at \in {"reap", "await", "publish", "persist"} : \E with : FinStep(f, at, with, fin[f].why)
    BY <1>0, <1>6, <2>2, FinishSteps
  <2>4. \A at \in {"begin", "reap", "await", "publish", "persist"} : at \in Finishing
    BY DEF Finishing
  <2> QED BY <1>1, <2>1, <2>3, <2>4, LaneMove
<1>7. CASE Finalize(f) \/ Persist(f)
  <2>1. fin[f].at \in Finishing /\ UNCHANGED cmd /\ fin[f].at \in {"persist", "store"}
    BY <1>7 DEF Finalize, Persist, finFrame, Finishing
  <2>2. CASE \E with : FinStep(f, "store", with, fin[f].why) /\ UNCHANGED <<phase, operation>>
    <3>1. "store" \in Finishing
      BY DEF Finishing
    <3> QED BY <1>1, <2>1, <2>2, <3>1, LaneMove
  <2>3. CASE /\ \E why : FinStep(f, "done", None, why)
             /\ operation' = operation \ {f} /\ phase' = "TERMINAL"
    BY <1>1, <2>1, <2>3, LaneMove
  <2>4. \/ \E with : FinStep(f, "store", with, fin[f].why) /\ UNCHANGED <<phase, operation>>
        \/ (\E why : FinStep(f, "done", None, why)) /\ operation' = operation \ {f} /\ phase' = "TERMINAL"
    <3>1. CASE Persist(f)
      BY <1>0, <3>1, FinishSteps DEF Persist
    <3>2. CASE Finalize(f)
      <4>1. CASE phase = "TERMINAL"
        BY <1>0, <3>2, <4>1, FinishSteps DEF Finalize
      <4>2. CASE phase # "TERMINAL"
        BY <1>0, <3>2, <4>2, FinishSteps DEF Finalize
      <4> QED BY <4>1, <4>2
    <3> QED BY <1>7, <3>1, <3>2
  <2> QED BY <2>2, <2>3, <2>4
<1> QED BY <1>2, <1>3, <1>4, <1>5, <1>6, <1>7 DEF Finish, FinishProcess

(* The lock, the request in progress and the table fit, in every state.    *)
LEMMA LaneInvariant == Spec => []LaneInv
<1>1. Init => LaneInv
  <2> SUFFICES ASSUME Init
               PROVE  LaneInv
    OBVIOUS
  <2>1. /\ phase = "PREPARING" /\ operation = {} /\ nextId = 1 /\ pending = {}
        /\ reply = [r \in Requests |-> "none"]
        /\ cmd = [at |-> "next", todo |-> Script, id |-> 0, since |-> 0, turns |-> 0, ended |-> FALSE]
        /\ tracker = [generation |-> 0, active |-> FALSE, boundary |-> None]
        /\ fin = [f \in Threads |-> [at |-> IF f = "task" THEN "starting" ELSE "idle", with |-> None, why |-> None]]
        /\ resp = [r \in Responders |-> [at |-> "idle", q |-> 0]]
    BY DEF Init, DriverInit
  <2>2. cmd \in Cmds /\ cmd.at = "next" /\ cmd.todo = Script /\ cmd.turns = 0
    <3>1. Script \in Seq(Methods) /\ "next" \in CmdAts
      BY ScriptIsMethods DEF Methods, CmdAts
    <3> QED BY <2>1, <3>1 DEF Cmds
  <2>3. TableTypes
    <3>1. tracker \in Trackers
      BY <2>1 DEF Trackers
    <3>2. reply \in [Requests -> {None, "result", "error", "childExited", "streamClosed"}]
      BY <2>1 DEF None
    <3> QED BY <2>1, <2>2, <3>1, <3>2 DEF TableTypes
  <2>4. ThreadTypes
    BY <2>1 DEF ThreadTypes, Resps, RespAts
  <2>5. BootInv /\ LockInv
    BY <2>1, <2>2, FinNames, ResponderNames DEF BootInv, LockInv, Working
  <2>6. RequestInv
    BY <2>2, ScriptIsMethods DEF RequestInv, Busy
  <2>7. NoStaleEntry
    BY <2>1 DEF NoStaleEntry
  <2> QED BY <2>3, <2>4, <2>5, <2>6, <2>7 DEF LaneInv
<1>2. LaneInv /\ StreamInv /\ OwnerInv /\ FinInv /\ OwnerInv' /\ [Next]_vars => LaneInv'
  <2> SUFFICES ASSUME LaneInv, StreamInv, OwnerInv, FinInv, OwnerInv', [Next]_vars
               PROVE  LaneInv'
    OBVIOUS
  <2>1. CASE UNCHANGED vars
    <3>1. UNCHANGED <<phase, operation, fin, resp, cmd, tracker, nextId, pending, reply>>
      BY <2>1 DEF vars, driverVars, threadVars
    <3>2. TableTypes'
      BY <3>1 DEF LaneInv, TableTypes
    <3> QED BY <3>1, <3>2, LaneKept
  <2>2. CASE DriverStep
    BY <2>2, LaneDriver
  <2>3. CASE Pump
    BY <2>3, LanePump
  <2>4. CASE Command
    BY <2>4, LaneCommand
  <2>5. CASE \E r \in Responders : Respond(r)
    BY <2>5, LaneRespond
  <2>6. CASE Decide \/ Cancel \/ \E reason \in IdleTimeouts : SeeTimeout(reason)
    BY <2>6, LaneDecide
  <2>7. CASE \E f \in Threads : Finish(f)
    BY <2>7, LaneFinish
  <2> QED BY <2>1, <2>2, <2>3, <2>4, <2>5, <2>6, <2>7 DEF Next
<1> QED BY <1>1, <1>2, StreamInvariant, OwnerInvariant, PTL DEF Spec

(* The driver's table holds only the entry of the request that is waited   *)
(* for, whichever of write error, timeout, answer and drain comes first.   *)
THEOREM PendingIsAwaited == Spec => []NoStaleEntry
<1>1. LaneInv => NoStaleEntry
  BY DEF LaneInv
<1> QED BY <1>1, LaneInvariant, PTL

(* --------------------------- the offered ids --------------------------- *)
CacheInv == cache \in SUBSET Ids /\ Cardinality(cache) <= MaxOffered

(* OfferedPermissionCache::observe keeps its bound. *)
LEMMA CacheKeepsBound ==
  ASSUME CacheInv, NEW item \in Items
  PROVE  CacheObserve(item) \in SUBSET Ids /\ Cardinality(CacheObserve(item)) <= MaxOffered
<1>1. IsFiniteSet(cache) /\ Cardinality(cache) \in Nat
  BY DriverAssumption, FS_Subset, FS_CardinalityType DEF CacheInv
<1>2. CASE item.k = "permission" /\ item.v \in cache
  <2>1. CacheObserve(item) = cache \ {item.v}
    BY <1>2 DEF CacheObserve
  <2>2. Cardinality(cache \ {item.v}) = Cardinality(cache) - 1
    BY <1>1, <1>2, FS_RemoveElement
  <2> QED BY <1>1, <2>1, <2>2, BudgetsAreNat DEF CacheInv
<1>3. CASE item.k = "permission" /\ item.v \notin cache /\ Cardinality(cache) < MaxOffered
  <2>1. CacheObserve(item) = cache \cup {item.v} /\ item.v \in Ids
    BY <1>3 DEF CacheObserve, Items
  <2>2. Cardinality(cache \cup {item.v}) = Cardinality(cache) + 1
    BY <1>1, <1>3, FS_AddElement
  <2> QED BY <1>1, <1>3, <2>1, <2>2, BudgetsAreNat DEF CacheInv
<1>4. CASE item.k # "permission" \/ (item.v \notin cache /\ ~(Cardinality(cache) < MaxOffered))
  BY <1>4 DEF CacheObserve, CacheInv
<1> QED BY <1>2, <1>3, <1>4

(* The cache holds wire ids, no more than its limit. *)
LEMMA CacheInvariant == Spec => []CacheInv
<1>1. Init => CacheInv
  BY FS_EmptySet, BudgetsAreNat DEF Init, CacheInv
<1>2. CacheInv /\ StreamInv /\ [Next]_vars => CacheInv'
  <2> SUFFICES ASSUME CacheInv, StreamInv, [Next]_vars
               PROVE  CacheInv'
    OBVIOUS
  <2>0. IsFiniteSet(cache) /\ Cardinality(cache) \in Nat /\ Cardinality({}) = 0
    BY DriverAssumption, FS_Subset, FS_CardinalityType, FS_EmptySet DEF CacheInv
  <2>1. CASE UNCHANGED cache
    BY <2>1 DEF CacheInv
  <2>2. CASE PumpTake
    <3>1. inbox \in Seq(Items) /\ inbox # <<>> /\ cache' = CacheObserve(Head(inbox))
      BY <2>2 DEF PumpTake, StreamInv, StreamTypes
    <3>2. Head(inbox) \in Items
      BY <3>1
    <3> QED BY <3>1, <3>2, CacheKeepsBound DEF CacheInv
  <2>3. CASE cache' = {}
    BY <2>0, <2>3, BudgetsAreNat DEF CacheInv
  <2>4. CASE \E q : cache' = cache \ {q}
    <3>1. cache' \subseteq cache
      BY <2>4
    <3>2. Cardinality(cache') <= Cardinality(cache) /\ Cardinality(cache') \in Nat
      BY <2>0, <3>1, FS_Subset, FS_CardinalityType
    <3> QED BY <2>0, <3>1, <3>2, BudgetsAreNat DEF CacheInv
  <2>5. UNCHANGED cache \/ PumpTake \/ cache' = {} \/ \E q : cache' = cache \ {q}
    <3>1. CASE DriverStep \/ Command \/ UNCHANGED vars
      BY <3>1 DEF DriverStep, Command, CmdBegin, CmdWrite, CmdReply, CmdTurn, CmdTimeout, MarkRunning, Recheck,
                  restOfOwner, vars
    <3>2. CASE Pump
      BY <3>2 DEF Pump, PumpCannotAnswer, PumpEmit
    <3>3. CASE \E r \in Responders : Respond(r)
      BY <3>3 DEF Respond, RespClaim, RespCheck, RespWrite, RespSent, RespComplete, RespFails
    <3>4. CASE Decide \/ Cancel \/ \E reason \in IdleTimeouts : SeeTimeout(reason)
      BY <3>4 DEF Decide, Cancel, StartFailed, DeliveryFailed, SeeBoundary, SeeTerminal, SeeSinkError, SeeViolation,
                  SeeTimeout, CancelTask, LockTimeout, stopFrame
    <3>5. CASE \E f \in Threads : Finish(f)
      BY <3>5 DEF Finish, CloseAndWait, Lock, FailClosed, Cooperate, Cooperated, FinishProcess, BeginStopping, Reap,
                  AwaitBoundary, Publish, Finalize, Persist, stopFrame
    <3> QED BY <3>1, <3>2, <3>3, <3>4, <3>5 DEF Next
  <2> QED BY <2>1, <2>2, <2>3, <2>4, <2>5
<1> QED BY <1>1, <1>2, StreamInvariant, PTL DEF Spec

(* The threads, tables and rows of a runtime have their types, at most one *)
(* thread holds the operation lock, the cache of offers keeps its limit,   *)
(* and the row is terminal exactly when its result is stored.              *)
THEOREM RuntimeTypeCorrect == Spec => []RuntimeTypeOK
<1>1. LaneInv /\ CacheInv /\ StreamInv /\ OwnerInv => RuntimeTypeOK
  <2> SUFFICES ASSUME LaneInv, CacheInv, StreamInv, OwnerInv
               PROVE  RuntimeTypeOK
    OBVIOUS
  <2>1. operation \subseteq Threads /\ Cardinality(operation) <= 1
    BY FS_EmptySet, FS_Singleton DEF LaneInv, ThreadTypes
  <2>2. pending \subseteq Requests /\ reply \in [Requests -> {None, "result", "error", "childExited", "streamClosed"}]
    BY DEF LaneInv, TableTypes
  <2>3. reader \in {"reading", "done"} /\ monitor \in {"polling", "done"} /\ dispatcher \in {"running", "ended"}
    BY DEF StreamInv, StreamTypes
  <2> QED BY <2>1, <2>2, <2>3 DEF OwnerInv, OwnerTypes, RowStates, CacheInv, RuntimeTypeOK
<1> QED BY <1>1, LaneInvariant, CacheInvariant, StreamInvariant, OwnerInvariant, PTL

(* ------------------------- permission requests ------------------------- *)
\* A permission is answered by the thread that claimed its row, and after a failed answer
\* the claimant stops the runtime before anyone else gets the lock.
Ending == phase \in {"STOPPING", "TERMINAL"}
ClaimInv ==
  /\ Ending => OpenRequests = {}
  /\ \A q \in Ids : requests[q] = "sending" => \E r \in Responders : resp[r].q = q /\ resp[r].at \in Working
  /\ \A r \in Responders : resp[r].at \in Working =>
       /\ resp[r].q \in Ids
       /\ requests[resp[r].q] = "sending" \/ Ending
       /\ resp[r].at \in {"claimed", "respond"} => answers[resp[r].q] = 0
Answered(q) ==
  answers[q] # 0 =>
    /\ answers[q] = 1
    /\ \/ requests[q] \in {"responded", "sending"}
       \/ Ending
       \/ requests[q] = "pending" /\ \E r \in Responders : fin[r].at = "failClosed"
AnswerInv == answers \in [Ids -> Nat] /\ ClaimInv /\ \A q \in Ids : Answered(q)

(* Steps that leave the requests alone. *)
LEMMA AnswerKept ==
  ASSUME AnswerInv, UNCHANGED <<requests, resp, answers>>, Ending' = Ending,
         Ending \/ \A r \in Responders : fin[r].at = "failClosed" => fin'[r].at = "failClosed"
  PROVE  AnswerInv'
<1>1. ClaimInv'
  BY DEF AnswerInv, ClaimInv, OpenRequests
<1>2. ASSUME NEW q \in Ids
      PROVE  Answered(q)'
  BY DEF AnswerInv, Answered
<1> QED BY <1>1, <1>2 DEF AnswerInv

(* The open requests are deleted as the runtime ends. *)
LEMMA AnswerEnds ==
  ASSUME AnswerInv, OwnerInv, UNCHANGED <<resp, answers>>, Ending',
         requests' = [q \in Ids |-> IF q \in OpenRequests THEN None ELSE requests[q]]
  PROVE  AnswerInv'
<1>1. \A q \in Ids : requests'[q] \notin {"pending", "sending"}
  BY DEF OpenRequests, None
<1>2. OpenRequests' = {}
  BY <1>1 DEF OpenRequests
<1>3. ClaimInv'
  BY <1>1, <1>2 DEF AnswerInv, ClaimInv
<1>4. \A q \in Ids : Answered(q)'
  BY DEF AnswerInv, Answered
<1> QED BY <1>3, <1>4 DEF AnswerInv

(* A stop is requested. *)
LEMMA AnswerStop ==
  ASSUME AnswerInv, OwnerInv, RequestStop, UNCHANGED <<resp, answers>>
  PROVE  AnswerInv'
<1>1. CASE phase = "TERMINAL"
  <2>1. UNCHANGED <<phase, requests>>
    BY <1>1 DEF RequestStop
  <2> QED BY <1>1, <2>1, AnswerKept DEF Ending
<1>2. CASE phase # "TERMINAL"
  BY <1>2, AnswerEnds DEF RequestStop, Ending
<1> QED BY <1>1, <1>2

(* The pump offers new requests while the row is running. *)
LEMMA AnswerPump ==
  ASSUME AnswerInv, OwnerInv, StreamInv, Pump
  PROVE  AnswerInv'
<1>1. UNCHANGED <<phase, fin, resp, answers, ingress, result>>
  BY DEF Pump, PumpTake, PumpCannotAnswer, PumpEmit, threadVars
<1>2. \/ requests' = requests
      \/ /\ held.k = "permission" /\ phase = "RUNNING" /\ requests[held.v] = None
         /\ requests' = [requests EXCEPT ![held.v] = "pending"]
  <2>1. CASE PumpTake
    BY <2>1 DEF PumpTake, sinkVars
  <2>2. CASE PumpCannotAnswer
    BY <1>1, <2>2, PublishEffect, FinNames DEF PumpCannotAnswer, OwnerInv
  <2>3. CASE PumpEmit
    BY <1>1, <2>3, EmitEffect DEF PumpEmit, OwnerInv, StreamInv
  <2> QED BY <2>1, <2>2, <2>3 DEF Pump
<1>3. CASE requests' = requests
  BY <1>1, <1>3, AnswerKept DEF Ending
<1>4. CASE /\ held.k = "permission" /\ phase = "RUNNING" /\ requests[held.v] = None
           /\ requests' = [requests EXCEPT ![held.v] = "pending"]
  <2>1. held.v \in Ids /\ requests \in [Ids -> RowStates]
    BY <1>4 DEF StreamInv, StreamTypes, Items, OwnerInv, OwnerTypes
  <2>2. requests'[held.v] = "pending" /\ \A q \in Ids : q # held.v => requests'[q] = requests[q]
    BY <1>4, <2>1
  <2>3. ~Ending /\ ~Ending' /\ None \notin {"responded", "sending", "pending"}
    BY <1>1, <1>4 DEF Ending, None
  <2>4. ClaimInv'
    <3>1. \A q \in Ids : requests'[q] = "sending" => requests[q] = "sending"
      BY <2>2
    <3>2. \A q \in Ids : requests[q] = "sending" => requests'[q] = "sending"
      BY <1>4, <2>2, <2>3
    <3> QED BY <1>1, <2>3, <3>1, <3>2 DEF AnswerInv, ClaimInv
  <2>5. answers[held.v] = 0
    BY <1>4, <2>1, <2>3 DEF AnswerInv, Answered
  <2>6. \A q \in Ids : Answered(q)'
    BY <1>1, <2>2, <2>3, <2>5 DEF AnswerInv, Answered
  <2> QED BY <1>1, <2>4, <2>6 DEF AnswerInv
<1> QED BY <1>2, <1>3, <1>4

(* A responder works alone. *)
LEMMA OneClaimant ==
  ASSUME LockInv, NEW r \in Responders, resp[r].at \in Working, NEW s \in Responders, s # r
  PROVE  resp[s].at \notin Working
<1> QED BY DEF LockInv

(* A claimant releases its row, or completes it. *)
LEMMA AnswerSettled ==
  ASSUME AnswerInv, LockInv, OwnerInv, NEW r \in Responders, resp[r].at \in Working, RespStep(r, "done", 0),
         UNCHANGED <<phase, answers>>, NEW state \in {"pending", "responded"}, NEW q \in Ids, q = resp[r].q,
         requests' = [requests EXCEPT ![q] = IF @ = "sending" THEN state ELSE @],
         \/ state = "responded"
         \/ resp[r].at = "claimed"
         \/ fin'[r].at = "failClosed",
         \A s \in Responders : fin[s].at = "failClosed" => fin'[s].at = "failClosed"
  PROVE  AnswerInv'
<1>1. requests \in [Ids -> RowStates] /\ (requests[q] = "sending" \/ Ending) /\ Ending' = Ending
  BY DEF AnswerInv, ClaimInv, OwnerInv, OwnerTypes, Ending
<1>2. /\ \A p \in Ids : p # q => requests'[p] = requests[p]
      /\ requests'[q] = IF requests[q] = "sending" THEN state ELSE requests[q]
  BY <1>1
<1>3. \A p \in Ids : p # q => requests[p] # "sending"
  BY OneClaimant DEF AnswerInv, ClaimInv
<1>4. \A p \in Ids : requests'[p] # "sending"
  BY <1>2, <1>3
<1>5. \A s \in Responders : resp'[s].at \in Working => FALSE
  BY OneClaimant DEF RespStep, Working
<1>6. Ending => OpenRequests' = {}
  <2>1. Ending => \A p \in Ids : requests[p] \notin {"pending", "sending"}
    BY DEF AnswerInv, ClaimInv, OpenRequests
  <2>2. Ending => \A p \in Ids : requests'[p] \notin {"pending", "sending"}
    BY <1>1, <1>2, <2>1
  <2> QED BY <2>2 DEF OpenRequests
<1>7. ClaimInv'
  BY <1>1, <1>4, <1>5, <1>6 DEF ClaimInv
<1>8. Answered(q)'
  BY <1>1, <1>2 DEF AnswerInv, ClaimInv, Answered
<1>9. ASSUME NEW p \in Ids, p # q
      PROVE  Answered(p)'
  BY <1>1, <1>2, <1>9 DEF AnswerInv, Answered
<1> QED BY <1>7, <1>8, <1>9 DEF AnswerInv

(* The responders. *)
LEMMA AnswerRespond ==
  ASSUME AnswerInv, LaneInv, OwnerInv, FinInv, NEW r \in Responders, Respond(r)
  PROVE  AnswerInv'
<1> USE FinNames
<1>0. /\ LockInv /\ resp \in [Responders -> Resps] /\ fin \in [Threads -> Fins] /\ r \in Threads
      /\ requests \in [Ids -> RowStates] /\ answers \in [Ids -> Nat] /\ ClaimInv
  BY DEF LaneInv, ThreadTypes, FinInv, OwnerInv, OwnerTypes, AnswerInv
<1>1. phase' = phase /\ Ending' = Ending
  BY DEF Respond, RespClaim, RespCheck, RespWrite, RespSent, RespComplete, RespFails, Ending
<1>2. CASE \E q \in Ids : RespClaim(r, q)
  <2>1. PICK q \in Ids : RespClaim(r, q)
    BY <1>2
  <2>2. /\ operation = {} /\ phase = "RUNNING" /\ requests[q] = "pending" /\ UNCHANGED <<fin, answers>>
        /\ requests' = [requests EXCEPT ![q] = "sending"]
    BY <2>1 DEF RespClaim, Accepting
  <2>3. RespStep(r, "claimed", q)
    BY <1>0, <2>1, RespondSteps
  <2>4. /\ \A s \in Responders : resp[s].at \notin Working /\ fin[s].at # "failClosed"
        /\ ~Ending
    BY <1>0, <2>2 DEF LockInv, Ending
  <2>5. answers[q] = 0
    BY <2>2, <2>4 DEF AnswerInv, Answered
  <2>6. requests'[q] = "sending" /\ \A p \in Ids : p # q => requests'[p] = requests[p] /\ requests[p] # "sending"
    BY <1>0, <2>2, <2>4 DEF ClaimInv
  <2>7. ClaimInv'
    BY <1>1, <2>2, <2>3, <2>4, <2>5, <2>6 DEF ClaimInv, RespStep, Working
  <2>8. \A p \in Ids : Answered(p)'
    BY <1>1, <2>2, <2>5, <2>6 DEF AnswerInv, Answered
  <2> QED BY <1>0, <2>2, <2>7, <2>8 DEF AnswerInv
<1>3. ASSUME resp[r].at \in Working, UNCHANGED <<requests, fin, answers>>,
             NEW at \in Working, RespStep(r, at, resp[r].q), at \in {"claimed", "respond"} => resp[r].at = "claimed"
      PROVE  AnswerInv'
  <2>1. ClaimInv'
    BY <1>0, <1>1, <1>3 DEF ClaimInv, RespStep, OpenRequests
  <2>2. \A p \in Ids : Answered(p)'
    BY <1>1, <1>3 DEF AnswerInv, Answered
  <2> QED BY <1>0, <1>3, <2>1, <2>2 DEF AnswerInv
<1>4. CASE RespCheck(r) /\ Accepting
  BY <1>0, <1>3, <1>4, RespondSteps DEF RespCheck, Working
<1>5. CASE RespSent(r)
  BY <1>0, <1>3, <1>5, RespondSteps DEF RespSent, Working
<1>6. CASE RespWrite(r)
  <2>1. PICK q \in Ids : q = resp[r].q
    BY <1>0, <1>6 DEF RespWrite, ClaimInv, Working
  <2>2. /\ resp[r].at = "respond" /\ UNCHANGED <<requests, fin>> /\ RespStep(r, "sent", q)
        /\ answers' = [answers EXCEPT ![q] = @ + 1]
    BY <1>0, <1>6, <2>1, RespondSteps DEF RespWrite
  <2>3. answers[q] = 0 /\ (requests[q] = "sending" \/ Ending)
    BY <1>0, <2>1, <2>2 DEF ClaimInv, Working
  <2>4. answers' \in [Ids -> Nat] /\ answers'[q] = 1 /\ \A p \in Ids : p # q => answers'[p] = answers[p]
    BY <1>0, <2>2, <2>3
  <2>5. \A s \in Responders : s # r => resp[s].at \notin Working
    BY <1>0, <2>2, OneClaimant DEF Working
  <2>6. ClaimInv'
    BY <1>0, <1>1, <2>1, <2>2, <2>3, <2>5 DEF ClaimInv, RespStep, OpenRequests, Working
  <2>7. \A p \in Ids : Answered(p)'
    BY <1>1, <2>2, <2>3, <2>4 DEF AnswerInv, Answered
  <2> QED BY <2>4, <2>6, <2>7 DEF AnswerInv
<1>7. CASE (RespCheck(r) /\ ~Accepting) \/ RespComplete(r) \/ RespFails(r)
  <2>1. resp[r].at \in Working
    BY <1>7 DEF RespCheck, RespComplete, RespFails, Working
  <2>2. PICK q \in Ids : q = resp[r].q
    BY <1>0, <2>1 DEF ClaimInv
  <2>3. RespStep(r, "done", 0) /\ UNCHANGED <<phase, answers>>
    BY <1>0, <1>1, <1>7, RespondSteps DEF RespCheck, RespComplete, RespFails
  <2>4. CASE RespCheck(r) /\ ~Accepting
    <3>1. /\ requests' = [requests EXCEPT ![q] = IF @ = "sending" THEN "pending" ELSE @]
          /\ resp[r].at = "claimed" /\ UNCHANGED fin
      BY <2>2, <2>4 DEF RespCheck, Release
    <3> QED BY <1>0, <2>1, <2>2, <2>3, <3>1, AnswerSettled
  <2>5. CASE RespComplete(r)
    <3>1. requests' = [requests EXCEPT ![q] = IF @ = "sending" THEN "responded" ELSE @] /\ UNCHANGED fin
      BY <2>2, <2>5 DEF RespComplete
    <3> QED BY <1>0, <2>1, <2>2, <2>3, <3>1, AnswerSettled
  <2>6. CASE RespFails(r)
    <3>1. requests' = [requests EXCEPT ![q] = IF @ = "sending" THEN "pending" ELSE @]
      BY <2>2, <2>6 DEF RespFails, Release
    <3>2. FinStep(r, "failClosed", None, "control")
      BY <1>0, <2>6, RecordIsStep DEF RespFails
    <3>3. fin'[r].at = "failClosed" /\ \A s \in Responders : fin[s].at = "failClosed" => fin'[s].at = "failClosed"
      BY <3>2 DEF FinStep
    <3> QED BY <1>0, <2>1, <2>2, <2>3, <3>1, <3>3, AnswerSettled
  <2> QED BY <1>7, <2>4, <2>5, <2>6
<1> QED BY <1>2, <1>4, <1>5, <1>6, <1>7 DEF Respond

(* Deciding to finish, and finishing. *)
LEMMA AnswerFinish ==
  ASSUME AnswerInv, OwnerInv, OwnerInv', FinInv,
         \/ Decide \/ Cancel \/ \E reason \in IdleTimeouts : SeeTimeout(reason)
         \/ \E f \in Threads : Finish(f)
  PROVE  AnswerInv'
<1> USE FinNames
<1>0. OwnerTypes /\ fin \in [Threads -> Fins]
  BY DEF OwnerInv, FinInv
<1>1. UNCHANGED <<resp, answers>>
  BY DEF Decide, Cancel, StartFailed, DeliveryFailed, SeeBoundary, SeeTerminal, SeeSinkError, SeeViolation,
         SeeTimeout, CancelTask, LockTimeout, Finish, CloseAndWait, Lock, FailClosed, Cooperate, Cooperated,
         FinishProcess, BeginStopping, Reap, AwaitBoundary, Publish, Finalize, Persist, stopFrame, finFrame
<1>2. CASE SeeViolation \/ CancelTask \/ (\E reason : SeeTimeout(reason)) \/ \E f \in Threads : FailClosed(f)
  <2>1. RequestStop
    BY <1>2 DEF SeeViolation, CancelTask, SeeTimeout, FailClosed
  <2> QED BY <1>1, <2>1, AnswerStop
<1>3. CASE \E f \in Threads : Persist(f)
  <2>1. /\ Ending'
        /\ \E s, l : Sink(Tables(s, l, [q \in Ids |-> IF q \in OpenRequests THEN None ELSE requests[q]]))
    BY <1>3 DEF Persist, Ending
  <2>2. requests' = [q \in Ids |-> IF q \in OpenRequests THEN None ELSE requests[q]]
    BY <2>1, SinkTables
  <2> QED BY <1>1, <2>1, <2>2, AnswerEnds
<1>4. ASSUME UNCHANGED <<phase, requests>>, \A r \in Responders : fin[r].at = "failClosed" => fin'[r].at = "failClosed"
      PROVE  AnswerInv'
  BY <1>1, <1>4, AnswerKept DEF Ending
<1>5. CASE StartFailed \/ DeliveryFailed \/ SeeBoundary \/ SeeTerminal \/ SeeSinkError \/ LockTimeout
  <2>1. UNCHANGED <<phase, requests>>
    BY <1>5 DEF StartFailed, DeliveryFailed, SeeBoundary, SeeTerminal, SeeSinkError, LockTimeout, sinkVars
  <2>2. UNCHANGED fin \/ (\E at, with, why : FinStep("task", at, with, why) \/ FinStep("cancel", at, with, why))
    BY <1>0, <1>5, DecideSteps
  <2> QED BY <1>4, <2>1, <2>2, ResponderNames DEF FinStep
<1>6. CASE \E f \in Threads : \/ CloseAndWait(f) \/ Lock(f) \/ Cooperate(f) \/ Cooperated(f) \/ BeginStopping(f)
                              \/ Reap(f) \/ AwaitBoundary(f) \/ Publish(f) \/ Finalize(f)
  <2>1. PICK f \in Threads : \/ CloseAndWait(f) \/ Lock(f) \/ Cooperate(f) \/ Cooperated(f) \/ BeginStopping(f)
                             \/ Reap(f) \/ AwaitBoundary(f) \/ Publish(f) \/ Finalize(f)
    BY <1>6
  <2>2. fin[f].at # "failClosed" /\ phase' = phase
    BY <2>1 DEF CloseAndWait, Lock, Cooperate, Cooperated, BeginStopping, Reap, AwaitBoundary, Publish, Finalize
  <2>3. requests' = requests
    <3>1. CASE Publish(f)
      <4>1. PublishTerminal(fin[f].with) /\ UNCHANGED <<phase, ingress, result>> /\ fin[f].with \in Terminals
        BY <3>1 DEF Publish, finFrame, FinInv, PublishInv, GoodFin
      <4> QED BY <4>1, PublishEffect DEF OwnerInv
    <3>2. CASE ~Publish(f)
      BY <2>1, <3>2 DEF CloseAndWait, Lock, Cooperate, Cooperated, BeginStopping, Reap, AwaitBoundary, Finalize, sinkVars
    <3> QED BY <3>1, <3>2
  <2>4. Publish(f) => terminal' \in Terminals
    <3>1. Publish(f) => owner' = "Terminal"
      BY DEF Publish, PublishTerminal
    <3> QED BY <3>1 DEF OwnerInv, OwnerTypes
  <2>5. \E at, with, why : FinStep(f, at, with, why)
    BY <1>0, <2>1, <2>4, FinishSteps
  <2> QED BY <1>4, <2>2, <2>3, <2>5 DEF FinStep
<1> QED BY <1>2, <1>3, <1>5, <1>6 DEF Decide, Cancel, Finish, FinishProcess

(* The claims and the answers fit, in every state. *)
LEMMA AnswerInvariant == Spec => []AnswerInv
<1>1. Init => AnswerInv
  <2> SUFFICES ASSUME Init
               PROVE  AnswerInv
    OBVIOUS
  <2>1. /\ phase = "PREPARING" /\ requests = [q \in Ids |-> None] /\ answers = [q \in Ids |-> 0]
        /\ resp = [r \in Responders |-> [at |-> "idle", q |-> 0]]
    BY DEF Init
  <2>2. ClaimInv
    BY <2>1 DEF ClaimInv, Ending, Working, None
  <2> QED BY <2>1, <2>2 DEF AnswerInv, Answered
<1>2. AnswerInv /\ LaneInv /\ StreamInv /\ OwnerInv /\ FinInv /\ OwnerInv' /\ [Next]_vars => AnswerInv'
  <2> SUFFICES ASSUME AnswerInv, LaneInv, StreamInv, OwnerInv, FinInv, OwnerInv', [Next]_vars
               PROVE  AnswerInv'
    OBVIOUS
  <2>1. CASE DriverStep \/ UNCHANGED vars
    <3>1. UNCHANGED <<phase, requests, resp, answers, fin>>
      BY <2>1 DEF DriverStep, restOfOwner, threadVars, vars, sinkVars
    <3> QED BY <3>1, AnswerKept DEF Ending
  <2>2. CASE Command
    <3>1. UNCHANGED <<requests, resp, answers>> /\ (phase' = phase \/ (phase = "PREPARING" /\ phase' = "RUNNING"))
      BY <2>2 DEF Command, CmdBegin, CmdWrite, CmdReply, CmdTurn, CmdTimeout, MarkRunning, Recheck, restOfOwner,
                  others, threadVars, sinkVars
    <3>2. UNCHANGED fin \/ \E at, with, why : FinStep("task", at, with, why)
      <4>1. CASE Recheck
        BY <4>1, MoveIsStep, RecordIsStep, FinNames DEF Recheck, Move, FinInv
      <4>2. CASE ~Recheck
        BY <2>2, <4>2 DEF Command, CmdBegin, CmdWrite, CmdReply, CmdTurn, CmdTimeout, MarkRunning, others, threadVars
      <4> QED BY <4>1, <4>2
    <3>3. \A r \in Responders : fin[r].at = "failClosed" => fin'[r].at = "failClosed"
      BY <3>2, ResponderNames, FinNames DEF FinStep
    <3>4. Ending' = Ending
      BY <3>1 DEF Ending
    <3> QED BY <3>1, <3>3, <3>4, AnswerKept
  <2>3. CASE Pump
    BY <2>3, AnswerPump
  <2>4. CASE \E r \in Responders : Respond(r)
    BY <2>4, AnswerRespond
  <2>5. CASE \/ Decide \/ Cancel \/ \E reason \in IdleTimeouts : SeeTimeout(reason)
             \/ \E f \in Threads : Finish(f)
    BY <2>5, AnswerFinish
  <2> QED BY <2>1, <2>2, <2>3, <2>4, <2>5 DEF Next
<1> QED BY <1>1, <1>2, LaneInvariant, StreamInvariant, OwnerInvariant, PTL DEF Spec

(* A permission request is answered at most once, a claim is not left      *)
(* behind, and an answered request is offered again only when the runtime  *)
(* is being stopped.                                                       *)
THEOREM AnswersSettle == Spec => []RequestsSettle
<1>1. AnswerInv => RequestsSettle
  <2> SUFFICES ASSUME AnswerInv, NEW q \in Ids
               PROVE  /\ answers[q] <= 1
                      /\ requests[q] = "sending" =>
                           \E r \in Responders : resp[r].q = q /\ resp[r].at \notin {"idle", "done"}
                      /\ requests[q] = "pending" /\ answers[q] = 1 => \E r \in Responders : fin[r].at # "idle"
    BY DEF RequestsSettle
  <2>1. answers[q] \in Nat /\ (answers[q] # 0 => answers[q] = 1)
    BY DEF AnswerInv, Answered
  <2>2. requests[q] = "sending" => \E r \in Responders : resp[r].q = q /\ resp[r].at \notin {"idle", "done"}
    BY DEF AnswerInv, ClaimInv, Working
  <2>3. requests[q] = "pending" => ~Ending
    BY DEF AnswerInv, ClaimInv, OpenRequests
  <2>4. requests[q] = "pending" /\ answers[q] = 1 => \E r \in Responders : fin[r].at # "idle"
    BY <2>3 DEF AnswerInv, Answered
  <2> QED BY <2>1, <2>2, <2>4
<1> QED BY <1>1, AnswerInvariant, PTL

(* ------------------------------- turns --------------------------------- *)
\* The starts of turns on their way from the app-server to the tracker. None is on its
\* way, or one is, in one place.
Has(s) == \E i \in DOMAIN s : s[i].k = "started"
One(s) == \A i, j \in DOMAIN s : s[i].k = "started" /\ s[j].k = "started" => i = j
Clear == sends = 0 /\ ~Has(wire) /\ ~Has(raw) /\ ~Has(inbox)
OneTurn ==
  /\ sends \in {0, 1} /\ One(wire) /\ One(raw) /\ One(inbox)
  /\ sends = 1 => ~Has(wire) /\ ~Has(raw) /\ ~Has(inbox)
  /\ Has(wire) => ~Has(raw) /\ ~Has(inbox)
  /\ Has(raw) => ~Has(inbox)

TurnCompleted == ~tracker.active /\ tracker.boundary = "completed"

\* The task's thread finishes a turn that completed, or it gave the turn up.
Natural == fin["task"].with = "completed" \/ (fin["task"].at = "publish" /\ fin["task"].with = "Completed")
GivenUp == fin["task"].at \notin {"starting", "idle"} /\ ~Natural

\* A turn is on its way only while its request waits for it, unless the runtime is
\* about to be finished for that.
FlightInv ==
  owner # "Terminal" =>
    \/ Clear /\ (cmd.at = "write" => tracker.generation = cmd.since)
    \/ cmd.at \in {"wait", "turn"} /\ Head(cmd.todo) = "send" /\ OneTurn /\ tracker.generation = cmd.since
    \/ cmd.at = "failed" /\ (phase = "PREPARING" \/ (operation = {"task"} /\ fin["task"].at = "idle"))
    \/ GivenUp

\* So the turn that a natural end is about stays the last one.
NaturalInv == Natural => /\ fin["task"].why = "boundary" /\ fin["task"].at \notin {"starting", "idle"}
                         /\ owner = "Terminal" \/ (Clear /\ TurnCompleted)
UnnaturalInv ==
  \A f \in Threads : f # "task" =>
    /\ fin[f].with # "completed" /\ fin[f].why \notin {"boundary", "exit"}
    /\ fin[f].at = "publish" => fin[f].with # "Completed"
VerdictInv ==
  /\ cmd.ended => owner = "Terminal"
  /\ "Completed" \in {verdict, terminal} => TurnCompleted

TurnInv == FlightInv /\ NaturalInv /\ UnnaturalInv /\ VerdictInv

(* Starts in a queue that grows, shrinks or is joined. *)
LEMMA HasAppend ==
  ASSUME NEW S, NEW s \in Seq(S), NEW x \in S
  PROVE  /\ Has(Append(s, x)) => Has(s) \/ x.k = "started"
         /\ One(s) /\ ~(Has(s) /\ x.k = "started") => One(Append(s, x))
<1> QED BY DEF Has, One

(* Taking the head. *)
LEMMA HasTail ==
  ASSUME NEW S, NEW s \in Seq(S), s # <<>>
  PROVE  /\ Has(Tail(s)) => Has(s)
         /\ One(s) => One(Tail(s))
         /\ Head(s).k = "started" => Has(s) /\ (One(s) => ~Has(Tail(s)))
<1> QED BY DEF Has, One

(* Two queues. *)
LEMMA HasJoin ==
  ASSUME NEW S, NEW s \in Seq(S), NEW t \in Seq(S)
  PROVE  /\ Has(s \o t) => Has(s) \/ Has(t)
         /\ One(s) /\ One(t) /\ ~(Has(s) /\ Has(t)) => One(s \o t)
<1> QED BY DEF Has, One

(* A queue without a start has not two. *)
LEMMA NoneIsOne ==
  ASSUME NEW s, ~Has(s)
  PROVE  One(s)
<1> QED BY DEF Has, One

(* A line is one start at most. *)
LEMMA ParseStart ==
  ASSUME NEW line \in Lines
  PROVE  One(Parse(line)) /\ (Has(Parse(line)) => line.k = "started")
<1>1. CASE line.k \in TurnKinds
  <2> DEFINE first == Item(Announced[line.k], line.v, InOrder(line.k, turnActive))
             second == Item(line.k, line.v, TRUE)
  <2>1. Parse(line) = <<first, second>>
    BY <1>1 DEF Parse
  <2>2. first.k # "started" /\ second.k = line.k
    BY <1>1 DEF Item, Announced, TurnKinds
  <2> HIDE DEF first, second
  <2>3. DOMAIN <<first, second>> = {1, 2}
    OBVIOUS
  <2> QED BY <2>1, <2>2, <2>3 DEF Has, One
<1>2. CASE line.k \notin TurnKinds
  <2>1. Parse(line) = <<Item(line.k, line.v, line.k # "error")>> /\ line.k # "started"
    BY <1>2 DEF Parse, TurnKinds
  <2> DEFINE item == Item(line.k, line.v, line.k # "error")
  <2>2. item.k # "started"
    BY <2>1 DEF Item
  <2> HIDE DEF item
  <2>3. DOMAIN <<item>> = {1}
    OBVIOUS
  <2>4. ~Has(<<item>>)
    BY <2>2, <2>3 DEF Has
  <2> QED BY <2>1, <2>4, NoneIsOne DEF item
<1> QED BY <1>1, <1>2

(* The app-server and the threads of the driver move starts on. *)
LEMMA FlowDriver ==
  ASSUME StreamInv, DriverStep
  PROVE  (Clear => Clear') /\ (OneTurn => OneTurn')
<1>0. wire \in Seq(Lines) /\ raw \in Seq(Items) /\ inbox \in Seq(Items)
  BY DEF StreamInv, StreamTypes
<1>1. CASE Say
  <2>1. PICK line \in NextLines : /\ Sayable(line) /\ wire' = Append(wire, line)
                                  /\ sends' = IF line.k = "started" THEN sends - 1 ELSE sends
    BY <1>1 DEF Say
  <2>2. line \in Lines /\ UNCHANGED <<raw, inbox>>
    <3>1. PICK c \in Conversations : Len(talk) < Len(c) /\ line = c[Len(talk) + 1]
      BY DEF NextLines, Possible
    <3> QED BY <1>1, <3>1, DriverAssumption DEF Say
  <2>3. /\ Has(wire') => Has(wire) \/ line.k = "started"
        /\ One(wire) /\ ~(Has(wire) /\ line.k = "started") => One(wire')
    BY <1>0, <2>1, <2>2, HasAppend
  <2>4. line.k = "started" => sends > 0
    BY <2>1 DEF Sayable
  <2> QED BY <2>1, <2>2, <2>3, <2>4 DEF Clear, OneTurn
<1>2. CASE (\E status, orphan : Exit(status, orphan)) \/ OrphanDies \/ ReadEof \/ DispatchEnds
  <2>1. sends' \in {sends, 0} /\ UNCHANGED <<wire, raw, inbox>>
    BY <1>2 DEF Exit, OrphanDies, ReadEof, DispatchEnds
  <2> QED BY <2>1 DEF Clear, OneTurn
<1>3. CASE Read
  <2>1. wire # <<>> /\ wire' = Tail(wire) /\ raw' = raw \o Parse(Head(wire)) /\ UNCHANGED <<sends, inbox>>
    BY <1>3 DEF Read
  <2>2. Head(wire) \in Lines
    BY <1>0, <2>1
  <2>3. /\ Has(raw') => Has(raw) \/ Has(Parse(Head(wire)))
        /\ One(raw) /\ One(Parse(Head(wire))) /\ ~(Has(raw) /\ Has(Parse(Head(wire)))) => One(raw')
    BY <1>0, <2>1, <2>2, ParseItems, HasJoin
  <2>4. One(Parse(Head(wire))) /\ (Has(Parse(Head(wire))) => Head(wire).k = "started")
    BY <2>2, ParseStart
  <2>5. /\ Has(wire') => Has(wire)
        /\ One(wire) => One(wire')
        /\ Head(wire).k = "started" => Has(wire) /\ (One(wire) => ~Has(wire'))
    BY <1>0, <2>1, HasTail
  <2> QED BY <2>1, <2>3, <2>4, <2>5 DEF Clear, OneTurn
<1>4. CASE MonitorPublishes
  <2> DEFINE e == Item("exit", 0, proc.exit = "zero")
  <2>1. raw' = Append(raw, e) /\ UNCHANGED <<sends, wire, inbox>>
    BY <1>4 DEF MonitorPublishes
  <2>2. e \in Items /\ e.k = "exit"
    BY ItemIn DEF ItemKinds
  <2> HIDE DEF e
  <2>3. (Has(raw') => Has(raw)) /\ (One(raw) => One(raw'))
    BY <1>0, <2>1, <2>2, HasAppend
  <2> QED BY <2>1, <2>3 DEF Clear, OneTurn
<1>5. CASE Dispatch
  <2>1. raw # <<>> /\ raw' = Tail(raw) /\ UNCHANGED <<sends, wire>>
    BY <1>5 DEF Dispatch, DispatchResponse, DispatchExit, DispatchOther
  <2>2. Head(raw) \in Items
    BY <1>0, <2>1
  <2>3. \/ inbox' = inbox
        \/ \E item \in Items : inbox' = Append(inbox, item) /\ (item.k = "started" => Head(raw).k = "started")
    <3>1. CASE DispatchResponse
      <4>1. Item("unmatched", Head(raw).v, Head(raw).ok) \in Items
            /\ Item("unmatched", Head(raw).v, Head(raw).ok).k = "unmatched"
        <5>1. Head(raw).v \in Nat /\ Head(raw).ok \in BOOLEAN
          BY <2>2 DEF Items
        <5>2. "unmatched" \in ItemKinds
          BY DEF ItemKinds
        <5> QED BY <5>1, <5>2, ItemIn
      <4> QED BY <3>1, <4>1 DEF DispatchResponse
    <3>2. CASE DispatchExit \/ DispatchOther
      BY <2>2, <3>2 DEF DispatchExit, DispatchOther
    <3> QED BY <1>5, <3>1, <3>2 DEF Dispatch
  <2>4. /\ Has(inbox') => Has(inbox) \/ Head(raw).k = "started"
        /\ One(inbox) /\ ~(Has(inbox) /\ Head(raw).k = "started") => One(inbox')
    BY <1>0, <2>3, HasAppend
  <2>5. /\ Has(raw') => Has(raw)
        /\ One(raw) => One(raw')
        /\ Head(raw).k = "started" => Has(raw) /\ (One(raw) => ~Has(raw'))
    BY <1>0, <2>1, HasTail
  <2> QED BY <2>1, <2>4, <2>5 DEF Clear, OneTurn
<1> QED BY <1>1, <1>2, <1>3, <1>4, <1>5 DEF DriverStep, DriverThreads, AppServer

(* The pump takes a start off its way as the tracker counts it. *)
LEMMA FlowPump ==
  ASSUME StreamInv, LaneInv, Pump
  PROVE  /\ Clear => /\ Clear' /\ tracker'.generation = tracker.generation
                     /\ TurnCompleted => TurnCompleted'
         /\ OneTurn => Clear' \/ (OneTurn' /\ tracker'.generation = tracker.generation)
<1>0. wire \in Seq(Lines) /\ raw \in Seq(Items) /\ inbox \in Seq(Items) /\ tracker \in Trackers
  BY DEF StreamInv, StreamTypes, LaneInv, TableTypes
<1>1. CASE PumpTake
  <2>1. /\ inbox # <<>> /\ inbox' = Tail(inbox) /\ UNCHANGED <<sends, wire, raw>>
        /\ tracker' = TrackerObserve(Head(inbox))
    BY <1>1 DEF PumpTake
  <2>2. /\ Has(inbox') => Has(inbox)
        /\ One(inbox) => One(inbox')
        /\ Head(inbox).k = "started" => Has(inbox) /\ (One(inbox) => ~Has(inbox'))
    BY <1>0, <2>1, HasTail
  <2>3. Head(inbox).k # "started" => /\ tracker'.generation = tracker.generation
                                     /\ ~tracker.active => tracker' = tracker
    <3>1. CASE Head(inbox).k \in {"completed", "failed"} /\ tracker.active
      BY <1>0, <2>1, <3>1 DEF TrackerObserve, Trackers
    <3>2. CASE ~(Head(inbox).k \in {"completed", "failed"} /\ tracker.active)
      BY <2>1, <3>2 DEF TrackerObserve
    <3> QED BY <3>1, <3>2
  <2>4. CASE Head(inbox).k = "started"
    BY <2>1, <2>2, <2>4 DEF Clear, OneTurn
  <2>5. CASE Head(inbox).k # "started"
    BY <2>1, <2>2, <2>3, <2>5 DEF Clear, OneTurn, TurnCompleted
  <2> QED BY <2>4, <2>5
<1>2. CASE PumpCannotAnswer \/ PumpEmit
  <2>1. UNCHANGED <<sends, wire, raw, inbox, tracker>>
    BY <1>2 DEF PumpCannotAnswer, PumpEmit, driverVars
  <2> QED BY <2>1 DEF Clear, OneTurn, TurnCompleted
<1> QED BY <1>1, <1>2 DEF Pump

(* Steps that leave the threads alone: a turn on its way stays the one     *)
(* that is waited for.                                                     *)
LEMMA TurnKept ==
  ASSUME TurnInv, UNCHANGED <<fin, cmd, phase, operation>>, owner = "Terminal" => owner' = "Terminal",
         Clear => Clear' /\ tracker'.generation = tracker.generation /\ (TurnCompleted => TurnCompleted'),
         OneTurn => Clear' \/ (OneTurn' /\ tracker'.generation = tracker.generation),
         "Completed" \in {verdict', terminal'} => TurnCompleted'
  PROVE  TurnInv'
<1>1. Natural' = Natural /\ GivenUp' = GivenUp
  BY DEF Natural, GivenUp
<1>2. FlightInv'
  BY <1>1 DEF TurnInv, FlightInv
<1>3. NaturalInv' /\ UnnaturalInv'
  BY <1>1 DEF TurnInv, NaturalInv, UnnaturalInv
<1>4. VerdictInv'
  BY DEF TurnInv, VerdictInv
<1> QED BY <1>2, <1>3, <1>4 DEF TurnInv

(* The app-server and the threads of the driver. *)
LEMMA TurnDriver ==
  ASSUME TurnInv, StreamInv, DriverStep
  PROVE  TurnInv'
<1>1. UNCHANGED <<fin, cmd, phase, operation, owner, terminal, tracker, verdict>>
  BY DEF DriverStep, restOfOwner, ownerVars, pumpVars, threadVars
<1>2. TurnCompleted' = TurnCompleted
  BY <1>1 DEF TurnCompleted
<1>3. "Completed" \in {verdict, terminal} => TurnCompleted
  BY DEF TurnInv, VerdictInv
<1> QED BY <1>1, <1>2, <1>3, FlowDriver, TurnKept

(* The pump: the terminal that it publishes is about the last turn. *)
LEMMA TurnPump ==
  ASSUME TurnInv, StreamInv, LaneInv, OwnerInv, FinInv, Pump
  PROVE  TurnInv'
<1>1. UNCHANGED <<fin, cmd, phase, operation>>
  BY DEF Pump, PumpTake, PumpCannotAnswer, PumpEmit, threadVars
<1>2. "Completed" \in {verdict, terminal} => TurnCompleted
  BY DEF TurnInv, VerdictInv
<1>3. CASE PumpTake
  <2>1. /\ pump = "idle" /\ UNCHANGED <<owner, terminal>> /\ tracker' = TrackerObserve(Head(inbox))
        /\ verdict' = None \/ (Head(inbox).k = "exit" /\ \E unknown : verdict' = ExitVerdict(Head(inbox), proc.orphan \/ unknown))
    BY <1>3 DEF PumpTake, ownerVars
  <2>2. terminal # "Completed"
    BY <2>1 DEF FinInv, PublishInv, StreamInv, QueueInv, Orderly
  <2>3. verdict' = "Completed" => TurnCompleted /\ tracker' = tracker
    BY <2>1 DEF ExitVerdict, TurnCompleted, TrackerObserve, None
  <2>4. "Completed" \in {verdict', terminal'} => TurnCompleted'
    BY <2>1, <2>2, <2>3 DEF TurnCompleted
  <2> QED BY <1>1, <2>1, <2>4, FlowPump, TurnKept
<1>4. CASE PumpCannotAnswer
  <2>1. /\ owner = "Terminal" => owner' = "Terminal"
        /\ terminal' \in {terminal, "Lost"} /\ UNCHANGED <<tracker, verdict>>
    BY <1>4 DEF PumpCannotAnswer, PublishTerminal
  <2>2. "Completed" \in {verdict', terminal'} => TurnCompleted'
    BY <1>2, <2>1 DEF TurnCompleted
  <2> QED BY <1>1, <2>1, <2>2, FlowPump, TurnKept
<1>5. CASE PumpEmit
  <2>1. /\ owner = "Terminal" => owner' = "Terminal"
        /\ terminal' \in {terminal, verdict} /\ verdict' = None /\ UNCHANGED tracker
    BY <1>5 DEF PumpEmit, EmitDriver, ownerVars
  <2>2. "Completed" \in {verdict', terminal'} => TurnCompleted'
    BY <1>2, <2>1 DEF TurnCompleted, None
  <2> QED BY <1>1, <2>1, <2>2, FlowPump, TurnKept
<1> QED BY <1>3, <1>4, <1>5 DEF Pump

(* What the steps of a request keep of it. *)
LEMMA CommandKeeps ==
  ASSUME cmd \in Cmds
  PROVE  /\ CmdBegin => /\ cmd'.at = "write" /\ cmd'.since = tracker.generation
                        /\ cmd'.ended => owner = "Terminal"
         /\ \A at : cmd' = [cmd EXCEPT !.at = at] =>
              cmd'.at = at /\ cmd'.todo = cmd.todo /\ cmd'.since = cmd.since /\ cmd'.ended = cmd.ended
         /\ cmd' = CmdFails => cmd'.at = "failed" /\ cmd'.ended = cmd.ended
         /\ cmd' = Advance => cmd'.at = "next" /\ cmd'.ended = cmd.ended
         /\ CmdTurn => cmd'.at = "next" /\ cmd'.ended = cmd.ended
<1>1. CmdBegin => /\ cmd'.at = "write" /\ cmd'.since = tracker.generation
                  /\ cmd'.ended => owner = "Terminal"
  <2> SUFFICES ASSUME CmdBegin
               PROVE  /\ cmd'.at = "write" /\ cmd'.since = tracker.generation
                      /\ cmd'.ended => owner = "Terminal"
    OBVIOUS
  <2> DEFINE ended == (owner = "Terminal")
  <2>1. cmd' = [cmd EXCEPT !.at = "write", !.id = nextId, !.since = tracker.generation, !.ended = ended]
    BY DEF CmdBegin
  <2>2. ended => owner = "Terminal"
    OBVIOUS
  <2> HIDE DEF ended
  <2>3. cmd' = [at |-> "write", todo |-> cmd.todo, id |-> nextId, since |-> tracker.generation,
                turns |-> cmd.turns, ended |-> ended]
    BY <2>1 DEF Cmds
  <2> QED BY <2>2, <2>3
<1>2. ASSUME NEW at, cmd' = [cmd EXCEPT !.at = at]
      PROVE  cmd'.at = at /\ cmd'.todo = cmd.todo /\ cmd'.since = cmd.since /\ cmd'.ended = cmd.ended
  BY <1>2 DEF Cmds
<1>3. cmd' = CmdFails => cmd'.at = "failed" /\ cmd'.ended = cmd.ended
  BY DEF CmdFails, Cmds
<1>4. cmd' = Advance => cmd'.at = "next" /\ cmd'.ended = cmd.ended
  BY DEF Advance, Cmds
<1>5. CmdTurn => cmd'.at = "next" /\ cmd'.ended = cmd.ended
  BY DEF CmdTurn, Advance, Cmds
<1> QED BY <1>1, <1>2, <1>3, <1>4, <1>5

(* The request in progress goes on, with the threads and turns left alone. *)
LEMMA TurnRequest ==
  ASSUME TurnInv, UNCHANGED <<fin, phase, tracker, owner, terminal, verdict>>, FlightInv',
         cmd'.ended => cmd.ended \/ owner = "Terminal",
         Clear => Clear' \/ (cmd.at = "write" /\ Head(cmd.todo) = "send" /\ LaneInv)
  PROVE  TurnInv'
<1>1. Natural' = Natural /\ TurnCompleted' = TurnCompleted
  BY DEF Natural, TurnCompleted
<1>2. UnnaturalInv' /\ VerdictInv'
  BY <1>1 DEF TurnInv, UnnaturalInv, VerdictInv
<1>3. NaturalInv'
  <2>1. ASSUME Natural, cmd.at = "write", Head(cmd.todo) = "send", LaneInv
        PROVE  FALSE
    <3>1. fin["task"].why = "boundary" /\ fin["task"].at # "idle"
      BY <2>1 DEF TurnInv, NaturalInv
    <3>2. cmd.todo # <<"stop">>
      BY <2>1
    <3>3. phase = "PREPARING" /\ cmd.at \in Busy
      BY <2>1, <3>1, <3>2 DEF LaneInv, RequestInv, Busy
    <3> QED BY <2>1, <3>1, <3>3 DEF LaneInv, BootInv, TurnInv, NaturalInv, Busy
  <2> QED BY <1>1, <2>1 DEF TurnInv, NaturalInv
<1> QED BY <1>2, <1>3 DEF TurnInv

(* The thread that sends commands. A turn is on its way only after the     *)
(* request was written, and no later than the request is given up.         *)
LEMMA TurnCommand ==
  ASSUME TurnInv, LaneInv, FinInv, Command
  PROVE  TurnInv'
<1>0. TableTypes /\ RequestInv /\ BootInv /\ cmd \in Cmds /\ FlightInv /\ (cmd.ended => owner = "Terminal")
  BY DEF LaneInv, TableTypes, TurnInv, VerdictInv
<1>a. ASSUME UNCHANGED <<sends, wire, raw, inbox>>
      PROVE  Clear' = Clear /\ OneTurn' = OneTurn
  BY <1>a DEF Clear, OneTurn
<1>b. ASSUME UNCHANGED fin
      PROVE  GivenUp' = GivenUp
  BY <1>b DEF GivenUp, Natural
<1>c. ASSUME cmd.at \in Busy, Head(cmd.todo) = "send"
      PROVE  phase = "PREPARING" \/ (operation = {"task"} /\ fin["task"].at = "idle")
  <2>1. cmd.todo # <<"stop">>
    BY <1>c
  <2> QED BY <1>0, <1>c, <2>1 DEF RequestInv
<1>1. CASE CmdBegin
  <2>1. /\ UNCHANGED <<fin, phase, tracker, owner, terminal, verdict, sends, wire, raw, inbox>>
        /\ cmd.at = "next"
    BY <1>1 DEF CmdBegin, BeginRequest, restOfOwner, ownerVars, pumpVars, others, streamVars
  <2>2. cmd'.at = "write" /\ cmd'.since = tracker.generation /\ (cmd'.ended => owner = "Terminal")
    BY <1>0, <1>1, CommandKeeps
  <2>3. FlightInv'
    BY <1>0, <1>a, <1>b, <2>1, <2>2 DEF FlightInv
  <2> QED BY <1>a, <2>1, <2>2, <2>3, TurnRequest
<1>2. CASE CmdWrite
  <2>1. /\ UNCHANGED <<fin, phase, tracker, owner, terminal, verdict, wire, raw, inbox, operation>>
        /\ cmd.at = "write"
    BY <1>2 DEF CmdWrite, RemoveEntry, restOfOwner, ownerVars, pumpVars, others, streamVars
  <2>2. CASE sends' = sends /\ cmd'.at \in {"wait", "failed"} /\ cmd'.ended = cmd.ended
    <3>1. FlightInv'
      BY <1>0, <1>a, <1>b, <2>1, <2>2 DEF FlightInv
    <3> QED BY <1>a, <2>1, <2>2, <3>1, TurnRequest
  <2>3. CASE /\ sends' = sends + 1 /\ Head(cmd.todo) = "send" /\ cmd'.at = "wait"
             /\ cmd'.todo = cmd.todo /\ cmd'.since = cmd.since /\ cmd'.ended = cmd.ended
    <3>1. Clear => OneTurn'
      BY <2>1, <2>3, NoneIsOne DEF Clear, OneTurn
    <3>2. FlightInv'
      BY <1>0, <1>b, <2>1, <2>3, <3>1 DEF FlightInv
    <3> QED BY <2>1, <2>3, <3>2, TurnRequest
  <2>4. \/ sends' = sends /\ cmd'.at \in {"wait", "failed"} /\ cmd'.ended = cmd.ended
        \/ /\ sends' = sends + 1 /\ Head(cmd.todo) = "send" /\ cmd'.at = "wait"
           /\ cmd'.todo = cmd.todo /\ cmd'.since = cmd.since /\ cmd'.ended = cmd.ended
    BY <1>0, <1>2, CommandKeeps DEF CmdWrite, Method
  <2> QED BY <2>2, <2>3, <2>4
<1>3. CASE CmdReply \/ CmdTimeout
  <2>1. /\ UNCHANGED <<fin, phase, tracker, owner, terminal, verdict, sends, wire, raw, inbox, operation>>
        /\ cmd.at \in {"wait", "turn", "boundary"} /\ cmd.at \in Busy
    BY <1>3 DEF CmdReply, CmdTimeout, RemoveEntry, restOfOwner, ownerVars, pumpVars, others, streamVars, driverVars, Busy
  <2>2. /\ cmd'.ended = cmd.ended /\ cmd'.at # "write"
        /\ Head(cmd.todo) = "send" =>
             \/ cmd'.at = "failed"
             \/ cmd'.at = "turn" /\ cmd'.todo = cmd.todo /\ cmd'.since = cmd.since
    BY <1>0, <1>3, CommandKeeps DEF CmdReply, CmdTimeout, Method
  <2>3. FlightInv'
    BY <1>0, <1>a, <1>b, <1>c, <2>1, <2>2 DEF FlightInv
  <2> QED BY <1>a, <2>1, <2>2, <2>3, TurnRequest
<1>4. CASE CmdTurn
  <2>1. /\ UNCHANGED <<fin, phase, tracker, owner, terminal, verdict, sends, wire, raw, inbox>>
        /\ (cmd.at = "turn" /\ tracker.generation > cmd.since) \/ cmd.at = "boundary"
        /\ cmd'.at = "next" /\ cmd'.ended = cmd.ended
    BY <1>0, <1>4, CommandKeeps DEF CmdTurn, restOfOwner, ownerVars, pumpVars, others, driverVars
  <2>2. tracker.generation \in Nat /\ cmd.since \in Nat
    BY <1>0 DEF TableTypes, Trackers, Cmds
  <2>3. FlightInv'
    BY <1>0, <1>a, <1>b, <2>1, <2>2 DEF FlightInv
  <2> QED BY <1>a, <2>1, <2>3, TurnRequest
<1>5. CASE MarkRunning
  <2>1. /\ UNCHANGED <<fin, cmd, tracker, owner, terminal, verdict, sends, wire, raw, inbox, operation>>
        /\ phase = "PREPARING" /\ cmd.turns > 0
    BY <1>5 DEF MarkRunning, ownerVars, pumpVars, threadVars, driverVars
  <2>2. cmd.at = "next"
    BY <1>0, <2>1 DEF BootInv
  <2>3. FlightInv'
    BY <1>0, <1>a, <1>b, <2>1, <2>2 DEF FlightInv
  <2>4. NaturalInv' /\ UnnaturalInv' /\ VerdictInv'
    BY <1>a, <2>1 DEF TurnInv, NaturalInv, Natural, UnnaturalInv, VerdictInv, TurnCompleted
  <2> QED BY <2>3, <2>4 DEF TurnInv
<1>6. CASE Recheck
  <2>1. /\ UNCHANGED <<cmd, phase, tracker, owner, terminal, verdict, sends, wire, raw, inbox, operation>>
        /\ fin["task"].at = "starting" /\ phase # "PREPARING"
    BY <1>6 DEF Recheck, restOfOwner, ownerVars, pumpVars, driverVars
  <2>2. \/ FinStep("task", "idle", fin["task"].with, fin["task"].why)
        \/ FinStep("task", "failClosed", None, "recheck")
    BY <1>6, FinNames, MoveIsStep, RecordIsStep DEF Recheck, Move, FinInv
  <2>3. ~Natural /\ ~Natural'
    BY <2>1, <2>2 DEF TurnInv, NaturalInv, Natural, FinStep, None
  <2>4. FlightInv'
    BY <1>0, <1>a, <2>1, <2>2, <2>3 DEF FlightInv, GivenUp, FinStep
  <2>5. NaturalInv' /\ UnnaturalInv'
    BY <2>2, <2>3, FinNames DEF TurnInv, NaturalInv, UnnaturalInv, FinStep
  <2>6. VerdictInv'
    BY <2>1 DEF TurnInv, VerdictInv, TurnCompleted
  <2> QED BY <2>4, <2>5, <2>6 DEF TurnInv
<1> QED BY <1>1, <1>2, <1>3, <1>4, <1>5, <1>6 DEF Command

(* The task's thread decides to finish a turn that did not complete. *)
LEMMA TurnGivenUp ==
  ASSUME TurnInv, UNCHANGED <<tracker, owner, terminal, verdict>>, cmd'.ended = cmd.ended,
         NEW at, NEW with, NEW why, FinStep("task", at, with, why),
         at \notin {"starting", "idle", "publish"}, with # "completed"
  PROVE  TurnInv'
<1>1. ~Natural' /\ GivenUp'
  BY DEF Natural, GivenUp, FinStep
<1>2. FlightInv' /\ NaturalInv'
  BY <1>1 DEF FlightInv, NaturalInv
<1>3. UnnaturalInv'
  BY DEF TurnInv, UnnaturalInv, FinStep
<1>4. VerdictInv'
  BY DEF TurnInv, VerdictInv, TurnCompleted
<1> QED BY <1>2, <1>3, <1>4 DEF TurnInv

\* What a step of a thread leaves of the request in progress.
CmdKept(f) ==
  /\ cmd'.ended = cmd.ended
  /\ \/ /\ cmd'.at = cmd.at /\ cmd'.since = cmd.since
        /\ cmd.at \in Busy => Head(cmd'.todo) = Head(cmd.todo)
     \/ cmd'.at = "next" /\ cmd.at \notin Busy /\ operation = {f} /\ phase # "PREPARING"

(* A thread that finishes the process goes on: only the task's thread      *)
(* completes a turn, and it is still the last one.                         *)
LEMMA TurnMoved ==
  ASSUME TurnInv, LaneInv, NEW f \in Threads, NEW at, NEW with, NEW why, FinStep(f, at, with, why),
         f = "task" => {fin[f].at, at} \cap {"starting", "idle"} = {},
         f # "task" => phase # "PREPARING" /\ why \notin {"boundary", "exit"} \ {fin[f].why},
         f # "task" /\ operation = {"task"} => operation' = {"task"},
         with = "completed" \/ (at = "publish" /\ with = "Completed") =>
            fin[f].with = "completed" /\ why = fin[f].why,
         UNCHANGED <<tracker, wire, raw, inbox, verdict>>, sends' \in {sends, 0}, CmdKept(f),
         owner = "Terminal" => owner' = "Terminal",
         terminal' = terminal \/ (terminal' = "Completed" => TurnCompleted)
  PROVE  TurnInv'
<1>1. (Clear => Clear') /\ (OneTurn => OneTurn') /\ TurnCompleted' = TurnCompleted
  BY DEF Clear, OneTurn, TurnCompleted
<1>2. Natural' => Natural
  <2>1. CASE f = "task"
    BY <2>1 DEF Natural, FinStep
  <2>2. CASE f # "task"
    BY <2>2, FinNames DEF Natural, FinStep
  <2> QED BY <2>1, <2>2
<1>3. GivenUp => GivenUp'
  <2>1. CASE f = "task"
    BY <1>2, <2>1 DEF GivenUp, FinStep
  <2>2. CASE f # "task"
    BY <1>2, <2>2, FinNames DEF GivenUp, FinStep
  <2> QED BY <2>1, <2>2
<1>4. FlightInv'
  <2> SUFFICES ASSUME owner' # "Terminal", ~GivenUp'
               PROVE  \/ Clear' /\ (cmd'.at = "write" => tracker'.generation = cmd'.since)
                      \/ /\ cmd'.at \in {"wait", "turn"} /\ Head(cmd'.todo) = "send" /\ OneTurn'
                         /\ tracker'.generation = cmd'.since
                      \/ cmd'.at = "failed" /\ (phase' = "PREPARING" \/ (operation' = {"task"} /\ fin'["task"].at = "idle"))
    BY DEF FlightInv
  <2>1. \/ Clear /\ (cmd.at = "write" => tracker.generation = cmd.since)
        \/ cmd.at \in {"wait", "turn"} /\ Head(cmd.todo) = "send" /\ OneTurn /\ tracker.generation = cmd.since
        \/ cmd.at = "failed" /\ (phase = "PREPARING" \/ (operation = {"task"} /\ fin["task"].at = "idle"))
    BY <1>3 DEF TurnInv, FlightInv
  <2>2. CASE Clear /\ (cmd.at = "write" => tracker.generation = cmd.since)
    BY <1>1, <2>2 DEF CmdKept
  <2>3. CASE cmd.at \in {"wait", "turn"} /\ Head(cmd.todo) = "send" /\ OneTurn /\ tracker.generation = cmd.since
    BY <1>1, <2>3 DEF CmdKept, Busy
  <2>4. CASE cmd.at = "failed" /\ phase = "PREPARING"
    <3>1. f = "task" /\ fin[f].at \notin {"starting", "idle"}
      BY <2>4
    <3>2. fin["task"].why = "start"
      BY <2>4, <3>1 DEF LaneInv, BootInv
    <3>3. ~Natural
      BY <3>2 DEF TurnInv, NaturalInv
    <3> QED BY <1>3, <3>1, <3>3 DEF GivenUp
  <2>5. CASE cmd.at = "failed" /\ operation = {"task"} /\ fin["task"].at = "idle"
    <3>1. f # "task"
      BY <2>5
    <3>2. operation # {f} /\ fin'["task"].at = "idle"
      BY <2>5, <3>1, FinNames DEF FinStep
    <3> QED BY <2>5, <3>1, <3>2 DEF CmdKept
  <2> QED BY <2>1, <2>2, <2>3, <2>4, <2>5
<1>5. NaturalInv'
  <2> SUFFICES ASSUME Natural'
               PROVE  /\ fin'["task"].why = "boundary" /\ fin'["task"].at \notin {"starting", "idle"}
                      /\ owner' = "Terminal" \/ (Clear' /\ TurnCompleted')
    BY DEF NaturalInv
  <2>1. /\ fin["task"].why = "boundary" /\ fin["task"].at \notin {"starting", "idle"}
        /\ owner = "Terminal" \/ (Clear /\ TurnCompleted)
    BY <1>2 DEF TurnInv, NaturalInv
  <2>2. CASE f = "task"
    BY <1>1, <2>1, <2>2 DEF FinStep, Natural
  <2>3. CASE f # "task"
    BY <1>1, <2>1, <2>3, FinNames DEF FinStep
  <2> QED BY <2>2, <2>3
<1>6. UnnaturalInv'
  <2> SUFFICES ASSUME NEW g \in Threads, g # "task"
               PROVE  /\ fin'[g].with # "completed" /\ fin'[g].why \notin {"boundary", "exit"}
                      /\ fin'[g].at = "publish" => fin'[g].with # "Completed"
    BY DEF UnnaturalInv
  <2>1. /\ fin[g].with # "completed" /\ fin[g].why \notin {"boundary", "exit"}
        /\ fin[g].at = "publish" => fin[g].with # "Completed"
    BY DEF TurnInv, UnnaturalInv
  <2> QED BY <2>1 DEF FinStep
<1>7. VerdictInv'
  BY <1>1 DEF TurnInv, VerdictInv, CmdKept
<1> QED BY <1>4, <1>5, <1>6, <1>7 DEF TurnInv

(* The responders. *)
LEMMA TurnRespond ==
  ASSUME TurnInv, LaneInv, FinInv, NEW r \in Responders, Respond(r)
  PROVE  TurnInv'
<1>1. UNCHANGED <<phase, cmd, tracker, owner, terminal, verdict, sends, wire, raw, inbox>>
  BY DEF Respond, RespClaim, RespCheck, RespWrite, RespSent, RespComplete, RespFails, respFrame, driverVars,
         ownerVars, pumpVars
<1>2. r # "task" /\ r \in Threads
  BY ResponderNames, FinNames
<1>3. operation # {"task"}
  <2>1. resp[r].at \in Working => operation = {r}
    BY DEF LaneInv, LockInv
  <2>2. (\E q \in Ids : RespClaim(r, q)) => operation = {}
    BY DEF RespClaim
  <2>3. RespCheck(r) \/ RespWrite(r) \/ RespSent(r) \/ RespComplete(r) \/ RespFails(r) => resp[r].at \in Working
    BY DEF RespCheck, RespWrite, RespSent, RespComplete, RespFails, Working
  <2> QED BY <1>2, <2>1, <2>2, <2>3 DEF Respond
<1>4. CASE RespFails(r)
  <2>1. FinStep(r, "failClosed", None, "control")
    BY <1>4, FinNames, RecordIsStep DEF RespFails, FinInv
  <2>2. phase # "PREPARING"
    BY <1>4 DEF LaneInv, BootInv, RespFails
  <2>3. CmdKept(r) /\ None # "completed"
    BY <1>1 DEF CmdKept, None
  <2> QED BY <1>1, <1>2, <1>3, <2>1, <2>2, <2>3, TurnMoved
<1>5. CASE ~RespFails(r)
  <2>1. UNCHANGED fin
    BY <1>5 DEF Respond, RespClaim, RespCheck, RespWrite, RespSent, RespComplete
  <2>2. FlightInv'
    BY <1>1, <1>3, <2>1 DEF TurnInv, FlightInv, Clear, OneTurn, GivenUp, Natural
  <2>3. NaturalInv' /\ UnnaturalInv' /\ VerdictInv'
    BY <1>1, <2>1 DEF TurnInv, NaturalInv, Natural, Clear, UnnaturalInv, VerdictInv, TurnCompleted
  <2> QED BY <2>2, <2>3 DEF TurnInv
<1> QED BY <1>4, <1>5

(* request_stop_internal keeps the request in progress. *)
LEMMA StopKeeps ==
  ASSUME LaneInv, RequestStop, NEW f
  PROVE  CmdKept(f)
<1>1. TableTypes /\ RequestInv /\ cmd \in Cmds
  BY DEF LaneInv, TableTypes
<1>2. cmd'.at = cmd.at /\ (cmd.at \in Busy => Head(cmd'.todo) = Head(cmd.todo))
  BY <1>1, StopCmd DEF CmdStep, RequestInv, Busy
<1>3. cmd'.since = cmd.since /\ cmd'.ended = cmd.ended
  BY <1>1 DEF RequestStop, Cmds
<1> QED BY <1>2, <1>3 DEF CmdKept

(* The decisions to finish: the turn that completes has nothing behind it. *)
LEMMA TurnDecide ==
  ASSUME TurnInv, LaneInv, OwnerInv, FinInv, Decide \/ Cancel \/ \E reason \in IdleTimeouts : SeeTimeout(reason)
  PROVE  TurnInv'
<1>0. /\ fin \in [Threads -> Fins] /\ OwnerTypes /\ cmd \in Cmds /\ "task" \in Threads /\ "cancel" \in Threads
      /\ None # "completed" /\ "completed" \notin Terminals
  BY FinNames DEF FinInv, OwnerInv, LaneInv, TableTypes, None, Terminals, Orderly
<1>1. UNCHANGED <<tracker, owner, terminal, verdict, sends, wire, raw, inbox>>
  BY DEF Decide, Cancel, StartFailed, DeliveryFailed, SeeBoundary, SeeTerminal, SeeSinkError, SeeViolation,
         SeeTimeout, CancelTask, LockTimeout, stopFrame, ownerVars, pumpVars, driverVars
<1>2. CASE SeeViolation \/ \E reason : SeeTimeout(reason)
  <2>1. RequestStop
    BY <1>2 DEF SeeViolation, SeeTimeout
  <2>2. cmd'.ended = cmd.ended
    BY <2>1, StopKeeps DEF CmdKept
  <2>3. FinStep("task", "close", None, "budget") \/ FinStep("task", "close", None, "timeout")
    BY <1>0, <1>2, DecideSteps
  <2> QED BY <1>0, <1>1, <2>2, <2>3, TurnGivenUp
<1>3. CASE StartFailed \/ SeeSinkError \/ SeeTerminal
  <2>1. cmd'.ended = cmd.ended
    BY <1>3 DEF StartFailed, SeeSinkError, SeeTerminal, finFrame
  <2>2. \/ FinStep("task", "begin", None, "start")
        \/ FinStep("task", "begin", None, "sink")
        \/ FinStep("task", "persist", terminal, "exit")
    BY <1>0, <1>3, DecideSteps
  <2>3. terminal # "completed"
    BY <1>0 DEF OwnerTypes
  <2> QED BY <1>0, <1>1, <2>1, <2>2, <2>3, TurnGivenUp
<1>4. CASE DeliveryFailed
  <2>1. cmd'.ended = cmd.ended
    BY <1>0, <1>4, CommandKeeps DEF DeliveryFailed
  <2>2. CASE ~cmd.ended /\ FinStep("task", "begin", "failed", "delivery")
    BY <1>0, <1>1, <2>1, <2>2, TurnGivenUp
  <2>3. CASE cmd.ended /\ UNCHANGED fin
    <3>1. owner = "Terminal"
      BY <2>3 DEF TurnInv, VerdictInv
    <3>2. FlightInv'
      BY <1>1, <3>1 DEF FlightInv
    <3>3. NaturalInv' /\ UnnaturalInv' /\ VerdictInv'
      BY <1>1, <2>1, <2>3 DEF TurnInv, NaturalInv, Natural, Clear, UnnaturalInv, VerdictInv, TurnCompleted
    <3> QED BY <3>2, <3>3 DEF TurnInv
  <2> QED BY <1>0, <1>4, <2>2, <2>3, DecideSteps
<1>5. CASE CancelTask \/ LockTimeout
  <2>1. /\ operation' = operation /\ "cancel" # "task"
        /\ CmdKept("cancel")
    BY <1>5, StopKeeps DEF CancelTask, LockTimeout, stopFrame, finFrame, CmdKept
  <2>2. phase # "PREPARING"
    BY <1>0, <1>5 DEF CancelTask, LockTimeout, LaneInv, BootInv
  <2>3. \/ FinStep("cancel", "close", None, "cancel")
        \/ FinStep("cancel", "failClosed", fin["cancel"].with, fin["cancel"].why)
    BY <1>0, <1>5, DecideSteps
  <2> QED BY <1>0, <1>1, <2>1, <2>2, <2>3, TurnMoved
<1>6. CASE SeeBoundary
  <2>1. /\ fin["task"].at = "idle" /\ operation = {} /\ phase # "PREPARING" /\ UNCHANGED cmd /\ ~tracker.active
        /\ tracker.boundary \in {"completed", "failed"}
        /\ FinStep("task", "begin", tracker.boundary, "boundary")
    BY <1>0, <1>6, FinNames, RecordIsStep DEF SeeBoundary, TaskIdle, finFrame, Begin
  <2>2. CASE tracker.boundary = "failed"
    BY <1>1, <2>1, <2>2, TurnGivenUp
  <2>3. CASE tracker.boundary = "completed"
    <3>1. cmd.at \in {"wait", "turn"} => Head(cmd.todo) # "send"
      <4>1. cmd.at \in {"wait", "turn"} => cmd.todo = <<"stop">>
        BY <2>1 DEF LaneInv, RequestInv, Busy
      <4> QED BY <4>1
    <3>2. owner # "Terminal" => Clear /\ (cmd.at = "write" => tracker.generation = cmd.since)
      BY <2>1, <3>1 DEF TurnInv, FlightInv, GivenUp
    <3>3. Clear' = Clear /\ TurnCompleted'
      BY <1>1, <2>1, <2>3 DEF Clear, TurnCompleted
    <3>4. FlightInv'
      BY <1>1, <2>1, <3>2, <3>3 DEF FlightInv
    <3>5. NaturalInv'
      BY <1>1, <2>1, <3>2, <3>3 DEF NaturalInv, FinStep
    <3>6. UnnaturalInv'
      BY <2>1 DEF TurnInv, UnnaturalInv, FinStep
    <3>7. VerdictInv'
      BY <1>1, <2>1 DEF TurnInv, VerdictInv, TurnCompleted
    <3> QED BY <3>4, <3>5, <3>6, <3>7 DEF TurnInv
  <2> QED BY <2>1, <2>2, <2>3
<1> QED BY <1>2, <1>3, <1>4, <1>5, <1>6 DEF Decide, Cancel

(* The threads that finish the process. *)
LEMMA TurnFinish ==
  ASSUME TurnInv, LaneInv, OwnerInv, FinInv, OwnerInv', NEW f \in Threads, Finish(f)
  PROVE  TurnInv'
<1>0. /\ fin \in [Threads -> Fins] /\ OwnerTypes /\ cmd \in Cmds /\ BootInv /\ LockInv /\ RequestInv
      /\ None # "completed" /\ "completed" \notin Terminals /\ "completed" \notin Results
  BY FinNames DEF FinInv, OwnerInv, LaneInv, TableTypes, None, Terminals, Orderly, Results
<1>1. /\ UNCHANGED <<tracker, wire, raw, inbox, verdict>> /\ sends' \in {sends, 0}
  BY DEF Finish, CloseAndWait, Lock, FailClosed, Cooperate, Cooperated, FinishProcess, BeginStopping, Reap,
         AwaitBoundary, Publish, Finalize, Persist, stopFrame, finFrame, driverVars, pumpVars
<1>2. fin[f].at \notin {"starting", "idle"}
  BY DEF Finish, CloseAndWait, Lock, FailClosed, Cooperate, Cooperated, FinishProcess, BeginStopping, Reap,
         AwaitBoundary, Publish, Finalize, Persist
<1>3. f # "task" => phase # "PREPARING"
  BY <1>0, <1>2 DEF BootInv
<1>4. f # "task" /\ operation = {"task"} => operation' = {"task"}
  BY DEF Finish, CloseAndWait, Lock, FailClosed, Cooperate, Cooperated, FinishProcess, BeginStopping, Reap,
         AwaitBoundary, Publish, Finalize, Persist, stopFrame
<1>5. CmdKept(f)
  <2>1. CASE FailClosed(f)
    BY <2>1, StopKeeps DEF FailClosed
  <2>2. CASE Cooperate(f)
    <3>1. fin[f].at = "cooperate" /\ operation = {f} /\ phase # "PREPARING"
      BY <1>0, <2>2 DEF Cooperate, LockInv, BootInv, Finishing
    <3>2. ~Cooperating
      BY <1>0, <3>1 DEF Cooperating, LockInv
    <3>3. cmd.todo \in Seq({"create", "send"})
      BY <1>0, <3>2 DEF RequestInv
    <3>4. cmd.todo # <<"stop">>
      <4>1. ASSUME cmd.todo = <<"stop">>
            PROVE  FALSE
        <5>1. Head(cmd.todo) = "stop" /\ Head(cmd.todo) \in {"create", "send"}
          BY <3>3, <4>1
        <5> QED BY <5>1
      <4> QED BY <4>1
    <3>5. cmd.at \notin Busy
      BY <1>0, <3>1, <3>4 DEF RequestInv
    <3>6. CASE UNCHANGED cmd
      BY <3>6 DEF CmdKept
    <3>7. CASE cmd' = [cmd EXCEPT !.at = "next", !.todo = <<"stop">>]
      <4>1. cmd'.at = "next" /\ cmd'.ended = cmd.ended
        BY <1>0, <3>7 DEF Cmds
      <4> QED BY <3>1, <3>5, <4>1 DEF CmdKept
    <3> QED BY <2>2, <3>6, <3>7 DEF Cooperate
  <2>3. CASE ~FailClosed(f) /\ ~Cooperate(f)
    <3>1. UNCHANGED cmd
      BY <2>3 DEF Finish, CloseAndWait, Lock, Cooperated, FinishProcess, BeginStopping, Reap,
                  AwaitBoundary, Publish, Finalize, Persist, finFrame
    <3> QED BY <3>1 DEF CmdKept
  <2> QED BY <2>1, <2>2, <2>3
<1>6. owner = "Terminal" => owner' = "Terminal"
  BY DEF Finish, CloseAndWait, Lock, FailClosed, Cooperate, Cooperated, FinishProcess, BeginStopping, Reap,
         AwaitBoundary, Publish, PublishTerminal, Finalize, Persist, stopFrame, ownerVars
<1>7. terminal' = terminal \/ (terminal' = "Completed" => TurnCompleted)
  <2>1. CASE Publish(f)
    <3>1. fin[f].at = "publish" /\ (terminal' = terminal \/ (owner # "Terminal" /\ terminal' = fin[f].with))
      BY <2>1 DEF Publish, PublishTerminal
    <3>2. CASE owner # "Terminal" /\ fin[f].with = "Completed"
      <4>1. f = "task"
        BY <3>1, <3>2 DEF TurnInv, UnnaturalInv
      <4>2. Natural
        BY <3>1, <3>2, <4>1 DEF Natural
      <4> QED BY <3>2, <4>2 DEF TurnInv, NaturalInv
    <3> QED BY <3>1, <3>2
  <2>2. CASE ~Publish(f)
    BY <2>2 DEF Finish, CloseAndWait, Lock, FailClosed, Cooperate, Cooperated, FinishProcess, BeginStopping, Reap,
                AwaitBoundary, Finalize, Persist, stopFrame, ownerVars
  <2> QED BY <2>1, <2>2
<1> DEFINE Goes(at, with, why) ==
             /\ FinStep(f, at, with, why) /\ at \notin {"starting", "idle"} /\ why \in {fin[f].why, None}
             /\ with = "completed" \/ (at = "publish" /\ with = "Completed") =>
                  fin[f].with = "completed" /\ why = fin[f].why
<1>8. \E at, with, why : Goes(at, with, why)
  <2>1. CASE CloseAndWait(f) \/ FailClosed(f) \/ Cooperated(f) \/ Cooperate(f)
    <3>1. \E at \in {"lock", "begin", "cooperating"} : FinStep(f, at, fin[f].with, fin[f].why)
      BY <1>0, <2>1, FinishSteps
    <3> QED BY <3>1
  <2>2. CASE Lock(f) \/ Finalize(f) \/ Persist(f)
    <3>1. \/ FinStep(f, "done", None, IF f = "cancel" THEN fin[f].why ELSE None)
          \/ FinStep(f, "cooperate", fin[f].with, fin[f].why)
          \/ \E outcome \in Outcomes(f) : FinStep(f, "store", outcome, fin[f].why)
      BY <1>0, <2>2, FinishSteps
    <3>2. Outcomes(f) \subseteq Results
      BY OutcomesAreResults
    <3> QED BY <1>0, <3>1, <3>2
  <2>3. CASE BeginStopping(f)
    <3>1. \/ FinStep(f, "persist", terminal, fin[f].why)
          \/ FinStep(f, "reap", fin[f].with, fin[f].why)
      BY <1>0, <2>3, FinishSteps
    <3>2. terminal # "completed"
      BY <1>0 DEF OwnerTypes
    <3> QED BY <3>1, <3>2
  <2>4. CASE Reap(f)
    <3>1. \/ FinStep(f, "await", fin[f].with, fin[f].why)
          \/ FinStep(f, "publish", "Lost", fin[f].why)
      BY <1>0, <2>4, FinishSteps
    <3> QED BY <3>1
  <2>5. CASE AwaitBoundary(f)
    <3> DEFINE w == CASE boundary -> Finished(fin[f].with)
                      [] ~boundary /\ owner = "Terminal" -> terminal
                      [] OTHER -> "Lost"
    <3>1. w \in Withs /\ w # "completed"
      BY <1>0, FinNames DEF Finished, OwnerTypes, Terminals, Orderly
    <3>2. w = "Completed" => fin[f].with = "completed"
      BY DEF Finished, FinInv, PublishInv, Orderly
    <3>3. fin' = [fin EXCEPT ![f].at = "publish", ![f].with = w]
      BY <2>5 DEF AwaitBoundary
    <3> HIDE DEF w
    <3>4. FinStep(f, "publish", w, fin[f].why)
      BY <1>0, <3>1, <3>3, WithIsStep, FinNames
    <3> QED BY <3>1, <3>2, <3>4
  <2>6. CASE Publish(f)
    <3>1. owner' = "Terminal"
      BY <2>6 DEF Publish, PublishTerminal
    <3>2. terminal' \in Terminals
      BY <3>1 DEF OwnerInv, OwnerTypes
    <3>3. FinStep(f, "persist", terminal', fin[f].why)
      BY <1>0, <2>6, <3>2, FinishSteps
    <3> QED BY <1>0, <3>2, <3>3
  <2> QED BY <2>1, <2>2, <2>3, <2>4, <2>5, <2>6 DEF Finish, FinishProcess
<1>9. PICK at, with, why : Goes(at, with, why)
  BY <1>8
<1>10. None \notin {"boundary", "exit"}
  BY DEF None
<1> QED BY <1>1, <1>2, <1>3, <1>4, <1>5, <1>6, <1>7, <1>9, <1>10, TurnMoved

(* In every state a turn on its way is the one that is waited for, and a   *)
(* terminal that says a turn completed is about the last turn.             *)
LEMMA TurnInvariant == Spec => []TurnInv
<1>1. Init => TurnInv
  <2> SUFFICES ASSUME Init
               PROVE  TurnInv
    OBVIOUS
  <2>1. /\ sends = 0 /\ wire = <<>> /\ raw = <<>> /\ inbox = <<>> /\ terminal = None /\ verdict = None
        /\ cmd = [at |-> "next", todo |-> Script, id |-> 0, since |-> 0, turns |-> 0, ended |-> FALSE]
        /\ fin = [f \in Threads |-> [at |-> IF f = "task" THEN "starting" ELSE "idle", with |-> None, why |-> None]]
    BY DEF Init, DriverInit
  <2>2. \A f \in Threads : fin[f].with = None /\ fin[f].why = None /\ fin[f].at \in {"starting", "idle"}
    BY <2>1
  <2>3. Clear /\ cmd.at = "next" /\ ~cmd.ended
    BY <2>1 DEF Clear, Has
  <2>4. ~Natural
    BY <2>2, FinNames DEF Natural, None
  <2> QED BY <2>1, <2>2, <2>3, <2>4 DEF TurnInv, FlightInv, NaturalInv, UnnaturalInv, VerdictInv, None
<1>2. TurnInv /\ LaneInv /\ StreamInv /\ OwnerInv /\ FinInv /\ OwnerInv' /\ [Next]_vars => TurnInv'
  <2> SUFFICES ASSUME TurnInv, LaneInv, StreamInv, OwnerInv, FinInv, OwnerInv', [Next]_vars
               PROVE  TurnInv'
    OBVIOUS
  <2>1. CASE UNCHANGED vars
    <3>1. UNCHANGED <<fin, cmd, phase, operation, owner, terminal, verdict, tracker, sends, wire, raw, inbox>>
      BY <2>1 DEF vars, driverVars, ownerVars, pumpVars, threadVars
    <3>2. Clear' = Clear /\ OneTurn' = OneTurn /\ TurnCompleted' = TurnCompleted
      BY <3>1 DEF Clear, OneTurn, TurnCompleted
    <3> QED BY <3>1, <3>2, TurnKept DEF TurnInv, VerdictInv
  <2>2. CASE DriverStep
    BY <2>2, TurnDriver
  <2>3. CASE Pump
    BY <2>3, TurnPump
  <2>4. CASE Command
    BY <2>4, TurnCommand
  <2>5. CASE \E r \in Responders : Respond(r)
    BY <2>5, TurnRespond
  <2>6. CASE Decide \/ Cancel \/ \E reason \in IdleTimeouts : SeeTimeout(reason)
    BY <2>6, TurnDecide
  <2>7. CASE \E f \in Threads : Finish(f)
    BY <2>7, TurnFinish
  <2> QED BY <2>1, <2>2, <2>3, <2>4, <2>5, <2>6, <2>7 DEF Next
<1> QED BY <1>1, <1>2, LaneInvariant, StreamInvariant, OwnerInvariant, PTL DEF Spec

(* --------------------------- earned results ---------------------------- *)
\* A thread that is about to store COMPLETED finishes a turn that completed, with its
\* text there and all of its events stored.
StoreInv ==
  \A f \in Threads :
    fin[f].at = "store" /\ fin[f].with = "COMPLETED" =>
      /\ f = "task" /\ fin[f].why \in {"boundary", "exit"}
      /\ phase = "TERMINAL" \/ (~sink.failed /\ sink.activity.text # <<>> /\ terminal = "Completed")
ProcShape == proc = [alive |-> proc.alive, exit |-> proc.exit, orphan |-> proc.orphan]
EarnInv ==
  /\ ProcShape /\ (monitor = "done" => ~proc.alive)
  /\ sink.written => phase = "TERMINAL"
  /\ StoreInv /\ CompletedIsEarned

(* An event that reaches the sink does not make the terminal record written. *)
LEMMA SunkWritten ==
  ASSUME NEW s, IsSink(s), NEW l \in Seq(Records), NEW rows \in [Ids -> RowStates],
         NEW seq \in Nat, NEW item, item \in Items \/ item = TerminalItem
  PROVE  \E s2 : \E l2 \in Seq(Records) : \E rows2 \in [Ids -> RowStates] :
            /\ Sunk(Tables(s, l, rows), seq, item) = Tables(s2, l2, rows2)
            /\ IsSink(s2) /\ s2.written = s.written
<1>1. PICK s2, l2, rows2 :
            /\ Sunk(Tables(s, l, rows), seq, item) = Tables(s2, l2, rows2)
            /\ IsSink(s2) /\ s2.written = s.written
            /\ \/ l2 = l /\ s2.last \in {s.last, seq}
               \/ /\ phase # "TERMINAL" /\ item \in Items /\ s2.last = seq
                  /\ l2 = Append(l, [seq |-> seq, type |-> Projected(item)])
            /\ \/ s2.pendingTerminal = s.pendingTerminal
               \/ item = TerminalItem /\ s2.pendingTerminal = seq
            /\ \/ rows2 = rows
               \/ /\ item \in Items /\ item.k = "permission" /\ phase = "RUNNING" /\ rows[item.v] = None
                  /\ rows2 = [rows EXCEPT ![item.v] = "pending"]
  BY SunkEffect
<1>2. l2 \in Seq(Records)
  <2>1. item \in Items => [seq |-> seq, type |-> Projected(item)] \in Records
    BY ProjectedTypes DEF Records
  <2> DEFINE record == [seq |-> seq, type |-> Projected(item)]
  <2> HIDE DEF record
  <2>2. record \in Records => Append(l, record) \in Seq(Records)
    OBVIOUS
  <2> QED BY <1>1, <2>1, <2>2 DEF record
<1>3. rows2 \in [Ids -> RowStates]
  BY <1>1 DEF RowStates, Items
<1> QED BY <1>1, <1>2, <1>3

(* Once a terminal is published, publishing changes nothing. *)
LEMMA PublishedStays ==
  ASSUME OwnerTypes, NEW t, PublishTerminal(t)
  PROVE  /\ owner = "Terminal" => UNCHANGED <<owner, terminal, sink, log>>
         /\ sink'.written = sink.written
<1>1. owner = "Terminal" => UNCHANGED <<owner, terminal, sink, log>>
  BY DEF PublishTerminal, sinkVars
<1>2. owner # "Terminal" => sink'.written = sink.written
  <2> SUFFICES ASSUME owner # "Terminal"
               PROVE  sink'.written = sink.written
    OBVIOUS
  <2>1. Sink(Sunk(Tables(sink, log, requests), sequence, TerminalItem))
    BY DEF PublishTerminal, Stored
  <2>2. IsSink(sink) /\ log \in Seq(Records) /\ requests \in [Ids -> RowStates] /\ sequence \in Nat
    BY DEF OwnerTypes
  <2>3. PICK s2, l2, rows2 : /\ Sunk(Tables(sink, log, requests), sequence, TerminalItem) = Tables(s2, l2, rows2)
                             /\ s2.written = sink.written
    BY <2>2, SunkWritten
  <2> QED BY <2>1, <2>3, SinkTables
<1> QED BY <1>1, <1>2

(* Nor does the pump. *)
LEMMA EmittedStays ==
  ASSUME OwnerTypes, held \in Items, EmitDriver(held)
  PROVE  /\ owner = "Terminal" => UNCHANGED <<owner, terminal, sink, log>>
         /\ sink'.written = sink.written
<1>1. owner = "Terminal" => UNCHANGED <<owner, terminal, sink, log>>
  BY DEF EmitDriver, ownerVars, sinkVars
<1>2. owner # "Terminal" => sink'.written = sink.written
  <2> SUFFICES ASSUME owner # "Terminal"
               PROVE  sink'.written = sink.written
    OBVIOUS
  <2> DEFINE e == Sunk(Tables(sink, log, requests), sequence, held)
             n == sequence + 1
  <2>1. Sink(e) \/ Sink(Sunk(e, n, TerminalItem))
    BY DEF EmitDriver, Stored
  <2>t. IsSink(sink) /\ log \in Seq(Records) /\ requests \in [Ids -> RowStates] /\ sequence \in Nat
    BY DEF OwnerTypes
  <2>2. PICK s2, l2, rows2 : /\ l2 \in Seq(Records) /\ rows2 \in [Ids -> RowStates]
                             /\ e = Tables(s2, l2, rows2) /\ IsSink(s2) /\ s2.written = sink.written
    BY <2>t, SunkWritten
  <2>3. n \in Nat
    BY DEF OwnerTypes
  <2> HIDE DEF n, e
  <2>4. PICK s3, l3, rows3 : Sunk(e, n, TerminalItem) = Tables(s3, l3, rows3) /\ s3.written = s2.written
    BY <2>2, <2>3, SunkWritten
  <2> QED BY <2>1, <2>2, <2>4, SinkTables
<1> QED BY <1>1, <1>2

(* Steps that store no result: what was earned stays.                      *)
LEMMA EarnKept ==
  ASSUME EarnInv, TurnInv', OwnerInv, FinInv, UNCHANGED result,
         ProcShape', ~proc.alive => ~proc'.alive, monitor' = "done" => monitor = "done" \/ ~proc'.alive,
         owner = "Terminal" => UNCHANGED <<owner, terminal, sink, log>>,
         sink'.written = sink.written, phase = "TERMINAL" => phase' = "TERMINAL",
         \A f \in Threads :
           fin'[f].at = "store" /\ fin'[f].with = "COMPLETED" =>
             \/ fin'[f] = fin[f]
             \/ /\ f = "task" /\ fin'[f].why \in {"boundary", "exit"}
                /\ ~sink'.failed /\ sink'.activity.text # <<>> /\ terminal' = "Completed",
         fin'["cancel"].why = "cancel" => fin["cancel"].why = "cancel" \/ phase # "TERMINAL"
  PROVE  EarnInv'
<1>1. (monitor = "done" => ~proc.alive)' /\ (sink.written => phase = "TERMINAL")'
  BY DEF EarnInv
<1>2. StoreInv'
  <2>1. ASSUME NEW f \in Threads, fin'[f].at = "store", fin'[f].with = "COMPLETED", fin'[f] = fin[f]
        PROVE  /\ f = "task" /\ fin'[f].why \in {"boundary", "exit"}
               /\ phase' = "TERMINAL" \/ (~sink'.failed /\ sink'.activity.text # <<>> /\ terminal' = "Completed")
    <3>1. owner = "Terminal"
      BY <2>1 DEF FinInv, PublishInv, GoodFin
    <3> QED BY <2>1, <3>1 DEF EarnInv, StoreInv
  <2> QED BY <2>1 DEF StoreInv
<1>3. CompletedIsEarned'
  <2> SUFFICES ASSUME result = "COMPLETED"
               PROVE  /\ terminal' = "Completed" /\ ~proc'.alive
                      /\ ~tracker'.active /\ tracker'.boundary = "completed"
                      /\ ~sink'.failed /\ sink'.activity.text # <<>> /\ ~StopRequested'
                      /\ \E i \in DOMAIN log' : log'[i].type = "runtime.completed"
    BY DEF CompletedIsEarned
  <2>1. /\ terminal = "Completed" /\ ~proc.alive /\ ~sink.failed /\ sink.activity.text # <<>> /\ ~StopRequested
        /\ \E i \in DOMAIN log : log[i].type = "runtime.completed"
    BY DEF EarnInv, CompletedIsEarned
  <2>2. phase = "TERMINAL" /\ owner = "Terminal"
    BY <2>1, FinNames DEF OwnerInv, OwnerTypes, None
  <2>3. ~StopRequested'
    BY <2>1, <2>2 DEF StopRequested
  <2>4. TurnCompleted'
    BY <2>1, <2>2 DEF TurnInv, VerdictInv
  <2> QED BY <2>1, <2>2, <2>3, <2>4 DEF TurnCompleted
<1> QED BY <1>1, <1>2, <1>3 DEF EarnInv

(* What the outcome COMPLETED takes. *)
LEMMA CompletedOutcome ==
  ASSUME NEW f \in Threads, "COMPLETED" \in Outcomes(f)
  PROVE  /\ fin[f].why \in {"boundary", "exit"} /\ fin[f].with = "Completed"
         /\ ~sink.failed /\ sink.activity.text # <<>>
<1>1. ForcedOutcome(f) # "COMPLETED"
  BY DEF ForcedOutcome, TerminalOutcome
<1>2. "COMPLETED" \in NaturalOutcomes => sink.activity.text # <<>>
  BY DEF NaturalOutcomes, TakeTerminalText
<1>3. /\ fin[f].why \in {"boundary", "exit"} /\ fin[f].with = "Completed" /\ ~sink.failed
      /\ "COMPLETED" \in NaturalOutcomes
  BY <1>1 DEF Outcomes
<1> QED BY <1>2, <1>3
\* What a step of the threads must leave of the results.
FinQuiet ==
  /\ \A f \in Threads : fin'[f].at = "store" => fin'[f] = fin[f]
  /\ fin'["cancel"].why = "cancel" => fin["cancel"].why = "cancel" \/ phase # "TERMINAL"

(* A step of one thread to anything but the storing of a result. *)
LEMMA StepIsQuiet ==
  ASSUME NEW f \in Threads, NEW at, NEW with, NEW why, FinStep(f, at, with, why), at # "store",
         f = "cancel" => why = fin[f].why \/ phase # "TERMINAL"
  PROVE  FinQuiet
<1> QED BY FinNames DEF FinQuiet, FinStep

(* The app-server, the driver and the pump. *)
LEMMA EarnStream ==
  ASSUME EarnInv, TurnInv', OwnerInv, FinInv, StreamInv, DriverStep \/ Pump
  PROVE  EarnInv'
<1>1. UNCHANGED <<fin, phase, result>>
  BY DEF DriverStep, Pump, PumpTake, PumpCannotAnswer, PumpEmit, restOfOwner, threadVars
<1>2. /\ ProcShape' /\ (~proc.alive => ~proc'.alive)
      /\ monitor' = "done" => monitor = "done" \/ ~proc'.alive
  <2>1. CASE Pump
    <3>1. UNCHANGED <<proc, monitor>>
      BY <2>1 DEF Pump, PumpTake, PumpCannotAnswer, PumpEmit, driverVars
    <3> QED BY <3>1 DEF EarnInv, ProcShape
  <2>2. CASE OrphanDies
    <3>1. proc' = [proc EXCEPT !.orphan = FALSE] /\ monitor' = monitor
      BY <2>2 DEF OrphanDies
    <3>2. proc' = [alive |-> proc.alive, exit |-> proc.exit, orphan |-> FALSE]
      BY <3>1 DEF EarnInv, ProcShape
    <3> QED BY <3>1, <3>2 DEF ProcShape
  <2>3. CASE \E status, orphan : Exit(status, orphan)
    BY <2>3 DEF Exit, ProcShape
  <2>4. CASE Say \/ Read \/ ReadEof \/ MonitorPublishes \/ Dispatch \/ DispatchEnds
    <3>1. UNCHANGED proc /\ (monitor' = monitor \/ ~proc.alive)
      BY <2>4 DEF Say, Read, ReadEof, MonitorPublishes, Dispatch, DispatchEnds
    <3> QED BY <3>1 DEF EarnInv, ProcShape
  <2> QED BY <2>1, <2>2, <2>3, <2>4 DEF DriverStep, DriverThreads, AppServer
<1>3. /\ owner = "Terminal" => UNCHANGED <<owner, terminal, sink, log>>
      /\ sink'.written = sink.written
  <2>1. CASE DriverStep \/ PumpTake
    BY <2>1 DEF DriverStep, PumpTake, restOfOwner, ownerVars, sinkVars
  <2>2. CASE PumpCannotAnswer
    BY <2>2, PublishedStays DEF PumpCannotAnswer, OwnerInv
  <2>3. CASE PumpEmit
    BY <2>3, EmittedStays DEF PumpEmit, OwnerInv, StreamInv, StreamTypes
  <2> QED BY <2>1, <2>2, <2>3 DEF Pump
<1> QED BY <1>1, <1>2, <1>3, EarnKept

(* Steps of the threads that neither publish nor store a result. *)
LEMMA EarnQuiet ==
  ASSUME EarnInv, TurnInv', OwnerInv, FinInv, FinQuiet,
         UNCHANGED <<proc, monitor, terminal, sink, log, result>>, owner = "Terminal" => owner' = owner,
         phase = "TERMINAL" => phase' = "TERMINAL"
  PROVE  EarnInv'
<1>1. ProcShape'
  BY DEF EarnInv, ProcShape
<1>2. monitor' = "done" => monitor = "done" \/ ~proc'.alive
  OBVIOUS
<1> QED BY <1>1, <1>2, EarnKept DEF FinQuiet

(* Commands, answers and decisions. *)
LEMMA EarnThreads ==
  ASSUME EarnInv, TurnInv', OwnerInv, FinInv,
         \/ Command \/ \E r \in Responders : Respond(r)
         \/ Decide \/ Cancel \/ \E reason \in IdleTimeouts : SeeTimeout(reason)
  PROVE  EarnInv'
<1>0. fin \in [Threads -> Fins] /\ OwnerTypes /\ "task" \in Threads /\ "cancel" \in Threads
  BY FinNames DEF FinInv, OwnerInv
<1>1. CASE Command
  <2>1. UNCHANGED <<proc, monitor, owner, terminal, sink, log, result>> /\ (phase = "TERMINAL" => phase' = "TERMINAL")
    BY <1>1 DEF Command, CmdBegin, CmdWrite, CmdReply, CmdTurn, CmdTimeout, MarkRunning, Recheck, BeginRequest,
                RemoveEntry, restOfOwner, ownerVars, sinkVars, others, threadVars, driverVars, streamVars
  <2>2. CASE Recheck
    <3>1. \E at \in {"idle", "failClosed"} : \E with, why : FinStep("task", at, with, why)
      BY <2>2, FinNames, MoveIsStep, RecordIsStep DEF Recheck, Move, FinInv
    <3> QED BY <1>0, <2>1, <3>1, StepIsQuiet, EarnQuiet
  <2>3. CASE ~Recheck
    <3>1. UNCHANGED fin
      BY <1>1, <2>3 DEF Command, CmdBegin, CmdWrite, CmdReply, CmdTurn, CmdTimeout, MarkRunning, others, threadVars
    <3>2. FinQuiet
      BY <3>1 DEF FinQuiet
    <3> QED BY <2>1, <3>2, EarnQuiet
  <2> QED BY <2>2, <2>3
<1>2. CASE \E r \in Responders : Respond(r)
  <2>1. PICK r \in Responders : Respond(r)
    BY <1>2
  <2>2. UNCHANGED <<proc, monitor, owner, terminal, sink, log, result, phase>>
    BY <2>1 DEF Respond, RespClaim, RespCheck, RespWrite, RespSent, RespComplete, RespFails, respFrame, driverVars,
                ownerVars
  <2>3. FinQuiet
    <3>1. CASE RespFails(r)
      <4>1. FinStep(r, "failClosed", None, "control")
        BY <3>1, FinNames, RecordIsStep DEF RespFails, FinInv
      <4>2. r # "cancel" /\ r \in Threads
        BY ResponderNames, FinNames
      <4> QED BY <4>1, <4>2, StepIsQuiet
    <3>2. CASE ~RespFails(r)
      <4>1. UNCHANGED fin
        BY <2>1, <3>2 DEF Respond, RespClaim, RespCheck, RespWrite, RespSent, RespComplete
      <4> QED BY <4>1 DEF FinQuiet
    <3> QED BY <3>1, <3>2
  <2> QED BY <2>2, <2>3, EarnQuiet
<1>3. CASE Decide \/ Cancel \/ \E reason \in IdleTimeouts : SeeTimeout(reason)
  <2>1. UNCHANGED <<proc, monitor, owner, terminal, sink, log, result>>
    BY <1>3 DEF Decide, Cancel, StartFailed, DeliveryFailed, SeeBoundary, SeeTerminal, SeeSinkError, SeeViolation,
         SeeTimeout, CancelTask, LockTimeout, stopFrame, finFrame, ownerVars, sinkVars, driverVars
  <2>2. phase = "TERMINAL" => phase' = "TERMINAL"
    BY <1>3 DEF Decide, Cancel, StartFailed, DeliveryFailed, SeeBoundary, SeeTerminal, SeeSinkError, SeeViolation,
         SeeTimeout, CancelTask, LockTimeout, RequestStop
  <2>3. FinQuiet
    <3>1. CASE CancelTask
      <4>1. phase # "TERMINAL"
        BY <3>1 DEF CancelTask
      <4> QED BY <1>0, <3>1, <4>1, DecideSteps, StepIsQuiet
    <3>2. CASE LockTimeout
      BY <1>0, <3>2, DecideSteps, StepIsQuiet
    <3>3. CASE Decide \/ \E reason : SeeTimeout(reason)
      <4>1. \/ UNCHANGED fin
            \/ \E at \in {"begin", "persist", "close"} : \E with, why : FinStep("task", at, with, why)
        BY <1>0, <3>3, DecideSteps DEF Decide
      <4>2. UNCHANGED fin => FinQuiet
        BY DEF FinQuiet
      <4> QED BY <1>0, <4>1, <4>2, StepIsQuiet
    <3> QED BY <1>3, <3>1, <3>2, <3>3 DEF Cancel
  <2> QED BY <2>1, <2>2, <2>3, EarnQuiet
<1> QED BY <1>1, <1>2, <1>3

(* The terminal record is appended to the log of a row that is not terminal. *)
LEMMA TerminalRecorded ==
  ASSUME OwnerTypes, LogInv, phase # "TERMINAL"
  PROVE  \E n \in Nat : TerminalRecord(Stored) = Tables(sink, Append(log, [seq |-> n, type |-> TerminalType[terminal]]), requests)
<1> DEFINE n == IF sink.pendingTerminal > 0 THEN sink.pendingTerminal ELSE sink.last + 1
<1>1. n \in Nat /\ Below(log, n)
  BY DEF OwnerTypes, IsSink, LogInv
<1>2. ~ \E i \in DOMAIN log : log[i].seq = n
  <2>1. \A i \in DOMAIN log : log[i].seq \in Nat
    BY RecordNumbers DEF OwnerTypes
  <2> QED BY <1>1, <2>1 DEF Below
<1>3. TerminalRecord(Stored) = AppendLifecycle(Tables(sink, log, requests), n, TerminalType[terminal])
  BY TablesParts DEF TerminalRecord, Stored
<1> HIDE DEF n
<1>4. AppendLifecycle(Tables(sink, log, requests), n, TerminalType[terminal])
        = Tables(sink, Append(log, [seq |-> n, type |-> TerminalType[terminal]]), requests)
  BY <1>2, AppendNew
<1> QED BY <1>1, <1>3, <1>4

(* What storing the result does to the sink and to the log. *)
LEMMA PersistSink ==
  ASSUME OwnerTypes, LogInv, NEW f \in Threads, Persist(f)
  PROVE  /\ sink'.failed = sink.failed /\ sink'.activity = sink.activity
         /\ phase = "TERMINAL" => log' = log
         /\ phase # "TERMINAL" /\ ~sink.failed /\ ~sink.written /\ fin[f].why # "start" =>
              \E n \in Nat : log' = Append(log, [seq |-> n, type |-> TerminalType[terminal]])
<1> DEFINE writes == ~sink.failed /\ ~sink.written /\ fin[f].why # "start" /\ phase # "TERMINAL"
           recorded == IF writes THEN TerminalRecord(Stored) ELSE Stored
           rows == [q \in Ids |-> IF q \in OpenRequests THEN None ELSE requests[q]]
           closed == [recorded.sink EXCEPT !.written = recorded.sink.written \/ writes]
<1>1. Sink(Tables(closed, recorded.log, rows))
  BY DEF Persist
<1>2. writes \in BOOLEAN /\ IsSink(sink)
  BY DEF OwnerTypes
<1>3. ~writes => recorded.sink = sink /\ recorded.log = log
  BY TablesParts DEF Stored
<1>4. ASSUME writes
      PROVE  recorded.sink = sink /\ \E n \in Nat : recorded.log = Append(log, [seq |-> n, type |-> TerminalType[terminal]])
  <2>1. PICK n \in Nat : recorded = Tables(sink, Append(log, [seq |-> n, type |-> TerminalType[terminal]]), requests)
    BY <1>4, TerminalRecorded
  <2> DEFINE longer == Append(log, [seq |-> n, type |-> TerminalType[terminal]])
  <2>2. recorded = Tables(sink, longer, requests)
    BY <2>1
  <2> HIDE DEF longer, recorded
  <2>3. recorded.sink = sink /\ recorded.log = longer
    BY <2>2, TablesParts
  <2> QED BY <2>3 DEF longer
<1>5. writes = (~sink.failed /\ ~sink.written /\ fin[f].why # "start" /\ phase # "TERMINAL")
  OBVIOUS
<1> HIDE DEF writes, recorded, rows
<1>6. recorded.sink = sink
  BY <1>3, <1>4
<1>7. closed.failed = sink.failed /\ closed.activity = sink.activity
  BY <1>2, <1>6 DEF IsSink, SinkFields
<1> HIDE DEF closed
<1>8. sink' = closed /\ log' = recorded.log
  BY <1>1, SinkTables
<1> QED BY <1>3, <1>4, <1>5, <1>7, <1>8

(* Storing the result: COMPLETED is stored only when it was earned. *)
LEMMA EarnPersist ==
  ASSUME EarnInv, TurnInv', TurnInv, OwnerInv, FinInv, StreamInv, NEW f \in Threads, Persist(f)
  PROVE  EarnInv'
<1>0. /\ fin \in [Threads -> Fins] /\ OwnerTypes /\ LogInv
  BY DEF FinInv, OwnerInv
<1>1. /\ fin[f].at = "store" /\ phase' = "TERMINAL" /\ UNCHANGED <<proc, monitor, owner, terminal, tracker>>
      /\ result' = CASE phase = "TERMINAL" -> result
                     [] phase # "TERMINAL" /\ StopRequested -> "CANCELLED"
                     [] OTHER -> fin[f].with
  BY DEF Persist, driverVars, ownerVars
<1>2. FinStep(f, "done", None, IF f = "cancel" THEN fin[f].why ELSE None)
  BY <1>0, FinishSteps
<1>3. /\ sink'.failed = sink.failed /\ sink'.activity = sink.activity
      /\ phase = "TERMINAL" => log' = log
      /\ phase # "TERMINAL" /\ ~sink.failed /\ ~sink.written /\ fin[f].why # "start" =>
           \E n \in Nat : log' = Append(log, [seq |-> n, type |-> TerminalType[terminal]])
  BY <1>0, PersistSink
<1>4. ProcShape' /\ (monitor = "done" => ~proc.alive)' /\ (sink.written => phase = "TERMINAL")'
  BY <1>1 DEF EarnInv, ProcShape
<1>5. StoreInv'
  BY <1>1, <1>2 DEF EarnInv, StoreInv, FinStep
<1>6. StopRequested' = StopRequested
  BY <1>2, FinNames DEF StopRequested, FinStep, None
<1>7. CompletedIsEarned'
  <2>1. CASE result = "COMPLETED"
    <3>1. phase = "TERMINAL"
      BY <1>0, <2>1, FinNames DEF OwnerTypes, None
    <3> QED BY <1>1, <1>3, <1>6, <2>1, <3>1 DEF EarnInv, CompletedIsEarned
  <2>2. CASE result # "COMPLETED" /\ result' = "COMPLETED"
    <3>1. phase # "TERMINAL" /\ ~StopRequested /\ fin[f].with = "COMPLETED"
      BY <1>1, <2>2
    <3>2. /\ fin[f].why # "start" /\ ~sink.failed /\ ~sink.written /\ sink.activity.text # <<>>
          /\ terminal = "Completed"
      BY <1>1, <3>1 DEF EarnInv, StoreInv
    <3>3. ~proc.alive
      <4>1. boundary
        BY <3>2 DEF FinInv, PublishInv, Orderly
      <4>2. monitor = "done"
        BY <4>1 DEF StreamInv, StreamTypes, QueueInv
      <4> QED BY <4>2 DEF EarnInv
    <3>4. TurnCompleted
      BY <3>2 DEF TurnInv, VerdictInv
    <3>5. PICK n \in Nat : log' = Append(log, [seq |-> n, type |-> "runtime.completed"])
      BY <1>3, <3>1, <3>2 DEF TerminalType
    <3>6. \E i \in DOMAIN log' : log'[i].type = "runtime.completed"
      <4> DEFINE record == [seq |-> n, type |-> "runtime.completed"]
      <4>1. record.type = "runtime.completed" /\ record \in [seq : Nat, type : {"runtime.completed"}]
        OBVIOUS
      <4>2. log \in Seq(Records) /\ log' = Append(log, record)
        BY <1>0, <3>5 DEF OwnerTypes
      <4> HIDE DEF record
      <4>3. Len(log) + 1 \in DOMAIN log' /\ log'[Len(log) + 1] = record
        BY <4>2
      <4> QED BY <4>1, <4>3
    <3> QED BY <1>1, <1>3, <1>6, <3>1, <3>2, <3>3, <3>4, <3>6 DEF CompletedIsEarned, TurnCompleted
  <2> QED BY <2>1, <2>2 DEF CompletedIsEarned
<1> QED BY <1>4, <1>5, <1>7 DEF EarnInv

(* The other steps of the threads that finish the process. *)
LEMMA EarnFinish ==
  ASSUME EarnInv, TurnInv', TurnInv, OwnerInv, OwnerInv', FinInv, StreamInv, NEW f \in Threads, Finish(f)
  PROVE  EarnInv'
<1>0. fin \in [Threads -> Fins] /\ OwnerTypes
  BY DEF FinInv, OwnerInv
<1>1. CASE CloseAndWait(f) \/ Lock(f) \/ FailClosed(f) \/ Cooperate(f) \/ Cooperated(f) \/ BeginStopping(f) \/ AwaitBoundary(f)
  <2>1. UNCHANGED <<proc, monitor, terminal, sink, log, result>> /\ (owner = "Terminal" => owner' = owner)
    BY <1>1 DEF CloseAndWait, Lock, FailClosed, Cooperate, Cooperated, BeginStopping, AwaitBoundary,
                stopFrame, finFrame, driverVars, ownerVars, sinkVars
  <2>2. phase = "TERMINAL" => phase' = "TERMINAL"
    BY <1>1 DEF CloseAndWait, Lock, FailClosed, Cooperate, Cooperated, BeginStopping, AwaitBoundary, RequestStop
  <2>3. FinQuiet
    <3>1. \E at, with, why : FinStep(f, at, with, why) /\ at # "store" /\ (f = "cancel" => why = fin[f].why)
      BY <1>0, <1>1, FinishSteps
    <3> QED BY <3>1, StepIsQuiet
  <2> QED BY <2>1, <2>2, <2>3, EarnQuiet
<1>2. CASE Reap(f)
  <2>1. UNCHANGED <<monitor, owner, terminal, sink, log, result, phase>>
    BY <1>2 DEF Reap, finFrame, ownerVars, sinkVars
  <2>2. ProcShape' /\ (~proc.alive => ~proc'.alive)
    <3>1. CASE UNCHANGED proc
      BY <3>1 DEF EarnInv, ProcShape
    <3>2. CASE proc' = [alive |-> FALSE, exit |-> IF proc.alive THEN "signal" ELSE proc.exit, orphan |-> FALSE]
      BY <3>2 DEF ProcShape
    <3> QED BY <1>2, <3>1, <3>2 DEF Reap
  <2>3. FinQuiet
    BY <1>0, <1>2, FinishSteps, StepIsQuiet
  <2> QED BY <2>1, <2>2, <2>3, EarnKept DEF FinQuiet
<1>3. CASE Publish(f)
  <2>1. UNCHANGED <<proc, monitor, result, phase>> /\ PublishTerminal(fin[f].with)
    BY <1>3 DEF Publish, finFrame, driverVars
  <2>2. /\ owner = "Terminal" => UNCHANGED <<owner, terminal, sink, log>>
        /\ sink'.written = sink.written
    BY <1>0, <2>1, PublishedStays
  <2>3. owner' = "Terminal"
    BY <2>1 DEF PublishTerminal
  <2>4. terminal' \in Terminals
    BY <2>3 DEF OwnerInv, OwnerTypes
  <2>5. FinQuiet
    BY <1>0, <1>3, <2>4, FinishSteps, StepIsQuiet
  <2>6. ProcShape'
    BY <2>1 DEF EarnInv, ProcShape
  <2> QED BY <2>1, <2>2, <2>5, <2>6, EarnKept DEF FinQuiet
<1>4. CASE Finalize(f)
  <2>1. /\ UNCHANGED <<proc, monitor, owner, terminal, sink, log, result, phase>> /\ fin[f].at = "persist"
    BY <1>4 DEF Finalize, finFrame, driverVars, ownerVars, sinkVars
  <2>2. CASE FinStep(f, "done", None, IF f = "cancel" THEN fin[f].why ELSE None)
    BY <2>1, <2>2, StepIsQuiet, EarnQuiet
  <2>3. CASE \E outcome \in Outcomes(f) : FinStep(f, "store", outcome, fin[f].why)
    <3>1. PICK outcome \in Outcomes(f) : FinStep(f, "store", outcome, fin[f].why)
      BY <2>3
    <3>2. fin[f].with = terminal
      BY <2>1 DEF FinInv, PublishInv, GoodFin
    <3>3. outcome = "COMPLETED" => /\ f = "task" /\ fin[f].why \in {"boundary", "exit"}
                                   /\ ~sink.failed /\ sink.activity.text # <<>> /\ terminal = "Completed"
      BY <3>2, CompletedOutcome DEF TurnInv, UnnaturalInv
    <3>4. \A g \in Threads :
           fin'[g].at = "store" /\ fin'[g].with = "COMPLETED" =>
             \/ fin'[g] = fin[g]
             \/ /\ g = "task" /\ fin'[g].why \in {"boundary", "exit"}
                /\ ~sink'.failed /\ sink'.activity.text # <<>> /\ terminal' = "Completed"
      BY <2>1, <3>1, <3>3 DEF FinStep
    <3>5. fin'["cancel"].why = fin["cancel"].why
      BY <3>1, FinNames DEF FinStep
    <3>6. ProcShape'
      BY <2>1 DEF EarnInv, ProcShape
    <3> QED BY <2>1, <3>4, <3>5, <3>6, EarnKept
  <2> QED BY <1>0, <1>4, <2>2, <2>3, FinishSteps
<1>5. CASE Persist(f)
  BY <1>5, EarnPersist
<1> QED BY <1>1, <1>2, <1>3, <1>4, <1>5 DEF Finish, FinishProcess

(* What was earned stays, in every state. *)
LEMMA EarnInvariant == Spec => []EarnInv
<1>1. Init => EarnInv
  <2> SUFFICES ASSUME Init
               PROVE  EarnInv
    OBVIOUS
  <2>1. /\ proc = [alive |-> TRUE, exit |-> "none", orphan |-> FALSE] /\ monitor = "polling" /\ result = None
        /\ sink = [failed |-> FALSE, last |-> 0, pendingTerminal |-> 0, written |-> FALSE,
                   turns |-> {}, tools |-> {}, violation |-> None, activity |-> NoActivity]
        /\ fin = [f \in Threads |-> [at |-> IF f = "task" THEN "starting" ELSE "idle", with |-> None, why |-> None]]
    BY DEF Init, DriverInit
  <2>2. ProcShape /\ monitor # "done" /\ ~sink.written /\ CompletedIsEarned
    BY <2>1 DEF ProcShape, CompletedIsEarned, None
  <2>3. StoreInv
    BY <2>1 DEF StoreInv
  <2> QED BY <2>2, <2>3 DEF EarnInv
<1>2. EarnInv /\ TurnInv /\ TurnInv' /\ StreamInv /\ OwnerInv /\ FinInv /\ OwnerInv' /\ [Next]_vars => EarnInv'
  <2> SUFFICES ASSUME EarnInv, TurnInv, TurnInv', StreamInv, OwnerInv, FinInv, OwnerInv', [Next]_vars
               PROVE  EarnInv'
    OBVIOUS
  <2>1. CASE UNCHANGED vars
    <3>1. UNCHANGED <<fin, phase, owner, terminal, proc, monitor, sink, log, result>>
      BY <2>1 DEF vars, driverVars, ownerVars, sinkVars, threadVars
    <3>2. FinQuiet
      BY <3>1 DEF FinQuiet
    <3> QED BY <3>1, <3>2, EarnQuiet
  <2>2. CASE DriverStep \/ Pump
    BY <2>2, EarnStream
  <2>3. CASE \/ Command \/ \E r \in Responders : Respond(r)
             \/ Decide \/ Cancel \/ \E reason \in IdleTimeouts : SeeTimeout(reason)
    BY <2>3, EarnThreads
  <2>4. CASE \E f \in Threads : Finish(f)
    BY <2>4, EarnFinish
  <2> QED BY <2>1, <2>2, <2>3, <2>4 DEF Next
<1> QED BY <1>1, <1>2, TurnInvariant, StreamInvariant, OwnerInvariant, PTL DEF Spec

(* A result COMPLETED is earned, whatever stops, fails or answers race with *)
(* the end of the turn: the process is dead, the last turn completed, its  *)
(* events and its text are there, and no stop was requested before.        *)
THEOREM CompletedOnlyWhenEarned == Spec => []CompletedIsEarned
<1>1. EarnInv => CompletedIsEarned
  BY DEF EarnInv
<1> QED BY <1>1, EarnInvariant, PTL

(* ------------------------------- the text ------------------------------ *)
\* What a conversation, or the part of it that was said, says as text and as reasoning.
Chunks(c) == {c[i].v : i \in {j \in DOMAIN c : c[j].k = "text"}}
Thoughts(c) == {c[i].v : i \in {j \in DOMAIN c : c[j].k = "reasoning"}}

Sources == {"session", "telemetry"}
Samples(ids) == [identity : ids, source : Sources]
OneEach(samples) == \A i, j \in DOMAIN samples : samples[i].identity = samples[j].identity => i = j

\* The session reported the chunk v, and the text has it or was dropped.
Sampled(a, v) == \E i \in DOMAIN a.samples : a.samples[i] = [identity |-> <<"stream", v>>, source |-> "session"]
Kept(a, v) == a.oversized \/ \E i \in DOMAIN a.text : a.text[i] = v

ActivityFields == {"seen", "degraded", "samples", "models", "tools", "text", "oversized"}

\* The activity of a conversation with these identities, chunks and thoughts: each chunk is
\* in the text once, by its session sample, and the text was dropped only if it is long.
Heard(a, ids, chunks, thoughts) ==
  /\ a = [x \in ActivityFields |-> a[x]]
  /\ a.samples \in Seq(Samples(ids)) /\ OneEach(a.samples)
  /\ a.text \in Seq(chunks)
  /\ \A i, j \in DOMAIN a.text : a.text[i] = a.text[j] => i = j
  /\ \A i \in DOMAIN a.text : Sampled(a, a.text[i])
  /\ \A v \in Nat : Sampled(a, v) => Kept(a, v) \/ v \in thoughts
  /\ a.oversized => Cardinality(chunks) > TextLimit

(* A sequence without repetitions is no longer than its set is large. *)
LEMMA DistinctBound ==
  ASSUME NEW T, IsFiniteSet(T), NEW s \in Seq(T), \A i, j \in DOMAIN s : s[i] = s[j] => i = j
  PROVE  Len(s) <= Cardinality(T)
<1>1. s \in Injection(1..Len(s), T)
  BY DEF Injection, IsInjective
<1>2. Len(s) \in Nat /\ 1 \in Int
  OBVIOUS
<1>3. Cardinality(1..Len(s)) = IF 1 > Len(s) THEN 0 ELSE Len(s) - 1 + 1
  BY <1>2, FS_Interval
<1>4. Cardinality(1..Len(s)) <= Cardinality(T)
  BY <1>1, FS_Injection
<1> QED BY <1>2, <1>3, <1>4

(* So the identities of the samples bound their number. *)
LEMMA SampleBound ==
  ASSUME NEW ids, IsFiniteSet(ids), NEW samples \in Seq(Samples(ids)), OneEach(samples)
  PROVE  Len(samples) <= Cardinality(ids)
<1> DEFINE s == [i \in 1..Len(samples) |-> samples[i].identity]
<1>0. \A i \in 1..Len(samples) : samples[i] \in Samples(ids)
  OBVIOUS
<1>1. \A i \in 1..Len(samples) : samples[i].identity \in ids
  BY <1>0 DEF Samples
<1>2. s \in Seq(ids) /\ Len(s) = Len(samples) /\ DOMAIN s = DOMAIN samples
  BY <1>1
<1>3. \A i, j \in DOMAIN s : s[i] = s[j] => i = j
  BY <1>2 DEF OneEach
<1> HIDE DEF s
<1> QED BY <1>2, <1>3, DistinctBound

\* What AddSample makes of samples that do not outgrow the limit.
Added(samples, sample) ==
  IF \E i \in DOMAIN samples : samples[i].identity = sample.identity
  THEN [i \in DOMAIN samples |-> IF samples[i].identity = sample.identity THEN sample ELSE samples[i]]
  ELSE Append(samples, sample)

(* A sample is added, or takes the place of the one with its identity. *)
LEMMA AddedEffect ==
  ASSUME NEW ids, NEW samples \in Seq(Samples(ids)), OneEach(samples), NEW sample \in Samples(ids),
         NEW r, r = Added(samples, sample)
  PROVE  /\ r \in Seq(Samples(ids)) /\ OneEach(r)
         /\ \E i \in DOMAIN r : r[i] = sample
         /\ \A i \in DOMAIN r : r[i] = sample \/ \E j \in DOMAIN samples : r[i] = samples[j]
         /\ \A j \in DOMAIN samples : samples[j].identity # sample.identity => \E i \in DOMAIN r : r[i] = samples[j]
<1>1. CASE \E i \in DOMAIN samples : samples[i].identity = sample.identity
  <2>1. r = [i \in DOMAIN samples |-> IF samples[i].identity = sample.identity THEN sample ELSE samples[i]]
    BY <1>1 DEF Added
  <2>2. DOMAIN r = DOMAIN samples /\ DOMAIN samples = 1..Len(samples) /\ r \in Seq(Samples(ids))
    BY <2>1
  <2>3. \A i \in DOMAIN r : r[i].identity = samples[i].identity /\ r[i] \in {sample, samples[i]}
    BY <2>1
  <2>4. PICK i \in DOMAIN samples : samples[i].identity = sample.identity
    BY <1>1
  <2>5. r[i] = sample
    BY <2>1, <2>4
  <2>6. \A j \in DOMAIN samples : samples[j].identity # sample.identity => r[j] = samples[j]
    BY <2>1
  <2> QED BY <2>2, <2>3, <2>4, <2>5, <2>6 DEF OneEach
<1>2. CASE ~ \E i \in DOMAIN samples : samples[i].identity = sample.identity
  <2>1. r = Append(samples, sample)
    BY <1>2 DEF Added
  <2>2. r \in Seq(Samples(ids)) /\ Len(r) = Len(samples) + 1 /\ r[Len(r)] = sample
        /\ \A i \in 1..Len(samples) : r[i] = samples[i]
    BY <2>1
  <2> QED BY <1>2, <2>2 DEF OneEach
<1> QED BY <1>1, <1>2

(* With few identities no sample is dropped. *)
LEMMA NothingDropped ==
  ASSUME NEW ids, IsFiniteSet(ids), Cardinality(ids) <= MaxIdentities,
         NEW samples \in Seq(Samples(ids)), OneEach(samples),
         NEW parsed, parsed.sample # None, parsed.identity # <<>>, parsed.identity \in ids, parsed.source \in Sources
  PROVE  AddSample(samples, parsed) = Added(samples, [identity |-> parsed.identity, source |-> parsed.source])
<1> DEFINE sample == [identity |-> parsed.identity, source |-> parsed.source]
           r == Added(samples, sample)
           same == {i \in DOMAIN samples : samples[i].identity = parsed.identity}
<1>1. sample \in Samples(ids) /\ sample.identity = parsed.identity
  BY DEF Samples
<1>2. r = IF same = {} THEN Append(samples, sample)
          ELSE [i \in DOMAIN samples |-> IF i \in same THEN sample ELSE samples[i]]
  BY DEF Added
<1>3. r \in Seq(Samples(ids)) /\ OneEach(r)
  BY <1>1, AddedEffect
<1>4. AddSample(samples, parsed) = IF Len(r) > MaxIdentities THEN Tail(r) ELSE r
  BY <1>2 DEF AddSample
<1> HIDE DEF r
<1>5. Len(r) <= Cardinality(ids) /\ Len(r) \in Nat
  BY <1>3, SampleBound
<1>6. ~(Len(r) > MaxIdentities)
  BY <1>5, LimitsAreNat, FS_CardinalityType
<1> QED BY <1>4, <1>6 DEF r

(* What a text, a reasoning and every other event are parsed into. *)
LEMMA ParsedKinds ==
  ASSUME NEW item
  PROVE  LET parsed == ParseActivity(item)
         IN /\ item.k = "text" => parsed = ChunkActivity("session", item.v, "text")
            /\ parsed.sample # None => parsed.identity # <<>> /\ parsed.source \in Sources
            /\ \A v : parsed.sample # None /\ parsed.source = "session" /\ parsed.identity = <<"stream", v>> =>
                     item.k \in {"text", "reasoning"} /\ item.v = v
<1> DEFINE parsed == ParseActivity(item)
           Goal(p) == /\ p.sample # None => p.identity # <<>> /\ p.source \in Sources
                      /\ \A v : p.sample # None /\ p.source = "session" /\ p.identity = <<"stream", v>> =>
                               item.k \in {"text", "reasoning"} /\ item.v = v
<1>1. CASE item.k = "text"
  <2>1. parsed = ChunkActivity("session", item.v, "text")
    BY <1>1 DEF ParseActivity, SessionActivity, TelemetryKinds
  <2> QED BY <1>1, <2>1 DEF ChunkActivity, Parsed, Sources, None
<1>2. CASE item.k = "reasoning"
  <2>1. parsed = ChunkActivity("session", item.v, "reasoning")
    BY <1>2 DEF ParseActivity, SessionActivity, TelemetryKinds
  <2> QED BY <1>2, <2>1 DEF ChunkActivity, Parsed, Sources, None
<1>3. CASE item.k \in TelemetryKinds
  <2>1. parsed = TelemetryActivity(item.k, item.v)
    BY <1>3 DEF ParseActivity, TelemetryKinds
  <2>2. CASE item.k = "telemetryOther"
    <3>1. parsed.sample = None
      BY <2>1, <2>2 DEF TelemetryActivity, Parsed
    <3> QED BY <2>2, <3>1
  <2>3. CASE item.k \in {"telemetry", "telemetryTool"}
    <3>1. parsed.source = "telemetry" /\ parsed.identity # <<>>
      BY <2>1, <2>3 DEF TelemetryActivity, ChunkActivity, ToolActivity, Parsed
    <3> QED BY <2>3, <3>1 DEF Sources
  <2> QED BY <1>3, <2>2, <2>3 DEF TelemetryKinds
<1>4. CASE item.k \in {"tool", "toolEnd"}
  <2>1. \E phase_ : parsed = ToolActivity("session", item.v, phase_)
    BY <1>4 DEF ParseActivity, SessionActivity, TelemetryKinds
  <2>2. parsed.source = "session" /\ \A v : parsed.identity # <<"stream", v>> /\ parsed.identity # <<>>
    BY <2>1 DEF ToolActivity, Parsed
  <2> QED BY <1>4, <2>2 DEF Sources
<1>5. CASE item.k \notin {"text", "reasoning", "tool", "toolEnd"} \cup TelemetryKinds
  <2>1. parsed.sample = None
    BY <1>5 DEF ParseActivity, SessionActivity, TelemetryKinds, PermissionActivity, ModelActivity, TurnActivity,
                RuntimeActivity, Parsed
  <2> QED BY <1>5, <2>1
<1> QED BY <1>1, <1>2, <1>3, <1>4, <1>5 DEF TelemetryKinds

(* A transition changes only which models and tools are active. *)
LEMMA TransitionKeeps ==
  ASSUME NEW a, a = [x \in ActivityFields |-> a[x]], NEW parsed, NEW id
  PROVE  LET b == Transition(a, parsed, id)
         IN /\ b = [x \in ActivityFields |-> b[x]]
            /\ b.samples = a.samples /\ b.text = a.text /\ b.oversized = a.oversized
<1> QED BY DEF Transition, ActivityFields

(* What an event makes of the samples and of the text. *)
LEMMA ObserveParts ==
  ASSUME NEW a, a = [x \in ActivityFields |-> a[x]], NEW item
  PROVE  LET parsed == ParseActivity(item)
             admitted == Admitted(a, parsed)
             b == ActivityObserve(a, item)
         IN /\ b = [x \in ActivityFields |-> b[x]]
            /\ b.samples = IF admitted THEN AddSample(a.samples, parsed) ELSE a.samples
            /\ admitted /\ item.k = "text" /\ ~a.oversized =>
                 IF Len(a.text) < TextLimit THEN b.text = Append(a.text, item.v) /\ b.oversized = a.oversized
                 ELSE b.text = <<>> /\ b.oversized
            /\ ~(admitted /\ item.k = "text" /\ ~a.oversized) => b.text = a.text /\ b.oversized = a.oversized
<1> DEFINE parsed == ParseActivity(item)
           admitted == Admitted(a, parsed)
           degraded == a.degraded \/ ~parsed.known
           samples == IF admitted THEN AddSample(a.samples, parsed) ELSE a.samples
           sampled == [a EXCEPT !.seen = TRUE, !.degraded = degraded, !.samples = samples]
           texted == IF admitted /\ CarriesText(item) THEN AppendText(sampled, item.v) ELSE sampled
<1>1. ActivityObserve(a, item) = Transition(texted, parsed, item.v)
  BY DEF ActivityObserve
<1> HIDE DEF degraded, samples, admitted, parsed
<1>2. /\ sampled = [x \in ActivityFields |-> sampled[x]]
      /\ sampled.samples = samples /\ sampled.text = a.text /\ sampled.oversized = a.oversized
  BY DEF ActivityFields
<1> HIDE DEF sampled
<1>3. /\ texted = [x \in ActivityFields |-> texted[x]] /\ texted.samples = samples
      /\ admitted /\ item.k = "text" /\ ~a.oversized =>
           IF Len(a.text) < TextLimit THEN texted.text = Append(a.text, item.v) /\ texted.oversized = a.oversized
           ELSE texted.text = <<>> /\ texted.oversized
      /\ ~(admitted /\ item.k = "text" /\ ~a.oversized) => texted.text = a.text /\ texted.oversized = a.oversized
  BY <1>2 DEF AppendText, CarriesText, ActivityFields
<1> HIDE DEF texted
<1> DEFINE b == ActivityObserve(a, item)
<1> HIDE DEF b
<1>4. b = [x \in ActivityFields |-> b[x]] /\ b.samples = texted.samples /\ b.text = texted.text /\ b.oversized = texted.oversized
  BY <1>1, <1>3, TransitionKeeps DEF b
<1>5. /\ b.samples = samples
      /\ admitted /\ item.k = "text" /\ ~a.oversized =>
           IF Len(a.text) < TextLimit THEN b.text = Append(a.text, item.v) /\ b.oversized = a.oversized
           ELSE b.text = <<>> /\ b.oversized
      /\ ~(admitted /\ item.k = "text" /\ ~a.oversized) => b.text = a.text /\ b.oversized = a.oversized
  BY <1>3, <1>4
<1> QED BY <1>4, <1>5 DEF b, parsed, admitted, samples

(* An event of the conversation keeps the activity true to it, and a chunk *)
(* of text is in the text after it.                                        *)
LEMMA ObserveHeard ==
  ASSUME NEW ids, IsFiniteSet(ids), Cardinality(ids) <= MaxIdentities,
         NEW chunks \in SUBSET Nat, IsFiniteSet(chunks), NEW thoughts, NEW a, Heard(a, ids, chunks, thoughts), NEW item,
         ParseActivity(item).sample # None => ParseActivity(item).identity \in ids,
         item.k = "text" => item.v \in chunks \ thoughts,
         item.k = "reasoning" => item.v \in thoughts
  PROVE  LET b == ActivityObserve(a, item)
         IN /\ Heard(b, ids, chunks, thoughts)
            /\ \A v : Kept(a, v) => Kept(b, v)
            /\ item.k = "text" => Kept(b, item.v)
<1> DEFINE b == ActivityObserve(a, item)
           parsed == ParseActivity(item)
           admitted == Admitted(a, parsed)
           sample == [identity |-> parsed.identity, source |-> parsed.source]
<1>1. a = [x \in ActivityFields |-> a[x]]
  BY DEF Heard
<1>2. /\ b = [x \in ActivityFields |-> b[x]]
      /\ b.samples = IF admitted THEN AddSample(a.samples, parsed) ELSE a.samples
      /\ admitted /\ item.k = "text" /\ ~a.oversized =>
           IF Len(a.text) < TextLimit THEN b.text = Append(a.text, item.v) /\ b.oversized = a.oversized
           ELSE b.text = <<>> /\ b.oversized
      /\ ~(admitted /\ item.k = "text" /\ ~a.oversized) => b.text = a.text /\ b.oversized = a.oversized
  BY <1>1, ObserveParts
<1>3. /\ item.k = "text" => parsed.sample # None /\ parsed.source = "session" /\ parsed.identity = <<"stream", item.v>>
      /\ parsed.sample # None => parsed.identity # <<>> /\ parsed.source \in Sources
      /\ \A v : parsed.sample # None /\ parsed.source = "session" /\ parsed.identity = <<"stream", v>> =>
               item.k \in {"text", "reasoning"} /\ item.v = v
  BY ParsedKinds DEF ChunkActivity, Parsed, None
<1>4. admitted = (parsed.identity # <<>> /\ parsed.sample # None =>
                    \A i \in DOMAIN a.samples :
                      a.samples[i].identity = parsed.identity =>
                        a.samples[i].source = "telemetry" /\ parsed.source = "session")
  BY DEF Admitted
<1>5. parsed.sample # None => parsed.identity \in ids
  OBVIOUS
<1>6. \A i \in DOMAIN a.samples : a.samples[i] \in Samples(ids)
  BY DEF Heard
<1>7. parsed.sample = None => AddSample(a.samples, parsed) = a.samples
  BY DEF AddSample
<1>a. a.samples \in Seq(Samples(ids)) /\ OneEach(a.samples)
  BY DEF Heard
<1>h. \A v \in Nat : Sampled(a, v) => Kept(a, v) \/ v \in thoughts
  BY DEF Heard
<1> HIDE DEF b, parsed, admitted
<1>8. CASE ~admitted \/ parsed.sample = None
  <2>1. b.samples = a.samples /\ b.text = a.text /\ b.oversized = a.oversized
    BY <1>2, <1>3, <1>7, <1>8
  <2>2. Heard(b, ids, chunks, thoughts) /\ \A v : Kept(a, v) => Kept(b, v)
    BY <1>2, <2>1 DEF Heard, Sampled, Kept
  <2>3. ASSUME item.k = "text"
        PROVE  Kept(b, item.v)
    <3>1. PICK i \in DOMAIN a.samples : a.samples[i].identity = <<"stream", item.v>> /\ a.samples[i].source # "telemetry"
      BY <1>3, <1>4, <1>8, <2>3
    <3>2. a.samples[i] = [identity |-> <<"stream", item.v>>, source |-> "session"]
      BY <1>6, <3>1 DEF Samples, Sources
    <3>3. Sampled(a, item.v)
      BY <3>2 DEF Sampled
    <3> QED BY <2>1, <2>3, <3>3 DEF Heard, Kept
  <2> QED BY <2>2, <2>3 DEF b
<1>9. CASE admitted /\ parsed.sample # None
  <2>1. b.samples = Added(a.samples, sample)
    BY <1>2, <1>3, <1>5, <1>9, NothingDropped DEF Heard
  <2>2. sample \in Samples(ids)
    BY <1>3, <1>5, <1>9 DEF Samples
  <2>s. sample.identity = parsed.identity /\ sample.source = parsed.source
    OBVIOUS
  <2> HIDE DEF sample
  <2>3. /\ b.samples \in Seq(Samples(ids)) /\ OneEach(b.samples)
        /\ \E i \in DOMAIN b.samples : b.samples[i] = sample
        /\ \A i \in DOMAIN b.samples : b.samples[i] = sample \/ \E j \in DOMAIN a.samples : b.samples[i] = a.samples[j]
        /\ \A j \in DOMAIN a.samples : a.samples[j].identity # sample.identity =>
                                        \E i \in DOMAIN b.samples : b.samples[i] = a.samples[j]
    <3> DEFINE old == a.samples
               new == b.samples
    <3>1. old \in Seq(Samples(ids)) /\ OneEach(old) /\ new = Added(old, sample)
      BY <1>a, <2>1
    <3> HIDE DEF old, new
    <3>2. /\ new \in Seq(Samples(ids)) /\ OneEach(new)
          /\ \E i \in DOMAIN new : new[i] = sample
          /\ \A i \in DOMAIN new : new[i] = sample \/ \E j \in DOMAIN old : new[i] = old[j]
          /\ \A j \in DOMAIN old : old[j].identity # sample.identity => \E i \in DOMAIN new : new[i] = old[j]
      <4>1. new \in Seq(Samples(ids)) /\ OneEach(new)
        BY <2>2, <3>1, AddedEffect
      <4>2. \E i \in DOMAIN new : new[i] = sample
        BY <2>2, <3>1, AddedEffect
      <4>3. \A i \in DOMAIN new : new[i] = sample \/ \E j \in DOMAIN old : new[i] = old[j]
        BY <2>2, <3>1, AddedEffect
      <4>4. \A j \in DOMAIN old : old[j].identity # sample.identity => \E i \in DOMAIN new : new[i] = old[j]
        BY <2>2, <3>1, AddedEffect
      <4> QED BY <4>1, <4>2, <4>3, <4>4
    <3> QED BY <3>2 DEF old, new
  <2>4. ASSUME NEW v, Sampled(a, v)
        PROVE  Sampled(b, v) /\ parsed.identity # <<"stream", v>>
    <3>1. PICK j \in DOMAIN a.samples : a.samples[j] = [identity |-> <<"stream", v>>, source |-> "session"]
      BY <2>4 DEF Sampled
    <3>2. a.samples[j].identity = <<"stream", v>> /\ a.samples[j].source = "session"
      BY <3>1
    <3>3. a.samples[j].identity # parsed.identity
      BY <1>3, <1>4, <1>9, <3>2
    <3>4. PICK i \in DOMAIN b.samples : b.samples[i] = a.samples[j]
      BY <2>3, <2>s, <3>3
    <3> QED BY <3>1, <3>2, <3>3, <3>4 DEF Sampled
  <2>5. ASSUME NEW v, Sampled(b, v), ~Sampled(a, v)
        PROVE  item.k \in {"text", "reasoning"} /\ item.v = v
    <3>1. PICK i \in DOMAIN b.samples : b.samples[i] = [identity |-> <<"stream", v>>, source |-> "session"]
      BY <2>5 DEF Sampled
    <3>2. b.samples[i] = sample
      BY <2>3, <2>5, <3>1 DEF Sampled
    <3> QED BY <1>3, <1>9, <2>s, <3>1, <3>2
  <2>6. CASE item.k # "text" \/ a.oversized
    <3>1. b.text = a.text /\ b.oversized = a.oversized
      BY <1>2, <2>6
    <3>2. \A v : Kept(a, v) = Kept(b, v)
      BY <3>1 DEF Kept
    <3>3. \A v \in Nat : Sampled(b, v) => Kept(b, v) \/ v \in thoughts
      BY <2>5, <2>6, <3>1, <3>2 DEF Heard, Kept
    <3>4. Heard(b, ids, chunks, thoughts)
      BY <1>2, <2>3, <2>4, <3>1, <3>3 DEF Heard
    <3>5. item.k = "text" => Kept(b, item.v)
      BY <2>6, <3>1 DEF Kept
    <3> QED BY <3>2, <3>4, <3>5 DEF b
  <2>7. CASE item.k = "text" /\ ~a.oversized
    <3>1. Sampled(b, item.v)
      <4>1. sample = [identity |-> <<"stream", item.v>>, source |-> "session"]
        BY <1>3, <2>7 DEF sample
      <4> QED BY <2>3, <4>1 DEF Sampled
    <3>2. \A i \in DOMAIN a.text : a.text[i] # item.v
      BY <1>3, <2>4, <2>7 DEF Heard
    <3>3. a.text \in Seq(chunks) /\ item.v \in chunks /\ \A i, j \in DOMAIN a.text : a.text[i] = a.text[j] => i = j
      BY <2>7 DEF Heard
    <3>4. /\ Append(a.text, item.v) \in Seq(chunks) /\ Len(Append(a.text, item.v)) = Len(a.text) + 1
          /\ \A i, j \in DOMAIN Append(a.text, item.v) : Append(a.text, item.v)[i] = Append(a.text, item.v)[j] => i = j
      BY <3>2, <3>3
    <3>5. CASE Len(a.text) < TextLimit
      <4>1. b.text = Append(a.text, item.v) /\ ~b.oversized
        BY <1>2, <1>9, <2>7, <3>5
      <4>2. \A i \in DOMAIN b.text : b.text[i] = item.v \/ \E j \in DOMAIN a.text : b.text[i] = a.text[j]
        BY <3>3, <4>1
      <4>3. \A i \in DOMAIN b.text : Sampled(b, b.text[i])
        BY <2>4, <3>1, <4>2 DEF Heard
      <4>4. Kept(b, item.v) /\ \A v : Kept(a, v) => Kept(b, v)
        <5>1. Len(a.text) + 1 \in DOMAIN b.text /\ b.text[Len(a.text) + 1] = item.v
          BY <3>3, <4>1
        <5>2. \A i \in DOMAIN a.text : i \in DOMAIN b.text /\ b.text[i] = a.text[i]
          BY <3>3, <4>1
        <5> QED BY <2>7, <5>1, <5>2 DEF Kept
      <4>5. \A v \in Nat : Sampled(b, v) => Kept(b, v) \/ v \in thoughts
        BY <1>h, <2>5, <4>4
      <4>6. Heard(b, ids, chunks, thoughts)
        BY <1>2, <2>3, <3>4, <4>1, <4>3, <4>5 DEF Heard
      <4> QED BY <4>4, <4>6 DEF b
    <3>6. CASE ~(Len(a.text) < TextLimit)
      <4>1. b.text = <<>> /\ b.oversized
        BY <1>2, <1>9, <2>7, <3>6
      <4>2. Len(a.text) + 1 <= Cardinality(chunks)
        BY <3>4, DistinctBound
      <4>3. Cardinality(chunks) > TextLimit
        BY <3>3, <3>6, <4>2, LimitsAreNat, FS_CardinalityType
      <4>4. \A v : Kept(b, v)
        BY <4>1 DEF Kept
      <4>5. b.text \in Seq(chunks) /\ DOMAIN b.text = {}
        BY <4>1
      <4>6. Heard(b, ids, chunks, thoughts)
        BY <1>2, <2>3, <4>3, <4>4, <4>5 DEF Heard
      <4> QED BY <4>4, <4>6 DEF b
    <3> QED BY <3>5, <3>6
  <2> QED BY <2>6, <2>7
<1> QED BY <1>8, <1>9

\* The beginning of a conversation that was said.
TalkInv ==
  /\ talk \in Seq(Lines)
  /\ talk # <<>> => \E c \in Conversations : Len(talk) <= Len(c) /\ \A i \in 1..Len(talk) : talk[i] = c[i]

\* The events that carry a sample or end a turn, and that one of these was said.
Told == {"text", "reasoning", "telemetry", "tool", "toolEnd", "telemetryTool", "completed"}
IsSaid(item) == item.k \in Told => \E i \in DOMAIN talk : talk[i].k = item.k /\ talk[i].v = item.v

(* The identities and chunks of a sequence of lines are finitely many. *)
LEMMA FiniteTalk ==
  ASSUME NEW t \in Seq(Lines)
  PROVE  IsFiniteSet(SampleIds(t)) /\ IsFiniteSet(Chunks(t)) /\ Chunks(t) \in SUBSET Nat
<1> DEFINE D == {j \in DOMAIN t : ParseActivity(t[j]).sample # None}
           f == [i \in D |-> ParseActivity(t[i]).identity]
           E == {j \in DOMAIN t : t[j].k = "text"}
           g == [i \in E |-> t[i].v]
<1>1. IsFiniteSet(D) /\ IsFiniteSet(E)
  <2>1. IsFiniteSet(1..Len(t)) /\ DOMAIN t = 1..Len(t)
    BY FS_Interval
  <2>2. D \in SUBSET (1..Len(t)) /\ E \in SUBSET (1..Len(t))
    BY <2>1
  <2> HIDE DEF D, E
  <2> QED BY <2>1, <2>2, FS_Subset
<1>2. f \in Surjection(D, SampleIds(t))
  BY DEF Surjection, SampleIds
<1>3. g \in Surjection(E, Chunks(t))
  BY DEF Surjection, Chunks
<1>4. Chunks(t) \in SUBSET Nat
  <2>1. \A i \in DOMAIN t : t[i].v \in Nat
    <3>1. \A i \in DOMAIN t : t[i] \in Lines
      OBVIOUS
    <3> QED BY <3>1 DEF Lines
  <2> QED BY <2>1 DEF Chunks
<1> HIDE DEF f, g, D, E
<1> QED BY <1>1, <1>2, <1>3, <1>4, FS_Surjection

(* What is said has no more identities than the conversation. *)
LEMMA TalkBounds ==
  ASSUME FewIdentities, OneEventPerId, TalkInv
  PROVE  /\ IsFiniteSet(SampleIds(talk)) /\ Cardinality(SampleIds(talk)) <= MaxIdentities
         /\ IsFiniteSet(Chunks(talk)) /\ Chunks(talk) \in SUBSET Nat
         /\ \A v \in Chunks(talk) : v \notin Thoughts(talk)
<1>1. IsFiniteSet(SampleIds(talk)) /\ IsFiniteSet(Chunks(talk)) /\ Chunks(talk) \in SUBSET Nat
  BY FiniteTalk DEF TalkInv
<1>2. CASE talk = <<>>
  <2>1. SampleIds(talk) = {} /\ Chunks(talk) = {}
    BY <1>2 DEF SampleIds, Chunks
  <2>2. Cardinality(SampleIds(talk)) = 0
    BY <2>1, FS_EmptySet
  <2> QED BY <1>1, <2>1, <2>2, LimitsAreNat
<1>3. CASE talk # <<>>
  <2>1. PICK c \in Conversations : Len(talk) <= Len(c) /\ \A i \in 1..Len(talk) : talk[i] = c[i]
    BY <1>3 DEF TalkInv
  <2>2. c \in Seq(Lines) /\ talk \in Seq(Lines)
    BY DriverAssumption DEF TalkInv
  <2>3. \A i \in DOMAIN talk : i \in DOMAIN c /\ talk[i] = c[i]
    BY <2>1, <2>2
  <2>4. SampleIds(talk) \in SUBSET SampleIds(c)
    BY <2>3 DEF SampleIds
  <2>5. Cardinality(SampleIds(talk)) <= Cardinality(SampleIds(c)) /\ IsFiniteSet(SampleIds(c))
    BY <2>2, <2>4, FiniteTalk, FS_Subset
  <2>6. Cardinality(SampleIds(talk)) <= MaxIdentities
    BY <1>1, <2>5, LimitsAreNat, FS_CardinalityType DEF FewIdentities
  <2>7. \A v \in Chunks(talk) : v \notin Thoughts(talk)
    BY <2>3 DEF Chunks, Thoughts, OneEventPerId
  <2> QED BY <1>1, <2>6, <2>7
<1> QED BY <1>2, <1>3

(* An event that was said is heard as it was said. *)
LEMMA SaidIsHeard ==
  ASSUME FewIdentities, OneEventPerId, TalkInv, NEW item, IsSaid(item),
         NEW a, Heard(a, SampleIds(talk), Chunks(talk), Thoughts(talk)),
         NEW b, b = ActivityObserve(a, item)
  PROVE  /\ Heard(b, SampleIds(talk), Chunks(talk), Thoughts(talk))
         /\ \A v : Kept(a, v) => Kept(b, v)
         /\ item.k = "text" => Kept(b, item.v)
<1>1. /\ IsFiniteSet(SampleIds(talk)) /\ Cardinality(SampleIds(talk)) <= MaxIdentities
      /\ IsFiniteSet(Chunks(talk)) /\ Chunks(talk) \in SUBSET Nat
      /\ \A v \in Chunks(talk) : v \notin Thoughts(talk)
  BY TalkBounds
<1>2. item.k = "text" => item.v \in Chunks(talk)
  BY DEF IsSaid, Told, Chunks
<1>3. item.k = "reasoning" => item.v \in Thoughts(talk)
  BY DEF IsSaid, Told, Thoughts
<1>4. ASSUME ParseActivity(item).sample # None
      PROVE  ParseActivity(item).identity \in SampleIds(talk)
  <2>1. item.k \in Told
    <3> SUFFICES ASSUME item.k \notin Told
                 PROVE  ParseActivity(item).sample = None
      BY <1>4
    <3> QED BY DEF ParseActivity, SessionActivity, TelemetryActivity, TelemetryKinds, PermissionActivity, ModelActivity,
                   TurnActivity, RuntimeActivity, Parsed, Told
  <2>2. PICK i \in DOMAIN talk : talk[i].k = item.k /\ talk[i].v = item.v
    BY <2>1 DEF IsSaid
  <2>3. ParseActivity(talk[i]) = ParseActivity(item)
    BY <2>2 DEF ParseActivity
  <2> QED BY <1>4, <2>3 DEF SampleIds
<1>5. item.k = "text" => item.v \in Chunks(talk) \ Thoughts(talk)
  BY <1>1, <1>2
<1> DEFINE ids == SampleIds(talk)
           chunks == Chunks(talk)
           thoughts == Thoughts(talk)
<1>6. /\ IsFiniteSet(ids) /\ Cardinality(ids) <= MaxIdentities /\ chunks \in SUBSET Nat /\ IsFiniteSet(chunks)
      /\ Heard(a, ids, chunks, thoughts)
      /\ ParseActivity(item).sample # None => ParseActivity(item).identity \in ids
      /\ item.k = "text" => item.v \in chunks \ thoughts
      /\ item.k = "reasoning" => item.v \in thoughts
  BY <1>1, <1>3, <1>4, <1>5
<1> HIDE DEF ids, chunks, thoughts
<1>7. Heard(b, ids, chunks, thoughts)
  BY <1>6, ObserveHeard
<1>8. \A v : Kept(a, v) => Kept(b, v)
  BY <1>6, ObserveHeard
<1>9. item.k = "text" => Kept(b, item.v)
  BY <1>6, ObserveHeard
<1> QED BY <1>7, <1>8, <1>9 DEF ids, chunks, thoughts

(* The sink passes an event on to the activity while the ingress is open. *)
LEMMA SunkActivity ==
  ASSUME NEW s, IsSink(s), NEW l, NEW rows, NEW seq \in Nat, NEW item
  PROVE  Sunk(Tables(s, l, rows), seq, item).sink.activity =
           IF ingress = "Running" THEN ActivityObserve(s.activity, item) ELSE s.activity
<1> DEFINE seen == Seen(s, item)
           c == [seen EXCEPT !.last = seq]
           d == Tables(s, l, rows)
           e == Sunk(d, seq, item)
           heard == ActivityObserve(s.activity, item)
<1>1. IsSink(seen) /\ seen.activity = heard
  <2>1. IsSink(seen)
    BY SeenKeeps
  <2>2. BudgetObserve(s, item).activity = s.activity /\ IsSink(BudgetObserve(s, item))
    BY DEF BudgetObserve, IsSink, SinkFields
  <2> DEFINE b == BudgetObserve(s, item)
  <2> HIDE DEF b
  <2>3. seen = [b EXCEPT !.activity = ActivityObserve(b.activity, item)]
    BY DEF Seen, b
  <2>4. IsSink(b) /\ b.activity = s.activity
    BY <2>2 DEF b
  <2> QED BY <2>1, <2>3, <2>4 DEF IsSink, SinkFields
<1>2. d.sink = s /\ d.log = l /\ d.requests = rows
  BY TablesParts
<1> HIDE DEF seen, heard
<1>3. IsSink(c) /\ c.activity = heard
  BY <1>1 DEF IsSink, SinkFields
<1>4. CASE ingress # "Running"
  <2>1. e = d
    BY <1>4 DEF Sunk
  <2> QED BY <1>2, <1>4, <2>1
<1>5. CASE ingress = "Running" /\ s.failed
  <2>1. e = Tables(seen, l, rows)
    BY <1>2, <1>5 DEF Sunk, seen
  <2> QED BY <1>1, <1>5, <2>1, TablesParts DEF heard
<1>6. CASE ingress = "Running" /\ ~s.failed /\ item.k = "terminal"
  <2>1. e = Tables([c EXCEPT !.pendingTerminal = seq], l, rows)
    BY <1>2, <1>6 DEF Sunk, seen, InsertFails
  <2> HIDE DEF e, c
  <2>2. [c EXCEPT !.pendingTerminal = seq].activity = heard
    BY <1>3 DEF IsSink, SinkFields
  <2>3. e.sink = [c EXCEPT !.pendingTerminal = seq]
    BY <2>1, TablesParts
  <2> QED BY <1>6, <2>2, <2>3 DEF heard, e
<1>7. CASE ingress = "Running" /\ ~s.failed /\ item.k # "terminal" /\ InsertFails(item, rows)
  <2>1. e = Tables([c EXCEPT !.failed = TRUE], l, rows)
    BY <1>2, <1>7 DEF Sunk, seen
  <2> HIDE DEF e, c
  <2>2. [c EXCEPT !.failed = TRUE].activity = heard
    BY <1>3 DEF IsSink, SinkFields
  <2>3. e.sink = [c EXCEPT !.failed = TRUE]
    BY <2>1, TablesParts
  <2> QED BY <1>7, <2>2, <2>3 DEF heard, e
<1>8. CASE ingress = "Running" /\ ~s.failed /\ item.k # "terminal" /\ ~InsertFails(item, rows)
  <2> DEFINE rows2 == IF item.k = "permission" THEN [rows EXCEPT ![item.v] = "pending"] ELSE rows
  <2>1. e = AppendLifecycle(Tables(c, l, rows2), seq, Projected(item))
    BY <1>2, <1>8 DEF Sunk, seen
  <2> HIDE DEF e, c, rows2
  <2>2. [c EXCEPT !.failed = TRUE].activity = heard
    BY <1>3 DEF IsSink, SinkFields
  <2>3. \/ e = Tables(c, l, rows2)
        \/ e = Tables([c EXCEPT !.failed = TRUE], l, rows2)
        \/ e = Tables(c, Append(l, [seq |-> seq, type |-> Projected(item)]), rows2)
    BY <1>3, <2>1, AppendEffect
  <2>4. e.sink = c \/ e.sink = [c EXCEPT !.failed = TRUE]
    BY <2>3, TablesParts
  <2>5. e.sink.activity = heard
    BY <1>3, <2>2, <2>4
  <2> QED BY <1>8, <2>5 DEF heard, e
<1> QED BY <1>4, <1>5, <1>6, <1>7, <1>8

\* What was recorded of the text stays recorded.
StillKept(a, b) == \A v : Kept(a, v) => Kept(b, v)
OfTalk(a) == Heard(a, SampleIds(talk), Chunks(talk), Thoughts(talk))

(* The same for an event, or for a terminal, on its way through the sink. *)
LEMMA SunkHeard ==
  ASSUME FewIdentities, OneEventPerId, TalkInv, NEW s, IsSink(s), OfTalk(s.activity), NEW l, NEW rows, NEW seq \in Nat,
         NEW item, IsSaid(item), NEW a, a = Sunk(Tables(s, l, rows), seq, item).sink.activity
  PROVE  /\ OfTalk(a) /\ StillKept(s.activity, a)
         /\ ingress = "Running" /\ item.k = "text" => Kept(a, item.v)
<1>1. a = IF ingress = "Running" THEN ActivityObserve(s.activity, item) ELSE s.activity
  BY SunkActivity
<1>2. CASE ingress = "Running"
  <2>1. a = ActivityObserve(s.activity, item)
    BY <1>1, <1>2
  <2> DEFINE b == s.activity
  <2>2. Heard(b, SampleIds(talk), Chunks(talk), Thoughts(talk)) /\ a = ActivityObserve(b, item)
    BY <2>1 DEF OfTalk
  <2> HIDE DEF b
  <2>3. Heard(a, SampleIds(talk), Chunks(talk), Thoughts(talk))
    BY <2>2, SaidIsHeard
  <2>4. \A v : Kept(b, v) => Kept(a, v)
    BY <2>2, SaidIsHeard
  <2>5. item.k = "text" => Kept(a, item.v)
    BY <2>2, SaidIsHeard
  <2> QED BY <2>3, <2>4, <2>5 DEF OfTalk, StillKept, b
<1>3. CASE ingress # "Running"
  BY <1>1, <1>3 DEF StillKept
<1> QED BY <1>2, <1>3

(* A terminal changes nothing of the text. *)
LEMMA PublishHeard ==
  ASSUME FewIdentities, OneEventPerId, TalkInv, OfTalk(sink.activity), OwnerTypes, NEW t, PublishTerminal(t)
  PROVE  OfTalk(sink'.activity) /\ StillKept(sink.activity, sink'.activity)
<1>1. CASE owner = "Terminal"
  <2>1. sink' = sink
    BY <1>1 DEF PublishTerminal, sinkVars
  <2> QED BY <2>1 DEF StillKept
<1>2. CASE owner # "Terminal"
  <2>1. Sink(Sunk(Tables(sink, log, requests), sequence, TerminalItem))
    BY <1>2 DEF PublishTerminal, Stored
  <2>2. sink'.activity = Sunk(Tables(sink, log, requests), sequence, TerminalItem).sink.activity
    BY <2>1 DEF Sink
  <2>3. IsSink(sink) /\ sequence \in Nat
    BY DEF OwnerTypes
  <2>4. IsSaid(TerminalItem)
    BY DEF IsSaid, Told, TerminalItem, Item
  <2> QED BY <2>2, <2>3, <2>4, SunkHeard
<1> QED BY <1>1, <1>2

(* An event that the pump emits is in the text, if it is text, unless the  *)
(* ingress is closed or a terminal was published before.                   *)
LEMMA EmitHeard ==
  ASSUME FewIdentities, OneEventPerId, TalkInv, OfTalk(sink.activity), OwnerTypes, held \in Items, IsSaid(held),
         EmitDriver(held)
  PROVE  /\ OfTalk(sink'.activity) /\ StillKept(sink.activity, sink'.activity)
         /\ owner # "Terminal" /\ ingress = "Running" /\ held.k = "text" => Kept(sink'.activity, held.v)
<1>1. CASE owner = "Terminal"
  <2>1. sink' = sink
    BY <1>1 DEF EmitDriver, sinkVars
  <2> QED BY <1>1, <2>1 DEF StillKept
<1>2. CASE owner # "Terminal"
  <2> DEFINE e == Sunk(Tables(sink, log, requests), sequence, held)
             n == sequence + 1
  <2>1. Sink(e) \/ Sink(Sunk(e, n, TerminalItem))
    BY <1>2 DEF EmitDriver, Stored
  <2>2. IsSink(sink) /\ log \in Seq(Records) /\ requests \in [Ids -> RowStates] /\ sequence \in Nat /\ n \in Nat
    BY DEF OwnerTypes
  <2>3. PICK s2, l2, rows2 : /\ l2 \in Seq(Records) /\ rows2 \in [Ids -> RowStates]
                             /\ e = Tables(s2, l2, rows2) /\ IsSink(s2)
    BY <2>2, SunkWritten
  <2>4. e.sink = s2
    BY <2>3, TablesParts
  <2>5. s2.activity = Sunk(Tables(sink, log, requests), sequence, held).sink.activity
    BY <2>4
  <2> HIDE DEF n, e
  <2>6. /\ OfTalk(s2.activity) /\ StillKept(sink.activity, s2.activity)
        /\ ingress = "Running" /\ held.k = "text" => Kept(s2.activity, held.v)
    BY <2>2, <2>5, SunkHeard
  <2>7. CASE Sink(e)
    BY <2>4, <2>6, <2>7 DEF Sink
  <2>8. CASE Sink(Sunk(e, n, TerminalItem))
    <3>1. sink'.activity = Sunk(Tables(s2, l2, rows2), n, TerminalItem).sink.activity
      BY <2>3, <2>8 DEF Sink
    <3>2. IsSaid(TerminalItem)
      BY DEF IsSaid, Told, TerminalItem, Item
    <3>3. OfTalk(sink'.activity) /\ StillKept(s2.activity, sink'.activity)
      BY <2>2, <2>3, <2>6, <3>1, <3>2, SunkHeard
    <3> QED BY <2>6, <3>3 DEF StillKept
  <2> QED BY <2>1, <2>7, <2>8
<1> QED BY <1>1, <1>2

(* Another line of the conversation leaves what was heard true. *)
LEMMA HeardGrows ==
  ASSUME NEW t \in Seq(Lines), NEW line \in Lines, NEW a, Heard(a, SampleIds(t), Chunks(t), Thoughts(t))
  PROVE  Heard(a, SampleIds(Append(t, line)), Chunks(Append(t, line)), Thoughts(Append(t, line)))
<1> DEFINE u == Append(t, line)
<1>1. u \in Seq(Lines) /\ \A i \in DOMAIN t : i \in DOMAIN u /\ u[i] = t[i]
  OBVIOUS
<1> HIDE DEF u
<1>2. SampleIds(t) \subseteq SampleIds(u)
  BY <1>1 DEF SampleIds
<1>3. Chunks(t) \subseteq Chunks(u) /\ Thoughts(t) \subseteq Thoughts(u)
  BY <1>1 DEF Chunks, Thoughts
<1>4. Cardinality(Chunks(t)) <= Cardinality(Chunks(u)) /\ IsFiniteSet(Chunks(t)) /\ IsFiniteSet(Chunks(u))
  BY <1>1, <1>3, FiniteTalk, FS_Subset
<1>5. Cardinality(Chunks(t)) > TextLimit => Cardinality(Chunks(u)) > TextLimit
  BY <1>4, LimitsAreNat, FS_CardinalityType
<1>6. Samples(SampleIds(t)) \subseteq Samples(SampleIds(u))
  BY <1>2 DEF Samples
<1>7. a.samples \in Seq(Samples(SampleIds(u))) /\ a.text \in Seq(Chunks(u))
  BY <1>3, <1>6 DEF Heard
<1>8. Heard(a, SampleIds(u), Chunks(u), Thoughts(u))
  BY <1>3, <1>5, <1>7 DEF Heard
<1> QED BY <1>8 DEF u

(* --------------------- chunks on their way to the sink ----------------- *)
\* The chunk v is in a queue, before any end of a turn.
Ahead(s, v) == \E i \in DOMAIN s : s[i].k = "text" /\ s[i].v = v /\ \A n \in 1..(i - 1) : s[n].k # "completed"
NoneCompleted(s) == \A i \in DOMAIN s : s[i].k # "completed"
Said(s) == \A i \in DOMAIN s : IsSaid(s[i])

\* It is on its way, ahead of the end of its turn.
InFlight(v) == \/ held.k = "text" /\ held.v = v
               \/ Ahead(inbox, v)
               \/ Ahead(raw, v) /\ NoneCompleted(inbox)
               \/ Ahead(wire, v) /\ NoneCompleted(raw) /\ NoneCompleted(inbox)

\* Only the task's own thread may finish the process; it has not begun to.
Alone == \A f \in Threads \ {"task"} : fin[f].at = "idle"
Calm == Alone /\ fin["task"].at \in {"starting", "idle"}

SaidInv == /\ Said(wire) /\ Said(raw) /\ Said(inbox) /\ IsSaid(held)
           /\ tracker.boundary = "completed" => ~NoneCompleted(talk)

\* Until somebody finishes the process the ingress is open, and a chunk of the turn is in
\* the text or on its way ahead of the end of the turn; so it is in the text when the
\* tracker has seen that end.
CalmInv ==
  Calm => /\ ingress = "Running" /\ (owner = "Terminal" => pump = "ended")
          /\ \A v \in Nat : Ahead(talk, v) =>
               Kept(sink.activity, v) \/ (InFlight(v) /\ tracker.boundary # "completed")
DoneInv ==
  Alone /\ fin["task"].with = "completed" =>
    ~NoneCompleted(talk) /\ \A v \in Nat : Ahead(talk, v) => Kept(sink.activity, v)

TextInv == TalkInv /\ OfTalk(sink.activity) /\ SaidInv /\ CalmInv /\ DoneInv

(* A queue that grows. *)
LEMMA AheadAppend ==
  ASSUME NEW S, NEW s \in Seq(S), NEW x \in S, NEW v
  PROVE  /\ Ahead(s, v) => Ahead(Append(s, x), v)
         /\ Ahead(Append(s, x), v) => Ahead(s, v) \/ (NoneCompleted(s) /\ x.k = "text" /\ x.v = v)
         /\ NoneCompleted(s) /\ x.k = "text" /\ x.v = v => Ahead(Append(s, x), v)
         /\ NoneCompleted(Append(s, x)) <=> NoneCompleted(s) /\ x.k # "completed"
<1> DEFINE t == Append(s, x)
<1>1. t \in Seq(S) /\ Len(t) = Len(s) + 1 /\ t[Len(s) + 1] = x /\ \A i \in 1..Len(s) : t[i] = s[i]
  OBVIOUS
<1>2. DOMAIN s = 1..Len(s) /\ DOMAIN t = 1..(Len(s) + 1) /\ Len(s) \in Nat
  BY <1>1
<1> HIDE DEF t
<1>3. Ahead(s, v) => Ahead(t, v)
  BY <1>1, <1>2 DEF Ahead
<1>4. Ahead(t, v) => Ahead(s, v) \/ (NoneCompleted(s) /\ x.k = "text" /\ x.v = v)
  <2> SUFFICES ASSUME Ahead(t, v)
               PROVE  Ahead(s, v) \/ (NoneCompleted(s) /\ x.k = "text" /\ x.v = v)
    OBVIOUS
  <2>1. PICK i \in 1..(Len(s) + 1) : t[i].k = "text" /\ t[i].v = v /\ \A n \in 1..(i - 1) : t[n].k # "completed"
    BY <1>2 DEF Ahead
  <2>2. CASE i = Len(s) + 1
    BY <1>1, <1>2, <2>1, <2>2 DEF NoneCompleted
  <2>3. CASE i # Len(s) + 1
    BY <1>1, <1>2, <2>1, <2>3 DEF Ahead
  <2> QED BY <2>2, <2>3
<1>5. NoneCompleted(s) /\ x.k = "text" /\ x.v = v => Ahead(t, v)
  BY <1>1, <1>2 DEF Ahead, NoneCompleted
<1>6. NoneCompleted(t) <=> NoneCompleted(s) /\ x.k # "completed"
  BY <1>1, <1>2 DEF NoneCompleted
<1> QED BY <1>3, <1>4, <1>5, <1>6 DEF t

(* A queue whose head is taken. *)
LEMMA AheadTail ==
  ASSUME NEW S, NEW s \in Seq(S), s # <<>>, NEW v
  PROVE  /\ Ahead(s, v) => /\ Head(s).k # "completed"
                           /\ Ahead(Tail(s), v) \/ (Head(s).k = "text" /\ Head(s).v = v)
         /\ NoneCompleted(s) => NoneCompleted(Tail(s)) /\ Head(s).k # "completed"
<1> DEFINE t == Tail(s)
<1>1. /\ Len(s) \in Nat \ {0} /\ DOMAIN s = 1..Len(s) /\ DOMAIN t = 1..(Len(s) - 1) /\ Head(s) = s[1]
      /\ \A i \in 1..(Len(s) - 1) : t[i] = s[i + 1]
  OBVIOUS
<1> HIDE DEF t
<1>2. ASSUME Ahead(s, v)
      PROVE  Head(s).k # "completed" /\ (Ahead(t, v) \/ (Head(s).k = "text" /\ Head(s).v = v))
  <2>1. PICK i \in 1..Len(s) : s[i].k = "text" /\ s[i].v = v /\ \A n \in 1..(i - 1) : s[n].k # "completed"
    BY <1>1, <1>2 DEF Ahead
  <2>2. CASE i = 1
    BY <1>1, <2>1, <2>2
  <2>3. CASE i # 1
    <3>1. i - 1 \in DOMAIN t /\ t[i - 1] = s[i] /\ 1 \in 1..(i - 1)
      BY <1>1, <2>3
    <3>2. \A n \in 1..(i - 1 - 1) : t[n].k # "completed"
      BY <1>1, <2>1
    <3>3. Ahead(t, v)
      BY <2>1, <3>1, <3>2 DEF Ahead
    <3> QED BY <1>1, <2>1, <3>1, <3>3
  <2> QED BY <2>2, <2>3
<1>3. NoneCompleted(s) => NoneCompleted(t) /\ Head(s).k # "completed"
  BY <1>1 DEF NoneCompleted
<1> QED BY <1>2, <1>3 DEF t

(* What a queue holds was said if what came into it was. *)
LEMMA SaidQueues ==
  ASSUME NEW S, NEW s \in Seq(S), Said(s)
  PROVE  /\ \A x \in S : IsSaid(x) => Said(Append(s, x))
         /\ s # <<>> => Said(Tail(s)) /\ IsSaid(Head(s))
         /\ \A t \in Seq(S) : Said(t) => Said(s \o t)
<1>1. ASSUME NEW x \in S, IsSaid(x)
      PROVE  Said(Append(s, x))
  BY <1>1 DEF Said
<1>2. s # <<>> => Said(Tail(s)) /\ IsSaid(Head(s))
  BY DEF Said
<1>3. ASSUME NEW t \in Seq(S), Said(t)
      PROVE  Said(s \o t)
  BY <1>3 DEF Said
<1> QED BY <1>1, <1>2, <1>3

(* A queue joined with one item. *)
LEMMA JoinOne ==
  ASSUME NEW S, NEW s \in Seq(S), NEW x \in S
  PROVE  s \o <<x>> = Append(s, x)
<1> QED OBVIOUS

(* Two queues in a row. *)
LEMMA AheadJoin ==
  ASSUME NEW S, NEW s \in Seq(S), NEW t \in Seq(S), NEW v
  PROVE  /\ Ahead(s, v) => Ahead(s \o t, v)
         /\ NoneCompleted(s) /\ NoneCompleted(t) => NoneCompleted(s \o t)
<1> DEFINE u == s \o t
<1>1. /\ Len(s) \in Nat /\ Len(t) \in Nat /\ DOMAIN s = 1..Len(s) /\ DOMAIN t = 1..Len(t)
      /\ DOMAIN u = 1..(Len(s) + Len(t)) /\ \A i \in 1..Len(s) : u[i] = s[i]
      /\ \A i \in 1..(Len(s) + Len(t)) : i > Len(s) => u[i] = t[i - Len(s)]
  OBVIOUS
<1> HIDE DEF u
<1>2. Ahead(s, v) => Ahead(u, v)
  BY <1>1 DEF Ahead
<1>3. NoneCompleted(s) /\ NoneCompleted(t) => NoneCompleted(u)
  <2> SUFFICES ASSUME NoneCompleted(s), NoneCompleted(t), NEW i \in 1..(Len(s) + Len(t))
               PROVE  u[i].k # "completed"
    BY <1>1 DEF NoneCompleted
  <2>1. i > Len(s) => i - Len(s) \in 1..Len(t)
    BY <1>1
  <2> QED BY <1>1, <2>1 DEF NoneCompleted
<1> QED BY <1>2, <1>3 DEF u

(* What parse_line makes of a chunk, of the end of a turn and of the rest. *)
LEMMA ParseText ==
  ASSUME NEW line \in Lines
  PROVE  /\ IsSaid(line) => Said(Parse(line))
         /\ line.k # "completed" => NoneCompleted(Parse(line))
         /\ line.k = "text" => \E x \in Items : Parse(line) = <<x>> /\ x.k = "text" /\ x.v = line.v
<1>1. CASE line.k \in TurnKinds
  <2> DEFINE first == Item(Announced[line.k], line.v, InOrder(line.k, turnActive))
             second == Item(line.k, line.v, TRUE)
  <2>1. Parse(line) = <<first, second>>
    BY <1>1 DEF Parse
  <2>2. first.k \notin Told /\ second.k = line.k /\ second.v = line.v
    BY <1>1 DEF Item, Announced, TurnKinds, Told
  <2> HIDE DEF first, second
  <2>3. DOMAIN <<first, second>> = {1, 2}
    OBVIOUS
  <2>4. IsSaid(first) /\ (IsSaid(line) => IsSaid(second)) /\ line.k # "text"
    BY <1>1, <2>2 DEF IsSaid, TurnKinds
  <2>5. first.k # "completed"
    BY <2>2 DEF Told
  <2> QED BY <2>1, <2>2, <2>3, <2>4, <2>5 DEF Said, NoneCompleted
<1>2. CASE line.k \notin TurnKinds
  <2> DEFINE x == Item(line.k, line.v, line.k # "error")
  <2>1. Parse(line) = <<x>>
    BY <1>2 DEF Parse
  <2>2. x \in Items /\ x.k = line.k /\ x.v = line.v
    <3>1. line.k \in ItemKinds /\ line.v \in Nat /\ (line.k = "permission" => line.v \in Ids)
      BY KindNames DEF Lines, ItemKinds
    <3> QED BY <3>1, ItemIn DEF Item
  <2> HIDE DEF x
  <2>3. IsSaid(line) => IsSaid(x)
    BY <2>2 DEF IsSaid
  <2> QED BY <2>1, <2>2, <2>3 DEF Said, NoneCompleted
<1> QED BY <1>1, <1>2

(* The app-server says another line: a chunk is ahead of the end of its    *)
(* turn, since no end was said before it.                                  *)
LEMMA TextSay ==
  ASSUME StreamInv, TextInv, Say, UNCHANGED <<restOfOwner, threadVars>>
  PROVE  TextInv'
<1>0. wire \in Seq(Lines) /\ raw \in Seq(Items) /\ inbox \in Seq(Items) /\ talk \in Seq(Lines)
  BY DEF StreamInv, StreamTypes, TextInv, TalkInv
<1>u. UNCHANGED <<raw, inbox, held, pump, tracker, sink, fin, ingress, owner>>
  BY DEF Say, restOfOwner, ownerVars, pumpVars, sinkVars, threadVars
<1>1. PICK line \in NextLines : wire' = Append(wire, line) /\ talk' = Append(talk, line)
  BY DEF Say
<1>2. PICK c \in Conversations : Len(talk) < Len(c) /\ SubSeq(c, 1, Len(talk)) = talk /\ line = c[Len(talk) + 1]
  BY DEF NextLines, Possible
<1>3. c \in Seq(Lines) /\ line \in Lines
  BY <1>2, DriverAssumption
<1>4. TalkInv'
  <2>1. talk' \in Seq(Lines) /\ Len(talk') = Len(talk) + 1 /\ Len(talk') <= Len(c)
    BY <1>0, <1>1, <1>2, <1>3
  <2>2. \A i \in 1..Len(talk) : talk[i] = c[i]
    <3>1. \A i \in 1..Len(talk) : SubSeq(c, 1, Len(talk))[i] = c[i]
      BY <1>0, <1>2, <1>3
    <3> QED BY <1>2, <3>1
  <2>3. \A i \in 1..Len(talk') : talk'[i] = c[i]
    BY <1>0, <1>1, <1>2, <1>3, <2>2
  <2> QED BY <2>1, <2>3 DEF TalkInv
<1>5. OfTalk(sink.activity)'
  BY <1>0, <1>1, <1>3, <1>u, HeardGrows DEF TextInv, OfTalk
<1>6. \A i \in DOMAIN talk : i \in DOMAIN talk' /\ talk'[i] = talk[i]
  BY <1>0, <1>1
<1>7. Len(talk) + 1 \in DOMAIN talk' /\ talk'[Len(talk) + 1] = line
  BY <1>0, <1>1, <1>3
<1>8. ~NoneCompleted(talk) => ~NoneCompleted(talk')
  BY <1>6 DEF NoneCompleted
<1>9. SaidInv'
  <2>1. Said(raw)' /\ Said(inbox)' /\ IsSaid(held)'
    BY <1>6, <1>u DEF TextInv, SaidInv, Said, IsSaid
  <2>2. \A i \in DOMAIN wire' : wire'[i] = line \/ (i \in DOMAIN wire /\ wire'[i] = wire[i])
    BY <1>0, <1>1, <1>3
  <2>3. Said(wire)'
    BY <1>6, <1>7, <2>2 DEF TextInv, SaidInv, Said, IsSaid
  <2> QED BY <1>8, <1>u, <2>1, <2>3 DEF TextInv, SaidInv
<1>10. Alone' = Alone /\ Calm' = Calm
  BY <1>u DEF Alone, Calm
<1>11. \A v : Ahead(talk', v) => Ahead(talk, v) \/ (NoneCompleted(talk) /\ line.k = "text" /\ line.v = v)
  BY <1>0, <1>1, <1>3, AheadAppend
<1>12. \A v : InFlight(v) => InFlight(v)'
  <2>1. \A v : Ahead(wire, v) => Ahead(wire', v)
    BY <1>0, <1>1, <1>3, AheadAppend
  <2> QED BY <1>u, <2>1 DEF InFlight
<1>13. ASSUME NEW v, NoneCompleted(talk), line.k = "text", line.v = v
       PROVE  InFlight(v)' /\ tracker.boundary # "completed"
  <2>1. NoneCompleted(wire) /\ NoneCompleted(raw) /\ NoneCompleted(inbox)
    BY <1>13 DEF TextInv, SaidInv, Said, IsSaid, Told, NoneCompleted
  <2>2. Ahead(wire', v)
    BY <1>0, <1>1, <1>3, <1>13, <2>1, AheadAppend
  <2> QED BY <1>13, <1>u, <2>1, <2>2 DEF InFlight, TextInv, SaidInv
<1>14. CalmInv'
  BY <1>10, <1>11, <1>12, <1>13, <1>u DEF TextInv, CalmInv
<1>15. DoneInv'
  BY <1>8, <1>10, <1>11, <1>u DEF TextInv, DoneInv
<1> QED BY <1>4, <1>5, <1>9, <1>14, <1>15 DEF TextInv

\* A chunk on its way stays on its way or reaches the text.
Flows == \A v \in Nat : InFlight(v) /\ tracker.boundary # "completed" =>
           Kept(sink'.activity, v) \/ (InFlight(v)' /\ tracker'.boundary # "completed")

(* Steps that neither say a line nor decide to finish the process. *)
LEMMA TextKept ==
  ASSUME TextInv, UNCHANGED <<talk, fin, ingress>>, OfTalk(sink'.activity), StillKept(sink.activity, sink'.activity), SaidInv',
         Calm /\ CalmInv => (owner' = "Terminal" => pump' = "ended") /\ Flows
  PROVE  TextInv'
<1>1. TalkInv' /\ OfTalk(sink.activity)'
  BY DEF TextInv, TalkInv, OfTalk
<1>2. Alone' = Alone /\ Calm' = Calm /\ \A v : Ahead(talk', v) = Ahead(talk, v)
  BY DEF Alone, Calm
<1>3. CalmInv'
  <2>1. Calm => CalmInv /\ Flows /\ ingress' = "Running" /\ (owner' = "Terminal" => pump' = "ended")
    BY DEF TextInv, CalmInv
  <2>2. ASSUME Calm, NEW v \in Nat, Ahead(talk', v)
        PROVE  Kept(sink'.activity, v) \/ (InFlight(v)' /\ tracker'.boundary # "completed")
    <3>1. Kept(sink.activity, v) \/ (InFlight(v) /\ tracker.boundary # "completed")
      BY <1>2, <2>1, <2>2 DEF CalmInv
    <3> QED BY <2>1, <2>2, <3>1 DEF Flows, StillKept
  <2> QED BY <1>2, <2>1, <2>2 DEF CalmInv
<1>4. DoneInv'
  BY <1>2 DEF TextInv, DoneInv, StillKept
<1> QED BY <1>1, <1>3, <1>4 DEF TextInv

(* The reader passes a chunk on, ahead of the end of its turn. *)
LEMMA TextRead ==
  ASSUME StreamInv, SaidInv, Read, UNCHANGED <<restOfOwner, threadVars>>
  PROVE  SaidInv' /\ Flows
<1>0. wire \in Seq(Lines) /\ raw \in Seq(Items) /\ inbox \in Seq(Items)
  BY DEF StreamInv, StreamTypes
<1>1. /\ wire # <<>> /\ wire' = Tail(wire) /\ raw' = raw \o Parse(Head(wire))
      /\ UNCHANGED <<talk, inbox, held, tracker, sink>>
  BY DEF Read, restOfOwner, pumpVars, sinkVars
<1>2. Head(wire) \in Lines
  BY <1>0, <1>1
<1>3. Parse(Head(wire)) \in Seq(Items)
  BY <1>2, ParseItems
<1>4. SaidInv'
  <2>1. Said(wire') /\ IsSaid(Head(wire))
    BY <1>0, <1>1, SaidQueues DEF SaidInv
  <2>2. Said(Parse(Head(wire)))
    BY <1>2, <2>1, ParseText
  <2>3. Said(raw')
    BY <1>0, <1>1, <1>3, <2>2, SaidQueues DEF SaidInv
  <2> QED BY <1>1, <2>1, <2>3 DEF SaidInv, Said, IsSaid
<1>5. ASSUME NEW v \in Nat, InFlight(v)
      PROVE  InFlight(v)'
  <2>1. Ahead(raw, v) => Ahead(raw', v)
    BY <1>0, <1>1, <1>3, AheadJoin
  <2>2. CASE Ahead(wire, v) /\ NoneCompleted(raw) /\ NoneCompleted(inbox)
    <3>1. /\ Head(wire).k # "completed"
          /\ Ahead(wire', v) \/ (Head(wire).k = "text" /\ Head(wire).v = v)
      BY <1>0, <1>1, <2>2, AheadTail
    <3>2. NoneCompleted(Parse(Head(wire)))
      BY <1>2, <3>1, ParseText
    <3>3. NoneCompleted(raw')
      BY <1>0, <1>1, <1>3, <2>2, <3>2, AheadJoin
    <3>4. CASE Head(wire).k = "text" /\ Head(wire).v = v
      <4>1. PICK x \in Items : Parse(Head(wire)) = <<x>> /\ x.k = "text" /\ x.v = v
        BY <1>2, <3>4, ParseText
      <4>2. raw' = Append(raw, x)
        BY <1>0, <1>1, <4>1, JoinOne
      <4>3. Ahead(raw', v)
        BY <1>0, <2>2, <4>1, <4>2, AheadAppend
      <4> QED BY <1>1, <2>2, <4>3 DEF InFlight
    <3> QED BY <1>1, <2>2, <3>1, <3>3, <3>4 DEF InFlight
  <2> QED BY <1>1, <1>5, <2>1, <2>2 DEF InFlight
<1> QED BY <1>1, <1>4, <1>5 DEF Flows

(* So does the dispatcher. *)
LEMMA TextDispatch ==
  ASSUME StreamInv, SaidInv, Dispatch, UNCHANGED <<restOfOwner, threadVars>>
  PROVE  SaidInv' /\ Flows
<1>0. wire \in Seq(Lines) /\ raw \in Seq(Items) /\ inbox \in Seq(Items)
  BY DEF StreamInv, StreamTypes
<1>1. raw # <<>> /\ raw' = Tail(raw) /\ UNCHANGED <<talk, wire, held, tracker, sink>>
  BY DEF Dispatch, DispatchResponse, DispatchExit, DispatchOther, restOfOwner, pumpVars, sinkVars
<1>2. Head(raw) \in Items
  BY <1>0, <1>1
<1>3. \/ inbox' = inbox /\ Head(raw).k # "text"
      \/ \E item \in Items : /\ inbox' = Append(inbox, item) /\ (item.k \in Told => item = Head(raw))
                             /\ Head(raw).k = "text" => item = Head(raw)
  <2>1. CASE DispatchResponse
    <3>1. Item("unmatched", Head(raw).v, Head(raw).ok) \in Items
          /\ Item("unmatched", Head(raw).v, Head(raw).ok).k = "unmatched"
      <4>1. Head(raw).v \in Nat /\ Head(raw).ok \in BOOLEAN
        BY <1>2 DEF Items
      <4>2. "unmatched" \in ItemKinds
        BY DEF ItemKinds
      <4> QED BY <4>1, <4>2, ItemIn
    <3> QED BY <2>1, <3>1 DEF DispatchResponse, Told
  <2>2. CASE DispatchExit \/ DispatchOther
    BY <1>2, <2>2 DEF DispatchExit, DispatchOther
  <2> QED BY <2>1, <2>2 DEF Dispatch
<1>4. SaidInv'
  <2>1. Said(raw') /\ IsSaid(Head(raw))
    BY <1>0, <1>1, SaidQueues DEF SaidInv
  <2>2. \A item : item.k \notin Told => IsSaid(item)
    BY DEF IsSaid
  <2>3. Said(inbox')
    <3>1. Said(inbox)
      BY DEF SaidInv
    <3> QED BY <1>0, <1>3, <2>1, <2>2, <3>1, SaidQueues
  <2> QED BY <1>1, <2>1, <2>3 DEF SaidInv, Said, IsSaid
<1>5. ASSUME NEW v \in Nat, InFlight(v)
      PROVE  InFlight(v)'
  <2>1. Ahead(inbox, v) => Ahead(inbox', v)
    <3>1. \A item \in Items : Ahead(inbox, v) => Ahead(Append(inbox, item), v)
      BY <1>0, AheadAppend
    <3> QED BY <1>3, <3>1
  <2>2. /\ NoneCompleted(inbox) /\ Head(raw).k # "completed" => NoneCompleted(inbox')
        /\ NoneCompleted(inbox) /\ Head(raw).k = "text" /\ Head(raw).v = v => Ahead(inbox', v)
    <3>1. CASE inbox' = inbox /\ Head(raw).k # "text"
      BY <3>1
    <3>2. CASE ~(inbox' = inbox /\ Head(raw).k # "text")
      <4>1. PICK item \in Items : /\ inbox' = Append(inbox, item) /\ (item.k \in Told => item = Head(raw))
                                  /\ Head(raw).k = "text" => item = Head(raw)
        BY <1>3, <3>2
      <4>2. item.k = "completed" => Head(raw).k = "completed"
        BY <4>1 DEF Told
      <4> QED BY <1>0, <4>1, <4>2, AheadAppend
    <3> QED BY <3>1, <3>2
  <2>3. CASE Ahead(raw, v) /\ NoneCompleted(inbox)
    <3>1. /\ Head(raw).k # "completed"
          /\ Ahead(raw', v) \/ (Head(raw).k = "text" /\ Head(raw).v = v)
      BY <1>0, <1>1, <2>3, AheadTail
    <3>2. CASE Head(raw).k = "text" /\ Head(raw).v = v
      <4>1. Ahead(inbox', v)
        BY <2>2, <2>3, <3>2
      <4> QED BY <4>1 DEF InFlight
    <3> QED BY <2>2, <2>3, <3>1, <3>2 DEF InFlight
  <2>4. CASE Ahead(wire, v) /\ NoneCompleted(raw) /\ NoneCompleted(inbox)
    <3>1. NoneCompleted(raw') /\ Head(raw).k # "completed"
      BY <1>0, <1>1, <2>4, AheadTail
    <3> QED BY <1>1, <2>2, <2>4, <3>1 DEF InFlight
  <2> QED BY <1>1, <1>5, <2>1, <2>3, <2>4 DEF InFlight
<1> QED BY <1>1, <1>4, <1>5 DEF Flows

(* The app-server and the threads of the driver. *)
LEMMA TextDriver ==
  ASSUME StreamInv, TextInv, DriverStep
  PROVE  TextInv'
<1>u. UNCHANGED <<restOfOwner, threadVars>> /\ UNCHANGED <<held, pump, tracker, sink, fin, ingress, owner>>
  BY DEF DriverStep, restOfOwner, ownerVars, pumpVars, sinkVars, threadVars
<1>1. CASE Say
  BY <1>1, <1>u, TextSay
<1>2. CASE ~Say
  <2>1. UNCHANGED talk
    BY <1>2 DEF DriverStep, DriverThreads, AppServer, Read, ReadEof, MonitorPublishes, Dispatch, DispatchEnds, Exit, OrphanDies
  <2>2. SaidInv' /\ Flows
    <3>1. CASE Read
      BY <1>u, <3>1, TextRead DEF TextInv
    <3>2. CASE Dispatch
      BY <1>u, <3>2, TextDispatch DEF TextInv
    <3>3. CASE (\E status, orphan : Exit(status, orphan)) \/ OrphanDies \/ ReadEof \/ DispatchEnds
      <4>1. UNCHANGED <<wire, raw, inbox>>
        BY <3>3 DEF Exit, OrphanDies, ReadEof, DispatchEnds
      <4> QED BY <1>u, <2>1, <4>1 DEF TextInv, SaidInv, Said, IsSaid, Flows, InFlight
    <3>4. CASE MonitorPublishes
      <4> DEFINE e == Item("exit", 0, proc.exit = "zero")
      <4>1. raw' = Append(raw, e) /\ UNCHANGED <<wire, inbox>>
        BY <3>4 DEF MonitorPublishes
      <4>2. e \in Items /\ e.k = "exit"
        BY ItemIn DEF ItemKinds
      <4> HIDE DEF e
      <4>3. raw \in Seq(Items) /\ IsSaid(e)
        BY <4>2 DEF StreamInv, StreamTypes, IsSaid, Told
      <4>4. SaidInv'
        <5>1. Said(raw')
          BY <4>1, <4>2, <4>3, SaidQueues DEF TextInv, SaidInv
        <5> QED BY <1>u, <2>1, <4>1, <5>1 DEF TextInv, SaidInv, Said, IsSaid
      <4>5. \A v : (Ahead(raw, v) => Ahead(raw', v)) /\ (NoneCompleted(raw) => NoneCompleted(raw'))
        BY <4>1, <4>2, <4>3, AheadAppend
      <4> QED BY <1>u, <4>1, <4>4, <4>5 DEF Flows, InFlight
    <3> QED BY <1>2, <3>1, <3>2, <3>3, <3>4 DEF DriverStep, DriverThreads, AppServer
  <2>3. OfTalk(sink'.activity) /\ StillKept(sink.activity, sink'.activity)
    BY <1>u DEF TextInv, StillKept
  <2>4. Calm /\ CalmInv => (owner' = "Terminal" => pump' = "ended")
    BY <1>u DEF CalmInv
  <2> QED BY <1>u, <2>1, <2>2, <2>3, <2>4, TextKept
<1> QED BY <1>1, <1>2

(* The pump: the tracker sees the end of a turn only after its chunks, and *)
(* the sink has the chunk that the pump holds before it takes that end.    *)
LEMMA TextPump ==
  ASSUME FewIdentities, OneEventPerId, StreamInv, OwnerInv, TextInv, LaneInv, Pump
  PROVE  TextInv'
<1>0. /\ wire \in Seq(Lines) /\ raw \in Seq(Items) /\ inbox \in Seq(Items) /\ held \in Items /\ OwnerTypes
      /\ pump # "holding" => held = NoItem
  BY DEF StreamInv, StreamTypes, QueueInv, OwnerInv
<1>u. UNCHANGED <<talk, fin, ingress, wire, raw>>
  BY DEF Pump, PumpTake, PumpCannotAnswer, PumpEmit, threadVars, driverVars
<1>n. NoItem.k \notin Told /\ NoItem.k # "text"
  BY DEF NoItem, Item, None, Told
<1>1. CASE PumpTake
  <2>1. /\ pump = "idle" /\ inbox # <<>> /\ inbox' = Tail(inbox) /\ held' = Head(inbox) /\ pump' = "holding"
        /\ tracker' = TrackerObserve(Head(inbox)) /\ UNCHANGED <<sink, owner>>
    BY <1>1 DEF PumpTake, ownerVars, sinkVars
  <2>2. tracker \in Trackers
    BY DEF LaneInv, TableTypes
  <2>3. /\ tracker'.boundary = "completed" => tracker.boundary = "completed" \/ Head(inbox).k = "completed"
    BY <2>1, <2>2 DEF TrackerObserve, Trackers, None
  <2>4. Said(inbox') /\ IsSaid(Head(inbox))
    BY <1>0, <2>1, SaidQueues DEF TextInv, SaidInv
  <2>5. SaidInv'
    <3>1. Head(inbox).k = "completed" => ~NoneCompleted(talk)
      BY <2>4 DEF IsSaid, Told, NoneCompleted
    <3> QED BY <1>u, <2>1, <2>3, <2>4, <3>1 DEF TextInv, SaidInv, Said, IsSaid
  <2>6. Flows
    <3> SUFFICES ASSUME NEW v \in Nat, InFlight(v), tracker.boundary # "completed"
                 PROVE  InFlight(v)' /\ tracker'.boundary # "completed"
      BY DEF Flows
    <3>1. ~(held.k = "text" /\ held.v = v)
      BY <1>0, <1>n, <2>1
    <3>2. CASE Ahead(inbox, v)
      <4>1. /\ Head(inbox).k # "completed"
            /\ Ahead(inbox', v) \/ (Head(inbox).k = "text" /\ Head(inbox).v = v)
        BY <1>0, <2>1, <3>2, AheadTail
      <4> QED BY <2>1, <2>3, <4>1 DEF InFlight
    <3>3. CASE NoneCompleted(inbox)
      <4>1. NoneCompleted(inbox') /\ Head(inbox).k # "completed"
        BY <1>0, <2>1, <3>3, AheadTail
      <4> QED BY <1>u, <2>3, <3>1, <3>2, <4>1 DEF InFlight
    <3> QED BY <3>1, <3>2, <3>3 DEF InFlight
  <2>7. Calm /\ CalmInv => (owner' = "Terminal" => pump' = "ended")
    BY <2>1 DEF CalmInv
  <2>8. OfTalk(sink'.activity) /\ StillKept(sink.activity, sink'.activity)
    BY <2>1 DEF TextInv, StillKept
  <2> QED BY <1>u, <2>5, <2>6, <2>7, <2>8, TextKept
<1>2. CASE PumpCannotAnswer
  <2>1. pump' = "ended" /\ PublishTerminal("Lost") /\ UNCHANGED <<inbox, held, tracker>>
    BY <1>2 DEF PumpCannotAnswer, driverVars
  <2>2. OfTalk(sink'.activity) /\ StillKept(sink.activity, sink'.activity)
    BY <1>0, <2>1, PublishHeard DEF TextInv
  <2>3. SaidInv' /\ Flows
    BY <1>u, <2>1 DEF TextInv, SaidInv, Said, IsSaid, Flows, InFlight
  <2> QED BY <1>u, <2>1, <2>2, <2>3, TextKept
<1>3. CASE PumpEmit
  <2>1. /\ pump = "holding" /\ EmitDriver(held) /\ pump' = (IF held.k = "exit" THEN "ended" ELSE "idle")
        /\ held' = NoItem /\ UNCHANGED <<inbox, tracker>>
    BY <1>3 DEF PumpEmit, driverVars
  <2>2. /\ OfTalk(sink'.activity) /\ StillKept(sink.activity, sink'.activity)
        /\ owner # "Terminal" /\ ingress = "Running" /\ held.k = "text" => Kept(sink'.activity, held.v)
    <3>1. IsSaid(held) /\ TalkInv /\ OfTalk(sink.activity)
      BY DEF TextInv, SaidInv
    <3> QED BY <1>0, <2>1, <3>1, EmitHeard
  <2>3. SaidInv'
    BY <1>n, <1>u, <2>1 DEF TextInv, SaidInv, Said, IsSaid
  <2>4. ASSUME Calm, CalmInv
        PROVE  (owner' = "Terminal" => pump' = "ended") /\ Flows
    <3>1. owner # "Terminal" /\ ingress = "Running"
      BY <2>1, <2>4 DEF CalmInv
    <3>2. owner' = "Terminal" => held.k = "exit"
      BY <2>1, <3>1 DEF EmitDriver, StreamInv, QueueInv
    <3>3. Flows
      BY <1>u, <2>1, <2>2, <3>1 DEF Flows, InFlight
    <3> QED BY <2>1, <3>2, <3>3
  <2> QED BY <1>u, <2>2, <2>3, <2>4, TextKept
<1> QED BY <1>1, <1>2, <1>3 DEF Pump

\* What leads from the app-server to the text.
pathVars == <<talk, wire, raw, inbox, held, pump, tracker>>

(* The other threads leave the lines on their way alone. *)
LEMMA ControlKeepsPath ==
  ASSUME Control
  PROVE  UNCHANGED pathVars
<1> USE DEF pathVars, driverVars, streamVars, tableVars, restOfOwner, ownerVars, pumpVars, RemoveEntry, BeginRequest
<1>1. CASE Command
  BY <1>1 DEF Command, CmdBegin, CmdWrite, CmdReply, CmdTurn, CmdTimeout, MarkRunning, Recheck
<1>2. CASE \E r \in Responders : Respond(r)
  BY <1>2 DEF Respond, RespClaim, RespCheck, RespWrite, RespSent, RespComplete, RespFails, respFrame
<1>3. CASE Decide \/ Cancel \/ \E reason \in IdleTimeouts : SeeTimeout(reason)
  BY <1>3 DEF Decide, Cancel, StartFailed, DeliveryFailed, SeeBoundary, SeeTerminal, SeeSinkError, SeeViolation,
              SeeTimeout, CancelTask, LockTimeout, stopFrame
<1>4. CASE \E f \in Threads : Finish(f)
  BY <1>4 DEF Finish, CloseAndWait, Lock, FailClosed, Cooperate, Cooperated, FinishProcess, BeginStopping, Reap,
              AwaitBoundary, Publish, Finalize, Persist, stopFrame
<1> QED BY <1>1, <1>2, <1>3, <1>4 DEF Control

(* Steps of the threads: nobody comes back to where only the task's own    *)
(* thread may finish, and that thread begins to after a completed turn     *)
(* only when the tracker has seen its end.                                 *)
LEMMA TextMoved ==
  ASSUME TextInv, UNCHANGED pathVars, OfTalk(sink'.activity), StillKept(sink.activity, sink'.activity),
         Alone' => Alone, Calm' => Calm /\ UNCHANGED <<sink, ingress, owner>>,
         Alone' /\ fin'["task"].with = "completed" =>
           fin["task"].with = "completed" \/ (fin["task"].at = "idle" /\ tracker.boundary = "completed")
  PROVE  TextInv'
<1>1. TalkInv' /\ OfTalk(sink.activity)' /\ SaidInv'
  BY DEF TextInv, TalkInv, OfTalk, SaidInv, Said, IsSaid, NoneCompleted, pathVars
<1>2. \A v : Ahead(talk, v)' = Ahead(talk, v) /\ InFlight(v)' = InFlight(v)
  BY DEF pathVars, InFlight
<1>3. CalmInv'
  BY <1>2 DEF TextInv, CalmInv, pathVars
<1>4. DoneInv'
  <2> SUFFICES ASSUME Alone', fin'["task"].with = "completed"
               PROVE  (~NoneCompleted(talk) /\ \A v \in Nat : Ahead(talk, v) => Kept(sink.activity, v))'
    BY DEF DoneInv
  <2>1. ~NoneCompleted(talk) /\ \A v \in Nat : Ahead(talk, v) => Kept(sink.activity, v)
    <3>1. CASE fin["task"].with = "completed"
      BY <3>1 DEF TextInv, DoneInv
    <3>2. CASE fin["task"].at = "idle" /\ tracker.boundary = "completed"
      BY <3>2 DEF TextInv, SaidInv, CalmInv, Calm
    <3> QED BY <3>1, <3>2
  <2> QED BY <1>2, <2>1 DEF StillKept, NoneCompleted, pathVars
<1> QED BY <1>1, <1>3, <1>4 DEF TextInv

(* A thread that has begun to finish the process goes on. *)
LEMMA TextStep ==
  ASSUME TextInv, UNCHANGED pathVars, OfTalk(sink'.activity), StillKept(sink.activity, sink'.activity),
         NEW f \in Threads, NEW at, NEW with, NEW why, FinStep(f, at, with, why), at \notin {"starting", "idle"},
         f = "task" /\ with = "completed" =>
           fin["task"].with = "completed" \/ (fin["task"].at = "idle" /\ tracker.boundary = "completed")
  PROVE  TextInv'
<1>1. (Alone' => Alone /\ f = "task") /\ ~Calm'
  BY FinNames DEF FinStep, Alone, Calm
<1>2. f = "task" => fin'["task"].with = with
  BY DEF FinStep
<1> QED BY <1>1, <1>2, TextMoved

(* Commands, answers and decisions. *)
LEMMA TextThreads ==
  ASSUME TextInv, OwnerInv, FinInv,
         \/ Command \/ \E r \in Responders : Respond(r)
         \/ Decide \/ Cancel \/ \E reason \in IdleTimeouts : SeeTimeout(reason)
  PROVE  TextInv'
<1>0. /\ fin \in [Threads -> Fins] /\ OwnerTypes /\ "task" \in Threads /\ "cancel" \in Threads /\ None # "completed"
  BY FinNames DEF FinInv, OwnerInv, None
<1>1. UNCHANGED pathVars
  BY ControlKeepsPath DEF Control
<1>2. UNCHANGED sink
  <2>1. CASE Command
    BY <2>1 DEF Command, CmdBegin, CmdWrite, CmdReply, CmdTurn, CmdTimeout, MarkRunning, Recheck, restOfOwner, sinkVars, others
  <2>2. CASE \E r \in Responders : Respond(r)
    BY <2>2 DEF Respond, RespClaim, RespCheck, RespWrite, RespSent, RespComplete, RespFails, respFrame
  <2>3. CASE Decide \/ Cancel \/ \E reason \in IdleTimeouts : SeeTimeout(reason)
    BY <2>3 DEF Decide, Cancel, StartFailed, DeliveryFailed, SeeBoundary, SeeTerminal, SeeSinkError, SeeViolation,
                SeeTimeout, CancelTask, LockTimeout, stopFrame, sinkVars
  <2> QED BY <2>1, <2>2, <2>3
<1>3. OfTalk(sink'.activity) /\ StillKept(sink.activity, sink'.activity)
  BY <1>2 DEF TextInv, StillKept
<1>4. CASE UNCHANGED <<fin, ingress, owner>>
  <2>1. Alone' = Alone /\ Calm' = Calm
    BY <1>4 DEF Alone, Calm
  <2> QED BY <1>1, <1>2, <1>3, <1>4, <2>1, TextMoved
<1>5. CASE Command
  <2>1. CASE Recheck
    <3>1. UNCHANGED <<ingress, owner>> /\ fin["task"].at = "starting"
      BY <2>1 DEF Recheck, restOfOwner, ownerVars
    <3>2. CASE FinStep("task", "idle", fin["task"].with, fin["task"].why)
      <4>1. Alone' = Alone /\ Calm' = Calm /\ fin'["task"].with = fin["task"].with
        BY <3>1, <3>2 DEF FinStep, Alone, Calm
      <4> QED BY <1>1, <1>2, <1>3, <3>1, <4>1, TextMoved
    <3>3. CASE FinStep("task", "failClosed", None, "recheck")
      BY <1>0, <1>1, <1>3, <3>3, TextStep
    <3>4. FinStep("task", "idle", fin["task"].with, fin["task"].why) \/ FinStep("task", "failClosed", None, "recheck")
      BY <1>0, <2>1, FinNames, MoveIsStep, RecordIsStep DEF Recheck, Move
    <3> QED BY <3>2, <3>3, <3>4
  <2>2. CASE ~Recheck
    <3>1. UNCHANGED <<fin, ingress, owner>>
      BY <1>5, <2>2 DEF Command, CmdBegin, CmdWrite, CmdReply, CmdTurn, CmdTimeout, MarkRunning, restOfOwner, others,
                        threadVars, ownerVars
    <3> QED BY <1>4, <3>1
  <2> QED BY <2>1, <2>2
<1>6. CASE \E r \in Responders : Respond(r)
  <2>1. PICK r \in Responders : Respond(r)
    BY <1>6
  <2>2. CASE RespFails(r)
    <3>1. FinStep(r, "failClosed", None, "control") /\ r \in Threads
      BY <1>0, <2>2, FinNames, RecordIsStep DEF RespFails
    <3> QED BY <1>0, <1>1, <1>3, <3>1, TextStep
  <2>3. CASE ~RespFails(r)
    <3>1. UNCHANGED <<fin, ingress, owner>>
      BY <2>1, <2>3 DEF Respond, RespClaim, RespCheck, RespWrite, RespSent, RespComplete, respFrame, ownerVars
    <3> QED BY <1>4, <3>1
  <2> QED BY <2>2, <2>3
<1>7. CASE DeliveryFailed
  <2>1. UNCHANGED <<ingress, owner>>
    BY <1>7 DEF DeliveryFailed, ownerVars
  <2>2. UNCHANGED fin \/ FinStep("task", "begin", "failed", "delivery")
    BY <1>0, <1>7, DecideSteps
  <2> QED BY <1>0, <1>1, <1>3, <1>4, <2>1, <2>2, TextStep
<1>8. CASE SeeBoundary
  <2>1. fin["task"].at = "idle" /\ FinStep("task", "begin", tracker.boundary, "boundary")
    BY <1>0, <1>8, FinNames, RecordIsStep DEF SeeBoundary, TaskIdle, Begin
  <2> QED BY <1>0, <1>1, <1>3, <2>1, TextStep
<1>9. CASE StartFailed \/ SeeSinkError \/ SeeViolation \/ \E reason : SeeTimeout(reason)
  <2>1. \E at \in {"begin", "close"} : \E why : FinStep("task", at, None, why)
    BY <1>0, <1>9, DecideSteps
  <2> QED BY <1>0, <1>1, <1>3, <2>1, TextStep
<1>10. CASE SeeTerminal
  <2>1. FinStep("task", "persist", terminal, "exit") /\ terminal # "completed"
    BY <1>0, <1>10, DecideSteps DEF OwnerTypes, Terminals, Orderly
  <2> QED BY <1>0, <1>1, <1>3, <2>1, TextStep
<1>11. CASE CancelTask \/ LockTimeout
  <2>1. \E at \in {"close", "failClosed"} : \E with, why : FinStep("cancel", at, with, why)
    BY <1>0, <1>11, DecideSteps
  <2> QED BY <1>0, <1>1, <1>3, <2>1, TextStep
<1> QED BY <1>5, <1>6, <1>7, <1>8, <1>9, <1>10, <1>11 DEF Decide, Cancel

(* The threads that finish the process. *)
LEMMA TextFinish ==
  ASSUME FewIdentities, OneEventPerId, TextInv, OwnerInv, OwnerInv', FinInv, NEW f \in Threads, Finish(f)
  PROVE  TextInv'
<1>0. fin \in [Threads -> Fins] /\ OwnerTypes /\ OwnerTypes' /\ LogInv
  BY DEF FinInv, OwnerInv
<1>1. UNCHANGED pathVars
  BY ControlKeepsPath DEF Control
<1>2. OfTalk(sink'.activity) /\ StillKept(sink.activity, sink'.activity)
  <2>1. CASE Publish(f)
    BY <1>0, <2>1, PublishHeard DEF Publish, TextInv
  <2>2. CASE Persist(f)
    <3>1. sink'.activity = sink.activity
      BY <1>0, <2>2, PersistSink
    <3> QED BY <3>1 DEF TextInv, StillKept
  <2>3. CASE ~Publish(f) /\ ~Persist(f)
    <3>1. UNCHANGED sink
      BY <2>3 DEF Finish, CloseAndWait, Lock, FailClosed, Cooperate, Cooperated, FinishProcess, BeginStopping, Reap,
                  AwaitBoundary, Finalize, stopFrame, sinkVars
    <3> QED BY <3>1 DEF TextInv, StillKept
  <2> QED BY <2>1, <2>2, <2>3
<1>3. "completed" \notin Terminals /\ "completed" \notin Results /\ None # "completed" /\ Outcomes(f) \subseteq Results
  BY OutcomesAreResults DEF Terminals, Orderly, Results, None
<1>4. \E at, with, why : /\ FinStep(f, at, with, why) /\ at \notin {"starting", "idle"}
                         /\ with # "completed" \/ with = fin[f].with
  <2>1. CASE CloseAndWait(f) \/ Lock(f) \/ FailClosed(f) \/ Cooperate(f) \/ Cooperated(f)
    BY <1>0, <1>3, <2>1, FinishSteps
  <2>2. CASE BeginStopping(f) \/ Reap(f)
    BY <1>0, <1>3, <2>2, FinishSteps DEF OwnerTypes
  <2>3. CASE AwaitBoundary(f)
    BY <1>0, <1>3, <2>3, FinishSteps
  <2>4. CASE Publish(f)
    <3>1. owner' = "Terminal"
      BY <2>4 DEF Publish, PublishTerminal
    <3>2. terminal' \in Terminals
      BY <1>0, <3>1 DEF OwnerTypes
    <3> QED BY <1>0, <1>3, <2>4, <3>2, FinishSteps
  <2>5. CASE Finalize(f) \/ Persist(f)
    BY <1>0, <1>3, <2>5, FinishSteps
  <2> QED BY <2>1, <2>2, <2>3, <2>4, <2>5 DEF Finish, FinishProcess
<1> QED BY <1>1, <1>2, <1>4, TextStep

(* The text, what is on its way to it and when it is whole, in every state. *)
LEMMA TextInvariant == FewIdentities /\ OneEventPerId /\ Spec => []TextInv
<1>1. Init => TextInv
  <2> SUFFICES ASSUME Init
               PROVE  TextInv
    OBVIOUS
  <2>1. /\ talk = <<>> /\ wire = <<>> /\ raw = <<>> /\ inbox = <<>> /\ held = NoItem
        /\ tracker.boundary = None /\ ingress = "Running" /\ owner = "Running" /\ sink.activity = NoActivity
        /\ fin["task"].with = None
    BY FinNames DEF Init, DriverInit
  <2>2. TalkInv
    BY <2>1 DEF TalkInv
  <2>3. OfTalk(sink.activity)
    BY <2>1 DEF OfTalk, Heard, NoActivity, ActivityFields, Sampled, Kept, OneEach, Samples, None
  <2>4. SaidInv
    BY <2>1 DEF SaidInv, Said, IsSaid, Told, NoItem, Item, None
  <2>5. CalmInv /\ DoneInv
    BY <2>1 DEF CalmInv, DoneInv, Ahead, None
  <2> QED BY <2>2, <2>3, <2>4, <2>5 DEF TextInv
<1>2. ASSUME FewIdentities, OneEventPerId, TextInv, StreamInv, OwnerInv, FinInv, OwnerInv', LaneInv, [Next]_vars
      PROVE  TextInv'
  <2>1. CASE UNCHANGED vars
    <3>1. UNCHANGED pathVars /\ UNCHANGED <<fin, ingress, owner, sink>>
      BY <2>1 DEF vars, pathVars, driverVars, streamVars, ownerVars, pumpVars, sinkVars, threadVars
    <3>2. Alone' = Alone /\ Calm' = Calm
      BY <3>1 DEF Alone, Calm
    <3>3. OfTalk(sink'.activity) /\ StillKept(sink.activity, sink'.activity)
      BY <1>2, <3>1 DEF TextInv, StillKept
    <3> QED BY <1>2, <3>1, <3>2, <3>3, TextMoved
  <2>2. CASE DriverStep
    BY <1>2, <2>2, TextDriver
  <2>3. CASE Pump
    BY <1>2, <2>3, TextPump
  <2>4. CASE \/ Command \/ \E r \in Responders : Respond(r)
             \/ Decide \/ Cancel \/ \E reason \in IdleTimeouts : SeeTimeout(reason)
    BY <1>2, <2>4, TextThreads
  <2>5. CASE \E f \in Threads : Finish(f)
    BY <1>2, <2>5, TextFinish
  <2> QED BY <2>1, <2>2, <2>3, <2>4, <2>5, <1>2 DEF Next
<1>3. CASE FewIdentities /\ OneEventPerId
  <2>1. TextInv /\ StreamInv /\ OwnerInv /\ FinInv /\ OwnerInv' /\ LaneInv /\ [Next]_vars => TextInv'
    BY <1>2, <1>3
  <2> QED BY <1>1, <2>1, StreamInvariant, OwnerInvariant, LaneInvariant, PTL DEF Spec
<1> QED BY <1>3

(* The text has no chunk twice and is not dropped while it is within its   *)
(* limit, and a turn that the monitor completes naturally has lost no      *)
(* chunk said before its end: of every conversation whose identities the   *)
(* tracker can remember and whose event ids name one event each.           *)
THEOREM TextCompletes == FewIdentities /\ OneEventPerId /\ Spec => []TextIsComplete
<1>1. ASSUME TextInv
      PROVE  TextIsComplete
  <2> DEFINE text == sink.activity.text
             oversized == sink.activity.oversized
  <2>1. talk \in Seq(Lines) /\ Heard(sink.activity, SampleIds(talk), Chunks(talk), Thoughts(talk))
    BY <1>1 DEF TextInv, TalkInv, OfTalk
  <2>2. \A i, j \in DOMAIN text : text[i] = text[j] => i = j
    BY <2>1 DEF Heard
  <2>3. SaidChunks(Len(talk)) = Chunks(talk)
    BY <2>1 DEF SaidChunks, Chunks
  <2>4. oversized => Cardinality(SaidChunks(Len(talk))) > TextLimit
    BY <2>1, <2>3 DEF Heard
  <2>5. ASSUME fin["task"].with = "completed", \A f \in Threads \ {"task"} : fin[f].at = "idle",
               NEW j \in DOMAIN talk, talk[j].k = "completed", \A n \in 1..(j - 1) : talk[n].k # "completed",
               ~oversized, NEW v \in SaidChunks(j)
        PROVE  v \in {text[i] : i \in DOMAIN text}
    <3>1. PICK i \in 1..j : talk[i].k = "text" /\ v = talk[i].v
      BY DEF SaidChunks
    <3>2. j \in 1..Len(talk) /\ i \in DOMAIN talk /\ i # j /\ v \in Nat
      BY <2>1, <2>5, <3>1 DEF Lines
    <3>3. \A n \in 1..(i - 1) : talk[n].k # "completed"
      BY <2>5, <3>1, <3>2
    <3>4. Ahead(talk, v)
      BY <3>1, <3>2, <3>3 DEF Ahead
    <3>5. Kept(sink.activity, v)
      BY <1>1, <2>5, <3>2, <3>4 DEF TextInv, DoneInv, Alone
    <3> QED BY <2>5, <3>5 DEF Kept
  <2> QED BY <2>2, <2>4, <2>5 DEF TextIsComplete
<1>2. TextInv => TextIsComplete
  BY <1>1
<1> QED BY <1>2, TextInvariant, PTL

(* ------------------------ the holder of the lock ----------------------- *)
\* After the first turn only messages are left to be sent, or the request to stop.
OnlySends(todo) == \A i \in DOMAIN todo : todo[i] = "send"
OrderInv ==
  /\ CreatesFirst(cmd.todo)
  /\ cmd.turns > 0 => cmd.todo = <<"stop">> \/ OnlySends(cmd.todo)
  /\ phase = "RUNNING" => cmd.turns > 0

\* The task's thread delivers a message, or has yet to see that the delivery failed.
Delivering ==
  /\ fin["task"].at = "idle"
  /\ cmd.at = "failed" \/ (cmd.at \in {"write", "wait", "turn"} /\ Head(cmd.todo) = "send")

\* A thread asks the turn to stop, and the request is on its way or over.
Stopping(f) ==
  /\ fin[f].at = "cooperating"
  /\ cmd.todo = <<>> \/ (cmd.todo = <<"stop">> /\ cmd.at \in Busy \cup {"next"})

Active == {"failClosed", "cooperate"} \cup Finishing
AtWork(f) ==
  \/ f \in Responders /\ resp[f].at \in Working
  \/ fin[f].at \in Active
  \/ Stopping(f)
  \/ f = "task" /\ Delivering

\* The operation lock is never left behind: whoever holds it answers a request, delivers
\* a message, asks the turn to stop or finishes the process, and none of these waits for
\* the lock.
LockIsWorked == \A f \in operation : AtWork(f)

(* The order of what is to be sent, as requests are taken from it. *)
LEMMA OrderTail ==
  ASSUME NEW todo \in Seq(Methods), todo # <<>>
  PROVE  /\ CreatesFirst(todo) => CreatesFirst(Tail(todo))
         /\ OnlySends(todo) => OnlySends(Tail(todo)) /\ Head(todo) = "send"
         /\ CreatesFirst(todo) /\ Head(todo) = "send" => OnlySends(todo)
<1>1. /\ Len(todo) \in Nat /\ Len(todo) > 0 /\ DOMAIN todo = 1..Len(todo)
      /\ Len(Tail(todo)) = Len(todo) - 1 /\ DOMAIN Tail(todo) = 1..(Len(todo) - 1)
      /\ \A i \in 1..(Len(todo) - 1) : Tail(todo)[i] = todo[i + 1]
      /\ Head(todo) = todo[1]
  OBVIOUS
<1>2. ASSUME CreatesFirst(todo), NEW i \in DOMAIN Tail(todo), NEW j \in DOMAIN Tail(todo), i < j,
             Tail(todo)[i] = "send"
      PROVE  Tail(todo)[j] = "send"
  <2>1. i + 1 \in DOMAIN todo /\ j + 1 \in DOMAIN todo /\ i + 1 < j + 1
    BY <1>1, <1>2
  <2>2. todo[i + 1] = "send"
    BY <1>1, <1>2
  <2>3. todo[j + 1] = "send"
    BY <1>2, <2>1, <2>2 DEF CreatesFirst
  <2> QED BY <1>1, <2>3
<1>3. ASSUME OnlySends(todo), NEW i \in DOMAIN Tail(todo)
      PROVE  Tail(todo)[i] = "send"
  BY <1>1, <1>3 DEF OnlySends
<1>4. OnlySends(todo) => Head(todo) = "send"
  BY <1>1 DEF OnlySends
<1>5. ASSUME CreatesFirst(todo), Head(todo) = "send", NEW j \in DOMAIN todo
      PROVE  todo[j] = "send"
  <2>1. CASE j = 1
    BY <1>1, <1>5, <2>1
  <2>2. CASE j # 1
    <3>1. 1 \in DOMAIN todo /\ 1 < j /\ todo[1] = "send"
      BY <1>1, <1>5, <2>2
    <3> QED BY <1>5, <3>1 DEF CreatesFirst
  <2> QED BY <2>1, <2>2
<1>6. CreatesFirst(todo) => CreatesFirst(Tail(todo))
  BY <1>2 DEF CreatesFirst
<1>7. OnlySends(todo) => OnlySends(Tail(todo))
  BY <1>3 DEF OnlySends
<1>8. CreatesFirst(todo) /\ Head(todo) = "send" => OnlySends(todo)
  BY <1>5 DEF OnlySends
<1> QED BY <1>4, <1>6, <1>7, <1>8

(* The order of nothing and of one request. *)
LEMMA OrderShort ==
  /\ CreatesFirst(<<>>) /\ OnlySends(<<>>)
  /\ \A m : CreatesFirst(<<m>>) /\ (m = "send" => OnlySends(<<m>>))
<1>1. CreatesFirst(<<>>) /\ OnlySends(<<>>)
  BY DEF CreatesFirst, OnlySends
<1>2. ASSUME NEW m
      PROVE  CreatesFirst(<<m>>) /\ (m = "send" => OnlySends(<<m>>))
  <2>1. DOMAIN <<m>> = {1} /\ <<m>>[1] = m
    OBVIOUS
  <2> QED BY <2>1 DEF CreatesFirst, OnlySends
<1> QED BY <1>1, <1>2

\* What a step may leave of the methods to be sent.
Left(todo) ==
  \/ todo = cmd.todo
  \/ todo = <<>>
  \/ todo = <<"stop">>
  \/ cmd.todo # <<>> /\ todo \in {Tail(cmd.todo), <<Head(cmd.todo)>>}

(* The order is kept when a request goes on, is over or is cut off. *)
LEMMA OrderStep ==
  ASSUME OrderInv, cmd \in Cmds, NEW at, NEW todo, NEW id, NEW turns, CmdStep(at, todo, id, turns), Left(todo),
         \/ turns = cmd.turns
         \/ turns = cmd.turns + 1 /\ cmd.todo # <<>> /\ Head(cmd.todo) = "send" /\ todo = Tail(cmd.todo),
         phase' = "RUNNING" => phase = "RUNNING" \/ turns > 0
  PROVE  OrderInv'
<1>1. cmd.todo \in Seq(Methods) /\ cmd.turns \in Nat
  BY CmdParts
<1>2. CreatesFirst(todo)
  BY <1>1, OrderTail, OrderShort DEF Left, OrderInv
<1>3. ASSUME turns > 0
      PROVE  todo = <<"stop">> \/ OnlySends(todo)
  <2>1. CASE turns = cmd.turns + 1 /\ cmd.todo # <<>> /\ Head(cmd.todo) = "send" /\ todo = Tail(cmd.todo)
    BY <1>1, <2>1, OrderTail DEF OrderInv
  <2>2. CASE turns = cmd.turns
    <3>1. cmd.todo = <<"stop">> \/ OnlySends(cmd.todo)
      BY <1>3, <2>2 DEF OrderInv
    <3>2. CASE cmd.todo = <<"stop">>
      <4>1. Head(cmd.todo) = "stop" /\ Tail(cmd.todo) = <<>>
        BY <3>2
      <4> QED BY <3>2, <4>1, OrderShort DEF Left
    <3>3. CASE OnlySends(cmd.todo)
      BY <1>1, <3>3, OrderTail, OrderShort DEF Left
    <3> QED BY <3>1, <3>2, <3>3
  <2> QED BY <2>1, <2>2
<1>4. phase' = "RUNNING" => turns > 0
  BY <1>1 DEF OrderInv
<1> QED BY <1>2, <1>3, <1>4 DEF OrderInv, CmdStep

(* request_stop_internal cuts off what is queued after the request in progress. *)
LEMMA StopCuts ==
  ASSUME LaneInv, OrderInv, RequestStop
  PROVE  /\ OrderInv' /\ cmd'.at = cmd.at
         /\ cmd.todo = <<>> => cmd'.todo = <<>>
         /\ cmd.todo = <<"stop">> => cmd'.todo = cmd.todo
         /\ cmd.at \in Busy => Head(cmd'.todo) = Head(cmd.todo)
<1>1. TableTypes /\ RequestInv /\ cmd \in Cmds
  BY DEF LaneInv, TableTypes
<1>2. PICK todo : /\ CmdStep(cmd.at, todo, cmd.id, cmd.turns)
                  /\ cmd.todo # <<>> /\ cmd.at # "next" => todo # <<>> /\ Head(todo) = Head(cmd.todo)
                  /\ cmd.todo = <<"stop">> => todo = cmd.todo
  BY <1>1, StopCmd
<1>3. /\ cmd'.todo = cmd.todo \/ cmd'.todo = <<>> \/ (cmd.todo # <<>> /\ cmd'.todo = <<Head(cmd.todo)>>)
      /\ cmd.todo = <<>> => cmd'.todo = <<>>
      /\ phase' = "RUNNING" => phase = "RUNNING"
  BY <1>1 DEF RequestStop, Cmds
<1>4. cmd'.at = cmd.at /\ cmd'.todo = todo
  BY <1>2 DEF CmdStep
<1>5. OrderInv'
  BY <1>1, <1>2, <1>3, <1>4, OrderStep DEF Left
<1>6. cmd.at \in Busy => Head(cmd'.todo) = Head(cmd.todo)
  BY <1>1, <1>2, <1>4 DEF RequestInv, Busy
<1> QED BY <1>2, <1>3, <1>4, <1>5, <1>6

WorkInv == OrderInv /\ LockIsWorked

(* A thread that holds the lock has not yet to wait for it. *)
LEMMA HolderAt ==
  ASSUME LaneInv, LockIsWorked, NEW f \in Threads, f \in operation
  PROVE  /\ fin[f].at \notin {"starting", "close", "lock"}
         /\ fin[f].at = "idle" => f \in Responders \/ (f = "task" /\ Delivering)
         /\ fin[f].at = "cooperating" => Stopping(f)
<1>1. AtWork(f) /\ LockInv
  BY DEF LockIsWorked, LaneInv
<1>2. CASE f \in Responders /\ resp[f].at \in Working
  BY <1>1, <1>2 DEF LockInv, Working
<1>3. CASE fin[f].at \in Active
  BY <1>3 DEF Active, Finishing
<1>4. CASE Stopping(f)
  BY <1>4 DEF Stopping
<1>5. CASE f = "task" /\ Delivering
  BY <1>5 DEF Delivering
<1> QED BY <1>1, <1>2, <1>3, <1>4, <1>5 DEF AtWork

(* Steps that leave the threads and the request alone. *)
LEMMA WorkKept ==
  ASSUME WorkInv, UNCHANGED <<phase, operation, fin, resp, cmd>>
  PROVE  WorkInv'
<1>1. OrderInv'
  BY DEF WorkInv, OrderInv
<1>2. LockIsWorked'
  BY DEF WorkInv, LockIsWorked, AtWork, Stopping, Delivering
<1> QED BY <1>1, <1>2 DEF WorkInv

\* The request in progress is left alone or cut off.
CmdCut ==
  /\ cmd'.at = cmd.at
  /\ cmd.todo = <<>> => cmd'.todo = <<>>
  /\ cmd.todo = <<"stop">> => cmd'.todo = cmd.todo
  /\ cmd.at \in Busy => Head(cmd'.todo) = Head(cmd.todo)

(* A thread that finishes the process goes on. *)
LEMMA WorkMoved ==
  ASSUME WorkInv, LaneInv, OrderInv', UNCHANGED resp, CmdCut,
         NEW f \in Threads, NEW at, NEW with, NEW why, FinStep(f, at, with, why),
         operation' \subseteq operation \cup {f}, f \in operation' => at \in Active
  PROVE  WorkInv'
<1>1. ASSUME NEW g \in operation'
      PROVE  AtWork(g)'
  <2>1. CASE g = f
    BY <1>1, <2>1 DEF AtWork, FinStep
  <2>2. CASE g # f
    <3>1. g \in operation /\ g \in Threads
      BY <1>1, <2>2 DEF LaneInv, ThreadTypes
    <3>2. AtWork(g) /\ fin'[g] = fin[g]
      BY <2>2, <3>1 DEF WorkInv, LockIsWorked, FinStep
    <3>3. CASE Stopping(g)
      BY <3>2, <3>3 DEF AtWork, Stopping, CmdCut
    <3>4. CASE g = "task" /\ Delivering
      BY <3>2, <3>4 DEF AtWork, Delivering, CmdCut, Busy
    <3> QED BY <3>2, <3>3, <3>4 DEF AtWork
  <2> QED BY <2>1, <2>2
<1>2. LockIsWorked'
  BY <1>1 DEF LockIsWorked
<1> QED BY <1>2 DEF WorkInv

(* The threads of the driver and the pump. *)
LEMMA WorkStream ==
  ASSUME WorkInv, DriverStep \/ Pump
  PROVE  WorkInv'
<1>1. UNCHANGED <<phase, operation, fin, resp, cmd>>
  BY DEF DriverStep, Pump, PumpTake, PumpCannotAnswer, PumpEmit, restOfOwner, threadVars
<1> QED BY <1>1, WorkKept

(* The responders. *)
LEMMA WorkRespond ==
  ASSUME WorkInv, LaneInv, FinInv, NEW r \in Responders, Respond(r)
  PROVE  WorkInv'
<1>0. /\ resp \in [Responders -> Resps] /\ fin \in [Threads -> Fins] /\ r \in Threads /\ LockInv
  BY FinNames DEF LaneInv, FinInv, ThreadTypes
<1>1. UNCHANGED <<phase, cmd>>
  BY DEF Respond, RespClaim, RespCheck, RespWrite, RespSent, RespComplete, RespFails, respFrame
<1>2. OrderInv'
  BY <1>1 DEF WorkInv, OrderInv
<1>3. \/ operation' = {}
      \/ operation' = {r} /\ resp'[r].at \in Working
      \/ operation' = {r} /\ FinStep(r, "failClosed", None, "control")
  <2>1. CASE \E q \in Ids : RespClaim(r, q)
    <3>1. operation' = {r}
      BY <2>1 DEF RespClaim
    <3>2. PICK q \in Ids : RespStep(r, "claimed", q)
      BY <1>0, <2>1, RespondSteps
    <3> QED BY <3>1, <3>2 DEF RespStep, Working
  <2>2. CASE RespCheck(r) \/ RespWrite(r) \/ RespSent(r) \/ RespComplete(r) \/ RespFails(r)
    <3>1. operation = {r}
      BY <1>0, <2>2 DEF RespCheck, RespWrite, RespSent, RespComplete, RespFails, LockInv, Working
    <3>2. CASE RespCheck(r)
      BY <1>0, <3>1, <3>2, RespondSteps DEF RespCheck, RespStep, Working
    <3>3. CASE RespWrite(r) \/ RespSent(r)
      BY <1>0, <3>1, <3>3, RespondSteps DEF RespWrite, RespSent, RespStep, Working
    <3>4. CASE RespComplete(r)
      BY <3>4 DEF RespComplete
    <3>5. CASE RespFails(r)
      BY <1>0, <3>1, <3>5, RecordIsStep, FinNames DEF RespFails
    <3> QED BY <2>2, <3>2, <3>3, <3>4, <3>5
  <2> QED BY <2>1, <2>2 DEF Respond
<1>4. LockIsWorked'
  BY <1>3 DEF LockIsWorked, AtWork, FinStep, Active
<1> QED BY <1>2, <1>4 DEF WorkInv

(* The decisions to finish. *)
LEMMA WorkDecide ==
  ASSUME WorkInv, LaneInv, OwnerInv, FinInv, Decide \/ Cancel \/ \E reason \in IdleTimeouts : SeeTimeout(reason)
  PROVE  WorkInv'
<1>0. /\ fin \in [Threads -> Fins] /\ OwnerTypes /\ BootInv /\ ThreadTypes /\ LockIsWorked /\ OrderInv
      /\ cmd \in Cmds /\ "task" \in Threads /\ "cancel" \in Threads
  BY FinNames DEF FinInv, OwnerInv, LaneInv, TableTypes, WorkInv
<1>1. UNCHANGED resp
  BY DEF Decide, Cancel, StartFailed, DeliveryFailed, SeeBoundary, SeeTerminal, SeeSinkError, SeeViolation,
         SeeTimeout, CancelTask, LockTimeout, stopFrame, finFrame
<1>2. CASE SeeViolation \/ \E reason : SeeTimeout(reason)
  <2>1. RequestStop /\ operation' = operation /\ operation # {"task"}
    BY <1>2 DEF SeeViolation, SeeTimeout, MonitorLooks, stopFrame
  <2>2. PICK why : FinStep("task", "close", None, why)
    BY <1>0, <1>2, DecideSteps
  <2>3. "task" \notin operation'
    BY <1>0, <2>1 DEF ThreadTypes
  <2>4. OrderInv' /\ CmdCut
    BY <1>0, <2>1, StopCuts DEF CmdCut
  <2> QED BY <1>0, <1>1, <2>1, <2>2, <2>3, <2>4, WorkMoved
<1>3. CASE CancelTask
  <2>1. RequestStop /\ operation' = operation /\ fin["cancel"].at = "idle"
    BY <1>3 DEF CancelTask, stopFrame
  <2>2. FinStep("cancel", "close", None, "cancel")
    BY <1>0, <1>3, DecideSteps
  <2>3. "cancel" \notin operation'
    BY <1>0, <2>1, HolderAt, ResponderNames
  <2>4. OrderInv' /\ CmdCut
    BY <1>0, <2>1, StopCuts DEF CmdCut
  <2> QED BY <1>0, <1>1, <2>1, <2>2, <2>3, <2>4, WorkMoved
<1>4. CASE SeeBoundary \/ SeeTerminal \/ SeeSinkError
  <2>1. operation = {} /\ operation' = {"task"} /\ UNCHANGED <<phase, cmd>>
    BY <1>4 DEF SeeBoundary, SeeTerminal, SeeSinkError, TaskIdle, finFrame
  <2>2. PICK at \in {"begin", "persist"} : \E with, why : FinStep("task", at, with, why)
    BY <1>0, <1>4, DecideSteps
  <2>3. OrderInv' /\ CmdCut /\ at \in Active
    BY <1>0, <2>1 DEF OrderInv, CmdCut, Active, Finishing
  <2> QED BY <1>0, <1>1, <2>1, <2>2, <2>3, WorkMoved
<1>5. CASE StartFailed \/ LockTimeout
  <2>1. UNCHANGED <<phase, cmd, operation>>
    BY <1>5 DEF StartFailed, LockTimeout, finFrame
  <2>2. PICK f \in {"task", "cancel"}, at \in {"begin", "failClosed"} : \E with, why : FinStep(f, at, with, why)
    BY <1>0, <1>5, DecideSteps
  <2>3. OrderInv' /\ CmdCut /\ at \in Active
    BY <1>0, <2>1 DEF OrderInv, CmdCut, Active, Finishing
  <2> QED BY <1>0, <1>1, <2>1, <2>2, <2>3, WorkMoved
<1>6. CASE DeliveryFailed
  <2>1. /\ operation = {"task"} /\ UNCHANGED phase /\ cmd' = [cmd EXCEPT !.at = "next"]
        /\ IF cmd.ended THEN operation' = {} ELSE operation' = operation
    BY <1>6 DEF DeliveryFailed
  <2>2. ~cmd.ended => FinStep("task", "begin", "failed", "delivery")
    BY <1>0, <1>6, DecideSteps
  <2>3. cmd'.todo = cmd.todo /\ cmd'.turns = cmd.turns
    BY <1>0, <2>1 DEF Cmds
  <2>4. OrderInv'
    BY <1>0, <2>1, <2>3 DEF OrderInv
  <2>5. LockIsWorked'
    BY <2>1, <2>2 DEF LockIsWorked, AtWork, FinStep, Active, Finishing
  <2> QED BY <2>4, <2>5 DEF WorkInv
<1> QED BY <1>2, <1>3, <1>4, <1>5, <1>6 DEF Decide, Cancel

(* The threads that finish the process. *)
LEMMA WorkFinish ==
  ASSUME WorkInv, LaneInv, OwnerInv, FinInv, OwnerInv', NEW f \in Threads, Finish(f)
  PROVE  WorkInv'
<1>0. /\ fin \in [Threads -> Fins] /\ OwnerTypes /\ BootInv /\ ThreadTypes /\ LockInv /\ LockIsWorked /\ OrderInv
      /\ cmd \in Cmds
  BY DEF FinInv, OwnerInv, LaneInv, TableTypes, WorkInv
<1>1. UNCHANGED resp
  BY DEF Finish, CloseAndWait, Lock, FailClosed, Cooperate, Cooperated, FinishProcess, BeginStopping, Reap,
         AwaitBoundary, Publish, Finalize, Persist, stopFrame, finFrame
<1>2. CASE FailClosed(f)
  <2>1. RequestStop /\ operation' = operation /\ FinStep(f, "begin", fin[f].with, fin[f].why)
    BY <1>0, <1>2, FinishSteps DEF FailClosed, stopFrame
  <2>2. OrderInv' /\ CmdCut /\ "begin" \in Active
    BY <1>0, <2>1, StopCuts DEF CmdCut, Active, Finishing
  <2> QED BY <1>1, <2>1, <2>2, WorkMoved
<1>3. CASE Cooperate(f) /\ ~UNCHANGED cmd
  <2>1. /\ cmd' = [cmd EXCEPT !.at = "next", !.todo = <<"stop">>] /\ Move(f, "cooperating")
        /\ fin[f].at = "cooperate" /\ UNCHANGED <<phase, operation>>
    BY <1>3 DEF Cooperate
  <2>2. operation = {f} /\ FinStep(f, "cooperating", fin[f].with, fin[f].why)
    BY <1>0, <2>1, MoveIsStep, FinNames DEF LockInv
  <2>3. cmd'.at = "next" /\ cmd'.todo = <<"stop">> /\ cmd'.turns = cmd.turns
    BY <1>0, <2>1 DEF Cmds
  <2>4. OrderInv'
    BY <1>0, <2>1, <2>3, OrderShort DEF OrderInv
  <2>5. Stopping(f)'
    BY <2>2, <2>3 DEF Stopping, FinStep
  <2>6. LockIsWorked'
    BY <2>1, <2>2, <2>5 DEF LockIsWorked, AtWork
  <2> QED BY <2>4, <2>6 DEF WorkInv
<1>4. CASE ~FailClosed(f) /\ UNCHANGED cmd
  <2>1. phase' = "RUNNING" => phase = "RUNNING"
    BY <1>4 DEF Finish, CloseAndWait, Lock, Cooperate, Cooperated, FinishProcess, BeginStopping, Reap,
                AwaitBoundary, Publish, Finalize, Persist
  <2>2. OrderInv' /\ CmdCut
    BY <1>0, <1>4, <2>1 DEF OrderInv, CmdCut
  <2>3. CASE CloseAndWait(f)
    <3>1. FinStep(f, "lock", fin[f].with, fin[f].why) /\ fin[f].at = "close" /\ operation' = operation
      BY <1>0, <2>3, FinishSteps DEF CloseAndWait
    <3>2. f \notin operation'
      BY <1>0, <3>1, HolderAt
    <3> QED BY <1>1, <2>2, <3>1, <3>2, WorkMoved
  <2>4. CASE Lock(f)
    <3>1. \/ FinStep(f, "done", None, IF f = "cancel" THEN fin[f].why ELSE None) /\ operation' = {}
          \/ FinStep(f, "cooperate", fin[f].with, fin[f].why) /\ operation' = {f}
      BY <1>0, <2>4, FinishSteps DEF Lock
    <3>2. "cooperate" \in Active
      BY DEF Active
    <3> QED BY <1>1, <2>2, <3>1, <3>2, WorkMoved
  <2>5. CASE Cooperate(f) \/ Cooperated(f)
    <3>1. FinStep(f, "begin", fin[f].with, fin[f].why) /\ operation' = operation
      <4>1. CASE Cooperated(f)
        BY <1>0, <4>1, FinishSteps DEF Cooperated
      <4>2. CASE Cooperate(f)
        <5>1. operation = {f} /\ LaneInv /\ operation' = operation
          BY <1>0, <4>2 DEF Cooperate, LockInv
        <5>2. cmd # [cmd EXCEPT !.at = "next", !.todo = <<"stop">>]
          <6>1. cmd.todo \in Seq({"create", "send"})
            BY <1>0, <4>2, <5>1 DEF Cooperate, LaneInv, RequestInv, Cooperating, LockInv
          <6>2. ASSUME cmd = [cmd EXCEPT !.at = "next", !.todo = <<"stop">>]
                PROVE  FALSE
            <7>1. cmd.todo = <<"stop">>
              BY <1>0, <6>2 DEF Cmds
            <7>2. Head(cmd.todo) = "stop" /\ Head(cmd.todo) \in {"create", "send"}
              BY <6>1, <7>1
            <7> QED BY <7>2
          <6> QED BY <6>2
        <5> QED BY <1>0, <1>4, <4>2, <5>1, <5>2, MoveIsStep, FinNames DEF Cooperate
      <4> QED BY <2>5, <4>1, <4>2
    <3>2. "begin" \in Active
      BY DEF Active, Finishing
    <3> QED BY <1>1, <2>2, <3>1, <3>2, WorkMoved
  <2>6. CASE BeginStopping(f) \/ Reap(f) \/ AwaitBoundary(f) \/ Publish(f)
    <3>1. operation' = operation
      BY <2>6 DEF BeginStopping, Reap, AwaitBoundary, Publish
    <3>2. Publish(f) => terminal' \in Terminals
      <4>1. Publish(f) => owner' = "Terminal"
        BY DEF Publish, PublishTerminal
      <4> QED BY <4>1 DEF OwnerInv, OwnerTypes
    <3>3. PICK at \in {"reap", "await", "publish", "persist"} : \E with : FinStep(f, at, with, fin[f].why)
      BY <1>0, <2>6, <3>2, FinishSteps
    <3>4. at \in Active
      BY <3>3 DEF Active, Finishing
    <3> QED BY <1>1, <2>2, <3>1, <3>3, <3>4, WorkMoved
  <2>7. CASE Finalize(f) \/ Persist(f)
    <3>1. \/ \E why : FinStep(f, "done", None, why) /\ operation' = operation \ {f}
          \/ \E with : FinStep(f, "store", with, fin[f].why) /\ operation' = operation
      <4>1. CASE Persist(f)
        BY <1>0, <4>1, FinishSteps DEF Persist
      <4>2. CASE Finalize(f) /\ phase = "TERMINAL"
        BY <1>0, <4>2, FinishSteps DEF Finalize
      <4>3. CASE Finalize(f) /\ phase # "TERMINAL"
        BY <1>0, <4>3, FinishSteps DEF Finalize
      <4> QED BY <2>7, <4>1, <4>2, <4>3
    <3>2. "store" \in Active /\ f \notin operation \ {f}
      BY DEF Active, Finishing
    <3> QED BY <1>1, <2>2, <3>1, <3>2, WorkMoved
  <2> QED BY <1>4, <2>3, <2>4, <2>5, <2>6, <2>7 DEF Finish, FinishProcess
<1>5. UNCHANGED cmd \/ FailClosed(f) \/ Cooperate(f)
  BY DEF Finish, CloseAndWait, Lock, Cooperated, FinishProcess, BeginStopping, Reap, AwaitBoundary, Publish,
         Finalize, Persist, finFrame
<1> QED BY <1>2, <1>3, <1>4, <1>5

(* Who waits for the request in progress once the row is running. *)
LEMMA RequestHolder ==
  ASSUME WorkInv, LaneInv, cmd.at \in Busy, NEW f \in operation
  PROVE  /\ cmd.todo # <<>>
         /\ \/ cmd.todo = <<"stop">> /\ fin[f].at = "cooperating" /\ cmd.at # "turn"
            \/ operation = {"task"} /\ fin["task"].at = "idle" /\ Head(cmd.todo) = "send" /\ cmd.at # "boundary"
<1>0. RequestInv /\ LockInv /\ BootInv /\ ThreadTypes /\ f \in Threads
  BY DEF LaneInv, ThreadTypes
<1>1. cmd.todo # <<>> /\ phase # "PREPARING"
  BY <1>0 DEF RequestInv, BootInv
<1>2. CASE cmd.todo = <<"stop">>
  <2>1. Head(cmd.todo) = "stop"
    BY <1>2
  <2>2. cmd.todo \notin Seq({"create", "send"})
    BY <1>1, <2>1
  <2>3. PICK g \in Threads : fin[g].at = "cooperating"
    BY <1>0, <2>2 DEF RequestInv, Cooperating
  <2>4. g = f
    BY <1>0, <2>3 DEF LockInv
  <2> QED BY <1>0, <1>1, <1>2, <2>1, <2>3, <2>4 DEF RequestInv
<1>3. CASE cmd.todo # <<"stop">>
  <2>1. operation = {"task"} /\ fin["task"].at = "idle"
    BY <1>0, <1>1, <1>3 DEF RequestInv
  <2>2. Delivering
    <3>1. "task" \in Threads /\ "task" \notin Responders /\ "task" \in operation
      BY <2>1, FinNames, ResponderNames
    <3> QED BY <2>1, <3>1, HolderAt DEF WorkInv
  <2> QED BY <1>1, <2>1, <2>2 DEF Delivering, Busy
<1> QED BY <1>2, <1>3

(* The request in progress goes on or is over, under the lock of the       *)
(* thread that waits for it.                                               *)
LEMMA WorkRequest ==
  ASSUME WorkInv, LaneInv, cmd.at \in Busy, UNCHANGED <<phase, fin, resp>>, operation' \in {operation, {}},
         NEW at, NEW todo, NEW id, NEW turns, CmdStep(at, todo, id, turns), Left(todo),
         turns = cmd.turns \/ (turns = cmd.turns + 1 /\ Head(cmd.todo) = "send" /\ todo = Tail(cmd.todo)),
         (todo = cmd.todo /\ at \in Busy) \/ todo = Tail(cmd.todo) \/ todo = <<>>,
         Head(cmd.todo) = "send" /\ operation' # {} =>
           at = "failed" \/ (at \in {"write", "wait", "turn"} /\ todo = cmd.todo)
  PROVE  WorkInv'
<1>1. cmd \in Cmds /\ cmd.todo # <<>>
  BY DEF LaneInv, TableTypes, RequestInv
<1>2. OrderInv'
  BY <1>1, OrderStep DEF WorkInv
<1>3. ASSUME NEW f \in operation'
      PROVE  AtWork(f)'
  <2>1. f \in operation
    BY <1>3
  <2>2. CASE cmd.todo = <<"stop">> /\ fin[f].at = "cooperating"
    <3>1. Tail(cmd.todo) = <<>>
      BY <2>2
    <3>2. Stopping(f)'
      BY <2>2, <3>1 DEF Stopping, CmdStep
    <3> QED BY <3>2 DEF AtWork
  <2>3. CASE operation = {"task"} /\ fin["task"].at = "idle" /\ Head(cmd.todo) = "send"
    <3>1. at = "failed" \/ (at \in {"write", "wait", "turn"} /\ todo = cmd.todo)
      BY <1>3, <2>3
    <3>2. Delivering'
      BY <2>3, <3>1 DEF Delivering, CmdStep
    <3> QED BY <2>1, <2>3, <3>2 DEF AtWork
  <2> QED BY <2>1, <2>2, <2>3, RequestHolder
<1>4. LockIsWorked'
  BY <1>3 DEF LockIsWorked
<1> QED BY <1>2, <1>4 DEF WorkInv

(* The thread that sends commands. *)
LEMMA WorkCommand ==
  ASSUME WorkInv, LaneInv, FinInv, Command
  PROVE  WorkInv'
<1>0. /\ TableTypes /\ RequestInv /\ BootInv /\ LockInv /\ ThreadTypes /\ cmd \in Cmds /\ OrderInv /\ LockIsWorked
      /\ fin \in [Threads -> Fins] /\ "task" \in Threads /\ cmd.todo \in Seq(Methods)
  BY FinNames, CmdParts DEF LaneInv, TableTypes, WorkInv, FinInv
<1>1. CASE CmdBegin
  <2>1. /\ cmd.at = "next" /\ cmd.todo # <<>> /\ MaySend
        /\ operation' = (IF phase = "RUNNING" /\ Head(cmd.todo) # "stop" THEN {"task"} ELSE operation)
        /\ UNCHANGED <<phase, fin, resp>>
    BY <1>1 DEF CmdBegin, restOfOwner, others, Method
  <2>2. CmdStep("write", cmd.todo, nextId, cmd.turns)
    BY <1>0, <1>1, CommandSteps
  <2>3. OrderInv'
    BY <1>0, <2>1, <2>2, OrderStep DEF Left
  <2>4. CASE phase = "RUNNING" /\ Head(cmd.todo) # "stop"
    <3>1. fin["task"].at = "idle"
      BY <2>1, <2>4 DEF MaySend, Method
    <3>2. cmd.todo # <<"stop">>
      BY <2>4
    <3>3. Head(cmd.todo) = "send"
      BY <1>0, <2>1, <2>4, <3>2, OrderTail DEF OrderInv
    <3>4. Delivering'
      BY <2>1, <2>2, <3>1, <3>3 DEF Delivering, CmdStep
    <3>5. LockIsWorked'
      BY <2>1, <2>4, <3>4 DEF LockIsWorked, AtWork
    <3> QED BY <2>3, <3>5 DEF WorkInv
  <2>5. CASE ~(phase = "RUNNING" /\ Head(cmd.todo) # "stop")
    <3>1. ASSUME NEW f \in operation'
          PROVE  AtWork(f)'
      <4>1. f \in operation /\ AtWork(f)
        BY <1>0, <2>1, <2>5, <3>1 DEF LockIsWorked
      <4>2. ~Delivering
        BY <2>1 DEF Delivering
      <4>3. CASE Stopping(f)
        <5>1. cmd.todo = <<"stop">>
          BY <2>1, <4>3 DEF Stopping
        <5>2. Stopping(f)'
          BY <2>1, <2>2, <4>3, <5>1 DEF Stopping, CmdStep, Busy
        <5> QED BY <5>2 DEF AtWork
      <4> QED BY <2>1, <4>1, <4>2, <4>3 DEF AtWork
    <3>2. LockIsWorked'
      BY <3>1 DEF LockIsWorked
    <3> QED BY <2>3, <3>2 DEF WorkInv
  <2> QED BY <2>4, <2>5
<1>2. CASE CmdWrite \/ CmdTimeout
  <2>1. UNCHANGED <<phase, fin, resp, operation>> /\ cmd.at \in Busy
    BY <1>2 DEF CmdWrite, CmdTimeout, restOfOwner, others, Busy
  <2>2. \/ CmdStep("wait", cmd.todo, cmd.id, cmd.turns)
        \/ CmdStep("failed", <<>>, 0, cmd.turns)
    BY <1>0, <1>2, CommandSteps
  <2>3. "wait" \in Busy /\ Left(cmd.todo) /\ Left(<<>>)
    BY DEF Busy, Left
  <2> QED BY <2>1, <2>2, <2>3, WorkRequest
<1>3. CASE CmdReply
  <2>1. UNCHANGED <<phase, fin, resp, operation>> /\ cmd.at \in Busy /\ cmd.todo # <<>>
    BY <1>0, <1>3 DEF CmdReply, restOfOwner, others, Busy, RequestInv
  <2>2. \/ Head(cmd.todo) = "send" /\ CmdStep("turn", cmd.todo, cmd.id, cmd.turns)
        \/ Head(cmd.todo) = "stop" /\ CmdStep("boundary", cmd.todo, cmd.id, cmd.turns)
        \/ Head(cmd.todo) # "send" /\ CmdStep("next", Tail(cmd.todo), 0, cmd.turns)
        \/ CmdStep("failed", <<>>, 0, cmd.turns)
    <3>1. Head(cmd.todo) = "send" => cmd'.at \in {"turn", "failed"}
      BY <1>0, <1>3, CommandKeeps DEF CmdReply, Method
    <3> QED BY <1>0, <1>3, <2>1, <3>1, CommandSteps DEF CmdStep
  <2>3. /\ "turn" \in Busy /\ "boundary" \in Busy /\ Left(cmd.todo) /\ Left(<<>>) /\ Left(Tail(cmd.todo))
    BY <2>1 DEF Busy, Left
  <2>4. CASE Head(cmd.todo) = "send" /\ CmdStep("turn", cmd.todo, cmd.id, cmd.turns)
    BY <2>1, <2>3, <2>4, WorkRequest
  <2>5. CASE Head(cmd.todo) = "stop" /\ CmdStep("boundary", cmd.todo, cmd.id, cmd.turns)
    BY <2>1, <2>3, <2>5, WorkRequest
  <2>6. CASE Head(cmd.todo) # "send" /\ CmdStep("next", Tail(cmd.todo), 0, cmd.turns)
    BY <2>1, <2>3, <2>6, WorkRequest
  <2>7. CASE CmdStep("failed", <<>>, 0, cmd.turns)
    BY <2>1, <2>3, <2>7, WorkRequest
  <2> QED BY <2>2, <2>4, <2>5, <2>6, <2>7
<1>4. CASE CmdTurn
  <2>1. /\ cmd.at \in {"turn", "boundary"} /\ UNCHANGED <<phase, fin, resp>>
        /\ operation' = IF cmd.at = "turn" /\ phase # "PREPARING" THEN {} ELSE operation
    BY <1>4 DEF CmdTurn, restOfOwner, others
  <2>2. cmd.at \in Busy /\ cmd.todo # <<>> /\ (cmd.at = "turn" => Head(cmd.todo) = "send")
    BY <1>0, <2>1 DEF RequestInv, Busy
  <2>3. PICK turns : /\ CmdStep("next", Tail(cmd.todo), 0, turns)
                     /\ turns = IF cmd.at = "turn" THEN cmd.turns + 1 ELSE cmd.turns
    BY <1>0, <1>4, <2>2, CommandSteps
  <2>4. phase = "PREPARING" => operation = {}
    BY <1>0 DEF BootInv
  <2>5. Head(cmd.todo) = "send" => operation' = {}
    <3>1. CASE cmd.at = "turn"
      BY <2>1, <2>4, <3>1
    <3>2. CASE cmd.at = "boundary" /\ Head(cmd.todo) = "send"
      <4>1. \A f \in operation : FALSE
        <5> SUFFICES ASSUME NEW f \in operation
                     PROVE  FALSE
          OBVIOUS
        <5>1. cmd.todo # <<"stop">>
          BY <3>2
        <5> QED BY <2>2, <3>2, <5>1, RequestHolder
      <4> QED BY <2>1, <3>2, <4>1
    <3> QED BY <2>1, <3>1, <3>2
  <2>6. Left(Tail(cmd.todo))
    BY <2>2 DEF Left
  <2> QED BY <2>1, <2>2, <2>3, <2>5, <2>6, WorkRequest
<1>5. CASE MarkRunning
  <2>1. phase = "PREPARING" /\ cmd.turns > 0 /\ UNCHANGED <<fin, resp, operation, cmd>>
    BY <1>5 DEF MarkRunning, threadVars
  <2>2. OrderInv'
    BY <1>0, <2>1 DEF OrderInv
  <2>3. LockIsWorked'
    BY <1>0, <2>1 DEF LockIsWorked, BootInv
  <2> QED BY <2>2, <2>3 DEF WorkInv
<1>6. CASE Recheck
  <2>1. fin["task"].at = "starting" /\ UNCHANGED <<phase, resp, operation, cmd>>
    BY <1>6 DEF Recheck, restOfOwner
  <2>2. PICK at \in {"idle", "failClosed"} : \E with, why : FinStep("task", at, with, why)
    BY <1>0, <1>6, MoveIsStep, RecordIsStep, FinNames DEF Recheck, Move
  <2>3. "task" \notin operation'
    BY <1>0, <2>1, HolderAt
  <2>4. OrderInv' /\ CmdCut
    BY <1>0, <2>1 DEF OrderInv, CmdCut
  <2> QED BY <1>0, <2>1, <2>2, <2>3, <2>4, WorkMoved
<1> QED BY <1>1, <1>2, <1>3, <1>4, <1>5, <1>6 DEF Command

(* The holder of the lock is at work and the messages come last, in every state. *)
LEMMA WorkInvariant == Spec => []WorkInv
<1>1. Init => WorkInv
  <2> SUFFICES ASSUME Init
               PROVE  WorkInv
    OBVIOUS
  <2>1. phase = "PREPARING" /\ operation = {} /\ cmd.todo = Script /\ cmd.turns = 0
    BY DEF Init
  <2> QED BY <2>1, BootstrapFirst DEF WorkInv, OrderInv, LockIsWorked
<1>2. WorkInv /\ LaneInv /\ OwnerInv /\ FinInv /\ OwnerInv' /\ [Next]_vars => WorkInv'
  <2> SUFFICES ASSUME WorkInv, LaneInv, OwnerInv, FinInv, OwnerInv', [Next]_vars
               PROVE  WorkInv'
    OBVIOUS
  <2>1. CASE UNCHANGED vars
    BY <2>1, WorkKept DEF vars, threadVars
  <2>2. CASE DriverStep \/ Pump
    BY <2>2, WorkStream
  <2>3. CASE Command
    BY <2>3, WorkCommand
  <2>4. CASE \E r \in Responders : Respond(r)
    BY <2>4, WorkRespond
  <2>5. CASE Decide \/ Cancel \/ \E reason \in IdleTimeouts : SeeTimeout(reason)
    BY <2>5, WorkDecide
  <2>6. CASE \E f \in Threads : Finish(f)
    BY <2>6, WorkFinish
  <2> QED BY <2>1, <2>2, <2>3, <2>4, <2>5, <2>6 DEF Next
<1> QED BY <1>1, <1>2, OwnerInvariant, LaneInvariant, PTL DEF Spec

(* No thread leaves the operation lock behind, and none waits for it while *)
(* it holds it: not a delivery whose request fails, times out or meets a   *)
(* stop, not an answer that fails, and not a cancel that finishes the      *)
(* process without the lock beside the thread that has it.                 *)
THEOREM LockHolderWorks == Spec => []LockIsWorked
<1>1. WorkInv => LockIsWorked
  BY DEF WorkInv
<1> QED BY <1>1, WorkInvariant, PTL
=============================================================================
