------------------------ MODULE SchedulerStopProofs ------------------------
(***************************************************************************)
(* Stops, proved for every set of agents and callers: a task is terminal   *)
(* only after its runtimes were ended, a live runtime has a thread that    *)
(* will end it, and a task is marked as reaped only when its process group *)
(* is proved gone.  They hold of tasks that are not resumed: a rollback of *)
(* a failed resume overwrites the row of a task that may run again (see    *)
(* RestoreTerminalAfterResumeFailure), and breaks the first and the last.  *)
(***************************************************************************)
EXTENDS SchedulerProofs

-----------------------------------------------------------------------------
(* The invariant.  A task that is not resumed is claimed at most once.     *)

(* An epoch is the task's only claim: a task that was never claimed has    *)
(* none, and one that was has its thread and its process at that epoch.    *)
ClaimInv ==
  /\ \A a \in Agents : task[a].phase \in {"ABSENT", "QUEUED"} => task[a].epoch = 0
  /\ \A a \in Agents, e \in Epochs :
       inc[a][e].pc # "none" \/ inc[a][e].proc # "none" => task[a].epoch = e

(* The runtime a row names is the process of that claim.                   *)
NamedInv ==
  /\ \A a \in Agents : task[a].reaped => task[a].phase = "TERMINAL"
  /\ \A a \in Agents :
       task[a].runtime # 0 =>
         /\ task[a].runtime \in Epochs /\ task[a].runtime = task[a].epoch
         /\ inc[a][task[a].runtime].proc # "none"

(* An entry is of a registered runtime, and before it is registered no     *)
(* call can close its input.                                               *)
EntryInv ==
  /\ \A a \in Agents : active[a] # 0 => inc[a][active[a]].pc \notin Early
  /\ \A a \in Agents, e \in Epochs : inc[a][e].pc \in Early => inc[a][e].life = "Running"

(* A call under way has read a registered runtime, or none; it finishes    *)
(* the task with that runtime ended, or a task that was never claimed and  *)
(* now never will be.                                                      *)
CallGuard(k) ==
  /\ k.epoch # 0 => inc[k.agent][k.epoch].pc \notin Early
  /\ k.sink # 0 => inc[k.agent][k.sink].pc \notin Early
  /\ k.pc = "request" => k.sink = 0
  /\ k.pc \in Finishing =>
       IF k.epoch = 0
         THEN task[k.agent].epoch = 0 /\ task[k.agent].phase \in {"CANCELLING", "TERMINAL"}
         ELSE inc[k.agent][k.epoch].proc # "alive"

CallInv == \A c \in Callers : ctl[c].pc \notin {"idle", "done"} => CallGuard(ctl[c])

(* No thread and no row knows the process: the daemon crashed between its  *)
(* spawn and mark_session_running.                                         *)
Unnamed(a, e) == crashes # 0 /\ inc[a][e].pc = "none" /\ task[a].runtime = 0

(* A terminal task has no thread that could still spawn a process and no   *)
(* live process but an unnamed one, and without a daemon there are no      *)
(* threads.                                                                *)
EndedInv ==
  /\ crashes = 0 => daemon = "up"
  /\ daemon # "up" => \A a \in Agents, e \in Epochs : inc[a][e].pc = "none"
  /\ \A a \in Agents, e \in Epochs :
       task[a].phase = "TERMINAL" =>
         inc[a][e].pc # "claimed" /\ (inc[a][e].proc = "alive" => Unnamed(a, e))

Stopper(c, a, e) == ctl[c].agent = a /\ ctl[c].epoch = e /\ ctl[c].pc \in StopPcs

(* A live process has a thread and, once it is registered, its entry;      *)
(* where that thread would leave it, a control call is about to stop it.   *)
Owned(a, e) ==
  /\ inc[a][e].pc # "none"
  /\ inc[a][e].pc \notin Early => active[a] = e
  /\ Exposed(inc[a][e]) => \E c \in Callers : Stopper(c, a, e)

(* A daemon that has recovered owns every live process but the unnamed     *)
(* ones, whose tasks are terminal.                                         *)
OwnedInv ==
  daemon = "up" =>
    \A a \in Agents, e \in Epochs :
      inc[a][e].proc = "alive" =>
        Owned(a, e) \/ (task[a].phase = "TERMINAL" /\ Unnamed(a, e))

LoneInv ==
  /\ SchedulerInv
  /\ ClaimInv /\ NamedInv /\ EntryInv /\ CallInv /\ EndedInv /\ OwnedInv
  /\ ReapedIsProved

-----------------------------------------------------------------------------
(* What the store's steps do to the row of a task.                         *)

SameNames(r, s) == s.epoch = r.epoch /\ s.runtime = r.runtime

StoppedRow(r, s) ==
  /\ r.phase # "ABSENT" /\ SameNames(r, s) /\ s.reaped = r.reaped
  /\ s.phase = IF r.phase = "TERMINAL" THEN "TERMINAL" ELSE "CANCELLING"

EndedRow(r, s) ==
  /\ r.phase \in ActivePhases /\ s.phase = "TERMINAL"
  /\ SameNames(r, s) /\ s.reaped = r.reaped

ReapedRow(r, s) == r.phase = "TERMINAL" /\ s.phase = "TERMINAL" /\ SameNames(r, s)

MarkedRow(r, s, e) ==
  /\ r.phase = "PREPARING" /\ s.phase = "RUNNING"
  /\ r.epoch = e /\ s.epoch = e /\ s.runtime = e /\ s.reaped = r.reaped

OnlyRow(a) == \A b \in Agents \ {a} : task'[b] = task[b]

(* A recorded stop, a stored result, a reap and a mark change one row.     *)
LEMMA RowSteps ==
  ASSUME TypeOK, NEW a \in Agents
  PROVE  /\ RequestClose(a) \/ RequestStop(a) \/ RequestRuntimeStop(a) =>
              OnlyRow(a) /\ StoppedRow(task[a], task'[a])
         /\ StoresResult(a) => OnlyRow(a) /\ EndedRow(task[a], task'[a])
         /\ ReapTask(a) => OnlyRow(a) /\ ReapedRow(task[a], task'[a])
         /\ \A e \in Epochs :
              MarkSessionRunning(a, e) => OnlyRow(a) /\ MarkedRow(task[a], task'[a], e)
<1>0. task \in [Agents -> TaskRow] /\ task[a] \in TaskRow
  BY DEF TypeOK
<1>1. ASSUME NEW x, NEW y, RequestStopInternal(a, x, y)
      PROVE  OnlyRow(a) /\ StoppedRow(task[a], task'[a])
  <2>1. \A b \in Agents \ {a} : task'[b] = task[b]
    BY <1>0, <1>1 DEF RequestStopInternal
  <2>2. task'[a] = [task[a] EXCEPT !.phase = IF task[a].phase = "TERMINAL" THEN "TERMINAL"
                                                                         ELSE "CANCELLING",
                                  !.close = task[a].close \/ x, !.stop = task[a].stop \/ y]
    BY <1>0, <1>1 DEF RequestStopInternal
  <2> QED BY <1>0, <1>1, <2>1, <2>2
          DEF RequestStopInternal, OnlyRow, StoppedRow, SameNames, TaskRow
<1>2. ASSUME NEW o, NEW b, StoreTaskResult(a, o, b) PROVE OnlyRow(a) /\ EndedRow(task[a], task'[a])
  BY <1>0, <1>2 DEF StoreTaskResult, CanStoreResult, ApplyTerminal, OnlyRow, EndedRow, SameNames, TaskRow
<1>3. ASSUME ReapTask(a) PROVE OnlyRow(a) /\ ReapedRow(task[a], task'[a])
  BY <1>0, <1>3 DEF ReapTask, OnlyRow, ReapedRow, SameNames, TaskRow
<1>4. ASSUME NEW e \in Epochs, MarkSessionRunning(a, e)
      PROVE  OnlyRow(a) /\ MarkedRow(task[a], task'[a], e)
  BY <1>0, <1>4 DEF MarkSessionRunning, CanMarkRunning, OnlyRow, MarkedRow, TaskRow
<1> QED BY <1>1, <1>2, <1>3, <1>4 DEF RequestClose, RequestStop, RequestRuntimeStop, StoresResult

-----------------------------------------------------------------------------
(* A step of a thread or of its process, with what it does to the row.     *)

ThreadRow(a, e) ==
  /\ OnlyRow(a)
  /\ \/ task'[a] = task[a]
     \/ inc[a][e].pc = "registered" /\ MarkedRow(task[a], task'[a], e)
     \/ StoppedRow(task[a], task'[a])
     \/ inc[a][e].pc \in Finishing /\ EndedRow(task[a], task'[a])
     \/ /\ inc[a][e].pc \in Finishing /\ ProvesReaped(inc[a][e].proc)
        /\ ReapedRow(task[a], task'[a])

ThreadEffect(a, e) ==
  /\ inc[a][e].pc # "none" \/ inc[a][e].proc = "alive"
  /\ Moves(a, e)
  /\ ThreadRow(a, e)

(* Every step of a thread has such an effect.                              *)
LEMMA ThreadEffects ==
  ASSUME SchedulerInv, NEW a \in Agents, NEW e \in Epochs,
         StartStep(a, e) \/ MonitorStep(a, e) \/ Timeout(a, e) \/ TurnEnds(a, e) \/ ProcessExits(a, e)
  PROVE  ThreadEffect(a, e)
<1>0. TypeOK
  BY DEF SchedulerInv
<1>1. Moves(a, e)
  BY StartGood, MonitorGood, RuntimeGood
<1>2. inc[a][e].pc # "none" \/ inc[a][e].proc = "alive"
  BY DEF StartStep, MonitorStep, Timeout, TurnEnds, ProcessExits, At, DeliveryBoundary,
         SpawnFails, Spawn, Bootstrap, BootstrapFails, Register, MarkRunning, Unmarked, Recheck,
         DeliverNone, DeliverClaim, DeliverLate, CleanupRequest, CleanupStop, Sent, SendFails,
         TimeoutStops, MonitorExit, MonitorComplete, MonitorClaims, MonitorEnds, MonitorLeaves,
         MonitorDrops, Finish, Persist, Fallback, Reap
<1> SUFFICES ThreadRow(a, e)
  BY <1>1, <1>2 DEF ThreadEffect
<1>u. ASSUME UNCHANGED task PROVE ThreadRow(a, e)
  BY <1>u DEF ThreadRow, OnlyRow
<1>3. CASE StartStep(a, e)
  <2>1. StartStores(a, e)
    BY <1>3, StartWrites
  <2>2. CASE UNCHANGED storeVars \/ \E m \in Messages : ClaimNextMessage(a, m)
    BY <1>u, <2>2 DEF storeVars, ClaimNextMessage
  <2> QED BY <1>0, <2>1, <2>2, RowSteps DEF StartStores, ThreadRow
<1>4. CASE MonitorStep(a, e)
  <2>1. MonitorStores(a, e)
    BY <1>4, MonitorWrites
  <2>2. CASE \/ UNCHANGED storeVars
             \/ \E m \in Messages : ClaimNextMessage(a, m) \/ CompleteMessage(m) \/ FailMessage(m)
    BY <1>u, <2>2 DEF storeVars, ClaimNextMessage, CompleteMessage, FailMessage
  <2> QED BY <1>0, <2>1, <2>2, RowSteps DEF MonitorStores, ThreadRow
<1>5. CASE Timeout(a, e)
  BY <1>0, <1>5, RowSteps DEF Timeout, ThreadRow
<1>6. CASE TurnEnds(a, e) \/ ProcessExits(a, e)
  BY <1>u, <1>6 DEF TurnEnds, ProcessExits, storeVars
<1> QED BY <1>3, <1>4, <1>5, <1>6

(* A step of a control call, with what it does to the row.                 *)
CallRow(c) ==
  LET a == ctl[c].agent IN
  /\ OnlyRow(a)
  /\ \/ ctl[c].pc # "request" /\ task'[a] = task[a]
     \/ ctl[c].pc \notin Finishing /\ StoppedRow(task[a], task'[a])
     \/ ctl[c].pc \in Finishing /\ EndedRow(task[a], task'[a])
     \/ /\ ctl[c].pc \in Finishing /\ ProvesReaped(CtlProc(c))
        /\ ReapedRow(task[a], task'[a])

(* Every step of a control call has such an effect.                        *)
LEMMA CallEffects ==
  ASSUME SchedulerInv, NEW c \in Callers, CtlStep(c)
  PROVE  ctl[c].agent \in Agents /\ CtlMoves(c) /\ CallRow(c)
<1>0. TypeOK
  BY DEF SchedulerInv
<1>1. ctl[c].agent \in Agents /\ CtlStores(c)
  BY CtlWrites
<1>2. CtlMoves(c)
  BY CtlGood
<1>3. CASE ctl[c].pc # "request" /\ UNCHANGED storeVars
  BY <1>1, <1>2, <1>3 DEF CallRow, OnlyRow, storeVars
<1> QED BY <1>0, <1>1, <1>2, <1>3, RowSteps DEF CtlStores, CallRow

-----------------------------------------------------------------------------
(* The invariant is kept, one kind of step after the other.                *)

(* By threads and their processes.                                         *)
LEMMA LoneThread ==
  ASSUME LoneInv, SchedulerInv', NEW a \in Agents, NEW e \in Epochs, ThreadEffect(a, e)
  PROVE  LoneInv'
<1> DEFINE i == inc[a][e]
           j == inc'[a][e]
           r == task[a]
           s == task'[a]
<1>1. /\ i \in Incarnation /\ j \in Incarnation /\ r \in TaskRow
      /\ i.pc \in Finishing => i.proc # "alive"
      /\ i.pc \in Started => i.proc # "none"
      /\ i.pc = "claimed" => i.proc = "none"
  BY GoodIs DEF LoneInv, SchedulerInv, ThreadInv, TypeOK
<1>2. r.epoch = e /\ e # 0
  BY EpochsAre DEF ThreadEffect, LoneInv, ClaimInv
<1>3. /\ \A b \in Agents, f \in Epochs : <<b, f>> # <<a, e>> => inc'[b][f] = inc[b][f]
      /\ \A b \in Agents \ {a} : active'[b] = active[b] /\ task'[b] = task[b]
      /\ UNCHANGED <<ctl, run, send, daemon, crashes>>
  BY DEF ThreadEffect, Moves, ThreadRow, OnlyRow
<1>4. Advances(i, j) /\ Keeps(a, e, j, active'[a])
  BY DEF ThreadEffect, Moves
<1>5. /\ s.epoch = r.epoch
      /\ s.phase \in {"ABSENT", "QUEUED"} => s.phase = r.phase
      /\ r.phase \in {"CANCELLING", "TERMINAL"} => s.phase \in {"CANCELLING", "TERMINAL"}
      /\ s.phase = "TERMINAL" => r.phase = "TERMINAL" \/ i.pc \in Finishing
      /\ s.runtime = r.runtime \/ (s.runtime = e /\ i.pc = "registered" /\ s.reaped = r.reaped
                                   /\ r.phase = "PREPARING")
      /\ r.phase = "TERMINAL" => s.phase = "TERMINAL"
      /\ s.reaped => \/ r.reaped
                     \/ s.phase = "TERMINAL" /\ i.pc \in Finishing /\ ProvesReaped(i.proc)
  BY <1>1, <1>2 DEF ThreadEffect, ThreadRow, MarkedRow, StoppedRow, EndedRow, ReapedRow, SameNames,
                    ActivePhases
<1> HIDE DEF i, j, r, s
<1>6. ClaimInv'
  <2>1. \A b \in Agents : task'[b].phase \in {"ABSENT", "QUEUED"} => task'[b].epoch = 0
    BY <1>2, <1>3, <1>5 DEF LoneInv, ClaimInv, r, s
  <2>2. ASSUME NEW b \in Agents, NEW f \in Epochs,
               inc'[b][f].pc # "none" \/ inc'[b][f].proc # "none"
        PROVE  task'[b].epoch = f
    <3>1. CASE <<b, f>> = <<a, e>>
      BY <1>2, <1>5, <3>1 DEF r, s
    <3>2. CASE <<b, f>> # <<a, e>>
      BY <1>3, <1>5, <2>2, <3>2 DEF LoneInv, ClaimInv, r, s
    <3> QED BY <3>1, <3>2
  <2> QED BY <2>1, <2>2 DEF ClaimInv
<1>7. NamedInv'
  <2>1. \A b \in Agents : task'[b].reaped => task'[b].phase = "TERMINAL"
    BY <1>3, <1>5 DEF LoneInv, NamedInv, r, s
  <2>2. ASSUME NEW b \in Agents, task'[b].runtime # 0
        PROVE  /\ task'[b].runtime \in Epochs /\ task'[b].runtime = task'[b].epoch
               /\ inc'[b][task'[b].runtime].proc # "none"
    <3>1. CASE b # a
      BY <1>3, <2>2, <3>1 DEF LoneInv, NamedInv
    <3>2. CASE b = a
      <4>1. s.runtime = e
        BY <1>2, <1>5, <2>2, <3>2 DEF LoneInv, NamedInv, r, s
      <4>2. i.proc # "none"
        BY <1>1, <1>2, <1>5, <2>2, <3>2, <4>1 DEF LoneInv, NamedInv, Started, i, r, s
      <4>3. j.proc # "none"
        BY <1>4, <4>2 DEF Advances
      <4> QED BY <1>2, <1>5, <3>2, <4>1, <4>3 DEF j, r, s
    <3> QED BY <3>1, <3>2
  <2> QED BY <2>1, <2>2 DEF NamedInv
<1>8. ReapedIsProved'
  <2>1. ASSUME NEW b \in Agents, task'[b].reaped, task'[b].runtime # 0
        PROVE  inc'[b][task'[b].runtime].proc \in {"stopped", "completed"}
    <3>1. CASE b # a
      BY <1>3, <2>1, <3>1 DEF LoneInv, NamedInv, ReapedIsProved
    <3>2. CASE b = a
      <4>1. s.runtime = e /\ s.reaped
        BY <1>2, <1>5, <2>1, <3>2 DEF LoneInv, NamedInv, r, s
      <4>2. s.runtime = r.runtime
        BY <1>5, <4>1 DEF LoneInv, NamedInv, r
      <4>3. i.proc \in {"stopped", "completed"}
        <5>1. CASE r.reaped
          BY <1>2, <4>1, <4>2, <5>1 DEF LoneInv, ReapedIsProved, i, r
        <5>2. CASE ProvesReaped(i.proc)
          BY <1>2, <4>1, <4>2, <5>2 DEF LoneInv, NamedInv, ProvesReaped, i, r
        <5> QED BY <1>5, <4>1, <5>1, <5>2
      <4>4. j.proc = i.proc
        BY <1>4, <4>3 DEF Advances
      <4> QED BY <3>2, <4>1, <4>3, <4>4 DEF j, s
    <3> QED BY <3>1, <3>2
  <2> QED BY <2>1 DEF ReapedIsProved
<1>9. EntryInv'
  <2>1. ASSUME NEW b \in Agents, active'[b] # 0 PROVE inc'[b][active'[b]].pc \notin Early
    <3>0. active'[b] \in Epochs
      BY <2>1, EpochsAre DEF SchedulerInv, ThreadInv
    <3>1. CASE b # a
      BY <1>3, <2>1, <3>0, <3>1 DEF LoneInv, EntryInv
    <3>2. CASE b = a
      <4>1. active'[a] = active[a] \/ (active'[a] = e /\ j.pc \notin Early)
        BY <1>4, <2>1, <3>2 DEF Keeps
      <4>2. CASE active'[a] = e /\ j.pc \notin Early
        BY <3>2, <4>2 DEF j
      <4>3. CASE active'[a] = active[a]
        <5>1. inc[a][active'[a]].pc \notin Early
          BY <2>1, <3>2, <4>3 DEF LoneInv, EntryInv
        <5>2. CASE active'[a] = e
          BY <1>4, <3>2, <5>1, <5>2 DEF Advances, i, j
        <5>3. CASE active'[a] # e
          BY <1>3, <3>0, <3>2, <5>1, <5>3
        <5> QED BY <5>2, <5>3
      <4> QED BY <4>1, <4>2, <4>3
    <3> QED BY <3>1, <3>2
  <2>2. ASSUME NEW b \in Agents, NEW f \in Epochs, inc'[b][f].pc \in Early
        PROVE  inc'[b][f].life = "Running"
    <3>1. CASE <<b, f>> = <<a, e>>
      BY <1>4, <2>2, <3>1 DEF LoneInv, EntryInv, Advances, i, j
    <3>2. CASE <<b, f>> # <<a, e>>
      BY <1>3, <2>2, <3>2 DEF LoneInv, EntryInv
    <3> QED BY <3>1, <3>2
  <2> QED BY <2>1, <2>2 DEF EntryInv
<1>10. CallInv'
  <2>1. ASSUME NEW c \in Callers, ctl'[c].pc \notin {"idle", "done"} PROVE CallGuard(ctl[c])'
    <3> DEFINE k == ctl[c]
    <3>1. k.agent \in Agents /\ CallGuard(k) /\ ctl'[c] = k
          /\ (k.epoch # 0 => k.epoch \in Epochs) /\ (k.sink # 0 => k.sink \in Epochs)
      BY <1>3, <2>1, GoodCallIs, EpochsAre DEF LoneInv, CallInv, SchedulerInv, ThreadInv, Call
    <3> HIDE DEF k
    <3>2. ASSUME NEW f \in Epochs
          PROVE  /\ inc[k.agent][f].pc \notin Early => inc'[k.agent][f].pc \notin Early
                 /\ inc[k.agent][f].pc \notin Early /\ inc[k.agent][f].proc # "alive" =>
                      inc'[k.agent][f].proc # "alive"
      <4>1. CASE <<k.agent, f>> = <<a, e>>
        BY <1>4, <4>1 DEF Advances, Early, i, j
      <4>2. CASE <<k.agent, f>> # <<a, e>>
        BY <1>3, <3>1, <4>2
      <4> QED BY <4>1, <4>2
    <3>3. task'[k.agent].epoch = task[k.agent].epoch
          /\ (task[k.agent].phase \in {"CANCELLING", "TERMINAL"} =>
                task'[k.agent].phase \in {"CANCELLING", "TERMINAL"})
      BY <1>3, <1>5, <3>1 DEF r, s
    <3> QED BY <3>1, <3>2, <3>3 DEF CallGuard
  <2> QED BY <2>1 DEF CallInv
<1>u. ASSUME NEW b \in Agents, NEW f \in Epochs, task[b].phase = "TERMINAL", Unnamed(b, f)
      PROVE  task'[b].phase = "TERMINAL" /\ Unnamed(b, f)'
  <2>1. task'[b].phase = "TERMINAL" /\ task'[b].runtime = task[b].runtime
    BY <1>3, <1>5, <1>u DEF r, s
  <2>2. inc'[b][f].pc = "none"
    BY <1>3, <1>4, <1>u DEF Unnamed, Advances, i, j
  <2> QED BY <1>3, <1>u, <2>1, <2>2 DEF Unnamed
<1>11. EndedInv'
  <2>1. ASSUME NEW b \in Agents, NEW f \in Epochs, task'[b].phase = "TERMINAL"
        PROVE  inc'[b][f].pc # "claimed" /\ (inc'[b][f].proc = "alive" => Unnamed(b, f)')
    <3>1. /\ inc[b][f].pc # "claimed"
          /\ inc[b][f].proc = "alive" => task[b].phase = "TERMINAL" /\ Unnamed(b, f)
      <4>1. CASE task[b].phase = "TERMINAL"
        BY <4>1 DEF LoneInv, EndedInv
      <4>2. CASE task[b].phase # "TERMINAL"
        <5>1. b = a /\ i.pc \in Finishing
          BY <1>3, <1>5, <2>1, <4>2 DEF r, s
        <5>2. CASE f = e
          BY <1>1, <5>1, <5>2 DEF Finishing, i
        <5>3. CASE f # e
          BY <1>2, <5>1, <5>3 DEF LoneInv, ClaimInv, r
        <5> QED BY <5>2, <5>3
      <4> QED BY <4>1, <4>2
    <3>2. inc'[b][f].pc # "claimed" /\ (inc'[b][f].proc = "alive" => inc[b][f].proc = "alive")
      <4>1. CASE <<b, f>> = <<a, e>>
        BY <1>4, <3>1, <4>1 DEF Advances, i, j
      <4>2. CASE <<b, f>> # <<a, e>>
        BY <1>3, <3>1, <4>2
      <4> QED BY <4>1, <4>2
    <3> QED BY <1>u, <3>1, <3>2
  <2>2. daemon' # "up" => \A b \in Agents, f \in Epochs : inc'[b][f].pc = "none"
    <3> SUFFICES ASSUME daemon # "up", NEW b \in Agents, NEW f \in Epochs
                 PROVE  inc'[b][f].pc = "none"
      BY <1>3
    <3>1. inc[b][f].pc = "none"
      BY DEF LoneInv, EndedInv
    <3>2. CASE <<b, f>> = <<a, e>>
      BY <1>4, <3>1, <3>2 DEF Advances, i, j
    <3>3. CASE <<b, f>> # <<a, e>>
      BY <1>3, <3>1, <3>3
    <3> QED BY <3>2, <3>3
  <2>3. crashes' = 0 => daemon' = "up"
    BY <1>3 DEF LoneInv, EndedInv
  <2> QED BY <2>1, <2>2, <2>3 DEF EndedInv
<1>12. OwnedInv'
  <2>0. \A c, b, f : Stopper(c, b, f)' <=> Stopper(c, b, f)
    BY <1>3 DEF Stopper
  <2>1. ASSUME daemon = "up", NEW b \in Agents, NEW f \in Epochs, inc'[b][f].proc = "alive",
               inc[b][f].proc = "alive" => Owned(b, f)
        PROVE  Owned(b, f)'
    <3>1. CASE <<b, f>> = <<a, e>>
      <4>1. j.proc = "alive" /\ (i.proc = "alive" \/ i.pc = "claimed")
        BY <1>4, <2>1, <3>1 DEF Advances, j
      <4>2. i.proc = "alive" =>
              /\ i.pc # "none" /\ (i.pc \notin Early => active[a] = e)
              /\ Exposed(i) => \E c \in Callers : Stopper(c, a, e)
        BY <2>1, <3>1 DEF Owned, i
      <4>3. i.pc \in Early => i.life = "Running"
        BY DEF LoneInv, EntryInv, i
      <4>4. j.pc # "none"
        BY <1>4, <4>1, <4>2 DEF Advances
      <4>5. ~(i.pc \notin Early /\ active[a] # e)
        BY <4>1, <4>2 DEF Early
      <4>6. j.pc \notin Early => active'[a] = e
        BY <1>4, <4>1, <4>5 DEF Keeps, i
      <4>7. Exposed(j) => Exposed(i)
        BY <1>4, <4>1, <4>3, <4>5 DEF Keeps, i
      <4>8. Exposed(i) => i.proc = "alive"
        BY <4>1 DEF Exposed, Guarded
      <4> QED BY <2>0, <3>1, <4>2, <4>4, <4>6, <4>7, <4>8 DEF Owned, j
    <3>2. CASE <<b, f>> # <<a, e>>
      <4>1. inc'[b][f] = inc[b][f]
        BY <1>3, <3>2
      <4>2. b # a
        BY <1>2, <2>1, <3>2, <4>1 DEF LoneInv, ClaimInv, r
      <4> QED BY <1>3, <2>0, <2>1, <4>1, <4>2 DEF Owned
    <3> QED BY <3>1, <3>2
  <2>2. ASSUME daemon = "up", NEW b \in Agents, NEW f \in Epochs, inc'[b][f].proc = "alive"
        PROVE  Owned(b, f)' \/ (task'[b].phase = "TERMINAL" /\ Unnamed(b, f)')
    <3>1. CASE inc[b][f].proc = "alive" => Owned(b, f)
      BY <2>1, <2>2, <3>1
    <3>2. CASE inc[b][f].proc = "alive" /\ ~Owned(b, f)
      <4>1. task[b].phase = "TERMINAL" /\ Unnamed(b, f)
        BY <2>2, <3>2 DEF LoneInv, OwnedInv
      <4> QED BY <1>u, <4>1
    <3> QED BY <3>1, <3>2
  <2> QED BY <1>3, <2>2 DEF OwnedInv
<1> QED BY <1>6, <1>7, <1>8, <1>9, <1>10, <1>11, <1>12 DEF LoneInv

(* By control calls.                                                       *)
LEMMA LoneCall ==
  ASSUME LoneInv, SchedulerInv', NEW c \in Callers, CtlStep(c)
  PROVE  LoneInv'
<1> DEFINE k == ctl[c]
           n == ctl'[c]
           a == k.agent
           e == k.epoch
           r == task[a]
           s == task'[a]
<1>0. SchedulerInv /\ a \in Agents /\ CtlMoves(c) /\ CallRow(c)
  BY CallEffects DEF LoneInv
<1>1. /\ r \in TaskRow /\ k \in Call /\ n \in Call
      /\ k.pc \notin {"idle", "done"} /\ k.pc \in CallPcs
      /\ k.pc = "persist" => e # 0
      /\ (e # 0 => e \in Epochs) /\ (k.sink # 0 => k.sink \in Epochs)
  BY <1>0, GoodCallIs, EpochsAre DEF SchedulerInv, ThreadInv, TypeOK, CtlMoves, CallMoves, Call
<1>2. CallGuard(k)
  BY <1>1 DEF LoneInv, CallInv
<1>3. /\ \A b \in Agents, f \in Epochs : Nudged(inc[b][f], inc'[b][f])
      /\ \A b \in Agents \ {a} : task'[b] = task[b]
      /\ \A d \in Callers \ {c} : ctl'[d] = ctl[d]
      /\ UNCHANGED <<run, send, daemon, crashes>>
  BY <1>0 DEF CtlMoves, CallMoves, CallRow, OnlyRow
<1>4. /\ \/ n = CallReturned
         \/ /\ n.agent = a /\ n.epoch = e /\ n.sink \in {k.sink, active[a], e}
            /\ n.pc \notin {"idle", "request", "done"}
      /\ n.pc \in Finishing =>
           \/ k.pc \in Finishing
           \/ e # 0 /\ inc'[a][e].proc # "alive"
           \/ e = 0 /\ k.pc = "request" /\ r.phase = "QUEUED"
      /\ k.pc \in StopPcs /\ n.pc \notin StopPcs => active[a] # e \/ inc'[a][e].proc # "alive"
      /\ k.pc = "request" /\ e # 0 => n.pc = "lock" \/ r.phase \notin ActivePhases \/ r.epoch # e
      /\ k.pc \in StopPcs =>
           \A f \in Epochs : inc'[a][f].life # inc[a][f].life => inc'[a][f].proc # "alive"
      /\ \A b \in Agents, f \in Epochs :
           inc'[b][f].life # inc[b][f].life => b = a /\ f \in {e, k.sink}
  BY <1>0 DEF CtlMoves, CallMoves
<1>5. \/ UNCHANGED active
      \/ /\ k.pc \in Finishing
         /\ active'[a] = (IF active[a] = e THEN 0 ELSE active[a])
         /\ \A b \in Agents \ {a} : active'[b] = active[b]
  BY <1>0 DEF CtlMoves, CallMoves
<1>6. /\ SameNames(r, s)
      /\ s.phase \in {"ABSENT", "QUEUED"} => s.phase = r.phase
      /\ r.phase \in {"CANCELLING", "TERMINAL"} => s.phase \in {"CANCELLING", "TERMINAL"}
      /\ k.pc = "request" => s.phase \in {"CANCELLING", "TERMINAL"}
      /\ s.phase = "TERMINAL" => r.phase = "TERMINAL" \/ k.pc \in Finishing
      /\ r.phase = "TERMINAL" => s.phase = "TERMINAL"
      /\ s.reaped => \/ r.reaped
                     \/ s.phase = "TERMINAL" /\ k.pc \in Finishing /\ ProvesReaped(CtlProc(c))
  BY <1>0, <1>1 DEF CallRow, StoppedRow, EndedRow, ReapedRow, SameNames, ActivePhases, Finishing
<1>7. CtlProc(c) = IF e = 0 THEN "none" ELSE inc[a][e].proc
  BY DEF CtlProc
<1> HIDE DEF k, n, a, e, r, s
(* The task of a call that read a runtime, or writes through a sink, is    *)
(* claimed at that epoch.                                                  *)
<1>8. /\ e # 0 => r.epoch = e
      /\ k.sink # 0 => r.epoch = k.sink
  BY <1>0, <1>1, <1>2 DEF LoneInv, ClaimInv, CallGuard, Early, a, e, r
<1>9. k.pc \in Finishing =>
        \A f \in Epochs : inc[a][f].proc # "alive" /\ inc[a][f].pc # "claimed"
  <2> SUFFICES ASSUME k.pc \in Finishing, NEW f \in Epochs
               PROVE  inc[a][f].proc # "alive" /\ inc[a][f].pc # "claimed"
    OBVIOUS
  <2>1. CASE e = f
    BY <1>2, <2>1, EpochsAre DEF CallGuard, Early, a, e
  <2>2. CASE e # f
    <3>1. r.epoch # f
      BY <1>2, <1>8, <2>2, EpochsAre DEF CallGuard, a, e, r
    <3> QED BY <1>0, <3>1 DEF LoneInv, ClaimInv, r
  <2> QED BY <2>1, <2>2
<1>10. ClaimInv'
  <2>1. \A b \in Agents : task'[b].phase \in {"ABSENT", "QUEUED"} => task'[b].epoch = 0
    BY <1>0, <1>3, <1>6 DEF LoneInv, ClaimInv, SameNames, r, s
  <2>2. ASSUME NEW b \in Agents, NEW f \in Epochs,
               inc'[b][f].pc # "none" \/ inc'[b][f].proc # "none"
        PROVE  task'[b].epoch = f
    <3>1. task[b].epoch = f
      BY <1>3, <2>2 DEF LoneInv, ClaimInv, Nudged
    <3> QED BY <1>3, <1>6, <3>1 DEF SameNames, r, s
  <2> QED BY <2>1, <2>2 DEF ClaimInv
<1>11. NamedInv'
  <2>1. \A b \in Agents : task'[b].reaped => task'[b].phase = "TERMINAL"
    BY <1>3, <1>6 DEF LoneInv, NamedInv, r, s
  <2>2. \A b \in Agents : task'[b].runtime = task[b].runtime /\ task'[b].epoch = task[b].epoch
    BY <1>3, <1>6 DEF SameNames, r, s
  <2> QED BY <1>3, <2>1, <2>2 DEF LoneInv, NamedInv, Nudged
<1>12. ReapedIsProved'
  <2>1. ASSUME NEW b \in Agents, task'[b].reaped, task'[b].runtime # 0
        PROVE  inc'[b][task'[b].runtime].proc \in {"stopped", "completed"}
    <3>0. task'[b].runtime = task[b].runtime /\ task[b].runtime \in Epochs
          /\ task[b].runtime = task[b].epoch /\ inc[b][task[b].runtime].proc # "none"
      BY <1>3, <1>6, <2>1 DEF LoneInv, NamedInv, SameNames, r, s
    <3>1. inc[b][task[b].runtime].proc \in {"stopped", "completed"}
      <4>1. CASE task[b].reaped
        BY <2>1, <3>0, <4>1 DEF LoneInv, ReapedIsProved
      <4>2. CASE ~task[b].reaped
        <5>1. b = a /\ k.pc \in Finishing /\ ProvesReaped(CtlProc(c))
          BY <1>3, <1>6, <2>1, <4>2 DEF r, s
        <5>2. e # 0
          BY <1>2, <3>0, <5>1, EpochsAre DEF CallGuard, a, e
        <5>3. task[b].runtime = e
          BY <1>8, <3>0, <5>1, <5>2 DEF r
        <5> QED BY <1>7, <3>0, <5>1, <5>2, <5>3 DEF ProvesReaped
      <4> QED BY <4>1, <4>2
    <3> QED BY <1>3, <3>0, <3>1 DEF Nudged
  <2> QED BY <2>1 DEF ReapedIsProved
<1>13. EntryInv'
  <2>1. ASSUME NEW b \in Agents, active'[b] # 0 PROVE inc'[b][active'[b]].pc \notin Early
    <3>0. active'[b] \in Epochs /\ active'[b] = active[b]
      BY <1>5, <2>1, EpochsAre DEF SchedulerInv, ThreadInv
    <3> QED BY <1>3, <2>1, <3>0 DEF LoneInv, EntryInv, Nudged
  <2>2. ASSUME NEW b \in Agents, NEW f \in Epochs, inc'[b][f].pc \in Early
        PROVE  inc'[b][f].life = "Running"
    <3>1. inc[b][f].pc \in Early /\ inc[b][f].life = "Running"
      BY <1>3, <2>2 DEF LoneInv, EntryInv, Nudged
    <3>2. ~(b = a /\ f \in {e, k.sink})
      BY <1>2, <3>1, EpochsAre DEF CallGuard, a, e
    <3> QED BY <1>4, <3>1, <3>2
  <2> QED BY <2>1, <2>2 DEF EntryInv
<1>14. CallInv'
  <2>1. ASSUME NEW d \in Callers, d # c, ctl'[d].pc \notin {"idle", "done"} PROVE CallGuard(ctl[d])'
    <3> DEFINE l == ctl[d]
    <3>1. l.agent \in Agents /\ CallGuard(l) /\ ctl'[d] = l
          /\ (l.epoch # 0 => l.epoch \in Epochs) /\ (l.sink # 0 => l.sink \in Epochs)
      BY <1>3, <2>1, GoodCallIs, EpochsAre DEF LoneInv, CallInv, SchedulerInv, ThreadInv, Call
    <3> HIDE DEF l
    <3>2. \A f \in Epochs : Nudged(inc[l.agent][f], inc'[l.agent][f])
      BY <1>3, <3>1
    <3>3. task'[l.agent].epoch = task[l.agent].epoch
          /\ (task[l.agent].phase \in {"CANCELLING", "TERMINAL"} =>
                task'[l.agent].phase \in {"CANCELLING", "TERMINAL"})
      BY <1>3, <1>6, <3>1 DEF SameNames, r, s
    <3> QED BY <3>1, <3>2, <3>3 DEF CallGuard, Nudged
  <2>2. ASSUME n.pc \notin {"idle", "done"} PROVE CallGuard(ctl[c])'
    <3>1. n.agent = a /\ n.epoch = e /\ n.sink \in {k.sink, active[a], e}
      BY <1>4, <2>2, ReturnedIsGood
    <3>2. \A f \in Epochs : Nudged(inc[a][f], inc'[a][f])
      BY <1>0, <1>3
    <3>3. e # 0 => inc'[a][e].pc \notin Early
      BY <1>1, <1>2, <3>2 DEF CallGuard, Nudged, a, e
    <3>4. n.sink # 0 => inc'[a][n.sink].pc \notin Early
      <4>1. active[a] # 0 => active[a] \in Epochs /\ inc[a][active[a]].pc \notin Early
        BY <1>0, EpochsAre DEF LoneInv, EntryInv, SchedulerInv, ThreadInv
      <4> QED BY <1>1, <1>2, <3>1, <3>2, <4>1 DEF CallGuard, Nudged, a, e
    <3>5. n.pc # "request"
      BY <1>4, <2>2, ReturnedIsGood
    <3>6. ASSUME n.pc \in Finishing
          PROVE  IF e = 0 THEN task'[a].epoch = 0 /\ task'[a].phase \in {"CANCELLING", "TERMINAL"}
                          ELSE inc'[a][e].proc # "alive"
      <4>1. CASE k.pc \in Finishing
        BY <1>1, <1>2, <1>6, <3>2, <4>1 DEF CallGuard, Nudged, SameNames, a, e, r, s
      <4>2. CASE e # 0 /\ inc'[a][e].proc # "alive"
        BY <4>2
      <4>3. CASE e = 0 /\ k.pc = "request" /\ r.phase = "QUEUED"
        BY <1>0, <1>6, <4>3 DEF LoneInv, ClaimInv, SameNames, r, s
      <4> QED BY <1>4, <3>6, <4>1, <4>2, <4>3
    <3> QED BY <3>1, <3>3, <3>4, <3>5, <3>6 DEF CallGuard, n
  <2> QED BY <2>1, <2>2 DEF CallInv, n
<1>u. ASSUME NEW b \in Agents, NEW f \in Epochs, task[b].phase = "TERMINAL", Unnamed(b, f)
      PROVE  task'[b].phase = "TERMINAL" /\ Unnamed(b, f)'
  <2>1. task'[b].phase = "TERMINAL" /\ task'[b].runtime = task[b].runtime
    BY <1>3, <1>6, <1>u DEF SameNames, r, s
  <2> QED BY <1>3, <1>u, <2>1 DEF Unnamed, Nudged
<1>15. EndedInv'
  <2>1. ASSUME NEW b \in Agents, NEW f \in Epochs, task'[b].phase = "TERMINAL"
        PROVE  inc'[b][f].pc # "claimed" /\ (inc'[b][f].proc = "alive" => Unnamed(b, f)')
    <3>1. /\ inc[b][f].pc # "claimed"
          /\ inc[b][f].proc = "alive" => task[b].phase = "TERMINAL" /\ Unnamed(b, f)
      <4>1. CASE task[b].phase = "TERMINAL"
        BY <4>1 DEF LoneInv, EndedInv
      <4>2. CASE task[b].phase # "TERMINAL"
        BY <1>3, <1>6, <1>9, <2>1, <4>2 DEF r, s
      <4> QED BY <4>1, <4>2
    <3>2. inc'[b][f].pc = inc[b][f].pc /\ (inc'[b][f].proc = "alive" => inc[b][f].proc = "alive")
      BY <1>3 DEF Nudged
    <3> QED BY <1>u, <3>1, <3>2
  <2>2. \A b \in Agents, f \in Epochs : inc'[b][f].pc = inc[b][f].pc
    BY <1>3 DEF Nudged
  <2> QED BY <1>3, <2>1, <2>2 DEF LoneInv, EndedInv
<1>16. OwnedInv'
  <2>1. ASSUME daemon = "up", NEW b \in Agents, NEW f \in Epochs, inc'[b][f].proc = "alive", Owned(b, f)
        PROVE  Owned(b, f)'
    <3>1. /\ inc[b][f].proc = "alive" /\ inc'[b][f].pc = inc[b][f].pc
          /\ inc[b][f].pc # "none"
          /\ inc[b][f].pc \notin Early => active[b] = f
          /\ Exposed(inc[b][f]) => \E d \in Callers : Stopper(d, b, f)
      BY <1>3, <2>1 DEF Nudged, Owned
    <3>2. inc'[b][f].pc \notin Early => active'[b] = f
      BY <1>5, <1>9, <3>1
    <3>3. ASSUME Exposed(inc[b][f]) PROVE \E d \in Callers : Stopper(d, b, f)'
      <4>1. PICK d \in Callers : Stopper(d, b, f)
        BY <3>1, <3>3
      <4>2. CASE d # c
        BY <1>3, <4>1, <4>2 DEF Stopper
      <4>3. CASE d = c
        <5>1. b = a /\ f = e /\ k.pc \in StopPcs /\ active[a] = e
          BY <3>1, <3>3, <4>1, <4>3 DEF Stopper, Exposed, Guarded, Early, a, e, k
        <5>2. n.pc \in StopPcs
          BY <1>4, <2>1, <5>1
        <5>3. n.agent = a /\ n.epoch = e
          BY <1>4, <5>2, ReturnedIsGood DEF StopPcs
        <5> QED BY <5>1, <5>2, <5>3 DEF Stopper, n
      <4> QED BY <4>2, <4>3
    <3>4. ASSUME Exposed(inc'[b][f]), ~Exposed(inc[b][f]) PROVE \E d \in Callers : Stopper(d, b, f)'
      <4>1. inc'[b][f].life # inc[b][f].life
        BY <3>1, <3>4 DEF Exposed
      <4>2. b = a /\ f \in {e, k.sink}
        BY <1>4, <4>1
      <4>3. k.pc \notin StopPcs \cup Finishing
        BY <1>4, <1>9, <2>1, <3>1, <4>1, <4>2
      <4>4. k.pc = "request"
        BY <1>1, <4>3 DEF CallPcs, StopPcs, Finishing
      <4>5. f = e /\ e # 0
        BY <1>2, <4>2, <4>4, EpochsAre DEF CallGuard
      <4>6. r.epoch = e /\ r.phase \in ActivePhases
        <5>1. r.phase # "TERMINAL"
          BY <1>1, <1>2, <3>1, <4>2, <4>5 DEF LoneInv, EndedInv, Unnamed, CallGuard, Early, a, e, r
        <5>2. r.phase \notin {"ABSENT", "QUEUED"}
          BY <1>0, <1>8, <4>5 DEF LoneInv, ClaimInv, r
        <5> QED BY <1>1, <1>8, <4>5, <5>1, <5>2 DEF TaskRow, Phases, ActivePhases
      <4>7. n.pc = "lock"
        BY <1>4, <4>4, <4>5, <4>6
      <4>8. n.agent = a /\ n.epoch = e
        BY <1>4, <4>7, ReturnedIsGood
      <4> QED BY <4>2, <4>5, <4>7, <4>8 DEF Stopper, StopPcs, n
    <3> QED BY <3>1, <3>2, <3>3, <3>4 DEF Owned
  <2>2. ASSUME daemon = "up", NEW b \in Agents, NEW f \in Epochs, inc'[b][f].proc = "alive"
        PROVE  Owned(b, f)' \/ (task'[b].phase = "TERMINAL" /\ Unnamed(b, f)')
    <3>1. Owned(b, f) \/ (task[b].phase = "TERMINAL" /\ Unnamed(b, f))
      BY <1>3, <2>2 DEF Nudged, LoneInv, OwnedInv
    <3> QED BY <1>u, <2>1, <2>2, <3>1
  <2> QED BY <1>3, <2>2 DEF OwnedInv
<1> QED BY <1>10, <1>11, <1>12, <1>13, <1>14, <1>15, <1>16 DEF LoneInv

(* By a step that leaves the rows of tasks, the processes, the entries and *)
(* the calls under way as they are: reading an entry, and sending.         *)
LEMMA LoneQuiet ==
  ASSUME LoneInv, SchedulerInv', UNCHANGED <<task, active, daemon, crashes>>,
         \A b \in Agents, f \in Epochs :
           /\ inc'[b][f].pc = inc[b][f].pc /\ inc'[b][f].proc = inc[b][f].proc
           /\ inc'[b][f].life = inc[b][f].life,
         \A c \in Callers :
           \/ ctl'[c] = ctl[c]
           \/ /\ ctl[c].pc = "idle" /\ ctl'[c].pc = "request" /\ ctl'[c].agent \in Agents
              /\ ctl'[c].epoch = active[ctl'[c].agent] /\ ctl'[c].sink = 0
  PROVE  LoneInv'
<1>1. ClaimInv' /\ NamedInv' /\ EndedInv' /\ ReapedIsProved'
  BY DEF LoneInv, ClaimInv, NamedInv, EndedInv, Unnamed, ReapedIsProved
<1>2. EntryInv'
  <2>1. \A a \in Agents : active[a] # 0 => active[a] \in Epochs
    BY EpochsAre DEF LoneInv, SchedulerInv, ThreadInv
  <2> QED BY <2>1 DEF LoneInv, EntryInv
<1>3. CallInv'
  <2>1. ASSUME NEW c \in Callers, ctl'[c].pc \notin {"idle", "done"} PROVE CallGuard(ctl[c])'
    <3>1. CASE ctl'[c] = ctl[c]
      <4> DEFINE k == ctl[c]
      <4>1. k.agent \in Agents /\ CallGuard(k) /\ ctl'[c] = k
            /\ (k.epoch # 0 => k.epoch \in Epochs) /\ (k.sink # 0 => k.sink \in Epochs)
        BY <2>1, <3>1, GoodCallIs, EpochsAre DEF LoneInv, CallInv, SchedulerInv, ThreadInv, Call
      <4> HIDE DEF k
      <4> QED BY <4>1 DEF CallGuard
    <3>2. CASE /\ ctl'[c].pc = "request" /\ ctl'[c].agent \in Agents
               /\ ctl'[c].epoch = active[ctl'[c].agent] /\ ctl'[c].sink = 0
      BY <1>2, <3>2 DEF CallGuard, EntryInv, Finishing
    <3> QED BY <3>1, <3>2
  <2> QED BY <2>1 DEF CallInv
<1>4. OwnedInv'
  <2>1. ASSUME NEW b \in Agents, NEW f \in Epochs, NEW c \in Callers, Stopper(c, b, f)
        PROVE  Stopper(c, b, f)'
    BY <2>1 DEF Stopper, StopPcs
  <2>2. \A b \in Agents, f \in Epochs : Exposed(inc'[b][f]) <=> Exposed(inc[b][f])
    BY DEF Exposed
  <2> QED BY <2>1, <2>2 DEF LoneInv, OwnedInv, Owned, Unnamed
<1> QED BY <1>1, <1>2, <1>3, <1>4 DEF LoneInv

(* By a submission: the task it queues was not there.                      *)
LEMMA LoneSubmit ==
  ASSUME LoneInv, SchedulerInv', NEW a \in Agents, Submit(a)
  PROVE  LoneInv'
<1>1. UNCHANGED memVars /\ EnqueueTask(a) /\ task[a].phase = "ABSENT"
  BY DEF Submit, EnqueueTask
<1>2. task \in [Agents -> TaskRow]
  BY DEF LoneInv, SchedulerInv, TypeOK
<1>3. /\ \A b \in Agents \ {a} : task'[b] = task[b]
      /\ task'[a].phase = "QUEUED" /\ task'[a].epoch = 0 /\ task'[a].runtime = 0
      /\ task'[a].reaped = FALSE
  BY <1>1, <1>2 DEF EnqueueTask, NoTask
<1>4. task[a].epoch = 0
  BY <1>1 DEF LoneInv, ClaimInv
<1>5. ClaimInv' /\ NamedInv' /\ EntryInv' /\ EndedInv' /\ ReapedIsProved'
  BY <1>1, <1>3, <1>4 DEF memVars, LoneInv, ClaimInv, NamedInv, EntryInv, EndedInv, Unnamed, ReapedIsProved
<1>6. CallInv'
  <2>1. ASSUME NEW c \in Callers, ctl[c].pc \notin {"idle", "done"} PROVE CallGuard(ctl[c])'
    <3>1. CallGuard(ctl[c]) /\ ctl[c].agent \in Agents
      BY <2>1, GoodCallIs DEF LoneInv, CallInv, SchedulerInv, ThreadInv
    <3> QED BY <1>1, <1>3, <3>1 DEF memVars, CallGuard
  <2> QED BY <1>1, <2>1 DEF memVars, CallInv
<1>7. OwnedInv'
  BY <1>1, <1>3 DEF memVars, LoneInv, OwnedInv, Owned, Unnamed, Stopper
<1> QED BY <1>5, <1>6, <1>7 DEF LoneInv

(* By a claim: the task had none, and so no thread, process or entry.      *)
LEMMA LoneClaim ==
  ASSUME LoneInv, SchedulerInv', NEW a \in Agents, StartReady(a)
  PROVE  LoneInv'
<1>0. run' \in [Resumers -> Run]
  BY DEF SchedulerInv, ThreadInv
<1> DEFINE e == task[a].epoch + 1
<1>1. /\ e \in Epochs
      /\ inc'[a][e].pc = "claimed" /\ inc'[a][e].proc = "none" /\ inc'[a][e].life = "Running"
      /\ \A b \in Agents, f \in Epochs : <<b, f>> # <<a, e>> => inc'[b][f] = inc[b][f]
      /\ UNCHANGED <<active, ctl, run, send, daemon, crashes>>
  BY <1>0, ClaimGood DEF StartReady, LoneInv
<1>d. daemon = "up" /\ daemon' = "up" /\ crashes' = crashes
  BY DEF StartReady, Claim
<1>2. task \in [Agents -> TaskRow] /\ task[a] \in TaskRow
  BY DEF LoneInv, SchedulerInv, TypeOK
<1>3. /\ \A b \in Agents \ {a} : task'[b] = task[b]
      /\ task[a].phase = "QUEUED" /\ task[a].epoch = 0
      /\ task'[a].phase = "PREPARING" /\ task'[a].epoch = e
      /\ task'[a].runtime = task[a].runtime /\ task'[a].reaped = task[a].reaped
  <2>1. task[a].phase = "QUEUED" /\ \A b \in Agents \ {a} : task'[b] = task[b]
    BY <1>2 DEF StartReady, Claim, ClaimNext, Claimable
  <2>2. task'[a] = [task[a] EXCEPT !.phase = "PREPARING", !.epoch = task[a].epoch + 1]
    BY <1>2 DEF StartReady, Claim, ClaimNext
  <2>3. task[a].epoch = 0
    BY <2>1 DEF LoneInv, ClaimInv
  <2> QED BY <1>2, <2>1, <2>2, <2>3 DEF TaskRow
<1>4. e # 0
  BY <1>1, EpochsAre
<1> HIDE DEF e
<1>5. \A f \in Epochs : inc[a][f].pc = "none" /\ inc[a][f].proc = "none"
  BY <1>3, EpochsAre DEF LoneInv, ClaimInv
<1>6. task[a].runtime = 0 /\ ~task[a].reaped
  BY <1>3, EpochsAre DEF LoneInv, NamedInv
<1>7. ClaimInv'
  <2>1. \A b \in Agents : task'[b].phase \in {"ABSENT", "QUEUED"} => task'[b].epoch = 0
    BY <1>3 DEF LoneInv, ClaimInv
  <2>2. ASSUME NEW b \in Agents, NEW f \in Epochs,
               inc'[b][f].pc # "none" \/ inc'[b][f].proc # "none"
        PROVE  task'[b].epoch = f
    <3>1. CASE b = a
      BY <1>1, <1>3, <1>5, <2>2, <3>1
    <3>2. CASE b # a
      BY <1>1, <1>3, <2>2, <3>2 DEF LoneInv, ClaimInv
    <3> QED BY <3>1, <3>2
  <2> QED BY <2>1, <2>2 DEF ClaimInv
<1>8. NamedInv' /\ ReapedIsProved'
  BY <1>1, <1>3, <1>6 DEF LoneInv, NamedInv, ReapedIsProved
<1>9. EntryInv'
  <2>1. active[a] = 0
    BY <1>5, EpochsAre DEF LoneInv, EntryInv, Early, SchedulerInv, ThreadInv
  <2>2. \A b \in Agents : active[b] # 0 => active[b] \in Epochs
    BY EpochsAre DEF LoneInv, SchedulerInv, ThreadInv
  <2> QED BY <1>1, <2>1, <2>2 DEF LoneInv, EntryInv
<1>10. CallInv'
  <2>1. ASSUME NEW c \in Callers, ctl[c].pc \notin {"idle", "done"} PROVE CallGuard(ctl[c])'
    <3> DEFINE k == ctl[c]
    <3>1. k.agent \in Agents /\ CallGuard(k) /\ ctl'[c] = k
          /\ (k.epoch # 0 => k.epoch \in Epochs) /\ (k.sink # 0 => k.sink \in Epochs)
      BY <1>1, <2>1, GoodCallIs, EpochsAre DEF LoneInv, CallInv, SchedulerInv, ThreadInv, Call
    <3> HIDE DEF k
    <3>2. CASE k.agent = a
      <4>1. k.epoch = 0 /\ k.sink = 0 /\ k.pc \notin Finishing
        BY <1>3, <1>5, <3>1, <3>2 DEF CallGuard, Early
      <4> QED BY <3>1, <4>1 DEF CallGuard
    <3>3. CASE k.agent # a
      BY <1>1, <1>3, <3>1, <3>3 DEF CallGuard
    <3> QED BY <3>2, <3>3
  <2> QED BY <1>1, <2>1 DEF CallInv
<1>11. EndedInv'
  BY <1>1, <1>3, <1>d DEF LoneInv, EndedInv, Unnamed
<1>12. OwnedInv'
  <2>1. ASSUME NEW b \in Agents, NEW f \in Epochs, inc'[b][f].proc = "alive"
        PROVE  inc'[b][f] = inc[b][f]
    BY <1>1, <2>1
  <2>2. \A b \in Agents, f \in Epochs : inc[b][f].proc = "alive" => b # a
    BY <1>5
  <2> QED BY <1>1, <1>3, <2>1, <2>2 DEF LoneInv, OwnedInv, Owned, Unnamed, Stopper
<1> QED BY <1>7, <1>8, <1>9, <1>10, <1>11, <1>12 DEF LoneInv

(* By recovery, which ends the process that the row names.                 *)
LEMMA LoneRecovery ==
  ASSUME LoneInv, SchedulerInv', RecoveryStep
  PROVE  LoneInv'
<1>1. daemon = "starting" /\ crashes # 0
  BY DEF LoneInv, EndedInv, RecoveryStep, RecoverTask, RefuseTask, Recovered, NextToRecover
<1>2. ASSUME UNCHANGED <<task, inc, active, ctl, crashes>>,
             daemon' = "up" => \A a \in Agents : ~NeedsRecovery(a)
      PROVE  LoneInv'
  <2>1. ClaimInv' /\ NamedInv' /\ EntryInv' /\ CallInv' /\ ReapedIsProved'
    BY <1>2 DEF LoneInv, ClaimInv, NamedInv, EntryInv, CallInv, CallGuard, ReapedIsProved
  <2>2. EndedInv'
    BY <1>1, <1>2 DEF LoneInv, EndedInv, Unnamed
  <2>3. ASSUME daemon' = "up", NEW a \in Agents, NEW e \in Epochs, inc[a][e].proc = "alive"
        PROVE  task[a].phase = "TERMINAL" /\ Unnamed(a, e)
    <3>1. task[a].phase \notin {"ABSENT", "QUEUED"} \cup ActivePhases
      BY <1>2, <2>3, EpochsAre DEF LoneInv, ClaimInv, NeedsRecovery
    <3>2. task[a].phase = "TERMINAL"
      BY <3>1 DEF LoneInv, SchedulerInv, TypeOK, TaskRow, Phases, ActivePhases
    <3> QED BY <2>3, <3>2 DEF LoneInv, EndedInv
  <2>4. OwnedInv'
    BY <1>2, <2>3 DEF OwnedInv, Unnamed
  <2> QED BY <2>1, <2>2, <2>4 DEF LoneInv
<1>3. ASSUME NEW a \in Agents, RecoverTask(a) PROVE LoneInv'
  <2>0. StoresResult(a) \/ ReapTask(a)
    BY <1>3, OutcomesAssumption DEF RecoverTask, StoresResult
  <2>t. SchedulerInv /\ TypeOK
    BY DEF LoneInv, SchedulerInv
  <2>1. /\ UNCHANGED <<active, ctl, daemon, crashes>>
        /\ \A b \in Agents, f \in Epochs :
             /\ inc'[b][f].pc = inc[b][f].pc /\ inc'[b][f].life = inc[b][f].life
             /\ inc'[b][f].proc = IF b = a /\ f = task[a].runtime THEN "stopped" ELSE inc[b][f].proc
    BY <1>3, <2>t, RecoverGood
  <2>2. OnlyRow(a) /\ (EndedRow(task[a], task'[a]) \/ ReapedRow(task[a], task'[a]))
    BY <2>0, <2>t, RowSteps
  <2>3. /\ \A b \in Agents \ {a} : task'[b] = task[b]
        /\ task'[a].epoch = task[a].epoch /\ task'[a].runtime = task[a].runtime
        /\ task'[a].phase = "TERMINAL" /\ task[a].phase \notin {"ABSENT", "QUEUED"}
        /\ task'[a].reaped => task[a].reaped \/ task[a].phase = "TERMINAL"
    BY <2>2 DEF OnlyRow, EndedRow, ReapedRow, SameNames, ActivePhases
  <2>4. ClaimInv'
    <3>1. \A b \in Agents : task'[b].phase \in {"ABSENT", "QUEUED"} => task'[b].epoch = 0
      BY <2>3 DEF LoneInv, ClaimInv
    <3>2. ASSUME NEW b \in Agents, NEW f \in Epochs,
                 inc'[b][f].pc # "none" \/ inc'[b][f].proc # "none"
          PROVE  task'[b].epoch = f
      <4>1. CASE b = a /\ f = task[a].runtime
        BY <2>3, <4>1, EpochsAre DEF LoneInv, NamedInv
      <4>2. CASE ~(b = a /\ f = task[a].runtime)
        BY <2>1, <2>3, <3>2, <4>2 DEF LoneInv, ClaimInv
      <4> QED BY <4>1, <4>2
    <3> QED BY <3>1, <3>2 DEF ClaimInv
  <2>5. NamedInv'
    <3>1. \A b \in Agents : task'[b].reaped => task'[b].phase = "TERMINAL"
      BY <2>3 DEF LoneInv, NamedInv
    <3>2. \A b \in Agents : task'[b].runtime = task[b].runtime /\ task'[b].epoch = task[b].epoch
      BY <2>3
    <3> QED BY <2>1, <3>1, <3>2 DEF LoneInv, NamedInv
  <2>6. ReapedIsProved'
    <3>1. ASSUME NEW b \in Agents, task'[b].reaped, task'[b].runtime # 0
          PROVE  inc'[b][task'[b].runtime].proc \in {"stopped", "completed"}
      <4>1. task'[b].runtime = task[b].runtime /\ task[b].runtime \in Epochs
        BY <2>3, <3>1 DEF LoneInv, NamedInv
      <4>2. CASE b = a
        BY <2>1, <4>1, <4>2
      <4>3. CASE b # a
        BY <2>1, <2>3, <3>1, <4>1, <4>3 DEF LoneInv, ReapedIsProved
      <4> QED BY <4>2, <4>3
    <3> QED BY <3>1 DEF ReapedIsProved
  <2>7. EntryInv'
    <3>1. \A b \in Agents : active[b] # 0 => active[b] \in Epochs
      BY EpochsAre DEF LoneInv, SchedulerInv, ThreadInv
    <3> QED BY <2>1, <3>1 DEF LoneInv, EntryInv
  <2>8. CallInv'
    <3>1. ASSUME NEW c \in Callers, ctl[c].pc \notin {"idle", "done"} PROVE CallGuard(ctl[c])'
      <4> DEFINE k == ctl[c]
      <4>1. k.agent \in Agents /\ CallGuard(k) /\ ctl'[c] = k
            /\ (k.epoch # 0 => k.epoch \in Epochs) /\ (k.sink # 0 => k.sink \in Epochs)
        BY <2>1, <3>1, GoodCallIs, EpochsAre DEF LoneInv, CallInv, SchedulerInv, ThreadInv, Call
      <4> HIDE DEF k
      <4>2. /\ task'[k.agent].epoch = task[k.agent].epoch
            /\ task[k.agent].phase \in {"CANCELLING", "TERMINAL"} =>
                 task'[k.agent].phase \in {"CANCELLING", "TERMINAL"}
        BY <2>3, <4>1
      <4> QED BY <2>1, <4>1, <4>2 DEF CallGuard
    <3> QED BY <2>1, <3>1 DEF CallInv
  <2>9. EndedInv'
    <3>1. \A b \in Agents, f \in Epochs : inc'[b][f].pc = "none"
      BY <1>1, <2>1 DEF LoneInv, EndedInv
    <3>2. ASSUME NEW b \in Agents, NEW f \in Epochs, task'[b].phase = "TERMINAL", inc'[b][f].proc = "alive"
          PROVE  task'[b].runtime = 0
      <4>1. inc[b][f].proc = "alive" /\ ~(b = a /\ f = task[a].runtime)
        BY <2>1, <3>2
      <4>2. CASE b = a
        BY <2>3, <4>1, <4>2 DEF LoneInv, ClaimInv, NamedInv
      <4>3. CASE b # a
        BY <2>3, <3>2, <4>1, <4>3 DEF LoneInv, EndedInv, Unnamed
      <4> QED BY <4>2, <4>3
    <3> QED BY <1>1, <2>1, <3>1, <3>2 DEF EndedInv, Unnamed
  <2> QED BY <1>1, <2>1, <2>4, <2>5, <2>6, <2>7, <2>8, <2>9 DEF LoneInv, OwnedInv
<1>4. ASSUME NEW a \in Agents, RefuseTask(a) PROVE LoneInv'
  BY <1>2, <1>4 DEF RefuseTask, storeVars
<1>5. ASSUME Recovered PROVE LoneInv'
  BY <1>2, <1>5 DEF Recovered, storeVars
<1> QED BY <1>3, <1>4, <1>5 DEF RecoveryStep

(* By a crash, after which no thread, entry or call is left.               *)
LEMMA LoneCrash ==
  ASSUME LoneInv, SchedulerInv', Crash
  PROVE  LoneInv'
<1>1. /\ \A a \in Agents, e \in Epochs :
           /\ inc'[a][e].pc = "none" /\ inc'[a][e].life = "Running"
           /\ inc'[a][e].proc = inc[a][e].proc
      /\ \A a \in Agents : active'[a] = 0
      /\ \A c \in Callers : ctl'[c].pc \in {"idle", "done"}
      /\ crashes' # 0
  BY CrashGood DEF LoneInv
<1>d. daemon' # "up"
  BY DEF Crash
<1>2. UNCHANGED task
  BY DEF Crash, storeVars
<1>3. ClaimInv' /\ NamedInv' /\ EntryInv' /\ CallInv' /\ ReapedIsProved'
  BY <1>1, <1>2 DEF LoneInv, ClaimInv, NamedInv, EntryInv, CallInv, ReapedIsProved
<1>4. EndedInv'
  BY <1>1, <1>2 DEF LoneInv, EndedInv, Unnamed
<1> QED BY <1>d, <1>3, <1>4 DEF LoneInv, OwnedInv

(* The scheduler starts with nothing claimed.                              *)
LEMMA LoneInit == SchedulerInit => LoneInv
<1> SUFFICES ASSUME SchedulerInit PROVE LoneInv
  OBVIOUS
<1>1. SchedulerInv
  BY ThreadInit, TypeInit DEF SchedulerInit, SchedulerInv
<1>2. /\ \A a \in Agents : task[a] = NoTask /\ active[a] = 0
      /\ \A a \in Agents, e \in Epochs : inc[a][e] = NoIncarnation
      /\ \A c \in Callers : ctl[c] = NoCall
      /\ daemon = "up"
  BY DEF SchedulerInit, StoreInit
<1> QED BY <1>1, <1>2 DEF LoneInv, ClaimInv, NamedInv, EntryInv, CallInv, EndedInv, OwnedInv,
                          ReapedIsProved, NoTask, NoIncarnation, NoCall

(* Without resumers every step keeps the invariant.                        *)
LEMMA LoneNext == Resumers = {} /\ LoneInv /\ [SchedulerNext]_vars => LoneInv'
<1> SUFFICES ASSUME Resumers = {}, LoneInv, [SchedulerNext]_vars PROVE LoneInv'
  OBVIOUS
<1>0. SchedulerInv /\ SchedulerInv'
  BY SchedulerInvNext DEF LoneInv
<1>1. ASSUME NEW a \in Agents, Submit(a) \/ StartReady(a) PROVE LoneInv'
  BY <1>0, <1>1, LoneSubmit, LoneClaim
<1>2. ASSUME NEW a \in Agents, NEW e \in Epochs,
             StartStep(a, e) \/ MonitorStep(a, e) \/ Timeout(a, e) \/ TurnEnds(a, e) \/ ProcessExits(a, e)
      PROVE  LoneInv'
  BY <1>0, <1>2, ThreadEffects, LoneThread
<1>3. ASSUME NEW c \in Callers, CtlStep(c) PROVE LoneInv'
  BY <1>0, <1>3, LoneCall
<1>4. ASSUME NEW c \in Callers, NEW a \in Agents, CtlRead(c, a) PROVE LoneInv'
  <2>1. /\ inc' = inc /\ active' = active
        /\ ctl[c].pc = "idle" /\ \A d \in Callers \ {c} : ctl'[d] = ctl[d]
        /\ ctl'[c].pc = "request" /\ ctl'[c].agent = a
        /\ ctl'[c].epoch = active[a] /\ ctl'[c].sink = 0
    BY <1>0, <1>4, CtlReadGood
  <2>2. UNCHANGED <<task, daemon, crashes>>
    BY <1>4 DEF CtlRead, storeVars
  <2> QED BY <1>0, <2>1, <2>2, LoneQuiet
<1>5. ASSUME NEW s \in Senders, SendStep(s) \/ \E a \in Agents : SendRead(s, a) PROVE LoneInv'
  <2>1. SendMoves
    BY <1>0, <1>5, SendGood
  <2>2. UNCHANGED task
    BY <1>5 DEF SendStep, SendAdmit, SendRefused, SendInsert, SendRead, InsertMessage, storeVars
  <2> QED BY <1>0, <2>1, <2>2, LoneQuiet DEF SendMoves, Nudged
<1>6. CASE RecoveryStep \/ Crash
  BY <1>0, <1>6, LoneRecovery, LoneCrash
<1>7. CASE UNCHANGED vars
  BY <1>0, <1>7, LoneQuiet DEF vars, storeVars, memVars
<1> QED BY <1>1, <1>2, <1>3, <1>4, <1>5, <1>6, <1>7 DEF SchedulerNext

-----------------------------------------------------------------------------
(* What follows.                                                           *)

(* The invariant holds of every run of the daemon in which no terminal     *)
(* task is resumed.                                                        *)
THEOREM LoneInvariant == Resumers = {} /\ SchedulerSpec => []LoneInv
<1>1. SchedulerInit => LoneInv
  BY LoneInit
<1>2. CASE Resumers = {}
  <2>1. LoneInv /\ [SchedulerNext]_vars => LoneInv'
    BY <1>2, LoneNext
  <2> QED BY <1>1, <2>1, PTL DEF SchedulerSpec
<1>3. CASE Resumers # {}
  BY <1>3
<1> QED BY <1>2, <1>3

(* reaped_at is written only when the process group that the row names is  *)
(* proved gone, over late terminals, failed stops, crashes and recoveries. *)
THEOREM ReapIsProved == Resumers = {} /\ SchedulerSpec => []ReapedIsProved
<1>1. LoneInv => ReapedIsProved
  BY DEF LoneInv
<1> QED BY <1>1, LoneInvariant, PTL

(* Until the daemon crashes, a task is terminal only after its runtimes    *)
(* were ended, whichever of its threads and callers stores its result.     *)
THEOREM TerminalIsAfterStop ==
  Resumers = {} /\ SchedulerSpec => [](crashes = 0 => TerminalAfterStop)
<1>1. LoneInv => (crashes = 0 => TerminalAfterStop)
  BY DEF LoneInv, EndedInv, Unnamed, TerminalAfterStop
<1> QED BY <1>1, LoneInvariant, PTL

(* A terminal task whose row names its runtime has no live process.        *)
NamedIsStopped ==
  \A a \in Agents :
    task[a].phase = "TERMINAL" /\ task[a].runtime # 0 => \A e \in Epochs : inc[a][e].proc # "alive"

(* Over crashes in any step and recoveries that fail or are cut short, a   *)
(* terminal task can have a live process only if the daemon crashed before *)
(* mark_session_running had named it: recover_startup_task ends every      *)
(* other.                                                                  *)
THEOREM OnlyUnnamedSurvive == Resumers = {} /\ SchedulerSpec => []NamedIsStopped
<1>1. LoneInv => NamedIsStopped
  BY DEF LoneInv, EndedInv, Unnamed, NamedIsStopped
<1> QED BY <1>1, LoneInvariant, PTL

(* Whenever the daemon is up, after crashes too, a live runtime of a live  *)
(* task has a thread that will end it: no race between starting, finishing *)
(* and cancelling loses one, and recovery leaves none.                     *)
THEOREM RuntimesAreOwned ==
  Resumers = {} /\ SchedulerSpec => [](daemon = "up" => RuntimeIsOwned)
<1>1. LoneInv => (daemon = "up" => RuntimeIsOwned)
  <2> SUFFICES ASSUME LoneInv, daemon = "up", NEW a \in Agents, NEW e \in Epochs, inc[a][e].proc = "alive", Live(a)
               PROVE  \/ inc[a][e].pc \notin {"none", "done"}
                      \/ \E c \in Callers :
                           ctl[c].agent = a /\ ctl[c].epoch = e /\ ctl[c].pc \in {"lock", "failClosed", "cleanup"}
    BY DEF RuntimeIsOwned
  <2>1. Owned(a, e)
    BY DEF LoneInv, OwnedInv, Live, ActivePhases
  <2> QED BY <2>1 DEF Owned, Exposed, Stopper, StopPcs
<1> QED BY <1>1, LoneInvariant, PTL

=============================================================================
