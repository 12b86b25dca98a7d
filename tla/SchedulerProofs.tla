-------------------------- MODULE SchedulerProofs --------------------------
(***************************************************************************)
(* Machine-checked safety of the scheduler, for every set of agents,       *)
(* callers, senders and resumers and every bound on claims and crashes.    *)
(***************************************************************************)
EXTENDS Scheduler, TaskStoreProofs

-----------------------------------------------------------------------------
(* What a thread knows where it is.  These are invariants of single rows:  *)
(* a claimed incarnation has no process yet; one past the spawn has one,   *)
(* until it is proved gone; and a thread that finishes a task has stopped  *)
(* its process and holds an outcome the store takes.                       *)

Deciding == {"stopping", "timeout", "finish", "persist", "fallback", "reap"}

Started == {"booting", "booted", "registered", "unmarked", "marked", "delivering", "cleanup",
            "stopping", "monitor", "sending", "timeout", "finish"}

Finishing == {"finish", "persist", "fallback", "reap"}

GoodIncarnation ==
  {i \in Incarnation :
     /\ i.pc \in Deciding => i.outcome \in ResultOutcomes
     /\ i.pc = "claimed" => i.proc = "none"
     /\ i.pc \in Started => i.proc # "none"
     /\ i.pc \in Finishing => i.proc # "alive"}

(* A control call under way knows its agent; one that waits for the lock,  *)
(* or works without it, knows the runtime it read.                         *)
GoodCall ==
  {k \in Call :
     /\ k.pc \notin {"idle", "done"} => k.agent \in Agents
     /\ k.pc \in {"lock", "failClosed", "cleanup", "persist", "fallback", "reap"} =>
          k.outcome \in ResultOutcomes
     /\ k.pc \in {"lock", "failClosed", "cleanup", "persist"} => k.epoch # 0
     /\ k.pc = "persist" => k.sink # 0}

GoodSend == {k \in Send : k.pc \in {"read", "admitted"} => k.agent \in Agents}

(* While the daemon is down or starts, no incarnation has a thread.        *)
NoThreads == daemon # "up" => \A a \in Agents, e \in Epochs : inc[a][e].pc = "none"

ThreadInv ==
  /\ inc \in [Agents -> [Epochs -> GoodIncarnation]]
  /\ active \in [Agents -> 0..MaxEpoch]
  /\ ctl \in [Callers -> GoodCall]
  /\ run \in [Resumers -> Run]
  /\ send \in [Senders -> GoodSend]
  /\ daemon \in {"up", "starting", "refused"}
  /\ crashes \in 0..MaxCrashes
  /\ NoThreads

SchedulerInv == TypeOK /\ ThreadInv

-----------------------------------------------------------------------------
(* Epochs are positive naturals.                                           *)
LEMMA EpochsAre ==
  /\ \A e \in Epochs : e \in Nat /\ e # 0 /\ e \in 0..MaxEpoch
  /\ \A e \in 0..MaxEpoch : e # 0 => e \in Epochs
  /\ 0 \in 0..MaxEpoch
BY StoreAssumption DEF Epochs

(* The names of states are states.                                         *)
LEMMA Names ==
  /\ "none" \in Pcs /\ "claimed" \in Pcs /\ "booting" \in Pcs /\ "booted" \in Pcs
  /\ "registered" \in Pcs /\ "unmarked" \in Pcs /\ "marked" \in Pcs /\ "delivering" \in Pcs
  /\ "cleanup" \in Pcs /\ "stopping" \in Pcs /\ "monitor" \in Pcs /\ "sending" \in Pcs
  /\ "timeout" \in Pcs /\ "finish" \in Pcs /\ "persist" \in Pcs /\ "fallback" \in Pcs
  /\ "reap" \in Pcs /\ "done" \in Pcs
  /\ "none" \in Procs /\ "alive" \in Procs /\ "stopped" \in Procs /\ "completed" \in Procs /\ "lost" \in Procs
  /\ "Running" \in Lives /\ "Stopping" \in Lives /\ "Terminal" \in Lives
  /\ "free" \in Locks /\ "self" \in Locks /\ Callers \subseteq Locks /\ Senders \subseteq Locks
  /\ None \in Outcomes \cup {None}
  /\ "idle" \in CallPcs /\ "request" \in CallPcs /\ "lock" \in CallPcs /\ "failClosed" \in CallPcs
  /\ "cleanup" \in CallPcs /\ "persist" \in CallPcs /\ "fallback" \in CallPcs
  /\ "reap" \in CallPcs /\ "done" \in CallPcs
BY DEF Pcs, Procs, Lives, Locks, CallPcs

(* A step of one incarnation to a good row keeps the others good.          *)
LEMMA GotoGood ==
  ASSUME ThreadInv, NEW a \in Agents, NEW e \in Epochs, NEW row \in GoodIncarnation,
         Goto(a, e, row)
  PROVE  /\ inc' \in [Agents -> [Epochs -> GoodIncarnation]]
         /\ inc'[a][e] = row
         /\ \A b \in Agents, f \in Epochs : <<b, f>> # <<a, e>> => inc'[b][f] = inc[b][f]
BY DEF ThreadInv, Goto

(* Stopping a process leaves one that is not alive, and one that was there.*)
LEMMA StoppedProc ==
  ASSUME NEW p \in Procs,
         NEW t \in {"stopped", "completed"}, NEW q \in Stopped(p, t)
  PROVE  /\ q \in {"none", "stopped", "completed", "lost"}
         /\ p # "none" => q # "none"
         /\ p = "none" => q = "none"
         /\ p # "alive" => q = p
BY DEF Stopped, Procs

(* release_active gives up an entry, or leaves it.                         *)
LEMMA ReleaseType ==
  ASSUME ThreadInv, NEW a \in Agents, NEW e \in 0..MaxEpoch, ReleaseActive(a, e)
  PROVE  /\ active' \in [Agents -> 0..MaxEpoch]
         /\ active'[a] = IF active[a] = e THEN 0 ELSE active[a]
         /\ \A b \in Agents \ {a} : active'[b] = active[b]
BY EpochsAre DEF ThreadInv, ReleaseActive

(* What one thread, or its process, may do to its row: a thread moves from *)
(* the claim to its end, a process starts only from a claim, and one that  *)
(* is proved gone stays gone.                                              *)
Early == {"none", "claimed", "booting", "booted"}

Guarded == {"registered", "unmarked", "marked", "delivering", "monitor", "sending"}

(* A thread that does not end its process, or may leave it: it is done, or *)
(* it finds its runtime stopping.                                          *)
Exposed(i) == i.pc = "done" \/ (i.pc \in Guarded /\ i.life # "Running")

Advances(i, j) ==
  /\ j.pc = "none" <=> i.pc = "none"
  /\ j.pc = "claimed" => i.pc = "claimed"
  /\ j.pc \in Early => i.pc \in Early /\ j.life = i.life
  /\ j.proc = "alive" => i.proc = "alive" \/ i.pc = "claimed"
  /\ j.proc # "none" => i.proc # "none" \/ i.pc = "claimed"
  /\ i.proc # "none" => j.proc # "none"
  /\ i.proc \in {"stopped", "completed"} => j.proc = i.proc

(* A live runtime past its registration keeps its entry, and is exposed    *)
(* only where it was, unless the entry had been lost.                      *)
Keeps(a, e, j, entry) ==
  LET i == inc[a][e]
      lost == i.pc \notin Early /\ active[a] # e IN
  /\ entry \in {active[a], 0} \/ (entry = e /\ j.pc \notin Early)
  /\ j.proc = "alive" =>
       /\ j.pc \notin Early => entry = e \/ lost
       /\ Exposed(j) => Exposed(i) \/ (i.pc \in Early /\ i.life # "Running") \/ lost

Moves(a, e) ==
  /\ \A b \in Agents, f \in Epochs : <<b, f>> # <<a, e>> => inc'[b][f] = inc[b][f]
  /\ \A b \in Agents \ {a} : active'[b] = active[b]
  /\ Advances(inc[a][e], inc'[a][e])
  /\ Keeps(a, e, inc'[a][e], active'[a])
  /\ UNCHANGED <<ctl, run, send, daemon, crashes>>

(* A step of one thread to a good row keeps every thread good.             *)
LEMMA ThreadStep ==
  ASSUME ThreadInv, NEW a \in Agents, NEW e \in Epochs, NEW row \in GoodIncarnation,
         Goto(a, e, row), daemon = "up" \/ row.pc = inc[a][e].pc,
         Advances(inc[a][e], row),
         active' \in [Agents -> 0..MaxEpoch], \A b \in Agents \ {a} : active'[b] = active[b],
         Keeps(a, e, row, active'[a]),
         UNCHANGED <<ctl, run, send, daemon, crashes>>
  PROVE  ThreadInv' /\ Moves(a, e)
<1>0. inc'[a][e] = row /\ \A b \in Agents, f \in Epochs : <<b, f>> # <<a, e>> => inc'[b][f] = inc[b][f]
  BY GotoGood
<1>1. NoThreads'
  <2>1. CASE daemon = "up"
    BY <2>1 DEF NoThreads
  <2>2. CASE daemon # "up"
    <3>1. ASSUME NEW b \in Agents, NEW f \in Epochs PROVE inc'[b][f].pc = "none"
      BY <1>0, <2>2 DEF ThreadInv, NoThreads
    <3> QED BY <3>1 DEF NoThreads
  <2> QED BY <2>1, <2>2
<1>2. ThreadInv'
  BY <1>1, GotoGood DEF ThreadInv
<1>3. inc'[a][e] = row /\ \A b \in Agents, f \in Epochs : <<b, f>> # <<a, e>> => inc'[b][f] = inc[b][f]
  BY GotoGood
<1>4. Advances(inc[a][e], inc'[a][e]) /\ Keeps(a, e, inc'[a][e], active'[a])
  BY <1>3
<1> QED BY <1>2, <1>3, <1>4 DEF Moves

(* The same for a step that leaves the entries alone.                      *)
LEMMA ThreadStepHere ==
  ASSUME ThreadInv, NEW a \in Agents, NEW e \in Epochs, NEW row \in GoodIncarnation,
         Goto(a, e, row), daemon = "up" \/ row.pc = inc[a][e].pc,
         Advances(inc[a][e], row), Keeps(a, e, row, active[a]),
         UNCHANGED <<active, ctl, run, send, daemon, crashes>>
  PROVE  ThreadInv' /\ Moves(a, e)
<1>1. active' \in [Agents -> 0..MaxEpoch] /\ \A b \in Agents \ {a} : active'[b] = active[b]
  BY DEF ThreadInv
<1>2. active'[a] = active[a]
  OBVIOUS
<1>3. Keeps(a, e, row, active'[a])
  BY <1>2
<1> QED BY <1>1, <1>3, ThreadStep

(* What it takes to be good.                                               *)
LEMMA GoodIs ==
  \A i : i \in GoodIncarnation <=>
    /\ i \in Incarnation
    /\ i.pc \in Deciding => i.outcome \in ResultOutcomes
    /\ i.pc = "claimed" => i.proc = "none"
    /\ i.pc \in Started => i.proc # "none"
    /\ i.pc \in Finishing => i.proc # "alive"
BY DEF GoodIncarnation

(* A thread that is done has nothing left to be good about; it may be done *)
(* before its process only if it lost its entry.                           *)
LEMMA DoneGood ==
  ASSUME ThreadInv, NEW a \in Agents, NEW e \in Epochs, NEW row \in Incarnation,
         row.proc = inc[a][e].proc, inc[a][e].pc \notin Early,
         inc[a][e].proc # "alive" \/ active[a] # e,
         Done(a, e, row), daemon = "up", UNCHANGED <<ctl, run, send, daemon, crashes>>
  PROVE  ThreadInv' /\ Moves(a, e)
<1> DEFINE life == IF active[a] = e THEN "Terminal" ELSE row.life
           lock == IF row.lock = "self" THEN "free" ELSE row.lock
           written == IF row.written = "writing" THEN "yes" ELSE row.written
           new == [row EXCEPT !.pc = "done", !.outcome = None, !.failure = FALSE, !.bail = FALSE,
                              !.life = life, !.lock = lock, !.written = written]
<1>1. life \in Lives /\ lock \in Locks /\ written \in {"no", "writing", "yes"}
  BY Names DEF Incarnation
<1>2. Goto(a, e, new)
  BY DEF Done
<1> HIDE DEF life, lock, written
<1>3. new \in Incarnation /\ new.pc = "done" /\ new.proc = row.proc
  BY <1>1, Names DEF Incarnation
<1> HIDE DEF new
<1>4. new \in GoodIncarnation
  BY <1>3, GoodIs DEF Deciding, Started, Finishing
<1>5. /\ active' \in [Agents -> 0..MaxEpoch]
      /\ active'[a] = IF active[a] = e THEN 0 ELSE active[a]
      /\ \A b \in Agents \ {a} : active'[b] = active[b]
  BY ReleaseType, EpochsAre DEF Done
<1>6. Advances(inc[a][e], new)
  BY <1>3 DEF Advances, Early
<1>7. Keeps(a, e, new, active'[a])
  BY <1>3, <1>5 DEF Keeps, Early
<1> QED BY <1>2, <1>4, <1>5, <1>6, <1>7, ThreadStep

(* Nor has one that gives up.                                              *)
LEMMA GiveUpGood ==
  ASSUME ThreadInv, NEW a \in Agents, NEW e \in Epochs,
         inc[a][e].proc # "alive", inc[a][e].pc \notin Early,
         GiveUp(a, e), daemon = "up", UNCHANGED <<ctl, run, send, daemon, crashes>>
  PROVE  ThreadInv' /\ Moves(a, e)
<1> DEFINE i == inc[a][e]
           ret == IF i.ret = "started" THEN "started" ELSE "error"
           new == [i EXCEPT !.pc = "done", !.outcome = None, !.bail = FALSE, !.lock = "free"]
           old == [i EXCEPT !.ret = ret]
<1>0. i \in Incarnation
  BY GoodIs DEF ThreadInv
<1>1. new \in Incarnation /\ new.pc = "done" /\ new.proc = i.proc
  BY <1>0, Names DEF Incarnation
<1>2. old \in Incarnation /\ old.proc = i.proc
  BY <1>0 DEF Incarnation
<1>3. i.bail => Goto(a, e, new) /\ UNCHANGED active
  BY DEF GiveUp
<1>4. ~i.bail => Done(a, e, old)
  BY DEF GiveUp
<1> HIDE DEF new, old
<1>5. new \in GoodIncarnation /\ Advances(i, new) /\ Keeps(a, e, new, active[a])
  BY <1>1, GoodIs DEF Deciding, Started, Finishing, Advances, Keeps, Early
<1>6. CASE i.bail
  BY <1>1, <1>3, <1>5, <1>6, ThreadStepHere
<1>7. CASE ~i.bail
  BY <1>2, <1>4, <1>7, DoneGood
<1> QED BY <1>6, <1>7

(* A step of start_claim keeps every thread good.                          *)
LEMMA StartGood ==
  ASSUME SchedulerInv, NEW a \in Agents, NEW e \in Epochs, StartStep(a, e)
  PROVE  ThreadInv' /\ Moves(a, e)
<1> DEFINE i == inc[a][e]
<1>0. /\ SchedulerInv
      /\ i \in Incarnation
      /\ i.pc \in Deciding => i.outcome \in ResultOutcomes
      /\ i.pc = "claimed" => i.proc = "none"
      /\ i.pc \in Started => i.proc # "none"
      /\ i.pc \in Finishing => i.proc # "alive"
      /\ i.proc \in Procs
      /\ i.life \in Lives
      /\ task[a] \in TaskRow
      /\ active \in [Agents -> 0..MaxEpoch]
  BY GoodIs DEF SchedulerInv, ThreadInv, TypeOK, Incarnation
<1>i. i \in Incarnation
  BY <1>0
<1> HIDE DEF i
<1>1. CASE SpawnFails(a, e)
  <2>1. PICK o \in ResultOutcomes :
          Goto(a, e, [i EXCEPT !.pc = "fallback", !.ret = "error", !.outcome = o])
    BY <1>1 DEF SpawnFails, i
  <2>2. o \in Outcomes \cup {None}
    BY <1>0, StoreAssumption
  <2> DEFINE row == [i EXCEPT !.pc = "fallback", !.ret = "error", !.outcome = o]
  <2>r. row \in Incarnation
    BY <1>i, <2>2, Names DEF Incarnation
  <2>3. row \in Incarnation /\ row.pc = "fallback" /\ row.proc = i.proc /\ row.outcome = o
        /\ row.life = i.life
    BY <1>i, <2>r DEF Incarnation
  <2>4. Goto(a, e, row)
    BY <2>1
  <2> HIDE DEF row
  <2>5. row \in GoodIncarnation
    BY <1>0, <2>3, <1>1, GoodIs, <2>2 DEF Deciding, Started, Finishing, SpawnFails, At, i
  <2>6. Advances(i, row) /\ Keeps(a, e, row, active[a])
    BY <1>0, <2>3, <1>1, <2>2
       DEF Advances, Keeps, Exposed, Early, Guarded, Started, Finishing, SpawnFails, At, i
  <2> QED BY <1>0, <1>1, <2>4, <2>5, <2>6, ThreadStepHere DEF SpawnFails, At, SchedulerInv, i
<1>2. CASE Spawn(a, e)
  <2>1. Goto(a, e, [i EXCEPT !.pc = "booting", !.proc = "alive"])
    BY <1>2 DEF Spawn, i
  <2> DEFINE row == [i EXCEPT !.pc = "booting", !.proc = "alive"]
  <2>r. row \in Incarnation
    BY <1>i, Names DEF Incarnation
  <2>3. row \in Incarnation /\ row.pc = "booting" /\ row.proc = "alive"
        /\ row.outcome = i.outcome /\ row.life = i.life
    BY <1>i, <2>r DEF Incarnation
  <2>4. Goto(a, e, row)
    BY <2>1
  <2> HIDE DEF row
  <2>5. row \in GoodIncarnation
    BY <1>0, <2>3, <1>2, GoodIs DEF Deciding, Started, Finishing, Spawn, At, i
  <2>6. Advances(i, row) /\ Keeps(a, e, row, active[a])
    BY <1>0, <2>3, <1>2
       DEF Advances, Keeps, Exposed, Early, Guarded, Started, Finishing, Spawn, At, i
  <2> QED BY <1>0, <1>2, <2>4, <2>5, <2>6, ThreadStepHere DEF Spawn, At, SchedulerInv, i
<1>3. CASE Bootstrap(a, e)
  <2> DEFINE turn == IF i.resumed THEN "idle" ELSE "active"
  <2>d. turn \in {"idle", "active"}
    BY <1>0 DEF Incarnation
  <2>1. Goto(a, e, [i EXCEPT !.pc = "booted", !.turn = turn])
    BY <1>3 DEF Bootstrap, i
  <2> HIDE DEF turn
  <2> DEFINE row == [i EXCEPT !.pc = "booted", !.turn = turn]
  <2>r. row \in Incarnation
    BY <1>i, <2>d, Names DEF Incarnation
  <2>3. row \in Incarnation /\ row.pc = "booted" /\ row.proc = i.proc /\ row.outcome = i.outcome
        /\ row.life = i.life
    BY <1>i, <2>r DEF Incarnation
  <2>4. Goto(a, e, row)
    BY <2>1
  <2> HIDE DEF row
  <2>5. row \in GoodIncarnation
    BY <1>0, <2>3, <1>3, GoodIs, <2>d DEF Deciding, Started, Finishing, Bootstrap, At, i
  <2>6. Advances(i, row) /\ Keeps(a, e, row, active[a])
    BY <1>0, <2>3, <1>3, <2>d
       DEF Advances, Keeps, Exposed, Early, Guarded, Started, Finishing, Bootstrap, At, i
  <2> QED BY <1>0, <1>3, <2>4, <2>5, <2>6, ThreadStepHere DEF Bootstrap, At, SchedulerInv, i
<1>4. CASE BootstrapFails(a, e)
  <2>1. PICK o \in ResultOutcomes, p \in Stopped(i.proc, "stopped") :
          Goto(a, e, [i EXCEPT !.pc = "fallback", !.ret = "error", !.outcome = o, !.proc = p])
    BY <1>4 DEF BootstrapFails, i
  <2>2. o \in Outcomes \cup {None} /\ p \in {"none", "stopped", "completed", "lost"}
        /\ (i.proc # "none" <=> p # "none") /\ (i.proc # "alive" => p = i.proc)
    BY <1>0, StoreAssumption, StoppedProc
  <2>o. o \in Outcomes \cup {None}
    BY <2>2
  <2>p. p \in Procs
    BY <2>2 DEF Procs
  <2> DEFINE row == [i EXCEPT !.pc = "fallback", !.ret = "error", !.outcome = o, !.proc = p]
  <2>r. row \in Incarnation
    BY <1>i, <2>o, <2>p, Names DEF Incarnation
  <2>3. row \in Incarnation /\ row.pc = "fallback" /\ row.proc = p /\ row.outcome = o
        /\ row.life = i.life
    BY <1>i, <2>r DEF Incarnation
  <2>4. Goto(a, e, row)
    BY <2>1
  <2> HIDE DEF row
  <2>5. row \in GoodIncarnation
    BY <1>0, <2>3, <1>4, GoodIs, <2>2, <2>p DEF Deciding, Started, Finishing, BootstrapFails, At, i
  <2>6. Advances(i, row) /\ Keeps(a, e, row, active[a])
    BY <1>0, <2>3, <1>4, <2>2, <2>p
       DEF Advances, Keeps, Exposed, Early, Guarded, Started, Finishing, BootstrapFails, At, i
  <2> QED BY <1>0, <1>4, <2>4, <2>5, <2>6, ThreadStepHere DEF BootstrapFails, At, SchedulerInv, i
<1>5. CASE Register(a, e)
  <2> DEFINE row == [i EXCEPT !.pc = "registered"]
  <2>1. row \in Incarnation /\ row.pc = "registered" /\ row.proc = i.proc /\ row.life = i.life
    BY <1>i, Names DEF Incarnation
  <2>2. Goto(a, e, row) /\ i.pc = "booted"
    BY <1>5 DEF Register, At, i
  <2> HIDE DEF row
  <2>3. row \in GoodIncarnation
    BY <1>0, <2>1, <2>2, GoodIs DEF Deciding, Started, Finishing
  <2>4. /\ active' \in [Agents -> 0..MaxEpoch]
        /\ active'[a] = e /\ \A b \in Agents \ {a} : active'[b] = active[b]
    BY <1>0, <1>5, EpochsAre DEF Register
  <2>5. Advances(i, row) /\ Keeps(a, e, row, active'[a])
    BY <1>0, <2>1, <2>2, <2>4 DEF Advances, Keeps, Exposed, Early, Guarded, i
  <2> QED BY <1>0, <1>5, <2>2, <2>3, <2>4, <2>5, ThreadStep DEF Register, At, SchedulerInv, i
<1>6. CASE MarkRunning(a, e)
  <2>1. PICK n \in {"marked", "unmarked"} : Goto(a, e, [i EXCEPT !.pc = n])
    BY <1>6 DEF MarkRunning, i
  <2> DEFINE row == [i EXCEPT !.pc = n]
  <2>r. row \in Incarnation
    BY <1>i, Names DEF Incarnation
  <2>3. row \in Incarnation /\ row.pc = n /\ row.proc = i.proc /\ row.outcome = i.outcome
        /\ row.life = i.life
    BY <1>i, <2>r DEF Incarnation
  <2>4. Goto(a, e, row)
    BY <2>1
  <2> HIDE DEF row
  <2>5. row \in GoodIncarnation
    BY <1>0, <2>3, <1>6, GoodIs DEF Deciding, Started, Finishing, MarkRunning, At, i
  <2>6. Advances(i, row) /\ Keeps(a, e, row, active[a])
    BY <1>0, <2>3, <1>6
       DEF Advances, Keeps, Exposed, Early, Guarded, Started, Finishing, MarkRunning, At, i
  <2> QED BY <1>0, <1>6, <2>4, <2>5, <2>6, ThreadStepHere DEF MarkRunning, At, SchedulerInv, i
<1>7. CASE Unmarked(a, e)
  <2> DEFINE failure == ~StopIntent(a) /\ task[a].phase \notin {"CANCELLING", "TERMINAL"}
  <2>d. failure \in BOOLEAN
    BY <1>0 
  <2>1. Goto(a, e, [i EXCEPT !.pc = "cleanup", !.ret = "notStarted", !.failure = failure])
    BY <1>7 DEF Unmarked, i
  <2> HIDE DEF failure
  <2> DEFINE row == [i EXCEPT !.pc = "cleanup", !.ret = "notStarted", !.failure = failure]
  <2>r. row \in Incarnation
    BY <1>i, <2>d, Names DEF Incarnation
  <2>3. row \in Incarnation /\ row.pc = "cleanup" /\ row.proc = i.proc
        /\ row.outcome = i.outcome /\ row.life = i.life
    BY <1>i, <2>r DEF Incarnation
  <2>4. Goto(a, e, row)
    BY <2>1
  <2> HIDE DEF row
  <2>5. row \in GoodIncarnation
    BY <1>0, <2>3, <1>7, GoodIs, <2>d DEF Deciding, Started, Finishing, Unmarked, At, i
  <2>6. Advances(i, row) /\ Keeps(a, e, row, active[a])
    BY <1>0, <2>3, <1>7, <2>d
       DEF Advances, Keeps, Exposed, Early, Guarded, Started, Finishing, Unmarked, At, i
  <2> QED BY <1>0, <1>7, <2>4, <2>5, <2>6, ThreadStepHere DEF Unmarked, At, SchedulerInv, i
<1>8. CASE Recheck(a, e)
  <2>1. ASSUME NEW row, row \in Incarnation, row.pc \in {"delivering", "monitor", "cleanup"},
               row.proc = i.proc, row.life = i.life, Goto(a, e, row)
        PROVE  ThreadInv' /\ Moves(a, e)
    <3>1. row \in GoodIncarnation
      BY <1>0, <1>8, <2>1, GoodIs DEF Deciding, Started, Finishing, Recheck, At, i
    <3>2. Advances(i, row) /\ Keeps(a, e, row, active[a])
      BY <1>0, <1>8, <2>1 DEF Advances, Keeps, Exposed, Early, Guarded, Recheck, At, i
    <3> QED BY <1>0, <1>8, <2>1, <3>1, <3>2, ThreadStepHere DEF Recheck, At, SchedulerInv, i
  <2> DEFINE r1 == [i EXCEPT !.pc = "delivering"]
             r2 == [i EXCEPT !.pc = "monitor", !.ret = "started"]
             r3 == [i EXCEPT !.pc = "cleanup", !.ret = "notStarted"]
  <2>2. Goto(a, e, r1) \/ Goto(a, e, r2) \/ Goto(a, e, r3)
    BY <1>8 DEF Recheck, i
  <2>a. r1 \in Incarnation
    BY <1>i, Names DEF Incarnation
  <2>b. r2 \in Incarnation
    BY <1>i, Names DEF Incarnation
  <2>c. r3 \in Incarnation
    BY <1>i, Names DEF Incarnation
  <2>3. r1 \in Incarnation /\ r2 \in Incarnation /\ r3 \in Incarnation
    BY <2>a, <2>b, <2>c
  <2>4. r1.pc = "delivering" /\ r2.pc = "monitor" /\ r3.pc = "cleanup"
    BY <1>i DEF Incarnation
  <2>5. /\ r1.proc = i.proc /\ r2.proc = i.proc /\ r3.proc = i.proc
        /\ r1.life = i.life /\ r2.life = i.life /\ r3.life = i.life
    BY <1>i DEF Incarnation
  <2> HIDE DEF r1, r2, r3
  <2> QED BY <2>1, <2>2, <2>3, <2>4, <2>5
<1>9. CASE DeliverNone(a, e)
  <2>1. Goto(a, e, [i EXCEPT !.pc = "monitor", !.ret = "started"])
    BY <1>9 DEF DeliverNone, i
  <2> DEFINE row == [i EXCEPT !.pc = "monitor", !.ret = "started"]
  <2>r. row \in Incarnation
    BY <1>i, Names DEF Incarnation
  <2>3. row \in Incarnation /\ row.pc = "monitor" /\ row.proc = i.proc
        /\ row.outcome = i.outcome /\ row.life = i.life
    BY <1>i, <2>r DEF Incarnation
  <2>4. Goto(a, e, row)
    BY <2>1
  <2> HIDE DEF row
  <2>5. row \in GoodIncarnation
    BY <1>0, <2>3, <1>9, GoodIs DEF Deciding, Started, Finishing, DeliverNone, At, i
  <2>6. Advances(i, row) /\ Keeps(a, e, row, active[a])
    BY <1>0, <2>3, <1>9
       DEF Advances, Keeps, Exposed, Early, Guarded, Started, Finishing, DeliverNone, At, i
  <2> QED BY <1>0, <1>9, <2>4, <2>5, <2>6, ThreadStepHere DEF DeliverNone, At, SchedulerInv, i
<1>10. CASE DeliverClaim(a, e)
  <2>1. Goto(a, e, [i EXCEPT !.pc = "sending", !.lock = "self"])
    BY <1>10 DEF DeliverClaim, i
  <2> DEFINE row == [i EXCEPT !.pc = "sending", !.lock = "self"]
  <2>r. row \in Incarnation
    BY <1>i, Names DEF Incarnation
  <2>3. row \in Incarnation /\ row.pc = "sending" /\ row.proc = i.proc
        /\ row.outcome = i.outcome /\ row.life = i.life
    BY <1>i, <2>r DEF Incarnation
  <2>4. Goto(a, e, row)
    BY <2>1
  <2> HIDE DEF row
  <2>5. row \in GoodIncarnation
    BY <1>0, <2>3, <1>10, GoodIs DEF Deciding, Started, Finishing, DeliverClaim, At, i
  <2>6. Advances(i, row) /\ Keeps(a, e, row, active[a])
    BY <1>0, <2>3, <1>10
       DEF Advances, Keeps, Exposed, Early, Guarded, Started, Finishing, DeliverClaim, At, i
  <2> QED BY <1>0, <1>10, <2>4, <2>5, <2>6, ThreadStepHere DEF DeliverClaim, At, SchedulerInv, i
<1>11. CASE DeliverLate(a, e)
  <2>1. Goto(a, e, [i EXCEPT !.pc = "cleanup", !.ret = "error", !.failure = TRUE, !.lock = "self"])
    BY <1>11 DEF DeliverLate, i
  <2> DEFINE row == [i EXCEPT !.pc = "cleanup", !.ret = "error", !.failure = TRUE, !.lock = "self"]
  <2>r. row \in Incarnation
    BY <1>i, Names DEF Incarnation
  <2>3. row \in Incarnation /\ row.pc = "cleanup" /\ row.proc = i.proc
        /\ row.outcome = i.outcome /\ row.life = i.life
    BY <1>i, <2>r DEF Incarnation
  <2>4. Goto(a, e, row)
    BY <2>1
  <2> HIDE DEF row
  <2>5. row \in GoodIncarnation
    BY <1>0, <2>3, <1>11, GoodIs DEF Deciding, Started, Finishing, DeliverLate, At, i
  <2>6. Advances(i, row) /\ Keeps(a, e, row, active[a])
    BY <1>0, <2>3, <1>11
       DEF Advances, Keeps, Exposed, Early, Guarded, Started, Finishing, DeliverLate, At, i
  <2> QED BY <1>0, <1>11, <2>4, <2>5, <2>6, ThreadStepHere DEF DeliverLate, At, SchedulerInv, i
<1>12. CASE CleanupRequest(a, e)
  <2>1. PICK o \in {"CANCELLED", "FAILED"} : Goto(a, e, [i EXCEPT !.pc = "stopping", !.outcome = o])
    BY <1>12 DEF CleanupRequest, i
  <2>2. o \in Outcomes \cup {None} /\ o \in ResultOutcomes
    BY <1>0, StoreAssumption, OutcomesAssumption
  <2> DEFINE row == [i EXCEPT !.pc = "stopping", !.outcome = o]
  <2>r. row \in Incarnation
    BY <1>i, <2>2, Names DEF Incarnation
  <2>3. row \in Incarnation /\ row.pc = "stopping" /\ row.proc = i.proc /\ row.outcome = o
        /\ row.life = i.life
    BY <1>i, <2>r DEF Incarnation
  <2>4. Goto(a, e, row)
    BY <2>1
  <2> HIDE DEF row
  <2>5. row \in GoodIncarnation
    BY <1>0, <2>3, <1>12, GoodIs, <2>2 DEF Deciding, Started, Finishing, CleanupRequest, At, i
  <2>6. Advances(i, row) /\ Keeps(a, e, row, active[a])
    BY <1>0, <2>3, <1>12, <2>2
       DEF Advances, Keeps, Exposed, Early, Guarded, Started, Finishing, CleanupRequest, At, i
  <2> QED BY <1>0, <1>12, <2>4, <2>5, <2>6, ThreadStepHere DEF CleanupRequest, At, SchedulerInv, i
<1>13. CASE CleanupStop(a, e)
  <2>1. CASE active[a] = e
    <3> DEFINE n == FinishRoute(a)
               l == RequestLifeStop(i.life)
    <3>1. n \in {"persist", "fallback"} /\ l \in Lives
      BY <1>0, Names DEF FinishRoute, RequestLifeStop
    <3>2. PICK p \in Stopped(i.proc, "stopped") :
                 Goto(a, e, [i EXCEPT !.pc = n, !.life = l, !.proc = p]) /\ UNCHANGED active
      BY <1>13, <2>1 DEF CleanupStop, i
    <3> HIDE DEF n, l
    <3>3. p \in {"none", "stopped", "completed", "lost"}
      BY <1>0, StoppedProc
    <3> DEFINE row == [i EXCEPT !.pc = n, !.life = l, !.proc = p]
    <3>p. p \in Procs /\ n \in Pcs
      BY <3>1, <3>3 DEF Procs, Pcs
    <3>r. row \in Incarnation
      BY <1>i, <3>1, <3>p DEF Incarnation
    <3>4. row \in Incarnation /\ row.pc = n /\ row.proc = p /\ row.outcome = i.outcome
      BY <1>i, <3>r DEF Incarnation
    <3>5. Goto(a, e, row)
      BY <3>2
    <3> HIDE DEF row
    <3>6. row \in GoodIncarnation
      BY <1>0, <1>13, <3>1, <3>3, <3>4, GoodIs DEF Deciding, Started, Finishing, CleanupStop, At, i
    <3>7. Advances(i, row) /\ Keeps(a, e, row, active[a])
      BY <1>0, <1>13, <3>1, <3>3, <3>4, StoppedProc, <3>2
         DEF Advances, Keeps, Exposed, Early, Guarded, Started, CleanupStop, At, i
    <3> QED BY <1>0, <1>13, <3>2, <3>5, <3>6, <3>7, ThreadStepHere
       DEF CleanupStop, At, SchedulerInv, i
  <2>2. CASE active[a] # e
    <3>1. [i EXCEPT !.ret = "error"] \in Incarnation /\ [i EXCEPT !.ret = "error"].proc = i.proc
      BY <1>i DEF Incarnation
    <3> QED BY <1>0, <1>13, <2>2, <3>1, DoneGood DEF CleanupStop, At, SchedulerInv, Early, i
  <2> QED BY <2>1, <2>2
<1> QED BY <1>0, <1>1, <1>2, <1>3, <1>4, <1>5, <1>6, <1>7, <1>8, <1>9, <1>10, <1>11, <1>12, <1>13
   DEF StartStep

(* Outcomes of a runtime's terminal are outcomes the store takes.          *)
LEMMA TerminalOutcomesAre == \A p : TerminalOutcomes(p) \subseteq ResultOutcomes
BY OutcomesAssumption DEF TerminalOutcomes

(* A failed delivery ends the claim, in start_claim or in the monitor.     *)
LEMMA DeliveryErrorGood ==
  ASSUME SchedulerInv, NEW a \in Agents, NEW e \in Epochs, DeliveryError(a, e),
         inc[a][e].pc = "sending", daemon = "up",
         UNCHANGED <<active, ctl, run, send, daemon, crashes>>
  PROVE  ThreadInv' /\ Moves(a, e)
<1> DEFINE i == inc[a][e]
<1>0. /\ i \in Incarnation /\ i \in GoodIncarnation
      /\ i.proc \in Procs /\ i.proc # "none"
      /\ ThreadInv
  BY GoodIs DEF SchedulerInv, ThreadInv, Incarnation, Started
<1>i. i \in Incarnation
  BY <1>0
<1> HIDE DEF i
<1>1. CASE i.ret = "started"
  <2>1. PICK p \in Stopped(i.proc, "stopped") :
          Goto(a, e, [i EXCEPT !.pc = "finish", !.outcome = "FAILED", !.proc = p])
    BY <1>1 DEF DeliveryError, i
  <2>2. /\ p \in {"none", "stopped", "completed", "lost"} /\ p # "none"
        /\ i.proc # "alive" => p = i.proc
    BY <1>0, StoppedProc
  <2>3. p \in Procs
    BY <2>2 DEF Procs
  <2>4. "FAILED" \in Outcomes \cup {None} /\ "FAILED" \in ResultOutcomes
    BY StoreAssumption, OutcomesAssumption
  <2> DEFINE row == [i EXCEPT !.pc = "finish", !.outcome = "FAILED", !.proc = p]
  <2>5. row \in Incarnation
    BY <1>i, <2>3, <2>4, Names DEF Incarnation
  <2>6. row \in Incarnation /\ row.pc = "finish" /\ row.proc = p /\ row.outcome = "FAILED"
    BY <1>i, <2>5 DEF Incarnation
  <2>7. Goto(a, e, row)
    BY <2>1
  <2> HIDE DEF row
  <2>8. row \in GoodIncarnation
    BY <2>2, <2>4, <2>6, GoodIs DEF Deciding, Started, Finishing
  <2>9. Advances(i, row) /\ Keeps(a, e, row, active[a])
    BY <1>0, <2>2, <2>6 DEF Advances, Keeps, Exposed, Early, Guarded, i
  <2> QED BY <1>0, <2>7, <2>8, <2>9, ThreadStepHere DEF i
<1>2. CASE i.ret # "started"
  <2> DEFINE row == [i EXCEPT !.pc = "cleanup", !.ret = "error", !.failure = TRUE]
  <2>1. row \in Incarnation
    BY <1>i, Names DEF Incarnation
  <2>2. row \in Incarnation /\ row.pc = "cleanup" /\ row.proc = i.proc /\ row.life = i.life
    BY <1>i, <2>1 DEF Incarnation
  <2>3. Goto(a, e, row)
    BY <1>2 DEF DeliveryError, i
  <2> HIDE DEF row
  <2>4. row \in GoodIncarnation
    BY <1>0, <2>2, GoodIs DEF Deciding, Started, Finishing
  <2>5. Advances(i, row) /\ Keeps(a, e, row, active[a])
    BY <1>0, <2>2 DEF Advances, Keeps, Exposed, Early, Guarded, i
  <2> QED BY <1>0, <2>3, <2>4, <2>5, ThreadStepHere DEF i
<1> QED BY <1>1, <1>2

(* A step of a monitor, or of a thread that finishes, keeps it good.       *)
LEMMA MonitorGood ==
  ASSUME SchedulerInv, NEW a \in Agents, NEW e \in Epochs, MonitorStep(a, e)
  PROVE  ThreadInv' /\ Moves(a, e)
<1> DEFINE i == inc[a][e]
<1>0. /\ SchedulerInv
      /\ i \in Incarnation
      /\ i.pc \in Deciding => i.outcome \in ResultOutcomes
      /\ i.pc = "claimed" => i.proc = "none"
      /\ i.pc \in Started => i.proc # "none"
      /\ i.pc \in Finishing => i.proc # "alive"
      /\ i.proc \in Procs
      /\ i.life \in Lives
      /\ task[a] \in TaskRow
      /\ active \in [Agents -> 0..MaxEpoch]
  BY GoodIs DEF SchedulerInv, ThreadInv, TypeOK, Incarnation
<1>i. i \in Incarnation
  BY <1>0
<1> HIDE DEF i
<1>1. CASE Sent(a, e)
  <2>1. CASE Claimed(a) # {}
    <3> DEFINE row == [i EXCEPT !.pc = "monitor", !.ret = "started", !.turn = "active", !.lock = "free"]
    <3>1. row \in Incarnation
      BY <1>i, Names DEF Incarnation
    <3>2. row \in Incarnation /\ row.pc = "monitor" /\ row.proc = i.proc /\ row.life = i.life
      BY <1>i, <3>1 DEF Incarnation
    <3>3. Goto(a, e, row)
      BY <1>1, <2>1 DEF Sent, i
    <3> HIDE DEF row
    <3>4. row \in GoodIncarnation
      BY <1>0, <1>1, <3>2, GoodIs DEF Deciding, Started, Finishing, Sent, At, i
    <3>5. Advances(i, row) /\ Keeps(a, e, row, active[a])
      BY <1>0, <1>1, <3>2 DEF Advances, Keeps, Exposed, Early, Guarded, Sent, At, i
    <3> QED BY <1>0, <1>1, <3>3, <3>4, <3>5, ThreadStepHere DEF Sent, At, SchedulerInv, i
  <2>2. CASE Claimed(a) = {}
    BY <1>0, <1>1, <2>2, DeliveryErrorGood DEF Sent, At
  <2> QED BY <2>1, <2>2
<1>2. CASE SendFails(a, e)
  BY <1>0, <1>2, DeliveryErrorGood DEF SendFails, At
<1>3. CASE TimeoutStops(a, e)
  <2> DEFINE l == RequestLifeStop(i.life)
  <2>d. l \in Lives
    BY <1>0, Names DEF RequestLifeStop
  <2>1. PICK p \in Stopped(i.proc, "stopped") :
          Goto(a, e, [i EXCEPT !.pc = "finish", !.lock = "self", !.proc = p, !.life = l])
    BY <1>3 DEF TimeoutStops, i
  <2> HIDE DEF l
  <2>2. p \in {"none", "stopped", "completed", "lost"} /\ (i.proc # "none" <=> p # "none")
        /\ (i.proc # "alive" => p = i.proc)
    BY <1>0, StoppedProc
  <2>p. p \in Procs
    BY <2>2 DEF Procs
  <2> DEFINE row == [i EXCEPT !.pc = "finish", !.lock = "self", !.proc = p, !.life = l]
  <2>r. row \in Incarnation
    BY <1>i, <2>d, <2>p, Names DEF Incarnation
  <2>3. row \in Incarnation /\ row.pc = "finish" /\ row.proc = p /\ row.outcome = i.outcome
        /\ row.life = l
    BY <1>i, <2>r DEF Incarnation
  <2>4. Goto(a, e, row)
    BY <2>1
  <2> HIDE DEF row
  <2>5. row \in GoodIncarnation
    BY <1>0, <2>3, <1>3, GoodIs, <2>d, <2>2, <2>p
       DEF Deciding, Started, Finishing, TimeoutStops, At, i
  <2>6. Advances(i, row) /\ Keeps(a, e, row, active[a])
    BY <1>0, <2>3, <1>3, <2>d, <2>2, <2>p
       DEF Advances, Keeps, Exposed, Early, Guarded, Started, Finishing, TimeoutStops, At, i
  <2> QED BY <1>0, <1>3, <2>4, <2>5, <2>6, ThreadStepHere DEF TimeoutStops, At, SchedulerInv, i
<1>4. CASE MonitorExit(a, e)
  <2>1. PICK o \in ResultOutcomes :
          Goto(a, e, IF i.life = "Terminal"
                       THEN [i EXCEPT !.pc = "done"]
                       ELSE [i EXCEPT !.pc = "finish", !.lock = "self", !.outcome = o])
    BY <1>4, TerminalOutcomesAre DEF MonitorExit, i
  <2>2. i.pc = "monitor" /\ i.proc \in {"stopped", "lost"} /\ daemon = "up"
    BY <1>4 DEF MonitorExit, At, i
  <2>3. o \in Outcomes \cup {None}
    BY StoreAssumption
  <2>4. ASSUME NEW row, row \in Incarnation, row.pc = "done" \/ (row.pc = "finish"
        /\ row.outcome = o),
               row.proc = i.proc, Goto(a, e, row)
        PROVE  ThreadInv' /\ Moves(a, e)
    <3>1. row \in GoodIncarnation
      BY <2>2, <2>4, GoodIs DEF Deciding, Started, Finishing
    <3>2. Advances(i, row) /\ Keeps(a, e, row, active[a])
      BY <2>2, <2>4 DEF Advances, Keeps, Exposed, Early, Guarded, i
    <3> QED BY <1>0, <1>4, <2>2, <2>4, <3>1, <3>2, ThreadStepHere DEF MonitorExit, SchedulerInv, i
  <2> DEFINE r1 == [i EXCEPT !.pc = "done"]
             r2 == [i EXCEPT !.pc = "finish", !.lock = "self", !.outcome = o]
  <2>5. Goto(a, e, r1) \/ Goto(a, e, r2)
    BY <2>1
  <2>6. r1 \in Incarnation
    BY <1>i, Names DEF Incarnation
  <2>7. r2 \in Incarnation
    BY <1>i, <2>3, Names DEF Incarnation
  <2>8. r1.pc = "done" /\ r1.proc = i.proc /\ r2.pc = "finish" /\ r2.proc = i.proc /\ r2.outcome = o
    BY <1>i DEF Incarnation
  <2> HIDE DEF r1, r2
  <2> QED BY <2>4, <2>5, <2>6, <2>7, <2>8
<1>5. CASE MonitorComplete(a, e)
  <2> DEFINE l == IF i.life = "Running" THEN "Terminal" ELSE i.life
  <2>1. PICK p \in Stopped(i.proc, "completed") : \E o \in TerminalOutcomes(p) :
          Goto(a, e, [i EXCEPT !.pc = "finish", !.lock = "self", !.proc = p, !.outcome = o, !.life = l])
    BY <1>5 DEF MonitorComplete, i
  <2>2. PICK o \in ResultOutcomes :
          Goto(a, e, [i EXCEPT !.pc = "finish", !.lock = "self", !.proc = p, !.outcome = o, !.life = l])
    BY <2>1, TerminalOutcomesAre
  <2>3. l \in Lives /\ o \in Outcomes \cup {None} /\ i.pc = "monitor" /\ daemon = "up"
    BY <1>0, <1>5, StoreAssumption, Names DEF MonitorComplete, At, i
  <2>4. /\ p \in {"none", "stopped", "completed", "lost"} /\ p # "none"
        /\ i.proc # "alive" => p = i.proc
    BY <1>0, <2>3, StoppedProc DEF Started
  <2>5. p \in Procs
    BY <2>4 DEF Procs
  <2> HIDE DEF l
  <2> DEFINE row == [i EXCEPT !.pc = "finish", !.lock = "self", !.proc = p, !.outcome = o, !.life = l]
  <2>6. row \in Incarnation
    BY <1>i, <2>3, <2>5, Names DEF Incarnation
  <2>7. row \in Incarnation /\ row.pc = "finish" /\ row.proc = p /\ row.outcome = o
    BY <1>i, <2>6 DEF Incarnation
  <2>8. Goto(a, e, row)
    BY <2>2
  <2> HIDE DEF row
  <2>9. row \in GoodIncarnation
    BY <2>4, <2>7, GoodIs DEF Deciding, Started, Finishing
  <2>10. Advances(i, row) /\ Keeps(a, e, row, active[a])
    BY <1>0, <2>3, <2>4, <2>7 DEF Advances, Keeps, Exposed, Early, Guarded, i
  <2> QED BY <1>0, <1>5, <2>3, <2>8, <2>9, <2>10, ThreadStepHere
     DEF MonitorComplete, SchedulerInv, i
<1>6. CASE MonitorClaims(a, e)
  <2>1. Goto(a, e, [i EXCEPT !.pc = "sending", !.lock = "self"])
    BY <1>6 DEF MonitorClaims, i
  <2> DEFINE row == [i EXCEPT !.pc = "sending", !.lock = "self"]
  <2>r. row \in Incarnation
    BY <1>i, Names DEF Incarnation
  <2>3. row \in Incarnation /\ row.pc = "sending" /\ row.proc = i.proc
        /\ row.outcome = i.outcome /\ row.life = i.life
    BY <1>i, <2>r DEF Incarnation
  <2>4. Goto(a, e, row)
    BY <2>1
  <2> HIDE DEF row
  <2>5. row \in GoodIncarnation
    BY <1>0, <2>3, <1>6, GoodIs
       DEF Deciding, Started, Finishing, MonitorClaims, DeliveryBoundary, At, i
  <2>6. Advances(i, row) /\ Keeps(a, e, row, active[a])
    BY <1>0, <2>3, <1>6
       DEF Advances, Keeps, Exposed, Early, Guarded, Started, Finishing, MonitorClaims, DeliveryBoundary, At, i
  <2> QED BY <1>0, <1>6, <2>4, <2>5, <2>6, ThreadStepHere
     DEF MonitorClaims, DeliveryBoundary, At, SchedulerInv, i
<1>7. CASE MonitorEnds(a, e)
  <2>1. PICK p \in Stopped(i.proc, IF i.turn = "failed" THEN "stopped" ELSE "completed") :
        \E o \in (IF i.turn = "failed" /\ p # "lost" THEN {"FAILED"} ELSE TerminalOutcomes(p)) :
          Goto(a, e, [i EXCEPT !.pc = "finish", !.lock = "self", !.proc = p, !.outcome = o])
    BY <1>7 DEF MonitorEnds, i
  <2>2. PICK o \in ResultOutcomes :
          Goto(a, e, [i EXCEPT !.pc = "finish", !.lock = "self", !.proc = p, !.outcome = o])
    BY <2>1, TerminalOutcomesAre, OutcomesAssumption
  <2>3. o \in Outcomes \cup {None} /\ i.pc = "monitor" /\ daemon = "up"
    BY <1>0, <1>7, StoreAssumption DEF MonitorEnds, DeliveryBoundary, At, i
  <2>4. /\ p \in {"none", "stopped", "completed", "lost"} /\ p # "none"
        /\ i.proc # "alive" => p = i.proc
    BY <1>0, <2>3, StoppedProc DEF Started
  <2>5. p \in Procs
    BY <2>4 DEF Procs
  <2> DEFINE row == [i EXCEPT !.pc = "finish", !.lock = "self", !.proc = p, !.outcome = o]
  <2>6. row \in Incarnation
    BY <1>i, <2>3, <2>5, Names DEF Incarnation
  <2>7. row \in Incarnation /\ row.pc = "finish" /\ row.proc = p /\ row.outcome = o
    BY <1>i, <2>6 DEF Incarnation
  <2>8. Goto(a, e, row)
    BY <2>2
  <2> HIDE DEF row
  <2>9. row \in GoodIncarnation
    BY <2>4, <2>7, GoodIs DEF Deciding, Started, Finishing
  <2>10. Advances(i, row) /\ Keeps(a, e, row, active[a])
    BY <1>0, <2>3, <2>4, <2>7 DEF Advances, Keeps, Exposed, Early, Guarded, i
  <2> QED BY <1>0, <1>7, <2>3, <2>8, <2>9, <2>10, ThreadStepHere DEF MonitorEnds, SchedulerInv, i
<1>8. CASE MonitorLeaves(a, e)
  <2>1. Goto(a, e, [i EXCEPT !.pc = "done"])
    BY <1>8 DEF MonitorLeaves, i
  <2> DEFINE row == [i EXCEPT !.pc = "done"]
  <2>r. row \in Incarnation
    BY <1>i, Names DEF Incarnation
  <2>3. row \in Incarnation /\ row.pc = "done" /\ row.proc = i.proc /\ row.outcome = i.outcome
        /\ row.life = i.life
    BY <1>i, <2>r DEF Incarnation
  <2>4. Goto(a, e, row)
    BY <2>1
  <2> HIDE DEF row
  <2>5. row \in GoodIncarnation
    BY <1>0, <2>3, <1>8, GoodIs DEF Deciding, Started, Finishing, MonitorLeaves, At, i
  <2>6. Advances(i, row) /\ Keeps(a, e, row, active[a])
    BY <1>0, <2>3, <1>8
       DEF Advances, Keeps, Exposed, Early, Guarded, Started, Finishing, MonitorLeaves, At, i
  <2> QED BY <1>0, <1>8, <2>4, <2>5, <2>6, ThreadStepHere DEF MonitorLeaves, At, SchedulerInv, i
<1>9. CASE MonitorDrops(a, e)
  <2>1. ThreadInv'
    BY <1>0, <1>9 DEF MonitorDrops, memVars, SchedulerInv, ThreadInv, NoThreads
  <2>2. inc' = inc /\ active' = active
    BY <1>9 DEF MonitorDrops, memVars
  <2>3. Advances(inc[a][e], inc'[a][e]) /\ Keeps(a, e, inc'[a][e], active'[a])
    BY <2>2, <1>9 DEF Advances, Keeps, MonitorDrops
  <2> QED BY <1>9, <2>1, <2>2, <2>3 DEF MonitorDrops, Moves, memVars
<1>10. CASE Finish(a, e)
  <2>0. i.pc = "finish" /\ daemon = "up" /\ i.proc # "alive"
    BY <1>0, <1>10 DEF Finish, At, i, Finishing
  <2>1. CASE task[a].phase = "TERMINAL" \/ task[a].epoch # e
    BY <1>0, <1>10, <2>0, <2>1, DoneGood DEF Finish, SchedulerInv, Early, i
  <2>2. CASE ~(task[a].phase = "TERMINAL" \/ task[a].epoch # e)
    <3> DEFINE o == IF StopIntent(a) THEN "CANCELLED" ELSE i.outcome
               l == IF StopIntent(a) THEN RequestLifeStop(i.life) ELSE i.life
    <3>1. PICK p \in (IF StopIntent(a) THEN Stopped(i.proc, "stopped") ELSE {i.proc}) :
            Goto(a, e, [i EXCEPT !.pc = "persist", !.proc = p, !.outcome = o, !.life = l])
      BY <1>10, <2>2 DEF Finish, i
    <3>2. p = i.proc
      BY <1>0, <2>0, StoppedProc
    <3>3. l \in Lives /\ o \in ResultOutcomes
      BY <1>0, <2>0, Names, OutcomesAssumption DEF RequestLifeStop, Deciding
    <3> HIDE DEF o, l
    <3>4. o \in Outcomes \cup {None} /\ i.proc \in Procs
      BY <1>0, <3>3, StoreAssumption
    <3> DEFINE row == [i EXCEPT !.pc = "persist", !.proc = p, !.outcome = o, !.life = l]
    <3>5. row \in Incarnation
      BY <1>i, <3>2, <3>3, <3>4, Names DEF Incarnation
    <3>6. row \in Incarnation /\ row.pc = "persist" /\ row.proc = i.proc /\ row.outcome = o
      BY <1>i, <3>2, <3>5 DEF Incarnation
    <3>7. Goto(a, e, row)
      BY <3>1
    <3> HIDE DEF row
    <3>8. row \in GoodIncarnation
      BY <2>0, <3>3, <3>6, GoodIs DEF Deciding, Started, Finishing
    <3>9. Advances(i, row) /\ Keeps(a, e, row, active[a])
      BY <2>0, <3>6 DEF Advances, Keeps, Exposed, Early, Guarded, i
    <3> QED BY <1>0, <1>10, <2>0, <2>2, <3>7, <3>8, <3>9, ThreadStepHere DEF Finish, SchedulerInv, i
  <2> QED BY <2>1, <2>2
<1>11. CASE Persist(a, e)
  <2> DEFINE term == [i EXCEPT !.life = "Terminal"]
             r1 == [term EXCEPT !.pc = "reap", !.written = "writing"]
             r2 == [term EXCEPT !.pc = "fallback"]
  <2>0. i.pc = "persist" /\ daemon = "up" /\ i.proc # "alive" /\ i.outcome \in ResultOutcomes
    BY <1>0, <1>11 DEF Persist, At, i, Finishing, Deciding
  <2>1. \/ Done(a, e, term)
        \/ (Goto(a, e, r1) \/ Goto(a, e, r2)) /\ UNCHANGED active
    BY <1>11 DEF Persist, i
  <2>2. term \in Incarnation /\ term.proc = i.proc /\ term.outcome = i.outcome
    BY <1>i, Names DEF Incarnation
  <2> HIDE DEF term
  <2>3. r1 \in Incarnation
    BY <2>2, Names DEF Incarnation
  <2>4. r2 \in Incarnation
    BY <2>2, Names DEF Incarnation
  <2>5. /\ r1.pc = "reap" /\ r1.proc = i.proc /\ r1.outcome = i.outcome
        /\ r2.pc = "fallback" /\ r2.proc = i.proc /\ r2.outcome = i.outcome
    BY <2>2 DEF Incarnation
  <2> HIDE DEF r1, r2
  <2>6. /\ r1 \in GoodIncarnation /\ r2 \in GoodIncarnation
        /\ Advances(i, r1) /\ Keeps(a, e, r1, active[a])
        /\ Advances(i, r2) /\ Keeps(a, e, r2, active[a])
    BY <2>0, <2>3, <2>4, <2>5, GoodIs
       DEF Deciding, Started, Finishing, Advances, Keeps, Exposed, Early, Guarded, i
  <2>7. CASE Done(a, e, term)
    BY <1>0, <1>11, <2>0, <2>2, <2>7, DoneGood DEF Persist, SchedulerInv, Early, i
  <2>8. CASE (Goto(a, e, r1) \/ Goto(a, e, r2)) /\ UNCHANGED active
    BY <1>0, <1>11, <2>0, <2>6, <2>8, ThreadStepHere DEF Persist, SchedulerInv, i
  <2> QED BY <2>1, <2>7, <2>8
<1>12. CASE Fallback(a, e)
  <2>0. i.pc = "fallback" /\ daemon = "up" /\ i.proc # "alive" /\ i.outcome \in ResultOutcomes
    BY <1>0, <1>12 DEF Fallback, At, i, Finishing, Deciding
  <2>1. CASE FallbackFails(a, i.outcome)
    BY <1>0, <1>12, <2>0, <2>1, GiveUpGood DEF Fallback, SchedulerInv, Early, i
  <2>2. CASE ~FallbackFails(a, i.outcome)
    <3> DEFINE row == [i EXCEPT !.pc = "reap"]
    <3>1. row \in Incarnation
      BY <1>i, Names DEF Incarnation
    <3>2. row \in Incarnation /\ row.pc = "reap" /\ row.proc = i.proc /\ row.outcome = i.outcome
      BY <1>i, <3>1 DEF Incarnation
    <3>3. Goto(a, e, row) /\ UNCHANGED active
      BY <1>12, <2>2 DEF Fallback, i
    <3> HIDE DEF row
    <3>4. row \in GoodIncarnation /\ Advances(i, row) /\ Keeps(a, e, row, active[a])
      BY <2>0, <3>2, GoodIs
         DEF Deciding, Started, Finishing, Advances, Keeps, Exposed, Early, Guarded, i
    <3> QED BY <1>0, <1>12, <2>0, <3>3, <3>4, ThreadStepHere DEF Fallback, SchedulerInv, i
  <2> QED BY <2>1, <2>2
<1>13. CASE Reap(a, e)
  <2>0. i.pc = "reap" /\ daemon = "up" /\ i.proc # "alive" /\ i.outcome \in ResultOutcomes
    BY <1>0, <1>13 DEF Reap, At, i, Finishing, Deciding
  <2> DEFINE row == [i EXCEPT !.pc = "fallback", !.written = "no"]
  <2>1. Done(a, e, i) \/ GiveUp(a, e) \/ (Goto(a, e, row) /\ UNCHANGED active)
    BY <1>13 DEF Reap, i
  <2>2. row \in Incarnation
    BY <1>i, Names DEF Incarnation
  <2>3. row.pc = "fallback" /\ row.proc = i.proc /\ row.outcome = i.outcome
    BY <1>i DEF Incarnation
  <2> HIDE DEF row
  <2>4. row \in GoodIncarnation /\ Advances(i, row) /\ Keeps(a, e, row, active[a])
    BY <2>0, <2>2, <2>3, GoodIs
       DEF Deciding, Started, Finishing, Advances, Keeps, Exposed, Early, Guarded, i
  <2>5. CASE Done(a, e, i)
    BY <1>0, <1>13, <2>0, <2>5, DoneGood DEF Reap, SchedulerInv, Early, i
  <2>6. CASE GiveUp(a, e)
    BY <1>0, <1>13, <2>0, <2>6, GiveUpGood DEF Reap, SchedulerInv, Early, i
  <2>7. CASE Goto(a, e, row) /\ UNCHANGED active
    BY <1>0, <1>13, <2>0, <2>4, <2>7, ThreadStepHere DEF Reap, SchedulerInv, i
  <2> QED BY <2>1, <2>5, <2>6, <2>7
<1> QED BY <1>0, <1>1, <1>2, <1>3, <1>4, <1>5, <1>6, <1>7, <1>8, <1>9, <1>10, <1>11, <1>12, <1>13
   DEF MonitorStep

(* A timeout, the end of a turn and the exit of a process keep it good.    *)
LEMMA RuntimeGood ==
  ASSUME SchedulerInv, NEW a \in Agents, NEW e \in Epochs,
         Timeout(a, e) \/ TurnEnds(a, e) \/ ProcessExits(a, e)
  PROVE  ThreadInv' /\ Moves(a, e)
<1> DEFINE i == inc[a][e]
<1>0. /\ SchedulerInv
      /\ i \in Incarnation
      /\ i.pc \in Deciding => i.outcome \in ResultOutcomes
      /\ i.pc = "claimed" => i.proc = "none"
      /\ i.pc \in Started => i.proc # "none"
      /\ i.pc \in Finishing => i.proc # "alive"
      /\ i.proc \in Procs
      /\ i.life \in Lives
      /\ task[a] \in TaskRow
      /\ active \in [Agents -> 0..MaxEpoch]
  BY GoodIs DEF SchedulerInv, ThreadInv, TypeOK, Incarnation
<1>i. i \in Incarnation
  BY <1>0
<1> HIDE DEF i
<1>1. CASE Timeout(a, e)
  <2> DEFINE l == RequestLifeStop(i.life)
  <2>1. PICK k \in {"TIMED_OUT", "BUDGET_EXHAUSTED"} \cap ResultOutcomes :
          Goto(a, e, [i EXCEPT !.pc = "timeout", !.life = l,
                               !.outcome = IF StopIntent(a) THEN "CANCELLED" ELSE k,
                               !.bail = (k = "TIMED_OUT")])
    BY <1>1 DEF Timeout, i
  <2> DEFINE o == IF StopIntent(a) THEN "CANCELLED" ELSE k
             bail == k = "TIMED_OUT"
  <2>2. l \in Lives /\ bail \in BOOLEAN /\ o \in ResultOutcomes
    BY <1>0, Names, OutcomesAssumption DEF RequestLifeStop
  <2>3. o \in Outcomes \cup {None} /\ i.pc = "monitor" /\ daemon = "up"
    BY <1>1, <2>2, StoreAssumption DEF Timeout, At, i
  <2> DEFINE row == [i EXCEPT !.pc = "timeout", !.life = l, !.outcome = o, !.bail = bail]
  <2>4. Goto(a, e, row)
    BY <2>1
  <2> HIDE DEF l, o, bail
  <2>5. row \in Incarnation
    BY <1>i, <2>2, <2>3, Names DEF Incarnation
  <2>6. row \in Incarnation /\ row.pc = "timeout" /\ row.proc = i.proc /\ row.outcome = o
    BY <1>i, <2>5 DEF Incarnation
  <2> HIDE DEF row
  <2>7. row \in GoodIncarnation /\ Advances(i, row) /\ Keeps(a, e, row, active[a])
    BY <1>0, <2>2, <2>3, <2>6, GoodIs
       DEF Deciding, Started, Finishing, Advances, Keeps, Exposed, Early, Guarded, i
  <2> QED BY <1>0, <1>1, <2>3, <2>4, <2>7, ThreadStepHere DEF Timeout, SchedulerInv, i
<1>2. CASE TurnEnds(a, e)
  <2>1. PICK t \in {"completed", "failed"} : Goto(a, e, [i EXCEPT !.turn = t])
    BY <1>2 DEF TurnEnds, i
  <2> DEFINE row == [i EXCEPT !.turn = t]
  <2>2. row \in Incarnation
    BY <1>i DEF Incarnation
  <2>3. row.pc = i.pc /\ row.proc = i.proc /\ row.outcome = i.outcome /\ row.life = i.life
    BY <1>i DEF Incarnation
  <2>4. Goto(a, e, row)
    BY <2>1
  <2> HIDE DEF row
  <2>5. row \in GoodIncarnation /\ Advances(i, row) /\ Keeps(a, e, row, active[a])
    BY <1>0, <2>2, <2>3, GoodIs DEF Advances, Keeps, Exposed, i
  <2> QED BY <1>0, <1>2, <2>3, <2>4, <2>5, ThreadStepHere DEF TurnEnds, SchedulerInv, i
<1>3. CASE ProcessExits(a, e)
  <2>1. PICK p \in {"lost", "completed"} : Goto(a, e, [i EXCEPT !.proc = p])
    BY <1>3 DEF ProcessExits, i
  <2>p. p \in Procs /\ i.proc = "alive"
    BY <1>3, Names DEF ProcessExits, i
  <2> DEFINE row == [i EXCEPT !.proc = p]
  <2>2. row \in Incarnation
    BY <1>i, <2>p DEF Incarnation
  <2>3. row.pc = i.pc /\ row.proc = p /\ row.outcome = i.outcome /\ row.life = i.life
    BY <1>i DEF Incarnation
  <2>4. Goto(a, e, row)
    BY <2>1
  <2> HIDE DEF row
  <2>5. row \in GoodIncarnation /\ Advances(i, row) /\ Keeps(a, e, row, active[a])
    BY <1>0, <2>p, <2>2, <2>3, GoodIs DEF Advances, Keeps, Exposed, i
  <2> QED BY <1>0, <1>3, <2>3, <2>4, <2>5, ThreadStepHere DEF ProcessExits, SchedulerInv, i
<1> QED BY <1>0, <1>1, <1>2, <1>3 

-----------------------------------------------------------------------------
(* Control calls and senders.  They change the row of an incarnation only  *)
(* from outside: they take its lock, close its input and stop its process. *)

Nudged(i, j) ==
  /\ j \in Incarnation
  /\ j.pc = i.pc /\ j.outcome = i.outcome
  /\ j.proc = i.proc \/ (i.proc = "alive" /\ j.proc \in {"stopped", "lost"})

(* A good row that is nudged is good.                                      *)
LEMMA NudgeGood ==
  ASSUME NEW i \in GoodIncarnation, NEW j, Nudged(i, j)
  PROVE  j \in GoodIncarnation
BY GoodIs DEF Nudged, Deciding, Started, Finishing

(* One row is nudged, the others are as they were.                         *)
LEMMA NudgeOne ==
  ASSUME ThreadInv, NEW a \in Agents, NEW e \in Epochs, NEW row, Nudged(inc[a][e], row),
         Goto(a, e, row)
  PROVE  /\ inc' \in [Agents -> [Epochs -> GoodIncarnation]]
         /\ inc'[a][e] = row
         /\ \A b \in Agents, f \in Epochs : <<b, f>> # <<a, e>> => inc'[b][f] = inc[b][f]
         /\ \A b \in Agents, f \in Epochs : Nudged(inc[b][f], inc'[b][f])
<1>1. row \in GoodIncarnation
  BY NudgeGood DEF ThreadInv
<1>2. /\ inc' \in [Agents -> [Epochs -> GoodIncarnation]]
      /\ inc'[a][e] = row
      /\ \A b \in Agents, f \in Epochs : <<b, f>> # <<a, e>> => inc'[b][f] = inc[b][f]
  BY <1>1, GotoGood
<1>3. ASSUME NEW b \in Agents, NEW f \in Epochs PROVE Nudged(inc[b][f], inc'[b][f])
  <2>1. CASE <<b, f>> = <<a, e>>
    BY <1>2, <2>1
  <2>2. CASE <<b, f>> # <<a, e>>
    BY <1>2, <2>2, GoodIs DEF Nudged, ThreadInv
  <2> QED BY <2>1, <2>2
<1> QED BY <1>2, <1>3

(* Nothing is nudged.                                                      *)
LEMMA NudgeNone ==
  ASSUME ThreadInv, inc' = inc
  PROVE  /\ inc' \in [Agents -> [Epochs -> GoodIncarnation]]
         /\ \A b \in Agents, f \in Epochs : Nudged(inc[b][f], inc'[b][f])
BY GoodIs DEF ThreadInv, Nudged

(* Threads stay good when rows are nudged.                                 *)
LEMMA NudgedThreads ==
  ASSUME ThreadInv, inc' \in [Agents -> [Epochs -> GoodIncarnation]],
         \A b \in Agents, f \in Epochs : Nudged(inc[b][f], inc'[b][f]),
         active' \in [Agents -> 0..MaxEpoch], ctl' \in [Callers -> GoodCall],
         send' \in [Senders -> GoodSend], UNCHANGED <<run, daemon, crashes>>
  PROVE  ThreadInv'
<1>1. NoThreads'
  BY DEF ThreadInv, NoThreads, Nudged
<1> QED BY <1>1 DEF ThreadInv

(* What it takes to be a good call.                                        *)
LEMMA GoodCallIs ==
  \A k : k \in GoodCall <=>
    /\ k \in Call
    /\ k.pc \notin {"idle", "done"} => k.agent \in Agents
    /\ k.pc \in {"lock", "failClosed", "cleanup", "persist", "fallback", "reap"} =>
         k.outcome \in ResultOutcomes
    /\ k.pc \in {"lock", "failClosed", "cleanup", "persist"} => k.epoch # 0
    /\ k.pc = "persist" => k.sink # 0
BY DEF GoodCall

(* A call that returned is good.                                           *)
LEMMA ReturnedIsGood ==
  CallReturned \in GoodCall /\ CallReturned.pc = "done" /\ NoCall \in GoodCall
<1>1. NoCall \in Call /\ NoCall.pc = "idle"
  BY EpochsAre, Names DEF NoCall, Call
<1>2. CallReturned \in Call /\ CallReturned.pc = "done"
  BY <1>1, Names DEF CallReturned, Call
<1> QED BY <1>1, <1>2, GoodCallIs

-----------------------------------------------------------------------------
(* What a control call does.  It closes the input of the runtime it read,  *)
(* or of the one whose sink it writes through; it finishes the task only   *)
(* with that runtime stopped, or before there was one; it gives up on a    *)
(* runtime only when its entry is gone; and it releases only that entry.   *)
StopPcs == {"lock", "failClosed", "cleanup"}

CallMoves(c, k, next) ==
  LET a == k.agent
      e == k.epoch IN
  /\ k.pc \notin {"idle", "done"}
  /\ \A d \in Callers \ {c} : ctl'[d] = ctl[d]
  /\ ctl'[c] = next
  /\ \A b \in Agents, f \in Epochs : Nudged(inc[b][f], inc'[b][f])
  /\ \A b \in Agents, f \in Epochs :
       inc'[b][f].life # inc[b][f].life => b = a /\ f \in {e, k.sink}
  /\ \/ next = CallReturned
     \/ /\ next.agent = a /\ next.epoch = e /\ next.sink \in {k.sink, active[a], e}
        /\ next.pc \notin {"idle", "request", "done"}
  /\ next.pc \in Finishing =>
       \/ k.pc \in Finishing
       \/ e # 0 /\ inc'[a][e].proc # "alive"
       \/ e = 0 /\ k.pc = "request" /\ task[a].phase = "QUEUED"
  /\ k.pc \in StopPcs /\ next.pc \notin StopPcs => active[a] # e \/ inc'[a][e].proc # "alive"
  /\ k.pc = "request" /\ e # 0 =>
       next.pc = "lock" \/ task[a].phase \notin ActivePhases \/ task[a].epoch # e
  /\ k.pc \in StopPcs =>
       \A f \in Epochs : inc'[a][f].life # inc[a][f].life => inc'[a][f].proc # "alive"
  /\ \/ UNCHANGED active
     \/ /\ k.pc \in Finishing
        /\ active'[a] = (IF active[a] = e THEN 0 ELSE active[a])
        /\ \A b \in Agents \ {a} : active'[b] = active[b]

CtlMoves(c) == CallMoves(c, ctl[c], ctl'[c]) /\ UNCHANGED <<run, send, daemon, crashes>>

(* A stop intent never opens an input again.                               *)
LEMMA LifeStop == \A l \in Lives : RequestLifeStop(l) \in Lives
BY Names DEF RequestLifeStop

(* What stopping leaves of a process is a nudge.                           *)
LEMMA StoppedNudges ==
  ASSUME NEW p \in Procs, NEW q \in Stopped(p, "stopped")
  PROVE  /\ q \in Procs /\ q # "alive"
         /\ q = p \/ (p = "alive" /\ q \in {"stopped", "lost"})
BY DEF Stopped, Procs

(* The end of a call.                                                      *)
LEMMA CtlDoneGood ==
  ASSUME ThreadInv, NEW c \in Callers, NEW w \in {"no", "writing", "yes"},
         ctl[c].pc \in Finishing, CtlDone(c, w), UNCHANGED <<run, send, daemon, crashes>>
  PROVE  ThreadInv' /\ CtlMoves(c)
<1> DEFINE a == ctl[c].agent
           e == ctl[c].epoch
           s == ctl[c].sink
           lock(f) == IF inc[a][f].lock = c THEN "free" ELSE inc[a][f].lock
           life(f) == IF f = s \/ (f = e /\ active[a] = e) THEN "Terminal" ELSE inc[a][f].life
           wrote(f) == IF f = s THEN w ELSE inc[a][f].written
           row(f) == [inc[a][f] EXCEPT !.lock = lock(f), !.life = life(f), !.written = wrote(f)]
<1>0. /\ a \in Agents /\ e \in 0..MaxEpoch /\ s \in 0..MaxEpoch
      /\ ctl[c].pc \notin {"idle", "done"} \cup StopPcs /\ ctl[c].pc # "request"
      /\ ctl \in [Callers -> GoodCall]
  BY GoodCallIs DEF ThreadInv, Call, Finishing, StopPcs
<1>1. inc' = [inc EXCEPT ![a] = [f \in Epochs |-> row(f)]]
  BY DEF CtlDone
<1>2. \A f \in Epochs : inc[a][f] \in Incarnation
  BY <1>0, GoodIs DEF ThreadInv
<1>3. \A f \in Epochs : lock(f) \in Locks /\ life(f) \in Lives /\ wrote(f) \in {"no", "writing", "yes"}
  BY <1>2, Names DEF Incarnation
<1>4. \A f \in Epochs : life(f) # inc[a][f].life => f \in {e, s}
  OBVIOUS
<1> HIDE DEF lock, life, wrote
<1>5. ASSUME NEW f \in Epochs
      PROVE  Nudged(inc[a][f], row(f)) /\ row(f).life = life(f)
  <2> DEFINE i == inc[a][f]
             k == lock(f)
             l == life(f)
             x == wrote(f)
  <2>1. i \in Incarnation /\ k \in Locks /\ l \in Lives /\ x \in {"no", "writing", "yes"}
    BY <1>2, <1>3
  <2> HIDE DEF i, k, l, x
  <2> DEFINE j == [i EXCEPT !.lock = k, !.life = l, !.written = x]
  <2>2. /\ j \in Incarnation /\ j.pc = i.pc /\ j.outcome = i.outcome /\ j.proc = i.proc
        /\ j.life = l
    BY <2>1 DEF Incarnation
  <2>3. row(f) = j
    BY DEF i, k, l, x
  <2> HIDE DEF j, row
  <2> QED BY <2>2, <2>3 DEF Nudged, i, l
<1> HIDE DEF row
<1>6. /\ \A f \in Epochs : inc'[a][f] = row(f)
      /\ \A b \in Agents \ {a} : inc'[b] = inc[b]
      /\ DOMAIN inc' = Agents /\ inc' = [b \in Agents |-> inc'[b]]
  BY <1>0, <1>1 DEF ThreadInv
<1>7. \A b \in Agents, f \in Epochs : Nudged(inc[b][f], inc'[b][f])
  BY <1>5, <1>6, GoodIs DEF ThreadInv, Nudged
<1>8. inc' \in [Agents -> [Epochs -> GoodIncarnation]]
  <2>1. \A f \in Epochs : row(f) \in GoodIncarnation
    BY <1>0, <1>5, NudgeGood DEF ThreadInv
  <2> QED BY <1>0, <1>1, <2>1 DEF ThreadInv
<1>9. ctl' \in [Callers -> GoodCall] /\ ctl'[c] = CallReturned /\ \A d \in Callers \ {c} : ctl'[d] = ctl[d]
  BY <1>0, ReturnedIsGood DEF CtlDone, CtlGoto
<1>10. /\ active' \in [Agents -> 0..MaxEpoch]
       /\ active'[a] = IF active[a] = e THEN 0 ELSE active[a]
       /\ \A b \in Agents \ {a} : active'[b] = active[b]
  BY <1>0, ReleaseType DEF CtlDone
<1>11. ThreadInv'
  BY <1>7, <1>8, <1>9, <1>10, NudgedThreads DEF ThreadInv
<1>12. \A b \in Agents, f \in Epochs :
         inc'[b][f].life # inc[b][f].life => b = a /\ f \in {e, s}
  BY <1>4, <1>5, <1>6
<1>13. CallReturned.pc \notin Finishing
  BY ReturnedIsGood DEF Finishing
<1> QED BY <1>0, <1>7, <1>9, <1>10, <1>11, <1>12, <1>13 DEF CtlMoves, CallMoves

(* A call that goes on: its own row, one nudged row, no entry.             *)
LEMMA CallStep ==
  ASSUME ThreadInv, NEW c \in Callers, NEW next \in GoodCall, CtlGoto(c, next),
         inc' \in [Agents -> [Epochs -> GoodIncarnation]],
         \A b \in Agents, f \in Epochs : Nudged(inc[b][f], inc'[b][f]),
         UNCHANGED <<active, run, send, daemon, crashes>>
  PROVE  ThreadInv' /\ ctl'[c] = next /\ \A d \in Callers \ {c} : ctl'[d] = ctl[d]
<1>1. ctl' \in [Callers -> GoodCall] /\ ctl'[c] = next /\ \A d \in Callers \ {c} : ctl'[d] = ctl[d]
  BY DEF ThreadInv, CtlGoto
<1> QED BY <1>1, NudgedThreads DEF ThreadInv

(* A step of a control call keeps every thread good.                       *)
LEMMA CtlGood ==
  ASSUME SchedulerInv, NEW c \in Callers, CtlStep(c)
  PROVE  ThreadInv' /\ CtlMoves(c)
<1> DEFINE k == ctl[c]
           a == k.agent
           e == k.epoch
           i == inc[a][e]
<1>0. /\ ThreadInv /\ k \in Call /\ k \in GoodCall
      /\ k.pc \notin {"idle", "done"} => a \in Agents
      /\ k.pc \in {"lock", "failClosed", "cleanup", "persist", "fallback", "reap"} =>
           k.outcome \in ResultOutcomes
      /\ k.pc \in {"lock", "failClosed", "cleanup", "persist"} => e # 0
      /\ k.pc = "persist" => k.sink # 0
      /\ e \in 0..MaxEpoch /\ k.sink \in 0..MaxEpoch /\ k.pc \in CallPcs
      /\ active \in [Agents -> 0..MaxEpoch]
  BY GoodCallIs DEF SchedulerInv, ThreadInv, Call
<1>k. k \in Call
  BY <1>0
<1>e. e # 0 => e \in Epochs
  BY <1>0, EpochsAre
<1>s. k.sink # 0 => k.sink \in Epochs
  BY <1>0, EpochsAre
<1>i. ASSUME a \in Agents, e # 0
      PROVE  /\ i \in Incarnation /\ i.proc \in Procs /\ i.life \in Lives
             /\ RequestLifeStop(i.life) \in Lives
  BY <1>0, <1>e, <1>i, GoodIs, LifeStop DEF ThreadInv, Incarnation
<1>w. k.pc \notin {"idle", "done"} => SinkWritten(c) \in {"no", "writing", "yes"}
  BY <1>0, <1>s, GoodIs DEF SinkWritten, ThreadInv, Incarnation
<1>c. CallReturned.pc \notin Finishing \cup StopPcs
  BY ReturnedIsGood DEF Finishing, StopPcs
<1> HIDE DEF k, a, e, i
(* A step that stops the runtime that was read, with p left of it.         *)
<1>n. ASSUME a \in Agents, e # 0, NEW next \in GoodCall, CtlGoto(c, next),
             NEW row, Nudged(i, row), row.proc # "alive", Goto(a, e, row),
             k.pc \in StopPcs, next.pc \in Finishing, next.agent = a, next.epoch = e,
             next.sink \in {k.sink, active[a], e},
             UNCHANGED <<active, run, send, daemon, crashes>>
      PROVE  ThreadInv' /\ CtlMoves(c)
  <2>1. /\ inc' \in [Agents -> [Epochs -> GoodIncarnation]]
        /\ inc'[a][e] = row
        /\ \A b \in Agents, f \in Epochs : <<b, f>> # <<a, e>> => inc'[b][f] = inc[b][f]
        /\ \A b \in Agents, f \in Epochs : Nudged(inc[b][f], inc'[b][f])
    BY <1>0, <1>e, <1>n, NudgeOne DEF i
  <2>2. ThreadInv' /\ ctl'[c] = next /\ \A d \in Callers \ {c} : ctl'[d] = ctl[d]
    BY <1>0, <1>n, <2>1, CallStep
  <2> QED BY <1>n, <2>1, <2>2 DEF CtlMoves, CallMoves, Finishing, StopPcs, k, a, e
(* A step that touches no incarnation.                                     *)
<1>m. ASSUME NEW next \in GoodCall, CtlGoto(c, next), UNCHANGED inc,
             UNCHANGED <<active, run, send, daemon, crashes>>
      PROVE  /\ ThreadInv' /\ ctl'[c] = next /\ \A d \in Callers \ {c} : ctl'[d] = ctl[d]
             /\ \A b \in Agents, f \in Epochs : Nudged(inc[b][f], inc'[b][f])
  BY <1>0, <1>m, NudgeNone, CallStep
<1>1. CASE CtlRequest(c)
  <2> DEFINE next == [k EXCEPT !.outcome = "CANCELLED"]
             n1 == [next EXCEPT !.pc = "fallback"]
             n2 == [next EXCEPT !.pc = "lock"]
  <2>0. k.pc = "request" /\ a \in Agents /\ UNCHANGED <<active, run, send, daemon, crashes>>
    BY <1>0, <1>1 DEF CtlRequest, CtlAt, k
  <2>1. "CANCELLED" \in Outcomes \cup {None} /\ "CANCELLED" \in ResultOutcomes
    BY StoreAssumption, OutcomesAssumption
  <2>2. \/ CtlGoto(c, n1) /\ task[a].phase = "QUEUED" /\ e = 0
        \/ CtlGoto(c, n2) /\ e # 0
        \/ CtlGoto(c, CallReturned) /\ ~(task[a].phase \in ActivePhases /\ e # 0 /\ e = task[a].epoch)
    <3>1. CASE task[a].phase = "QUEUED" /\ e = 0
      BY <1>1, <3>1 DEF CtlRequest, k, a, e
    <3>2. CASE task[a].phase \in ActivePhases /\ e # 0 /\ e = task[a].epoch
      BY <1>1, <3>2 DEF CtlRequest, k, a, e
    <3>3. CASE /\ ~(task[a].phase = "QUEUED" /\ e = 0)
               /\ ~(task[a].phase \in ActivePhases /\ e # 0 /\ e = task[a].epoch)
      BY <1>1, <3>3 DEF CtlRequest, k, a, e
    <3> QED BY <3>1, <3>2, <3>3
  <2>3. /\ n1 \in Call /\ n1.pc = "fallback" /\ n1.agent = a /\ n1.epoch = e /\ n1.sink = k.sink
        /\ n1.outcome = "CANCELLED"
        /\ n2 \in Call /\ n2.pc = "lock" /\ n2.agent = a /\ n2.epoch = e /\ n2.sink = k.sink
        /\ n2.outcome = "CANCELLED"
    <3>1. next \in Call /\ next.agent = a /\ next.epoch = e /\ next.sink = k.sink /\ next.outcome = "CANCELLED"
      BY <1>k, <2>1 DEF Call, a, e
    <3> HIDE DEF next
    <3>2. /\ n1 \in Call /\ n1.pc = "fallback" /\ n1.agent = a /\ n1.epoch = e /\ n1.sink = k.sink
          /\ n1.outcome = "CANCELLED"
      BY <3>1, Names DEF Call
    <3>3. /\ n2 \in Call /\ n2.pc = "lock" /\ n2.agent = a /\ n2.epoch = e /\ n2.sink = k.sink
          /\ n2.outcome = "CANCELLED"
      BY <3>1, Names DEF Call
    <3> QED BY <3>2, <3>3
  <2> HIDE DEF next, n1, n2
  <2>4. n1 \in GoodCall /\ (e # 0 => n2 \in GoodCall)
    BY <2>0, <2>1, <2>3, GoodCallIs
  <2>5. PICK m \in GoodCall :
          /\ CtlGoto(c, m)
          /\ m = CallReturned
             \/ (m.agent = a /\ m.epoch = e /\ m.sink = k.sink /\ m.pc \notin {"idle", "request", "done"})
          /\ m.pc \in Finishing => e = 0 /\ task[a].phase = "QUEUED"
          /\ e # 0 => m.pc = "lock" \/ task[a].phase \notin ActivePhases \/ task[a].epoch # e
    BY <2>2, <2>3, <2>4, <1>c, ReturnedIsGood DEF Finishing
  <2>6. /\ inc' \in [Agents -> [Epochs -> GoodIncarnation]]
        /\ \A b \in Agents, f \in Epochs : Nudged(inc[b][f], inc'[b][f])
        /\ \A b \in Agents, f \in Epochs : <<b, f>> # <<a, e>> => inc'[b][f] = inc[b][f]
    <3>1. CASE e = 0
      BY <1>0, <1>1, <3>1, NudgeNone DEF CtlRequest, k, e
    <3>2. CASE e # 0
      <4> DEFINE l == RequestLifeStop(i.life)
                 row == [i EXCEPT !.life = l]
      <4>1. Goto(a, e, row)
        BY <1>1, <3>2 DEF CtlRequest, k, a, e, i
      <4>2. l \in Lives /\ i \in Incarnation
        BY <1>i, <2>0, <3>2
      <4> HIDE DEF l
      <4>3. row \in Incarnation /\ row.pc = i.pc /\ row.outcome = i.outcome /\ row.proc = i.proc
        BY <4>2 DEF Incarnation
      <4> HIDE DEF row
      <4> QED BY <1>0, <1>e, <2>0, <3>2, <4>1, <4>3, NudgeOne DEF Nudged, i
    <3> QED BY <3>1, <3>2
  <2>7. ThreadInv' /\ ctl'[c] = m /\ \A d \in Callers \ {c} : ctl'[d] = ctl[d]
    BY <1>0, <2>0, <2>5, <2>6, CallStep
  <2> QED BY <2>0, <2>5, <2>6, <2>7 DEF CtlMoves, CallMoves, Finishing, StopPcs, k, a, e
<1>2. CASE CtlLock(c)
  <2>0. k.pc = "lock" /\ a \in Agents /\ e # 0 /\ UNCHANGED <<active, run, send, daemon, crashes>>
    BY <1>0, <1>2 DEF CtlLock, CtlAt, k
  <2>1. CASE active[a] = 0
    <3>1. CtlGoto(c, CallReturned) /\ UNCHANGED inc
      BY <1>2, <2>1 DEF CtlLock, k, a
    <3> QED BY <1>m, <1>c, <2>0, <2>1, <3>1, ReturnedIsGood
            DEF CtlMoves, CallMoves, Finishing, StopPcs, k, a, e
  <2>2. CASE active[a] # 0
    <3> DEFINE l == RequestLifeStop(i.life)
               next == [k EXCEPT !.pc = "persist", !.sink = active[a]]
    <3>1. CtlGoto(c, next)
      BY <1>2, <2>2 DEF CtlLock, k, a
    <3>2. PICK p \in Stopped(i.proc, "stopped") :
            Goto(a, e, [i EXCEPT !.lock = c, !.proc = p, !.life = l])
      BY <1>2, <2>2 DEF CtlLock, k, a, e, i
    <3> DEFINE row == [i EXCEPT !.lock = c, !.proc = p, !.life = l]
    <3>3. /\ i \in Incarnation /\ l \in Lives /\ c \in Locks /\ p \in Procs /\ p # "alive"
          /\ p = i.proc \/ (i.proc = "alive" /\ p \in {"stopped", "lost"})
      BY <1>i, <2>0, StoppedNudges, Names
    <3> HIDE DEF l
    <3>4. row \in Incarnation /\ row.pc = i.pc /\ row.outcome = i.outcome /\ row.proc = p
      BY <3>3 DEF Incarnation
    <3>5. active[a] \in 0..MaxEpoch
      BY <1>0, <2>0
    <3>6. next \in Call /\ next.pc = "persist" /\ next.agent = a /\ next.epoch = e
          /\ next.sink = active[a] /\ next.outcome = k.outcome
      BY <1>k, <3>5, Names DEF Call, a, e
    <3>7. Goto(a, e, row)
      BY <3>2
    <3> HIDE DEF row, next
    <3>8. next \in GoodCall
      BY <1>0, <2>0, <2>2, <3>6, GoodCallIs
    <3> QED BY <1>n, <2>0, <3>1, <3>3, <3>4, <3>6, <3>7, <3>8 DEF Nudged, Finishing, StopPcs
  <2> QED BY <2>1, <2>2
<1>3. CASE CtlDeadline(c)
  <2>0. k.pc = "lock" /\ a \in Agents /\ e # 0 /\ UNCHANGED <<inc, active, run, send, daemon, crashes>>
    BY <1>0, <1>3 DEF CtlDeadline, CtlAt, k
  <2> DEFINE next == [k EXCEPT !.pc = "failClosed"]
  <2>1. \/ CtlGoto(c, next)
        \/ CtlGoto(c, CallReturned) /\ active[a] # e
    BY <1>3 DEF CtlDeadline, k, a, e
  <2>2. next \in Call /\ next.pc = "failClosed" /\ next.agent = a /\ next.epoch = e
        /\ next.sink = k.sink /\ next.outcome = k.outcome
    BY <1>k, Names DEF Call, a, e
  <2> HIDE DEF next
  <2>3. next \in GoodCall
    BY <1>0, <2>0, <2>2, GoodCallIs
  <2>4. CASE CtlGoto(c, next)
    BY <1>m, <2>0, <2>2, <2>3, <2>4 DEF CtlMoves, CallMoves, Finishing, StopPcs, k, a, e
  <2>5. CASE CtlGoto(c, CallReturned) /\ active[a] # e
    BY <1>m, <1>c, <2>0, <2>5, ReturnedIsGood DEF CtlMoves, CallMoves, Finishing, StopPcs, k, a, e
  <2> QED BY <2>1, <2>4, <2>5
<1>4. CASE CtlFailClosed(c)
  <2>0. k.pc = "failClosed" /\ a \in Agents /\ e # 0 /\ UNCHANGED <<inc, active, run, send, daemon, crashes>>
    BY <1>0, <1>4 DEF CtlFailClosed, CtlAt, k
  <2>1. PICK o \in {"CANCELLED", "FAILED"} : CtlGoto(c, [k EXCEPT !.pc = "cleanup", !.outcome = o])
    BY <1>4 DEF CtlFailClosed, k
  <2>2. o \in ResultOutcomes /\ o \in Outcomes \cup {None}
    BY StoreAssumption, OutcomesAssumption
  <2> DEFINE next == [k EXCEPT !.pc = "cleanup", !.outcome = o]
  <2>3. next \in Call /\ next.pc = "cleanup" /\ next.agent = a /\ next.epoch = e
        /\ next.sink = k.sink /\ next.outcome = o
    BY <1>k, <2>2, Names DEF Call, a, e
  <2>4. CtlGoto(c, next)
    BY <2>1
  <2> HIDE DEF next
  <2>5. next \in GoodCall
    BY <2>0, <2>2, <2>3, GoodCallIs
  <2> QED BY <1>m, <2>0, <2>3, <2>4, <2>5 DEF CtlMoves, CallMoves, Finishing, StopPcs, k, a, e
<1>5. CASE CtlCleanup(c)
  <2>0. k.pc = "cleanup" /\ a \in Agents /\ e # 0 /\ UNCHANGED <<active, run, send, daemon, crashes>>
    BY <1>0, <1>5 DEF CtlCleanup, CtlAt, k
  <2>1. CASE active[a] # e
    <3>1. CtlGoto(c, CallReturned) /\ UNCHANGED inc
      BY <1>5, <2>1 DEF CtlCleanup, k, a, e
    <3> QED BY <1>m, <1>c, <2>0, <2>1, <3>1, ReturnedIsGood
            DEF CtlMoves, CallMoves, Finishing, StopPcs, k, a, e
  <2>2. CASE active[a] = e
    <3> DEFINE l == RequestLifeStop(i.life)
               n == FinishRoute(a)
               next == [k EXCEPT !.pc = n, !.sink = e]
    <3>1. CtlGoto(c, next) /\ n \in {"persist", "fallback"}
      BY <1>5, <2>2 DEF CtlCleanup, FinishRoute, k, a, e
    <3>2. PICK p \in Stopped(i.proc, "stopped") : Goto(a, e, [i EXCEPT !.proc = p, !.life = l])
      BY <1>5, <2>2 DEF CtlCleanup, k, a, e, i
    <3> DEFINE row == [i EXCEPT !.proc = p, !.life = l]
    <3>3. /\ i \in Incarnation /\ l \in Lives /\ p \in Procs /\ p # "alive" /\ n \in CallPcs
          /\ p = i.proc \/ (i.proc = "alive" /\ p \in {"stopped", "lost"})
      BY <1>i, <2>0, <3>1, StoppedNudges, Names
    <3> HIDE DEF l, n
    <3>4. row \in Incarnation /\ row.pc = i.pc /\ row.outcome = i.outcome /\ row.proc = p
      BY <3>3 DEF Incarnation
    <3>5. e \in 0..MaxEpoch
      BY <1>0
    <3>6. next \in Call /\ next.pc = n /\ next.agent = a /\ next.epoch = e
          /\ next.sink = e /\ next.outcome = k.outcome
      BY <1>k, <3>3, <3>5 DEF Call, a, e
    <3>7. Goto(a, e, row)
      BY <3>2
    <3> HIDE DEF row, next
    <3>8. next \in GoodCall
      BY <1>0, <2>0, <3>1, <3>6, GoodCallIs
    <3> QED BY <1>n, <2>0, <3>1, <3>3, <3>4, <3>6, <3>7, <3>8 DEF Nudged, Finishing, StopPcs
  <2> QED BY <2>1, <2>2
(* A step of a call that finishes: it nudges at most the row of its sink.  *)
<1>f. ASSUME k.pc \in Finishing, NEW n \in {"fallback", "reap"}, CtlGoto(c, [k EXCEPT !.pc = n]),
             \/ UNCHANGED inc
             \/ /\ k.sink # 0
                /\ \E row : Nudged(inc[a][k.sink], row) /\ Goto(a, k.sink, row),
             UNCHANGED <<active, run, send, daemon, crashes>>
      PROVE  ThreadInv' /\ CtlMoves(c)
  <2> DEFINE next == [k EXCEPT !.pc = n]
  <2>0. a \in Agents /\ k.outcome \in ResultOutcomes /\ k.pc \notin {"idle", "done", "request"} \cup StopPcs
    BY <1>0, <1>f DEF Finishing, StopPcs, CallPcs
  <2>1. next \in Call /\ next.pc = n /\ next.agent = a /\ next.epoch = e
        /\ next.sink = k.sink /\ next.outcome = k.outcome
    BY <1>k, Names DEF Call, a, e
  <2>2. CtlGoto(c, next)
    BY <1>f
  <2> HIDE DEF next
  <2>3. next \in GoodCall
    BY <2>0, <2>1, GoodCallIs
  <2>4. /\ inc' \in [Agents -> [Epochs -> GoodIncarnation]]
        /\ \A b \in Agents, f \in Epochs : Nudged(inc[b][f], inc'[b][f])
        /\ \A b \in Agents, f \in Epochs : <<b, f>> # <<a, k.sink>> => inc'[b][f] = inc[b][f]
    <3>1. CASE UNCHANGED inc
      BY <1>0, <3>1, NudgeNone
    <3>2. CASE k.sink # 0 /\ \E row : Nudged(inc[a][k.sink], row) /\ Goto(a, k.sink, row)
      <4>1. PICK row : Nudged(inc[a][k.sink], row) /\ Goto(a, k.sink, row)
        BY <3>2
      <4> QED BY <1>0, <1>s, <2>0, <3>2, <4>1, NudgeOne
    <3> QED BY <1>f, <3>1, <3>2
  <2>5. ThreadInv' /\ ctl'[c] = next /\ \A d \in Callers \ {c} : ctl'[d] = ctl[d]
    BY <1>0, <1>f, <2>2, <2>3, <2>4, CallStep
  <2> QED BY <1>f, <2>0, <2>1, <2>4, <2>5 DEF CtlMoves, CallMoves, Finishing, StopPcs, k, a, e
<1>t. ASSUME a \in Agents, k.sink # 0, NEW x \in {"no", "writing", "yes"}
      PROVE  LET j == inc[a][k.sink] IN
             /\ Nudged(j, [j EXCEPT !.life = "Terminal"])
             /\ Nudged(j, [j EXCEPT !.written = x])
             /\ Nudged(j, [j EXCEPT !.life = "Terminal", !.written = x])
  <2> DEFINE j == inc[a][k.sink]
  <2>1. j \in Incarnation
    BY <1>0, <1>s, <1>t, GoodIs DEF ThreadInv
  <2> HIDE DEF j
  <2>2. Nudged(j, [j EXCEPT !.life = "Terminal"])
    BY <2>1, Names DEF Nudged, Incarnation
  <2>3. Nudged(j, [j EXCEPT !.written = x])
    BY <2>1 DEF Nudged, Incarnation
  <2>4. Nudged(j, [j EXCEPT !.life = "Terminal", !.written = x])
    BY <2>1, Names DEF Nudged, Incarnation
  <2> QED BY <2>2, <2>3, <2>4 DEF j
<1>6. CASE CtlPersist(c)
  <2>0. k.pc = "persist" /\ a \in Agents /\ k.sink # 0 /\ k.pc \in Finishing
        /\ UNCHANGED <<run, send, daemon, crashes>>
    BY <1>0, <1>6 DEF CtlPersist, CtlAt, k, Finishing
  <2>1. CASE CtlDone(c, "yes")
    BY <1>0, <2>0, <2>1, CtlDoneGood DEF k
  <2>2. CASE /\ Goto(a, k.sink, [inc[a][k.sink] EXCEPT !.life = "Terminal", !.written = "writing"])
             /\ CtlGoto(c, [k EXCEPT !.pc = "reap"]) /\ UNCHANGED active
    BY <1>f, <1>t, <2>0, <2>2
  <2>3. CASE /\ Goto(a, k.sink, [inc[a][k.sink] EXCEPT !.life = "Terminal"])
             /\ CtlGoto(c, [k EXCEPT !.pc = "fallback"]) /\ UNCHANGED active
    BY <1>f, <1>t, <2>0, <2>3
  <2> QED BY <1>6, <2>1, <2>2, <2>3 DEF CtlPersist, k, a
<1>7. CASE CtlFallback(c)
  <2>0. k.pc = "fallback" /\ k.pc \in Finishing /\ UNCHANGED <<run, send, daemon, crashes>>
    BY <1>7 DEF CtlFallback, CtlAt, k, Finishing
  <2>1. CASE CtlDone(c, SinkWritten(c))
    BY <1>0, <1>w, <2>0, <2>1, CtlDoneGood DEF k
  <2>2. CASE CtlGoto(c, [k EXCEPT !.pc = "reap"]) /\ UNCHANGED <<inc, active>>
    BY <1>f, <2>0, <2>2
  <2> QED BY <1>7, <2>1, <2>2 DEF CtlFallback, k
<1>8. CASE CtlReap(c)
  <2>0. k.pc = "reap" /\ a \in Agents /\ k.pc \in Finishing /\ UNCHANGED <<run, send, daemon, crashes>>
    BY <1>0, <1>8 DEF CtlReap, CtlAt, k, Finishing
  <2>1. ASSUME NEW x \in {"no", "writing", "yes"}, CtlDone(c, x) PROVE ThreadInv' /\ CtlMoves(c)
    BY <1>0, <2>0, <2>1, CtlDoneGood DEF k
  <2>2. CASE CtlDone(c, SinkWritten(c)) \/ CtlDone(c, "yes")
    BY <1>w, <2>0, <2>1, <2>2
  <2>3. CASE /\ SinkWritten(c) = "writing"
             /\ Goto(a, k.sink, [inc[a][k.sink] EXCEPT !.written = "no"])
             /\ CtlGoto(c, [k EXCEPT !.pc = "fallback"]) /\ UNCHANGED active
    <3>1. k.sink # 0
      BY <2>3 DEF SinkWritten, k
    <3> QED BY <1>f, <1>t, <2>0, <2>3, <3>1
  <2> QED BY <1>8, <2>2, <2>3 DEF CtlReap, k, a
<1> QED BY <1>1, <1>2, <1>3, <1>4, <1>5, <1>6, <1>7, <1>8 DEF CtlStep

(* Reading the entry of an agent starts a good call.                       *)
LEMMA CtlReadGood ==
  ASSUME SchedulerInv, NEW c \in Callers, NEW a \in Agents, CtlRead(c, a)
  PROVE  /\ ThreadInv' /\ inc' = inc /\ active' = active
         /\ ctl[c].pc = "idle" /\ \A d \in Callers \ {c} : ctl'[d] = ctl[d]
         /\ ctl'[c].pc = "request" /\ ctl'[c].agent = a
         /\ ctl'[c].epoch = active[a] /\ ctl'[c].sink = 0
<1> DEFINE next == [NoCall EXCEPT !.pc = "request", !.agent = a, !.epoch = active[a]]
<1>1. ThreadInv /\ active[a] \in 0..MaxEpoch
  BY DEF SchedulerInv, ThreadInv
<1>2. NoCall \in Call /\ NoCall.sink = 0
  BY EpochsAre, Names DEF NoCall, Call
<1>3. /\ next \in Call /\ next.pc = "request" /\ next.agent = a /\ next.epoch = active[a]
      /\ next.sink = 0
  BY <1>1, <1>2, Names DEF Call
<1>4. CtlGoto(c, next) /\ UNCHANGED <<inc, active, run, send, daemon, crashes>> /\ ctl[c].pc = "idle"
  BY DEF CtlRead, CtlAt
<1> HIDE DEF next
<1>5. next \in GoodCall
  BY <1>3, GoodCallIs
<1>6. ThreadInv' /\ ctl'[c] = next /\ \A d \in Callers \ {c} : ctl'[d] = ctl[d]
  BY <1>1, <1>4, <1>5, NudgeNone, CallStep
<1> QED BY <1>3, <1>4, <1>6

(* What a sender does to the incarnations: it takes and drops a lock.      *)
SendMoves ==
  /\ \A b \in Agents, f \in Epochs :
       /\ Nudged(inc[b][f], inc'[b][f])
       /\ inc'[b][f].proc = inc[b][f].proc /\ inc'[b][f].life = inc[b][f].life
  /\ UNCHANGED <<active, ctl, run, daemon, crashes>>

(* A step of a sender keeps every thread good.                             *)
LEMMA SendGood ==
  ASSUME SchedulerInv, NEW s \in Senders,
         SendStep(s) \/ \E a \in Agents : SendRead(s, a)
  PROVE  ThreadInv' /\ SendMoves
<1>0. ThreadInv /\ send[s] \in GoodSend /\ send[s] \in Send /\ send \in [Senders -> GoodSend]
  BY DEF SchedulerInv, ThreadInv, GoodSend
<1>r. SendReturned \in GoodSend
  BY EpochsAre DEF SendReturned, NoSend, Send, GoodSend
<1>n. ASSUME UNCHANGED <<inc, active, ctl, run, daemon, crashes>>, NEW row \in GoodSend, SendGoto(s, row)
      PROVE  ThreadInv' /\ SendMoves
  <2>1. send' \in [Senders -> GoodSend]
    BY <1>0, <1>n DEF SendGoto
  <2> QED BY <1>0, <1>n, <2>1, NudgeNone, NudgedThreads DEF ThreadInv, SendMoves
<1>l. ASSUME NEW row \in GoodSend, SendGoto(s, row), NEW k \in Locks,
             send[s].agent \in Agents, send[s].epoch # 0,
             Goto(send[s].agent, send[s].epoch,
                  [inc[send[s].agent][send[s].epoch] EXCEPT !.lock = k]),
             UNCHANGED <<active, ctl, run, daemon, crashes>>
      PROVE  ThreadInv' /\ SendMoves
  <2> DEFINE i == inc[send[s].agent][send[s].epoch]
             j == [i EXCEPT !.lock = k]
  <2>1. send' \in [Senders -> GoodSend]
    BY <1>0, <1>l DEF SendGoto
  <2>2. send[s].epoch \in Epochs
    BY <1>0, <1>l, EpochsAre DEF Send
  <2>3. i \in Incarnation
    BY <1>0, <1>l, <2>2, GoodIs DEF ThreadInv
  <2>4. j \in Incarnation /\ j.pc = i.pc /\ j.outcome = i.outcome /\ j.proc = i.proc /\ j.life = i.life
    BY <2>3 DEF Incarnation
  <2>5. Goto(send[s].agent, send[s].epoch, j)
    BY <1>l
  <2> HIDE DEF j
  <2>6. /\ inc' \in [Agents -> [Epochs -> GoodIncarnation]]
        /\ inc'[send[s].agent][send[s].epoch] = j
        /\ \A b \in Agents, f \in Epochs :
             <<b, f>> # <<send[s].agent, send[s].epoch>> => inc'[b][f] = inc[b][f]
        /\ \A b \in Agents, f \in Epochs : Nudged(inc[b][f], inc'[b][f])
    BY <1>0, <1>l, <2>2, <2>4, <2>5, NudgeOne DEF Nudged
  <2>7. ThreadInv'
    BY <1>0, <1>l, <2>1, <2>6, NudgedThreads DEF ThreadInv
  <2>8. ASSUME NEW b \in Agents, NEW f \in Epochs
        PROVE  inc'[b][f].proc = inc[b][f].proc /\ inc'[b][f].life = inc[b][f].life
    <3>1. CASE <<b, f>> = <<send[s].agent, send[s].epoch>>
      BY <2>4, <2>6, <3>1
    <3>2. CASE <<b, f>> # <<send[s].agent, send[s].epoch>>
      BY <2>6, <3>2
    <3> QED BY <3>1, <3>2
  <2> QED BY <1>l, <2>6, <2>7, <2>8 DEF SendMoves
<1>1. CASE SendAdmit(s)
  <2> DEFINE row == [send[s] EXCEPT !.pc = "admitted"]
  <2>1. send[s].pc = "read" /\ send[s].agent \in Agents
    BY <1>0, <1>1 DEF SendAdmit, SendAt, GoodSend
  <2>2. row \in GoodSend
    BY <1>0, <2>1 DEF Send, GoodSend
  <2>3. s \in Locks
    BY Names
  <2>4. CASE send[s].epoch = 0
    BY <1>1, <1>n, <2>2, <2>4 DEF SendAdmit
  <2>5. CASE send[s].epoch # 0
    BY <1>1, <1>l, <2>1, <2>2, <2>3, <2>5 DEF SendAdmit
  <2> QED BY <2>4, <2>5
<1>2. CASE SendRefused(s)
  BY <1>2, <1>n, <1>r DEF SendRefused
<1>3. CASE SendInsert(s)
  <2>1. send[s].agent \in Agents
    BY <1>0, <1>3 DEF SendInsert, SendAt, GoodSend
  <2>2. CASE send[s].epoch = 0
    BY <1>3, <1>n, <1>r, <2>2 DEF SendInsert
  <2>3. CASE send[s].epoch # 0
    BY <1>3, <1>l, <1>r, <2>1, <2>3, Names DEF SendInsert
  <2> QED BY <2>2, <2>3
<1>4. ASSUME NEW a \in Agents, SendRead(s, a) PROVE ThreadInv' /\ SendMoves
  <2>1. [pc |-> "read", agent |-> a, epoch |-> active[a]] \in GoodSend
    BY <1>0 DEF ThreadInv, Send, GoodSend
  <2> QED BY <1>4, <1>n, <2>1 DEF SendRead
<1> QED BY <1>1, <1>2, <1>3, <1>4 DEF SendStep

-----------------------------------------------------------------------------
(* Claims, resumers, recovery and crashes.                                 *)

(* A claim starts a fresh incarnation.                                     *)
LEMMA ClaimGood ==
  ASSUME SchedulerInv, NEW a \in Agents, Claim(a), run' \in [Resumers -> Run],
         UNCHANGED <<active, ctl, send, daemon, crashes>>
  PROVE  /\ ThreadInv'
         /\ task[a].epoch + 1 \in Epochs
         /\ inc'[a][task[a].epoch + 1].pc = "claimed" /\ inc'[a][task[a].epoch + 1].proc = "none"
         /\ inc'[a][task[a].epoch + 1].life = "Running"
         /\ \A b \in Agents, f \in Epochs : <<b, f>> # <<a, task[a].epoch + 1>> => inc'[b][f] = inc[b][f]
<1> DEFINE e == task[a].epoch + 1
           row == [NoIncarnation EXCEPT !.pc = "claimed", !.resumed = task[a].session]
<1>1. task[a] \in TaskRow /\ ThreadInv /\ task[a].epoch \in Nat /\ task[a].session \in BOOLEAN
  BY DEF SchedulerInv, TypeOK, TaskRow
<1>2. e \in Epochs
  BY <1>1, StoreAssumption DEF Claim, ClaimNext, Epochs
<1>3. NoIncarnation \in Incarnation /\ NoIncarnation.proc = "none" /\ NoIncarnation.life = "Running"
  BY Names DEF NoIncarnation, Incarnation
<1>4. row \in Incarnation
  BY <1>1, <1>3, Names DEF Incarnation
<1>5. row.pc = "claimed" /\ row.proc = "none" /\ row.life = "Running"
  BY <1>3 DEF Incarnation
<1>6. Goto(a, e, row) /\ daemon = "up"
  BY DEF Claim
<1> HIDE DEF row, e
<1>7. row \in GoodIncarnation
  BY <1>4, <1>5, GoodIs DEF Deciding, Started, Finishing
<1>8. /\ inc' \in [Agents -> [Epochs -> GoodIncarnation]] /\ inc'[a][e] = row
      /\ \A b \in Agents, f \in Epochs : <<b, f>> # <<a, e>> => inc'[b][f] = inc[b][f]
  BY <1>1, <1>2, <1>6, <1>7, GotoGood
<1>9. ThreadInv'
  BY <1>1, <1>6, <1>8 DEF ThreadInv, NoThreads
<1> QED BY <1>2, <1>5, <1>8, <1>9 DEF e

(* A resumer keeps every thread good; only its claims touch incarnations.  *)
LEMMA ResumerGood ==
  ASSUME SchedulerInv, NEW r \in Resumers,
         ResumerStep(r) \/ \E a \in Agents : ResumeTerminal(r, a)
  PROVE  ThreadInv'
<1>0. ThreadInv /\ run[r] \in Run /\ run \in [Resumers -> Run]
  BY DEF SchedulerInv, ThreadInv
<1>n. ASSUME NEW row \in Run, ResumeGoto(r, row), UNCHANGED <<inc, active, ctl, send, daemon, crashes>>
      PROVE  ThreadInv'
  BY <1>0, <1>n DEF ThreadInv, ResumeGoto, NoThreads
<1>m. ASSUME UNCHANGED memVars PROVE ThreadInv'
  BY <1>0, <1>m DEF ThreadInv, memVars, NoThreads
<1>p. \A n \in {"claiming", "done", "restore", "failed"} : [run[r] EXCEPT !.pc = n] \in Run
  BY <1>0 DEF Run
<1>1. CASE ResumeRead(r) \/ \E a \in Agents : ResumeTerminal(r, a)
  BY <1>1, <1>m DEF ResumeRead, ResumeTerminal
<1>2. CASE \/ \E m \in Messages : ResumeRequeue(r, m)
           \/ ResumeRefused(r) \/ ResumeEnds(r) \/ ResumeFailed(r) \/ ResumeRestore(r)
  BY <1>2, <1>n, <1>p DEF ResumeRequeue, ResumeRefused, ResumeEnds, ResumeFailed, ResumeRestore
<1>3. ASSUME NEW b \in Agents, ResumeClaim(r, b) PROVE ThreadInv'
  <2>1. task[b] \in TaskRow /\ task[b].epoch \in Nat /\ task[b].epoch < MaxEpoch
    BY <1>3 DEF SchedulerInv, TypeOK, TaskRow, ResumeClaim, Claim, ClaimNext
  <2>2. task[b].epoch + 1 \in 0..MaxEpoch
    BY <2>1, StoreAssumption
  <2>3. [run[r] EXCEPT !.agent = b, !.epoch = task[b].epoch + 1] \in Run
    BY <1>0, <2>2 DEF Run
  <2>4. run' \in [Resumers -> Run]
    BY <1>0, <1>3, <2>3 DEF ResumeClaim, ResumeGoto
  <2> QED BY <1>3, <2>4, ClaimGood DEF ResumeClaim
<1>4. CASE ResumeReturned(r)
  <2> DEFINE b == run[r].agent
             ret == inc[b][run[r].epoch].ret
             pc == IF ret = "error" THEN "failed" ELSE run[r].pc
             started == IF ret = "started" THEN run[r].started \cup {b} ELSE run[r].started
  <2>1. b \in Agents
    BY <1>0, <1>4 DEF ResumeReturned, Run
  <2>2. pc \in {"idle", "claiming", "failed", "restore", "done"} /\ started \in SUBSET Agents
    BY <1>0, <2>1 DEF Run
  <2>3. ResumeGoto(r, [run[r] EXCEPT !.pc = pc, !.agent = None, !.epoch = 0, !.started = started])
    BY <1>4 DEF ResumeReturned
  <2> HIDE DEF pc, started
  <2>4. [run[r] EXCEPT !.pc = pc, !.agent = None, !.epoch = 0, !.started = started] \in Run
    BY <1>0, <2>2, EpochsAre DEF Run
  <2> QED BY <1>4, <1>n, <2>3, <2>4 DEF ResumeReturned
<1> QED BY <1>1, <1>2, <1>3, <1>4 DEF ResumerStep

(* Recovery marks the process that a row names as stopped, and starts no   *)
(* thread.                                                                 *)
LEMMA RecoverGood ==
  ASSUME SchedulerInv, NEW a \in Agents, RecoverTask(a)
  PROVE  /\ ThreadInv' /\ daemon = "starting" /\ UNCHANGED <<active, ctl, daemon, crashes>>
         /\ \A b \in Agents, e \in Epochs :
              /\ inc'[b][e].pc = inc[b][e].pc /\ inc'[b][e].life = inc[b][e].life
              /\ inc'[b][e].proc = IF b = a /\ e = task[a].runtime THEN "stopped" ELSE inc[b][e].proc
<1>0. ThreadInv
  BY DEF SchedulerInv
<1>1. RecoverTask(a)
  OBVIOUS
<1> DEFINE row(e) == IF e = task[a].runtime THEN [inc[a][e] EXCEPT !.proc = "stopped"] ELSE inc[a][e]
<1>2. daemon = "starting" /\ UNCHANGED <<active, ctl, run, send, daemon, crashes>>
      /\ inc' = [inc EXCEPT ![a] = [e \in Epochs |-> row(e)]]
  BY <1>1 DEF RecoverTask, NextToRecover
<1>3. ASSUME NEW e \in Epochs
      PROVE  /\ row(e) \in GoodIncarnation /\ row(e).pc = "none" /\ inc[a][e].pc = "none"
             /\ row(e).life = inc[a][e].life
             /\ row(e).proc = IF e = task[a].runtime THEN "stopped" ELSE inc[a][e].proc
  <2>1. inc[a][e] \in Incarnation /\ inc[a][e].pc = "none" /\ inc[a][e] \in GoodIncarnation
    BY <1>0, <1>2, GoodIs DEF ThreadInv, NoThreads
  <2> DEFINE i == inc[a][e]
             j == [i EXCEPT !.proc = "stopped"]
  <2>2. i \in Incarnation /\ i.pc = "none"
    BY <2>1
  <2> HIDE DEF i
  <2>3. j \in Incarnation /\ j.pc = "none" /\ j.life = i.life /\ j.proc = "stopped"
    BY <2>2, Names DEF Incarnation
  <2> HIDE DEF j
  <2>4. j \in GoodIncarnation
    BY <2>3, GoodIs DEF Deciding, Started, Finishing
  <2> QED BY <2>1, <2>3, <2>4 DEF i, j
<1> HIDE DEF row
<1>4. /\ inc' \in [Agents -> [Epochs -> GoodIncarnation]]
      /\ \A e \in Epochs : inc'[a][e] = row(e)
      /\ \A b \in Agents \ {a} : inc'[b] = inc[b]
  BY <1>0, <1>2, <1>3 DEF ThreadInv
<1>5. NoThreads'
  BY <1>0, <1>2, <1>3, <1>4 DEF ThreadInv, NoThreads
<1>6. ThreadInv'
  BY <1>0, <1>2, <1>4, <1>5 DEF ThreadInv
<1>7. \A b \in Agents, e \in Epochs :
        /\ inc'[b][e].pc = inc[b][e].pc /\ inc'[b][e].life = inc[b][e].life
        /\ inc'[b][e].proc = IF b = a /\ e = task[a].runtime THEN "stopped" ELSE inc[b][e].proc
  BY <1>3, <1>4
<1> QED BY <1>2, <1>6, <1>7

(* So does the rest of recovery.                                           *)
LEMMA RecoveryGood ==
  ASSUME SchedulerInv, RecoveryStep
  PROVE  ThreadInv'
<1>0. ThreadInv
  BY DEF SchedulerInv
<1>1. ASSUME NEW a \in Agents, RecoverTask(a) PROVE ThreadInv'
  BY <1>1, RecoverGood
<1>2. ASSUME NEW a \in Agents, RefuseTask(a) PROVE ThreadInv'
  BY <1>0, <1>2 DEF RefuseTask, NextToRecover, ThreadInv, NoThreads
<1>3. CASE Recovered
  BY <1>0, <1>3 DEF Recovered, ThreadInv, NoThreads
<1> QED BY <1>1, <1>2, <1>3 DEF RecoveryStep

(* What a crash leaves: the processes.                                     *)
LEMMA CrashGood ==
  ASSUME SchedulerInv, Crash
  PROVE  /\ ThreadInv'
         /\ \A a \in Agents, e \in Epochs :
              /\ inc'[a][e].pc = "none" /\ inc'[a][e].life = "Running"
              /\ inc'[a][e].proc = inc[a][e].proc
         /\ \A a \in Agents : active'[a] = 0
         /\ \A c \in Callers : ctl'[c].pc \in {"idle", "done"}
         /\ crashes' # 0
<1>0. ThreadInv
  BY DEF SchedulerInv
<1> DEFINE row(a, e) == [NoIncarnation EXCEPT !.proc = inc[a][e].proc]
<1>1. ASSUME NEW a \in Agents, NEW e \in Epochs
      PROVE  /\ row(a, e) \in GoodIncarnation /\ row(a, e).pc = "none" /\ row(a, e).life = "Running"
             /\ row(a, e).proc = inc[a][e].proc
  <2> DEFINE p == inc[a][e].proc
             j == [NoIncarnation EXCEPT !.proc = p]
  <2>1. p \in Procs
    BY <1>0, GoodIs DEF ThreadInv, Incarnation
  <2> HIDE DEF p
  <2>2. NoIncarnation \in Incarnation /\ NoIncarnation.pc = "none" /\ NoIncarnation.life = "Running"
    BY Names DEF NoIncarnation, Incarnation
  <2>3. j \in Incarnation /\ j.pc = "none" /\ j.life = "Running" /\ j.proc = p
    BY <2>1, <2>2 DEF Incarnation
  <2> HIDE DEF j
  <2>4. j \in GoodIncarnation
    BY <2>3, GoodIs DEF Deciding, Started, Finishing
  <2> QED BY <2>3, <2>4 DEF j, p
<1>2. inc' = [a \in Agents |-> [e \in Epochs |-> row(a, e)]]
  BY DEF Crash
<1> HIDE DEF row
<1>3. inc' \in [Agents -> [Epochs -> GoodIncarnation]]
  BY <1>1, <1>2
<1>4. active' \in [Agents -> 0..MaxEpoch]
  BY EpochsAre DEF Crash
<1>5. /\ ctl' \in [Callers -> GoodCall]
      /\ \A c \in Callers : ctl'[c].pc \in {"idle", "done"}
  <2>1. NoCall.pc = "idle"
    BY DEF NoCall
  <2> QED BY <2>1, ReturnedIsGood DEF Crash
<1>6. send' \in [Senders -> GoodSend]
  <2>1. NoSend \in GoodSend /\ SendReturned \in GoodSend
    BY EpochsAre DEF SendReturned, NoSend, Send, GoodSend
  <2> QED BY <2>1 DEF Crash
<1>7. run' \in [Resumers -> Run]
  <2>1. [NoRun EXCEPT !.pc = "done"] \in Run
    BY EpochsAre DEF NoRun, Run
  <2> QED BY <1>0, <2>1 DEF Crash, ThreadInv
<1>8. crashes' \in 0..MaxCrashes /\ crashes' # 0 /\ daemon' = "starting"
  BY <1>0, SchedulerAssumption DEF Crash, ThreadInv
<1>9. \A a \in Agents, e \in Epochs :
        /\ inc'[a][e].pc = "none" /\ inc'[a][e].life = "Running"
        /\ inc'[a][e].proc = inc[a][e].proc
  BY <1>1, <1>2
<1>10. ThreadInv'
  BY <1>3, <1>4, <1>5, <1>6, <1>7, <1>8, <1>9 DEF ThreadInv, NoThreads
<1> QED BY <1>5, <1>8, <1>9, <1>10 DEF Crash

(* The scheduler starts with every thread good.                            *)
LEMMA ThreadInit == SchedulerInit => ThreadInv
<1> SUFFICES ASSUME SchedulerInit PROVE ThreadInv
  OBVIOUS
<1>1. NoIncarnation \in Incarnation /\ NoIncarnation.pc = "none"
  BY Names DEF NoIncarnation, Incarnation
<1>2. NoIncarnation \in GoodIncarnation
  BY <1>1, GoodIs DEF Deciding, Started, Finishing
<1>3. NoSend \in GoodSend /\ NoRun \in Run /\ 0 \in 0..MaxCrashes
  BY EpochsAre, SchedulerAssumption DEF NoSend, Send, GoodSend, NoRun, Run
<1> QED BY <1>2, <1>3, EpochsAre, ReturnedIsGood DEF SchedulerInit, ThreadInv, NoThreads

(* Every step keeps every thread good.                                     *)
LEMMA ThreadNext == SchedulerInv /\ [SchedulerNext]_vars => ThreadInv'
<1> SUFFICES ASSUME SchedulerInv, [SchedulerNext]_vars PROVE ThreadInv'
  OBVIOUS
<1>m. ASSUME UNCHANGED memVars PROVE ThreadInv'
  BY <1>m DEF SchedulerInv, ThreadInv, memVars, NoThreads
<1>1. ASSUME NEW a \in Agents, Submit(a) PROVE ThreadInv'
  BY <1>1, <1>m DEF Submit
<1>2. ASSUME NEW a \in Agents, StartReady(a) PROVE ThreadInv'
  <2>1. run' \in [Resumers -> Run]
    BY <1>2 DEF StartReady, SchedulerInv, ThreadInv
  <2> QED BY <1>2, <2>1, ClaimGood DEF StartReady
<1>3. CASE UNCHANGED vars
  BY <1>3, <1>m DEF vars, memVars
<1> QED BY <1>1, <1>2, <1>3, StartGood, MonitorGood, RuntimeGood, CtlGood, CtlReadGood, SendGood,
           ResumerGood, RecoveryGood, CrashGood DEF SchedulerNext

-----------------------------------------------------------------------------
(* What the threads do to the store.                                       *)

StoresResult(a) == \E o \in ResultOutcomes, b \in Bodies : StoreTaskResult(a, o, b)

(* start_claim marks its own claim, claims a message, or asks for a stop.  *)
StartStores(a, e) ==
  \/ UNCHANGED storeVars
  \/ inc[a][e].pc = "registered" /\ MarkSessionRunning(a, e)
  \/ \E m \in Messages : ClaimNextMessage(a, m)
  \/ RequestRuntimeStop(a)

(* A monitor moves messages, and finishes and reaps the task where its     *)
(* process has ended.                                                      *)
MonitorStores(a, e) ==
  \/ UNCHANGED storeVars
  \/ \E m \in Messages : ClaimNextMessage(a, m) \/ CompleteMessage(m) \/ FailMessage(m)
  \/ inc[a][e].pc \in Finishing /\ StoresResult(a)
  \/ inc[a][e].pc \in Finishing /\ ProvesReaped(inc[a][e].proc) /\ ReapTask(a)

(* A control call records its stop, and finishes and reaps the task.       *)
CtlStores(c) ==
  LET a == ctl[c].agent IN
  \/ ctl[c].pc # "request" /\ UNCHANGED storeVars
  \/ /\ ctl[c].pc \notin Finishing
     /\ RequestClose(a) \/ RequestStop(a) \/ RequestRuntimeStop(a)
  \/ ctl[c].pc \in Finishing /\ StoresResult(a)
  \/ ctl[c].pc \in Finishing /\ ProvesReaped(CtlProc(c)) /\ ReapTask(a)

(* A stop that was recorded is stored as a cancellation, a completion that *)
(* open commands block as an invalid result: the store takes both.         *)
LEMMA PersistStores ==
  ASSUME NEW a \in Agents, NEW o \in ResultOutcomes, PersistGeneralCompletion(a, o)
  PROVE  UNCHANGED storeVars \/ StoresResult(a)
<1>1. EffectiveOutcome(a, o) \in ResultOutcomes
  BY OutcomesAssumption DEF EffectiveOutcome
<1> QED BY <1>1 DEF PersistGeneralCompletion, StoresResult

(* The store steps of start_claim.                                         *)
LEMMA StartWrites ==
  ASSUME NEW a \in Agents, NEW e \in Epochs, StartStep(a, e)
  PROVE  StartStores(a, e)
BY DEF StartStep, StartStores, SpawnFails, Spawn, Bootstrap, BootstrapFails, Register,
       MarkRunning, Unmarked, Recheck, DeliverNone, DeliverClaim, DeliverLate, CleanupRequest,
       CleanupStop, At

(* The store steps of the monitor.                                         *)
LEMMA MonitorWrites ==
  ASSUME SchedulerInv, NEW a \in Agents, NEW e \in Epochs, MonitorStep(a, e)
  PROVE  MonitorStores(a, e)
<1>0. inc[a][e].pc \in {"persist", "fallback", "reap"} => inc[a][e].outcome \in ResultOutcomes
  BY GoodIs DEF SchedulerInv, ThreadInv, Deciding
<1>1. CASE Persist(a, e)
  <2>1. inc[a][e].pc = "persist"
    BY <1>1 DEF Persist, At
  <2>2. inc[a][e] \in Incarnation
    BY GoodIs DEF SchedulerInv, ThreadInv
  <2>3. [inc[a][e] EXCEPT !.life = "Terminal"].outcome = inc[a][e].outcome
    BY <2>2 DEF Incarnation
  <2> QED BY <1>0, <1>1, <2>1, <2>3, PersistStores DEF Persist, MonitorStores, Finishing
<1>2. CASE Fallback(a, e)
  BY <1>0, <1>2, PersistStores DEF Fallback, At, MonitorStores, Finishing
<1>3. CASE Reap(a, e)
  BY <1>3 DEF Reap, ReapIfProved, At, MonitorStores, Finishing
<1>4. CASE Sent(a, e) \/ SendFails(a, e)
  BY <1>4 DEF Sent, SendFails, Claimed, MonitorStores
<1>5. CASE MonitorClaims(a, e) \/ MonitorDrops(a, e)
  BY <1>5 DEF MonitorClaims, MonitorDrops, MonitorStores
<1>6. CASE \/ TimeoutStops(a, e) \/ MonitorExit(a, e) \/ MonitorComplete(a, e)
           \/ MonitorEnds(a, e) \/ MonitorLeaves(a, e) \/ Finish(a, e)
  BY <1>6 DEF TimeoutStops, MonitorExit, MonitorComplete, MonitorEnds, MonitorLeaves, Finish,
              MonitorStores
<1> QED BY <1>1, <1>2, <1>3, <1>4, <1>5, <1>6 DEF MonitorStep

(* The store steps of a control call.                                      *)
LEMMA CtlWrites ==
  ASSUME SchedulerInv, NEW c \in Callers, CtlStep(c)
  PROVE  ctl[c].agent \in Agents /\ CtlStores(c)
<1>0. /\ ctl[c].pc \notin {"idle", "done"} => ctl[c].agent \in Agents
      /\ ctl[c].pc \in Finishing => ctl[c].outcome \in ResultOutcomes
  BY GoodCallIs DEF SchedulerInv, ThreadInv, Finishing, Call, CallPcs
<1>1. ctl[c].pc \notin {"idle", "done"}
  BY DEF CtlStep, CtlRequest, CtlLock, CtlDeadline, CtlFailClosed, CtlCleanup, CtlPersist,
         CtlFallback, CtlReap, CtlAt
<1>2. CASE CtlRequest(c) \/ CtlFailClosed(c)
  BY <1>0, <1>1, <1>2 DEF CtlRequest, CtlFailClosed, CtlAt, CtlStores, Finishing
<1>3. CASE CtlLock(c) \/ CtlDeadline(c) \/ CtlCleanup(c)
  BY <1>0, <1>1, <1>3 DEF CtlLock, CtlDeadline, CtlCleanup, CtlAt, CtlStores
<1>4. CASE CtlPersist(c) \/ CtlFallback(c)
  BY <1>0, <1>1, <1>4, PersistStores DEF CtlPersist, CtlFallback, CtlAt, CtlStores, Finishing
<1>5. CASE CtlReap(c)
  BY <1>0, <1>1, <1>5 DEF CtlReap, ReapIfProved, CtlAt, CtlStores, Finishing
<1> QED BY <1>0, <1>1, <1>2, <1>3, <1>4, <1>5 DEF CtlStep

(* A resumer's store steps.                                                *)
LEMMA ResumerWrites ==
  ASSUME SchedulerInv, NEW r \in Resumers,
         ResumerStep(r) \/ \E a \in Agents : ResumeTerminal(r, a)
  PROVE  [StoreNext]_storeVars
<1>0. saved[r] # None => saved[r].agent \in Agents
  BY DEF SchedulerInv, TypeOK, Snapshot
<1>1. ASSUME NEW a \in Agents, ResumeStep(r, a) PROVE StoreNext
  BY <1>1 DEF StoreNext
<1>2. ASSUME NEW a \in Agents, ResumeTerminal(r, a) PROVE StoreNext
  BY <1>1, <1>2 DEF ResumeTerminal, ResumeStep
<1>3. CASE ResumeRead(r)
  BY <1>0, <1>1, <1>3 DEF ResumeRead, ReadOriginal, ReadOriginalResult, SnapshotAt, ResumeStep
<1>4. ASSUME NEW m \in Messages, ResumeRequeue(r, m) PROVE StoreNext
  BY <1>0, <1>1, <1>4 DEF ResumeRequeue, SnapshotAt, ResumeStep
<1>5. ASSUME DropOriginal(r) PROVE StoreNext
  BY <1>0, <1>1, <1>5 DEF DropOriginal, ResumeStep
<1>6. ASSUME RestoreTerminalAfterResumeFailure(r, saved[r].agent) PROVE StoreNext
  <2>1. saved[r] # None
    BY <1>6 DEF RestoreTerminalAfterResumeFailure, SnapshotAt
  <2> QED BY <1>0, <1>1, <1>6, <2>1 DEF ResumeStep
<1>7. ASSUME NEW b \in Agents, ResumeClaim(r, b) PROVE StoreNext
  BY <1>7 DEF ResumeClaim, Claim, StoreNext, TaskStep
<1>8. CASE ResumeRefused(r) \/ ResumeEnds(r) \/ ResumeFailed(r) \/ ResumeRestore(r)
  BY <1>5, <1>6, <1>8 DEF ResumeRefused, ResumeEnds, ResumeFailed, ResumeRestore
<1>9. CASE ResumeReturned(r)
  BY <1>9 DEF ResumeReturned
<1> QED BY <1>2, <1>3, <1>4, <1>7, <1>8, <1>9 DEF ResumerStep

(* Startup recovery stores a result or marks a terminal task as reaped.    *)
LEMMA RecoveryWrites ==
  ASSUME RecoveryStep
  PROVE  \/ UNCHANGED storeVars
         \/ \E a \in Agents : RecoverTask(a) /\ (StoresResult(a) \/ ReapTask(a))
BY OutcomesAssumption DEF RecoveryStep, RecoverTask, RefuseTask, Recovered, StoresResult

(* Every step of the scheduler is a step of the store, or leaves it alone. *)
LEMMA StoreStep == SchedulerInv /\ [SchedulerNext]_vars => [StoreNext]_storeVars
<1> SUFFICES ASSUME SchedulerInv, [SchedulerNext]_vars PROVE [StoreNext]_storeVars
  OBVIOUS
<1>t. ASSUME NEW a \in Agents, TaskStep(a) PROVE [StoreNext]_storeVars
  BY <1>t DEF StoreNext
<1>r. ASSUME NEW a \in Agents, StoresResult(a) \/ ReapTask(a) PROVE [StoreNext]_storeVars
  BY <1>r, <1>t DEF StoresResult, TaskStep
<1>1. ASSUME NEW a \in Agents, Submit(a) \/ StartReady(a) PROVE [StoreNext]_storeVars
  BY <1>1, <1>t DEF Submit, StartReady, Claim, TaskStep
<1>2. ASSUME NEW a \in Agents, NEW e \in Epochs, StartStep(a, e) PROVE [StoreNext]_storeVars
  <2>1. StartStores(a, e)
    BY <1>2, StartWrites
  <2> QED BY <1>t, <2>1 DEF StartStores, TaskStep, MessageStep, StoreNext, Epochs
<1>3. ASSUME NEW a \in Agents, NEW e \in Epochs, MonitorStep(a, e) PROVE [StoreNext]_storeVars
  <2>1. MonitorStores(a, e)
    BY <1>3, MonitorWrites
  <2> QED BY <1>r, <2>1 DEF MonitorStores, MessageStep, StoreNext
<1>4. ASSUME NEW a \in Agents, NEW e \in Epochs,
             Timeout(a, e) \/ TurnEnds(a, e) \/ ProcessExits(a, e)
      PROVE  [StoreNext]_storeVars
  BY <1>4, <1>t DEF Timeout, TurnEnds, ProcessExits, TaskStep
<1>5. ASSUME NEW c \in Callers, CtlStep(c) PROVE [StoreNext]_storeVars
  <2>1. ctl[c].agent \in Agents /\ CtlStores(c)
    BY <1>5, CtlWrites
  <2> QED BY <1>r, <1>t, <2>1 DEF CtlStores, TaskStep
<1>6. ASSUME NEW c \in Callers, NEW a \in Agents, CtlRead(c, a) PROVE [StoreNext]_storeVars
  BY <1>6 DEF CtlRead
<1>7. ASSUME NEW s \in Senders, SendStep(s) PROVE [StoreNext]_storeVars
  <2>1. CASE SendAdmit(s) \/ SendRefused(s)
    BY <2>1 DEF SendAdmit, SendRefused
  <2>2. CASE SendInsert(s)
    <3>1. send[s].agent \in Agents
      BY <2>2 DEF SendInsert, SendAt, SchedulerInv, ThreadInv, GoodSend
    <3>2. UNCHANGED storeVars \/ \E m \in Messages : InsertMessage(m, send[s].agent)
      BY <2>2 DEF SendInsert
    <3> QED BY <3>1, <3>2 DEF MessageStep, StoreNext
  <2> QED BY <1>7, <2>1, <2>2 DEF SendStep
<1>8. ASSUME NEW s \in Senders, NEW a \in Agents, SendRead(s, a) PROVE [StoreNext]_storeVars
  BY <1>8 DEF SendRead
<1>9. CASE RecoveryStep
  BY <1>9, <1>r, RecoveryWrites
<1>10. CASE Crash
  BY <1>10 DEF Crash
<1>11. CASE UNCHANGED vars
  BY <1>11 DEF vars
<1> QED BY <1>1, <1>2, <1>3, <1>4, <1>5, <1>6, <1>7, <1>8, <1>9, <1>10, <1>11, ResumerWrites
        DEF SchedulerNext

(* The invariant of the threads is inductive together with the store's     *)
(* types.                                                                  *)
LEMMA SchedulerInvNext == SchedulerInv /\ [SchedulerNext]_vars => SchedulerInv'
BY ThreadNext, StoreStep, TypeNext DEF SchedulerInv

(* Every thread is good where it is, whatever the others do.               *)
THEOREM ThreadsAreGood == SchedulerSpec => []SchedulerInv
<1>1. SchedulerInit => SchedulerInv
  BY ThreadInit, TypeInit DEF SchedulerInit, SchedulerInv
<1>2. SchedulerInv /\ [SchedulerNext]_vars => SchedulerInv'
  BY SchedulerInvNext
<1> QED BY <1>1, <1>2, PTL DEF SchedulerSpec

(* Every thread, lock and process of the scheduler is in a state the code  *)
(* has.                                                                    *)
THEOREM SchedulerTypeCorrect == SchedulerSpec => []SchedulerTypeOK
<1>1. SchedulerInv => SchedulerTypeOK
  <2> SUFFICES ASSUME SchedulerInv PROVE SchedulerTypeOK
    OBVIOUS
  <2>1. inc \in [Agents -> [Epochs -> Incarnation]]
    BY GoodIs DEF SchedulerInv, ThreadInv
  <2>2. ctl \in [Callers -> Call]
    BY GoodCallIs DEF SchedulerInv, ThreadInv
  <2>3. send \in [Senders -> Send]
    BY DEF SchedulerInv, ThreadInv, GoodSend
  <2> QED BY <2>1, <2>2, <2>3 DEF SchedulerInv, ThreadInv, SchedulerTypeOK
<1> QED BY <1>1, ThreadsAreGood, PTL

(* The scheduler uses the store as the store's specification says: every   *)
(* interleaving of its threads, crashes and recoveries is a behaviour of   *)
(* the store, so what is proved of the store holds in the daemon.          *)
THEOREM SchedulerImplementsStore == SchedulerSpec => StoreSpec
<1>1. SchedulerInit => StoreInit
  BY DEF SchedulerInit
<1>2. SchedulerInv /\ [SchedulerNext]_vars => [StoreNext]_storeVars
  BY StoreStep
<1> QED BY <1>1, <1>2, ThreadsAreGood, PTL DEF SchedulerSpec, StoreSpec

(* In particular the invariant of the store holds in the daemon.           *)
THEOREM SchedulerStoreInvariant == SchedulerSpec => []StoreInv
BY SchedulerImplementsStore, StoreInvariant, PTL

=============================================================================
