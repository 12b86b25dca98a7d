----------------------------- MODULE DriverStop -----------------------------
(***************************************************************************)
(* Stopping a runtime's process group: Driver::stop_and_reap with the      *)
(* generations and waiters of StopState and its condition variable, the    *)
(* TERM/KILL sequence of perform_stop under the child lock, the thread of  *)
(* monitor_child, and, after a crash of the daemon, the stop of the        *)
(* persisted process group by the next daemon.                             *)
(*                                                                         *)
(* The operating system is modelled from how this code uses it: a leader   *)
(* that becomes a zombie and is reaped by try_wait (or by init once the    *)
(* daemon is gone), members that fork and die, and observations that fail. *)
(* An observation of the group is taken at its confirming read. Process    *)
(* ids are not reused within a behaviour.                                  *)
(***************************************************************************)
EXTENDS Naturals, FiniteSets

CONSTANTS Callers,      \* threads that share the Driver
          Descendants,  \* processes the leader's group may fork
          MaxCalls      \* bound on the calls of a thread

ASSUME CallersAreFinite == IsFiniteSet(Callers)
ASSUME MaxCallsIsNat == MaxCalls \in Nat

VARIABLES
  stop,        \* stop_state: kind, generation, waiters
  asleep,      \* threads blocked in ready.wait
  pc,          \* where each thread is in stop_and_reap
  joined,      \* generation a thread performs, waits for or was answered from
  ok,          \* the result a thread holds
  calls,       \* calls a thread has made
  lock,        \* holders of the child mutex, at most one
  leaderExit,  \* leader_exit of wait_for_group_death is Some
  leader,      \* the spawned process
  members,     \* state of every other process of the group
  killed,      \* SIGKILL was sent to the group
  monitor,     \* monitor_child
  daemon,      \* "up", or the steps of the next daemon's recovery after a crash
  recovered    \* result of stop_and_reap_persisted_process_group

callVars == <<stop, asleep, pc, joined, ok, calls>>
osVars == <<leader, members, killed>>
vars == <<stop, asleep, pc, joined, ok, calls, lock, leaderExit, leader, members, killed,
          monitor, daemon, recovered>>

Kinds == {"Running", "Stopping", "Stopped", "Failed"}
Waiting == {"begin", "joined"}
\* Steps of perform_stop, which run with the child lock held.
Locked == {"checkEmpty", "observe", "owned", "term", "waitTerm", "validate", "kill", "waitKill"}
Performing == {"perform", "finish"} \cup Locked
PCs == {"idle", "returned"} \cup Waiting \cup Performing
RecoverySteps == {"observe", "orphans", "term", "waitTerm", "validate", "kill", "waitKill", "done"}

(* ------------------------- the process group --------------------------- *)
LiveMembers == {d \in Descendants : members[d] = "alive"}

\* No process of the group is left that could run or fork.
GroupDead == leader # "alive" /\ LiveMembers = {}

Fork(d) == /\ members[d] = "unborn"
           /\ ~GroupDead /\ ~killed
           /\ members' = [members EXCEPT ![d] = "alive"]
           /\ UNCHANGED <<callVars, lock, leaderExit, leader, killed, monitor, daemon, recovered>>

MemberDies(d) == /\ members[d] = "alive"
                 /\ members' = [members EXCEPT ![d] = "gone"]
                 /\ UNCHANGED <<callVars, lock, leaderExit, leader, killed, monitor, daemon, recovered>>

LeaderDies == /\ leader = "alive"
              /\ leader' = "zombie"
              /\ UNCHANGED <<callVars, lock, leaderExit, members, killed, monitor, daemon, recovered>>

\* Once the daemon is gone its children are init's, which reaps them.
InitReaps == /\ daemon # "up"
             /\ leader = "zombie"
             /\ leader' = "reaped"
             /\ UNCHANGED <<callVars, lock, leaderExit, members, killed, monitor, daemon, recovered>>

(* --------------------- begin_stop and finish_stop ---------------------- *)
Call(c) == /\ daemon = "up"
           /\ pc[c] = "idle"
           /\ calls[c] < MaxCalls
           /\ pc' = [pc EXCEPT ![c] = "begin"]
           /\ calls' = [calls EXCEPT ![c] = @ + 1]
           /\ UNCHANGED <<stop, asleep, joined, ok, lock, leaderExit, osVars, monitor, daemon, recovered>>

\* A turn of the outer loop of begin_stop.
Begin(c) ==
  /\ daemon = "up"
  /\ pc[c] = "begin" /\ c \notin asleep
  /\ \/ /\ stop.kind = "Stopped"
        /\ pc' = [pc EXCEPT ![c] = "returned"]
        /\ joined' = [joined EXCEPT ![c] = stop.generation]
        /\ ok' = [ok EXCEPT ![c] = TRUE]
        /\ UNCHANGED <<stop, asleep>>
     \/ /\ stop.kind = "Running" \/ (stop.kind = "Failed" /\ stop.waiters = 0)
        /\ stop' = [kind |-> "Stopping", generation |-> stop.generation + 1, waiters |-> 0]
        /\ pc' = [pc EXCEPT ![c] = "perform"]
        /\ joined' = [joined EXCEPT ![c] = stop.generation + 1]
        /\ UNCHANGED <<asleep, ok>>
     \/ /\ stop.kind = "Failed" /\ stop.waiters # 0
        /\ asleep' = asleep \cup {c}
        /\ UNCHANGED <<stop, pc, joined, ok>>
     \/ /\ stop.kind = "Stopping"
        /\ stop' = [stop EXCEPT !.waiters = @ + 1]
        /\ asleep' = asleep \cup {c}
        /\ pc' = [pc EXCEPT ![c] = "joined"]
        /\ joined' = [joined EXCEPT ![c] = stop.generation]
        /\ UNCHANGED ok
  /\ UNCHANGED <<calls, lock, leaderExit, osVars, monitor, daemon, recovered>>

\* A turn of the inner loop of begin_stop, after ready.wait returned.
OwnGeneration(c) == stop.generation = joined[c]

\* Mutant: a waiter counts itself off whether it is counted or not.
WakeUncounted(c) ==
  /\ daemon = "up"
  /\ pc[c] = "joined" /\ c \notin asleep
  /\ LET failed == stop.kind = "Failed" /\ OwnGeneration(c)
         still == stop.kind = "Stopping" /\ OwnGeneration(c)
         returns == failed \/ stop.kind = "Stopped"
     IN /\ stop' = IF returns THEN [stop EXCEPT !.waiters = @ - 1] ELSE stop
        /\ asleep' = IF still THEN asleep \cup {c} ELSE IF failed /\ stop.waiters <= 1 THEN {} ELSE asleep
        /\ pc' = [pc EXCEPT ![c] = IF returns THEN "returned" ELSE IF still THEN "joined" ELSE "begin"]
        /\ ok' = [ok EXCEPT ![c] = stop.kind = "Stopped"]
  /\ UNCHANGED <<joined, calls, lock, leaderExit, osVars, monitor, daemon, recovered>>

\* Mutant: the last waiter of a failure does not notify.
WakeUnnotified(c) ==
  /\ daemon = "up"
  /\ pc[c] = "joined" /\ c \notin asleep
  /\ LET failed == stop.kind = "Failed" /\ OwnGeneration(c)
         still == stop.kind = "Stopping" /\ OwnGeneration(c)
         returns == failed \/ stop.kind = "Stopped"
     IN /\ stop' = IF failed /\ stop.waiters # 0 THEN [stop EXCEPT !.waiters = @ - 1] ELSE stop
        /\ asleep' = IF still THEN asleep \cup {c} ELSE asleep
        /\ pc' = [pc EXCEPT ![c] = IF returns THEN "returned" ELSE IF still THEN "joined" ELSE "begin"]
        /\ ok' = [ok EXCEPT ![c] = stop.kind = "Stopped"]
  /\ UNCHANGED <<joined, calls, lock, leaderExit, osVars, monitor, daemon, recovered>>

WakeJoined(c) ==
  /\ daemon = "up"
  /\ pc[c] = "joined" /\ c \notin asleep
  /\ LET failed == stop.kind = "Failed" /\ OwnGeneration(c)
         still == stop.kind = "Stopping" /\ OwnGeneration(c)
         returns == failed \/ stop.kind = "Stopped"
         last == failed /\ stop.waiters <= 1
     IN /\ stop' = IF failed /\ stop.waiters # 0 THEN [stop EXCEPT !.waiters = @ - 1] ELSE stop
        /\ asleep' = IF still THEN asleep \cup {c} ELSE IF last THEN {} ELSE asleep
        /\ pc' = [pc EXCEPT ![c] = IF returns THEN "returned" ELSE IF still THEN "joined" ELSE "begin"]
        /\ ok' = [ok EXCEPT ![c] = stop.kind = "Stopped"]
  /\ UNCHANGED <<joined, calls, lock, leaderExit, osVars, monitor, daemon, recovered>>

\* A condition variable may wake a thread that nobody notified.
SpuriousWakeup(c) == /\ daemon = "up"
                     /\ c \in asleep
                     /\ asleep' = asleep \ {c}
                     /\ UNCHANGED <<stop, pc, joined, ok, calls, lock, leaderExit, osVars, monitor,
                                    daemon, recovered>>

\* Mutant: a failure does not keep its waiters.
FinishForgetsWaiters(c) ==
  /\ daemon = "up"
  /\ pc[c] = "finish"
  /\ stop' = [kind |-> IF ok[c] THEN "Stopped" ELSE "Failed", generation |-> joined[c], waiters |-> 0]
  /\ asleep' = {}
  /\ pc' = [pc EXCEPT ![c] = "returned"]
  /\ UNCHANGED <<joined, ok, calls, lock, leaderExit, osVars, monitor, daemon, recovered>>

\* The waiters registered with this generation stay registered with its failure.
FinishStop(c) ==
  /\ daemon = "up"
  /\ pc[c] = "finish"
  /\ stop' = [kind |-> IF ok[c] THEN "Stopped" ELSE "Failed",
              generation |-> joined[c],
              waiters |-> IF ~ok[c] /\ stop.kind = "Stopping" /\ OwnGeneration(c)
                          THEN stop.waiters ELSE 0]
  /\ asleep' = {}
  /\ pc' = [pc EXCEPT ![c] = "returned"]
  /\ UNCHANGED <<joined, ok, calls, lock, leaderExit, osVars, monitor, daemon, recovered>>

Return(c) == /\ daemon = "up"
             /\ pc[c] = "returned"
             /\ pc' = [pc EXCEPT ![c] = "idle"]
             /\ joined' = [joined EXCEPT ![c] = 0]
             /\ ok' = [ok EXCEPT ![c] = FALSE]
             /\ UNCHANGED <<stop, asleep, calls, lock, leaderExit, osVars, monitor, daemon, recovered>>

(* ---------------------------- perform_stop ----------------------------- *)
Step(c, from, to) == /\ daemon = "up"
                     /\ pc[c] = from
                     /\ pc' = [pc EXCEPT ![c] = to]
                     /\ UNCHANGED <<stop, asleep, joined, calls, monitor, daemon, recovered>>

\* perform_stop returns: the child lock is released with its guard.
Leave(c, from, result) == /\ Step(c, from, "finish")
                          /\ ok' = [ok EXCEPT ![c] = result]
                          /\ lock' = lock \ {c}
                          /\ leaderExit' = FALSE
                          /\ UNCHANGED osVars

\* The child lock, then try_wait.
TakeLock(c) ==
  /\ lock = {}
  /\ lock' = {c}
  /\ \/ leader = "alive" /\ Step(c, "perform", "observe") /\ UNCHANGED leader
     \/ leader # "alive" /\ Step(c, "perform", "checkEmpty") /\ leader' = "reaped"
  /\ UNCHANGED <<ok, leaderExit, members, killed>>

\* Mutant: the group is not looked at after its leader was reaped.
CheckNothing(c) == Leave(c, "checkEmpty", TRUE)

\* ensure_group_empty after the leader was reaped.
CheckEmpty(c) == Leave(c, "checkEmpty", LiveMembers = {})

\* observe_process: a zombie may be invisible, and is then reaped by the second try_wait.
Observe(c) ==
  \/ /\ Step(c, "observe", "owned")
     /\ UNCHANGED <<ok, lock, leaderExit, osVars>>
  \/ /\ leader = "zombie"
     /\ Step(c, "observe", "checkEmpty")
     /\ leader' = "reaped"
     /\ UNCHANGED <<ok, lock, leaderExit, members, killed>>

\* validate_same_identity and validate_owned_group over the observed members.
Validated(c, from, to) == Step(c, from, to) /\ UNCHANGED <<ok, lock, leaderExit, osVars>>

SignalTerm(c) == Step(c, "term", "waitTerm") /\ UNCHANGED <<ok, lock, leaderExit, osVars>>

SignalKill(c) == /\ Step(c, "kill", "waitKill")
                 /\ killed' = TRUE
                 /\ UNCHANGED <<ok, lock, leaderExit, leader, members>>

\* wait_for_group_death: try_wait, then the observation of the group.
WaitReaps(c) == /\ daemon = "up"
                /\ pc[c] \in {"waitTerm", "waitKill"}
                /\ ~leaderExit /\ leader # "alive"
                /\ leader' = "reaped"
                /\ leaderExit' = TRUE
                /\ UNCHANGED <<callVars, lock, members, killed, monitor, daemon, recovered>>

WaitSeesDeath(c) == /\ leaderExit /\ LiveMembers = {}
                    /\ \E from \in {"waitTerm", "waitKill"} : Leave(c, from, TRUE)

\* The deadline of the first wait: the second wait starts with leader_exit None.
TermTimeout(c) == /\ Step(c, "waitTerm", "validate")
                  /\ leaderExit' = FALSE
                  /\ UNCHANGED <<ok, lock, osVars>>

KillTimeout(c) == Leave(c, "waitKill", FALSE)

\* Observations and signals may fail; a failed observation ends the attempt.
OsError(c) == \E from \in Locked : Leave(c, from, FALSE)

PerformStop(c) ==
  \/ TakeLock(c) \/ CheckEmpty(c) \/ Observe(c)
  \/ Validated(c, "owned", "term") \/ SignalTerm(c)
  \/ WaitReaps(c) \/ WaitSeesDeath(c) \/ TermTimeout(c)
  \/ Validated(c, "validate", "kill") \/ SignalKill(c) \/ KillTimeout(c)
  \/ OsError(c)

(* ---------------------------- monitor_child ---------------------------- *)
\* Mutant: the monitor reaps without the child lock.
PollUnlocked == /\ daemon = "up"
                /\ monitor = "polling"
                /\ leader # "alive"
                /\ leader' = "reaped"
                /\ monitor' = "exited"
                /\ UNCHANGED <<callVars, lock, leaderExit, members, killed, daemon, recovered>>

\* Mutant: a status reaped by another thread is not seen.
PollOnlyZombies == /\ daemon = "up"
                   /\ monitor = "polling" /\ lock = {}
                   /\ leader = "zombie"
                   /\ leader' = "reaped"
                   /\ monitor' = "exited"
                   /\ UNCHANGED <<callVars, lock, leaderExit, members, killed, daemon, recovered>>

\* try_wait under the child lock; a status the other thread reaped is cached.
MonitorPoll == /\ daemon = "up"
               /\ monitor = "polling" /\ lock = {}
               /\ leader # "alive"
               /\ leader' = "reaped"
               /\ monitor' = "exited"
               /\ UNCHANGED <<callVars, lock, leaderExit, members, killed, daemon, recovered>>

\* The read barrier passes or times out; termination is set and ChildExited sent.
MonitorPublish == /\ daemon = "up"
                  /\ monitor = "exited"
                  /\ monitor' = "published"
                  /\ UNCHANGED <<callVars, lock, leaderExit, osVars, daemon, recovered>>

(* ------------- crash and stop_and_reap_persisted_process_group --------- *)
Crash == /\ daemon = "up"
         /\ daemon' = "observe"
         /\ UNCHANGED <<callVars, lock, leaderExit, osVars, monitor, recovered>>

Recover(from, to) == /\ daemon = from
                     /\ daemon' = to
                     /\ UNCHANGED <<callVars, lock, leaderExit, leader, members, monitor>>

\* The identity is observed, or the leader is gone; a zombie may be either.
RecoverObserve == /\ \/ leader # "reaped" /\ Recover("observe", "term")
                     \/ leader # "alive" /\ Recover("observe", "orphans")
                  /\ UNCHANGED <<killed, recovered>>

RecoverOrphans == \/ /\ LiveMembers = {} /\ leader # "alive"
                     /\ Recover("orphans", "done") /\ recovered' = TRUE
                     /\ UNCHANGED killed
                  \/ /\ LiveMembers # {}
                     /\ Recover("orphans", "term")
                     /\ UNCHANGED <<killed, recovered>>

RecoverTerm == Recover("term", "waitTerm") /\ UNCHANGED <<killed, recovered>>

RecoverSeesDeath == /\ GroupDead
                    /\ Recover("waitTerm", "done") \/ Recover("waitKill", "done")
                    /\ recovered' = TRUE
                    /\ UNCHANGED killed

RecoverValidate == \/ Recover("waitTerm", "validate") /\ UNCHANGED <<killed, recovered>>
                   \/ Recover("validate", "kill") /\ UNCHANGED <<killed, recovered>>

RecoverKill == Recover("kill", "waitKill") /\ killed' = TRUE /\ UNCHANGED recovered

RecoverFails == /\ \E from \in RecoverySteps \ {"done"} : Recover(from, "done")
                /\ UNCHANGED <<killed, recovered>>

Recovery == \/ RecoverObserve \/ RecoverOrphans \/ RecoverTerm \/ RecoverSeesDeath
            \/ RecoverValidate \/ RecoverKill \/ RecoverFails

(* --------------------------- specification ----------------------------- *)
Init == /\ stop = [kind |-> "Running", generation |-> 0, waiters |-> 0]
        /\ asleep = {}
        /\ pc = [c \in Callers |-> "idle"]
        /\ joined = [c \in Callers |-> 0]
        /\ ok = [c \in Callers |-> FALSE]
        /\ calls = [c \in Callers |-> 0]
        /\ lock = {}
        /\ leaderExit = FALSE
        /\ leader = "alive"
        /\ members = [d \in Descendants |-> "unborn"]
        /\ killed = FALSE
        /\ monitor = "polling"
        /\ daemon = "up"
        /\ recovered = FALSE

CallerStep(c) == Begin(c) \/ WakeJoined(c) \/ FinishStop(c) \/ Return(c) \/ PerformStop(c)

Os == LeaderDies \/ InitReaps \/ \E d \in Descendants : Fork(d) \/ MemberDies(d)

Next == \/ \E c \in Callers : Call(c) \/ SpuriousWakeup(c) \/ CallerStep(c)
        \/ MonitorPoll \/ MonitorPublish
        \/ Crash \/ Recovery \/ Os

\* Threads run and their timeouts fire; processes may live for ever unless killed.
Fairness == /\ \A c \in Callers : WF_vars(CallerStep(c))
            /\ WF_vars(MonitorPoll \/ MonitorPublish)
            /\ WF_vars(Recovery)

Spec == Init /\ [][Next]_vars /\ Fairness

(* ----------------------------- properties ------------------------------ *)
\* The states of the stop, its callers and the processes; the waiters counted in
\* StopState never fall below zero, although several threads count them off.
TypeOK == /\ stop \in [kind : Kinds, generation : Nat, waiters : Nat]
          /\ asleep \subseteq Callers
          /\ pc \in [Callers -> PCs]
          /\ joined \in [Callers -> Nat]
          /\ ok \in [Callers -> BOOLEAN]
          /\ calls \in [Callers -> Nat]
          /\ lock \subseteq Callers
          /\ leaderExit \in BOOLEAN
          /\ leader \in {"alive", "zombie", "reaped"}
          /\ members \in [Descendants -> {"unborn", "alive", "gone"}]
          /\ killed \in BOOLEAN
          /\ monitor \in {"polling", "exited", "published"}
          /\ daemon \in {"up"} \cup RecoverySteps
          /\ recovered \in BOOLEAN

Registered == {c \in Callers : pc[c] = "joined"}

\* What the caller of stop_and_reap can observe, as the abstract service states it.
CallSeen(c) ==
  CASE pc[c] = "idle" -> [state |-> "idle", attempt |-> 0, ok |-> FALSE]
    [] pc[c] = "begin" -> [state |-> "calling", attempt |-> 0, ok |-> FALSE]
    [] pc[c] = "returned" -> [state |-> "answered", attempt |-> joined[c], ok |-> ok[c]]
    [] pc[c] = "joined" /\ stop.kind # "Stopping" ->
         [state |-> "answered", attempt |-> joined[c], ok |-> stop.kind = "Stopped"]
    [] OTHER -> [state |-> "joined", attempt |-> joined[c], ok |-> FALSE]

Service == INSTANCE StopService WITH
  attempt <- stop.generation,
  running <- stop.kind = "Stopping",
  stopped <- stop.kind = "Stopped",
  call <- [c \in Callers |-> CallSeen(c)]

\* stop_and_reap implements the abstract service: one attempt at a time, every
\* call that joins an attempt is answered with that attempt's result although the
\* waiters wake one by one, and a success is final.
StopServiceSpec == Service!ServiceSpec

\* A stop that reports success left no live process behind, whatever forked, died
\* or was reaped by the monitor meanwhile; the same holds for the recovery of a
\* persisted group, and it stays true.
StoppedIsDead == stop.kind = "Stopped" \/ recovered => GroupDead

\* A TERM goes to the group of a leader nobody has reaped: the monitor cannot reap
\* it between the identity checks and the signal.
SignalsOwnGroup == \A c \in Callers :
  daemon = "up" /\ pc[c] \in {"observe", "owned", "term"} => leader # "reaped"

\* Every call of stop_and_reap returns: no waiter is left asleep by a failed or a
\* repeated attempt, and no wait outlives its timeout.
StopReturns == \A c \in Callers : pc[c] = "begin" ~> (pc[c] = "returned" \/ daemon # "up")

\* The exit of the leader is published although a stop may hold the child lock and
\* reap it first.
ExitPublished == leader # "alive" ~> (monitor = "published" \/ daemon # "up")
=============================================================================
