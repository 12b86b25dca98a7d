-------------------------- MODULE DriverStopProofs --------------------------
(***************************************************************************)
(* Machine-checked safety of Driver::stop_and_reap for any number of       *)
(* threads that share a Driver and any number of processes in the group,   *)
(* and the proof that it implements StopService.                           *)
(***************************************************************************)
EXTENDS DriverStop, FiniteSetTheorems, TLAPS

(* One step of a thread inside perform_stop, as a disjunction of its moves. *)
LEMMA TypePerformStop ==
  ASSUME TypeOK, NEW c \in Callers, PerformStop(c)
  PROVE  TypeOK'
<1> USE DEF TypeOK, PCs, Waiting, Performing, Locked, Kinds, RecoverySteps, Step, osVars
<1>1. CASE TakeLock(c)
  BY <1>1 DEF TakeLock
<1>2. ASSUME NEW from \in Locked, NEW result \in BOOLEAN, Leave(c, from, result)
      PROVE  TypeOK'
  BY <1>2 DEF Leave
<1>3. CASE CheckEmpty(c)
  BY <1>2, <1>3 DEF CheckEmpty
<1>4. CASE Observe(c)
  BY <1>4 DEF Observe
<1>5. CASE Validated(c, "owned", "term") \/ Validated(c, "validate", "kill")
  BY <1>5 DEF Validated
<1>6. CASE SignalTerm(c) \/ SignalKill(c)
  BY <1>6 DEF SignalTerm, SignalKill
<1>7. CASE WaitReaps(c)
  BY <1>7 DEF WaitReaps, callVars
<1>8. CASE WaitSeesDeath(c) \/ KillTimeout(c) \/ OsError(c)
  BY <1>2, <1>8 DEF WaitSeesDeath, KillTimeout, OsError
<1>9. CASE TermTimeout(c)
  BY <1>9 DEF TermTimeout
<1> QED BY <1>1, <1>3, <1>4, <1>5, <1>6, <1>7, <1>8, <1>9 DEF PerformStop

(* The stop state keeps its type, its count of waiters above all.          *)
LEMMA TypeCallerStep ==
  ASSUME TypeOK, NEW c \in Callers, Call(c) \/ SpuriousWakeup(c) \/ CallerStep(c)
  PROVE  TypeOK'
<1> USE DEF TypeOK, PCs, Waiting, Performing, Locked, Kinds, RecoverySteps, osVars
<1>1. CASE Call(c)
  BY <1>1 DEF Call
<1>2. CASE SpuriousWakeup(c)
  BY <1>2 DEF SpuriousWakeup
<1>3. CASE Begin(c)
  <2>1. CASE stop.kind = "Stopped"
    BY <1>3, <2>1 DEF Begin
  <2>2. CASE stop.kind = "Running" \/ (stop.kind = "Failed" /\ stop.waiters = 0)
    BY <1>3, <2>2 DEF Begin
  <2>3. CASE stop.kind = "Failed" /\ stop.waiters # 0
    BY <1>3, <2>3 DEF Begin
  <2>4. CASE stop.kind = "Stopping"
    <3>1. [stop EXCEPT !.waiters = @ + 1] \in [kind : Kinds, generation : Nat, waiters : Nat]
      OBVIOUS
    <3> QED BY <1>3, <2>4, <3>1 DEF Begin
  <2> QED BY <2>1, <2>2, <2>3, <2>4
<1>4. CASE WakeJoined(c)
  BY <1>4 DEF WakeJoined
<1>5. CASE FinishStop(c)
  BY <1>5 DEF FinishStop
<1>6. CASE Return(c)
  BY <1>6 DEF Return
<1>7. CASE PerformStop(c)
  BY <1>7, TypePerformStop
<1> QED BY <1>1, <1>2, <1>3, <1>4, <1>5, <1>6, <1>7 DEF CallerStep

(* The steps outside the callers: the monitor thread, a crash, the next daemon's recovery and the operating system. *)
LEMMA TypeOther ==
  ASSUME TypeOK, MonitorPoll \/ MonitorPublish \/ Crash \/ Recovery \/ Os
  PROVE  TypeOK'
<1> USE DEF TypeOK, RecoverySteps, osVars, callVars
<1>1. CASE MonitorPoll \/ MonitorPublish \/ Crash
  BY <1>1 DEF MonitorPoll, MonitorPublish, Crash
<1>2. CASE Recovery
  BY <1>2 DEF Recovery, RecoverObserve, RecoverOrphans, RecoverTerm, RecoverSeesDeath, RecoverValidate,
              RecoverKill, RecoverFails, Recover
<1>3. CASE LeaderDies \/ InitReaps
  BY <1>3 DEF LeaderDies, InitReaps
<1>4. ASSUME NEW d \in Descendants, Fork(d) \/ MemberDies(d)
      PROVE  TypeOK'
  BY <1>4 DEF Fork, MemberDies
<1> QED BY <1>1, <1>2, <1>3, <1>4 DEF Os

(* The states of the stop, its callers and the processes are of their      *)
(* types; the count of waiters in StopState never falls below zero.        *)
THEOREM StopTypeCorrect == Spec => []TypeOK
<1>1. ASSUME Init
      PROVE  TypeOK
  <2>1. stop \in [kind : Kinds, generation : Nat, waiters : Nat]
    BY <1>1 DEF Init, Kinds
  <2>2. pc \in [Callers -> PCs] /\ daemon \in {"up"} \cup RecoverySteps
    BY <1>1 DEF Init, PCs
  <2> QED BY <1>1, <2>1, <2>2 DEF Init, TypeOK
<1>2. TypeOK /\ [Next]_vars => TypeOK'
  <2> SUFFICES ASSUME TypeOK, [Next]_vars
               PROVE  TypeOK'
    OBVIOUS
  <2>1. CASE UNCHANGED vars
    BY <2>1 DEF TypeOK, vars
  <2> QED BY <2>1, TypeCallerStep, TypeOther DEF Next
<1> QED BY <1>1, <1>2, PTL DEF Spec

-----------------------------------------------------------------------------
(* What the child lock protects: one thread is inside perform_stop, a      *)
(* leader it has not waited for stays unreaped, and what it found dead is  *)
(* dead for good.                                                          *)
LockHeld == \A c \in Callers : pc[c] \in Locked => lock = {c}
ReapedLeader == /\ leaderExit => leader = "reaped"
                /\ \A c \in Callers : pc[c] = "checkEmpty" => leader = "reaped"
SuccessIsDead == \A c \in Callers : pc[c] = "finish" /\ ok[c] => GroupDead

StopInv == LockHeld /\ ReapedLeader /\ SuccessIsDead /\ StoppedIsDead /\ SignalsOwnGroup

(* A dead group stays dead: nothing is left that could fork.               *)
LEMMA DeathIsFinal ==
  ASSUME TypeOK, GroupDead, [Next]_vars
  PROVE  GroupDead'
<1> USE DEF TypeOK, GroupDead, LiveMembers, osVars
<1>1. CASE UNCHANGED vars
  BY <1>1 DEF vars
<1>2. ASSUME NEW c \in Callers, PerformStop(c)
      PROVE  GroupDead'
  BY <1>2 DEF PerformStop, TakeLock, CheckEmpty, Observe, Validated, SignalTerm, SignalKill, WaitReaps,
     WaitSeesDeath, KillTimeout, OsError, TermTimeout, Leave, Step
<1>3. ASSUME NEW c \in Callers, Call(c) \/ SpuriousWakeup(c) \/ Begin(c) \/ WakeJoined(c) \/ FinishStop(c) \/ Return(c)
      PROVE  GroupDead'
  BY <1>3 DEF Call, SpuriousWakeup, Begin, WakeJoined, FinishStop, Return
<1>4. CASE MonitorPoll \/ MonitorPublish \/ Crash
  BY <1>4 DEF MonitorPoll, MonitorPublish, Crash
<1>5. CASE Recovery
  BY <1>5 DEF Recovery, RecoverObserve, RecoverOrphans, RecoverTerm, RecoverSeesDeath, RecoverValidate,
              RecoverKill, RecoverFails, Recover
<1>6. CASE Os
  BY <1>6 DEF Os, LeaderDies, InitReaps, Fork, MemberDies
<1> QED BY <1>1, <1>2, <1>3, <1>4, <1>5, <1>6 DEF Next, CallerStep

(* The lock invariant under a step of perform_stop: a thread enters with   *)
(* the free lock and leaves with it, and only its holder waits for the     *)
(* leader.                                                                 *)
LEMMA InvPerformStop ==
  ASSUME TypeOK, StopInv, NEW c \in Callers, PerformStop(c)
  PROVE  StopInv'
<1> USE DEF TypeOK, StopInv, LockHeld, ReapedLeader, Locked, Step, osVars
<1>d. GroupDead => GroupDead'
  BY DeathIsFinal DEF Next, CallerStep
<1>s. StoppedIsDead'
  BY <1>d DEF StoppedIsDead, PerformStop, TakeLock, CheckEmpty, Observe, Validated, SignalTerm, SignalKill,
     WaitReaps, WaitSeesDeath, KillTimeout, OsError, TermTimeout, Leave, callVars
<1>1. CASE TakeLock(c)
  <2>1. LockHeld' /\ ReapedLeader' /\ SignalsOwnGroup'
    BY <1>1 DEF TakeLock, SignalsOwnGroup
  <2>2. SuccessIsDead'
    BY <1>1, <1>d DEF TakeLock, SuccessIsDead
  <2> QED BY <2>1, <2>2, <1>s
<1>2. ASSUME NEW from \in Locked, NEW result \in BOOLEAN, Leave(c, from, result), result => GroupDead
      PROVE  StopInv'
  <2>1. LockHeld' /\ ReapedLeader' /\ SignalsOwnGroup'
    BY <1>2 DEF Leave, SignalsOwnGroup
  <2>2. SuccessIsDead'
    BY <1>2, <1>d DEF Leave, SuccessIsDead
  <2> QED BY <2>1, <2>2, <1>s
<1>3. CASE CheckEmpty(c)
  <2>1. (LiveMembers = {}) => GroupDead
    BY <1>3 DEF CheckEmpty, Leave, GroupDead
  <2> QED BY <1>2, <1>3, <2>1 DEF CheckEmpty
<1>4. CASE Observe(c)
  <2>1. LockHeld' /\ ReapedLeader' /\ SignalsOwnGroup'
    BY <1>4 DEF Observe, SignalsOwnGroup
  <2>2. SuccessIsDead'
    BY <1>4, <1>d DEF Observe, SuccessIsDead
  <2> QED BY <2>1, <2>2, <1>s
<1>5. CASE Validated(c, "owned", "term") \/ Validated(c, "validate", "kill") \/ SignalTerm(c) \/ SignalKill(c)
           \/ TermTimeout(c)
  <2>1. LockHeld' /\ ReapedLeader' /\ SignalsOwnGroup'
    BY <1>5 DEF Validated, SignalTerm, SignalKill, TermTimeout, SignalsOwnGroup
  <2>2. SuccessIsDead'
    BY <1>5, <1>d DEF Validated, SignalTerm, SignalKill, TermTimeout, SuccessIsDead
  <2> QED BY <2>1, <2>2, <1>s
<1>6. CASE WaitReaps(c)
  <2>1. LockHeld' /\ ReapedLeader' /\ SignalsOwnGroup'
    BY <1>6 DEF WaitReaps, callVars, SignalsOwnGroup
  <2>2. SuccessIsDead'
    BY <1>6, <1>d DEF WaitReaps, callVars, SuccessIsDead
  <2> QED BY <2>1, <2>2, <1>s
<1>7. CASE WaitSeesDeath(c) \/ KillTimeout(c) \/ OsError(c)
  <2>1. leaderExit /\ LiveMembers = {} => GroupDead
    BY DEF GroupDead
  <2> QED BY <1>2, <1>7, <2>1 DEF WaitSeesDeath, KillTimeout, OsError
<1> QED BY <1>1, <1>3, <1>4, <1>5, <1>6, <1>7 DEF PerformStop

(* The same under the other steps of a caller: only finish_stop reports    *)
(* Stopped, with a result that perform_stop earned.                        *)
LEMMA InvCallerStep ==
  ASSUME TypeOK, StopInv, NEW c \in Callers,
         Call(c) \/ SpuriousWakeup(c) \/ Begin(c) \/ WakeJoined(c) \/ FinishStop(c) \/ Return(c)
  PROVE  StopInv'
<1> USE DEF TypeOK, StopInv, LockHeld, ReapedLeader, Locked, osVars
<1>d. GroupDead' = GroupDead
  BY DEF GroupDead, LiveMembers, Call, SpuriousWakeup, Begin, WakeJoined, FinishStop, Return
<1>1. LockHeld' /\ ReapedLeader' /\ SignalsOwnGroup'
  BY DEF SignalsOwnGroup, Call, SpuriousWakeup, Begin, WakeJoined, FinishStop, Return
<1>2. SuccessIsDead'
  BY <1>d DEF SuccessIsDead, Call, SpuriousWakeup, Begin, WakeJoined, FinishStop, Return
<1>3. StoppedIsDead'
  <2>1. CASE FinishStop(c)
    BY <2>1, <1>d DEF FinishStop, StoppedIsDead, SuccessIsDead
  <2>2. CASE WakeJoined(c)
    BY <2>2, <1>d DEF WakeJoined, StoppedIsDead
  <2>3. CASE Begin(c)
    BY <2>3, <1>d DEF Begin, StoppedIsDead
  <2> QED BY <1>d, <2>1, <2>2, <2>3 DEF Call, SpuriousWakeup, Return, StoppedIsDead
<1> QED BY <1>1, <1>2, <1>3

(* The same under the monitor thread, a crash, the recovery and the        *)
(* operating system: the monitor reaps with the free lock only, and init   *)
(* reaps once the daemon is gone.                                          *)
LEMMA InvOther ==
  ASSUME TypeOK, StopInv, MonitorPoll \/ MonitorPublish \/ Crash \/ Recovery \/ Os
  PROVE  StopInv'
<1> USE DEF TypeOK, StopInv, LockHeld, ReapedLeader, Locked, osVars, callVars
<1>d. GroupDead => GroupDead'
  BY DeathIsFinal DEF Next
<1>1. CASE MonitorPoll \/ MonitorPublish \/ Crash
  <2>1. CASE MonitorPoll
    BY <1>d, <2>1 DEF MonitorPoll, SignalsOwnGroup, SuccessIsDead, StoppedIsDead
  <2>2. CASE MonitorPublish \/ Crash
    <3>1. UNCHANGED <<callVars, lock, leaderExit, leader, recovered>> /\ (daemon' = "up" => daemon = "up")
      BY <2>2 DEF MonitorPublish, Crash
    <3> QED BY <1>d, <3>1 DEF SignalsOwnGroup, SuccessIsDead, StoppedIsDead
  <2> QED BY <1>1, <2>1, <2>2
<1>2. CASE Recovery
  <2>1. UNCHANGED <<callVars, lock, leaderExit, leader>> /\ daemon # "up" /\ daemon' # "up"
    BY <1>2 DEF Recovery, RecoverObserve, RecoverOrphans, RecoverTerm, RecoverSeesDeath, RecoverValidate,
                RecoverKill, RecoverFails, Recover, RecoverySteps
  <2>2. recovered' => recovered \/ GroupDead
    BY <1>2 DEF Recovery, RecoverObserve, RecoverOrphans, RecoverTerm, RecoverSeesDeath, RecoverValidate,
                RecoverKill, RecoverFails, Recover, GroupDead
  <2> QED BY <2>1, <2>2, <1>d DEF SignalsOwnGroup, SuccessIsDead, StoppedIsDead
<1>3. CASE Os
  BY <1>3, <1>d DEF Os, LeaderDies, InitReaps, Fork, MemberDies, SignalsOwnGroup, SuccessIsDead, StoppedIsDead
<1> QED BY <1>1, <1>2, <1>3

(* The lock invariant holds in every reachable state.                      *)
LEMMA StopInvariant == Spec => []StopInv
<1>1. Init => StopInv
  BY DEF Init, StopInv, LockHeld, ReapedLeader, SuccessIsDead, StoppedIsDead, SignalsOwnGroup, Locked
<1>2. TypeOK /\ StopInv /\ [Next]_vars => StopInv'
  <2> SUFFICES ASSUME TypeOK, StopInv, [Next]_vars
               PROVE  StopInv'
    OBVIOUS
  <2>1. CASE UNCHANGED vars
    BY <2>1 DEF vars, StopInv, LockHeld, ReapedLeader, SuccessIsDead, StoppedIsDead, SignalsOwnGroup, GroupDead,
       LiveMembers
  <2> QED BY <2>1, InvPerformStop, InvCallerStep, InvOther DEF Next, CallerStep
<1> QED BY <1>1, <1>2, StopTypeCorrect, PTL DEF Spec

(* A stop that reports success, of the driver or of the recovery after a   *)
(* crash, left no live process behind, whatever forked or died meanwhile.  *)
THEOREM StoppedMeansDead == Spec => []StoppedIsDead
<1>1. StopInv => StoppedIsDead
  BY DEF StopInv
<1> QED BY <1>1, StopInvariant, PTL

(* Until the first signal is sent, nobody reaps the leader behind the      *)
(* thread that has checked its identity.                                   *)
THEOREM SignalIsOwn == Spec => []SignalsOwnGroup
<1>1. StopInv => SignalsOwnGroup
  BY DEF StopInv
<1> QED BY <1>1, StopInvariant, PTL

-----------------------------------------------------------------------------
(* The bookkeeping of begin_stop and finish_stop: at most one thread       *)
(* performs, in the attempt StopState names; a thread that joined waits    *)
(* for that attempt; and while waiters matter StopState counts them.       *)
PerformerOwns == \A c \in Callers : pc[c] \in Performing => /\ stop.kind = "Stopping"
                                                           /\ joined[c] = stop.generation
OnePerformer == \A c, e \in Callers : pc[c] \in Performing /\ pc[e] \in Performing => c = e
JoinedThis == \A c \in Callers : pc[c] = "joined" => /\ stop.kind # "Running"
                                                   /\ joined[c] = stop.generation
WaitersCounted == stop.kind \in {"Stopping", "Failed"} => stop.waiters = Cardinality(Registered)

AttemptInv == PerformerOwns /\ OnePerformer /\ JoinedThis /\ WaitersCounted

(* The registered threads are finitely many.                               *)
LEMMA RegisteredFinite == IsFiniteSet(Registered)
BY CallersAreFinite, FS_Subset DEF Registered

(* A step of perform_stop leaves the bookkeeping alone: the thread keeps   *)
(* performing and StopState is not touched.                                *)
LEMMA PerformStopKeeps ==
  ASSUME TypeOK, NEW c \in Callers, PerformStop(c)
  PROVE  /\ pc[c] \in Performing /\ pc'[c] \in Performing
         /\ \A e \in Callers : e # c => pc'[e] = pc[e]
         /\ UNCHANGED <<stop, joined>>
         /\ \A e \in Callers : e # c => ok'[e] = ok[e]
BY DEF TypeOK, Performing, Locked, PerformStop, TakeLock, CheckEmpty, Observe, Validated, SignalTerm, SignalKill,
   WaitReaps, WaitSeesDeath, KillTimeout, OsError, TermTimeout, Leave, Step, callVars

(* Begin keeps the bookkeeping: an attempt starts only when nobody is      *)
(* registered with an older one, and a thread that joins is counted.       *)
LEMMA AttemptBegin ==
  ASSUME TypeOK, AttemptInv, NEW c \in Callers, Begin(c)
  PROVE  AttemptInv'
<1> USE DEF TypeOK, AttemptInv, PerformerOwns, OnePerformer, JoinedThis, Performing, Locked, Begin
<1>1. CASE stop.kind = "Stopped"
  BY <1>1 DEF WaitersCounted
<1>2. CASE stop.kind = "Running" \/ (stop.kind = "Failed" /\ stop.waiters = 0)
  <2>1. Registered = {}
    BY <1>2, RegisteredFinite, FS_EmptySet DEF WaitersCounted, Registered
  <2>2. /\ stop' = [kind |-> "Stopping", generation |-> stop.generation + 1, waiters |-> 0]
        /\ pc' = [pc EXCEPT ![c] = "perform"]
        /\ joined' = [joined EXCEPT ![c] = stop.generation + 1]
    BY <1>2
  <2>3. Registered' = {}
    BY <2>1, <2>2 DEF Registered
  <2>4. WaitersCounted'
    BY <2>2, <2>3, FS_EmptySet DEF WaitersCounted
  <2>5. \A e \in Callers : pc'[e] \in Performing => e = c
    BY <1>2, <2>2
  <2>6. PerformerOwns' /\ OnePerformer'
    BY <2>2, <2>5
  <2>7. JoinedThis'
    BY <2>3 DEF Registered
  <2> QED BY <2>4, <2>6, <2>7
<1>3. CASE stop.kind = "Failed" /\ stop.waiters # 0
  BY <1>3 DEF WaitersCounted, Registered
<1>4. CASE stop.kind = "Stopping"
  <2>1. /\ stop' = [stop EXCEPT !.waiters = @ + 1]
        /\ pc' = [pc EXCEPT ![c] = "joined"]
        /\ joined' = [joined EXCEPT ![c] = stop.generation]
        /\ pc[c] = "begin"
    BY <1>4
  <2>2. Registered' = Registered \cup {c} /\ c \notin Registered
    BY <2>1 DEF Registered
  <2>3. Cardinality(Registered') = Cardinality(Registered) + 1
    BY <2>2, RegisteredFinite, FS_AddElement
  <2>4. WaitersCounted'
    BY <1>4, <2>1, <2>3 DEF WaitersCounted
  <2>5. PerformerOwns' /\ OnePerformer' /\ JoinedThis'
    BY <1>4, <2>1
  <2> QED BY <2>4, <2>5
<1> QED BY <1>1, <1>2, <1>3, <1>4

(* A thread that wakes returns with the result of the attempt it joined    *)
(* and counts itself off, or goes back to sleep: it never starts over.     *)
LEMMA WakeJoinedCases ==
  ASSUME TypeOK, AttemptInv, NEW c \in Callers, WakeJoined(c)
  PROVE  \/ stop.kind = "Stopping" /\ pc' = pc /\ stop' = stop /\ joined' = joined
            /\ ok' = [ok EXCEPT ![c] = FALSE]
         \/ /\ stop.kind = "Stopped" /\ stop' = stop /\ joined' = joined
            /\ pc' = [pc EXCEPT ![c] = "returned"] /\ ok' = [ok EXCEPT ![c] = TRUE]
         \/ /\ stop.kind = "Failed" /\ joined' = joined
            /\ stop' = [stop EXCEPT !.waiters = @ - 1] /\ stop.waiters = Cardinality(Registered)
            /\ pc' = [pc EXCEPT ![c] = "returned"] /\ ok' = [ok EXCEPT ![c] = FALSE]
<1>1. pc[c] = "joined" /\ OwnGeneration(c) /\ joined' = joined
  BY DEF WakeJoined, AttemptInv, JoinedThis, OwnGeneration
<1>2. CASE stop.kind = "Stopping"
  BY <1>1, <1>2 DEF WakeJoined, TypeOK
<1>3. CASE stop.kind = "Stopped"
  BY <1>1, <1>3 DEF WakeJoined, TypeOK
<1>4. CASE stop.kind = "Failed"
  <2>1. c \in Registered
    BY <1>1 DEF Registered
  <2>2. stop.waiters = Cardinality(Registered) /\ stop.waiters # 0
    BY <1>4, <2>1, RegisteredFinite, FS_EmptySet DEF AttemptInv, WaitersCounted
  <2> QED BY <1>1, <1>4, <2>2 DEF WakeJoined, TypeOK
<1> QED BY <1>1, <1>2, <1>3, <1>4 DEF TypeOK, Kinds, AttemptInv, JoinedThis

(* What the other actors do is outside the bookkeeping of the callers.     *)
LEMMA OtherKeepsCalls ==
  ASSUME MonitorPoll \/ MonitorPublish \/ Crash \/ Recovery \/ Os
  PROVE  UNCHANGED callVars
<1>1. CASE MonitorPoll \/ MonitorPublish \/ Crash
  BY <1>1 DEF MonitorPoll, MonitorPublish, Crash
<1>2. CASE Recovery
  BY <1>2 DEF Recovery, RecoverObserve, RecoverOrphans, RecoverTerm, RecoverSeesDeath, RecoverValidate,
              RecoverKill, RecoverFails, Recover
<1>3. CASE Os
  BY <1>3 DEF Os, LeaderDies, InitReaps, Fork, MemberDies
<1> QED BY <1>1, <1>2, <1>3

(* The bookkeeping holds in every reachable state.                         *)
LEMMA AttemptInvariant == Spec => []AttemptInv
<1>1. ASSUME Init
      PROVE  AttemptInv
  BY <1>1 DEF Init, AttemptInv, PerformerOwns, OnePerformer, JoinedThis, WaitersCounted, Performing, Locked
<1>2. TypeOK /\ AttemptInv /\ [Next]_vars => AttemptInv'
  <2> SUFFICES ASSUME TypeOK, AttemptInv, [Next]_vars
               PROVE  AttemptInv'
    OBVIOUS
  <2> USE DEF TypeOK, AttemptInv, PerformerOwns, OnePerformer, JoinedThis, Performing, Locked
  <2>0. ASSUME UNCHANGED <<stop, joined, pc>>
        PROVE  AttemptInv'
    BY <2>0 DEF WaitersCounted, Registered
  <2>1. ASSUME NEW c \in Callers, Call(c)
        PROVE  AttemptInv'
    <3>1. Registered' = Registered
      BY <2>1 DEF Call, Registered
    <3> QED BY <2>1, <3>1 DEF Call, WaitersCounted
  <2>2. ASSUME NEW c \in Callers, SpuriousWakeup(c)
        PROVE  AttemptInv'
    BY <2>0, <2>2 DEF SpuriousWakeup
  <2>3. ASSUME NEW c \in Callers, Begin(c)
        PROVE  AttemptInv'
    BY <2>3, AttemptBegin
  <2>4. ASSUME NEW c \in Callers, WakeJoined(c)
        PROVE  AttemptInv'
    <3>0. c \in Registered
      BY <2>4 DEF WakeJoined, Registered
    <3>1. CASE stop.kind = "Stopping"
      BY <2>0, <2>4, <3>1, WakeJoinedCases
    <3>2. CASE stop.kind = "Stopped"
      BY <2>4, <3>2, WakeJoinedCases DEF WaitersCounted
    <3>3. CASE stop.kind = "Failed"
      <4>1. /\ joined' = joined /\ stop' = [stop EXCEPT !.waiters = @ - 1]
            /\ stop.waiters = Cardinality(Registered) /\ pc' = [pc EXCEPT ![c] = "returned"]
        BY <2>4, <3>3, WakeJoinedCases
      <4>2. Registered' = Registered \ {c}
        BY <4>1 DEF Registered
      <4>3. Cardinality(Registered') = Cardinality(Registered) - 1
        BY <3>0, <4>2, RegisteredFinite, FS_RemoveElement
      <4>4. WaitersCounted'
        BY <4>1, <4>3 DEF WaitersCounted
      <4>5. PerformerOwns' /\ OnePerformer' /\ JoinedThis'
        BY <3>3, <4>1
      <4> QED BY <4>4, <4>5
    <3> QED BY <2>4, <3>1, <3>2, <3>3, WakeJoinedCases
  <2>5. ASSUME NEW c \in Callers, FinishStop(c)
        PROVE  AttemptInv'
    <3>1. /\ pc[c] \in Performing /\ stop.kind = "Stopping" /\ OwnGeneration(c)
          /\ pc' = [pc EXCEPT ![c] = "returned"] /\ joined' = joined
          /\ stop' = [kind |-> IF ok[c] THEN "Stopped" ELSE "Failed", generation |-> stop.generation,
                      waiters |-> IF ~ok[c] THEN stop.waiters ELSE 0]
      BY <2>5 DEF FinishStop, OwnGeneration
    <3>2. Registered' = Registered
      BY <2>5, <3>1 DEF Registered, FinishStop
    <3>3. WaitersCounted'
      BY <3>1, <3>2 DEF WaitersCounted
    <3>4. \A e \in Callers : pc'[e] \notin Performing
      BY <3>1
    <3>5. JoinedThis'
      BY <3>1
    <3> QED BY <3>3, <3>4, <3>5
  <2>6. ASSUME NEW c \in Callers, Return(c)
        PROVE  AttemptInv'
    <3>1. Registered' = Registered
      BY <2>6 DEF Return, Registered
    <3> QED BY <2>6, <3>1 DEF Return, WaitersCounted
  <2>7. ASSUME NEW c \in Callers, PerformStop(c)
        PROVE  AttemptInv'
    <3>1. /\ pc[c] \in Performing /\ pc'[c] \in Performing
          /\ \A e \in Callers : e # c => pc'[e] = pc[e]
          /\ UNCHANGED <<stop, joined>>
      BY <2>7, PerformStopKeeps
    <3>2. Registered' = Registered
      BY <3>1 DEF Registered
    <3> QED BY <3>1, <3>2 DEF WaitersCounted
  <2>8. CASE MonitorPoll \/ MonitorPublish \/ Crash \/ Recovery \/ Os \/ UNCHANGED vars
    BY <2>0, <2>8, OtherKeepsCalls DEF callVars, vars
  <2> QED BY <2>1, <2>2, <2>3, <2>4, <2>5, <2>6, <2>7, <2>8 DEF Next, CallerStep
<1> QED BY <1>1, <1>2, StopTypeCorrect, PTL DEF Spec

(* What a thread sees of its call, by where it is in stop_and_reap.        *)
LEMMA CallSeenIs ==
  TypeOK => \A c \in Callers :
    /\ pc[c] = "idle" => CallSeen(c) = Service!Idle
    /\ pc[c] = "begin" => CallSeen(c) = Service!Calling
    /\ pc[c] = "returned" => CallSeen(c) = Service!Answered(joined[c], ok[c])
    /\ pc[c] = "joined" /\ stop.kind = "Stopping" => CallSeen(c) = Service!Joined(joined[c])
    /\ pc[c] = "joined" /\ stop.kind # "Stopping" =>
         CallSeen(c) = Service!Answered(joined[c], stop.kind = "Stopped")
    /\ pc[c] \in Performing => CallSeen(c) = Service!Joined(joined[c])
<1> SUFFICES ASSUME TypeOK, NEW c \in Callers
             PROVE  /\ pc[c] = "idle" => CallSeen(c) = Service!Idle
                    /\ pc[c] = "begin" => CallSeen(c) = Service!Calling
                    /\ pc[c] = "returned" => CallSeen(c) = Service!Answered(joined[c], ok[c])
                    /\ pc[c] = "joined" /\ stop.kind = "Stopping" => CallSeen(c) = Service!Joined(joined[c])
                    /\ pc[c] = "joined" /\ stop.kind # "Stopping" =>
                         CallSeen(c) = Service!Answered(joined[c], stop.kind = "Stopped")
                    /\ pc[c] \in Performing => CallSeen(c) = Service!Joined(joined[c])
  OBVIOUS
<1> QED BY DEF CallSeen, Service!Idle, Service!Calling, Service!Answered, Service!Joined, Performing, Locked

-----------------------------------------------------------------------------
(* Steps that change no call as its thread sees it are stuttering steps.   *)
LEMMA SameCallsSeen ==
  ASSUME TypeOK, TypeOK', stop'.kind = stop.kind,
         \A c \in Callers : \/ pc'[c] = pc[c] /\ joined'[c] = joined[c] /\ (pc[c] = "returned" => ok'[c] = ok[c])
                            \/ pc[c] \in Performing /\ pc'[c] \in Performing /\ joined'[c] = joined[c]
  PROVE  \A c \in Callers : CallSeen(c)' = CallSeen(c)
<1>1. ASSUME NEW c \in Callers
      PROVE  CallSeen(c)' = CallSeen(c)
  <2>1. CASE pc[c] \in Performing
    <3>1. pc'[c] \in Performing /\ joined'[c] = joined[c]
      BY <2>1
    <3>2. CallSeen(c) = Service!Joined(joined[c])
      BY <2>1, CallSeenIs
    <3>3. CallSeen(c)' = Service!Joined(joined[c])'
      BY <3>1 DEF CallSeen, Service!Joined, Performing, Locked
    <3> QED BY <3>1, <3>2, <3>3 DEF Service!Joined
  <2>2. CASE pc[c] \notin Performing
    <3>1. pc'[c] = pc[c] /\ joined'[c] = joined[c] /\ (pc[c] = "returned" => ok'[c] = ok[c])
      BY <2>2
    <3> QED BY <3>1 DEF CallSeen
  <2> QED BY <2>1, <2>2
<1> QED BY <1>1

(* Another thread's step leaves what this thread sees of its call, unless  *)
(* it changes the state of an attempt this thread has joined.              *)
LEMMA OthersSeen ==
  ASSUME NEW e \in Callers, pc'[e] = pc[e], joined'[e] = joined[e], ok'[e] = ok[e],
         stop'.kind = stop.kind \/ pc[e] # "joined"
  PROVE  CallSeen(e)' = CallSeen(e)
BY DEF CallSeen

(* A step of a caller is a step of the abstract service, or stutters.      *)
LEMMA BeginImplements ==
  ASSUME TypeOK, TypeOK', AttemptInv, NEW c \in Callers, Begin(c)
  PROVE  Service!ServiceNext \/ UNCHANGED Service!serviceVars
<1> USE DEF TypeOK
<1>0. CallSeen(c) = Service!Calling
  BY CallSeenIs DEF Begin
<1>1. CASE stop.kind = "Stopped"
  <2>1. /\ stop' = stop /\ pc' = [pc EXCEPT ![c] = "returned"]
        /\ joined' = [joined EXCEPT ![c] = stop.generation] /\ ok' = [ok EXCEPT ![c] = TRUE]
    BY <1>1 DEF Begin
  <2>2. \A e \in Callers : e # c => CallSeen(e)' = CallSeen(e)
    BY <2>1, OthersSeen
  <2>3. CallSeen(c)' = Service!Answered(stop.generation, TRUE)
    BY <2>1 DEF CallSeen, Service!Answered
  <2>4. Service!Late(c)
    BY <1>0, <1>1, <2>1, <2>2, <2>3 DEF Service!Late
  <2> QED BY <2>4 DEF Service!ServiceNext
<1>2. CASE stop.kind = "Running" \/ (stop.kind = "Failed" /\ stop.waiters = 0)
  <2>1. /\ stop' = [kind |-> "Stopping", generation |-> stop.generation + 1, waiters |-> 0]
        /\ pc' = [pc EXCEPT ![c] = "perform"]
        /\ joined' = [joined EXCEPT ![c] = stop.generation + 1] /\ ok' = ok
    BY <1>2 DEF Begin
  <2>2. Registered = {}
    BY <1>2, RegisteredFinite, FS_EmptySet DEF WaitersCounted, Registered, AttemptInv, JoinedThis
  <2>3. \A e \in Callers : e # c => CallSeen(e)' = CallSeen(e)
    BY <2>1, <2>2, OthersSeen DEF Registered
  <2>4. CallSeen(c)' = Service!Joined(stop.generation + 1)
    BY <2>1 DEF CallSeen, Service!Joined
  <2>5. Service!Start(c)
    BY <1>0, <1>2, <2>1, <2>3, <2>4 DEF Service!Start
  <2> QED BY <2>5 DEF Service!ServiceNext
<1>3. CASE stop.kind = "Failed" /\ stop.waiters # 0
  <2>1. UNCHANGED <<stop, pc, joined, ok>>
    BY <1>3 DEF Begin
  <2>2. \A e \in Callers : CallSeen(e)' = CallSeen(e)
    BY <2>1, OthersSeen
  <2> QED BY <2>1, <2>2 DEF Service!serviceVars
<1>4. CASE stop.kind = "Stopping"
  <2>1. /\ stop' = [stop EXCEPT !.waiters = @ + 1] /\ pc' = [pc EXCEPT ![c] = "joined"]
        /\ joined' = [joined EXCEPT ![c] = stop.generation] /\ ok' = ok
    BY <1>4 DEF Begin
  <2>2. stop'.kind = stop.kind /\ stop'.generation = stop.generation
    BY <2>1
  <2>3. \A e \in Callers : e # c => CallSeen(e)' = CallSeen(e)
    BY <2>1, <2>2, OthersSeen
  <2>4. CallSeen(c)' = Service!Joined(stop.generation)
    BY <1>4, <2>1, <2>2 DEF CallSeen, Service!Joined
  <2>5. Service!Join(c)
    BY <1>0, <1>4, <2>2, <2>3, <2>4 DEF Service!Join
  <2> QED BY <2>5 DEF Service!ServiceNext
<1> QED BY <1>1, <1>2, <1>3, <1>4 DEF Begin

(* The end of an attempt answers, in one abstract step, its performer and  *)
(* everyone registered with it.                                            *)
LEMMA FinishImplements ==
  ASSUME TypeOK, TypeOK', AttemptInv, NEW c \in Callers, FinishStop(c)
  PROVE  Service!End(ok[c])
<1> USE DEF TypeOK
<1>1. /\ pc[c] \in Performing /\ stop.kind = "Stopping" /\ joined[c] = stop.generation
      /\ pc' = [pc EXCEPT ![c] = "returned"] /\ UNCHANGED <<joined, ok>>
      /\ stop'.kind = (IF ok[c] THEN "Stopped" ELSE "Failed") /\ stop'.generation = stop.generation
  BY DEF FinishStop, AttemptInv, PerformerOwns, Performing
<1>2. ASSUME NEW e \in Callers
      PROVE  CallSeen(e)' = IF CallSeen(e) = Service!Joined(stop.generation)
                            THEN Service!Answered(stop.generation, ok[c]) ELSE CallSeen(e)
  <2>1. CASE e = c
    BY <1>1, <2>1, CallSeenIs DEF CallSeen, Service!Answered
  <2>2. CASE pc[e] = "joined"
    <3>1. e # c /\ joined[e] = stop.generation
      BY <1>1, <2>2 DEF AttemptInv, JoinedThis, Performing, Locked
    <3>2. CallSeen(e) = Service!Joined(stop.generation)
      BY <1>1, <2>2, <3>1, CallSeenIs
    <3>3. CallSeen(e)' = Service!Answered(stop.generation, ok[c])
      BY <1>1, <2>2, <3>1 DEF CallSeen, Service!Answered
    <3> QED BY <3>2, <3>3
  <2>3. CASE e # c /\ pc[e] # "joined"
    <3>1. pc[e] \in {"idle", "begin", "returned"}
      BY <1>1, <2>3 DEF PCs, Waiting, AttemptInv, OnePerformer
    <3>2. CallSeen(e) # Service!Joined(stop.generation)
      BY <3>1, CallSeenIs DEF Service!Idle, Service!Calling, Service!Answered, Service!Joined
    <3> QED BY <1>1, <2>3, <3>2, OthersSeen
  <2> QED BY <2>1, <2>2, <2>3
<1> QED BY <1>1, <1>2 DEF Service!End

(* stop_and_reap implements the service StopService promises, for any      *)
(* number of threads: one attempt at a time, everyone who joined it        *)
(* answered with its result, and success final.                            *)
THEOREM StopImplementsService == Spec => StopServiceSpec
<1>1. ASSUME Init
      PROVE  Service!ServiceInit
  <2>1. \A c \in Callers : CallSeen(c) = Service!Idle
    BY <1>1 DEF Init, CallSeen, Service!Idle
  <2> QED BY <1>1, <2>1 DEF Init, Service!ServiceInit
<1>2. TypeOK /\ TypeOK' /\ AttemptInv /\ [Next]_vars => [Service!ServiceNext]_Service!serviceVars
  <2> SUFFICES ASSUME TypeOK, TypeOK', AttemptInv, [Next]_vars
               PROVE  Service!ServiceNext \/ UNCHANGED Service!serviceVars
    OBVIOUS
  <2> USE DEF TypeOK
  <2>0. ASSUME \A c \in Callers : CallSeen(c)' = CallSeen(c),
               stop'.kind = stop.kind, stop'.generation = stop.generation
        PROVE  UNCHANGED Service!serviceVars
    BY <2>0 DEF Service!serviceVars
  <2>1. ASSUME NEW c \in Callers, Call(c)
        PROVE  Service!ServiceNext
    <3>1. \A e \in Callers : e # c => CallSeen(e)' = CallSeen(e)
      BY <2>1, OthersSeen DEF Call
    <3>2. CallSeen(c) = Service!Idle /\ CallSeen(c)' = Service!Calling
      BY <2>1 DEF Call, CallSeen, Service!Idle, Service!Calling
    <3>3. Service!Call(c)
      BY <2>1, <3>1, <3>2 DEF Call, Service!Call
    <3> QED BY <3>3 DEF Service!ServiceNext
  <2>2. ASSUME NEW c \in Callers, WakeJoined(c)
        PROVE  UNCHANGED Service!serviceVars
    <3>1. stop'.kind = stop.kind /\ stop'.generation = stop.generation
      BY <2>2, WakeJoinedCases
    <3>2. \A e \in Callers : e # c => CallSeen(e)' = CallSeen(e)
      BY <2>2, <3>1, WakeJoinedCases, OthersSeen
    <3>3. CallSeen(c)' = CallSeen(c)
      <4>0. pc[c] = "joined" /\ joined'[c] = joined[c]
        BY <2>2 DEF WakeJoined
      <4>1. CASE stop.kind = "Stopping"
        <5>1. pc' = pc /\ stop' = stop
          BY <2>2, <4>1, WakeJoinedCases
        <5> QED BY <4>0, <4>1, <5>1 DEF CallSeen
      <4>2. CASE stop.kind # "Stopping"
        <5>1. pc'[c] = "returned" /\ ok'[c] = (stop.kind = "Stopped")
          BY <2>2, <4>2, WakeJoinedCases
        <5>2. CallSeen(c)' = Service!Answered(joined[c], stop.kind = "Stopped")
          BY <4>0, <5>1 DEF CallSeen, Service!Answered
        <5> QED BY <4>0, <4>2, <5>2, CallSeenIs
      <4> QED BY <4>1, <4>2
    <3> QED BY <2>0, <3>1, <3>2, <3>3
  <2>3. ASSUME NEW c \in Callers, Return(c)
        PROVE  Service!ServiceNext
    <3>1. \A e \in Callers : e # c => CallSeen(e)' = CallSeen(e)
      BY <2>3, OthersSeen DEF Return
    <3>2. CallSeen(c) = Service!Answered(joined[c], ok[c]) /\ CallSeen(c)' = Service!Idle
      BY <2>3, CallSeenIs DEF Return, CallSeen, Service!Idle
    <3>3. CallSeen(c).state = "answered"
      BY <3>2 DEF Service!Answered
    <3>4. Service!Return(c)
      BY <2>3, <3>1, <3>2, <3>3 DEF Return, Service!Return
    <3> QED BY <3>4 DEF Service!ServiceNext
  <2>4. ASSUME NEW c \in Callers, PerformStop(c)
        PROVE  UNCHANGED Service!serviceVars
    <3>1. /\ pc[c] \in Performing /\ pc'[c] \in Performing /\ UNCHANGED <<stop, joined>>
          /\ \A e \in Callers : e # c => pc'[e] = pc[e] /\ ok'[e] = ok[e]
      BY <2>4, PerformStopKeeps
    <3>2. \A e \in Callers : CallSeen(e)' = CallSeen(e)
      BY <3>1, SameCallsSeen
    <3> QED BY <2>0, <3>1, <3>2
  <2>5. ASSUME UNCHANGED <<stop, pc, joined, ok>>
        PROVE  UNCHANGED Service!serviceVars
    BY <2>0, <2>5, OthersSeen
  <2>6. ASSUME NEW c \in Callers, Call(c) \/ SpuriousWakeup(c) \/ CallerStep(c)
        PROVE  Service!ServiceNext \/ UNCHANGED Service!serviceVars
    <3>1. CASE FinishStop(c)
      <4>1. Service!End(ok[c]) /\ ok[c] \in BOOLEAN
        BY <3>1, FinishImplements
      <4> QED BY <4>1 DEF Service!ServiceNext
    <3>2. CASE SpuriousWakeup(c)
      BY <2>5, <3>2 DEF SpuriousWakeup
    <3> QED BY <2>1, <2>2, <2>3, <2>4, <2>6, <3>1, <3>2, BeginImplements DEF CallerStep
  <2>7. CASE MonitorPoll \/ MonitorPublish \/ Crash \/ Recovery \/ Os \/ UNCHANGED vars
    BY <2>5, <2>7, OtherKeepsCalls DEF callVars, vars
  <2> QED BY <2>6, <2>7 DEF Next
<1> QED BY <1>1, <1>2, StopTypeCorrect, AttemptInvariant, PTL DEF Spec, StopServiceSpec, Service!ServiceSpec

=============================================================================
