-------------------------- MODULE RpcServerProofs --------------------------
(***************************************************************************)
(* Machine-checked safety of the service for any number of daemons on one  *)
(* database, any number of clients and connections and any limit.          *)
(***************************************************************************)
EXTENDS RpcServer, FiniteSetTheorems, TLAPS

(* --------------------- the singleton and the socket -------------------- *)
Stages == {"off", "lock", "reconcile", "stat", "probe", "confirm", "unlink", "bind", "bound", "serving",
           "stopServer", "stopClaims", "stopTasks", "gone"}
LockedStages == Stages \ {"off", "lock", "gone"}

LifeTypes == /\ daemon \in [Daemons -> Stages]
             /\ signal \in [Daemons -> BOOLEAN] /\ claimer \in [Daemons -> BOOLEAN]
             /\ flock \in Daemons \cup {Nobody}
             /\ path \in Daemons \cup {NoFile, OldFile}
             /\ seen \in [Daemons -> Daemons \cup {NoFile, OldFile}]
             /\ accept \in [Daemons -> {"none", "accepting", "draining", "ended"}]

\* The lock is held from its acquisition to the end of the process.
LockIsHeld == \A d \in Daemons : daemon[d] \in LockedStages => flock = d

\* The accept thread and the claim thread live between their start and their join.
ThreadsInLife == \A d \in Daemons :
  /\ accept[d] # "none" => daemon[d] \in {"bound", "serving", "stopServer", "stopClaims", "stopTasks"}
  /\ daemon[d] \in {"stopClaims", "stopTasks"} => accept[d] = "ended"
  /\ claimer[d] => daemon[d] \in {"serving", "stopServer", "stopClaims"}

LifeInv == LifeTypes /\ LockIsHeld /\ ThreadsInLife /\ FileIsOurs

(* The end of a process keeps the invariant: it takes its lock and its     *)
(* accept thread along.                                                    *)
LEMMA LeaveKeepsLife ==
  ASSUME LifeInv, NEW d \in Daemons, Leave(d), path' = path,
         \/ claimer' = [claimer EXCEPT ![d] = FALSE]
         \/ claimer' = claimer /\ ~claimer[d]
  PROVE  LifeInv'
<1> USE DEF LifeInv, LifeTypes, Leave, Stages
<1>1. LifeTypes'
  OBVIOUS
<1>2. LockIsHeld'
  BY DaemonNames DEF LockIsHeld, LockedStages, Nobody
<1>3. ThreadsInLife' /\ FileIsOurs'
  BY DEF ThreadsInLife, FileIsOurs
<1> QED BY <1>1, <1>2, <1>3

(* The steps of a start and of a shutdown keep it: whoever changes the     *)
(* socket file before it binds holds the lock, so no other daemon accepts. *)
LEMMA DaemonKeepsLife ==
  ASSUME LifeInv, NEW d \in Daemons, Start(d) \/ Signal(d) \/ DaemonStep(d) \/ Crash(d)
  PROVE  LifeInv'
<1> USE DEF LifeInv, LifeTypes, Stages, LockedStages, Go, restOfLife, pathVars, service
<1>1. CASE Start(d) \/ Signal(d)
  <2>1. LifeTypes' /\ LockIsHeld' /\ ThreadsInLife'
    BY <1>1 DEF Start, Signal, Alive, LockIsHeld, ThreadsInLife
  <2>2. FileIsOurs'
    BY <1>1 DEF Start, Signal, FileIsOurs
  <2> QED BY <2>1, <2>2
<1>2. CASE StartEnds(d)
  <2>1. ~claimer[d]
    BY <1>2 DEF StartEnds, ThreadsInLife
  <2> QED BY <1>2, <2>1, LeaveKeepsLife DEF StartEnds
<1>3. CASE Acquire(d)
  <2>1. LifeTypes' /\ ThreadsInLife' /\ FileIsOurs'
    BY <1>3 DEF Acquire, ThreadsInLife, FileIsOurs
  <2>2. LockIsHeld'
    BY <1>3, DaemonNames DEF Acquire, LockIsHeld, Nobody
  <2> QED BY <2>1, <2>2
<1>4. CASE Reconcile(d) \/ StatSocket(d) \/ ProbeSocket(d) \/ ConfirmSocket(d)
  <2>1. LifeTypes' /\ ThreadsInLife' /\ FileIsOurs'
    BY <1>4 DEF Reconcile, StatSocket, ProbeSocket, ConfirmSocket, ThreadsInLife, FileIsOurs
  <2>2. LockIsHeld'
    BY <1>4 DEF Reconcile, StatSocket, ProbeSocket, ConfirmSocket, LockIsHeld
  <2> QED BY <2>1, <2>2
<1>5. CASE UnlinkSocket(d) \/ Bind(d)
  <2>1. \A e \in Daemons : accept[e] = "none"
    BY <1>5 DEF UnlinkSocket, Bind, LockIsHeld, ThreadsInLife
  <2>2. LifeTypes' /\ ThreadsInLife' /\ FileIsOurs'
    BY <1>5, <2>1 DEF UnlinkSocket, Bind, ThreadsInLife, FileIsOurs
  <2>3. LockIsHeld'
    BY <1>5 DEF UnlinkSocket, Bind, LockIsHeld
  <2> QED BY <2>2, <2>3
<1>6. CASE Serve(d)
  <2>1. LifeTypes' /\ ThreadsInLife' /\ FileIsOurs'
    BY <1>6 DEF Serve, ThreadsInLife, FileIsOurs
  <2>2. LockIsHeld'
    BY <1>6 DEF Serve, LockIsHeld
  <2> QED BY <2>1, <2>2
<1>7. CASE ShutdownBegins(d) \/ ShutdownServer(d) \/ ShutdownClaims(d)
  <2>1. LifeTypes' /\ ThreadsInLife' /\ FileIsOurs'
    BY <1>7 DEF ShutdownBegins, ShutdownServer, ShutdownClaims, Removed, ThreadsInLife, FileIsOurs
  <2>2. LockIsHeld'
    BY <1>7 DEF ShutdownBegins, ShutdownServer, ShutdownClaims, LockIsHeld
  <2> QED BY <2>1, <2>2
<1>8. CASE ShutdownTasks(d)
  <2>1. ~claimer[d]
    BY <1>8 DEF ShutdownTasks, ThreadsInLife
  <2> QED BY <1>8, <2>1, LeaveKeepsLife DEF ShutdownTasks
<1>9. CASE Crash(d)
  BY <1>9, LeaveKeepsLife DEF Crash
<1> QED BY <1>1, <1>2, <1>3, <1>4, <1>5, <1>6, <1>7, <1>8, <1>9 DEF DaemonStep, StartStep, ShutdownStep

(* The accept thread and the claim thread keep it.                         *)
LEMMA ThreadsKeepLife ==
  ASSUME LifeInv, NEW d \in Daemons, AcceptStops(d) \/ AcceptEnds(d) \/ ClaimEnds(d)
  PROVE  LifeInv'
<1> USE DEF LifeInv, LifeTypes, life, lifeVars, outside, pathVars, service
<1>1. CASE AcceptStops(d)
  BY <1>1 DEF AcceptStops, LockIsHeld, ThreadsInLife, FileIsOurs
<1>2. CASE AcceptEnds(d)
  <2>1. LifeTypes' /\ LockIsHeld' /\ FileIsOurs'
    BY <1>2 DEF AcceptEnds, Removed, LockIsHeld, FileIsOurs
  <2>2. ThreadsInLife'
    BY <1>2 DEF AcceptEnds, ThreadsInLife
  <2> QED BY <2>1, <2>2
<1>3. CASE ClaimEnds(d)
  BY <1>3 DEF ClaimEnds, LockIsHeld, ThreadsInLife, FileIsOurs
<1> QED BY <1>1, <1>2, <1>3

(* Workers, clients and the scheduler do not touch the life of a daemon.   *)
LEMMA OthersKeepLife ==
  ASSUME \/ \E d \in Daemons : (\E i \in Conns : AcceptConn(d, i)) \/ ClaimStarts(d) \/ Emits(d)
         \/ \E i \in Conns : WorkerStep(i)
         \/ \E c \in Clients : ClientStep(c)
  PROVE  UNCHANGED <<lifeVars, pathVars, accept>>
<1> USE DEF life, lifeVars, outside, pathVars, service, serverSide
<1>1. CASE \E d \in Daemons : (\E i \in Conns : AcceptConn(d, i)) \/ ClaimStarts(d) \/ Emits(d)
  BY <1>1 DEF AcceptConn, ClaimStarts, Emits
<1>2. CASE \E i \in Conns : WorkerStep(i)
  BY <1>2 DEF WorkerStep, ReadFails, Handle, PollRow, PollResult, PollAnswers, PollSleeps, CountOff, Worker
<1>3. CASE \E c \in Clients : ClientStep(c)
  BY <1>3 DEF ClientStep, Connect, Receive, Deadline
<1> QED BY <1>1, <1>2, <1>3

(* The life of every daemon satisfies the invariant.                       *)
LEMMA LifeInvariant == Spec => []LifeInv
<1>1. ASSUME Init
      PROVE  LifeInv
  <2>1. LifeTypes
    BY <1>1 DEF Init, LifeTypes, Stages
  <2> QED BY <1>1, <2>1 DEF Init, LifeInv, LockIsHeld, LockedStages, ThreadsInLife, FileIsOurs
<1>2. LifeInv /\ [Next]_vars => LifeInv'
  <2> SUFFICES ASSUME LifeInv, [Next]_vars
               PROVE  LifeInv'
    OBVIOUS
  <2>1. ASSUME UNCHANGED <<lifeVars, pathVars, accept>>
        PROVE  LifeInv'
    BY <2>1 DEF LifeInv, LifeTypes, LockIsHeld, ThreadsInLife, FileIsOurs, lifeVars, pathVars
  <2>2. CASE UNCHANGED vars
    BY <2>1, <2>2 DEF vars
  <2> QED BY <2>1, <2>2, DaemonKeepsLife, ThreadsKeepLife, OthersKeepLife DEF Next, AcceptThread
<1> QED BY <1>1, <1>2, PTL DEF Spec

(* The listener of a daemon that accepts is the one behind the path: no    *)
(* start of another daemon removes or replaces the file of a live one.     *)
THEOREM SocketIsOurs == Spec => []FileIsOurs
<1>1. LifeInv => FileIsOurs
  BY DEF LifeInv
<1> QED BY <1>1, LifeInvariant, PTL

(* ----------------------------- connections ----------------------------- *)
Phases == {"NONE", "QUEUED", "RUNNING", "TERMINAL"}
Views == [phase : Phases, result : BOOLEAN, revision : Nat]
Tasks == [phase : Phases, result : BOOLEAN, seq : Nat, activity : Nat]
ConnSteps == {"unused", "backlog", "closed"} \cup WorkerSteps
Connections == [at : ConnSteps, daemon : Daemons \cup {Nobody}, method : Methods, open : BOOLEAN,
                reply : {"none", "ok", "busy", "eof", "notFound"}, view : Views]
Calls == [at : {"idle", "waiting"}, todo : Seq(Methods), conn : Nat]

ConnTypes == /\ conns \in [Conns -> Connections]
             /\ client \in [Clients -> Calls]
             /\ task \in Tasks
             /\ active \in [Daemons -> Nat]

\* A client waits for an RPC it has left, on a connection it made.
ClientWaits == \A c \in Clients : client[c].at = "waiting" => client[c].todo # <<>> /\ client[c].conn \in Conns

\* A worker, and a connection to be accepted, belong to a daemon that listens.
ServedByListener == \A i \in Conns : conns[i].at \in WorkerSteps \cup {"backlog"} =>
  conns[i].daemon \in Daemons /\ accept[conns[i].daemon] \in {"accepting", "draining"}

\* The counter of a daemon is the number of its workers, within the limit.
Counted == \A d \in Daemons : active[d] = Cardinality(Workers(d)) /\ active[d] <= MaxConnections

ConnInv == ConnTypes /\ ClientWaits /\ ServedByListener /\ Counted

(* The workers of a daemon are finitely many.                              *)
LEMMA WorkersFinite ==
  ASSUME NEW d
  PROVE  IsFiniteSet(Workers(d))
<1>1. IsFiniteSet(Conns)
  BY ConnsAreFinite, FS_Interval DEF Conns
<1> QED BY <1>1, FS_Subset DEF Workers

(* What Settled returns: the connection itself, or a closed one.           *)
LEMMA SettledIs ==
  ASSUME NEW conn \in Connections
  PROVE  /\ Settled(conn) \in Connections
         /\ Settled(conn).at = conn.at
         /\ conn.at # "closed" => Settled(conn) = conn
         /\ Settled(conn).reply \in {conn.reply, "none"}
         /\ Settled(conn).view.phase = "TERMINAL" => Settled(conn) = conn
<1>1. [NoConn EXCEPT !.at = "closed"] \in Connections
  BY DEF NoConn, Connections, NoView, Views, Phases, ConnSteps, Methods, Nobody
<1>2. /\ [NoConn EXCEPT !.at = "closed"].at = "closed" /\ [NoConn EXCEPT !.at = "closed"].reply = "none"
      /\ [NoConn EXCEPT !.at = "closed"].view.phase = "NONE"
  BY DEF NoConn, NoView
<1> QED BY <1>1, <1>2 DEF Settled

(* Replacing a connection that is no worker by one that is none keeps the  *)
(* workers; so does replacing a worker by a worker of the same daemon.     *)
LEMMA SameWorkers ==
  ASSUME ConnTypes, NEW i \in Conns, NEW new \in Connections, conns' = [conns EXCEPT ![i] = new],
         \/ conns[i].at \notin WorkerSteps /\ new.at \notin WorkerSteps
         \/ conns[i].at \in WorkerSteps /\ new.at \in WorkerSteps /\ new.daemon = conns[i].daemon
  PROVE  /\ conns' \in [Conns -> Connections]
         /\ \A d \in Daemons : Workers(d)' = Workers(d)
BY DEF ConnTypes, Workers

(* A step of a worker that stays one keeps the invariant.                  *)
LEMMA WorkerStays ==
  ASSUME ConnInv, NEW i \in Conns, NEW from \in WorkerSteps, NEW new \in Connections,
         new.at \in WorkerSteps, new.daemon = conns[i].daemon, Worker(i, from, new),
         UNCHANGED active, task' \in Tasks
  PROVE  ConnInv'
<1>1. conns' = [conns EXCEPT ![i] = new] /\ conns[i].at \in WorkerSteps /\ UNCHANGED <<accept, client>>
  BY SettledIs DEF Worker, WorkerSteps
<1>2. conns' \in [Conns -> Connections] /\ \A d \in Daemons : Workers(d)' = Workers(d)
  BY <1>1, SameWorkers DEF ConnInv
<1>3. ServedByListener'
  BY <1>1 DEF ConnInv, ConnTypes, ServedByListener
<1> QED BY <1>1, <1>2, <1>3 DEF ConnInv, ConnTypes, ClientWaits, Counted

(* The counter follows a worker that begins and one that counts itself off.*)
LEMMA WorkerBegins ==
  ASSUME ConnInv, NEW d \in Daemons, NEW i \in Conns, conns[i].at \notin WorkerSteps, conns[i].daemon = d,
         conns' = [conns EXCEPT ![i].at = "reading"]
  PROVE  /\ Cardinality(Workers(d)') = Cardinality(Workers(d)) + 1
         /\ \A e \in Daemons : e # d => Workers(e)' = Workers(e)
<1>1. conns'[i].at = "reading" /\ conns'[i].daemon = d /\ \A j \in Conns : j # i => conns'[j] = conns[j]
  BY DEF ConnInv, ConnTypes, Connections
<1>2. Workers(d)' = Workers(d) \cup {i} /\ i \notin Workers(d)
  BY <1>1 DEF Workers, WorkerSteps
<1>3. \A e \in Daemons : e # d => Workers(e)' = Workers(e)
  BY <1>1 DEF Workers
<1> QED BY <1>2, <1>3, WorkersFinite, FS_AddElement

(* A connection that is closed leaves the set of workers of its daemon, and no other set. *)
LEMMA WorkerEnds ==
  ASSUME ConnInv, NEW i \in Conns, conns[i].at \in WorkerSteps, NEW new \in Connections, new.at = "closed",
         conns' = [conns EXCEPT ![i] = new], NEW d \in Daemons
  PROVE  IF d = conns[i].daemon THEN Cardinality(Workers(d)') = Cardinality(Workers(d)) - 1
                                ELSE Workers(d)' = Workers(d)
<1>1. conns'[i].at = "closed" /\ \A j \in Conns : j # i => conns'[j] = conns[j]
  BY DEF ConnInv, ConnTypes
<1>2. CASE d = conns[i].daemon
  <2>1. Workers(d)' = Workers(d) \ {i} /\ i \in Workers(d)
    BY <1>1, <1>2 DEF Workers, WorkerSteps
  <2> QED BY <1>2, <2>1, WorkersFinite, FS_RemoveElement
<1>3. CASE d # conns[i].daemon
  BY <1>1, <1>3 DEF Workers, WorkerSteps
<1> QED BY <1>2, <1>3

(* The accept thread: the counter is read and raised by it alone, so it    *)
(* never passes the limit.                                                 *)
LEMMA AcceptKeepsConns ==
  ASSUME ConnInv, NEW d \in Daemons, NEW i \in Conns, AcceptConn(d, i)
  PROVE  ConnInv'
<1> USE DEF ConnInv
<1>0. /\ conns[i] \in Connections /\ conns[i].at = "backlog" /\ conns[i].daemon = d
      /\ UNCHANGED <<accept, client, task>>
  BY DEF AcceptConn, ConnTypes, life
<1>1. CASE active[d] >= MaxConnections
  <2> DEFINE new == Settled([conns[i] EXCEPT !.at = "closed", !.reply = "busy"])
  <2>1. [conns[i] EXCEPT !.at = "closed", !.reply = "busy"] \in Connections
    BY <1>0 DEF Connections, ConnSteps
  <2>2. new \in Connections /\ new.at = "closed"
    BY <2>1, SettledIs DEF Connections
  <2>3. conns' = [conns EXCEPT ![i] = new] /\ UNCHANGED active
    BY <1>1 DEF AcceptConn
  <2> HIDE DEF new
  <2>4. conns' \in [Conns -> Connections] /\ \A e \in Daemons : Workers(e)' = Workers(e)
    BY <1>0, <2>2, <2>3, SameWorkers DEF WorkerSteps
  <2>5. ServedByListener'
    BY <1>0, <2>2, <2>3 DEF ServedByListener, ConnTypes, WorkerSteps
  <2> QED BY <1>0, <2>3, <2>4, <2>5 DEF ConnTypes, ClientWaits, Counted
<1>2. CASE ~(active[d] >= MaxConnections)
  <2>1. conns' = [conns EXCEPT ![i].at = "reading"] /\ active' = [active EXCEPT ![d] = @ + 1]
    BY <1>2 DEF AcceptConn
  <2>2. conns' \in [Conns -> Connections] /\ active' \in [Daemons -> Nat]
    BY <1>0, <2>1 DEF ConnTypes, Connections, ConnSteps, WorkerSteps
  <2>3. /\ Cardinality(Workers(d)') = Cardinality(Workers(d)) + 1
        /\ \A e \in Daemons : e # d => Workers(e)' = Workers(e)
    BY <1>0, <2>1, WorkerBegins DEF WorkerSteps
  <2>4. Counted'
    BY <1>2, <2>1, <2>3, LimitIsPositive DEF Counted, ConnTypes
  <2>5. ServedByListener'
    BY <1>0, <2>1 DEF ServedByListener, ConnTypes, Connections
  <2> QED BY <1>0, <2>2, <2>4, <2>5 DEF ConnTypes, ClientWaits
<1> QED BY <1>1, <1>2

(* The worker of a connection.                                             *)
LEMMA WorkersKeepConns ==
  ASSUME ConnInv, NEW i \in Conns, WorkerStep(i)
  PROVE  ConnInv'
<1> USE DEF WorkerSteps
<1>0. conns[i] \in Connections /\ task \in Tasks
  BY DEF ConnInv, ConnTypes
<1>1. CASE ReadFails(i)
  <2>1. [conns[i] EXCEPT !.at = "closing"] \in Connections
    BY <1>0 DEF Connections, ConnSteps
  <2> QED BY <1>0, <1>1, <2>1, WorkerStays DEF ReadFails, Connections
<1>2. CASE Handle(i)
  <2>1. CASE conns[i].method = "submit"
    <3> DEFINE new == [conns[i] EXCEPT !.at = "closing", !.reply = "ok"]
    <3>1. new \in Connections /\ new.at = "closing" /\ new.daemon = conns[i].daemon
      BY <1>0 DEF Connections, ConnSteps
    <3>2. task' \in Tasks /\ Worker(i, "reading", new) /\ UNCHANGED active
      BY <1>0, <1>2, <2>1 DEF Handle, Tasks, Phases
    <3> QED BY <3>1, <3>2, WorkerStays
  <2>2. CASE conns[i].method = "status"
    <3> DEFINE new == [conns[i] EXCEPT !.at = "closing", !.reply = "ok"]
    <3>1. new \in Connections /\ new.at = "closing" /\ new.daemon = conns[i].daemon
      BY <1>0 DEF Connections, ConnSteps
    <3>2. UNCHANGED task /\ Worker(i, "reading", new) /\ UNCHANGED active
      BY <1>2, <2>2 DEF Handle
    <3> QED BY <1>0, <3>1, <3>2, WorkerStays
  <2>3. CASE conns[i].method = "poll"
    <3> DEFINE new == IF task.phase = "NONE" THEN [conns[i] EXCEPT !.at = "closing", !.reply = "notFound"]
                                             ELSE [conns[i] EXCEPT !.at = "row"]
    <3>1. new \in Connections /\ new.at \in WorkerSteps /\ new.daemon = conns[i].daemon
      BY <1>0 DEF Connections, ConnSteps
    <3>2. UNCHANGED task /\ Worker(i, "reading", new) /\ UNCHANGED active
      BY <1>2, <2>3 DEF Handle
    <3> QED BY <1>0, <3>1, <3>2, WorkerStays
  <2> QED BY <1>2, <2>1, <2>2, <2>3 DEF Handle
<1>3. CASE PollRow(i)
  <2> DEFINE v == [NoView EXCEPT !.phase = task.phase, !.revision = task.seq]
             new == [conns[i] EXCEPT !.at = "result", !.view = v]
  <2>1. v \in Views
    BY <1>0 DEF NoView, Views, Tasks
  <2>2. new \in Connections /\ new.at \in WorkerSteps /\ new.daemon = conns[i].daemon
    BY <1>0, <2>1 DEF Connections, ConnSteps
  <2>3. Worker(i, "row", new) /\ UNCHANGED <<active, task>>
    BY <1>3 DEF PollRow
  <2> QED BY <1>0, <2>2, <2>3, WorkerStays
<1>4. CASE PollResult(i)
  <2> DEFINE new == [conns[i] EXCEPT !.at = "activity", !.view.result = task.result]
  <2>1. new \in Connections /\ new.at \in WorkerSteps /\ new.daemon = conns[i].daemon
    BY <1>0 DEF Connections, ConnSteps, Views, Tasks
  <2>2. Worker(i, "result", new) /\ UNCHANGED <<active, task>>
    BY <1>4 DEF PollResult
  <2> QED BY <1>0, <2>1, <2>2, WorkerStays
<1>5. CASE PollAnswers(i)
  <2> DEFINE new == [conns[i] EXCEPT !.at = "closing", !.reply = "ok", !.view.revision = Revision(i)]
  <2>1. Revision(i) \in Nat
    BY <1>0 DEF Revision, Connections, Views, Tasks
  <2>2. new \in Connections /\ new.at \in WorkerSteps /\ new.daemon = conns[i].daemon
    BY <1>0, <2>1 DEF Connections, ConnSteps, Views
  <2>3. Worker(i, "activity", new) /\ UNCHANGED <<active, task>>
    BY <1>5 DEF PollAnswers
  <2> QED BY <1>0, <2>2, <2>3, WorkerStays
<1>6. CASE PollSleeps(i)
  <2> DEFINE new == [conns[i] EXCEPT !.at = "row", !.view = NoView]
  <2>1. new \in Connections /\ new.at \in WorkerSteps /\ new.daemon = conns[i].daemon
    BY <1>0 DEF Connections, ConnSteps, NoView, Views, Phases
  <2>2. Worker(i, "activity", new) /\ UNCHANGED <<active, task>>
    BY <1>6 DEF PollSleeps
  <2> QED BY <1>0, <2>1, <2>2, WorkerStays
<1>7. CASE CountOff(i)
  <2> DEFINE gone == [conns[i] EXCEPT !.at = "closed", !.reply = IF @ = "none" THEN "eof" ELSE @]
  <2> DEFINE new == Settled(gone)
  <2>0. gone \in Connections /\ gone.at = "closed"
    BY <1>0 DEF Connections, ConnSteps
  <2>1. new \in Connections /\ new.at = "closed"
    BY <2>0, SettledIs
  <2>2. /\ conns[i].at \in WorkerSteps /\ conns' = [conns EXCEPT ![i] = new] /\ UNCHANGED <<accept, client, task>>
        /\ active' = [active EXCEPT ![conns[i].daemon] = @ - 1]
    BY <1>7 DEF CountOff, Worker
  <2> HIDE DEF new
  <2>3. /\ conns' \in [Conns -> Connections]
        /\ ServedByListener'
    BY <2>1, <2>2 DEF ConnInv, ConnTypes, ServedByListener
  <2>4. \A d \in Daemons : IF d = conns[i].daemon THEN Cardinality(Workers(d)') = Cardinality(Workers(d)) - 1
                                                  ELSE Workers(d)' = Workers(d)
    BY <2>1, <2>2, WorkerEnds
  <2>5. ASSUME NEW d \in Daemons
        PROVE  active'[d] \in Nat /\ active'[d] = Cardinality(Workers(d)') /\ active'[d] <= MaxConnections
    <3>0. active[d] \in Nat /\ active[d] = Cardinality(Workers(d)) /\ active[d] <= MaxConnections
      BY DEF ConnInv, ConnTypes, Counted
    <3>1. CASE d = conns[i].daemon
      <4>1. i \in Workers(d)
        BY <2>2, <3>1 DEF Workers
      <4>2. Cardinality(Workers(d)) # 0
        BY <4>1, WorkersFinite, FS_EmptySet
      <4>3. active'[d] = active[d] - 1
        BY <2>2, <3>1 DEF ConnInv, ConnTypes
      <4> QED BY <2>4, <3>0, <3>1, <4>2, <4>3, LimitIsPositive
    <3>2. CASE d # conns[i].daemon
      BY <2>2, <2>4, <3>0, <3>2 DEF ConnInv, ConnTypes
    <3> QED BY <3>1, <3>2
  <2>6. active' \in [Daemons -> Nat]
    BY <2>2, <2>5 DEF ConnInv, ConnTypes
  <2> QED BY <2>2, <2>3, <2>5, <2>6 DEF ConnInv, ConnTypes, ClientWaits, Counted
<1> QED BY <1>1, <1>2, <1>3, <1>4, <1>5, <1>6, <1>7 DEF WorkerStep

(* A client never touches a worker: it makes a connection, or hangs up.    *)
LEMMA ClientsKeepConns ==
  ASSUME LifeInv, ConnInv, NEW c \in Clients, ClientStep(c)
  PROVE  ConnInv'
<1> USE DEF ConnInv, serverSide
<1>0. client[c] \in Calls /\ Plan[c] \in Seq(Methods)
  BY PlanIsRpcs DEF ConnTypes, Methods
<1>1. CASE Connect(c)
  <2>1. PICK i \in Conns :
          /\ conns[i].at = "unused"
          /\ conns' = [conns EXCEPT ![i] = [@ EXCEPT !.at = "backlog", !.daemon = path, !.open = TRUE,
                                                     !.method = Head(client[c].todo)]]
          /\ client' = [client EXCEPT ![c].at = "waiting", ![c].conn = i]
    BY <1>1 DEF Connect
  <2> DEFINE new == [conns[i] EXCEPT !.at = "backlog", !.daemon = path, !.open = TRUE,
                                     !.method = Head(client[c].todo)]
  <2>2. path \in Daemons /\ accept[path] \in {"accepting", "draining"} /\ UNCHANGED <<accept, active, task>>
    BY <1>1 DEF Connect, Listening
  <2>3. client[c].todo # <<>> /\ Head(client[c].todo) \in Methods
    BY <1>0, <1>1 DEF Connect, Calls
  <2>4. new \in Connections /\ new.at = "backlog" /\ new.daemon = path
    BY <2>2, <2>3 DEF ConnTypes, Connections, ConnSteps
  <2>5. conns' = [conns EXCEPT ![i] = new]
    BY <2>1
  <2> HIDE DEF new
  <2>6. conns' \in [Conns -> Connections] /\ \A d \in Daemons : Workers(d)' = Workers(d)
    BY <2>1, <2>4, <2>5, SameWorkers DEF WorkerSteps
  <2>7. ServedByListener'
    BY <2>2, <2>4, <2>5 DEF ServedByListener, ConnTypes
  <2>8. client' \in [Clients -> Calls] /\ ClientWaits'
    <3>0. i \in Nat
      BY ConnsAreFinite DEF Conns
    <3>1. [client[c] EXCEPT !.at = "waiting", !.conn = i] \in Calls
      BY <1>0, <3>0 DEF Calls
    <3>2. client' = [client EXCEPT ![c] = [client[c] EXCEPT !.at = "waiting", !.conn = i]]
      BY <2>1 DEF ConnTypes, Calls
    <3> QED BY <2>3, <3>1, <3>2 DEF ConnTypes, ClientWaits, Calls
  <2> QED BY <2>2, <2>6, <2>7, <2>8 DEF ConnTypes, Counted
<1>2. ASSUME NEW i \in Conns, NEW call \in Calls, call.at = "idle", Hang(i),
             client' = [client EXCEPT ![c] = call], UNCHANGED serverSide
      PROVE  ConnInv'
  <2> DEFINE hung == [conns[i] EXCEPT !.open = FALSE]
  <2> DEFINE new == Settled(hung)
  <2>1. hung \in Connections /\ hung.at = conns[i].at /\ hung.daemon = conns[i].daemon
    BY DEF ConnTypes, Connections
  <2>2. /\ new \in Connections /\ new.at = conns[i].at
        /\ conns[i].at # "closed" => new.daemon = conns[i].daemon
    BY <2>1, SettledIs
  <2>3. conns' = [conns EXCEPT ![i] = new]
    BY <1>2 DEF Hang
  <2> HIDE DEF new
  <2>4. conns' \in [Conns -> Connections] /\ \A d \in Daemons : Workers(d)' = Workers(d)
    BY <2>2, <2>3, SameWorkers DEF WorkerSteps
  <2>5. ServedByListener'
    BY <1>2, <2>2, <2>3 DEF ServedByListener, ConnTypes, WorkerSteps
  <2>6. client' \in [Clients -> Calls] /\ ClientWaits'
    BY <1>2 DEF ConnTypes, ClientWaits
  <2> QED BY <1>2, <2>4, <2>5, <2>6 DEF ConnTypes, Counted
<1>3. GaveUp(c) \in Calls /\ GaveUp(c).at = "idle"
  BY <1>0 DEF GaveUp, Calls
<1>4. CASE Receive(c)
  <2>1. client[c].conn \in Conns /\ client[c].todo # <<>>
    BY <1>4 DEF Receive, ClientWaits
  <2>2. Tail(client[c].todo) \in Seq(Methods)
    BY <1>0, <2>1 DEF Calls
  <2> DEFINE done == [client[c] EXCEPT !.at = "idle", !.conn = 0, !.todo = Tail(@)]
  <2>3. done \in Calls /\ done.at = "idle"
    BY <1>0, <2>2 DEF Calls
  <2> HIDE DEF done
  <2>4. \/ client' = [client EXCEPT ![c] = done]
        \/ client' = [client EXCEPT ![c] = GaveUp(c)]
    BY <1>4 DEF Receive, done
  <2>5. Hang(client[c].conn) /\ UNCHANGED serverSide
    BY <1>4 DEF Receive
  <2> QED BY <1>2, <1>3, <2>1, <2>3, <2>4, <2>5
<1>5. CASE Deadline(c)
  <2>1. client[c].conn \in Conns
    BY <1>5 DEF Deadline, ClientWaits
  <2> QED BY <1>2, <1>3, <1>5, <2>1 DEF Deadline
<1> QED BY <1>1, <1>4, <1>5 DEF ClientStep

(* Closing connections that have no worker, or all those of a daemon.      *)
LEMMA ClosedIsConnection ==
  ASSUME NEW conn \in Connections
  PROVE  /\ Settled([conn EXCEPT !.at = "closed", !.reply = "eof"]) \in Connections
         /\ Settled([conn EXCEPT !.at = "closed", !.reply = "eof"]).at = "closed"
         /\ Settled([conn EXCEPT !.at = "closed", !.reply = "eof", !.view = NoView]) \in Connections
         /\ Settled([conn EXCEPT !.at = "closed", !.reply = "eof", !.view = NoView]).at = "closed"
<1>1. /\ [conn EXCEPT !.at = "closed", !.reply = "eof"] \in Connections
      /\ [conn EXCEPT !.at = "closed", !.reply = "eof"].at = "closed"
  BY DEF Connections, ConnSteps
<1>2. NoView \in Views
  BY DEF NoView, Views, Phases
<1>3. /\ [conn EXCEPT !.at = "closed", !.reply = "eof", !.view = NoView] \in Connections
      /\ [conn EXCEPT !.at = "closed", !.reply = "eof", !.view = NoView].at = "closed"
  BY <1>2 DEF Connections, ConnSteps
<1> QED BY <1>1, <1>3, SettledIs

(* The task as the steps of the scheduler leave it.                        *)
LEMMA TaskTypes ==
  ASSUME task \in Tasks, NEW d \in Daemons,
         Reconcile(d) \/ ShutdownTasks(d) \/ ClaimStarts(d) \/ Emits(d)
  PROVE  task' \in Tasks
<1>0. Ended(task) \in Tasks
  BY DEF Ended, Tasks, Phases
<1>1. CASE Reconcile(d)
  BY <1>0, <1>1 DEF Reconcile, Tasks
<1>2. CASE ShutdownTasks(d)
  BY <1>0, <1>2 DEF ShutdownTasks
<1>3. CASE ClaimStarts(d)
  BY <1>3 DEF ClaimStarts, Tasks, Phases
<1>4. CASE Emits(d)
  BY <1>0, <1>4 DEF Emits, Tasks
<1> QED BY <1>1, <1>2, <1>3, <1>4

(* The steps of the daemons: a process ends only with its workers joined,  *)
(* and a crash ends the workers with it.                                   *)
LEMMA DaemonsKeepConns ==
  ASSUME LifeInv, ConnInv, NEW d \in Daemons,
         \/ Start(d) \/ Signal(d) \/ DaemonStep(d) \/ Crash(d)
         \/ AcceptStops(d) \/ AcceptEnds(d) \/ ClaimStarts(d) \/ ClaimEnds(d) \/ Emits(d)
  PROVE  ConnInv'
<1> USE DEF ConnInv, pathVars, service, life, outside
<1>1. ASSUME UNCHANGED <<conns, active, client>>, task' \in Tasks,
             \A i \in Conns : conns[i].at \in WorkerSteps \cup {"backlog"} =>
                accept'[conns[i].daemon] \in {"accepting", "draining"}
      PROVE  ConnInv'
  BY <1>1 DEF ConnTypes, ClientWaits, ServedByListener, Counted, Workers
<1>2. ASSUME Leave(d), accept[d] \notin {"accepting", "draining"}
      PROVE  \A i \in Conns : conns[i].at \in WorkerSteps \cup {"backlog"} =>
                accept'[conns[i].daemon] \in {"accepting", "draining"}
  BY <1>2 DEF Leave, LifeInv, LifeTypes, ServedByListener
<1>3. CASE StartEnds(d)
  <2>1. accept[d] \notin {"accepting", "draining"}
    BY <1>3 DEF StartEnds, LifeInv, ThreadsInLife
  <2>2. UNCHANGED <<conns, active, client, task>>
    BY <1>3 DEF StartEnds
  <2> QED BY <1>1, <1>2, <1>3, <2>1, <2>2 DEF StartEnds, ConnTypes
<1>4. CASE ShutdownTasks(d)
  <2>1. accept[d] \notin {"accepting", "draining"}
    BY <1>4 DEF ShutdownTasks, LifeInv, ThreadsInLife
  <2>2. task' \in Tasks /\ UNCHANGED <<conns, active, client>>
    BY <1>4, TaskTypes DEF ShutdownTasks, ConnTypes
  <2> QED BY <1>1, <1>2, <1>4, <2>1, <2>2 DEF ShutdownTasks
<1>5. CASE Bind(d) \/ AcceptStops(d)
  <2>1. UNCHANGED <<conns, active, client, task>>
    BY <1>5 DEF Bind, AcceptStops
  <2>2. accept' \in {[accept EXCEPT ![d] = "accepting"], [accept EXCEPT ![d] = "draining"]}
    BY <1>5 DEF Bind, AcceptStops
  <2> QED BY <1>1, <2>1, <2>2 DEF ConnTypes, LifeInv, LifeTypes, ServedByListener
<1>6. CASE \/ Start(d) \/ Signal(d) \/ Acquire(d) \/ StatSocket(d) \/ ProbeSocket(d)
           \/ ConfirmSocket(d) \/ UnlinkSocket(d) \/ Serve(d) \/ ShutdownBegins(d) \/ ShutdownServer(d)
           \/ ShutdownClaims(d) \/ ClaimEnds(d)
  <2>1. UNCHANGED <<conns, active, client, accept, task>>
    BY <1>6 DEF Start, Signal, Acquire, StatSocket, ProbeSocket, ConfirmSocket, UnlinkSocket, Serve,
                ShutdownBegins, ShutdownServer, ShutdownClaims, ClaimEnds
  <2> QED BY <1>1, <2>1 DEF ConnTypes, ServedByListener
<1>7. CASE Reconcile(d) \/ ClaimStarts(d) \/ Emits(d)
  <2>1. UNCHANGED <<conns, active, client, accept>>
    BY <1>7 DEF Reconcile, ClaimStarts, Emits
  <2>2. task' \in Tasks
    BY <1>7, TaskTypes DEF ConnTypes
  <2> QED BY <1>1, <2>1, <2>2 DEF ServedByListener
<1>8. CASE AcceptEnds(d)
  <2>1. /\ Workers(d) = {} /\ accept' = [accept EXCEPT ![d] = "ended"] /\ UNCHANGED <<active, client, task>>
        /\ conns' = [i \in Conns |-> IF conns[i].at = "backlog" /\ conns[i].daemon = d
                                     THEN Settled([conns[i] EXCEPT !.at = "closed", !.reply = "eof"])
                                     ELSE conns[i]]
    BY <1>8 DEF AcceptEnds
  <2>2. ASSUME NEW i \in Conns
        PROVE  /\ conns'[i] \in Connections
               /\ \/ conns'[i] = conns[i] /\ ~(conns[i].at = "backlog" /\ conns[i].daemon = d)
                  \/ conns'[i].at = "closed" /\ conns[i].at = "backlog"
    BY <2>1, ClosedIsConnection DEF ConnTypes
  <2>3. conns' \in [Conns -> Connections]
    BY <2>1, <2>2
  <2>4. \A e \in Daemons : Workers(e)' = Workers(e)
    BY <2>2 DEF Workers, WorkerSteps
  <2>5. ServedByListener'
    BY <2>1, <2>2 DEF ServedByListener, LifeInv, LifeTypes, Workers, WorkerSteps
  <2> QED BY <2>1, <2>3, <2>4, <2>5 DEF ConnTypes, ClientWaits, Counted
<1>9. CASE Crash(d)
  <2>1. /\ accept' = [accept EXCEPT ![d] = "none"] /\ UNCHANGED <<client, task>>
        /\ active' = [active EXCEPT ![d] = 0]
        /\ conns' = [i \in Conns |-> IF conns[i].daemon = d /\ conns[i].at \in WorkerSteps \cup {"backlog"}
              THEN Settled([conns[i] EXCEPT !.at = "closed", !.reply = "eof", !.view = NoView]) ELSE conns[i]]
    BY <1>9 DEF Crash, Leave
  <2>2. ASSUME NEW i \in Conns
        PROVE  /\ conns'[i] \in Connections
               /\ \/ conns'[i] = conns[i] /\ ~(conns[i].at \in WorkerSteps \cup {"backlog"} /\ conns[i].daemon = d)
                  \/ conns'[i].at = "closed" /\ conns[i].daemon = d
    BY <2>1, ClosedIsConnection DEF ConnTypes
  <2>3. conns' \in [Conns -> Connections]
    BY <2>1, <2>2
  <2>4. Workers(d)' = {} /\ \A e \in Daemons : e # d => Workers(e)' = Workers(e)
    BY <2>2 DEF Workers, WorkerSteps
  <2>5. Counted' /\ active' \in [Daemons -> Nat]
    <3>1. active' \in [Daemons -> Nat] /\ active'[d] = 0 /\ \A e \in Daemons : e # d => active'[e] = active[e]
      BY <2>1 DEF ConnTypes
    <3>2. Cardinality(Workers(d)') = 0 /\ 0 <= MaxConnections
      BY <2>4, FS_EmptySet, LimitIsPositive
    <3> QED BY <2>4, <3>1, <3>2 DEF Counted
  <2>6. ServedByListener'
    BY <2>1, <2>2 DEF ServedByListener, LifeInv, LifeTypes, WorkerSteps
  <2> QED BY <2>1, <2>3, <2>5, <2>6 DEF ConnTypes, ClientWaits
<1> QED BY <1>3, <1>4, <1>5, <1>6, <1>7, <1>8, <1>9 DEF DaemonStep, StartStep, ShutdownStep

(* The connections satisfy their invariant in every reachable state.       *)
LEMMA ConnInvariant == Spec => []ConnInv
<1>1. ASSUME Init
      PROVE  ConnInv
  <2>1. NoConn \in Connections /\ NoConn.at = "unused"
    BY DEF NoConn, Connections, NoView, Views, Phases, ConnSteps, Methods, Nobody
  <2>2. conns \in [Conns -> Connections] /\ \A i \in Conns : conns[i].at = "unused"
    BY <1>1, <2>1 DEF Init
  <2>3. client \in [Clients -> Calls] /\ \A c \in Clients : client[c].at = "idle"
    BY <1>1, PlanIsRpcs DEF Init, Calls, Methods
  <2>4. task \in Tasks /\ active \in [Daemons -> Nat]
    BY <1>1 DEF Init, Tasks, Phases
  <2>5. \A d \in Daemons : Workers(d) = {} /\ active[d] = 0
    BY <1>1, <2>2 DEF Init, Workers, WorkerSteps
  <2>6. Counted
    BY <2>5, FS_EmptySet, LimitIsPositive DEF Counted
  <2> QED BY <2>2, <2>3, <2>4, <2>6 DEF ConnInv, ConnTypes, ClientWaits, ServedByListener, WorkerSteps
<1>2. LifeInv /\ ConnInv /\ [Next]_vars => ConnInv'
  <2> SUFFICES ASSUME LifeInv, ConnInv, [Next]_vars
               PROVE  ConnInv'
    OBVIOUS
  <2>1. CASE UNCHANGED vars
    BY <2>1 DEF vars, ConnInv, ConnTypes, ClientWaits, ServedByListener, Counted, Workers
  <2>2. ASSUME NEW d \in Daemons, AcceptThread(d)
        PROVE  ConnInv'
    BY <2>2, AcceptKeepsConns, DaemonsKeepConns DEF AcceptThread
  <2> QED BY <2>1, <2>2, DaemonsKeepConns, WorkersKeepConns, ClientsKeepConns DEF Next
<1> QED BY <1>1, <1>2, LifeInvariant, PTL DEF Spec

(* The types; a daemon's counter is the number of its workers, and never   *)
(* above the limit, whichever way connections end.                         *)
THEOREM ServiceTypeCorrect == Spec => []ServiceTypeOK
<1>1. LifeInv /\ ConnInv => ServiceTypeOK
  BY DEF LifeInv, LifeTypes, Stages, ConnInv, Counted, ServiceTypeOK
<1> QED BY <1>1, LifeInvariant, ConnInvariant, PTL

(* Every worker and every claim thread belongs to the daemon that holds    *)
(* the lock: a second daemon never reconciles while the first works.       *)
THEOREM WorkIsUnderLock == Spec => []WorkUnderLock
<1>1. LifeInv /\ ConnInv => WorkUnderLock
  <2> SUFFICES ASSUME LifeInv, ConnInv, NEW d \in Daemons,
                      claimer[d] \/ Workers(d) # {}
                      \/ daemon[d] \in {"reconcile", "stat", "bind", "bound", "serving"}
               PROVE  flock = d
    BY DEF WorkUnderLock
  <2>1. Workers(d) # {} => accept[d] # "none"
    BY DEF ConnInv, ServedByListener, Workers
  <2>2. daemon[d] \in LockedStages
    BY <2>1 DEF LifeInv, ThreadsInLife, LockedStages, Stages
  <2> QED BY <2>2 DEF LifeInv, LockIsHeld
<1> QED BY <1>1, LifeInvariant, ConnInvariant, PTL

(* ------------------------------ the poll ------------------------------- *)
\* What a worker has read so far agrees with the task, which is terminal for good.
ViewAgrees(conn, phase) ==
  /\ conn.view.phase = "TERMINAL" => IF conn.at = "result" THEN phase = "TERMINAL" ELSE conn.view.result
  /\ conn.reply = "ok" => conn.at \in {"closing", "closed"}
TerminalHasResult == task.phase = "TERMINAL" => task.result

PollInv == TerminalHasResult /\ \A i \in Conns : ViewAgrees(conns[i], task.phase)

(* Settling a connection keeps what its view says.                         *)
LEMMA SettledAgrees ==
  ASSUME NEW conn \in Connections, NEW phase, ViewAgrees(conn, phase)
  PROVE  ViewAgrees(Settled(conn), phase)
<1>1. /\ Settled(conn).at = conn.at /\ Settled(conn).reply \in {conn.reply, "none"}
      /\ Settled(conn).view.phase = "TERMINAL" => Settled(conn) = conn
  BY SettledIs
<1> QED BY <1>1 DEF ViewAgrees

(* The task stays terminal, and is terminal only with a result.            *)
LEMMA TaskStaysTerminal ==
  ASSUME TerminalHasResult, task \in Tasks,
         \/ UNCHANGED task
         \/ \E d \in Daemons : Reconcile(d) \/ ShutdownTasks(d) \/ ClaimStarts(d) \/ Emits(d)
         \/ \E i \in Conns : Handle(i)
  PROVE  TerminalHasResult' /\ (task.phase = "TERMINAL" => task'.phase = "TERMINAL")
<1> USE DEF TerminalHasResult, Tasks
<1>0. Ended(task).phase = "TERMINAL" /\ Ended(task).result /\ Ended(task) \in Tasks
  BY DEF Ended, Phases
<1>1. CASE UNCHANGED task
  BY <1>1
<1>2. ASSUME NEW d \in Daemons, Reconcile(d)
      PROVE  TerminalHasResult' /\ (task.phase = "TERMINAL" => task'.phase = "TERMINAL")
  <2>1. PICK t \in {Ended(task), task} : task' = [t EXCEPT !.activity = 0]
    BY <1>2 DEF Reconcile
  <2>2. t \in Tasks /\ (t.phase = "TERMINAL" => t.result) /\ (task.phase = "TERMINAL" => t.phase = "TERMINAL")
    BY <1>0, <2>1
  <2> QED BY <2>1, <2>2
<1>3. ASSUME NEW d \in Daemons, ShutdownTasks(d) \/ ClaimStarts(d) \/ Emits(d)
      PROVE  TerminalHasResult' /\ (task.phase = "TERMINAL" => task'.phase = "TERMINAL")
  BY <1>0, <1>3 DEF ShutdownTasks, ClaimStarts, Emits
<1>4. ASSUME NEW i \in Conns, Handle(i)
      PROVE  TerminalHasResult' /\ (task.phase = "TERMINAL" => task'.phase = "TERMINAL")
  BY <1>4 DEF Handle
<1> QED BY <1>1, <1>2, <1>3, <1>4

(* A step of a worker keeps the agreement if what it read agrees.          *)
LEMMA WorkerAgrees ==
  ASSUME ConnInv, PollInv, NEW i \in Conns, NEW from, NEW new \in Connections, Worker(i, from, new),
         ViewAgrees(new, task'.phase), TerminalHasResult', task.phase = "TERMINAL" => task'.phase = "TERMINAL"
  PROVE  PollInv'
<1>1. ViewAgrees(Settled(new), task'.phase)
  BY SettledAgrees
<1>2. conns'[i] = Settled(new) /\ \A j \in Conns : j # i => conns'[j] = conns[j]
  BY DEF Worker, ConnInv, ConnTypes
<1> QED BY <1>1, <1>2 DEF PollInv, ViewAgrees

(* The worker's steps: the row is read first, so a terminal row has its    *)
(* result when the result is looked for.                                   *)
LEMMA WorkersAgree ==
  ASSUME ConnInv, PollInv, NEW i \in Conns, WorkerStep(i)
  PROVE  PollInv'
<1>0. conns[i] \in Connections /\ task \in Tasks /\ ViewAgrees(conns[i], task.phase)
  BY DEF ConnInv, ConnTypes, PollInv
<1>t. TerminalHasResult' /\ (task.phase = "TERMINAL" => task'.phase = "TERMINAL")
  BY <1>0, TaskStaysTerminal DEF WorkerStep, ReadFails, PollRow, PollResult, PollAnswers, PollSleeps, CountOff,
     PollInv
<1> USE DEF Connections, ViewAgrees
<1>1. CASE ReadFails(i)
  <2> DEFINE new == [conns[i] EXCEPT !.at = "closing"]
  <2>1. new \in Connections /\ ViewAgrees(new, task'.phase)
    BY <1>0, <1>1 DEF ConnSteps, WorkerSteps, ReadFails, Worker
  <2> QED BY <1>1, <1>t, <2>1, WorkerAgrees DEF ReadFails
<1>2. CASE Handle(i)
  <2> DEFINE answered == [conns[i] EXCEPT !.at = "closing", !.reply = "ok"]
             missing == [conns[i] EXCEPT !.at = "closing", !.reply = "notFound"]
             polled == [conns[i] EXCEPT !.at = "row"]
  <2>1. conns[i].at = "reading"
    BY <1>2 DEF Handle, Worker
  <2>2. answered \in Connections /\ ViewAgrees(answered, task'.phase)
    BY <1>0, <2>1 DEF ConnSteps, WorkerSteps
  <2>3. missing \in Connections /\ ViewAgrees(missing, task'.phase)
    BY <1>0, <2>1 DEF ConnSteps, WorkerSteps
  <2>4. polled \in Connections /\ ViewAgrees(polled, task'.phase)
    BY <1>0, <2>1 DEF ConnSteps, WorkerSteps
  <2>5. Worker(i, "reading", answered) \/ Worker(i, "reading", missing) \/ Worker(i, "reading", polled)
    BY <1>2 DEF Handle
  <2> HIDE DEF answered, missing, polled
  <2> QED BY <1>t, <2>2, <2>3, <2>4, <2>5, WorkerAgrees
<1>3. CASE PollRow(i)
  <2> DEFINE v == [NoView EXCEPT !.phase = task.phase, !.revision = task.seq]
             new == [conns[i] EXCEPT !.at = "result", !.view = v]
  <2>1. v \in Views /\ v.phase = task.phase
    BY <1>0 DEF NoView, Views, Tasks
  <2>2. Worker(i, "row", new) /\ UNCHANGED task
    BY <1>3 DEF PollRow
  <2>3. new \in Connections /\ ViewAgrees(new, task'.phase)
    BY <1>0, <2>1, <2>2 DEF ConnSteps, WorkerSteps, Worker
  <2> QED BY <1>t, <2>2, <2>3, WorkerAgrees
<1>4. CASE PollResult(i)
  <2> DEFINE new == [conns[i] EXCEPT !.at = "activity", !.view.result = task.result]
  <2>1. Worker(i, "result", new)
    BY <1>4 DEF PollResult
  <2>2. new \in Connections /\ ViewAgrees(new, task'.phase)
    BY <1>0, <2>1 DEF ConnSteps, WorkerSteps, Worker, Views, Tasks, PollInv, TerminalHasResult
  <2> QED BY <1>t, <2>1, <2>2, WorkerAgrees
<1>5. CASE PollAnswers(i)
  <2> DEFINE new == [conns[i] EXCEPT !.at = "closing", !.reply = "ok", !.view.revision = Revision(i)]
  <2>1. Revision(i) \in Nat
    BY <1>0 DEF Revision, Views, Tasks
  <2>2. Worker(i, "activity", new)
    BY <1>5 DEF PollAnswers
  <2>3. new \in Connections /\ ViewAgrees(new, task'.phase)
    BY <1>0, <2>1, <2>2 DEF ConnSteps, WorkerSteps, Worker, Views
  <2> QED BY <1>t, <2>2, <2>3, WorkerAgrees
<1>6. CASE PollSleeps(i)
  <2> DEFINE new == [conns[i] EXCEPT !.at = "row", !.view = NoView]
  <2>1. Worker(i, "activity", new)
    BY <1>6 DEF PollSleeps
  <2>2. new \in Connections /\ ViewAgrees(new, task'.phase)
    BY <1>0, <2>1 DEF ConnSteps, WorkerSteps, Worker, NoView, Views, Phases
  <2> QED BY <1>t, <2>1, <2>2, WorkerAgrees
<1>7. CASE CountOff(i)
  <2> DEFINE new == [conns[i] EXCEPT !.at = "closed", !.reply = IF @ = "none" THEN "eof" ELSE @]
  <2>1. Worker(i, "closing", new)
    BY <1>7 DEF CountOff
  <2>2. new \in Connections /\ ViewAgrees(new, task'.phase)
    BY <1>0, <2>1 DEF ConnSteps, WorkerSteps, Worker
  <2> QED BY <1>t, <2>1, <2>2, WorkerAgrees
<1> QED BY <1>1, <1>2, <1>3, <1>4, <1>5, <1>6, <1>7 DEF WorkerStep

(* The other steps keep the agreement: they close connections, open new    *)
(* ones or end the task.                                                   *)
LEMMA OthersAgree ==
  ASSUME ConnInv, PollInv,
         TerminalHasResult', task.phase = "TERMINAL" => task'.phase = "TERMINAL",
         \A i \in Conns : conns'[i] = conns[i] \/ ViewAgrees(conns'[i], task'.phase)
  PROVE  PollInv'
BY DEF PollInv, ViewAgrees

(* A connection closed without an answer says nothing.                     *)
LEMMA ClosedAgrees ==
  ASSUME NEW conn \in Connections, NEW phase, ViewAgrees(conn, phase), conn.at # "result",
         NEW reply \in {"busy", "eof"}
  PROVE  ViewAgrees(Settled([conn EXCEPT !.at = "closed", !.reply = reply]), phase)
<1>1. [conn EXCEPT !.at = "closed", !.reply = reply] \in Connections
  BY DEF Connections, ConnSteps
<1>2. ViewAgrees([conn EXCEPT !.at = "closed", !.reply = reply], phase)
  BY DEF Connections, ViewAgrees
<1> QED BY <1>1, <1>2, SettledAgrees

(* The answer of a poll agrees with itself in every reachable state.       *)
LEMMA PollInvariant == Spec => []PollInv
<1>1. ASSUME Init
      PROVE  PollInv
  <2>1. NoConn.view.phase = "NONE" /\ NoConn.reply = "none"
    BY DEF NoConn, NoView
  <2> QED BY <1>1, <2>1 DEF Init, PollInv, TerminalHasResult, ViewAgrees
<1>2. ConnInv /\ PollInv /\ [Next]_vars => PollInv'
  <2> SUFFICES ASSUME ConnInv, PollInv, [Next]_vars
               PROVE  PollInv'
    OBVIOUS
  <2>0. task \in Tasks /\ TerminalHasResult /\ conns \in [Conns -> Connections]
        /\ \A i \in Conns : ViewAgrees(conns[i], task.phase)
    BY DEF ConnInv, ConnTypes, PollInv
  <2> USE DEF pathVars, service, life, outside, serverSide
  <2>1. ASSUME UNCHANGED conns, TerminalHasResult', task.phase = "TERMINAL" => task'.phase = "TERMINAL"
        PROVE  PollInv'
    BY <2>1, OthersAgree
  <2>2. CASE UNCHANGED <<conns, task>>
    BY <2>0, <2>1, <2>2, TaskStaysTerminal
  <2>3. ASSUME NEW d \in Daemons, Start(d) \/ Signal(d) \/ DaemonStep(d) \/ AcceptStops(d)
                                  \/ ClaimStarts(d) \/ ClaimEnds(d) \/ Emits(d)
        PROVE  PollInv'
    <3>1. CASE Reconcile(d) \/ ShutdownTasks(d) \/ ClaimStarts(d) \/ Emits(d)
      <4>1. UNCHANGED conns
        BY <3>1 DEF Reconcile, ShutdownTasks, ClaimStarts, Emits
      <4> QED BY <2>0, <2>1, <3>1, <4>1, TaskStaysTerminal
    <3>2. CASE ~(Reconcile(d) \/ ShutdownTasks(d) \/ ClaimStarts(d) \/ Emits(d))
      <4>1. UNCHANGED <<conns, task>>
        BY <2>3, <3>2 DEF DaemonStep, StartStep, ShutdownStep, Start, Signal, StartEnds, Acquire, StatSocket,
           ProbeSocket, ConfirmSocket, UnlinkSocket, Bind, Serve, ShutdownBegins, ShutdownServer, ShutdownClaims,
           AcceptStops, ClaimEnds
      <4> QED BY <2>2, <4>1
    <3> QED BY <3>1, <3>2
  <2>4. ASSUME NEW d \in Daemons, NEW i \in Conns, AcceptConn(d, i)
        PROVE  PollInv'
    <3>1. UNCHANGED task /\ conns[i].at = "backlog" /\ conns[i] \in Connections
      BY <2>0, <2>4 DEF AcceptConn
    <3>2. TerminalHasResult' /\ (task.phase = "TERMINAL" => task'.phase = "TERMINAL")
      BY <2>0, <3>1, TaskStaysTerminal
    <3>3. ViewAgrees(Settled([conns[i] EXCEPT !.at = "closed", !.reply = "busy"]), task.phase)
      BY <2>0, <3>1, ClosedAgrees
    <3>4. ViewAgrees([conns[i] EXCEPT !.at = "reading"], task.phase)
      BY <2>0, <3>1 DEF ViewAgrees, Connections
    <3>5. \A j \in Conns : conns'[j] = conns[j] \/ ViewAgrees(conns'[j], task'.phase)
      BY <2>0, <2>4, <3>1, <3>3, <3>4 DEF AcceptConn
    <3> QED BY <3>2, <3>5, OthersAgree
  <2>5. ASSUME NEW d \in Daemons, AcceptEnds(d)
        PROVE  PollInv'
    <3>1. UNCHANGED task
      BY <2>5 DEF AcceptEnds
    <3>2. TerminalHasResult' /\ (task.phase = "TERMINAL" => task'.phase = "TERMINAL")
      BY <2>0, <3>1, TaskStaysTerminal
    <3>3. \A j \in Conns : conns'[j] = conns[j] \/ ViewAgrees(conns'[j], task'.phase)
      BY <2>0, <2>5, <3>1, ClosedAgrees DEF AcceptEnds
    <3> QED BY <3>2, <3>3, OthersAgree
  <2>6. ASSUME NEW d \in Daemons, Crash(d)
        PROVE  PollInv'
    <3>1. UNCHANGED task
      BY <2>6 DEF Crash
    <3>2. TerminalHasResult' /\ (task.phase = "TERMINAL" => task'.phase = "TERMINAL")
      BY <2>0, <3>1, TaskStaysTerminal
    <3>3. ASSUME NEW conn \in Connections
          PROVE  ViewAgrees(Settled([conn EXCEPT !.at = "closed", !.reply = "eof", !.view = NoView]), task.phase)
      <4>1. /\ NoView \in Views /\ NoView.phase = "NONE"
        BY DEF NoView, Views, Phases
      <4>2. [conn EXCEPT !.at = "closed", !.reply = "eof", !.view = NoView] \in Connections
        BY <4>1 DEF Connections, ConnSteps
      <4>3. ViewAgrees([conn EXCEPT !.at = "closed", !.reply = "eof", !.view = NoView], task.phase)
        BY <4>1 DEF Connections, ViewAgrees
      <4> QED BY <4>2, <4>3, SettledAgrees
    <3>4. \A j \in Conns : conns'[j] = conns[j] \/ ViewAgrees(conns'[j], task'.phase)
      BY <2>0, <2>6, <3>1, <3>3 DEF Crash
    <3> QED BY <3>2, <3>4, OthersAgree
  <2>7. ASSUME NEW c \in Clients, ClientStep(c)
        PROVE  PollInv'
    <3>1. UNCHANGED task
      BY <2>7 DEF ClientStep, Connect, Receive, Deadline
    <3>2. TerminalHasResult' /\ (task.phase = "TERMINAL" => task'.phase = "TERMINAL")
      BY <2>0, <3>1, TaskStaysTerminal
    <3>3. ASSUME NEW i \in Conns, Hang(i)
          PROVE  PollInv'
      <4>1. [conns[i] EXCEPT !.open = FALSE] \in Connections
        BY <2>0 DEF Connections
      <4>2. ViewAgrees([conns[i] EXCEPT !.open = FALSE], task.phase)
        BY <2>0 DEF Connections, ViewAgrees
      <4>3. ViewAgrees(Settled([conns[i] EXCEPT !.open = FALSE]), task.phase)
        BY <4>1, <4>2, SettledAgrees
      <4>4. \A j \in Conns : conns'[j] = conns[j] \/ ViewAgrees(conns'[j], task'.phase)
        BY <2>0, <3>1, <3>3, <4>3 DEF Hang
      <4> QED BY <3>2, <4>4, OthersAgree
    <3>4. CASE Connect(c)
      <4>1. PICK i \in Conns :
              /\ conns[i].at = "unused"
              /\ conns' = [conns EXCEPT ![i] = [@ EXCEPT !.at = "backlog", !.daemon = path, !.open = TRUE,
                                                         !.method = Head(client[c].todo)]]
        BY <3>4 DEF Connect
      <4>2. ViewAgrees(conns'[i], task.phase)
        BY <2>0, <4>1 DEF Connections, ViewAgrees
      <4>3. \A j \in Conns : conns'[j] = conns[j] \/ ViewAgrees(conns'[j], task'.phase)
        BY <2>0, <3>1, <4>1, <4>2
      <4> QED BY <3>2, <4>3, OthersAgree
    <3>5. CASE Receive(c) \/ Deadline(c)
      <4>1. client[c].conn \in Conns /\ Hang(client[c].conn)
        BY <3>5 DEF Receive, Deadline, ConnInv, ClientWaits
      <4> QED BY <3>3, <4>1
    <3> QED BY <2>7, <3>4, <3>5 DEF ClientStep
  <2>8. CASE UNCHANGED vars
    BY <2>2, <2>8 DEF vars
  <2> QED BY <2>3, <2>4, <2>5, <2>6, <2>7, <2>8, WorkersAgree DEF Next, AcceptThread
<1> QED BY <1>1, <1>2, ConnInvariant, PTL DEF Spec

(* An answer that says TERMINAL also says that the result is available,    *)
(* although the row and the result are read by two queries.                *)
THEOREM PollIsConsistent == Spec => []PollConsistent
<1>1. PollInv => PollConsistent
  BY DEF PollInv, ViewAgrees, PollConsistent
<1> QED BY <1>1, PollInvariant, PTL

=============================================================================
