----------------------------- MODULE RpcServer -----------------------------
(***************************************************************************)
(* The service around the scheduler: daemons that start, hold the          *)
(* singleton lock of the database, reconcile, bind the socket, accept      *)
(* connections up to a limit and shut down; the worker that serves a       *)
(* connection, with the long poll of task_poll; and the clients that the   *)
(* MCP facade makes, whose deadline may pass before the answer.            *)
(*                                                                         *)
(* The scheduler and the store are one task here: queued by a submission,  *)
(* started by the claim thread, with events of its runtime until its       *)
(* result is stored. A connection to the daemon is a member of Conns.      *)
(***************************************************************************)
EXTENDS Integers, Sequences, FiniteSets

CONSTANTS Daemons,         \* daemon processes, each started at most once
          Clients,         \* tool calls of the facade
          Plan,            \* RPCs of the tool call of a client, in order
          MaxConns,        \* bound on the connections made
          MaxConnections,  \* max_connections of the server
          After,           \* after_revision of the polls
          MaxEvents        \* bound on the events of the runtime

ASSUME LimitIsPositive == MaxConnections \in Nat \ {0}
ASSUME ConnsAreFinite == MaxConns \in Nat
ASSUME PlanIsRpcs == Plan \in [Clients -> Seq({"submit", "status", "poll"})]
\* No daemon is called what stands for no holder, no file or a file of nobody here.
ASSUME DaemonNames == Daemons \cap {"nobody", "none", "old"} = {}

VARIABLES
  daemon,   \* where each daemon is in main, Daemon::start and Daemon::shutdown
  signal,   \* shutdown_requested of each daemon
  flock,    \* holder of the lock of the database
  path,     \* the socket file: the daemon that bound it, one of before, or none
  seen,     \* the file found by remove_stale_socket
  accept,   \* the accept thread: "none", "accepting", "draining" or "ended"
  claimer,  \* the claim thread of each daemon is running
  active,   \* the connection counter of each daemon
  conns,    \* the connections: client, daemon, method and state of its worker
  client,   \* each client: state, RPCs left and connection
  task      \* the task: phase, result, last_event_seq and activity revision

lifeVars == <<daemon, signal, flock, claimer>>
pathVars == <<path, seen>>
vars == <<lifeVars, pathVars, accept, active, conns, client, task>>

Conns == 1..MaxConns
Nobody == "nobody"
NoFile == "none"
OldFile == "old"   \* left by a daemon that crashed earlier
Methods == {"submit", "status", "poll"}
NoView == [phase |-> "NONE", result |-> FALSE, revision |-> 0]

NoConn == [at |-> "unused", daemon |-> Nobody, method |-> "status", open |-> FALSE,
           reply |-> "none", view |-> NoView]

\* A connection both sides are done with.
Settled(conn) == IF conn.at = "closed" /\ ~conn.open THEN [NoConn EXCEPT !.at = "closed"] ELSE conn

\* A worker thread exists until it has counted itself off.
WorkerSteps == {"reading", "row", "result", "activity", "closing"}
Workers(d) == {i \in Conns : conns[i].daemon = d /\ conns[i].at \in WorkerSteps}
Alive(d) == daemon[d] \notin {"off", "gone"}

\* A connection to the file finds a listener.
Listening(file) == \E d \in Daemons : file = d /\ accept[d] \in {"accepting", "draining"}

Init ==
  /\ daemon = [d \in Daemons |-> "off"]
  /\ signal = [d \in Daemons |-> FALSE]
  /\ flock = Nobody
  /\ path \in {NoFile, OldFile}
  /\ seen = [d \in Daemons |-> NoFile]
  /\ accept = [d \in Daemons |-> "none"]
  /\ claimer = [d \in Daemons |-> FALSE]
  /\ active = [d \in Daemons |-> 0]
  /\ conns = [i \in Conns |-> NoConn]
  /\ client = [c \in Clients |-> [at |-> "idle", todo |-> Plan[c], conn |-> 0]]
  /\ task = [phase |-> "NONE", result |-> FALSE, seq |-> 0, activity |-> 0]

(* ------------------------- starting a daemon --------------------------- *)
Go(d, from, to) == daemon[d] = from /\ daemon' = [daemon EXCEPT ![d] = to]
restOfLife == <<signal, claimer>>
service == <<accept, active, conns, client>>

Start(d) == /\ Go(d, "off", "lock")
            /\ UNCHANGED <<flock, restOfLife, pathVars, service, task>>

Signal(d) == /\ Alive(d) /\ ~signal[d]
             /\ signal' = [signal EXCEPT ![d] = TRUE]
             /\ UNCHANGED <<daemon, flock, claimer, pathVars, service, task>>

\* The end of the process: the lock and what it had seen go with it.
Leave(d) == /\ daemon' = [daemon EXCEPT ![d] = "gone"]
            /\ flock' = IF flock = d THEN Nobody ELSE flock
            /\ signal' = [signal EXCEPT ![d] = FALSE]
            /\ seen' = [seen EXCEPT ![d] = NoFile]
            /\ accept' = [accept EXCEPT ![d] = "none"]

\* check_startup_shutdown stands between the steps of the start; an error of any of
\* them also drops the lock.
StartEnds(d) == /\ daemon[d] \in {"lock", "reconcile", "stat", "probe", "confirm", "bind"}
                /\ \/ daemon[d] \in {"lock", "reconcile", "stat"} /\ signal[d]
                   \/ daemon[d] = "lock" /\ flock # Nobody
                   \/ daemon[d] = "probe" /\ Listening(path)
                   \/ daemon[d] \in {"probe", "confirm"} /\ path = NoFile
                   \/ daemon[d] = "confirm" /\ path # seen[d]
                   \/ daemon[d] = "bind" /\ path # NoFile
                /\ Leave(d)
                /\ UNCHANGED <<claimer, path, active, conns, client, task>>

\* Mutant: the lock is not exclusive.
AcquireShared(d) == /\ Go(d, "lock", "reconcile")
                    /\ ~signal[d]
                    /\ flock' = d
                    /\ UNCHANGED <<restOfLife, pathVars, service, task>>

\* SingletonLock::acquire
Acquire(d) == /\ Go(d, "lock", "reconcile")
              /\ ~signal[d] /\ flock = Nobody
              /\ flock' = d
              /\ UNCHANGED <<restOfLife, pathVars, service, task>>

\* reconcile_startup ends what an earlier daemon left running; the activity of a task is
\* not kept over a restart.
Ended(t) == [t EXCEPT !.phase = "TERMINAL", !.result = TRUE]
Reconcile(d) == /\ Go(d, "reconcile", "stat")
                /\ ~signal[d]
                /\ task' = [(IF task.phase = "RUNNING" THEN Ended(task) ELSE task) EXCEPT !.activity = 0]
                /\ UNCHANGED <<flock, restOfLife, pathVars, service>>

(* -------------------- RpcServer::bind, stale socket -------------------- *)
StatSocket(d) == /\ ~signal[d]
                 /\ Go(d, "stat", IF path = NoFile THEN "bind" ELSE "probe")
                 /\ seen' = [seen EXCEPT ![d] = path]
                 /\ UNCHANGED <<flock, restOfLife, path, service, task>>

\* Nobody listens: the connection is refused.
ProbeSocket(d) == /\ Go(d, "probe", "confirm")
                  /\ path # NoFile /\ ~Listening(path)
                  /\ UNCHANGED <<flock, restOfLife, pathVars, service, task>>

ConfirmSocket(d) == /\ Go(d, "confirm", "unlink")
                    /\ path = seen[d]
                    /\ UNCHANGED <<flock, restOfLife, pathVars, service, task>>

UnlinkSocket(d) == /\ Go(d, "unlink", "bind")
                   /\ path' = NoFile
                   /\ seen' = [seen EXCEPT ![d] = NoFile]
                   /\ UNCHANGED <<flock, restOfLife, service, task>>

Bind(d) == /\ Go(d, "bind", "bound")
           /\ path = NoFile
           /\ path' = d
           /\ accept' = [accept EXCEPT ![d] = "accepting"]
           /\ UNCHANGED <<flock, restOfLife, seen, active, conns, client, task>>

\* The last look at the signal, and the claim thread.
Serve(d) == \/ /\ Go(d, "bound", "serving")
               /\ ~signal[d]
               /\ claimer' = [claimer EXCEPT ![d] = TRUE]
               /\ UNCHANGED <<flock, signal, pathVars, service, task>>
            \/ /\ Go(d, "bound", "stopServer")
               /\ signal[d]
               /\ UNCHANGED <<flock, restOfLife, pathVars, service, task>>

StartStep(d) == \/ StartEnds(d) \/ Acquire(d) \/ Reconcile(d)
                \/ StatSocket(d) \/ ProbeSocket(d) \/ ConfirmSocket(d) \/ UnlinkSocket(d) \/ Bind(d) \/ Serve(d)

(* --------------------------- accept thread ----------------------------- *)
life == <<lifeVars, pathVars, task>>

\* Mutant: the limit is compared with >.
AcceptOverLimit(d, i) ==
  /\ accept[d] = "accepting"
  /\ conns[i].at = "backlog" /\ conns[i].daemon = d
  /\ active[d] <= MaxConnections
  /\ conns' = [conns EXCEPT ![i].at = "reading"]
  /\ active' = [active EXCEPT ![d] = @ + 1]
  /\ UNCHANGED <<life, accept, client>>

\* The counter is read and then raised by this thread only.
AcceptConn(d, i) ==
  /\ accept[d] = "accepting"
  /\ conns[i].at = "backlog" /\ conns[i].daemon = d
  /\ IF active[d] >= MaxConnections
     THEN /\ conns' = [conns EXCEPT ![i] = Settled([@ EXCEPT !.at = "closed", !.reply = "busy"])]
          /\ UNCHANGED active
     ELSE /\ conns' = [conns EXCEPT ![i].at = "reading"]
          /\ active' = [active EXCEPT ![d] = @ + 1]
  /\ UNCHANGED <<life, accept, client>>

\* The flag of RpcServer::shutdown, or an error of accept, ends the loop.
AcceptStops(d) ==
  /\ accept[d] = "accepting"
  /\ accept' = [accept EXCEPT ![d] = "draining"]
  /\ UNCHANGED <<life, active, conns, client>>

\* remove_matching_socket
Removed(d) == IF path = d THEN NoFile ELSE path

\* Mutant: the workers are not joined.
AcceptLeavesWorkers(d) ==
  /\ accept[d] = "draining"
  /\ accept' = [accept EXCEPT ![d] = "ended"]
  /\ path' = Removed(d)
  /\ UNCHANGED <<lifeVars, seen, active, conns, client, task>>

\* The workers are joined, then the socket file is removed; the listener is closed and
\* with it the connections nobody accepted.
AcceptEnds(d) ==
  /\ accept[d] = "draining" /\ Workers(d) = {}
  /\ accept' = [accept EXCEPT ![d] = "ended"]
  /\ path' = Removed(d)
  /\ conns' = [i \in Conns |-> IF conns[i].at = "backlog" /\ conns[i].daemon = d
                               THEN Settled([conns[i] EXCEPT !.at = "closed", !.reply = "eof"]) ELSE conns[i]]
  /\ UNCHANGED <<lifeVars, seen, active, client, task>>

AcceptThread(d) == \/ \E i \in Conns : AcceptConn(d, i)
                   \/ (daemon[d] = "stopServer" /\ AcceptStops(d)) \/ AcceptEnds(d)

(* --------------------------- Daemon::shutdown -------------------------- *)
ShutdownBegins(d) == /\ Go(d, "serving", "stopServer")
                     /\ signal[d]
                     /\ UNCHANGED <<flock, restOfLife, pathVars, service, task>>

\* RpcServer::shutdown joins the accept thread and removes the file once more.
ShutdownServer(d) == /\ Go(d, "stopServer", "stopClaims")
                     /\ accept[d] = "ended"
                     /\ path' = Removed(d)
                     /\ UNCHANGED <<flock, restOfLife, seen, service, task>>

\* The claim thread is joined.
ShutdownClaims(d) == /\ Go(d, "stopClaims", "stopTasks")
                     /\ ~claimer[d]
                     /\ UNCHANGED <<flock, restOfLife, pathVars, service, task>>

\* shutdown_all closes every active task, and records a failure when that fails; the
\* lock goes with the daemon.
ShutdownTasks(d) == /\ daemon[d] = "stopTasks"
                    /\ Leave(d)
                    /\ \/ task' = IF task.phase = "RUNNING" THEN Ended(task) ELSE task
                       \/ task.phase = "RUNNING" /\ UNCHANGED task
                    /\ UNCHANGED <<claimer, path, active, conns, client>>

ShutdownStep(d) == ShutdownBegins(d) \/ ShutdownServer(d) \/ ShutdownClaims(d) \/ ShutdownTasks(d)

\* A crash leaves the socket file and a running task; the system closes the rest.
Crash(d) ==
  /\ Alive(d)
  /\ Leave(d)
  /\ claimer' = [claimer EXCEPT ![d] = FALSE]
  /\ conns' = [i \in Conns |-> IF conns[i].daemon = d /\ conns[i].at \in WorkerSteps \cup {"backlog"}
                               THEN Settled([conns[i] EXCEPT !.at = "closed", !.reply = "eof", !.view = NoView])
                               ELSE conns[i]]
  /\ active' = [active EXCEPT ![d] = 0]
  /\ UNCHANGED <<path, client, task>>

(* ---------------------------- the scheduler ---------------------------- *)
outside == <<daemon, signal, flock, pathVars, service>>

\* The claim thread of the daemon, until it sees the signal.
ClaimStarts(d) == /\ claimer[d] /\ task.phase = "QUEUED"
                  /\ task' = [task EXCEPT !.phase = "RUNNING"]
                  /\ UNCHANGED <<claimer, outside>>

ClaimEnds(d) == /\ claimer[d] /\ signal[d]
                /\ claimer' = [claimer EXCEPT ![d] = FALSE]
                /\ UNCHANGED <<task, outside>>

\* An event is counted as activity before it is stored; the runtime runs as long as
\* the process of the daemon that holds the lock.
Emits(d) == /\ Alive(d) /\ flock = d /\ task.phase = "RUNNING"
            /\ \/ /\ task.activity < MaxEvents
                  /\ task' = [task EXCEPT !.activity = @ + 1]
               \/ /\ task.seq < task.activity
                  /\ task' = [task EXCEPT !.seq = @ + 1]
               \/ task' = Ended(task)
            /\ UNCHANGED <<claimer, outside>>

(* --------------------- a worker: handle_connection --------------------- *)
Worker(i, from, new) == /\ conns[i].at = from
                        /\ conns' = [conns EXCEPT ![i] = Settled(new)]
                        /\ UNCHANGED <<lifeVars, pathVars, accept, client>>

\* Nothing came before the read timeout, or the client closed first.
ReadFails(i) == /\ Worker(i, "reading", [conns[i] EXCEPT !.at = "closing"])
                /\ UNCHANGED <<active, task>>

\* The frame is read, even when the client has given up since it wrote it. SubmitGeneral
\* is idempotent; SystemStatus changes nothing; a poll of no task fails.
Handle(i) ==
  \/ /\ conns[i].method = "submit"
     /\ Worker(i, "reading", [conns[i] EXCEPT !.at = "closing", !.reply = "ok"])
     /\ task' = IF task.phase = "NONE" THEN [task EXCEPT !.phase = "QUEUED"] ELSE task
     /\ UNCHANGED active
  \/ /\ conns[i].method = "status"
     /\ Worker(i, "reading", [conns[i] EXCEPT !.at = "closing", !.reply = "ok"])
     /\ UNCHANGED <<active, task>>
  \/ /\ conns[i].method = "poll"
     /\ Worker(i, "reading", IF task.phase = "NONE"
                             THEN [conns[i] EXCEPT !.at = "closing", !.reply = "notFound"]
                             ELSE [conns[i] EXCEPT !.at = "row"])
     /\ UNCHANGED <<active, task>>

\* One turn of the loop of task_poll reads the row, then the result, then the activity.
PollRow(i) ==
  /\ Worker(i, "row", [conns[i] EXCEPT !.at = "result",
                                       !.view = [NoView EXCEPT !.phase = task.phase, !.revision = task.seq]])
  /\ UNCHANGED <<active, task>>

PollResult(i) ==
  /\ Worker(i, "result", [conns[i] EXCEPT !.at = "activity", !.view.result = task.result])
  /\ UNCHANGED <<active, task>>

\* Mutant: the phase is read again for the answer, after the result was looked for.
PollRereads(i) ==
  /\ Worker(i, "activity", [conns[i] EXCEPT !.at = "closing", !.reply = "ok", !.view.phase = task.phase])
  /\ UNCHANGED <<active, task>>

\* The activity is read last; the revision is the larger one.
Revision(i) == IF task.activity > conns[i].view.revision THEN task.activity ELSE conns[i].view.revision
News(i) == Revision(i) > After \/ conns[i].view.phase = "TERMINAL"

\* Mutant: the poll waits for news without its deadline.
PollWithoutDeadline(i) ==
  /\ News(i)
  /\ Worker(i, "activity", [conns[i] EXCEPT !.at = "closing", !.reply = "ok", !.view.revision = Revision(i)])
  /\ UNCHANGED <<active, task>>

\* It answers when there is news or the task is terminal, or else once the deadline is past.
PollAnswers(i) ==
  /\ Worker(i, "activity", [conns[i] EXCEPT !.at = "closing", !.reply = "ok",
                                            !.view.revision = Revision(i)])
  /\ UNCHANGED <<active, task>>

PollSleeps(i) ==
  /\ ~News(i)
  /\ Worker(i, "activity", [conns[i] EXCEPT !.at = "row", !.view = NoView])
  /\ UNCHANGED <<active, task>>

CountOff(i) == /\ Worker(i, "closing", [conns[i] EXCEPT !.at = "closed",
                                                        !.reply = IF @ = "none" THEN "eof" ELSE @])
               /\ active' = [active EXCEPT ![conns[i].daemon] = @ - 1]
               /\ UNCHANGED task

WorkerStep(i) == \/ ReadFails(i) \/ Handle(i) \/ PollRow(i) \/ PollResult(i) \/ PollAnswers(i) \/ PollSleeps(i)
                 \/ CountOff(i)

(* --------------------- a client: RpcClient::call ----------------------- *)
serverSide == <<lifeVars, pathVars, accept, active, task>>

\* Connected to the listener behind the path; a refused call leaves no trace.
Connect(c) ==
  /\ client[c].at = "idle" /\ client[c].todo # <<>>
  /\ Listening(path)
  /\ \E i \in Conns :
       /\ conns[i].at = "unused" /\ \A j \in 1..(i - 1) : conns[j].at # "unused"
       /\ conns' = [conns EXCEPT ![i] = [@ EXCEPT !.at = "backlog", !.daemon = path, !.open = TRUE,
                                                  !.method = Head(client[c].todo)]]
       /\ client' = [client EXCEPT ![c].at = "waiting", ![c].conn = i]
  /\ UNCHANGED serverSide

\* The tool call fails, and may be made again from its first RPC.
GaveUp(c) == [client[c] EXCEPT !.at = "idle", !.conn = 0, !.todo = Plan[c]]
Hang(i) == conns' = [conns EXCEPT ![i] = Settled([@ EXCEPT !.open = FALSE])]

\* The response, or the end of the stream. 
Receive(c) ==
  /\ client[c].at = "waiting"
  /\ LET i == client[c].conn
     IN /\ conns[i].at \in {"closing", "closed"} /\ conns[i].reply # "none"
        /\ Hang(i)
        /\ client' = [client EXCEPT ![c] =
             IF conns[i].reply = "ok"
             THEN [client[c] EXCEPT !.at = "idle", !.conn = 0, !.todo = Tail(@)]
             ELSE GaveUp(c)]
  /\ UNCHANGED serverSide

\* The deadline passes: the client goes away, the worker does not notice.
Deadline(c) == /\ client[c].at = "waiting"
               /\ Hang(client[c].conn)
               /\ client' = [client EXCEPT ![c] = GaveUp(c)]
               /\ UNCHANGED serverSide

ClientStep(c) == Connect(c) \/ Receive(c) \/ Deadline(c)

(* ---------------------------- specification ---------------------------- *)
DaemonStep(d) == StartStep(d) \/ ShutdownStep(d)

Next == \/ \E d \in Daemons : \/ Start(d) \/ Signal(d) \/ Crash(d) \/ DaemonStep(d)
                              \/ AcceptThread(d) \/ AcceptStops(d)
                              \/ ClaimStarts(d) \/ ClaimEnds(d) \/ Emits(d)
        \/ \E i \in Conns : WorkerStep(i)
        \/ \E c \in Clients : ClientStep(c)

\* The threads of a daemon run; a silent client is dropped by the read timeout. A poll
\* that looks again and again does so once after its deadline: hence SF.
Fairness == /\ \A d \in Daemons : /\ WF_vars(DaemonStep(d)) /\ WF_vars(AcceptThread(d))
                                  /\ WF_vars(ClaimEnds(d))
            /\ \A i \in Conns : WF_vars(WorkerStep(i)) /\ SF_vars(PollAnswers(i))

Spec == Init /\ [][Next]_vars /\ Fairness

(* ----------------------------- properties ------------------------------ *)
\* The types; a daemon's counter is the number of its workers, and never above the
\* limit, whichever way connections end (unix.rs, the accept loop).
ServiceTypeOK ==
  /\ daemon \in [Daemons -> {"off", "lock", "reconcile", "stat", "probe", "confirm", "unlink", "bind", "bound",
                             "serving", "stopServer", "stopClaims", "stopTasks", "gone"}]
  /\ signal \in [Daemons -> BOOLEAN] /\ claimer \in [Daemons -> BOOLEAN]
  /\ flock \in Daemons \cup {Nobody}
  /\ path \in Daemons \cup {NoFile, OldFile}
  /\ \A d \in Daemons : active[d] = Cardinality(Workers(d)) /\ active[d] <= MaxConnections

\* Every worker and every claim thread belongs to the daemon that holds the lock of the
\* database: a second daemon never reconciles while the first still serves or claims.
WorkUnderLock == \A d \in Daemons :
                   claimer[d] \/ Workers(d) # {} \/ daemon[d] \in {"reconcile", "stat", "bind", "bound", "serving"}
                   => flock = d

\* The listener of a daemon that accepts is the one behind the path: no start of another
\* daemon removes or replaces the socket file of a live one (remove_stale_socket).
FileIsOurs == \A d \in Daemons : accept[d] = "accepting" => path = d

\* An answer that says TERMINAL also says that the result is available, although the row
\* and the result are read by two queries (task_poll), also over a restart.
PollConsistent == \A i \in Conns : conns[i].reply = "ok" /\ conns[i].view.phase = "TERMINAL" => conns[i].view.result

\* A signalled daemon ends, with connections open, a poll under way, or in its start.
ShutdownCompletes == \A d \in Daemons : signal[d] ~> daemon[d] = "gone"
=============================================================================
