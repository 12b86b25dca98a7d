------------------------------- MODULE Driver -------------------------------
(***************************************************************************)
(* The driver of one app-server process: the reader of its stdout, the     *)
(* thread that watches for its exit, the dispatcher that correlates        *)
(* responses with pending requests, and the table of pending requests.     *)
(*                                                                         *)
(* The app-server is external. It follows one of a set of conversations,   *)
(* in which it may answer late, twice or never and repeat identities; it   *)
(* stops talking or exits at any point of it, and may leave a descendant   *)
(* behind that keeps its pipes open.                                       *)
(***************************************************************************)
EXTENDS Integers, Sequences, FiniteSets

CONSTANTS MaxRequests,    \* bound on the request ids the driver hands out
          MaxPipe,        \* lines the stdout pipe holds before the writer waits
          Conversations,  \* sequences of lines the app-server may say
          Exits,          \* how it may exit by itself in each of them: status and orphan
          Ids             \* identities in those lines: turns, tools, chunks, wire ids

VARIABLES
  proc,        \* the process: alive, exit status, a descendant holds its pipes
  talk,        \* the lines this app-server has said
  wire,        \* lines in the stdout pipe
  reader,      \* read_loop: "reading" or "done"
  turnActive,  \* its turn_active
  raw,         \* channel from reader and monitor to the dispatcher
  monitor,     \* monitor_child: "polling" or "done"
  late,        \* the exit was published before the reader was done
  dispatcher,  \* "running" or "ended"
  inbox,       \* channel from the dispatcher to the event pump
  nextId,      \* next_id
  pending,     \* keys of the pending table
  reply,       \* what was sent to the waiter of a request
  sends        \* session/send frames the process has read and not yet turned into a turn

driverVars == <<proc, talk, wire, reader, turnActive, raw, monitor, late, dispatcher, inbox,
                nextId, pending, reply, sends>>
streamVars == <<proc, talk, wire, reader, turnActive, raw, monitor, late, dispatcher, inbox>>
tableVars == <<nextId, pending, reply>>

Requests == 1..MaxRequests
TurnKinds == {"started", "completed", "failed"}

\* What a line may be: a response by the id it answers, a turn event, another event of
\* the session or the telemetry, a server request by its id, or a line without meaning.
LineKinds == TurnKinds \cup {"result", "error", "text", "reasoning", "model", "modelEnd", "tool", "toolEnd",
                             "telemetry", "telemetryTool", "telemetryOther", "permission", "preferences",
                             "malformed", "oversized"}
Lines == {line \in [k : LineKinds, v : Nat] : line.k = "permission" => line.v \in Ids}

ASSUME DriverAssumption == /\ MaxRequests \in Nat /\ IsFiniteSet(Ids)
                           /\ \A c \in Conversations : c \in Seq(Lines)

\* The lifecycle item that announces a turn event, named for the turn state it records.
Announced == [started |-> "turnActive", completed |-> "turnIdle", failed |-> "turnFailed"]
Item(k, v, ok) == [k |-> k, v |-> v, ok |-> ok]

DriverInit ==
  /\ proc = [alive |-> TRUE, exit |-> "none", orphan |-> FALSE]
  /\ talk = <<>>
  /\ wire = <<>> /\ raw = <<>> /\ inbox = <<>>
  /\ reader = "reading" /\ turnActive = FALSE
  /\ monitor = "polling" /\ late = FALSE
  /\ dispatcher = "running"
  /\ nextId = 1 /\ pending = {}
  /\ reply = [r \in Requests |-> "none"]
  /\ sends = 0

(* ----------------------------- app-server ------------------------------ *)
\* A response answers a request the driver has sent, and a turn starts only in
\* answer to a session/send.
Sayable(line) == /\ line.k \in {"result", "error"} => line.v < nextId
                 /\ line.k = "started" => sends > 0

\* The conversations the app-server may be in.
Possible == {c \in Conversations : Len(talk) <= Len(c) /\ SubSeq(c, 1, Len(talk)) = talk}
NextLines == {c[Len(talk) + 1] : c \in {c \in Possible : Len(talk) < Len(c)}}

Say == /\ proc.alive
       /\ Len(wire) < MaxPipe
       /\ \E line \in NextLines :
            /\ Sayable(line)
            /\ sends' = IF line.k = "started" THEN sends - 1 ELSE sends
            /\ wire' = Append(wire, line)
            /\ talk' = Append(talk, line)
       /\ UNCHANGED <<proc, reader, turnActive, raw, monitor, late, dispatcher, inbox, tableVars>>

Exit(status, orphan) ==
  /\ proc.alive
  /\ proc' = [alive |-> FALSE, exit |-> status, orphan |-> orphan]
  /\ sends' = 0
  /\ UNCHANGED <<talk, wire, reader, turnActive, raw, monitor, late, dispatcher, inbox, tableVars>>

OrphanDies == /\ proc.orphan
              /\ proc' = [proc EXCEPT !.orphan = FALSE]
              /\ UNCHANGED <<sends, talk, wire, reader, turnActive, raw, monitor, late, dispatcher, inbox, tableVars>>

(* ------------------- read_loop and classify_lifecycle ------------------ *)
InOrder(kind, active) == (kind = "started") = ~active

\* parse_line: only the three turn events are known events. A known event is
\* announced as a lifecycle item, with its order, before the message itself.
Parse(line) ==
  IF line.k \in TurnKinds
  THEN <<Item(Announced[line.k], line.v, InOrder(line.k, turnActive)),
         Item(line.k, line.v, TRUE)>>
  ELSE <<Item(line.k, line.v, line.k # "error")>>

\* A line over the limit ends the reader.
Read == /\ reader = "reading" /\ wire # <<>>
        /\ LET line == Head(wire)
           IN /\ raw' = raw \o Parse(line)
              /\ turnActive' = IF line.k \in TurnKinds /\ InOrder(line.k, turnActive)
                               THEN ~turnActive ELSE turnActive
              /\ reader' = IF line.k = "oversized" THEN "done" ELSE "reading"
        /\ wire' = Tail(wire)
        /\ UNCHANGED <<sends, proc, talk, monitor, late, dispatcher, inbox, tableVars>>

\* End of file, once nobody holds the pipe any more.
ReadEof == /\ reader = "reading" /\ wire = <<>>
           /\ ~proc.alive /\ ~proc.orphan
           /\ reader' = "done" /\ turnActive' = FALSE
           /\ UNCHANGED <<sends, proc, talk, wire, raw, monitor, late, dispatcher, inbox, tableVars>>

(* ---------------------------- monitor_child ---------------------------- *)
\* The child is reaped; the exit is published when the reader is done or one second
\* has passed.
MonitorPublishes == /\ monitor = "polling" /\ ~proc.alive
                    /\ monitor' = "done"
                    /\ late' = (reader # "done")
                    /\ raw' = Append(raw, Item("exit", 0, proc.exit = "zero"))
                    /\ UNCHANGED <<sends, proc, talk, wire, reader, turnActive, dispatcher, inbox, tableVars>>

(* --------------------------- spawn_dispatcher -------------------------- *)
DrainPending(why) == /\ reply' = [r \in Requests |-> IF r \in pending THEN why ELSE reply[r]]
                     /\ pending' = {}
                     /\ UNCHANGED nextId

DispatchResponse ==
  /\ raw # <<>> /\ Head(raw).k \in {"result", "error"}
  /\ IF Head(raw).v \in pending
     THEN /\ pending' = pending \ {Head(raw).v}
          /\ reply' = [reply EXCEPT ![Head(raw).v] = Head(raw).k]
          /\ UNCHANGED <<nextId, inbox>>
     ELSE /\ inbox' = Append(inbox, Item("unmatched", Head(raw).v, Head(raw).ok))
          /\ UNCHANGED tableVars

DispatchExit == /\ raw # <<>> /\ Head(raw).k = "exit"
                /\ DrainPending("childExited")
                /\ inbox' = Append(inbox, Head(raw))

DispatchOther == /\ raw # <<>> /\ Head(raw).k \notin {"result", "error", "exit"}
                 /\ inbox' = Append(inbox, Head(raw))
                 /\ UNCHANGED tableVars

Dispatch == /\ dispatcher = "running"
            /\ DispatchResponse \/ DispatchExit \/ DispatchOther
            /\ raw' = Tail(raw)
            /\ UNCHANGED <<sends, proc, talk, wire, reader, turnActive, monitor, late, dispatcher>>

\* Both senders of the raw channel are gone.
DispatchEnds == /\ dispatcher = "running"
                /\ raw = <<>> /\ reader = "done" /\ monitor = "done"
                /\ dispatcher' = "ended"
                /\ DrainPending("streamClosed")
                /\ UNCHANGED <<sends, proc, talk, wire, reader, turnActive, raw, monitor, late, inbox>>

(* --------------------- begin_request and wait -------------------------- *)
\* The entry is in the table before the frame is written.
BeginRequest == /\ nextId <= MaxRequests
                /\ nextId' = nextId + 1
                /\ pending' = pending \cup {nextId}
                /\ UNCHANGED <<reply, streamVars>>

\* A pipe nobody reads refuses the frame; a descendant may still hold it.
WriteSucceeds == proc.alive \/ proc.orphan
WriteFails == ~proc.alive

\* A failed write and the end of a wait remove the entry, whoever else did before; the
\* receiver of the reply is dropped with it.
RemoveEntry(r) == /\ pending' = pending \ {r}
                  /\ reply' = [reply EXCEPT ![r] = "none"]
                  /\ UNCHANGED <<nextId, streamVars>>

DriverThreads == Read \/ ReadEof \/ MonitorPublishes \/ Dispatch \/ DispatchEnds

AppServer == \/ Say
             \/ proc.alive /\ \E c \in Possible : \E exit \in Exits[c] : Exit(exit.status, exit.orphan)
             \/ OrphanDies
=============================================================================
