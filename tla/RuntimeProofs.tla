--------------------------- MODULE RuntimeProofs ---------------------------
(***************************************************************************)
(* Machine-checked safety of one runtime for any set of conversations, any *)
(* number of messages and responders, and any budget.                      *)
(***************************************************************************)
EXTENDS Runtime, FiniteSetTheorems, TLAPS

(* -------------------------------- types -------------------------------- *)
ItemKinds == LineKinds \cup {"turnActive", "turnIdle", "turnFailed", "unmatched", "exit", "none"}
Items == {item \in [k : ItemKinds, v : Nat, ok : BOOLEAN] : item.k = "permission" => item.v \in Ids}

DriverTypes == {"driver.message", "driver.lifecycle", "driver.unmatched_response", "driver.malformed",
                "driver.oversized_line", "driver.child_exited", "raw.unknown"}
Records == [seq : Nat, type : DriverTypes \cup TerminalTypes]

FinAts == {"starting", "idle", "close", "lock", "cooperate", "cooperating", "failClosed", "begin", "reap",
           "await", "publish", "persist", "store", "done"}
Whys == {None, "start", "recheck", "delivery", "control", "boundary", "exit", "sink", "budget", "timeout", "cancel"}
Withs == {None, "completed", "failed"} \cup Terminals \cup Results
Fins == [at : FinAts, with : Withs, why : Whys]

RowStates == {None, "pending", "sending", "responded"}

\* A sink by its fields; what the tracker of activity makes of events is not needed.
SinkFields == {"failed", "last", "pendingTerminal", "written", "turns", "tools", "violation", "activity"}
IsSink(s) == /\ s = [x \in SinkFields |-> s[x]]
             /\ s.failed \in BOOLEAN /\ s.written \in BOOLEAN
             /\ s.last \in Nat /\ s.pendingTerminal \in Nat

StreamTypes ==
  /\ wire \in Seq(Lines) /\ raw \in Seq(Items) /\ inbox \in Seq(Items) /\ held \in Items
  /\ reader \in {"reading", "done"} /\ monitor \in {"polling", "done"}
  /\ late \in BOOLEAN /\ boundary \in BOOLEAN
  /\ dispatcher \in {"running", "ended"} /\ pump \in {"idle", "holding", "ended"}
  /\ verdict \in Terminals \cup {None}

OwnerTypes ==
  /\ phase \in {"PREPARING", "RUNNING", "STOPPING", "TERMINAL"}
  /\ ingress \in {"Running", "Stopping", "Terminal"}
  /\ owner \in {"Running", "Stopping", "Terminal"}
  /\ terminal \in Terminals \cup {None} /\ (terminal = None) = (owner # "Terminal")
  /\ result \in Results \cup {None} /\ (result = None) = (phase # "TERMINAL")
  /\ sequence \in Nat \ {0}
  /\ IsSink(sink) /\ log \in Seq(Records)
  /\ requests \in [Ids -> RowStates]

(* ----------------------------- invariants ------------------------------ *)
NoExit(items) == \A i \in DOMAIN items : items[i].k # "exit"
ExitIsLast(items) == \A i \in DOMAIN items : items[i].k = "exit" => i = Len(items)

\* Unless it was late, the exit is the last item on its way to the publisher.
QueueInv ==
  /\ monitor = "polling" => ~late /\ ~boundary /\ held.k # "exit" /\ NoExit(raw) /\ NoExit(inbox)
  /\ monitor = "done" /\ ~late => reader = "done"
  /\ ~late => /\ ExitIsLast(raw) /\ ExitIsLast(inbox)
              /\ ~NoExit(inbox) \/ held.k = "exit" \/ boundary => raw = <<>>
              /\ held.k = "exit" \/ boundary => inbox = <<>>
  /\ boundary => pump = "ended"
  /\ verdict # None => held.k = "exit"
  /\ pump # "holding" => held = NoItem

\* An orderly terminal stands on the exit boundary; a thread that goes on after the
\* publication has the published terminal.
GoodFin(x) ==
  /\ x.at = "publish" => x.with \in Terminals /\ (x.with \in Orderly => boundary \/ owner = "Terminal")
  /\ x.at = "persist" => owner = "Terminal" /\ x.with = terminal
  /\ x.at = "store" => owner = "Terminal" /\ x.with \in Results
PublishInv ==
  /\ terminal \in Orderly => boundary
  /\ \A f \in Threads : GoodFin(fin[f])

\* The log until the result is stored: no terminal record, and all numbers below the
\* one the terminal record will have.
NoTerminal(l) == \A i \in DOMAIN l : l[i].type \notin TerminalTypes
Increasing(l) == \A i \in 1..(Len(l) - 1) : l[i].seq < l[i + 1].seq
Below(l, n) == \A i \in DOMAIN l : l[i].seq < n
LogInv ==
  /\ sink.last < sequence
  /\ sink.pendingTerminal > 0 => owner = "Terminal"
  /\ phase # "TERMINAL" => /\ Below(log, sink.last + 1) /\ NoTerminal(log)
                           /\ sink.pendingTerminal > 0 => Below(log, sink.pendingTerminal)
  /\ owner # "Terminal" => NoTerminal(log)
  /\ \A i \in DOMAIN log : log[i].type \in TerminalTypes => log[i].type = TerminalType[terminal]
  /\ Increasing(log) /\ TerminalIsLast

(* ------------------------------ the sink ------------------------------- *)
(* The parts of the tables. *)
LEMMA TablesParts ==
  ASSUME NEW s, NEW l, NEW rows
  PROVE  Tables(s, l, rows).sink = s /\ Tables(s, l, rows).log = l /\ Tables(s, l, rows).requests = rows
<1> QED BY DEF Tables

(* Budgets and activity are fields of the sink of their own. *)
LEMMA SeenKeeps ==
  ASSUME NEW s, IsSink(s), NEW item
  PROVE  LET b == Seen(s, item)
         IN /\ IsSink(b) /\ b.failed = s.failed /\ b.last = s.last
            /\ b.pendingTerminal = s.pendingTerminal /\ b.written = s.written
<1>1. LET b == BudgetObserve(s, item)
      IN /\ IsSink(b) /\ b.failed = s.failed /\ b.last = s.last
         /\ b.pendingTerminal = s.pendingTerminal /\ b.written = s.written
  BY DEF BudgetObserve, IsSink, SinkFields
<1> DEFINE b == BudgetObserve(s, item)
<1> HIDE DEF b
<1>2. Seen(s, item) = [b EXCEPT !.activity = ActivityObserve(b.activity, item)]
  BY DEF Seen, b
<1> QED BY <1>1, <1>2 DEF b, IsSink, SinkFields

(* A failed sink keeps its other fields. *)
LEMMA FailedSink ==
  ASSUME NEW s, IsSink(s)
  PROVE  LET b == [s EXCEPT !.failed = TRUE]
         IN /\ IsSink(b) /\ b.failed /\ b.last = s.last
            /\ b.pendingTerminal = s.pendingTerminal /\ b.written = s.written
<1> QED BY DEF IsSink, SinkFields

(* append_lifecycle appends, or fails, or finds the number there. *)
LEMMA AppendEffect ==
  ASSUME NEW s, IsSink(s), NEW l, NEW rows, NEW seq, NEW type
  PROVE  LET e == AppendLifecycle(Tables(s, l, rows), seq, type)
             failed == [s EXCEPT !.failed = TRUE]
         IN \/ (\E i \in DOMAIN l : l[i].seq = seq) /\ e = Tables(s, l, rows)
            \/ phase = "TERMINAL" /\ e = Tables(failed, l, rows)
            \/ phase # "TERMINAL" /\ e = Tables(s, Append(l, [seq |-> seq, type |-> type]), rows)
<1> DEFINE d == Tables(s, l, rows)
           e == AppendLifecycle(d, seq, type)
<1>1. d.sink = s /\ d.log = l /\ d.requests = rows
  BY TablesParts
<1>2. CASE \E i \in DOMAIN l : l[i].seq = seq
  BY <1>1, <1>2 DEF AppendLifecycle
<1>3. CASE ~(\E i \in DOMAIN l : l[i].seq = seq) /\ phase = "TERMINAL"
  BY <1>1, <1>3 DEF AppendLifecycle
<1>4. CASE ~(\E i \in DOMAIN l : l[i].seq = seq) /\ phase # "TERMINAL"
  BY <1>1, <1>4 DEF AppendLifecycle
<1> QED BY <1>2, <1>3, <1>4

(* Before the result is stored, a record with a new number is appended. *)
LEMMA AppendNew ==
  ASSUME NEW s, NEW l, NEW rows, NEW seq, NEW type, phase # "TERMINAL", ~ \E i \in DOMAIN l : l[i].seq = seq
  PROVE  AppendLifecycle(Tables(s, l, rows), seq, type) = Tables(s, Append(l, [seq |-> seq, type |-> type]), rows)
<1> DEFINE d == Tables(s, l, rows)
<1>1. d.sink = s /\ d.log = l /\ d.requests = rows
  BY TablesParts
<1> QED BY <1>1 DEF AppendLifecycle

(* What an event that reaches the sink may change. *)
LEMMA SunkEffect ==
  ASSUME NEW s, IsSink(s), NEW l \in Seq(Records), NEW rows \in [Ids -> RowStates],
         NEW seq \in Nat, NEW item, item \in Items \/ item = TerminalItem
  PROVE  \E s2, l2, rows2 :
            /\ Sunk(Tables(s, l, rows), seq, item) = Tables(s2, l2, rows2)
            /\ IsSink(s2) /\ s2.written = s.written
            /\ \/ l2 = l /\ s2.last \in {s.last, seq}
               \/ /\ phase # "TERMINAL" /\ item \in Items /\ s2.last = seq
                  /\ l2 = Append(l, [seq |-> seq, type |-> Projected(item)])
            /\ \/ s2.pendingTerminal = s.pendingTerminal
               \/ item = TerminalItem /\ s2.pendingTerminal = seq
            /\ \/ rows2 = rows
               \/ /\ item \in Items /\ item.k = "permission" /\ phase = "RUNNING" /\ rows[item.v] = None
                  /\ rows2 = [rows EXCEPT ![item.v] = "pending"]
<1> DEFINE seen == Seen(s, item)
           c == [seen EXCEPT !.last = seq]
           d == Tables(s, l, rows)
           e == Sunk(d, seq, item)
<1>1. IsSink(seen) /\ seen.failed = s.failed /\ seen.last = s.last /\ seen.pendingTerminal = s.pendingTerminal
      /\ seen.written = s.written
  BY SeenKeeps
<1>2. d.sink = s /\ d.log = l /\ d.requests = rows
  BY TablesParts
<1> HIDE DEF seen
<1>3. IsSink(c) /\ c.failed = s.failed /\ c.last = seq /\ c.pendingTerminal = s.pendingTerminal
      /\ c.written = s.written
  BY <1>1 DEF IsSink, SinkFields
<1>4. CASE ingress # "Running"
  <2>1. e = Tables(s, l, rows)
    BY <1>4 DEF Sunk
  <2> QED BY <2>1
<1>5. CASE ingress = "Running" /\ s.failed
  <2>1. e = Tables(seen, l, rows)
    BY <1>2, <1>5 DEF Sunk, seen
  <2> QED BY <1>1, <2>1
<1>6. CASE ingress = "Running" /\ ~s.failed /\ item.k = "terminal"
  <2>1. item = TerminalItem
    BY <1>6 DEF Items, ItemKinds, LineKinds, TurnKinds
  <2>2. e = Tables([c EXCEPT !.pendingTerminal = seq], l, rows)
    BY <1>2, <1>6 DEF Sunk, seen, InsertFails
  <2> HIDE DEF e, c
  <2>3. IsSink([c EXCEPT !.pendingTerminal = seq]) /\ [c EXCEPT !.pendingTerminal = seq].last = seq
        /\ [c EXCEPT !.pendingTerminal = seq].pendingTerminal = seq
        /\ [c EXCEPT !.pendingTerminal = seq].written = s.written
    BY <1>3 DEF IsSink, SinkFields
  <2> QED BY <2>1, <2>2, <2>3 DEF e
<1>7. CASE ingress = "Running" /\ ~s.failed /\ item.k # "terminal" /\ InsertFails(item, rows)
  <2>1. e = Tables([c EXCEPT !.failed = TRUE], l, rows)
    BY <1>2, <1>7 DEF Sunk, seen
  <2> HIDE DEF e, c
  <2>2. IsSink([c EXCEPT !.failed = TRUE]) /\ [c EXCEPT !.failed = TRUE].last = seq
        /\ [c EXCEPT !.failed = TRUE].pendingTerminal = s.pendingTerminal
        /\ [c EXCEPT !.failed = TRUE].written = s.written
    BY <1>3, FailedSink
  <2> QED BY <2>1, <2>2 DEF e
<1>8. CASE ingress = "Running" /\ ~s.failed /\ item.k # "terminal" /\ ~InsertFails(item, rows)
  <2> DEFINE rows2 == IF item.k = "permission" THEN [rows EXCEPT ![item.v] = "pending"] ELSE rows
  <2>1. e = AppendLifecycle(Tables(c, l, rows2), seq, Projected(item))
    BY <1>2, <1>8 DEF Sunk, seen
  <2>2. item \in Items
    BY <1>8 DEF TerminalItem, Item
  <2>3. \/ rows2 = rows
        \/ /\ item.k = "permission" /\ phase = "RUNNING" /\ rows[item.v] = None
           /\ rows2 = [rows EXCEPT ![item.v] = "pending"]
    BY <1>8 DEF InsertFails
  <2> HIDE DEF e, c, rows2
  <2>4. IsSink([c EXCEPT !.failed = TRUE]) /\ [c EXCEPT !.failed = TRUE].last = seq
        /\ [c EXCEPT !.failed = TRUE].pendingTerminal = s.pendingTerminal
        /\ [c EXCEPT !.failed = TRUE].written = s.written
    BY <1>3, FailedSink
  <2>5. \/ e = Tables(c, l, rows2)
        \/ e = Tables([c EXCEPT !.failed = TRUE], l, rows2)
        \/ phase # "TERMINAL" /\ e = Tables(c, Append(l, [seq |-> seq, type |-> Projected(item)]), rows2)
    BY <1>3, <2>1, AppendEffect
  <2> QED BY <1>3, <2>2, <2>3, <2>4, <2>5 DEF e
<1> QED BY <1>4, <1>5, <1>6, <1>7, <1>8

(* ---------------------- the way to the publisher ----------------------- *)
(* Names of the kinds, from which a kind is known not to be another.       *)
LEMMA KindNames ==
  /\ \A line \in Lines : line.k \in LineKinds /\ line.k # "exit" /\ line.k # "none" /\ line.k # "terminal"
  /\ \A item \in Items : item.k # "terminal"
<1> QED BY DEF Lines, LineKinds, TurnKinds, Items, ItemKinds

(* An item of a kind and a value is one of Items. *)
LEMMA ItemIn ==
  ASSUME NEW k \in ItemKinds, NEW v \in Nat, NEW ok \in BOOLEAN, k = "permission" => v \in Ids
  PROVE  Item(k, v, ok) \in Items /\ Item(k, v, ok).k = k
<1> QED BY DEF Items, Item

(* Two items in a row. *)
LEMMA PairOfItems ==
  ASSUME NEW a \in Items, NEW b \in Items, a.k # "exit", b.k # "exit"
  PROVE  <<a, b>> \in Seq(Items) /\ NoExit(<<a, b>>)
<1> QED BY DEF NoExit

(* parse_line makes one or two items of a line, none of them the exit. *)
LEMMA ParseItems ==
  ASSUME NEW line \in Lines
  PROVE  Parse(line) \in Seq(Items) /\ NoExit(Parse(line))
<1>1. line.k \in LineKinds /\ line.v \in Nat /\ (line.k = "permission" => line.v \in Ids) /\ line.k # "exit"
  BY KindNames DEF Lines
<1>2. CASE line.k \in TurnKinds
  <2>1. Announced[line.k] \in {"turnActive", "turnIdle", "turnFailed"}
    BY <1>2 DEF Announced, TurnKinds
  <2>2. Item(Announced[line.k], line.v, InOrder(line.k, turnActive)) \in Items
    BY <1>1, <2>1, ItemIn DEF ItemKinds, InOrder
  <2>3. Item(line.k, line.v, TRUE) \in Items
    BY <1>1, ItemIn DEF ItemKinds
  <2>4. Item(Announced[line.k], line.v, InOrder(line.k, turnActive)).k # "exit" /\ Item(line.k, line.v, TRUE).k # "exit"
    BY <1>1, <2>1 DEF Item
  <2> QED BY <1>2, <2>2, <2>3, <2>4, PairOfItems DEF Parse
<1>3. CASE line.k \notin TurnKinds
  <2>1. Item(line.k, line.v, line.k # "error") \in Items
    BY <1>1, ItemIn DEF ItemKinds
  <2>2. Item(line.k, line.v, line.k # "error").k # "exit"
    BY <1>1 DEF Item
  <2> QED BY <1>3, <2>1, <2>2 DEF Parse, NoExit
<1> QED BY <1>2, <1>3

(* Joining two queues of items. *)
LEMMA JoinNoExit ==
  ASSUME NEW a \in Seq(Items), NEW b \in Seq(Items), NoExit(a), NoExit(b)
  PROVE  a \o b \in Seq(Items) /\ NoExit(a \o b)
<1> QED BY DEF NoExit

(* Appending to it. *)
LEMMA AppendItem ==
  ASSUME NEW a \in Seq(Items), NEW item \in Items, NoExit(a)
  PROVE  /\ Append(a, item) \in Seq(Items) /\ ExitIsLast(Append(a, item))
         /\ item.k # "exit" => NoExit(Append(a, item))
<1> QED BY DEF NoExit, ExitIsLast

(* Taking its head. *)
LEMMA TakeItem ==
  ASSUME NEW a \in Seq(Items), a # <<>>
  PROVE  /\ Head(a) \in Items /\ Tail(a) \in Seq(Items)
         /\ NoExit(a) => NoExit(Tail(a)) /\ Head(a).k # "exit"
         /\ ExitIsLast(a) => ExitIsLast(Tail(a))
         /\ ExitIsLast(a) /\ Head(a).k = "exit" => Tail(a) = <<>>
         /\ ~NoExit(Tail(a)) => ~NoExit(a)
<1> QED BY DEF NoExit, ExitIsLast

StreamInv == StreamTypes /\ QueueInv

\* The actions that leave the way to the publisher alone.
Control == \/ Command
           \/ \E r \in Responders : Respond(r)
           \/ Decide \/ Cancel \/ \E reason \in IdleTimeouts : SeeTimeout(reason)
           \/ \E f \in Threads : Finish(f)
wayVars == <<wire, raw, inbox, held, reader, monitor, late, boundary, dispatcher, pump, verdict>>

(* The app-server's steps keep the invariant of the stream. *)
LEMMA StreamAppServer ==
  ASSUME StreamInv, AppServer, UNCHANGED <<restOfOwner, threadVars>>
  PROVE  StreamInv'
<1> USE DEF StreamInv, StreamTypes, QueueInv, NoExit, ExitIsLast
<1>1. CASE Say
  <2>1. PICK line \in NextLines : wire' = Append(wire, line)
    BY <1>1 DEF Say
  <2>2. line \in Lines
    <3>1. PICK c \in Conversations : Len(talk) < Len(c) /\ line = c[Len(talk) + 1]
      BY DEF NextLines, Possible
    <3> QED BY <3>1, DriverAssumption
  <2>3. wire' \in Seq(Lines)
    BY <2>1, <2>2
  <2> QED BY <1>1, <2>3 DEF Say, restOfOwner, ownerVars, pumpVars
<1>2. CASE \E status, orphan : Exit(status, orphan)
  BY <1>2 DEF Exit, restOfOwner, ownerVars, pumpVars
<1>3. CASE OrphanDies
  BY <1>3 DEF OrphanDies, restOfOwner, ownerVars, pumpVars
<1> QED BY <1>1, <1>2, <1>3 DEF AppServer

(* The reader, the monitor and the dispatcher keep it: the exit is appended *)
(* once, and while nothing can follow it unless it was late.               *)
LEMMA StreamThreads ==
  ASSUME StreamInv, DriverThreads, UNCHANGED <<restOfOwner, threadVars>>
  PROVE  StreamInv'
<1>u. UNCHANGED <<held, boundary, pump, verdict>>
  BY DEF restOfOwner, ownerVars, pumpVars
<1>1. CASE Read
  <2>1. /\ reader = "reading" /\ wire # <<>> /\ wire' = Tail(wire) /\ raw' = raw \o Parse(Head(wire))
        /\ reader' \in {"reading", "done"} /\ UNCHANGED <<monitor, late, dispatcher, inbox>>
    BY <1>1 DEF Read
  <2>2. Head(wire) \in Lines /\ wire' \in Seq(Lines)
    BY <2>1 DEF StreamInv, StreamTypes
  <2>3. CASE late
    <3>1. raw' \in Seq(Items)
      BY <2>1, <2>2, ParseItems DEF StreamInv, StreamTypes
    <3> QED BY <1>u, <2>1, <2>2, <2>3, <3>1 DEF StreamInv, StreamTypes, QueueInv
  <2>4. CASE ~late
    <3>1. monitor = "polling" /\ NoExit(raw) /\ NoExit(inbox)
      BY <2>1, <2>4 DEF StreamInv, StreamTypes, QueueInv
    <3>2. raw' \in Seq(Items) /\ NoExit(raw')
      BY <2>1, <2>2, <3>1, ParseItems, JoinNoExit DEF StreamInv, StreamTypes
    <3>3. NoExit(inbox)' /\ ExitIsLast(inbox)' /\ ExitIsLast(raw)'
      BY <2>1, <3>1, <3>2 DEF NoExit, ExitIsLast
    <3> QED BY <1>u, <2>1, <2>2, <2>4, <3>1, <3>2, <3>3 DEF StreamInv, StreamTypes, QueueInv
  <2> QED BY <2>3, <2>4
<1>2. CASE ReadEof
  BY <1>u, <1>2 DEF ReadEof, StreamInv, StreamTypes, QueueInv, NoExit, ExitIsLast
<1>3. CASE MonitorPublishes
  <2> DEFINE e == Item("exit", 0, proc.exit = "zero")
  <2>1. /\ monitor = "polling" /\ monitor' = "done" /\ late' = (reader # "done") /\ raw' = Append(raw, e)
        /\ UNCHANGED <<wire, reader, dispatcher, inbox>>
    BY <1>3 DEF MonitorPublishes
  <2>2. e \in Items /\ e.k = "exit"
    BY ItemIn DEF ItemKinds
  <2> HIDE DEF e
  <2>3. NoExit(raw) /\ NoExit(inbox) /\ held.k # "exit" /\ ~boundary
    BY <2>1 DEF StreamInv, QueueInv
  <2>4. raw' \in Seq(Items) /\ ExitIsLast(raw') /\ NoExit(inbox') /\ ExitIsLast(inbox')
    BY <2>1, <2>2, <2>3, AppendItem DEF StreamInv, StreamTypes, NoExit, ExitIsLast
  <2> QED BY <1>u, <2>1, <2>3, <2>4 DEF StreamInv, StreamTypes, QueueInv
<1>4. CASE Dispatch
  <2>1. /\ raw # <<>> /\ raw' = Tail(raw) /\ UNCHANGED <<wire, reader, monitor, late, dispatcher>>
    BY <1>4 DEF Dispatch, DispatchResponse, DispatchExit, DispatchOther
  <2>2. Head(raw) \in Items /\ raw' \in Seq(Items)
    BY <2>1, TakeItem DEF StreamInv, StreamTypes
  <2>3. \/ inbox' = inbox
        \/ \E item \in Items : inbox' = Append(inbox, item) /\ (item.k = "exit" => Head(raw).k = "exit")
    <3>1. CASE DispatchResponse
      <4>1. Item("unmatched", Head(raw).v, Head(raw).ok) \in Items
            /\ Item("unmatched", Head(raw).v, Head(raw).ok).k = "unmatched"
        <5>1. Head(raw).v \in Nat /\ Head(raw).ok \in BOOLEAN
          BY <2>2 DEF Items
        <5>2. "unmatched" \in ItemKinds
          BY DEF ItemKinds
        <5> QED BY <5>1, <5>2, ItemIn
      <4> QED BY <3>1, <4>1 DEF DispatchResponse
    <3>2. CASE DispatchExit \/ DispatchOther
      BY <2>2, <3>2 DEF DispatchExit, DispatchOther
    <3> QED BY <1>4, <3>1, <3>2 DEF Dispatch
  <2>4. inbox' \in Seq(Items)
    <3>1. inbox \in Seq(Items)
      BY DEF StreamInv, StreamTypes
    <3> QED BY <2>3, <3>1
  <2>5. CASE late
    BY <1>u, <2>1, <2>2, <2>4, <2>5 DEF StreamInv, StreamTypes, QueueInv
  <2>6. CASE ~late
    <3>1. NoExit(inbox) /\ held.k # "exit" /\ ~boundary /\ ExitIsLast(raw)
      BY <2>1, <2>6 DEF StreamInv, QueueInv
    <3>2. ExitIsLast(raw') /\ (Head(raw).k = "exit" => raw' = <<>>) /\ (NoExit(raw) => NoExit(raw') /\ Head(raw).k # "exit")
      BY <2>1, <3>1, TakeItem DEF StreamInv, StreamTypes
    <3>3. ExitIsLast(inbox') /\ (~NoExit(inbox') => Head(raw).k = "exit")
      <4>1. CASE inbox' = inbox
        BY <3>1, <4>1 DEF NoExit, ExitIsLast
      <4>2. CASE inbox' # inbox
        BY <2>3, <3>1, <4>2, AppendItem DEF StreamInv, StreamTypes
      <4> QED BY <4>1, <4>2
    <3> QED BY <1>u, <2>1, <2>2, <2>4, <2>6, <3>1, <3>2, <3>3 DEF StreamInv, StreamTypes, QueueInv
  <2> QED BY <2>5, <2>6
<1>5. CASE DispatchEnds
  BY <1>u, <1>5 DEF DispatchEnds, StreamInv, StreamTypes, QueueInv, NoExit, ExitIsLast
<1> QED BY <1>1, <1>2, <1>3, <1>4, <1>5 DEF DriverThreads

(* The pump keeps it: it takes the exit last and ends with it. *)
LEMMA StreamPump ==
  ASSUME StreamInv, Pump
  PROVE  StreamInv'
<1>1. CASE PumpTake
  <2>1. /\ pump = "idle" /\ pump' = "holding" /\ inbox # <<>> /\ inbox' = Tail(inbox) /\ held' = Head(inbox)
        /\ UNCHANGED <<wire, raw, reader, monitor, late, boundary, dispatcher>>
    BY <1>1 DEF PumpTake, ownerVars
  <2>2. /\ verdict' \in Terminals \cup {None}
        /\ verdict' # None => held'.k = "exit"
    BY <1>1 DEF PumpTake, ExitVerdict, Terminals, Orderly
  <2>3. /\ held' \in Items /\ inbox' \in Seq(Items)
        /\ NoExit(inbox) => NoExit(inbox') /\ held'.k # "exit"
        /\ ExitIsLast(inbox) => ExitIsLast(inbox') /\ (held'.k = "exit" => inbox' = <<>>)
        /\ ~NoExit(inbox') => ~NoExit(inbox)
    BY <2>1, TakeItem DEF StreamInv, StreamTypes
  <2>4. ~boundary
    BY <2>1 DEF StreamInv, QueueInv
  <2>5. StreamTypes'
    BY <2>1, <2>2, <2>3 DEF StreamInv, StreamTypes
  <2>6. NoExit(raw) => NoExit(raw)'
    BY <2>1 DEF NoExit
  <2>7. ExitIsLast(raw) => ExitIsLast(raw)'
    BY <2>1 DEF ExitIsLast
  <2>8. held'.k = "exit" => ~NoExit(inbox)
    BY <2>3
  <2> QED BY <2>1, <2>2, <2>3, <2>4, <2>5, <2>6, <2>7, <2>8 DEF StreamInv, QueueInv
<1>2. CASE PumpCannotAnswer
  <2>1. /\ pump = "idle" /\ pump' = "ended"
        /\ UNCHANGED <<wire, raw, inbox, held, verdict, reader, monitor, late, boundary, dispatcher>>
    BY <1>2 DEF PumpCannotAnswer, driverVars
  <2> QED BY <2>1 DEF StreamInv, StreamTypes, QueueInv, NoExit, ExitIsLast
<1>3. CASE PumpEmit
  <2>1. /\ pump = "holding" /\ pump' = (IF held.k = "exit" THEN "ended" ELSE "idle")
        /\ held' = NoItem /\ verdict' = None
        /\ UNCHANGED <<wire, raw, inbox, reader, monitor, late, dispatcher>>
    BY <1>3 DEF PumpEmit, driverVars
  <2>2. boundary' \in BOOLEAN /\ (boundary' => boundary \/ held.k = "exit")
    BY <1>3 DEF PumpEmit, EmitDriver, ownerVars, StreamInv, StreamTypes
  <2>3. NoItem \in Items /\ NoItem.k # "exit"
    <3>1. None \in ItemKinds /\ None # "exit" /\ None # "permission"
      BY DEF ItemKinds, None
    <3> QED BY <3>1, ItemIn DEF NoItem
  <2>4. ~boundary
    BY <2>1 DEF StreamInv, QueueInv
  <2>5. StreamTypes'
    BY <2>1, <2>2, <2>3 DEF StreamInv, StreamTypes
  <2>6. (NoExit(raw) => NoExit(raw)') /\ (NoExit(inbox) <=> NoExit(inbox)')
    BY <2>1 DEF NoExit
  <2>7. (ExitIsLast(raw) => ExitIsLast(raw)') /\ (ExitIsLast(inbox) => ExitIsLast(inbox)')
    BY <2>1 DEF ExitIsLast
  <2> QED BY <2>1, <2>2, <2>3, <2>4, <2>5, <2>6, <2>7 DEF StreamInv, QueueInv
<1> QED BY <1>1, <1>2, <1>3 DEF Pump

(* No other thread touches the way from the pipe to the publisher. *)
LEMMA ControlKeepsWay ==
  ASSUME Control
  PROVE  UNCHANGED wayVars
<1> USE DEF wayVars, driverVars, streamVars, tableVars, restOfOwner, ownerVars, pumpVars, RemoveEntry, BeginRequest
<1>1. CASE Command
  BY <1>1 DEF Command, CmdBegin, CmdWrite, CmdReply, CmdTurn, CmdTimeout, MarkRunning, Recheck
<1>2. CASE \E r \in Responders : Respond(r)
  BY <1>2 DEF Respond, RespClaim, RespCheck, RespWrite, RespSent, RespComplete, RespFails, respFrame
<1>3. CASE Decide \/ Cancel \/ \E reason \in IdleTimeouts : SeeTimeout(reason)
  BY <1>3 DEF Decide, Cancel, StartFailed, DeliveryFailed, SeeBoundary, SeeTerminal, SeeSinkError, SeeViolation,
              SeeTimeout, CancelTask, LockTimeout, stopFrame
<1>4. CASE \E f \in Threads : Finish(f)
  BY <1>4 DEF Finish, CloseAndWait, Lock, FailClosed, Cooperate, Cooperated, FinishProcess, BeginStopping, Reap,
              AwaitBoundary, Publish, Finalize, Persist, stopFrame
<1> QED BY <1>1, <1>2, <1>3, <1>4 DEF Control

(* Unless it was late, the exit is the last thing that reaches the publisher. *)
LEMMA StreamInvariant == Spec => []StreamInv
<1>1. Init => StreamInv
  <2>1. NoItem \in Items /\ NoItem.k # "exit"
    <3>1. None \in ItemKinds /\ None # "exit" /\ None # "permission"
      BY DEF ItemKinds, None
    <3> QED BY <3>1, ItemIn DEF NoItem
  <2> SUFFICES ASSUME Init
               PROVE  StreamInv
    OBVIOUS
  <2>2. wire = <<>> /\ raw = <<>> /\ inbox = <<>> /\ held = NoItem /\ reader = "reading" /\ monitor = "polling"
        /\ late = FALSE /\ boundary = FALSE /\ dispatcher = "running" /\ pump = "idle" /\ verdict = None
    BY DEF Init, DriverInit
  <2>3. StreamTypes
    <3>1. wire \in Seq(Lines) /\ raw \in Seq(Items) /\ inbox \in Seq(Items)
      BY <2>2
    <3>2. late \in BOOLEAN /\ boundary \in BOOLEAN
      BY <2>2
    <3> QED BY <2>1, <2>2, <3>1, <3>2, Zenon DEF StreamTypes
  <2>4. QueueInv
    BY <2>1, <2>2 DEF QueueInv, NoExit, ExitIsLast
  <2> QED BY <2>3, <2>4 DEF StreamInv
<1>2. StreamInv /\ [Next]_vars => StreamInv'
  <2> SUFFICES ASSUME StreamInv, [Next]_vars
               PROVE  StreamInv'
    OBVIOUS
  <2>1. CASE UNCHANGED wayVars
    BY <2>1 DEF wayVars, StreamInv, StreamTypes, QueueInv, NoExit, ExitIsLast
  <2>2. CASE DriverStep
    BY <2>2, StreamAppServer, StreamThreads DEF DriverStep
  <2>3. CASE Pump
    BY <2>3, StreamPump
  <2>4. CASE Control
    BY <2>1, <2>4, ControlKeepsWay
  <2>5. UNCHANGED vars => UNCHANGED wayVars
    BY DEF vars, wayVars, driverVars, ownerVars, pumpVars
  <2> QED BY <2>1, <2>2, <2>3, <2>4, <2>5 DEF Next, Control
<1> QED BY <1>1, <1>2, PTL DEF Spec

(* ------------------------ the log of the runtime ----------------------- *)
(* The type of an event is none of the types of a terminal record. *)
LEMMA ProjectedTypes ==
  /\ \A item : Projected(item) \in DriverTypes
  /\ DriverTypes \cap TerminalTypes = {}
  /\ \A t \in Terminals : TerminalType[t] \in TerminalTypes
<1>1. \A item : Projected(item) \in DriverTypes
  BY DEF Projected, DriverTypes
<1>2. DriverTypes \cap TerminalTypes = {}
  BY DEF DriverTypes, TerminalTypes, TerminalType, Terminals, Orderly
<1> QED BY <1>1, <1>2 DEF TerminalTypes

(* The numbers of a log are numbers. *)
LEMMA RecordNumbers ==
  ASSUME NEW l \in Seq(Records)
  PROVE  \A i \in 1..Len(l) : i \in DOMAIN l /\ l[i] \in Records /\ l[i].seq \in Nat
<1>1. \A rec \in Records : rec.seq \in Nat
  BY DEF Records
<1> QED BY <1>1

(* A larger bound. *)
LEMMA BelowMore ==
  ASSUME NEW l \in Seq(Records), NEW m \in Nat, NEW n \in Nat, m <= n, Below(l, m)
  PROVE  Below(l, n)
<1>1. \A i \in DOMAIN l : l[i].seq \in Nat
  BY RecordNumbers
<1> QED BY <1>1 DEF Below

(* Appending a record with a number above all others. *)
LEMMA AppendRecord ==
  ASSUME NEW l \in Seq(Records), NEW n \in Nat, NEW type \in DriverTypes \cup TerminalTypes,
         Increasing(l), NoTerminal(l), Below(l, n)
  PROVE  LET l2 == Append(l, [seq |-> n, type |-> type])
         IN /\ l2 \in Seq(Records) /\ Increasing(l2) /\ Below(l2, n + 1)
            /\ \A i \in 1..(Len(l2) - 1) : l2[i].type \notin TerminalTypes
            /\ type \notin TerminalTypes => NoTerminal(l2)
            /\ \A i \in DOMAIN l2 : l2[i].type \in TerminalTypes => l2[i].type = type
<1> DEFINE rec == [seq |-> n, type |-> type]
           l2 == Append(l, rec)
<1>1. rec \in Records /\ rec.seq = n /\ rec.type = type
  BY DEF Records
<1> HIDE DEF rec
<1>2. l2 \in Seq(Records) /\ Len(l2) = Len(l) + 1 /\ l2[Len(l) + 1] = rec /\ \A i \in 1..Len(l) : l2[i] = l[i]
  BY <1>1
<1>3. \A i \in 1..Len(l) : l[i] \in Records /\ l[i].seq \in Nat
  BY RecordNumbers
<1> HIDE DEF l2
<1>4. Below(l2, n + 1)
  BY <1>1, <1>2, <1>3 DEF Below
<1>5. Increasing(l2)
  BY <1>1, <1>2, <1>3 DEF Below, Increasing
<1>6. \A i \in 1..(Len(l2) - 1) : l2[i].type \notin TerminalTypes
  BY <1>1, <1>2 DEF NoTerminal
<1>7. \A i \in DOMAIN l2 : l2[i].type \in TerminalTypes => l2[i].type = type
  BY <1>1, <1>2, <1>6
<1> QED BY <1>2, <1>4, <1>5, <1>6, <1>7 DEF l2, rec, NoTerminal

(* An event of the driver that reaches the sink before the terminal. *)
LEMMA EventSunk ==
  ASSUME NEW s, IsSink(s), NEW l \in Seq(Records), NEW rows \in [Ids -> RowStates],
         NEW n \in Nat, NEW item \in Items,
         s.last < n, s.pendingTerminal = 0, Increasing(l), NoTerminal(l),
         phase # "TERMINAL" => Below(l, s.last + 1)
  PROVE  \E s2, l2, rows2 :
            /\ Sunk(Tables(s, l, rows), n, item) = Tables(s2, l2, rows2)
            /\ IsSink(s2) /\ l2 \in Seq(Records)
            /\ s2.last < n + 1 /\ s2.pendingTerminal = 0 /\ Increasing(l2) /\ NoTerminal(l2)
            /\ phase # "TERMINAL" => Below(l2, s2.last + 1)
            /\ \/ rows2 = rows
               \/ /\ item.k = "permission" /\ phase = "RUNNING" /\ rows[item.v] = None
                  /\ rows2 = [rows EXCEPT ![item.v] = "pending"]
<1>1. PICK s2, l2, rows2 :
            /\ Sunk(Tables(s, l, rows), n, item) = Tables(s2, l2, rows2)
            /\ IsSink(s2)
            /\ \/ l2 = l /\ s2.last \in {s.last, n}
               \/ /\ phase # "TERMINAL" /\ item \in Items /\ s2.last = n
                  /\ l2 = Append(l, [seq |-> n, type |-> Projected(item)])
            /\ \/ s2.pendingTerminal = s.pendingTerminal
               \/ item = TerminalItem /\ s2.pendingTerminal = n
            /\ \/ rows2 = rows
               \/ /\ item \in Items /\ item.k = "permission" /\ phase = "RUNNING" /\ rows[item.v] = None
                  /\ rows2 = [rows EXCEPT ![item.v] = "pending"]
  BY SunkEffect
<1>2. s.last \in Nat /\ s2.last \in Nat /\ s2.last < n + 1
  BY <1>1 DEF IsSink
<1>3. s2.pendingTerminal = 0
  <2>1. item # TerminalItem
    BY KindNames DEF TerminalItem, Item
  <2> QED BY <1>1, <2>1
<1>4. CASE l2 = l /\ s2.last \in {s.last, n}
  <2>1. phase # "TERMINAL" => Below(l, s2.last + 1)
    <3>1. \A i \in DOMAIN l : l[i].seq \in Nat
      BY RecordNumbers
    <3> QED BY <1>2, <1>4, <3>1 DEF Below
  <2> QED BY <1>1, <1>2, <1>3, <1>4, <2>1
<1>5. CASE phase # "TERMINAL" /\ s2.last = n /\ l2 = Append(l, [seq |-> n, type |-> Projected(item)])
  <2>1. Below(l, n)
    <3>1. \A i \in DOMAIN l : l[i].seq \in Nat
      BY RecordNumbers
    <3> QED BY <1>2, <1>5, <3>1 DEF Below
  <2>2. Projected(item) \in DriverTypes /\ Projected(item) \notin TerminalTypes
    BY ProjectedTypes
  <2>3. l2 \in Seq(Records) /\ Increasing(l2) /\ Below(l2, n + 1) /\ NoTerminal(l2)
    BY <1>5, <2>1, <2>2, AppendRecord
  <2> QED BY <1>1, <1>2, <1>3, <1>5, <2>3
<1> QED BY <1>1, <1>4, <1>5

(* The terminal reaches the sink: it is numbered, and nothing is stored. *)
LEMMA TerminalSunk ==
  ASSUME NEW s, IsSink(s), NEW l \in Seq(Records), NEW rows \in [Ids -> RowStates], NEW n \in Nat, s.last < n
  PROVE  \E s2 :
            /\ Sunk(Tables(s, l, rows), n, TerminalItem) = Tables(s2, l, rows)
            /\ IsSink(s2) /\ s2.last < n + 1 /\ s2.last >= s.last
            /\ s2.pendingTerminal \in {s.pendingTerminal, n}
<1>1. TerminalItem \notin Items
  BY KindNames DEF TerminalItem, Item
<1> DEFINE item == TerminalItem
<1>2. PICK s2, l2, rows2 :
            /\ Sunk(Tables(s, l, rows), n, item) = Tables(s2, l2, rows2)
            /\ IsSink(s2) /\ s2.written = s.written
            /\ \/ l2 = l /\ s2.last \in {s.last, n}
               \/ /\ phase # "TERMINAL" /\ item \in Items /\ s2.last = n
                  /\ l2 = Append(l, [seq |-> n, type |-> Projected(item)])
            /\ \/ s2.pendingTerminal = s.pendingTerminal
               \/ item = TerminalItem /\ s2.pendingTerminal = n
            /\ \/ rows2 = rows
               \/ /\ item \in Items /\ item.k = "permission" /\ phase = "RUNNING" /\ rows[item.v] = None
                  /\ rows2 = [rows EXCEPT ![item.v] = "pending"]
  <2> HIDE DEF item
  <2>1. item = TerminalItem
    BY DEF item
  <2> QED BY <2>1, SunkEffect
<1>3. l2 = l /\ rows2 = rows /\ s2.last \in {s.last, n}
  BY <1>1, <1>2
<1> QED BY <1>2, <1>3 DEF IsSink

(* ---------------------------- the publisher ---------------------------- *)
(* The sink is written as a whole. *)
LEMMA SinkTables ==
  ASSUME NEW s, NEW l, NEW rows, NEW d, d = Tables(s, l, rows), Sink(d)
  PROVE  sink' = s /\ log' = l /\ requests' = rows
<1> QED BY TablesParts DEF Sink

(* publish_terminal, once and for good. *)
LEMMA PublishEffect ==
  ASSUME OwnerTypes, LogInv, NEW t \in Terminals, PublishTerminal(t), UNCHANGED <<phase, ingress, result>>
  PROVE  /\ OwnerTypes' /\ LogInv' /\ owner' = "Terminal" /\ requests' = requests
         /\ terminal' = IF owner = "Terminal" THEN terminal ELSE t
<1>t. t # None
  BY DEF Terminals, Orderly, None
<1>1. CASE owner = "Terminal"
  <2>1. UNCHANGED <<owner, terminal, sequence, sink, log, requests>>
    BY <1>1 DEF PublishTerminal, sinkVars
  <2> QED BY <1>1, <2>1 DEF OwnerTypes, LogInv, TerminalIsLast, NoTerminal, Below, Increasing
<1>2. CASE owner # "Terminal"
  <2>1. /\ owner' = "Terminal" /\ terminal' = t /\ sequence' = sequence + 1
        /\ Sink(Sunk(Stored, sequence, TerminalItem))
    BY <1>2 DEF PublishTerminal
  <2>2. IsSink(sink) /\ log \in Seq(Records) /\ requests \in [Ids -> RowStates] /\ sequence \in Nat /\ sink.last < sequence
    BY DEF OwnerTypes, LogInv
  <2>3. sink.pendingTerminal = 0 /\ sink.last \in Nat
    BY <1>2, <2>2 DEF LogInv, IsSink
  <2>4. PICK s2 :
            /\ Sunk(Tables(sink, log, requests), sequence, TerminalItem) = Tables(s2, log, requests)
            /\ IsSink(s2) /\ s2.last < sequence + 1 /\ s2.last >= sink.last
            /\ s2.pendingTerminal \in {sink.pendingTerminal, sequence}
    BY <2>2, TerminalSunk
  <2>5. sink' = s2 /\ log' = log /\ requests' = requests
    BY <2>1, <2>4, SinkTables DEF Stored
  <2>6. s2.last \in Nat
    BY <2>4 DEF IsSink
  <2>7. NoTerminal(log)
    BY <1>2 DEF LogInv
  <2>8. phase # "TERMINAL" => Below(log, s2.last + 1) /\ Below(log, sequence)
    <3>1. phase # "TERMINAL" => Below(log, sink.last + 1)
      BY DEF LogInv
    <3> QED BY <2>2, <2>3, <2>4, <2>6, <3>1, BelowMore
  <2>9. LogInv'
    <3>1. NoTerminal(log)' /\ Increasing(log)' /\ TerminalIsLast'
      BY <2>5, <2>7 DEF LogInv, NoTerminal, Increasing, TerminalIsLast
    <3>2. (phase # "TERMINAL" => Below(log, sink.last + 1) /\ (sink.pendingTerminal > 0 => Below(log, sink.pendingTerminal)))'
      BY <2>3, <2>4, <2>5, <2>8 DEF Below
    <3> QED BY <2>1, <2>2, <2>4, <2>5, <3>1, <3>2 DEF LogInv, NoTerminal
  <2>10. OwnerTypes'
    BY <1>t, <2>1, <2>2, <2>4, <2>5 DEF OwnerTypes
  <2> QED BY <1>2, <2>1, <2>5, <2>9, <2>10
<1> QED BY <1>1, <1>2

(* emit_driver: an event, and with the exit perhaps the terminal. *)
LEMMA EmitEffect ==
  ASSUME OwnerTypes, LogInv, StreamTypes, EmitDriver(held), UNCHANGED <<phase, ingress, result>>
  PROVE  /\ OwnerTypes' /\ LogInv'
         /\ owner = "Terminal" => owner' = "Terminal" /\ terminal' = terminal /\ boundary' = boundary
         /\ owner # "Terminal" => boundary' = (boundary \/ held.k = "exit")
         /\ terminal' = terminal \/ (terminal' = verdict /\ verdict # None)
         /\ \/ requests' = requests
            \/ /\ held.k = "permission" /\ phase = "RUNNING" /\ requests[held.v] = None
               /\ requests' = [requests EXCEPT ![held.v] = "pending"]
<1>1. CASE owner = "Terminal"
  <2>1. UNCHANGED <<owner, terminal, boundary, sequence, sink, log, requests>>
    BY <1>1 DEF EmitDriver, ownerVars, sinkVars
  <2> QED BY <1>1, <2>1 DEF OwnerTypes, LogInv, TerminalIsLast, NoTerminal, Below, Increasing
<1>2. CASE owner # "Terminal"
  <2> DEFINE pub == verdict # None /\ owner = "Running"
             e == Sunk(Stored, sequence, held)
  <2>1. /\ boundary' = (boundary \/ held.k = "exit")
        /\ owner' = IF pub THEN "Terminal" ELSE owner
        /\ terminal' = IF pub THEN verdict ELSE terminal
        /\ sequence' = IF pub THEN sequence + 2 ELSE sequence + 1
        /\ Sink(IF pub THEN Sunk(e, sequence + 1, TerminalItem) ELSE e)
    BY <1>2 DEF EmitDriver
  <2>2. /\ IsSink(sink) /\ log \in Seq(Records) /\ requests \in [Ids -> RowStates] /\ sequence \in Nat
        /\ sink.last < sequence /\ held \in Items /\ Increasing(log) /\ NoTerminal(log)
        /\ phase # "TERMINAL" => Below(log, sink.last + 1)
    BY <1>2 DEF OwnerTypes, LogInv, StreamTypes
  <2>3. sink.pendingTerminal = 0
    BY <1>2, <2>2 DEF LogInv, IsSink
  <2>4. PICK s2, l2, rows2 :
            /\ Sunk(Tables(sink, log, requests), sequence, held) = Tables(s2, l2, rows2)
            /\ IsSink(s2) /\ l2 \in Seq(Records)
            /\ s2.last < sequence + 1 /\ s2.pendingTerminal = 0 /\ Increasing(l2) /\ NoTerminal(l2)
            /\ phase # "TERMINAL" => Below(l2, s2.last + 1)
            /\ \/ rows2 = requests
               \/ /\ held.k = "permission" /\ phase = "RUNNING" /\ requests[held.v] = None
                  /\ rows2 = [requests EXCEPT ![held.v] = "pending"]
    BY <2>2, <2>3, EventSunk
  <2>5. e = Tables(s2, l2, rows2)
    BY <2>4 DEF Stored
  <2> HIDE DEF e
  <2>6. rows2 \in [Ids -> RowStates]
    BY <2>2, <2>4 DEF RowStates, Items
  <2>7. TerminalIsLast' \/ log' # l2
    BY <2>4 DEF TerminalIsLast, Increasing, NoTerminal
  <2>8. CASE ~pub
    <3>1. sink' = s2 /\ log' = l2 /\ requests' = rows2 /\ owner' = owner /\ terminal' = terminal /\ sequence' = sequence + 1
      BY <2>1, <2>5, <2>8, SinkTables
    <3>2. OwnerTypes'
      BY <2>2, <2>4, <2>6, <3>1 DEF OwnerTypes
    <3>3. NoTerminal(log)' /\ Increasing(log)' /\ ((phase # "TERMINAL") => Below(log, sink.last + 1))'
      BY <2>4, <3>1 DEF NoTerminal, Increasing, Below
    <3>4. LogInv'
      BY <2>2, <2>4, <2>7, <3>1, <3>3 DEF LogInv, NoTerminal
    <3> QED BY <1>2, <2>1, <2>4, <3>1, <3>2, <3>4
  <2>9. CASE pub
    <3>1. PICK s3 :
            /\ Sunk(Tables(s2, l2, rows2), sequence + 1, TerminalItem) = Tables(s3, l2, rows2)
            /\ IsSink(s3) /\ s3.last < (sequence + 1) + 1 /\ s3.last >= s2.last
            /\ s3.pendingTerminal \in {s2.pendingTerminal, sequence + 1}
      <4> DEFINE n == sequence + 1
      <4>1. n \in Nat /\ s2.last < n
        BY <2>2, <2>4
      <4> HIDE DEF n
      <4>2. \E s3 :
              /\ Sunk(Tables(s2, l2, rows2), n, TerminalItem) = Tables(s3, l2, rows2)
              /\ IsSink(s3) /\ s3.last < n + 1 /\ s3.last >= s2.last
              /\ s3.pendingTerminal \in {s2.pendingTerminal, n}
        BY <2>4, <2>6, <4>1, TerminalSunk
      <4> QED BY <4>2 DEF n
    <3>2. sink' = s3 /\ log' = l2 /\ requests' = rows2 /\ owner' = "Terminal" /\ terminal' = verdict /\ sequence' = sequence + 2
      BY <2>1, <2>5, <2>9, <3>1, SinkTables
    <3>3. s2.last \in Nat /\ s3.last \in Nat /\ s3.pendingTerminal \in Nat
      BY <2>4, <3>1 DEF IsSink
    <3>4. OwnerTypes'
      BY <2>2, <2>4, <2>6, <2>9, <3>1, <3>2 DEF OwnerTypes, StreamTypes
    <3>5. phase # "TERMINAL" => Below(l2, s3.last + 1) /\ Below(l2, sequence + 1)
      BY <2>2, <2>4, <3>1, <3>3, BelowMore
    <3>6. (phase # "TERMINAL" => Below(log, sink.last + 1) /\ (sink.pendingTerminal > 0 => Below(log, sink.pendingTerminal)))'
      BY <2>4, <3>1, <3>2, <3>5 DEF Below
    <3>7. NoTerminal(log)' /\ Increasing(log)'
      BY <2>4, <3>2 DEF NoTerminal, Increasing
    <3>8. LogInv'
      BY <2>2, <2>7, <3>1, <3>2, <3>3, <3>6, <3>7 DEF LogInv, NoTerminal
    <3> QED BY <1>2, <2>1, <2>4, <2>9, <3>2, <3>4, <3>8
  <2> QED BY <2>8, <2>9
<1> QED BY <1>1, <1>2

FinInv == fin \in [Threads -> Fins] /\ PublishInv
OwnerInv == OwnerTypes /\ LogInv

\* A step of one of the threads that finish the process.
FinStep(f, at, with, why) ==
  /\ fin' \in [Threads -> Fins]
  /\ fin'[f].at = at /\ fin'[f].with = with /\ fin'[f].why = why
  /\ \A g \in Threads : g # f => fin'[g] = fin[g]

(* The names of the steps, results and reasons. *)
LEMMA FinNames ==
  /\ \A at \in {"starting", "idle", "close", "lock", "cooperate", "cooperating", "failClosed", "begin", "reap",
              "await", "publish", "persist", "store", "done"} : at \in FinAts
  /\ None \in Withs /\ "completed" \in Withs /\ "failed" \in Withs /\ Terminals \subseteq Withs /\ Results \subseteq Withs
  /\ \A why \in {"start", "recheck", "delivery", "control", "boundary", "exit", "sink", "budget", "timeout", "cancel"} :
       why \in Whys
  /\ None \in Whys /\ None \notin Terminals /\ None \notin Results /\ Orderly \subseteq Terminals
  /\ "Lost" \in Terminals /\ "Lost" \notin Orderly
  /\ "task" \in Threads /\ "cancel" \in Threads /\ Responders \subseteq Threads
<1> QED BY DEF FinAts, Withs, Whys, Terminals, Orderly, Results, Threads, None

(* A thread's record by its fields. *)
LEMMA FinFields ==
  ASSUME fin \in [Threads -> Fins], NEW f \in Threads
  PROVE  /\ fin[f] \in Fins /\ fin[f].at \in FinAts /\ fin[f].with \in Withs /\ fin[f].why \in Whys
         /\ fin[f] = [at |-> fin[f].at, with |-> fin[f].with, why |-> fin[f].why]
<1> QED BY DEF Fins

(* A new record for a thread, and a new place with the record kept. *)
LEMMA RecordIsStep ==
  ASSUME fin \in [Threads -> Fins], NEW f \in Threads, NEW at \in FinAts, NEW with \in Withs, NEW why \in Whys,
         fin' = [fin EXCEPT ![f] = [at |-> at, with |-> with, why |-> why]]
  PROVE  FinStep(f, at, with, why)
<1> QED BY DEF FinStep, Fins

(* Move changes only where the thread is. *)
LEMMA MoveIsStep ==
  ASSUME fin \in [Threads -> Fins], NEW f \in Threads, NEW to \in FinAts, Move(f, to)
  PROVE  FinStep(f, to, fin[f].with, fin[f].why)
<1> QED BY DEF Move, FinStep, Fins

(* A step that goes on with something else. *)
LEMMA WithIsStep ==
  ASSUME fin \in [Threads -> Fins], NEW f \in Threads, NEW to \in FinAts, NEW with \in Withs,
         fin' = [fin EXCEPT ![f].at = to, ![f].with = with]
  PROVE  FinStep(f, to, with, fin[f].why)
<1> QED BY DEF FinStep, Fins

(* What the records of the finishing threads say stays true while the      *)
(* boundary and the terminal stay.                                         *)
LEMMA FinKept ==
  ASSUME FinInv, UNCHANGED fin, boundary => boundary',
         owner = "Terminal" => owner' = "Terminal" /\ terminal' = terminal,
         terminal' \in Orderly => boundary'
  PROVE  FinInv'
<1> QED BY DEF FinInv, PublishInv, GoodFin

(* The same with a step of one of them. *)
LEMMA FinMoved ==
  ASSUME FinInv, boundary => boundary',
         owner = "Terminal" => owner' = "Terminal" /\ terminal' = terminal,
         terminal' \in Orderly => boundary',
         NEW f \in Threads, NEW at \in FinAts, NEW with \in Withs, NEW why \in Whys, FinStep(f, at, with, why),
         at = "publish" => with \in Terminals /\ (with \in Orderly => boundary' \/ owner' = "Terminal"),
         at = "persist" => owner' = "Terminal" /\ with = terminal',
         at = "store" => owner' = "Terminal" /\ with \in Results
  PROVE  FinInv'
<1> QED BY DEF FinStep, FinInv, PublishInv, GoodFin

(* Steps that publish nothing and store no result keep the owner and the   *)
(* log.                                                                    *)
LEMMA OwnerKept ==
  ASSUME OwnerInv, UNCHANGED <<terminal, sequence, sink, log, result>>,
         owner' \in {"Running", "Stopping", "Terminal"}, (owner' = "Terminal") = (owner = "Terminal"),
         phase' \in {"PREPARING", "RUNNING", "STOPPING", "TERMINAL"}, (phase' = "TERMINAL") = (phase = "TERMINAL"),
         ingress' \in {"Running", "Stopping", "Terminal"}, requests' \in [Ids -> RowStates]
  PROVE  OwnerInv'
<1>1. OwnerTypes'
  BY DEF OwnerInv, OwnerTypes
<1>2. LogInv'
  BY DEF OwnerInv, LogInv, NoTerminal, Below, Increasing, TerminalIsLast
<1> QED BY <1>1, <1>2 DEF OwnerInv

(* The pump publishes and emits. *)
LEMMA OwnerPump ==
  ASSUME OwnerInv, FinInv, StreamInv, Pump
  PROVE  OwnerInv' /\ FinInv'
<1>1. CASE PumpTake
  <2>1. UNCHANGED <<terminal, sequence, sink, log, result, owner, phase, ingress, requests, fin, boundary>>
    BY <1>1 DEF PumpTake, ownerVars, sinkVars, threadVars
  <2>2. OwnerInv'
    BY <2>1, OwnerKept DEF OwnerInv, OwnerTypes
  <2>3. FinInv'
    BY <2>1, FinKept DEF FinInv, PublishInv
  <2> QED BY <2>2, <2>3
<1>2. CASE PumpCannotAnswer
  <2>1. PublishTerminal("Lost") /\ UNCHANGED <<phase, ingress, result, boundary, fin>>
    BY <1>2 DEF PumpCannotAnswer, threadVars
  <2>2. OwnerInv' /\ owner' = "Terminal" /\ terminal' = IF owner = "Terminal" THEN terminal ELSE "Lost"
    BY <2>1, PublishEffect, FinNames DEF OwnerInv
  <2>3. FinInv'
    BY <2>1, <2>2, FinKept, FinNames DEF FinInv, PublishInv
  <2> QED BY <2>2, <2>3
<1>3. CASE PumpEmit
  <2>1. pump = "holding" /\ EmitDriver(held) /\ UNCHANGED <<phase, ingress, result, fin>>
    BY <1>3 DEF PumpEmit, threadVars
  <2>2. /\ OwnerInv'
        /\ owner = "Terminal" => owner' = "Terminal" /\ terminal' = terminal /\ boundary' = boundary
        /\ owner # "Terminal" => boundary' = (boundary \/ held.k = "exit")
        /\ terminal' = terminal \/ (terminal' = verdict /\ verdict # None)
    BY <2>1, EmitEffect DEF OwnerInv, StreamInv
  <2>3. verdict # None => held.k = "exit"
    BY DEF StreamInv, QueueInv
  <2>4. owner # "Terminal" => terminal = None
    BY DEF OwnerInv, OwnerTypes
  <2>5. boundary => boundary'
    BY <2>2
  <2>6. terminal' \in Orderly => boundary'
    BY <2>2, <2>3, <2>4, <2>5, FinNames DEF FinInv, PublishInv
  <2>7. FinInv'
    BY <2>1, <2>2, <2>5, <2>6, FinKept
  <2> QED BY <2>2, <2>7
<1> QED BY <1>1, <1>2, <1>3 DEF Pump

(* Leaving: only that a cancel was requested is kept. *)
LEMMA LeaveIsStep ==
  ASSUME fin \in [Threads -> Fins], NEW f \in Threads, Leave(f)
  PROVE  FinStep(f, "done", None, IF f = "cancel" THEN fin[f].why ELSE None)
<1>1. fin[f].why \in Whys
  BY FinFields
<1> QED BY <1>1, RecordIsStep, FinNames DEF Leave

(* request_stop_internal on the rows. *)
LEMMA StopRows ==
  ASSUME OwnerInv, RequestStop
  PROVE  /\ phase' \in {"STOPPING", "TERMINAL"} /\ (phase' = "TERMINAL") = (phase = "TERMINAL")
         /\ requests' \in [Ids -> RowStates]
<1>1. requests \in [Ids -> RowStates] /\ None \in RowStates
  BY DEF OwnerInv, OwnerTypes, RowStates
<1> QED BY <1>1 DEF RequestStop

(* The bootstrap and the delivery of messages. *)
LEMMA OwnerCommand ==
  ASSUME OwnerInv, FinInv, Command
  PROVE  OwnerInv' /\ FinInv'
<1> USE FinNames
<1>1. CASE CmdBegin \/ CmdWrite \/ CmdReply \/ CmdTurn \/ CmdTimeout
  <2>1. UNCHANGED <<terminal, sequence, sink, log, result, owner, phase, ingress, requests, fin, boundary>>
    BY <1>1 DEF CmdBegin, CmdWrite, CmdReply, CmdTurn, CmdTimeout, restOfOwner, ownerVars, sinkVars, others
  <2>2. OwnerInv'
    BY <2>1, OwnerKept DEF OwnerInv, OwnerTypes
  <2>3. FinInv'
    BY <2>1, FinKept DEF FinInv, PublishInv
  <2> QED BY <2>2, <2>3
<1>2. CASE MarkRunning
  <2>1. /\ UNCHANGED <<terminal, sequence, sink, log, result, owner, ingress, requests, fin, boundary>>
        /\ phase = "PREPARING" /\ phase' = "RUNNING"
    BY <1>2 DEF MarkRunning, ownerVars, sinkVars, threadVars
  <2>2. OwnerInv'
    BY <2>1, OwnerKept DEF OwnerInv, OwnerTypes
  <2>3. FinInv'
    BY <2>1, FinKept DEF FinInv, PublishInv
  <2> QED BY <2>2, <2>3
<1>3. CASE Recheck
  <2>1. UNCHANGED <<terminal, sequence, sink, log, result, owner, phase, ingress, requests, boundary>>
    BY <1>3 DEF Recheck, restOfOwner, ownerVars, sinkVars
  <2>2. OwnerInv'
    BY <2>1, OwnerKept DEF OwnerInv, OwnerTypes
  <2>3. FinStep("task", "idle", fin["task"].with, fin["task"].why) \/ FinStep("task", "failClosed", None, "recheck")
    BY <1>3, MoveIsStep, RecordIsStep DEF Recheck, Move, FinInv
  <2>4. fin["task"].with \in Withs /\ fin["task"].why \in Whys
    BY FinFields DEF FinInv
  <2>5. FinInv'
    BY <2>1, <2>3, <2>4, FinMoved DEF FinInv, PublishInv
  <2> QED BY <2>2, <2>5
<1> QED BY <1>1, <1>2, <1>3 DEF Command

(* The responders change rows of requests, and may come to stop the runtime. *)
LEMMA OwnerRespond ==
  ASSUME OwnerInv, FinInv, NEW r \in Responders, Respond(r)
  PROVE  OwnerInv' /\ FinInv'
<1> USE FinNames
<1>1. UNCHANGED <<terminal, sequence, sink, log, result, owner, phase, ingress, boundary>>
  BY DEF Respond, RespClaim, RespCheck, RespWrite, RespSent, RespComplete, RespFails, respFrame, ownerVars
<1>2. requests' \in [Ids -> RowStates]
  <2>1. requests \in [Ids -> RowStates]
    BY DEF OwnerInv, OwnerTypes
  <2> QED BY <2>1 DEF Respond, RespClaim, RespCheck, RespWrite, RespSent, RespComplete, RespFails, Release, RowStates
<1>3. UNCHANGED fin \/ FinStep(r, "failClosed", None, "control")
  <2>1. CASE RespFails(r)
    BY <2>1, RecordIsStep DEF RespFails, FinInv
  <2>2. CASE ~RespFails(r)
    BY <2>2 DEF Respond, RespClaim, RespCheck, RespWrite, RespSent, RespComplete
  <2> QED BY <2>1, <2>2
<1>4. OwnerInv'
  BY <1>1, <1>2, OwnerKept DEF OwnerInv, OwnerTypes
<1>5. FinInv'
  BY <1>1, <1>3, FinKept, FinMoved DEF FinInv, PublishInv
<1> QED BY <1>4, <1>5

(* What a decision to finish the process does to the threads. *)
LEMMA DecideSteps ==
  ASSUME fin \in [Threads -> Fins], OwnerTypes
  PROVE  /\ StartFailed => FinStep("task", "begin", None, "start")
         /\ DeliveryFailed => \/ cmd.ended /\ UNCHANGED fin
                              \/ ~cmd.ended /\ FinStep("task", "begin", "failed", "delivery")
         /\ SeeBoundary => \E with \in {"completed", "failed"} : FinStep("task", "begin", with, "boundary")
         /\ SeeTerminal => FinStep("task", "persist", terminal, "exit")
         /\ SeeSinkError => FinStep("task", "begin", None, "sink")
         /\ SeeViolation => FinStep("task", "close", None, "budget")
         /\ \A reason : SeeTimeout(reason) => FinStep("task", "close", None, "timeout")
         /\ CancelTask => FinStep("cancel", "close", None, "cancel")
         /\ LockTimeout => FinStep("cancel", "failClosed", fin["cancel"].with, fin["cancel"].why)
<1> USE FinNames
<1>1. StartFailed => FinStep("task", "begin", None, "start")
  BY RecordIsStep DEF StartFailed, Begin
<1>2. DeliveryFailed => \/ cmd.ended /\ UNCHANGED fin
                        \/ ~cmd.ended /\ FinStep("task", "begin", "failed", "delivery")
  BY RecordIsStep DEF DeliveryFailed, Begin
<1>3. SeeBoundary => \E with \in {"completed", "failed"} : FinStep("task", "begin", with, "boundary")
  BY RecordIsStep DEF SeeBoundary, Begin
<1>4. SeeTerminal => FinStep("task", "persist", terminal, "exit")
  BY RecordIsStep DEF SeeTerminal, OwnerTypes
<1>5. SeeSinkError => FinStep("task", "begin", None, "sink")
  BY RecordIsStep DEF SeeSinkError, Begin
<1>6. SeeViolation => FinStep("task", "close", None, "budget")
  BY RecordIsStep DEF SeeViolation, Close
<1>7. \A reason : SeeTimeout(reason) => FinStep("task", "close", None, "timeout")
  BY RecordIsStep DEF SeeTimeout, Close
<1>8. CancelTask => FinStep("cancel", "close", None, "cancel")
  BY RecordIsStep DEF CancelTask, Close
<1>9. LockTimeout => FinStep("cancel", "failClosed", fin["cancel"].with, fin["cancel"].why)
  BY MoveIsStep DEF LockTimeout
<1> QED BY <1>1, <1>2, <1>3, <1>4, <1>5, <1>6, <1>7, <1>8, <1>9

(* Every way to finish ends in an outcome. *)
LEMMA OutcomesAreResults ==
  ASSUME NEW f \in Threads
  PROVE  Outcomes(f) \subseteq Results
<1> QED BY DEF Outcomes, NaturalOutcomes, CheckedOutcomes, ForcedOutcome, TerminalOutcome, Results

(* What the steps of finishing do to the thread that takes them. *)
LEMMA FinishSteps ==
  ASSUME fin \in [Threads -> Fins], OwnerTypes, NEW f \in Threads
  PROVE  /\ CloseAndWait(f) => FinStep(f, "lock", fin[f].with, fin[f].why)
         /\ Lock(f) => \/ phase = "TERMINAL" /\ FinStep(f, "done", None, IF f = "cancel" THEN fin[f].why ELSE None)
                       \/ phase # "TERMINAL" /\ FinStep(f, "cooperate", fin[f].with, fin[f].why)
         /\ FailClosed(f) \/ Cooperated(f) => FinStep(f, "begin", fin[f].with, fin[f].why)
         /\ Cooperate(f) => \/ FinStep(f, "cooperating", fin[f].with, fin[f].why)
                            \/ FinStep(f, "begin", fin[f].with, fin[f].why)
         /\ BeginStopping(f) => \/ owner = "Terminal" /\ owner' = owner /\ FinStep(f, "persist", terminal, fin[f].why)
                                \/ owner # "Terminal" /\ owner' = "Stopping" /\ FinStep(f, "reap", fin[f].with, fin[f].why)
         /\ Reap(f) => \/ FinStep(f, "await", fin[f].with, fin[f].why)
                       \/ FinStep(f, "publish", "Lost", fin[f].why)
         /\ AwaitBoundary(f) => \E with \in Terminals : /\ FinStep(f, "publish", with, fin[f].why)
                                                        /\ with \in Orderly => boundary \/ owner = "Terminal"
         /\ Publish(f) /\ terminal' \in Terminals => FinStep(f, "persist", terminal', fin[f].why)
         /\ Finalize(f) => \/ /\ phase = "TERMINAL"
                              /\ FinStep(f, "done", None, IF f = "cancel" THEN fin[f].why ELSE None)
                           \/ phase # "TERMINAL" /\ \E outcome \in Outcomes(f) : FinStep(f, "store", outcome, fin[f].why)
         /\ Persist(f) => FinStep(f, "done", None, IF f = "cancel" THEN fin[f].why ELSE None)
<1> USE FinNames
<1>0. fin[f].with \in Withs /\ fin[f].why \in Whys
  BY FinFields
<1>1. CloseAndWait(f) => FinStep(f, "lock", fin[f].with, fin[f].why)
  BY MoveIsStep DEF CloseAndWait
<1>2. Lock(f) => \/ phase = "TERMINAL" /\ FinStep(f, "done", None, IF f = "cancel" THEN fin[f].why ELSE None)
                 \/ phase # "TERMINAL" /\ FinStep(f, "cooperate", fin[f].with, fin[f].why)
  BY MoveIsStep, LeaveIsStep DEF Lock
<1>3. FailClosed(f) \/ Cooperated(f) => FinStep(f, "begin", fin[f].with, fin[f].why)
  BY MoveIsStep DEF FailClosed, Cooperated
<1>4. Cooperate(f) => \/ FinStep(f, "cooperating", fin[f].with, fin[f].why)
                      \/ FinStep(f, "begin", fin[f].with, fin[f].why)
  BY MoveIsStep DEF Cooperate
<1>5. BeginStopping(f) => \/ owner = "Terminal" /\ owner' = owner /\ FinStep(f, "persist", terminal, fin[f].why)
                          \/ owner # "Terminal" /\ owner' = "Stopping" /\ FinStep(f, "reap", fin[f].with, fin[f].why)
  BY MoveIsStep, WithIsStep DEF BeginStopping, OwnerTypes
<1>6. Reap(f) => \/ FinStep(f, "await", fin[f].with, fin[f].why)
                 \/ FinStep(f, "publish", "Lost", fin[f].why)
  BY MoveIsStep, WithIsStep DEF Reap
<1>7. AwaitBoundary(f) => \E with \in Terminals : /\ FinStep(f, "publish", with, fin[f].why)
                                                  /\ with \in Orderly => boundary \/ owner = "Terminal"
  <2> DEFINE w == CASE boundary -> Finished(fin[f].with)
                    [] ~boundary /\ owner = "Terminal" -> terminal
                    [] OTHER -> "Lost"
  <2>1. Finished(fin[f].with) \in Terminals
    BY DEF Finished, Terminals, Orderly
  <2>2. w \in Terminals /\ (w \in Orderly => boundary \/ owner = "Terminal")
    BY <2>1 DEF OwnerTypes
  <2>3. AwaitBoundary(f) => fin' = [fin EXCEPT ![f].at = "publish", ![f].with = w]
    BY DEF AwaitBoundary
  <2> HIDE DEF w
  <2> QED BY <2>2, <2>3, WithIsStep
<1>8. Publish(f) /\ terminal' \in Terminals => FinStep(f, "persist", terminal', fin[f].why)
  BY WithIsStep DEF Publish
<1>9. Finalize(f) => \/ /\ phase = "TERMINAL"
                        /\ FinStep(f, "done", None, IF f = "cancel" THEN fin[f].why ELSE None)
                     \/ phase # "TERMINAL" /\ \E outcome \in Outcomes(f) : FinStep(f, "store", outcome, fin[f].why)
  <2>1. Outcomes(f) \subseteq Results
    BY OutcomesAreResults
  <2> QED BY <2>1, WithIsStep, LeaveIsStep DEF Finalize
<1>10. Persist(f) => FinStep(f, "done", None, IF f = "cancel" THEN fin[f].why ELSE None)
  BY LeaveIsStep DEF Persist
<1> QED BY <1>1, <1>2, <1>3, <1>4, <1>5, <1>6, <1>7, <1>8, <1>9, <1>10

(* The decisions to finish. *)
LEMMA OwnerDecide ==
  ASSUME OwnerInv, FinInv, Decide \/ Cancel \/ \E reason \in IdleTimeouts : SeeTimeout(reason)
  PROVE  OwnerInv' /\ FinInv'
<1> USE FinNames
<1>0. fin \in [Threads -> Fins] /\ OwnerTypes /\ (terminal \in Orderly => boundary)
  BY DEF FinInv, OwnerInv, PublishInv
<1>1. UNCHANGED <<terminal, sequence, sink, log, result, owner, boundary>>
  BY DEF Decide, Cancel, StartFailed, DeliveryFailed, SeeBoundary, SeeTerminal, SeeSinkError, SeeViolation,
         SeeTimeout, CancelTask, LockTimeout, stopFrame, finFrame, ownerVars, sinkVars
<1>2. CASE SeeViolation \/ CancelTask \/ \E reason : SeeTimeout(reason)
  <2>1. RequestStop /\ ingress' = ingress
    BY <1>2 DEF SeeViolation, CancelTask, SeeTimeout
  <2>2. OwnerInv'
    BY <1>0, <1>1, <2>1, StopRows, OwnerKept DEF OwnerTypes
  <2>3. FinStep("task", "close", None, "budget") \/ FinStep("task", "close", None, "timeout")
        \/ FinStep("cancel", "close", None, "cancel")
    BY <1>0, <1>2, DecideSteps
  <2>4. FinInv'
    BY <1>0, <1>1, <2>3, FinMoved
  <2> QED BY <2>2, <2>4
<1>3. CASE StartFailed \/ DeliveryFailed \/ SeeBoundary \/ SeeSinkError \/ SeeTerminal \/ LockTimeout
  <2>1. UNCHANGED <<phase, requests>> /\ ingress' \in {"Running", "Stopping", "Terminal"}
    BY <1>0, <1>3 DEF StartFailed, DeliveryFailed, SeeBoundary, SeeTerminal, SeeSinkError, LockTimeout,
                      BeginNatural, CloseIngress, sinkVars, OwnerTypes
  <2>2. OwnerInv'
    BY <1>0, <1>1, <2>1, OwnerKept DEF OwnerTypes
  <2>3. fin["cancel"].with \in Withs /\ fin["cancel"].why \in Whys
    BY <1>0, FinFields
  <2>4. CASE SeeTerminal
    <3>1. owner = "Terminal" /\ terminal \in Terminals
      BY <1>0, <2>4 DEF SeeTerminal, OwnerTypes
    <3>2. FinStep("task", "persist", terminal, "exit")
      BY <1>0, <2>4, DecideSteps
    <3>3. FinInv'
      BY <1>0, <1>1, <3>1, <3>2, FinMoved
    <3> QED BY <2>2, <3>3
  <2>5. CASE ~SeeTerminal
    <3>1. \/ UNCHANGED fin
          \/ \E with \in {None, "completed", "failed"}, why \in Whys : FinStep("task", "begin", with, why)
          \/ FinStep("cancel", "failClosed", fin["cancel"].with, fin["cancel"].why)
      BY <1>0, <1>3, <2>5, DecideSteps
    <3>2. FinInv'
      BY <1>0, <1>1, <2>3, <3>1, FinMoved, FinKept
    <3> QED BY <2>2, <3>2
  <2> QED BY <2>4, <2>5
<1> QED BY <1>2, <1>3 DEF Decide, Cancel

(* Storing the result: the terminal record is the last of the log. *)
LEMMA OwnerPersist ==
  ASSUME OwnerInv, FinInv, NEW f \in Threads, Persist(f)
  PROVE  OwnerInv' /\ FinInv'
<1> USE FinNames
<1> DEFINE writes == ~sink.failed /\ ~sink.written /\ fin[f].why # "start" /\ phase # "TERMINAL"
           recorded == IF writes THEN TerminalRecord(Stored) ELSE Stored
           rows == [q \in Ids |-> IF q \in OpenRequests THEN None ELSE requests[q]]
           n == IF sink.pendingTerminal > 0 THEN sink.pendingTerminal ELSE sink.last + 1
<1>0. /\ fin \in [Threads -> Fins] /\ OwnerTypes /\ LogInv /\ (terminal \in Orderly => boundary)
      /\ IsSink(sink) /\ log \in Seq(Records) /\ requests \in [Ids -> RowStates]
      /\ sink.last \in Nat /\ sink.pendingTerminal \in Nat
  BY DEF FinInv, OwnerInv, PublishInv, OwnerTypes, IsSink
<1>1. owner = "Terminal" /\ terminal \in Terminals /\ fin[f].with \in Results /\ fin[f].at = "store"
  BY <1>0 DEF Persist, FinInv, PublishInv, GoodFin, OwnerTypes
<1>2. /\ Sink(Tables([recorded.sink EXCEPT !.written = @ \/ writes], recorded.log, rows))
      /\ phase' = "TERMINAL" /\ UNCHANGED <<ingress, owner, terminal, boundary, sequence>>
      /\ result' \in Results
  <2>1. result' \in Results
    BY <1>0, <1>1 DEF Persist, OwnerTypes, Results
  <2> QED BY <2>1 DEF Persist, ownerVars
<1>3. rows \in [Ids -> RowStates]
  BY <1>0 DEF RowStates
<1>4. ~writes => recorded.sink = sink /\ recorded.log = log
  BY TablesParts DEF Stored
<1>5. ASSUME writes
      PROVE  recorded.sink = sink /\ recorded.log = Append(log, [seq |-> n, type |-> TerminalType[terminal]])
             /\ Below(log, n) /\ n \in Nat
  <2>1. Below(log, n) /\ n \in Nat
    BY <1>0, <1>5 DEF LogInv
  <2>2. ~ \E i \in DOMAIN log : log[i].seq = n
    BY <1>0, <2>1, RecordNumbers DEF Below
  <2>3. TerminalRecord(Stored) = AppendLifecycle(Tables(sink, log, requests), n, TerminalType[terminal])
    BY TablesParts DEF TerminalRecord, Stored
  <2>4. phase # "TERMINAL" /\ recorded = TerminalRecord(Stored)
    BY <1>5
  <2> HIDE DEF n, recorded, writes
  <2>5. AppendLifecycle(Tables(sink, log, requests), n, TerminalType[terminal])
          = Tables(sink, Append(log, [seq |-> n, type |-> TerminalType[terminal]]), requests)
    BY <2>2, <2>4, AppendNew
  <2> DEFINE longer == Append(log, [seq |-> n, type |-> TerminalType[terminal]])
  <2>6. recorded = Tables(sink, longer, requests)
    BY <2>3, <2>4, <2>5
  <2> HIDE DEF longer
  <2>7. recorded.sink = sink /\ recorded.log = longer
    BY <2>6, TablesParts
  <2> QED BY <2>1, <2>7 DEF longer
<1> HIDE DEF writes, recorded, rows, n
<1>6. sink' = [recorded.sink EXCEPT !.written = @ \/ writes] /\ log' = recorded.log /\ requests' = rows
  BY <1>2, SinkTables
<1>7. IsSink(sink') /\ sink'.last = sink.last /\ sink'.pendingTerminal = sink.pendingTerminal
  <2>1. recorded.sink = sink
    BY <1>4, <1>5
  <2> QED BY <1>0, <1>6, <2>1 DEF IsSink, SinkFields
<1>8. log' \in Seq(Records) /\ Increasing(log)' /\ TerminalIsLast'
      /\ \A i \in DOMAIN log' : log'[i].type \in TerminalTypes => log'[i].type = TerminalType[terminal]
  <2>1. CASE ~writes
    BY <1>0, <1>4, <1>6, <2>1 DEF LogInv, Increasing, TerminalIsLast
  <2>2. CASE writes
    <3>1. TerminalType[terminal] \in TerminalTypes
      BY <1>1, ProjectedTypes
    <3>2. NoTerminal(log) /\ Increasing(log)
      BY <1>0, <2>2 DEF LogInv, writes
    <3>3. log' = Append(log, [seq |-> n, type |-> TerminalType[terminal]]) /\ Below(log, n) /\ n \in Nat
      BY <1>5, <1>6, <2>2
    <3>4. /\ log' \in Seq(Records) /\ Increasing(log')
          /\ \A i \in 1..(Len(log') - 1) : log'[i].type \notin TerminalTypes
          /\ \A i \in DOMAIN log' : log'[i].type \in TerminalTypes => log'[i].type = TerminalType[terminal]
      BY <1>0, <3>1, <3>2, <3>3, AppendRecord
    <3> QED BY <3>4 DEF Increasing, TerminalIsLast
  <2> QED BY <2>1, <2>2
<1>9. LogInv'
  BY <1>0, <1>1, <1>2, <1>7, <1>8 DEF LogInv
<1>10. OwnerTypes'
  BY <1>0, <1>2, <1>3, <1>6, <1>7, <1>8 DEF OwnerTypes
<1>11. FinInv'
  <2>1. FinStep(f, "done", None, IF f = "cancel" THEN fin[f].why ELSE None)
    BY <1>0, FinishSteps
  <2>2. fin[f].why \in Whys
    BY <1>0, FinFields
  <2> QED BY <1>0, <1>2, <2>1, <2>2, FinMoved
<1> QED BY <1>9, <1>10, <1>11 DEF OwnerInv

(* The threads that finish the process keep the publisher and the log. *)
LEMMA OwnerFinish ==
  ASSUME OwnerInv, FinInv, NEW f \in Threads, Finish(f)
  PROVE  OwnerInv' /\ FinInv'
<1> USE FinNames
<1>0. /\ fin \in [Threads -> Fins] /\ OwnerTypes /\ LogInv /\ (terminal \in Orderly => boundary)
      /\ fin[f].with \in Withs /\ fin[f].why \in Whys /\ GoodFin(fin[f])
  BY FinFields DEF FinInv, OwnerInv, PublishInv
<1>1. CASE Publish(f)
  <2>1. /\ fin[f].at = "publish" /\ PublishTerminal(fin[f].with) /\ UNCHANGED <<phase, ingress, result, boundary>>
    BY <1>1 DEF Publish, finFrame
  <2>2. fin[f].with \in Terminals /\ (fin[f].with \in Orderly => boundary \/ owner = "Terminal")
    BY <1>0, <2>1 DEF GoodFin
  <2>3. OwnerInv' /\ owner' = "Terminal" /\ terminal' = IF owner = "Terminal" THEN terminal ELSE fin[f].with
    BY <1>0, <2>1, <2>2, PublishEffect DEF OwnerInv
  <2>4. terminal' \in Terminals
    BY <1>0, <2>2, <2>3 DEF OwnerTypes
  <2>5. FinStep(f, "persist", terminal', fin[f].why)
    BY <1>0, <1>1, <2>4, FinishSteps
  <2>6. FinInv'
    BY <1>0, <2>1, <2>2, <2>3, <2>4, <2>5, FinMoved
  <2> QED BY <2>3, <2>6
<1>2. CASE Persist(f)
  BY <1>2, OwnerPersist
<1>3. CASE BeginStopping(f)
  <2>1. UNCHANGED <<terminal, sequence, sink, log, result, phase, ingress, requests, boundary>>
    BY <1>3 DEF BeginStopping, sinkVars, finFrame
  <2>2. \/ owner = "Terminal" /\ owner' = owner /\ FinStep(f, "persist", terminal, fin[f].why)
        \/ owner # "Terminal" /\ owner' = "Stopping" /\ FinStep(f, "reap", fin[f].with, fin[f].why)
    BY <1>0, <1>3, FinishSteps
  <2>3. OwnerInv'
    BY <1>0, <2>1, <2>2, OwnerKept DEF OwnerTypes
  <2>4. owner = "Terminal" => terminal \in Terminals
    BY <1>0 DEF OwnerTypes
  <2>5. FinInv'
    BY <1>0, <2>1, <2>2, <2>4, FinMoved
  <2> QED BY <2>3, <2>5
<1>4. CASE Finalize(f)
  <2>1. /\ UNCHANGED <<terminal, sequence, sink, log, result, phase, owner, requests, boundary>>
        /\ ingress' \in {"Running", "Stopping", "Terminal"} /\ fin[f].at = "persist"
    BY <1>0, <1>4 DEF Finalize, sinkVars, finFrame, ownerVars, OwnerTypes
  <2>2. OwnerInv'
    BY <1>0, <2>1, OwnerKept DEF OwnerTypes
  <2>3. owner = "Terminal"
    BY <1>0, <2>1 DEF GoodFin
  <2>4. FinStep(f, "done", None, IF f = "cancel" THEN fin[f].why ELSE None)
        \/ \E outcome \in Outcomes(f) : FinStep(f, "store", outcome, fin[f].why)
    BY <1>0, <1>4, FinishSteps
  <2>5. FinInv'
    BY <1>0, <2>1, <2>3, <2>4, OutcomesAreResults, FinMoved
  <2> QED BY <2>2, <2>5
<1>5. CASE AwaitBoundary(f)
  <2>1. UNCHANGED <<terminal, sequence, sink, log, result, phase, owner, ingress, requests, boundary>>
    BY <1>5 DEF AwaitBoundary, sinkVars, finFrame, ownerVars
  <2>2. OwnerInv'
    BY <1>0, <2>1, OwnerKept DEF OwnerTypes
  <2>3. PICK with \in Terminals : /\ FinStep(f, "publish", with, fin[f].why)
                                  /\ with \in Orderly => boundary \/ owner = "Terminal"
    BY <1>0, <1>5, FinishSteps
  <2>4. boundary' = boundary /\ owner' = owner /\ terminal' = terminal
    BY <2>1
  <2>5. FinInv'
    <3>1. with \in Withs /\ "publish" \in FinAts /\ "publish" # "persist" /\ "publish" # "store"
      BY <2>3
    <3>2. /\ boundary => boundary'
          /\ owner = "Terminal" => owner' = "Terminal" /\ terminal' = terminal
          /\ terminal' \in Orderly => boundary'
          /\ with \in Orderly => boundary' \/ owner' = "Terminal"
      BY <1>0, <2>3, <2>4, Zenon
    <3> QED BY <1>0, <2>3, <3>1, <3>2, FinMoved
  <2> QED BY <2>2, <2>5
<1>6. CASE Reap(f)
  <2>1. UNCHANGED <<terminal, sequence, sink, log, result, phase, owner, ingress, requests, boundary>>
    BY <1>6 DEF Reap, sinkVars, finFrame, ownerVars
  <2>2. OwnerInv'
    BY <1>0, <2>1, OwnerKept DEF OwnerTypes
  <2>3. FinStep(f, "await", fin[f].with, fin[f].why) \/ FinStep(f, "publish", "Lost", fin[f].why)
    BY <1>0, <1>6, FinishSteps
  <2>4. FinInv'
    BY <1>0, <2>1, <2>3, FinMoved
  <2> QED BY <2>2, <2>4
<1>7. CASE CloseAndWait(f) \/ Lock(f) \/ FailClosed(f) \/ Cooperate(f) \/ Cooperated(f)
  <2>1. UNCHANGED <<terminal, sequence, sink, log, result, owner, boundary>>
    BY <1>7 DEF CloseAndWait, Lock, FailClosed, Cooperate, Cooperated, stopFrame, sinkVars, finFrame, ownerVars
  <2>2. /\ ingress' \in {"Running", "Stopping", "Terminal"}
        /\ phase' \in {"PREPARING", "RUNNING", "STOPPING", "TERMINAL"} /\ (phase' = "TERMINAL") = (phase = "TERMINAL")
        /\ requests' \in [Ids -> RowStates]
    <3>1. CASE FailClosed(f)
      BY <1>0, <3>1, StopRows DEF FailClosed, CloseIngress, OwnerTypes
    <3>2. CASE ~FailClosed(f)
      BY <1>0, <1>7, <3>2 DEF CloseAndWait, Lock, Cooperate, Cooperated, CloseIngress, sinkVars, OwnerTypes
    <3> QED BY <3>1, <3>2
  <2>3. OwnerInv'
    BY <1>0, <2>1, <2>2, OwnerKept DEF OwnerTypes
  <2>4. \E at \in {"lock", "done", "cooperate", "begin", "cooperating"}, with \in Withs, why \in Whys : FinStep(f, at, with, why)
    BY <1>0, <1>7, FinishSteps
  <2>5. FinInv'
    BY <1>0, <2>1, <2>4, FinMoved
  <2> QED BY <2>3, <2>5
<1> QED BY <1>1, <1>2, <1>3, <1>4, <1>5, <1>6, <1>7 DEF Finish, FinishProcess

(* The publisher, the log and the threads that finish the process agree, in *)
(* every state.                                                            *)
LEMMA OwnerInvariant == Spec => [](OwnerInv /\ FinInv)
<1>1. Init => OwnerInv /\ FinInv
  <2> SUFFICES ASSUME Init
               PROVE  OwnerInv /\ FinInv
    OBVIOUS
  <2>1. IsSink(sink) /\ sink.last = 0 /\ sink.pendingTerminal = 0
    BY DEF Init, IsSink, SinkFields
  <2>2. /\ phase = "PREPARING" /\ ingress = "Running" /\ owner = "Running" /\ terminal = None /\ sequence = 1
        /\ log = <<>> /\ requests = [q \in Ids |-> None] /\ result = None
    BY DEF Init
  <2>3. OwnerTypes
    <3>1. log \in Seq(Records) /\ requests \in [Ids -> RowStates]
      BY <2>2 DEF RowStates
    <3> QED BY <2>1, <2>2, <3>1 DEF OwnerTypes
  <2>4. LogInv
    BY <2>1, <2>2 DEF LogInv, Below, NoTerminal, Increasing, TerminalIsLast
  <2>5. FinInv
    <3>1. fin = [f \in Threads |-> [at |-> IF f = "task" THEN "starting" ELSE "idle", with |-> None, why |-> None]]
      BY DEF Init
    <3>2. fin \in [Threads -> Fins]
      BY <3>1, FinNames DEF Fins
    <3>3. \A f \in Threads : GoodFin(fin[f])
      BY <3>1 DEF GoodFin
    <3>4. terminal \notin Orderly
      BY <2>2, FinNames
    <3> QED BY <3>2, <3>3, <3>4 DEF FinInv, PublishInv
  <2> QED BY <2>3, <2>4, <2>5 DEF OwnerInv
<1>2. OwnerInv /\ FinInv /\ StreamInv /\ [Next]_vars => (OwnerInv /\ FinInv)'
  <2> SUFFICES ASSUME OwnerInv, FinInv, StreamInv, [Next]_vars
               PROVE  OwnerInv' /\ FinInv'
    OBVIOUS
  <2>1. CASE DriverStep \/ UNCHANGED vars
    <3>1. UNCHANGED <<terminal, sequence, sink, log, result, owner, phase, ingress, requests, fin, boundary>>
      BY <2>1 DEF DriverStep, vars, restOfOwner, threadVars, ownerVars, sinkVars
    <3>2. OwnerInv'
      BY <3>1, OwnerKept DEF OwnerInv, OwnerTypes
    <3>3. FinInv'
      BY <3>1, FinKept DEF FinInv, PublishInv
    <3> QED BY <3>2, <3>3
  <2>2. CASE Pump
    BY <2>2, OwnerPump
  <2>3. CASE Command
    BY <2>3, OwnerCommand
  <2>4. CASE \E r \in Responders : Respond(r)
    BY <2>4, OwnerRespond
  <2>5. CASE Decide \/ Cancel \/ \E reason \in IdleTimeouts : SeeTimeout(reason)
    BY <2>5, OwnerDecide
  <2>6. CASE \E f \in Threads : Finish(f)
    BY <2>6, OwnerFinish
  <2> QED BY <2>1, <2>2, <2>3, <2>4, <2>5, <2>6 DEF Next
<1> QED BY <1>1, <1>2, StreamInvariant, PTL DEF Spec

(* Every thread that finishes the process goes on with the one terminal of *)
(* the publisher, and that is the terminal of the log.                     *)
THEOREM ThreadsAgree == Spec => []SameTerminal
<1>1. OwnerInv /\ FinInv => SameTerminal
  BY DEF OwnerInv, FinInv, LogInv, PublishInv, GoodFin, SameTerminal
<1> QED BY <1>1, OwnerInvariant, PTL

(* Source numbers of the log increase and the terminal record is the last. *)
THEOREM LogIsOrdered == Spec => []TerminalIsLast
<1>1. OwnerInv => TerminalIsLast
  BY DEF OwnerInv, LogInv
<1> QED BY <1>1, OwnerInvariant, PTL

(* Before an orderly terminal everything the reader read has reached the   *)
(* publisher, unless the reader missed the barrier.                        *)
THEOREM OrderlyIsComplete == Spec => []EventsBeforeTerminal
<1>1. StreamInv /\ FinInv => EventsBeforeTerminal
  <2> SUFFICES ASSUME StreamInv, FinInv, terminal \in Orderly, ~late
               PROVE  reader = "done" /\ raw = <<>> /\ inbox = <<>> /\ pump = "ended"
    BY DEF EventsBeforeTerminal
  <2>1. boundary
    BY DEF FinInv, PublishInv
  <2>2. monitor = "done"
    BY <2>1 DEF StreamInv, StreamTypes, QueueInv
  <2> QED BY <2>1, <2>2 DEF StreamInv, QueueInv
<1> QED BY <1>1, StreamInvariant, OwnerInvariant, PTL
=============================================================================
