-------------------------- MODULE PassiveActivity --------------------------
(***************************************************************************)
(* The tracker of passive activity: what it makes of each event of a       *)
(* runtime. The session and the telemetry channel of the app-server report *)
(* the same chunks and tools under the same identities; only the session   *)
(* carries text, and which tools and model requests are active decides     *)
(* which timeout applies to a silent runtime.                              *)
(***************************************************************************)
EXTENDS Integers, Sequences, FiniteSets

CONSTANTS MaxIdentities,  \* MAX_ACTIVITY_IDENTITIES
          TextLimit       \* terminal_text_limit, in chunks

ASSUME LimitsAreNat == MaxIdentities \in Nat /\ TextLimit \in Nat

None == "none"

(* -------------------------- ParsedActivity ----------------------------- *)
\* An identity is a tuple; the empty one says that the event has none.
Parsed(source, identity, sample, transition) ==
  [source |-> source, identity |-> identity, sample |-> sample, transition |-> transition,
   known |-> TRUE]

RuntimeActivity == Parsed("runtime", <<>>, None, None)
ChunkActivity(source, id, sample) == Parsed(source, <<"stream", id>>, sample, None)
ModelActivity(source, id, phase) == Parsed(source, <<"model", id, phase>>, None, phase)
ToolActivity(source, id, phase) == Parsed(source, <<"tool", id, phase>>, phase, phase)
PermissionActivity(id, phase) == Parsed("runtime", <<"permission", id, phase>>, None, phase)
TurnActivity(id, phase) == Parsed("session", <<"turn", id, phase>>, None, phase)

\* session/event, by its type and payload.
SessionActivity(k, id) ==
  CASE k = "text" -> ChunkActivity("session", id, "text")
    [] k = "reasoning" -> ChunkActivity("session", id, "reasoning")
    [] k = "tool" -> ToolActivity("session", id, "toolStarted")
    [] k = "toolEnd" -> ToolActivity("session", id, "toolEnded")
    [] k = "model" -> ModelActivity("session", id, "modelStarted")
    [] k = "modelEnd" -> ModelActivity("session", id, "modelEnded")
    [] k = "started" -> TurnActivity(id, "turnStarted")
    [] k \in {"completed", "failed"} -> TurnActivity(id, "turnEnded")
    [] OTHER -> RuntimeActivity

\* v4/telemetry/event, by its kind; what it does not know degrades the telemetry.
TelemetryActivity(k, id) ==
  CASE k = "telemetry" -> ChunkActivity("telemetry", id, "text")
    [] k = "telemetryTool" -> ToolActivity("telemetry", id, "toolStarted")
    [] OTHER -> [Parsed("telemetry", <<>>, None, None) EXCEPT !.known = FALSE]

TelemetryKinds == {"telemetry", "telemetryTool", "telemetryOther"}

ParseActivity(item) ==
  CASE item.k = "permission" -> PermissionActivity(item.v, "requested")
    [] item.k \in TelemetryKinds -> TelemetryActivity(item.k, item.v)
    [] OTHER -> SessionActivity(item.k, item.v)

(* ----------------------- PassiveActivityTracker ------------------------ *)
NoActivity == [seen |-> FALSE, degraded |-> FALSE, samples |-> <<>>, models |-> {}, tools |-> {},
               text |-> <<>>, oversized |-> FALSE]

\* A session event takes the place of a telemetry sample; any other repeat is refused.
Admitted(state, parsed) ==
  parsed.identity # <<>> /\ parsed.sample # None =>
    \A i \in DOMAIN state.samples :
      state.samples[i].identity = parsed.identity =>
        state.samples[i].source = "telemetry" /\ parsed.source = "session"

\* The samples in the order of their first report, the oldest ones dropped.
AddSample(samples, parsed) ==
  LET sample == [identity |-> parsed.identity, source |-> parsed.source]
      same == {i \in DOMAIN samples : samples[i].identity = parsed.identity}
      added == IF same = {} THEN Append(samples, sample)
               ELSE [i \in DOMAIN samples |-> IF i \in same THEN sample ELSE samples[i]]
  IN IF parsed.identity = <<>> \/ parsed.sample = None THEN samples
     ELSE IF Len(added) > MaxIdentities THEN Tail(added) ELSE added

\* append_latest_text: a text over the limit is dropped for good.
AppendText(state, chunk) ==
  IF state.oversized THEN state
  ELSE IF Len(state.text) < TextLimit THEN [state EXCEPT !.text = Append(@, chunk)]
  ELSE [state EXCEPT !.text = <<>>, !.oversized = TRUE]

\* Mutant: the telemetry's copy of a chunk is text too.
TelemetryAddsText(item) == item.k \in {"text", "telemetry"}

CarriesText(item) == item.k = "text"

Transition(state, parsed, id) ==
  CASE parsed.transition = "modelStarted" -> [state EXCEPT !.models = @ \cup {id}]
    [] parsed.transition = "modelEnded" -> [state EXCEPT !.models = @ \ {id}]
    [] parsed.transition = "toolStarted" -> [state EXCEPT !.tools = @ \cup {id}]
    [] parsed.transition = "toolEnded" -> [state EXCEPT !.tools = @ \ {id}]
    [] parsed.transition = "turnEnded" -> [state EXCEPT !.models = {}, !.tools = {}]
    [] OTHER -> state

\* The transition is applied although a repeated sample is refused.
ActivityObserve(state, item) ==
  LET parsed == ParseActivity(item)
      admitted == Admitted(state, parsed)
      sampled == [state EXCEPT !.seen = TRUE,
                               !.degraded = @ \/ ~parsed.known,
                               !.samples = IF admitted THEN AddSample(@, parsed) ELSE @]
      texted == IF admitted /\ CarriesText(item) THEN AppendText(sampled, item.v) ELSE sampled
  IN Transition(texted, parsed, item.v)

TakeTerminalText(state) == CASE state.oversized -> "Oversized"
                             [] ~state.oversized /\ state.text = <<>> -> "Missing"
                             [] OTHER -> "Visible"

(* ------------------------ runtime_timeout_reason ----------------------- *)
\* The one timeout that applies to a runtime in this state; its time may have come.
TimeoutReason(state, waitsForInput) ==
  CASE waitsForInput -> "INPUT_WAIT_TIMEOUT"
    [] ~waitsForInput /\ state.tools # {} -> "TOOL_CALL_TIMEOUT"
    [] ~waitsForInput /\ state.tools = {} /\ state.models # {} -> "MODEL_STREAM_IDLE_TIMEOUT"
    [] ~waitsForInput /\ state.tools = {} /\ state.models = {} /\ state.seen ->
         "RUNTIME_ACTIVITY_IDLE_TIMEOUT"
    [] OTHER -> None
=============================================================================
