----------------------------- MODULE MCRuntime -----------------------------
(* Instances of Runtime for TLC. *)
EXTENDS Runtime, TLC

\* The bootstrap, whose session/create stands for it and the session/subscribe that
\* follows, a first turn and one queued message.
MCScript == <<"create", "send", "send">>

L(k, v) == [k |-> k, v |-> v]
Opening == <<L("result", 1), L("result", 2), L("started", 1)>>

\* A turn with text.
Text == Opening \o <<L("text", 1), L("completed", 1)>>
\* A permission request, open when the turn ends.
Permission == Opening \o <<L("permission", 1), L("completed", 1)>>
\* A permission request whose id is used again.
Again == Opening \o <<L("permission", 1), L("permission", 1)>>
\* Turns that start before their send is answered; the second is over the budget.
Turns == <<L("result", 1), L("started", 1), L("result", 2), L("failed", 1), L("started", 2),
           L("result", 3)>>
\* Chunks that the telemetry reports too or that are repeated, more text than the limit, a
\* request before the row is running, a repeated answer and a broken stream.
Broken == <<L("preferences", 1), L("telemetry", 1), L("text", 1), L("text", 1), L("text", 2), L("permission", 1),
            L("error", 1), L("result", 1), L("oversized", 0)>>

MCConversations == {Text, Permission, Again, Turns, Broken}

\* What the theorem about the text presupposes holds of these conversations.
ASSUME TextPremises == Conversations = MCConversations => FewIdentities /\ OneEventPerId

E(status, orphan) == [status |-> status, orphan |-> orphan]
MCExits == [c \in MCConversations |->
             CASE c = Text -> {E("zero", FALSE)}
               [] c \in {Permission, Again} -> {}
               [] c = Turns -> {E("failure", FALSE)}
               [] OTHER -> {E("zero", TRUE)}]

\* Tool calls of a turn; the telemetry reports the first one late.
Tools == Opening \o <<L("model", 1), L("reasoning", 1), L("modelEnd", 1), L("telemetryOther", 1),
                      L("tool", 1), L("toolEnd", 1), L("telemetryTool", 1), L("tool", 2)>>
MCTools == {Tools}
NoExits == [c \in MCTools |-> {}]
=============================================================================
