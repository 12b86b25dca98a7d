---------------------------- MODULE StopService ----------------------------
(***************************************************************************)
(* What Driver::stop_and_reap promises to the threads that share a Driver. *)
(* Calls are grouped into attempts: at most one attempt runs at a time, a  *)
(* call that arrives while it runs joins it, and every call that belongs   *)
(* to an attempt is answered with the result of that attempt. A success is *)
(* final: every later call is answered with it and no attempt follows.     *)
(***************************************************************************)
EXTENDS Naturals

CONSTANT Callers        \* the threads that may call stop_and_reap

VARIABLES attempt,      \* number of attempts begun
          running,      \* an attempt is being carried out
          stopped,      \* an attempt succeeded
          call          \* what each thread knows of its call

serviceVars == <<attempt, running, stopped, call>>

Idle == [state |-> "idle", attempt |-> 0, ok |-> FALSE]
Calling == [state |-> "calling", attempt |-> 0, ok |-> FALSE]
Joined(a) == [state |-> "joined", attempt |-> a, ok |-> FALSE]
Answered(a, ok) == [state |-> "answered", attempt |-> a, ok |-> ok]

ServiceInit == /\ attempt = 0
               /\ running = FALSE
               /\ stopped = FALSE
               /\ call = [c \in Callers |-> Idle]

Call(c) == /\ call[c] = Idle
           /\ call' = [call EXCEPT ![c] = Calling]
           /\ UNCHANGED <<attempt, running, stopped>>

\* The first caller starts an attempt, unless one succeeded.
Start(c) == /\ call[c] = Calling
            /\ ~running /\ ~stopped
            /\ attempt' = attempt + 1
            /\ running' = TRUE
            /\ call' = [call EXCEPT ![c] = Joined(attempt')]
            /\ UNCHANGED stopped

Join(c) == /\ call[c] = Calling
           /\ running
           /\ call' = [call EXCEPT ![c] = Joined(attempt)]
           /\ UNCHANGED <<attempt, running, stopped>>

\* The end of an attempt answers everyone who joined it, at once.
End(ok) == /\ running
           /\ running' = FALSE
           /\ stopped' = ok
           /\ call' = [c \in Callers |-> IF call[c] = Joined(attempt) THEN Answered(attempt, ok)
                                                                     ELSE call[c]]
           /\ UNCHANGED attempt

\* Calls after a success are answered with it.
Late(c) == /\ call[c] = Calling
           /\ stopped
           /\ call' = [call EXCEPT ![c] = Answered(attempt, TRUE)]
           /\ UNCHANGED <<attempt, running, stopped>>

Return(c) == /\ call[c].state = "answered"
             /\ call' = [call EXCEPT ![c] = Idle]
             /\ UNCHANGED <<attempt, running, stopped>>

ServiceNext == \/ \E ok \in BOOLEAN : End(ok)
               \/ \E c \in Callers : Call(c) \/ Start(c) \/ Join(c) \/ Late(c) \/ Return(c)

ServiceSpec == ServiceInit /\ [][ServiceNext]_serviceVars
=============================================================================
