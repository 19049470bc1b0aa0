--------------------------- MODULE CommandExchange ---------------------------
(***************************************************************************)
(* What RemoteRuntime promises the caller of                               *)
(* execute_command_with_timeout_until, without the registry, the           *)
(* dispatcher or the transport: a call that has been submitted ends once,  *)
(* either with an event the device emitted for its context, or with a      *)
(* failure that says nothing about the device, or because the caller       *)
(* dropped it.  No event answers two calls.                                *)
(***************************************************************************)
EXTENDS Naturals

CONSTANTS
  Calls,      \* invocations of execute_command_with_timeout_until, send_command
  Contexts,   \* command identifiers (UUID v4 in the code)
  NoContext,  \* the context of an event that answers nothing
  NoMessage,  \* no message
  ContextOf,  \* the identifier of the CommandMessage each call carries
  OneShot     \* the calls that take the first event they get as their answer

Kinds == {"terminal", "intermediate", "error", "log"}

Message == [id : Nat, ctx : Contexts \cup {NoContext}, kind : Kinds]

\* The is_terminal closure of call c accepts event m.
Terminal(c, m) == m.kind = "terminal" \/ c \in OneShot

VARIABLES
  phase,     \* [Calls -> Phases]
  answer,    \* the event a call ended with, or NoMessage
  executed,  \* the calls whose command the device received
  emitted,   \* every event the device emitted
  count      \* how many those are; the next event's id is count + 1

vars == <<phase, answer, executed, emitted, count>>

Phases == {"idle", "posted", "open", "ok", "refused", "failed", "cancelled"}

Init ==
  /\ phase = [c \in Calls |-> "idle"]
  /\ answer = [c \in Calls |-> NoMessage]
  /\ executed = {}
  /\ emitted = {}
  /\ count = 0

Submit(c) ==
  /\ phase[c] = "idle"
  /\ phase' = [phase EXCEPT ![c] = "open"]
  /\ UNCHANGED <<answer, executed, emitted, count>>

\* Fire and forget: nobody waits for the events of this command.
Post(c) ==
  /\ phase[c] = "idle"
  /\ phase' = [phase EXCEPT ![c] = "posted"]
  /\ UNCHANGED <<answer, executed, emitted, count>>

Execute(c) ==
  /\ phase[c] # "idle"
  /\ executed' = executed \cup {c}
  /\ UNCHANGED <<phase, answer, emitted, count>>

\* The device answers only commands it received; it may also speak unasked.
Emit ==
  \E x \in {ContextOf[c] : c \in executed} \cup {NoContext}, k \in Kinds :
    /\ emitted' = emitted \cup {[id |-> count + 1, ctx |-> x, kind |-> k]}
    /\ count' = count + 1
    /\ UNCHANGED <<phase, answer, executed>>

AnswerWith(c, m) ==
  /\ phase[c] = "open"
  /\ m \in emitted
  /\ m.ctx = ContextOf[c]
  /\ \A d \in Calls : answer[d] # m
  /\ answer' = [answer EXCEPT ![c] = m]
  /\ UNCHANGED <<executed, emitted, count>>

Succeed(c) ==
  \E m \in emitted :
    /\ m.kind # "error" /\ Terminal(c, m)
    /\ AnswerWith(c, m)
    /\ phase' = [phase EXCEPT ![c] = "ok"]

Refuse(c) ==
  \E m \in emitted :
    /\ m.kind = "error"
    /\ AnswerWith(c, m)
    /\ phase' = [phase EXCEPT ![c] = "refused"]

\* Transport error, timeout.
Fail(c) ==
  /\ phase[c] = "open"
  /\ phase' = [phase EXCEPT ![c] = "failed"]
  /\ UNCHANGED <<answer, executed, emitted, count>>

\* The caller drops the future.
Cancel(c) ==
  /\ phase[c] = "open"
  /\ phase' = [phase EXCEPT ![c] = "cancelled"]
  /\ UNCHANGED <<answer, executed, emitted, count>>

CallStep(c) ==
  \/ Submit(c) \/ Post(c) \/ Execute(c)
  \/ Succeed(c) \/ Refuse(c) \/ Fail(c) \/ Cancel(c)

Next == Emit \/ \E c \in Calls : CallStep(c)

Spec == Init /\ [][Next]_vars
=============================================================================
