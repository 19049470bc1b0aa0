--------------------------- MODULE FixtureTransition ---------------------------
(***************************************************************************)
(* RemoteFixture::transition and the tasks run_fixture_transition starts,  *)
(* one per fixture (fixture.rs, main.rs); RemoteSource::transition is the  *)
(* same.  A call waits until its duration and two seconds have passed for  *)
(* a TransitionEnd in its own context that repeats its transition.         *)
(*                                                                         *)
(* The device runs one transition per fixture.  A new one, or any other    *)
(* command that sets the fixture, interrupts it; the interrupted one ends  *)
(* too, with its own transition and the state it had got to (message.rs,   *)
(* FixtureEvent).  That report may also be an error or an event the call   *)
(* does not take, or be lost.  "other" is any event is_terminal does not   *)
(* accept, an end whose transition does not compare equal among them (it   *)
(* holds floats).  RemoteRuntime brings a call the events of its context   *)
(* in order; here they are a queue.                                        *)
(***************************************************************************)
EXTENDS Naturals, Sequences

CONSTANTS
  Calls,         \* transition calls
  Fixtures,
  NoTransition   \* no transition under way

ASSUME FixtureTransitionAssumption == NoTransition \notin Calls /\ Fixtures # {}

VARIABLES
  call,       \* [Calls -> stage, fixture, and the final state it returned]
  queued,     \* the calls whose command is on its way to the device
  events,     \* [Calls -> the events of its context not yet looked at]
  running,    \* [Fixtures -> the call whose transition each is running]
  completed   \* history: the calls whose transition reached its target

transitionVars == <<call, queued, events, running, completed>>

TransitionEnds == {"ok", "error", "timeout", "unexpected"}

\* A fixture's state, as far as the calls tell it apart: the transition's
\* target, or one it was cut short at.
FixtureStates == {"target", "cut"}
TransitionEvent == [kind : {"start", "end", "error", "other"}, state : FixtureStates,
                    resource : Fixtures \cup {NoTransition}]

TransitionTypeOK ==
  /\ call \in [Calls -> [stage : {"new", "waiting"} \cup TransitionEnds,
                         fixture : Fixtures, final : FixtureStates \cup {"none"}]]
  /\ queued \subseteq Calls
  /\ events \in [Calls -> Seq(TransitionEvent)]
  /\ running \in [Fixtures -> Calls \cup {NoTransition}]
  /\ completed \subseteq Calls

TransitionInit ==
  /\ call = [c \in Calls |-> [stage |-> "new", fixture |-> CHOOSE f \in Fixtures : TRUE,
                              final |-> "none"]]
  /\ queued = {}
  /\ events = [c \in Calls |-> <<>>]
  /\ running = [f \in Fixtures |-> NoTransition]
  /\ completed = {}

\* Several calls may be for the same fixture.  A command that could not be
\* sent may have reached the device all the same.
CallTransition(c) ==
  /\ call[c].stage = "new"
  /\ \E f \in Fixtures, stage \in {"waiting", "error"} :
       /\ call' = [call EXCEPT ![c].stage = stage, ![c].fixture = f]
       /\ \/ queued' = queued \cup {c}
          \/ stage = "error" /\ queued' = queued
  /\ UNCHANGED <<events, running, completed>>

Emit(c, kind, state, resource) ==
  Append(events[c], [kind |-> kind, state |-> state, resource |-> resource])

\* The device begins, perhaps when the call has long given up; what it was
\* doing is interrupted.
Begins(c) ==
  LET f == call[c].fixture  d == running[call[c].fixture] IN
    /\ c \in queued /\ queued' = queued \ {c}
    /\ running' = [running EXCEPT ![f] = c]
    /\ \/ events' = [events EXCEPT ![c] = Emit(c, "start", "cut", f)]
       \/ /\ d # NoTransition
          /\ \E kind \in {"end", "error", "other"} :
               events' = [events EXCEPT ![c] = Emit(c, "start", "cut", f),
                                        ![d] = Emit(d, kind, "cut", f)]
    /\ UNCHANGED <<call, completed>>

\* Or it refuses.
Refuses(c) ==
  /\ c \in queued /\ queued' = queued \ {c}
  /\ events' = [events EXCEPT ![c] = Emit(c, "error", "cut", call[c].fixture)]
  /\ UNCHANGED <<call, running, completed>>

\* A display command, or the transition of another application.
DropTransition(f) ==
  LET d == running[f] IN
    /\ d # NoTransition
    /\ running' = [running EXCEPT ![f] = NoTransition]
    /\ \/ UNCHANGED events
       \/ \E kind \in {"end", "error", "other"} :
            events' = [events EXCEPT ![d] = Emit(d, kind, "cut", f)]
    /\ UNCHANGED <<call, queued, completed>>

\* The end of a transition may be reported of another resource.
Completes(f) ==
  LET d == running[f] IN
    /\ d # NoTransition
    /\ running' = [running EXCEPT ![f] = NoTransition]
    /\ completed' = completed \cup {d}
    /\ \E kind \in {"end", "other"}, r \in {f, NoTransition} :
         events' = [events EXCEPT ![d] = Emit(d, kind, "target", r)]
    /\ UNCHANGED <<call, queued>>

\* Mutant: the first transition event of the context will do.
EndsWithAny(e) == e.kind \in {"start", "end"}

\* is_terminal
EndsAsAsked(e) == e.kind = "end"

Outcome(c, e) ==
  CASE e.kind = "error" -> "error"
    [] EndsAsAsked(e) /\ e.resource = call[c].fixture -> "ok"
    [] EndsAsAsked(e) /\ e.resource # call[c].fixture -> "unexpected"
    [] OTHER -> "waiting"

TakeEvent(c) ==
  LET e == Head(events[c])  o == Outcome(c, Head(events[c])) IN
    /\ call[c].stage = "waiting" /\ events[c] # <<>>
    /\ call' = [call EXCEPT ![c].stage = o, ![c].final = IF o = "ok" THEN e.state ELSE "none"]
    /\ events' = [events EXCEPT ![c] = Tail(@)]
    /\ UNCHANGED <<queued, running, completed>>

\* The duration and two seconds have passed.
GivesUp(c) ==
  /\ call[c].stage = "waiting" /\ events[c] = <<>>
  /\ call' = [call EXCEPT ![c].stage = "timeout"]
  /\ UNCHANGED <<queued, events, running, completed>>

TransitionNext ==
  \/ \E c \in Calls :
       CallTransition(c) \/ Begins(c) \/ Refuses(c) \/ TakeEvent(c) \/ GivesUp(c)
  \/ \E f \in Fixtures : DropTransition(f) \/ Completes(f)

TransitionSpec == TransitionInit /\ [][TransitionNext]_transitionVars

(***************************************************************************)
(* A call that returns a final state is over on the device, which will not *)
(* touch the fixture on its behalf any more, and the state says whether it *)
(* was interrupted, whoever interrupts whom: it is the target exactly when *)
(* the transition ran to its end (transition, fixture.rs 147-191; "may     *)
(* differ from the target if the transition was interrupted", lib.rs 62).  *)
(***************************************************************************)
OkTellsTheEnd ==
  \A c \in Calls : call[c].stage = "ok" =>
    /\ c \notin queued /\ \A f \in Fixtures : running[f] # c
    /\ call[c].final = IF c \in completed THEN "target" ELSE "cut"
================================================================================
