---------------------------- MODULE RemoteRuntime ----------------------------
(***************************************************************************)
(* RemoteRuntime (runtime.rs): commands executed concurrently over one     *)
(* connection, the registry that matches events to waiting commands, the   *)
(* dispatch task, and the bounded channels between them.                   *)
(*                                                                         *)
(* A step is the code between two await points, or one critical section    *)
(* of pending_commands: the mutex is never held across an await.  A call   *)
(* is one invocation of execute_command_with_timeout_until (or of          *)
(* send_command); its future can be dropped at any await.  The device and  *)
(* the operating system's side of the transport are the environment.       *)
(*                                                                         *)
(* connect and disconnect are issued one after the other here (ctl); two   *)
(* of them at once are the subject of RuntimeLifecycle.                    *)
(***************************************************************************)
EXTENDS Naturals, Sequences, SequencesExt

CONSTANTS
  Calls,          \* invocations of execute_command_with_timeout_until, send_command
  Contexts,       \* command identifiers
  NoContext,      \* the context of an event that answers nothing
  NoMessage,      \* the dispatcher holds no message
  NoCall,         \* the dispatcher holds no response sender
  ContextOf,      \* the identifier of the CommandMessage each call carries
  OneShot,        \* the calls whose is_terminal is |_| true
  DeviceKinds,    \* the kinds of event the device emits in this instance
  Buffer,         \* COMMAND_EVENT_BUFFER, 16 in the code
  UnmatchedCap,   \* capacity of the unmatched-message channel, 64 in the code
  TransportCap,   \* capacity of the transport's receive channel, 64 in the code
  DropsWhenFull,  \* TRUE: USB and serial readers (try_send); FALSE: WiFi (send)
  MaxMessages     \* bound on the events the device emits

Kinds == {"terminal", "intermediate", "error", "log"}

Message == [id : Nat, ctx : Contexts \cup {NoContext}, kind : Kinds]

ASSUME RuntimeAssumption ==
  /\ NoContext \notin Contexts
  /\ NoMessage \notin Message
  /\ NoCall \notin Calls
  /\ ContextOf \in [Calls -> Contexts]
  /\ OneShot \subseteq Calls
  /\ DeviceKinds \subseteq Kinds
  /\ Buffer \in Nat \ {0}
  /\ UnmatchedCap \in Nat \ {0}
  /\ TransportCap \in Nat \ {0}
  /\ DropsWhenFull \in BOOLEAN
  /\ MaxMessages \in Nat

VARIABLES
  \* the calls
  pc,         \* where each call is
  outcome,    \* how a call ends, once it knows
  answer,     \* the event it ends with, or NoMessage
  chan,       \* its response channel
  swallowed,  \* what was left in that channel when the call ended
  wire,       \* its CommandMessage on the way to the device
  \* pending_commands
  pending,    \* the calls registered, a Vec in the code
  ahead,      \* the calls that were in front of each one when it was pushed
  \* the dispatch task
  disp,       \* where it is
  hand,       \* the message it is dispatching
  target,     \* the call whose response sender it holds
  unmatched,  \* the channel next_message reads
  logging,    \* logging_enabled
  \* the connection and its user
  link,       \* "down", "up", or "deaf": up, but its reader task has ended
  ctl,        \* where the user of connect and disconnect is
  inbound,    \* the transport's receive channel
  \* the device
  count,      \* events emitted so far
  \* history: where every event went
  emitted,    \* all of them
  given,      \* by call, those put into its response channel
  forwarded,  \* those put into the unmatched channel
  logged,     \* those consumed by the logger
  dropped,    \* those the full unmatched channel refused
  overflowed, \* those a reader threw away because the receive channel was full
  lost        \* those lost with the connection, when disconnect closed it

callVars == <<pc, outcome, answer, chan, swallowed, wire>>
registry == <<pending, ahead>>
dispVars == <<disp, hand, target>>
appVars  == <<unmatched, logging>>
linkVars == <<link, ctl, inbound>>
history  == <<emitted, given, forwarded, logged, dropped, overflowed, lost>>
vars == <<callVars, registry, dispVars, appVars, linkVars, count, history>>

CallStates == {"idle", "sending", "waiting", "removing", "returned", "cancelled"}
Outcomes == {"none", "posted", "ok", "error", "sendError", "timeout", "closed"}
DispatcherStates == {"ended", "recv", "lookup", "deliver", "purge", "forward"}

TypeOK ==
  /\ pc \in [Calls -> CallStates]
  /\ outcome \in [Calls -> Outcomes]
  /\ answer \in [Calls -> Message \cup {NoMessage}]
  /\ chan \in [Calls -> Seq(Message)] /\ \A c \in Calls : Len(chan[c]) <= Buffer
  /\ swallowed \in [Calls -> Seq(Message)] /\ \A c \in Calls : Len(swallowed[c]) <= Buffer
  /\ wire \in [Calls -> {"none", "queued", "delivered", "gone"}]
  /\ pending \subseteq Calls
  /\ ahead \in [Calls -> SUBSET Calls]
  /\ disp \in DispatcherStates
  /\ hand \in Message \cup {NoMessage}
  /\ target \in Calls \cup {NoCall}
  /\ unmatched \in Seq(Message) /\ Len(unmatched) <= UnmatchedCap
  /\ logging \in BOOLEAN
  /\ link \in {"down", "up", "deaf"}
  /\ ctl \in {"idle", "opened", "stopped"}
  /\ inbound \in Seq(Message) /\ Len(inbound) <= TransportCap
  /\ count \in Nat
  /\ emitted \subseteq Message
  /\ given \in [Calls -> SUBSET Message]
  /\ forwarded \subseteq Message
  /\ logged \subseteq Message
  /\ dropped \subseteq Message
  /\ overflowed \subseteq Message
  /\ lost \subseteq Message

Init ==
  /\ pc = [c \in Calls |-> "idle"]
  /\ outcome = [c \in Calls |-> "none"]
  /\ answer = [c \in Calls |-> NoMessage]
  /\ chan = [c \in Calls |-> <<>>] /\ swallowed = [c \in Calls |-> <<>>]
  /\ wire = [c \in Calls |-> "none"]
  /\ pending = {}
  /\ ahead = [c \in Calls |-> {}]
  /\ disp = "ended" /\ hand = NoMessage /\ target = NoCall
  /\ unmatched = <<>> /\ logging = FALSE
  /\ link = "down" /\ ctl = "idle" /\ inbound = <<>>
  /\ count = 0
  /\ emitted = {} /\ forwarded = {} /\ logged = {} /\ dropped = {}
  /\ overflowed = {} /\ lost = {}
  /\ given = [c \in Calls |-> {}]

\* The call's response_rx exists: is_closed() is false for its sender.
Live(c) == pc[c] \in {"sending", "waiting", "removing"}

\* The is_terminal closure of call c accepts event m.
Terminal(c, m) == m.kind = "terminal" \/ c \in OneShot

\* Mutant: a receiver is taken for closed until its command has been sent.
ClosedUntilSent(c) == pc[c] \notin {"waiting", "removing"}

\* Mutant: a receiver counts as closed only once it has left the registry.
ClosedUnregistered(c) == ~Live(c) /\ c \notin pending

\* response_tx.is_closed()
Closed(c) == ~Live(c)

\* Mutant: the channel is unbounded.
HasRoomAlways(c) == TRUE

HasRoom(c) == Len(chan[c]) < Buffer

\* Mutant: the predicate of retain is the wrong way round.
WithContext(x) == {c \in pending : ContextOf[c] = x}

\* pending.retain(|registration| registration.context != x)
WithoutContext(x) == {c \in pending : ContextOf[c] # x}

\* Mutant: a call that timed out keeps its registration.
UnregisteredUnlessTimeout(c) ==
  IF outcome[c] = "timeout" THEN pending ELSE WithoutContext(ContextOf[c])

\* Mutant: a failed send returns before the registration is removed.
UnregisteredUnlessUnsent(c) ==
  IF outcome[c] = "sendError" THEN pending ELSE WithoutContext(ContextOf[c])

\* The registry as the end of call c leaves it.
Unregistered(c) == WithoutContext(ContextOf[c])

\* Mutant: is_terminal is asked before the event is checked for an error.
EndsWithTerminalFirst(c, m) ==
  IF Terminal(c, m) THEN "ok" ELSE IF m.kind = "error" THEN "error" ELSE "none"

\* Mutant: an error is_terminal does not accept passes for an intermediate event.
EndsWithTerminalOnly(c, m) ==
  IF ~Terminal(c, m) THEN "none" ELSE IF m.kind = "error" THEN "error" ELSE "ok"

\* How event m ends call c, if it does.
EndsWith(c, m) ==
  IF m.kind = "error" THEN "error" ELSE IF Terminal(c, m) THEN "ok" ELSE "none"

\* Mutant: the timeout covers the first event only.
ExpiresBeforeFirst(c) == chan[c] = <<>> /\ given[c] = {}

\* timeout_at polls recv first: the deadline wins only over an empty channel.
Expires(c) == chan[c] = <<>>

(***************************************************************************)
(* execute_command_with_timeout_until, send_command                        *)
(***************************************************************************)

\* The registration is pushed before the command is sent.
Register(c) ==
  /\ pc[c] = "idle"
  /\ pc' = [pc EXCEPT ![c] = "sending"]
  /\ pending' = pending \cup {c}
  /\ ahead' = [ahead EXCEPT ![c] = pending]
  /\ UNCHANGED <<outcome, answer, chan, swallowed, wire, dispVars, appVars, linkVars, count, history>>

\* send_command: nothing is registered, the events it causes are unmatched.
SendCommand(c) ==
  /\ pc[c] = "idle" /\ link # "down"
  /\ pc' = [pc EXCEPT ![c] = "returned"]
  /\ outcome' = [outcome EXCEPT ![c] = "posted"]
  /\ wire' = [wire EXCEPT ![c] = "queued"]
  /\ UNCHANGED <<answer, chan, swallowed, registry, dispVars, appVars, linkVars, count, history>>

\* connection.send_message accepts the command: it is being written, or is in
\* the write queue of the serial transport.
HandOver(c) ==
  /\ pc[c] = "sending" /\ wire[c] = "none" /\ link # "down"
  /\ wire' = [wire EXCEPT ![c] = "queued"]
  /\ UNCHANGED <<pc, outcome, answer, chan, swallowed, registry, dispVars, appVars, linkVars, count, history>>

\* send_message returns Ok; the device may or may not have the command yet,
\* and may even have answered it.
SendReturns(c) ==
  /\ pc[c] = "sending" /\ wire[c] # "none"
  /\ pc' = [pc EXCEPT ![c] = "waiting"]
  /\ UNCHANGED <<outcome, answer, chan, swallowed, wire, registry, dispVars, appVars, linkVars, count, history>>

\* The call knows how it ends and goes for the registry lock.
Conclude(c, o, m) ==
  /\ pc' = [pc EXCEPT ![c] = "removing"]
  /\ outcome' = [outcome EXCEPT ![c] = o]
  /\ answer' = [answer EXCEPT ![c] = m]

\* send_message returns Err, not connected or a failed write.
SendFails(c) ==
  /\ pc[c] = "sending"
  /\ Conclude(c, "sendError", NoMessage)
  /\ UNCHANGED <<chan, swallowed, wire, registry, dispVars, appVars, linkVars, count, history>>

\* One turn of the wait loop with an event from response_rx.
Consume(c) ==
  /\ pc[c] = "waiting" /\ chan[c] # <<>>
  /\ LET m == Head(chan[c]) IN
       IF m.ctx # ContextOf[c] \/ EndsWith(c, m) = "none"
         THEN UNCHANGED <<pc, outcome, answer>>
         ELSE Conclude(c, EndsWith(c, m), m)
  /\ chan' = [chan EXCEPT ![c] = Tail(@)]
  /\ UNCHANGED <<swallowed, wire, registry, dispVars, appVars, linkVars, count, history>>

\* The deadline passes.
TimeOut(c) ==
  /\ pc[c] = "waiting" /\ Expires(c)
  /\ Conclude(c, "timeout", NoMessage)
  /\ UNCHANGED <<chan, swallowed, wire, registry, dispVars, appVars, linkVars, count, history>>

\* recv returns None: every sender is gone, while the call still waits.
ChannelClosed(c) ==
  /\ pc[c] = "waiting" /\ chan[c] = <<>>
  /\ c \notin pending /\ target # c
  /\ Conclude(c, "closed", NoMessage)
  /\ UNCHANGED <<chan, swallowed, wire, registry, dispVars, appVars, linkVars, count, history>>

\* remove_pending_registration, then return: response_rx is dropped with
\* whatever is still in it.
Return(c) ==
  /\ pc[c] = "removing"
  /\ pc' = [pc EXCEPT ![c] = "returned"]
  /\ pending' = Unregistered(c)
  /\ chan' = [chan EXCEPT ![c] = <<>>]
  /\ swallowed' = [swallowed EXCEPT ![c] = chan[c]]
  /\ UNCHANGED <<outcome, answer, wire, ahead, dispVars, appVars, linkVars, count, history>>

\* The caller drops the future; its registration stays behind.
Cancel(c) ==
  /\ Live(c)
  /\ pc' = [pc EXCEPT ![c] = "cancelled"]
  /\ chan' = [chan EXCEPT ![c] = <<>>]
  /\ swallowed' = [swallowed EXCEPT ![c] = chan[c]]
  /\ UNCHANGED <<outcome, answer, wire, registry, dispVars, appVars, linkVars, count, history>>

(***************************************************************************)
(* message_dispatch_task                                                   *)
(***************************************************************************)

\* recv_message returns a message.
Recv ==
  /\ disp = "recv" /\ inbound # <<>>
  /\ hand' = Head(inbound)
  /\ inbound' = Tail(inbound)
  /\ disp' = IF Head(inbound).ctx = NoContext THEN "forward" ELSE "lookup"
  /\ UNCHANGED <<callVars, registry, target, appVars, link, ctl, count, history>>

\* recv_message returns Err: the loop breaks.
RecvFails ==
  /\ disp = "recv" /\ inbound = <<>> /\ link # "up"
  /\ disp' = "ended"
  /\ UNCHANGED <<callVars, registry, hand, target, appVars, linkVars, count, history>>

\* Mutant: the first registration gets the event, whatever its context.
FirstMatchAnyContext(c, regs) ==
  /\ c \in regs
  /\ \A d \in regs : d \notin ahead[c]

\* The first registration of the Vec whose context the event has.
FirstMatch(c, regs) ==
  /\ c \in regs /\ ContextOf[c] = hand.ctx
  /\ \A d \in regs : ContextOf[d] = hand.ctx => d \notin ahead[c]

\* Drop the registrations whose receiver is gone, then look for a match.
Lookup ==
  /\ disp = "lookup"
  /\ LET open == {c \in pending : ~Closed(c)} IN
       /\ pending' = open
       /\ \/ \E c \in open :
               /\ FirstMatch(c, open)
               /\ target' = c /\ disp' = "deliver"
          \/ /\ \A c \in open : ContextOf[c] # hand.ctx
             /\ target' = NoCall /\ disp' = "forward"
  /\ UNCHANGED <<callVars, ahead, hand, appVars, linkVars, count, history>>

\* Mutant: an event whose channel is full goes back to the end of the queue.
DeliverOrRequeue ==
  /\ disp = "deliver" /\ ~Closed(target)
  /\ \/ /\ HasRoom(target)
        /\ chan' = [chan EXCEPT ![target] = Append(@, hand)]
        /\ given' = [given EXCEPT ![target] = @ \cup {hand}]
        /\ UNCHANGED inbound
     \/ /\ ~HasRoom(target)
        /\ inbound' = Append(inbound, hand)
        /\ UNCHANGED <<chan, given>>
  /\ disp' = "recv" /\ hand' = NoMessage /\ target' = NoCall
  /\ UNCHANGED <<pc, outcome, answer, swallowed, wire, registry, appVars, link, ctl, count,
                 emitted, forwarded, logged, dropped, overflowed, lost>>

\* response_tx.send(event).await: blocks while the channel is full.
Deliver ==
  /\ disp = "deliver" /\ ~Closed(target) /\ HasRoom(target)
  /\ chan' = [chan EXCEPT ![target] = Append(@, hand)]
  /\ given' = [given EXCEPT ![target] = @ \cup {hand}]
  /\ disp' = "recv" /\ hand' = NoMessage /\ target' = NoCall
  /\ UNCHANGED <<pc, outcome, answer, swallowed, wire, registry, appVars, linkVars, count,
                 emitted, forwarded, logged, dropped, overflowed, lost>>

\* Mutant: an event nobody takes any more is not forwarded.
DeliverFailsSilently ==
  /\ disp = "deliver" /\ Closed(target)
  /\ disp' = "recv" /\ hand' = NoMessage /\ target' = NoCall
  /\ UNCHANGED <<callVars, registry, appVars, linkVars, count, history>>

\* The receiver went away after the lookup: send returns Err.
DeliverFails ==
  /\ disp = "deliver" /\ Closed(target)
  /\ disp' = "purge"
  /\ UNCHANGED <<callVars, registry, hand, target, appVars, linkVars, count, history>>

\* remove_pending_registration for the context of the refused event.
Purge ==
  /\ disp = "purge"
  /\ pending' = WithoutContext(hand.ctx)
  /\ disp' = "forward" /\ target' = NoCall
  /\ UNCHANGED <<callVars, ahead, hand, appVars, linkVars, count, history>>

\* forward_unmatched_message: to the logger, to next_message, or dropped.
Forward ==
  /\ disp = "forward"
  /\ \/ /\ hand.kind = "log" /\ logging
        /\ logged' = logged \cup {hand}
        /\ UNCHANGED <<unmatched, forwarded, dropped>>
     \/ /\ ~(hand.kind = "log" /\ logging) /\ Len(unmatched) < UnmatchedCap
        /\ unmatched' = Append(unmatched, hand)
        /\ forwarded' = forwarded \cup {hand}
        /\ UNCHANGED <<logged, dropped>>
     \/ /\ ~(hand.kind = "log" /\ logging) /\ Len(unmatched) >= UnmatchedCap
        /\ dropped' = dropped \cup {hand}
        /\ UNCHANGED <<unmatched, forwarded, logged>>
  /\ disp' = "recv" /\ hand' = NoMessage
  /\ UNCHANGED <<callVars, registry, target, logging, linkVars, count, emitted, given,
                 overflowed, lost>>

(***************************************************************************)
(* The application: next_message, enable_logging, connect, disconnect      *)
(***************************************************************************)

NextMessage ==
  /\ unmatched # <<>>
  /\ unmatched' = Tail(unmatched)
  /\ UNCHANGED <<callVars, registry, dispVars, logging, linkVars, count, history>>

EnableLogging ==
  /\ ~logging
  /\ logging' = TRUE
  /\ UNCHANGED <<callVars, registry, dispVars, unmatched, linkVars, count, history>>

\* connect, first half: connection.connect() succeeds.  It does nothing when
\* the connection is up, and when it is up but deaf.
OpenConnection ==
  /\ ctl = "idle"
  /\ link' = IF link = "down" THEN "up" ELSE link
  /\ ctl' = "opened"
  /\ UNCHANGED <<callVars, registry, dispVars, appVars, inbound, count, history>>

\* connect, second half: spawn the dispatch task unless one is running.
EnsureDispatchTask ==
  /\ ctl = "opened"
  /\ disp' = IF disp = "ended" THEN "recv" ELSE disp
  /\ ctl' = "idle"
  /\ UNCHANGED <<callVars, registry, hand, target, appVars, link, inbound, count, history>>

\* disconnect, first half: abort the task and wait for it.  An abort takes
\* effect at an await; the message the task holds goes with it.
StopDispatchTask ==
  /\ ctl = "idle" /\ disp # "forward"
  /\ lost' = IF hand = NoMessage THEN lost ELSE lost \cup {hand}
  /\ disp' = "ended" /\ hand' = NoMessage /\ target' = NoCall
  /\ ctl' = "stopped"
  /\ UNCHANGED <<callVars, registry, appVars, link, inbound, count,
                 emitted, given, forwarded, logged, dropped, overflowed>>

\* disconnect, second half: connection.disconnect().  What was received but
\* not dispatched, and what was queued but not written, is gone.
CloseConnection ==
  /\ ctl = "stopped"
  /\ link' = "down" /\ ctl' = "idle"
  /\ inbound' = <<>>
  /\ lost' = lost \cup ToSet(inbound)
  /\ wire' = [c \in Calls |-> IF wire[c] = "queued" THEN "gone" ELSE wire[c]]
  /\ UNCHANGED <<pc, outcome, answer, chan, swallowed, registry, dispVars, appVars, count,
                 emitted, given, forwarded, logged, dropped, overflowed>>

(***************************************************************************)
(* The transport's reader and the device                                   *)
(***************************************************************************)

\* The reader task ends (peer closed, bad frame, I/O error); nobody is told.
ReaderEnds ==
  /\ link = "up"
  /\ link' = "deaf"
  /\ UNCHANGED <<callVars, registry, dispVars, appVars, ctl, inbound, count, history>>

\* A queued command reaches the device.
Execute(c) ==
  /\ wire[c] = "queued" /\ link # "down"
  /\ wire' = [wire EXCEPT ![c] = "delivered"]
  /\ UNCHANGED <<pc, outcome, answer, chan, swallowed, registry, dispVars, appVars, linkVars, count, history>>

\* The device emits event n and the reader takes it.  A full receive channel
\* makes the USB readers throw it away and the WiFi reader wait.
Emits(x, k, n) ==
  /\ link = "up"
  /\ x \in {ContextOf[c] : c \in {d \in Calls : wire[d] = "delivered"}} \cup {NoContext}
  /\ LET m == [id |-> n, ctx |-> x, kind |-> k] IN
       /\ emitted' = emitted \cup {m}
       /\ \/ /\ Len(inbound) < TransportCap
             /\ inbound' = Append(inbound, m)
             /\ UNCHANGED overflowed
          \/ /\ Len(inbound) >= TransportCap /\ DropsWhenFull
             /\ overflowed' = overflowed \cup {m}
             /\ UNCHANGED inbound
  /\ UNCHANGED <<callVars, registry, dispVars, appVars, link, ctl,
                 given, forwarded, logged, dropped, lost>>

\* The device emits its next event.
Emit(x, k) == count < MaxMessages /\ Emits(x, k, count + 1) /\ count' = count + 1

\* The device goes on for ever, with events told apart no more.  No step of
\* Next: only what must happen eventually is asked of such a device.
Chatter(x, k) == count = MaxMessages /\ Emits(x, k, count) /\ UNCHANGED count

-----------------------------------------------------------------------------

SendStep(c) == HandOver(c) \/ SendReturns(c) \/ SendFails(c)

WaitStep(c) == Consume(c) \/ TimeOut(c) \/ ChannelClosed(c)

CallStep(c) == Register(c) \/ SendCommand(c) \/ SendStep(c) \/ WaitStep(c) \/ Return(c) \/ Cancel(c)

DispatchStep == Recv \/ RecvFails \/ Lookup \/ Deliver \/ DeliverFails \/ Purge \/ Forward

AppStep ==
  \/ NextMessage \/ EnableLogging
  \/ OpenConnection \/ EnsureDispatchTask \/ StopDispatchTask \/ CloseConnection

DeviceStep ==
  \/ ReaderEnds
  \/ \E c \in Calls : Execute(c)
  \/ \E x \in Contexts \cup {NoContext}, k \in DeviceKinds : Emit(x, k)

Next == (\E c \in Calls : CallStep(c)) \/ DispatchStep \/ AppStep \/ DeviceStep

Spec == Init /\ [][Next]_vars

(***************************************************************************)
(* Fairness.  The runtime's own tasks are scheduled by tokio: a task that  *)
(* can run does, a deadline that passed fires, and the registry mutex is   *)
(* fair.  Nothing is assumed of the device, of the application, of the     *)
(* caller's cancellations, or (in FairSpec) of send_message, which waits   *)
(* for the peer to take the bytes.  EndlessSpec adds that it returns, and  *)
(* lets the device send without end.                                       *)
(***************************************************************************)
TaskFairness ==
  /\ \A c \in Calls : WF_vars(WaitStep(c)) /\ WF_vars(Return(c))
  /\ WF_vars(DispatchStep)
  /\ WF_vars(EnsureDispatchTask) /\ WF_vars(CloseConnection)

SendFairness == \A c \in Calls : WF_vars(SendStep(c))

FairSpec == Spec /\ TaskFairness

\* A device that never stops sending.
EndlessNext ==
  Next \/ \E x \in Contexts \cup {NoContext}, k \in DeviceKinds : Chatter(x, k)

EndlessSpec == Init /\ [][EndlessNext]_vars /\ TaskFairness /\ SendFairness

(***************************************************************************)
(* Safety                                                                  *)
(***************************************************************************)

UniqueContexts == \A c, d \in Calls : ContextOf[c] = ContextOf[d] => c = d

Held == {hand} \ {NoMessage}

InFlight == ToSet(inbound) \cup Held

\* The runtime misses no response.  An event for a call that is not over is
\* on its way to it, in its channel or looked at: registration precedes
\* sending, and no other call's end takes the registration away (runtime.rs,
\* 308 to 323 and 210 to 229).  Two losses remain, both below the dispatch
\* task: disconnect gives up what was received, and a USB reader that finds
\* the receive channel full throws the event away, connection up and all; a
\* WiFi reader waits instead.
ResponsesReachTheirCall ==
  \A c \in Calls : Live(c) =>
    \A m \in emitted : m.ctx = ContextOf[c] =>
      \/ m \in InFlight \cup given[c] \cup lost
      \/ DropsWhenFull /\ m \in overflowed

\* The registry holds exactly the live calls, plus cancelled ones that wait
\* for the next lookup to purge them: no error path of the execute function
\* leaves a registration behind, and none removes another call's.
RegistryMatchesCalls ==
  /\ \A c \in Calls : Live(c) => c \in pending
  /\ \A c \in pending : Live(c) \/ pc[c] = "cancelled"

\* The half of it that holds even if a CommandMessage is executed twice.
NothingLeaks == \A c \in pending : Live(c) \/ pc[c] = "cancelled"

\* "command response channel closed" is never returned when every call has a
\* context of its own.
NeverClosed == \A c \in Calls : outcome[c] # "closed"

\* A call is given only events that answer its own command, which the device
\* has received, and ends, Ok or Err(event), only with one of those: no other
\* command's event, and no unsolicited one, ever reaches it.
AnsweredMeansExecuted ==
  \A c \in Calls :
    /\ \A m \in given[c] : m.ctx = ContextOf[c] /\ wire[c] = "delivered"
    /\ answer[c] # NoMessage => answer[c] \in given[c]

\* The event ends call c: the device refused, or is_terminal accepts it.
Conclusive(c, m) == m.kind = "error" \/ Terminal(c, m)

\* A call that waits ends with the first conclusive event put into its
\* channel, as Ok or as Err according to its kind, and passes over none.  (One
\* whose send fails looks at no event, and may leave a conclusive one behind.)
AnswerIsFirstConclusive ==
  \A c \in Calls :
    /\ outcome[c] \in {"ok", "error"} =>
         /\ Conclusive(c, answer[c]) /\ answer[c] \in given[c]
         /\ (outcome[c] = "error") <=> (answer[c].kind = "error")
         /\ \A m \in given[c] : Conclusive(c, m) => answer[c].id <= m.id
    /\ pc[c] = "waiting" =>
         \A m \in given[c] : Conclusive(c, m) => m \in ToSet(chan[c])

Given == UNION {given[c] : c \in Calls}

\* Every event the device emitted is in exactly one place, and none is
\* duplicated.  Of those put into a response channel, the call looks at some
\* and the rest goes down with it: at most what the channel holds, nothing
\* before the call ends, and for an answered call only what follows its
\* answer.  An event that comes to be dispatched after that does not get into
\* the channel any more (runtime.rs, 214 to 234).
OneFate ==
  /\ emitted = InFlight \cup Given \cup forwarded \cup logged \cup dropped \cup overflowed \cup lost
  /\ \A c, d \in Calls : c # d => given[c] \cap given[d] = {}
  /\ LET places == <<ToSet(inbound), Held, Given, forwarded, logged, dropped, overflowed, lost>>
     IN \A i, j \in DOMAIN places : i # j => places[i] \cap places[j] = {}
  /\ \A c \in Calls :
       /\ ToSet(chan[c]) \cup ToSet(swallowed[c]) \subseteq given[c]
       /\ IF Live(c) THEN swallowed[c] = <<>> ELSE chan[c] = <<>>
       /\ outcome[c] \in {"ok", "error"} =>
            \A m \in ToSet(swallowed[c]) : answer[c].id < m.id

\* Events reach each response channel, and next_message, in the order the
\* device emitted them, across disconnects and reconnects too.
DeliveredInOrder ==
  [][ /\ \A c \in Calls : \A m \in given[c]' \ given[c], n \in given[c] : n.id < m.id
      /\ \A m \in forwarded' \ forwarded, n \in forwarded : n.id < m.id ]_vars

(***************************************************************************)
(* Liveness                                                                *)
(***************************************************************************)

\* Once send_message has returned, the call ends, by an answer, the deadline
\* or the caller, whatever the dispatcher and other calls do, unless its
\* device keeps answering it for ever: the deadline is looked at only when
\* there is nothing to consume (runtime.rs, 326).
WaitEnds ==
  \A c \in Calls :
    (pc[c] = "waiting" ~> ~Live(c)) \/ []<><<Deliver /\ target = c>>_vars

\* The whole call ends, send included.
CallEnds == \A c \in Calls : pc[c] = "sending" ~> ~Live(c)

\* A full response channel holds the dispatch task up only until its call
\* ends: the task never waits for ever, so other calls get their answers.
DispatcherMovesOn == disp = "deliver" ~> disp # "deliver"

(***************************************************************************)
(* RemoteRuntime implements CommandExchange                                *)
(***************************************************************************)

PhaseOf(c) ==
  CASE Live(c) -> "open"
    [] pc[c] = "returned" /\ outcome[c] = "error" -> "refused"
    [] pc[c] = "returned" /\ outcome[c] \in {"sendError", "timeout", "closed"} -> "failed"
    [] pc[c] = "returned" /\ outcome[c] \in {"ok", "posted"} -> outcome[c]
    [] OTHER -> pc[c]

Exchange == INSTANCE CommandExchange WITH
  phase    <- [c \in Calls |-> PhaseOf(c)],
  answer   <- [c \in Calls |-> IF pc[c] = "returned" THEN answer[c] ELSE NoMessage],
  executed <- {c \in Calls : wire[c] = "delivered"}

ImplementsExchange == Exchange!Spec
=============================================================================
