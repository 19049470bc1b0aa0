------------------------- MODULE RemoteRuntimeProofs -------------------------
(***************************************************************************)
(* The safety properties of RemoteRuntime for any calls, any capacity and  *)
(* any device.                                                             *)
(*                                                                         *)
(* The inductive invariants that carry them need nothing of contexts but   *)
(* the last.  Basic adds to TypeOK what the dispatch task holds when       *)
(* (Dispatching), that a command on the wire belongs to a started call     *)
(* (Started), that events answer delivered commands (Solicited), that      *)
(* every event in a channel, in the task's hand or in an answer was        *)
(* emitted for that call (Sourced), and NothingLeaks.  Fates adds where    *)
(* every event is: in the order of emission (Ordered), in one place        *)
(* (Apart), in some place (Accounted).  Answering adds what a call has     *)
(* looked at (Unread), what it ends with and how (Concluded).  With them   *)
(* each step is one of CommandExchange.                                    *)
(*                                                                         *)
(* Exclusive adds, for calls with a context each, that live calls are      *)
(* registered (Registered) and that the event on its way to next_message   *)
(* is nobody's (ForwardedIsLate): without it the step Forward could break  *)
(* ResponsesReachTheirCall.                                                       *)
(*                                                                         *)
(* One lemma per conjunct says that every step preserves it; in each there *)
(* is one step per action that can disturb the conjunct.                   *)
(***************************************************************************)
EXTENDS RemoteRuntime, SequenceTheorems, TLAPS

\* A push adds the pushed event to the contents of a channel.
LEMMA ToSetAppend ==
  ASSUME NEW S, NEW s \in Seq(S), NEW m \in S
  PROVE  ToSet(Append(s, m)) = ToSet(s) \cup {m}
<1>1. ToSet(Append(s, m)) \subseteq ToSet(s) \cup {m}
  BY DEF ToSet
<1>2. ToSet(s) \subseteq ToSet(Append(s, m))
  <2>. SUFFICES ASSUME NEW i \in 1 .. Len(s)
                PROVE  s[i] \in ToSet(Append(s, m))
    BY DEF ToSet
  <2>. QED  BY DEF ToSet
<1>3. m \in ToSet(Append(s, m))
  <2>1. Append(s, m)[Len(s) + 1] = m /\ Len(s) + 1 \in DOMAIN Append(s, m)
    OBVIOUS
  <2>. QED  BY <2>1 DEF ToSet
<1>. QED  BY <1>1, <1>2, <1>3

\* A pop takes the head out of the contents of a channel.
LEMMA ToSetHeadTail ==
  ASSUME NEW S, NEW s \in Seq(S), s # <<>>
  PROVE  ToSet(s) = {Head(s)} \cup ToSet(Tail(s))
<1>1. ToSet(s) \subseteq {Head(s)} \cup ToSet(Tail(s))
  <2>. SUFFICES ASSUME NEW i \in 1 .. Len(s)
                PROVE  s[i] \in {Head(s)} \cup ToSet(Tail(s))
    BY DEF ToSet
  <2>1. CASE i = 1
    BY <2>1
  <2>2. CASE i # 1
    <3>1. Tail(s)[i - 1] = s[i] /\ i - 1 \in DOMAIN Tail(s)
      BY <2>2
    <3>. QED  BY <3>1 DEF ToSet
  <2>. QED  BY <2>1, <2>2
<1>2. Head(s) \in ToSet(s)
  BY DEF ToSet
<1>3. ToSet(Tail(s)) \subseteq ToSet(s)
  <2>. SUFFICES ASSUME NEW i \in 1 .. Len(s) - 1
                PROVE  Tail(s)[i] \in ToSet(s)
    BY DEF ToSet
  <2>. QED  BY DEF ToSet
<1>. QED  BY <1>1, <1>2, <1>3

\* A push guarded by the capacity keeps a channel within it.
LEMMA BoundedPush ==
  ASSUME NEW S, NEW s \in Seq(S), NEW m \in S, NEW cap \in Nat, NEW t,
         Len(s) <= cap,
         t = s \/ (Len(s) < cap /\ t = Append(s, m))
  PROVE  t \in Seq(S) /\ Len(t) <= cap
OBVIOUS

\* An empty channel holds no event.
LEMMA ToSetEmpty == ToSet(<<>>) = {}
BY DEF ToSet

\* The dispatch task holds a message exactly between recv and its end of the
\* dispatch, and a response sender exactly between lookup and delivery; the
\* sender is that of a started call of the message's context, and the message
\* is being purged only after its call is gone.
Dispatching ==
  /\ disp \in {"lookup", "deliver", "purge", "forward"} <=> hand # NoMessage
  /\ disp \in {"deliver", "purge"} <=> target # NoCall
  /\ disp \in {"deliver", "purge"} =>
       ContextOf[target] = hand.ctx /\ pc[target] # "idle"
  /\ disp = "purge" => ~Live(target)
  /\ disp = "lookup" => hand.ctx # NoContext

\* Every action keeps the types and the capacities of the three channels.
LEMMA TypeStep == TypeOK /\ Dispatching /\ [Next]_vars => TypeOK'
<1>. SUFFICES ASSUME TypeOK, Dispatching, [Next]_vars
              PROVE  TypeOK'
  OBVIOUS
<1>. USE RuntimeAssumption DEF TypeOK, vars, callVars, registry, dispVars, appVars,
       linkVars, history, CallStates, Outcomes, DispatcherStates
<1>1. ASSUME NEW c \in Calls, Register(c)
       PROVE  TypeOK'
  BY <1>1 DEF Register
<1>2. ASSUME NEW c \in Calls, SendCommand(c)
       PROVE  TypeOK'
  BY <1>2 DEF SendCommand
<1>3. ASSUME NEW c \in Calls, HandOver(c)
       PROVE  TypeOK'
  BY <1>3 DEF HandOver
<1>4. ASSUME NEW c \in Calls, SendReturns(c)
       PROVE  TypeOK'
  BY <1>4 DEF SendReturns
<1>5. ASSUME NEW c \in Calls, SendFails(c)
       PROVE  TypeOK'
  BY <1>5 DEF SendFails, Conclude
<1>6. ASSUME NEW c \in Calls, Consume(c)
       PROVE  TypeOK'
  <2>1. /\ Head(chan[c]) \in Message
        /\ Tail(chan[c]) \in Seq(Message)
        /\ Len(Tail(chan[c])) <= Buffer
    BY <1>6 DEF Consume
  <2>2. \A d \in Calls : chan'[d] \in Seq(Message) /\ Len(chan'[d]) <= Buffer
    BY <1>6, <2>1 DEF Consume
  <2>3. chan' \in [Calls -> Seq(Message)]
    BY <1>6, <2>1 DEF Consume
  <2>4. /\ pc' \in [Calls -> CallStates]
        /\ outcome' \in [Calls -> Outcomes]
        /\ answer' \in [Calls -> Message \cup {NoMessage}]
    <3>1. answer' = answer \/ answer' = [answer EXCEPT ![c] = Head(chan[c])]
      BY <1>6 DEF Consume, Conclude, EndsWith
    <3>2. answer' \in [Calls -> Message \cup {NoMessage}]
      <4>1. answer \in [Calls -> Message \cup {NoMessage}]
        OBVIOUS
      <4>. HIDE DEF TypeOK
      <4>. QED  BY <3>1, <2>1, <4>1
    <3>. QED  BY <1>6, <3>2 DEF Consume, Conclude, EndsWith
  <2>. QED  BY <1>6, <2>2, <2>3, <2>4 DEF Consume
<1>7. ASSUME NEW c \in Calls, TimeOut(c)
       PROVE  TypeOK'
  BY <1>7 DEF TimeOut, Expires, Conclude
<1>8. ASSUME NEW c \in Calls, ChannelClosed(c)
       PROVE  TypeOK'
  BY <1>8 DEF ChannelClosed, Conclude
<1>9. ASSUME NEW c \in Calls, Return(c)
       PROVE  TypeOK'
  <2>1. \A d \in Calls : Len(chan'[d]) <= Buffer /\ Len(swallowed'[d]) <= Buffer
    BY <1>9 DEF Return
  <2>. QED  BY <1>9, <2>1 DEF Return, Unregistered, WithoutContext
<1>10. ASSUME NEW c \in Calls, Cancel(c)
       PROVE  TypeOK'
  <2>1. \A d \in Calls : Len(chan'[d]) <= Buffer /\ Len(swallowed'[d]) <= Buffer
    BY <1>10 DEF Cancel
  <2>. QED  BY <1>10, <2>1 DEF Cancel
<1>11. CASE Recv
  BY <1>11 DEF Recv
<1>12. CASE RecvFails
  BY <1>12 DEF RecvFails
<1>13. CASE Lookup
  BY <1>13 DEF Lookup, Closed
<1>14. CASE Deliver
  <2>1. hand \in Message /\ target \in Calls
    BY <1>14 DEF Deliver, Closed, HasRoom, Dispatching
  <2>2. /\ Append(chan[target], hand) \in Seq(Message)
        /\ Len(Append(chan[target], hand)) <= Buffer
    BY <1>14, <2>1 DEF Deliver, Closed, HasRoom
  <2>3. \A d \in Calls : chan'[d] \in Seq(Message) /\ Len(chan'[d]) <= Buffer
    BY <1>14, <2>1, <2>2 DEF Deliver, Closed, HasRoom
  <2>4. /\ chan' \in [Calls -> Seq(Message)]
        /\ given' \in [Calls -> SUBSET Message]
    BY <1>14, <2>1, <2>2 DEF Deliver, Closed, HasRoom
  <2>. QED  BY <1>14, <2>3, <2>4 DEF Deliver, Closed, HasRoom
<1>15. CASE DeliverFails
  BY <1>15 DEF DeliverFails, Closed
<1>16. CASE Purge
  BY <1>16 DEF Purge, WithoutContext
<1>17. CASE Forward
  <2>1. hand \in Message
    BY <1>17 DEF Forward, Dispatching
  <2>2. unmatched' \in Seq(Message) /\ Len(unmatched') <= UnmatchedCap
    <3>1. \/ unmatched' = unmatched
          \/ Len(unmatched) < UnmatchedCap /\ unmatched' = Append(unmatched, hand)
      BY <1>17 DEF Forward
    <3>. QED  BY <3>1, <2>1, BoundedPush
  <2>. QED  BY <1>17, <2>1, <2>2 DEF Forward
<1>18. CASE NextMessage
  BY <1>18 DEF NextMessage
<1>19. CASE EnableLogging
  BY <1>19 DEF EnableLogging
<1>20. CASE OpenConnection
  BY <1>20 DEF OpenConnection
<1>21. CASE EnsureDispatchTask
  BY <1>21 DEF EnsureDispatchTask
<1>22. CASE StopDispatchTask
  BY <1>22 DEF StopDispatchTask
<1>23. CASE CloseConnection
  BY <1>23 DEF CloseConnection, ToSet
<1>24. CASE ReaderEnds
  BY <1>24 DEF ReaderEnds
<1>25. ASSUME NEW c \in Calls, Execute(c)
       PROVE  TypeOK'
  BY <1>25 DEF Execute
<1>26. ASSUME NEW x \in Contexts \cup {NoContext}, NEW k \in DeviceKinds, Emit(x, k)
       PROVE  TypeOK'
  <2>. DEFINE m == [id |-> count + 1, ctx |-> x, kind |-> k]
  <2>1. m \in Message
    BY DEF Message
  <2>2. inbound' \in Seq(Message) /\ Len(inbound') <= TransportCap
    <3>1. \/ inbound' = inbound
          \/ Len(inbound) < TransportCap /\ inbound' = Append(inbound, m)
      BY <1>26 DEF Emit, Emits
    <3>. HIDE DEF m
    <3>. QED  BY <3>1, <2>1, BoundedPush
  <2>3. emitted' \subseteq Message /\ overflowed' \subseteq Message
    BY <1>26, <2>1 DEF Emit, Emits
  <2>4. count' \in Nat /\ UNCHANGED <<callVars, registry, dispVars, appVars, link, ctl,
                                     given, forwarded, logged, dropped, lost>>
    BY <1>26 DEF Emit, Emits
  <2>. HIDE DEF m
  <2>. QED  BY <2>2, <2>3, <2>4
<1>27. CASE UNCHANGED vars
  BY <1>27
<1>. QED
  BY <1>1, <1>2, <1>3, <1>4, <1>5, <1>6, <1>7, <1>8, <1>9, <1>10, <1>11, <1>12, <1>13, <1>14, <1>15, <1>16, <1>17, <1>18, <1>19, <1>20, <1>21, <1>22, <1>23, <1>24, <1>25, <1>26, <1>27 DEF Next, CallStep, SendStep, WaitStep,
     DispatchStep, AppStep, DeviceStep

\* A call never becomes idle again, and one that is over stays over.
CallAdvances(c) ==
  /\ pc[c] # "idle" => pc'[c] # "idle"
  /\ pc[c] \in {"returned", "cancelled"} => pc'[c] = pc[c]

\* Calls only move forward: a future is polled, or dropped, never restarted.
LEMMA CallsAdvance ==
  ASSUME NEW d \in Calls, TypeOK, [Next]_vars
  PROVE  CallAdvances(d)
<1>. USE DEF TypeOK, Live, vars, callVars, registry, dispVars, appVars,
              linkVars, history
<1>1. ASSUME NEW c \in Calls, Register(c)
       PROVE  CallAdvances(d)
  BY <1>1 DEF CallAdvances, Register
<1>2. ASSUME NEW c \in Calls, SendCommand(c)
       PROVE  CallAdvances(d)
  BY <1>2 DEF CallAdvances, SendCommand
<1>3. ASSUME NEW c \in Calls, HandOver(c)
       PROVE  CallAdvances(d)
  BY <1>3 DEF CallAdvances, HandOver
<1>4. ASSUME NEW c \in Calls, SendReturns(c)
       PROVE  CallAdvances(d)
  BY <1>4 DEF CallAdvances, SendReturns
<1>5. ASSUME NEW c \in Calls, SendFails(c)
       PROVE  CallAdvances(d)
  BY <1>5 DEF CallAdvances, SendFails, Conclude
<1>6. ASSUME NEW c \in Calls, Consume(c)
       PROVE  CallAdvances(d)
  BY <1>6 DEF CallAdvances, Consume, Conclude, EndsWith
<1>7. ASSUME NEW c \in Calls, TimeOut(c)
       PROVE  CallAdvances(d)
  BY <1>7 DEF CallAdvances, TimeOut, Conclude, Expires
<1>8. ASSUME NEW c \in Calls, ChannelClosed(c)
       PROVE  CallAdvances(d)
  BY <1>8 DEF CallAdvances, ChannelClosed, Conclude
<1>9. ASSUME NEW c \in Calls, Return(c)
       PROVE  CallAdvances(d)
  BY <1>9 DEF CallAdvances, Return, Unregistered, WithoutContext
<1>10. ASSUME NEW c \in Calls, Cancel(c)
       PROVE  CallAdvances(d)
  BY <1>10 DEF CallAdvances, Cancel
<1>11. CASE DispatchStep
  BY <1>11 DEF CallAdvances, DispatchStep, Recv, RecvFails, Lookup, Deliver,
     DeliverFails, Purge, Forward, Closed, HasRoom, WithoutContext
<1>12. CASE AppStep
  BY <1>12 DEF CallAdvances, AppStep, NextMessage, EnableLogging,
     OpenConnection, EnsureDispatchTask, StopDispatchTask, CloseConnection
<1>13. CASE DeviceStep
  BY <1>13 DEF CallAdvances, DeviceStep, ReaderEnds, Execute, Emit, Emits
<1>14. CASE UNCHANGED vars
  BY <1>14 DEF CallAdvances
<1>. QED
  BY <1>1, <1>2, <1>3, <1>4, <1>5, <1>6, <1>7, <1>8, <1>9, <1>10, <1>11,
     <1>12, <1>13, <1>14
     DEF Next, CallStep, SendStep, WaitStep

\* Only a started command is handed to the transport.
Started == \A c \in Calls : wire[c] # "none" => pc[c] # "idle"

\* Nothing hands a command to the transport before its call has begun.
LEMMA StartedStep ==
  ASSUME TypeOK, Started, [Next]_vars
  PROVE  Started'
<1>. USE DEF TypeOK, vars, callVars, registry, dispVars, appVars, linkVars,
              history
<1>1. ASSUME NEW c \in Calls, Register(c)
       PROVE  Started'
  BY <1>1 DEF Started, Register
<1>2. ASSUME NEW c \in Calls, SendCommand(c)
       PROVE  Started'
  BY <1>2 DEF Started, SendCommand
<1>3. ASSUME NEW c \in Calls, HandOver(c)
       PROVE  Started'
  BY <1>3 DEF Started, HandOver
<1>4. ASSUME NEW c \in Calls, SendReturns(c)
       PROVE  Started'
  BY <1>4 DEF Started, SendReturns
<1>5. ASSUME NEW c \in Calls, SendFails(c)
       PROVE  Started'
  BY <1>5 DEF Started, SendFails, Conclude
<1>6. ASSUME NEW c \in Calls, Consume(c)
       PROVE  Started'
  BY <1>6 DEF Started, Consume, Conclude, EndsWith
<1>7. ASSUME NEW c \in Calls, TimeOut(c)
       PROVE  Started'
  BY <1>7 DEF Started, TimeOut, Conclude, Expires
<1>8. ASSUME NEW c \in Calls, ChannelClosed(c)
       PROVE  Started'
  BY <1>8 DEF Started, ChannelClosed, Conclude
<1>9. ASSUME NEW c \in Calls, Return(c)
       PROVE  Started'
  BY <1>9 DEF Started, Return, Unregistered, WithoutContext
<1>10. ASSUME NEW c \in Calls, Cancel(c)
       PROVE  Started'
  BY <1>10 DEF Started, Cancel
<1>11. CASE DispatchStep
  BY <1>11 DEF Started, DispatchStep, Recv, RecvFails, Lookup, Deliver,
     DeliverFails, Purge, Forward, Closed, HasRoom, WithoutContext
<1>12. CASE CloseConnection
  BY <1>12 DEF Started, CloseConnection
<1>13. CASE NextMessage \/ EnableLogging \/ OpenConnection
              \/ EnsureDispatchTask \/ StopDispatchTask
  BY <1>13 DEF Started, NextMessage, EnableLogging, OpenConnection,
     EnsureDispatchTask, StopDispatchTask
<1>14. ASSUME NEW c \in Calls, Execute(c)
       PROVE  Started'
  BY <1>14 DEF Started, Execute
<1>15. ASSUME NEW x \in Contexts \cup {NoContext}, NEW k \in DeviceKinds, Emit(x, k)
       PROVE  Started'
  BY <1>15 DEF Started, Emit, Emits
<1>16. CASE ReaderEnds
  BY <1>16 DEF Started, ReaderEnds
<1>17. CASE UNCHANGED vars
  BY <1>17 DEF Started
<1>. QED
  BY <1>1, <1>2, <1>3, <1>4, <1>5, <1>6, <1>7, <1>8, <1>9, <1>10, <1>11,
     <1>12, <1>13, <1>14, <1>15, <1>16, <1>17
     DEF Next, CallStep, SendStep, WaitStep, AppStep, DeviceStep

\* A command that reached the device has reached it for good.
LEMMA DeliveredStaysDelivered ==
  ASSUME NEW d \in Calls, TypeOK, Started, [Next]_vars, wire[d] = "delivered"
  PROVE  wire'[d] = "delivered"
<1>. USE DEF TypeOK, Started, vars, callVars, registry, dispVars, appVars,
              linkVars, history
<1>1. ASSUME NEW c \in Calls, SendCommand(c)
       PROVE  wire'[d] = "delivered"
  BY <1>1 DEF SendCommand
<1>2. ASSUME NEW c \in Calls,
              Register(c) \/ HandOver(c) \/ SendReturns(c) \/ SendFails(c)
              \/ Consume(c) \/ TimeOut(c) \/ ChannelClosed(c) \/ Return(c)
              \/ Cancel(c)
       PROVE  wire'[d] = "delivered"
  BY <1>2 DEF Register, HandOver, SendReturns, SendFails, Consume, TimeOut,
     ChannelClosed, Return, Cancel, Conclude, EndsWith, Expires, Unregistered,
     WithoutContext
<1>3. CASE DispatchStep
  BY <1>3 DEF DispatchStep, Recv, RecvFails, Lookup, Deliver, DeliverFails,
     Purge, Forward, Closed, HasRoom, WithoutContext
<1>4. CASE CloseConnection
  BY <1>4 DEF CloseConnection
<1>5. CASE NextMessage \/ EnableLogging \/ OpenConnection
              \/ EnsureDispatchTask \/ StopDispatchTask
  BY <1>5 DEF NextMessage, EnableLogging, OpenConnection, EnsureDispatchTask,
     StopDispatchTask
<1>6. ASSUME NEW c \in Calls, Execute(c)
       PROVE  wire'[d] = "delivered"
  BY <1>6 DEF Execute
<1>7. ASSUME NEW x \in Contexts \cup {NoContext}, NEW k \in DeviceKinds, Emit(x, k)
       PROVE  wire'[d] = "delivered"
  BY <1>7 DEF Emit, Emits
<1>8. CASE ReaderEnds
  BY <1>8 DEF ReaderEnds
<1>9. CASE UNCHANGED vars
  BY <1>9
<1>. QED
  BY <1>1, <1>2, <1>3, <1>4, <1>5, <1>6, <1>7, <1>8, <1>9
     DEF Next, CallStep, SendStep, WaitStep, AppStep, DeviceStep

\* Every step keeps hand, target and the position of the dispatch task in step.
LEMMA DispatchingStep ==
  ASSUME TypeOK, Dispatching, [Next]_vars
  PROVE  Dispatching'
<1>. USE DEF TypeOK, Live, vars, callVars, registry, dispVars, appVars,
              linkVars, history
<1>1. ASSUME NEW c \in Calls, Register(c)
       PROVE  Dispatching'
  BY <1>1 DEF Dispatching, Register
<1>2. ASSUME NEW c \in Calls, SendCommand(c)
       PROVE  Dispatching'
  BY <1>2 DEF Dispatching, SendCommand
<1>3. ASSUME NEW c \in Calls, HandOver(c)
       PROVE  Dispatching'
  BY <1>3 DEF Dispatching, HandOver
<1>4. ASSUME NEW c \in Calls, SendReturns(c)
       PROVE  Dispatching'
  BY <1>4 DEF Dispatching, SendReturns
<1>5. ASSUME NEW c \in Calls, SendFails(c)
       PROVE  Dispatching'
  BY <1>5 DEF Dispatching, SendFails, Conclude
<1>6. ASSUME NEW c \in Calls, Consume(c)
       PROVE  Dispatching'
  BY <1>6 DEF Dispatching, Consume, Conclude, EndsWith
<1>7. ASSUME NEW c \in Calls, TimeOut(c)
       PROVE  Dispatching'
  BY <1>7 DEF Dispatching, TimeOut, Conclude, Expires
<1>8. ASSUME NEW c \in Calls, ChannelClosed(c)
       PROVE  Dispatching'
  BY <1>8 DEF Dispatching, ChannelClosed, Conclude
<1>9. ASSUME NEW c \in Calls, Return(c)
       PROVE  Dispatching'
  BY <1>9 DEF Dispatching, Return, Unregistered, WithoutContext
<1>10. ASSUME NEW c \in Calls, Cancel(c)
       PROVE  Dispatching'
  BY <1>10 DEF Dispatching, Cancel
<1>11. CASE Recv
  <2>1. Head(inbound) \in Message
    BY <1>11 DEF Recv
  <2>. QED  BY <1>11, <2>1, RuntimeAssumption DEF Recv, Dispatching
<1>12. CASE RecvFails
  BY <1>12 DEF Dispatching, RecvFails
<1>13. CASE Lookup
  <2>. DEFINE open == {c \in pending : ~Closed(c)}
  <2>1. CASE \E c \in open : FirstMatch(c, open) /\ target' = c /\ disp' = "deliver"
    <3>1. PICK c \in open : FirstMatch(c, open) /\ target' = c /\ disp' = "deliver"
      BY <2>1
    <3>2. c \in Calls /\ ContextOf[c] = hand.ctx /\ pc[c] # "idle"
      BY <3>1 DEF FirstMatch, Closed
    <3>. QED  BY <1>13, <3>1, <3>2, RuntimeAssumption DEF Lookup, Dispatching
  <2>2. CASE target' = NoCall /\ disp' = "forward"
    BY <1>13, <2>2 DEF Lookup, Dispatching
  <2>. QED  BY <1>13, <2>1, <2>2 DEF Lookup
<1>14. CASE Deliver
  BY <1>14 DEF Dispatching, Deliver, Closed, HasRoom
<1>15. CASE DeliverFails
  BY <1>15 DEF Dispatching, DeliverFails, Closed
<1>16. CASE Purge
  BY <1>16 DEF Dispatching, Purge, WithoutContext
<1>17. CASE Forward
  BY <1>17 DEF Dispatching, Forward
<1>18. CASE EnsureDispatchTask
  BY <1>18 DEF Dispatching, EnsureDispatchTask
<1>19. CASE StopDispatchTask
  BY <1>19 DEF Dispatching, StopDispatchTask
<1>20. CASE NextMessage \/ EnableLogging \/ OpenConnection
              \/ CloseConnection
  BY <1>20 DEF Dispatching, NextMessage, EnableLogging, OpenConnection,
     CloseConnection
<1>21. CASE DeviceStep
  BY <1>21 DEF Dispatching, DeviceStep, ReaderEnds, Execute, Emit, Emits
<1>22. CASE UNCHANGED vars
  BY <1>22 DEF Dispatching
<1>. QED
  BY <1>1, <1>2, <1>3, <1>4, <1>5, <1>6, <1>7, <1>8, <1>9, <1>10, <1>11,
     <1>12, <1>13, <1>14, <1>15, <1>16, <1>17, <1>18, <1>19, <1>20, <1>21,
     <1>22
     DEF Next, CallStep, SendStep, WaitStep, DispatchStep, AppStep

\* Calls, the dispatch task's purge and its lookup never leave a dead
\* registration other than a cancelled call's.
LEMMA NothingLeaksStep ==
  ASSUME TypeOK, NothingLeaks, [Next]_vars
  PROVE  NothingLeaks'
<1>. USE DEF TypeOK, Live, vars, callVars, registry, dispVars, appVars,
              linkVars, history
<1>1. ASSUME NEW c \in Calls, Register(c)
       PROVE  NothingLeaks'
  BY <1>1 DEF NothingLeaks, Register
<1>2. ASSUME NEW c \in Calls, SendCommand(c)
       PROVE  NothingLeaks'
  BY <1>2 DEF NothingLeaks, SendCommand
<1>3. ASSUME NEW c \in Calls, HandOver(c)
       PROVE  NothingLeaks'
  BY <1>3 DEF NothingLeaks, HandOver
<1>4. ASSUME NEW c \in Calls, SendReturns(c)
       PROVE  NothingLeaks'
  BY <1>4 DEF NothingLeaks, SendReturns
<1>5. ASSUME NEW c \in Calls, SendFails(c)
       PROVE  NothingLeaks'
  BY <1>5 DEF NothingLeaks, SendFails, Conclude
<1>6. ASSUME NEW c \in Calls, Consume(c)
       PROVE  NothingLeaks'
  BY <1>6 DEF NothingLeaks, Consume, Conclude, EndsWith
<1>7. ASSUME NEW c \in Calls, TimeOut(c)
       PROVE  NothingLeaks'
  BY <1>7 DEF NothingLeaks, TimeOut, Conclude, Expires
<1>8. ASSUME NEW c \in Calls, ChannelClosed(c)
       PROVE  NothingLeaks'
  BY <1>8 DEF NothingLeaks, ChannelClosed, Conclude
<1>9. ASSUME NEW c \in Calls, Return(c)
       PROVE  NothingLeaks'
  BY <1>9 DEF NothingLeaks, Return, Unregistered, WithoutContext
<1>10. ASSUME NEW c \in Calls, Cancel(c)
       PROVE  NothingLeaks'
  BY <1>10 DEF NothingLeaks, Cancel
<1>11. CASE Lookup
  BY <1>11 DEF NothingLeaks, Lookup, Closed
<1>12. CASE Purge
  BY <1>12 DEF NothingLeaks, Purge, WithoutContext
<1>13. CASE Recv \/ RecvFails \/ Deliver \/ DeliverFails \/ Forward
  BY <1>13 DEF NothingLeaks, Recv, RecvFails, Deliver, DeliverFails, Forward,
     Closed, HasRoom
<1>14. CASE AppStep
  BY <1>14 DEF NothingLeaks, AppStep, NextMessage, EnableLogging,
     OpenConnection, EnsureDispatchTask, StopDispatchTask, CloseConnection
<1>15. CASE DeviceStep
  BY <1>15 DEF NothingLeaks, DeviceStep, ReaderEnds, Execute, Emit, Emits
<1>16. CASE UNCHANGED vars
  BY <1>16 DEF NothingLeaks
<1>. QED
  BY <1>1, <1>2, <1>3, <1>4, <1>5, <1>6, <1>7, <1>8, <1>9, <1>10, <1>11,
     <1>12, <1>13, <1>14, <1>15, <1>16
     DEF Next, CallStep, SendStep, WaitStep, DispatchStep

\* Every event with a context answers a command the device received.
Solicited ==
  \A m \in emitted : m.ctx # NoContext =>
    \E c \in Calls : ContextOf[c] = m.ctx /\ wire[c] = "delivered"

\* The device answers only what reached it, and that is never undone.
LEMMA SolicitedStep ==
  ASSUME TypeOK, Started, Solicited, [Next]_vars
  PROVE  Solicited'
<1>1. \A c \in Calls : wire[c] = "delivered" => wire'[c] = "delivered"
  BY DeliveredStaysDelivered
<1>2. CASE emitted' = emitted
  BY <1>1, <1>2 DEF Solicited
<1>3. ASSUME NEW x \in Contexts \cup {NoContext}, NEW k \in DeviceKinds, Emit(x, k)
      PROVE  Solicited'
  <2>1. emitted' = emitted \cup {[id |-> count + 1, ctx |-> x, kind |-> k]}
    BY <1>3 DEF Emit, Emits
  <2>2. x # NoContext => \E c \in Calls : ContextOf[c] = x /\ wire[c] = "delivered"
    BY <1>3 DEF Emit, Emits
  <2>. QED  BY <1>1, <2>1, <2>2 DEF Solicited
<1>. QED
  BY <1>2, <1>3 DEF Next, CallStep, SendStep, WaitStep, DispatchStep, AppStep,
     DeviceStep, vars, history, Register, SendCommand, HandOver, SendReturns,
     SendFails, Consume, TimeOut, ChannelClosed, Return, Cancel, Recv, RecvFails,
     Lookup, Deliver, DeliverFails, Purge, Forward, NextMessage, EnableLogging,
     OpenConnection, EnsureDispatchTask, StopDispatchTask, CloseConnection,
     ReaderEnds, Execute

\* Events come from the device: those in flight and those given to a call were
\* emitted, those given to a call carry its context, a response channel holds
\* only events given to its call, and the answer is one of them.
Sourced ==
  /\ InFlight \subseteq emitted
  /\ \A c \in Calls : ToSet(chan[c]) \subseteq given[c]
  /\ \A c \in Calls : \A m \in given[c] : m \in emitted /\ m.ctx = ContextOf[c]
  /\ \A c \in Calls : answer[c] # NoMessage => answer[c] \in given[c]

\* Channels, hand and answers only move events that were emitted, and only
\* to the call whose context they carry.
LEMMA SourcedStep ==
  ASSUME TypeOK, Dispatching, Sourced, [Next]_vars
  PROVE  Sourced'
<1>. USE DEF TypeOK, InFlight, Held, vars, callVars, registry, dispVars,
              appVars, linkVars, history
<1>1. ASSUME NEW c \in Calls, SendFails(c)
       PROVE  Sourced'
  BY <1>1 DEF Sourced, SendFails, Conclude
<1>2. ASSUME NEW c \in Calls, Consume(c)
       PROVE  Sourced'
  <2>1. ToSet(chan[c]) = {Head(chan[c])} \cup ToSet(Tail(chan[c]))
    BY <1>2, ToSetHeadTail DEF Consume
  <2>2. \A d \in Calls : ToSet(chan'[d]) \subseteq given[d]
    BY <1>2, <2>1 DEF Consume, Sourced
  <2>3. \A d \in Calls : answer'[d] # NoMessage => answer'[d] \in given[d]
    BY <1>2, <2>1 DEF Consume, Conclude, EndsWith, Sourced
  <2>. QED  BY <1>2, <2>2, <2>3 DEF Consume, Sourced
<1>3. ASSUME NEW c \in Calls, TimeOut(c)
       PROVE  Sourced'
  BY <1>3 DEF Sourced, TimeOut, Conclude, Expires
<1>4. ASSUME NEW c \in Calls, ChannelClosed(c)
       PROVE  Sourced'
  BY <1>4 DEF Sourced, ChannelClosed, Conclude
<1>5. ASSUME NEW c \in Calls, Return(c)
       PROVE  Sourced'
  BY <1>5, ToSetEmpty DEF Sourced, Return, Unregistered, WithoutContext
<1>6. ASSUME NEW c \in Calls, Cancel(c)
       PROVE  Sourced'
  BY <1>6, ToSetEmpty DEF Sourced, Cancel
<1>7. ASSUME NEW c \in Calls, Register(c) \/ SendCommand(c) \/ HandOver(c) \/ SendReturns(c)
       PROVE  Sourced'
  BY <1>7 DEF Sourced, Register, SendCommand, HandOver, SendReturns
<1>8. CASE Recv
  <2>1. ToSet(inbound) = {Head(inbound)} \cup ToSet(Tail(inbound))
    BY <1>8, ToSetHeadTail DEF Recv
  <2>. QED  BY <1>8, <2>1 DEF Recv, Sourced
<1>9. CASE Deliver
  <2>1. hand \in emitted /\ hand \in Message /\ target \in Calls
    BY <1>9 DEF Deliver, Closed, Dispatching, Sourced
  <2>2. ToSet(Append(chan[target], hand)) = ToSet(chan[target]) \cup {hand}
    BY <2>1, ToSetAppend
  <2>3. \A d \in Calls : ToSet(chan'[d]) \subseteq given'[d]
    BY <1>9, <2>1, <2>2 DEF Deliver, Closed, Sourced
  <2>4. \A d \in Calls : \A m \in given'[d] : m \in emitted /\ m.ctx = ContextOf[d]
    BY <1>9, <2>1 DEF Deliver, Closed, Dispatching, Sourced
  <2>5. \A d \in Calls : given[d] \subseteq given'[d]
    BY <1>9, <2>1 DEF Deliver, Closed
  <2>. QED  BY <1>9, <2>3, <2>4, <2>5 DEF Deliver, Closed, Sourced
<1>10. CASE Forward
  BY <1>10 DEF Sourced, Forward
<1>11. CASE RecvFails \/ Lookup \/ DeliverFails \/ Purge
  BY <1>11 DEF Sourced, RecvFails, Lookup, DeliverFails, Purge, Closed,
     WithoutContext
<1>12. CASE StopDispatchTask
  BY <1>12 DEF Sourced, StopDispatchTask
<1>13. CASE CloseConnection
  BY <1>13, ToSetEmpty DEF Sourced, CloseConnection
<1>14. CASE NextMessage \/ EnableLogging \/ OpenConnection
              \/ EnsureDispatchTask
  BY <1>14 DEF Sourced, NextMessage, EnableLogging, OpenConnection,
     EnsureDispatchTask
<1>15. ASSUME NEW x \in Contexts \cup {NoContext}, NEW k \in DeviceKinds, Emit(x, k)
       PROVE  Sourced'
  <2>. DEFINE m == [id |-> count + 1, ctx |-> x, kind |-> k]
  <2>1. m \in Message
    BY RuntimeAssumption DEF Message
  <2>2. emitted' = emitted \cup {m} /\ inbound' \in {inbound, Append(inbound, m)}
    BY <1>15 DEF Emit, Emits
  <2>. HIDE DEF m
  <2>3. ToSet(inbound') \subseteq ToSet(inbound) \cup {m}
    <3>1. CASE inbound' = Append(inbound, m)
      <4>1. inbound \in Seq(Message)
        OBVIOUS
      <4>2. ToSet(inbound') = ToSet(inbound) \cup {m}
        BY ONLY <2>1, <3>1, <4>1, ToSetAppend
      <4>. QED  BY <4>2
    <3>. QED  BY <2>2, <3>1
  <2>. QED  BY <1>15, <2>2, <2>3 DEF Emit, Emits, Sourced
<1>16. ASSUME NEW c \in Calls, Execute(c)
       PROVE  Sourced'
  BY <1>16 DEF Sourced, Execute
<1>17. CASE ReaderEnds
  BY <1>17 DEF Sourced, ReaderEnds
<1>18. CASE UNCHANGED vars
  BY <1>18 DEF Sourced
<1>. QED
  BY <1>1, <1>2, <1>3, <1>4, <1>5, <1>6, <1>7, <1>8, <1>9, <1>10, <1>11,
     <1>12, <1>13, <1>14, <1>15, <1>16, <1>17, <1>18
     DEF Next, CallStep, SendStep, WaitStep, DispatchStep, AppStep, DeviceStep

-----------------------------------------------------------------------------
(***************************************************************************)
(* Where every event is, and in which order.                               *)
(***************************************************************************)

\* The only steps that move an event from one place to another, or make one.
LEMMA EventMoves ==
  ASSUME TypeOK, [Next]_vars
  PROVE  \/ Recv \/ Deliver \/ Forward \/ StopDispatchTask \/ CloseConnection
         \/ \E x \in Contexts \cup {NoContext}, k \in DeviceKinds : Emit(x, k)
         \/ UNCHANGED <<inbound, hand, count, history>>
<1>. DEFINE Still == UNCHANGED <<inbound, hand, count, history>>
<1>1. ASSUME NEW c \in Calls, CallStep(c)
      PROVE  Still
  BY <1>1 DEF CallStep, SendStep, WaitStep, Register, SendCommand, HandOver, SendReturns,
     SendFails, Consume, TimeOut, ChannelClosed, Return, Cancel, dispVars, linkVars
<1>2. CASE RecvFails \/ Lookup \/ DeliverFails \/ Purge
  BY <1>2 DEF RecvFails, Lookup, DeliverFails, Purge, dispVars, linkVars
<1>3. CASE NextMessage \/ EnableLogging \/ OpenConnection \/ EnsureDispatchTask
  BY <1>3 DEF NextMessage, EnableLogging, OpenConnection, EnsureDispatchTask, dispVars, linkVars
<1>4. ASSUME NEW c \in Calls, Execute(c)
      PROVE  Still
  BY <1>4 DEF Execute, dispVars, linkVars
<1>5. CASE ReaderEnds
  BY <1>5 DEF ReaderEnds, dispVars, linkVars
<1>6. CASE UNCHANGED vars
  BY <1>6 DEF vars, dispVars, linkVars
<1>. QED
  BY <1>1, <1>2, <1>3, <1>4, <1>5, <1>6 DEF Next, DispatchStep, AppStep, DeviceStep

\* The events of a channel in the order the device emitted them.
Increasing(s) == \A i, j \in DOMAIN s : i < j => s[i].id < s[j].id

\* What takes events out of a channel at its head keeps the others in order,
\* behind the one taken.
LEMMA IncreasingTail ==
  ASSUME NEW s \in Seq(Message), Increasing(s), s # <<>>
  PROVE  /\ Increasing(Tail(s))
         /\ \A m \in ToSet(Tail(s)) : Head(s).id < m.id
<1>1. \A i \in DOMAIN Tail(s) : Tail(s)[i] = s[i + 1] /\ i + 1 \in DOMAIN s
  OBVIOUS
<1>2. Increasing(Tail(s))
  BY <1>1 DEF Increasing
<1>3. ASSUME NEW i \in DOMAIN Tail(s)
      PROVE  Head(s).id < Tail(s)[i].id
  <2>1. Head(s) = s[1] /\ 1 \in DOMAIN s /\ 1 < i + 1
    OBVIOUS
  <2>. QED  BY <1>1, <2>1 DEF Increasing
<1>. QED  BY <1>2, <1>3 DEF ToSet

\* An event later than all of a channel may be put at its end.
LEMMA IncreasingAppend ==
  ASSUME NEW s \in Seq(Message), Increasing(s), NEW m \in Message,
         \A n \in ToSet(s) : n.id < m.id
  PROVE  Increasing(Append(s, m))
<1>1. \A i \in DOMAIN s : s[i].id < m.id
  BY DEF ToSet
<1>. QED  BY <1>1 DEF Increasing

\* The events the dispatch task is done with.
Settled == Given \cup forwarded \cup logged \cup dropped

\* Those that never got to it.
Gone == lost \cup overflowed

\* Events are dispatched in the order they were emitted, and every channel
\* keeps that order; what is in flight is newer than whatever was dispatched.
Ordered ==
  /\ \A m \in emitted : m.id <= count
  /\ Increasing(inbound) /\ \A c \in Calls : Increasing(chan[c])
  /\ \A m \in Held, n \in ToSet(inbound) : m.id < n.id
  /\ \A m \in InFlight, n \in Settled : n.id < m.id

\* No event has two fates.
Apart ==
  /\ \A c, d \in Calls : c # d => given[c] \cap given[d] = {}
  /\ Given \cap (forwarded \cup logged \cup dropped) = {}
  /\ forwarded \cap (logged \cup dropped) = {}
  /\ logged \cap dropped = {}
  /\ Gone \cap (InFlight \cup Settled) = {}
  /\ lost \cap overflowed = {}

\* None is without one.
Accounted == emitted = InFlight \cup Settled \cup Gone

Fates == Ordered /\ Apart /\ Accounted

\* What a step of the response channels may do to them: one loses its head or
\* all it holds, or the event in hand goes to the end of the target's.
LEMMA ChannelMoves ==
  ASSUME TypeOK, Dispatching, [Next]_vars, NEW d \in Calls
  PROVE  \/ chan'[d] = chan[d] \/ chan'[d] = <<>>
         \/ chan[d] # <<>> /\ chan'[d] = Tail(chan[d])
         \/ Deliver /\ d = target /\ chan'[d] = Append(chan[d], hand)
<1>. DEFINE Moved ==
       \/ chan'[d] = chan[d] \/ chan'[d] = <<>>
       \/ chan[d] # <<>> /\ chan'[d] = Tail(chan[d])
       \/ Deliver /\ d = target /\ chan'[d] = Append(chan[d], hand)
<1>. USE DEF TypeOK
<1>1. ASSUME NEW c \in Calls, Consume(c)
      PROVE  Moved
  BY <1>1 DEF Consume
<1>2. ASSUME NEW c \in Calls, Return(c) \/ Cancel(c)
      PROVE  Moved
  BY <1>2 DEF Return, Cancel
<1>3. CASE Deliver
  BY <1>3 DEF Deliver, Closed, HasRoom, Dispatching
<1>4. CASE UNCHANGED chan
  BY <1>4
<1>5. Next => \/ \E c \in Calls : Consume(c) \/ Return(c) \/ Cancel(c)
              \/ Deliver \/ UNCHANGED chan
  BY DEF Next, CallStep, SendStep, WaitStep, DispatchStep, AppStep, DeviceStep, Register,
     SendCommand, HandOver, SendReturns, SendFails, TimeOut, ChannelClosed, Recv, RecvFails,
     Lookup, DeliverFails, Purge, Forward, NextMessage, EnableLogging, OpenConnection,
     EnsureDispatchTask, StopDispatchTask, CloseConnection, ReaderEnds, Execute, Emit, Emits, callVars
<1>6. UNCHANGED vars => UNCHANGED chan
  BY DEF vars, callVars
<1>. QED  BY <1>1, <1>2, <1>3, <1>4, <1>5, <1>6

\* Response channels stay in order: the event in hand is newer than any given.
LEMMA ChannelsOrdered ==
  ASSUME TypeOK, Dispatching, Sourced, Ordered, [Next]_vars, NEW d \in Calls
  PROVE  Increasing(chan'[d])
<1>1. chan[d] \in Seq(Message) /\ Increasing(chan[d])
  BY DEF TypeOK, Ordered
<1>2. CASE chan'[d] = chan[d] \/ chan'[d] = <<>>
  BY <1>1, <1>2 DEF Increasing
<1>3. CASE chan[d] # <<>> /\ chan'[d] = Tail(chan[d])
  BY <1>1, <1>3, IncreasingTail
<1>4. CASE Deliver /\ d = target /\ chan'[d] = Append(chan[d], hand)
  <2>1. hand \in Message /\ hand \in InFlight
    BY <1>4 DEF Deliver, Dispatching, TypeOK, InFlight, Held
  <2>2. ToSet(chan[d]) \subseteq Settled
    BY DEF Sourced, Settled, Given
  <2>3. \A n \in ToSet(chan[d]) : n.id < hand.id
    BY <2>1, <2>2 DEF Ordered
  <2>. QED  BY <1>1, <1>4, <2>1, <2>3, IncreasingAppend
<1>. QED  BY <1>2, <1>3, <1>4, ChannelMoves

\* Events stay in order, because dispatching takes them from the head of the
\* receive channel and the device only adds newer ones to its end.
LEMMA OrderedStep ==
  ASSUME TypeOK, Dispatching, Sourced, Fates, [Next]_vars
  PROVE  Ordered'
<1>. USE DEF TypeOK, Fates, InFlight, Held, Gone, history
<1>0. \A c \in Calls : Increasing(chan'[c])
  BY ChannelsOrdered
<1>1. CASE Recv
  <2>1. /\ inbound \in Seq(Message) /\ inbound # <<>> /\ hand' = Head(inbound)
        /\ inbound' = Tail(inbound) /\ UNCHANGED <<count, history>>
        /\ Increasing(inbound)
    BY <1>1 DEF Recv, Ordered
  <2>2. ToSet(inbound) = {Head(inbound)} \cup ToSet(Tail(inbound))
    BY <2>1, ToSetHeadTail
  <2>3. Increasing(Tail(inbound)) /\ \A m \in ToSet(Tail(inbound)) : Head(inbound).id < m.id
    BY <2>1, IncreasingTail
  <2>. QED  BY <1>0, <2>1, <2>2, <2>3 DEF Ordered, Settled, Given
<1>2. CASE Deliver
  <2>1. /\ hand \in Message /\ hand' = NoMessage /\ UNCHANGED <<inbound, count, emitted>>
        /\ Settled' = Settled \cup {hand}
    BY <1>2 DEF Deliver, Closed, HasRoom, Dispatching, linkVars, Settled, Given
  <2>. QED  BY <1>0, <2>1, RuntimeAssumption DEF Ordered
<1>3. CASE Forward
  <2>1. /\ hand \in Message /\ hand' = NoMessage /\ UNCHANGED <<inbound, count, emitted>>
        /\ Settled' = Settled \cup {hand}
    BY <1>3 DEF Forward, Dispatching, linkVars, Settled, Given
  <2>. QED  BY <1>0, <2>1, RuntimeAssumption DEF Ordered
<1>4. CASE StopDispatchTask
  <2>1. hand' = NoMessage /\ UNCHANGED <<inbound, count, emitted, given, forwarded, logged, dropped>>
    BY <1>4 DEF StopDispatchTask
  <2>. QED  BY <1>0, <2>1 DEF Ordered, Settled, Given
<1>5. CASE CloseConnection
  <2>1. inbound' = <<>> /\ UNCHANGED <<hand, count, emitted, given, forwarded, logged, dropped>>
    BY <1>5 DEF CloseConnection, dispVars
  <2>2. InFlight' \subseteq Held /\ Held' = Held /\ Settled' = Settled /\ ToSet(inbound') = {}
    BY <2>1, ToSetEmpty DEF Settled, Given
  <2>3. Increasing(inbound') /\ \A m \in emitted' : m.id <= count'
    BY <2>1 DEF Ordered, Increasing
  <2>. QED  BY <1>0, <2>2, <2>3 DEF Ordered
<1>6. ASSUME NEW x \in Contexts \cup {NoContext}, NEW k \in DeviceKinds, Emit(x, k)
      PROVE  Ordered'
  <2>. DEFINE m == [id |-> count + 1, ctx |-> x, kind |-> k]
  <2>1. m \in Message /\ m.id = count + 1
    BY RuntimeAssumption DEF Message
  <2>2. /\ emitted' = emitted \cup {m} /\ count' = count + 1
        /\ inbound' = inbound \/ inbound' = Append(inbound, m)
        /\ UNCHANGED <<hand, given, forwarded, logged, dropped>>
    BY <1>6 DEF Emit, Emits, dispVars
  <2>. HIDE DEF m
  <2>3. \A n \in emitted : n.id <= count /\ n \in Message
    BY DEF Ordered
  <2>4. \A n \in emitted' : n.id <= count'
    BY <2>1, <2>2, <2>3 DEF Message
  <2>5. InFlight \subseteq emitted /\ Settled \subseteq emitted
    BY DEF Accounted
  <2>6. ToSet(inbound') \subseteq ToSet(inbound) \cup {m} /\ Increasing(inbound')
    <3>1. CASE inbound' = inbound
      BY <3>1 DEF Ordered
    <3>2. CASE inbound' = Append(inbound, m)
      <4>1. inbound \in Seq(Message) /\ Increasing(inbound)
        BY DEF Ordered
      <4>2. \A n \in ToSet(inbound) : n.id < m.id
        BY <2>1, <2>3, <2>5 DEF Message
      <4>. QED  BY <2>1, <3>2, <4>1, <4>2, ToSetAppend, IncreasingAppend
    <3>. QED  BY <2>2, <3>1, <3>2
  <2>7. Settled' = Settled /\ Held' = Held
    BY <2>2 DEF Settled, Given
  <2>8. \A n \in emitted : n.id < m.id
    BY <2>1, <2>3 DEF Message
  <2>9. \A n \in Held', o \in ToSet(inbound') : n.id < o.id
    BY <2>5, <2>6, <2>7, <2>8 DEF Ordered
  <2>10. \A n \in InFlight', o \in Settled' : o.id < n.id
    BY <2>5, <2>6, <2>7, <2>8 DEF Ordered
  <2>. QED  BY <1>0, <2>4, <2>6, <2>9, <2>10 DEF Ordered
<1>7. CASE UNCHANGED <<inbound, hand, count, history>>
  BY <1>0, <1>7 DEF Ordered, Settled, Given
<1>. QED  BY <1>1, <1>2, <1>3, <1>4, <1>5, <1>6, <1>7, EventMoves

\* No step copies an event, because what is in flight has no fate yet.
LEMMA ApartStep ==
  ASSUME TypeOK, Dispatching, Sourced, Fates, [Next]_vars
  PROVE  Apart'
<1>. USE DEF TypeOK, Fates, InFlight, Held, Gone, history
<1>1. InFlight \cap Settled = {}
  <2>. SUFFICES ASSUME NEW m \in InFlight, m \in Settled
                PROVE  FALSE
    OBVIOUS
  <2>1. m.id \in Nat
    BY DEF Sourced, Message
  <2>2. m.id < m.id
    BY DEF Ordered
  <2>. QED  BY <2>1, <2>2
<1>2. CASE Recv
  <2>1. /\ inbound \in Seq(Message) /\ inbound # <<>> /\ hand' = Head(inbound)
        /\ inbound' = Tail(inbound) /\ UNCHANGED history /\ hand = NoMessage
    BY <1>2 DEF Recv, Dispatching
  <2>2. ToSet(inbound) = {Head(inbound)} \cup ToSet(Tail(inbound))
    BY <2>1, ToSetHeadTail
  <2>3. InFlight' \subseteq InFlight
    BY <2>1, <2>2
  <2>. QED  BY <2>1, <2>3 DEF Apart, Settled, Given
<1>3. CASE Deliver
  <2>1. /\ hand \in InFlight /\ target \in Calls /\ InFlight' \subseteq InFlight \ {hand}
        /\ given' = [given EXCEPT ![target] = @ \cup {hand}]
        /\ UNCHANGED <<forwarded, logged, dropped, overflowed, lost>>
    <3>1. /\ hand # NoMessage /\ hand' = NoMessage /\ inbound' = inbound /\ target \in Calls
          /\ given' = [given EXCEPT ![target] = @ \cup {hand}]
          /\ UNCHANGED <<forwarded, logged, dropped, overflowed, lost>>
      BY <1>3 DEF Deliver, Closed, HasRoom, Dispatching, linkVars
    <3>2. hand \notin ToSet(inbound)
      BY <3>1 DEF Ordered, Sourced, Message
    <3>. QED  BY <3>1, <3>2
  <2>2. hand \notin Settled /\ hand \notin Gone
    BY <1>1, <2>1 DEF Apart
  <2>3. Given' = Given \cup {hand}
    BY <2>1 DEF Given
  <2>4. \A c, d \in Calls : c # d => given'[c] \cap given'[d] = {}
    BY <2>1, <2>2 DEF Apart, Settled, Given
  <2>. QED  BY <2>1, <2>2, <2>3, <2>4 DEF Apart, Settled
<1>4. CASE Forward
  <2>1. /\ hand \in InFlight /\ InFlight' \subseteq InFlight \ {hand} /\ UNCHANGED <<given, overflowed, lost>>
        /\ \/ forwarded' = forwarded \cup {hand} /\ UNCHANGED <<logged, dropped>>
           \/ logged' = logged \cup {hand} /\ UNCHANGED <<forwarded, dropped>>
           \/ dropped' = dropped \cup {hand} /\ UNCHANGED <<forwarded, logged>>
    <3>1. /\ hand # NoMessage /\ hand' = NoMessage /\ inbound' = inbound
          /\ UNCHANGED <<given, overflowed, lost>>
          /\ \/ forwarded' = forwarded \cup {hand} /\ UNCHANGED <<logged, dropped>>
             \/ logged' = logged \cup {hand} /\ UNCHANGED <<forwarded, dropped>>
             \/ dropped' = dropped \cup {hand} /\ UNCHANGED <<forwarded, logged>>
      BY <1>4 DEF Forward, Dispatching, linkVars
    <3>2. hand \notin ToSet(inbound)
      BY <3>1 DEF Ordered, Sourced, Message
    <3>. QED  BY <3>1, <3>2
  <2>2. hand \notin Settled /\ hand \notin Gone
    BY <1>1, <2>1 DEF Apart
  <2>3. Given' = Given
    BY <2>1 DEF Given
  <2>. QED  BY <2>1, <2>2, <2>3 DEF Apart, Settled
<1>5. CASE StopDispatchTask
  <2>1. /\ hand' = NoMessage /\ inbound' = inbound
        /\ lost' = lost \cup Held /\ UNCHANGED <<given, forwarded, logged, dropped, overflowed>>
    BY <1>5 DEF StopDispatchTask
  <2>2. Held \cap ToSet(inbound) = {}
    BY DEF Ordered, Sourced, Message
  <2>3. InFlight' = InFlight \ Held /\ Held \subseteq InFlight
    BY <2>1, <2>2
  <2>4. Settled' = Settled /\ Given' = Given
    BY <2>1 DEF Settled, Given
  <2>5. Gone' \cap (InFlight' \cup Settled') = {} /\ (lost \cap overflowed)' = {}
    BY ONLY Apart, <1>1, <2>1, <2>3, <2>4 DEF Apart, Gone
  <2>. QED  BY <2>1, <2>4, <2>5 DEF Apart
<1>6. CASE CloseConnection
  <2>1. /\ hand' = hand /\ inbound' = <<>> /\ lost' = lost \cup ToSet(inbound)
        /\ UNCHANGED <<given, forwarded, logged, dropped, overflowed>>
    BY <1>6 DEF CloseConnection, dispVars
  <2>2. Held \cap ToSet(inbound) = {}
    BY DEF Ordered, Sourced, Message
  <2>3. InFlight' = Held
    BY <2>1, ToSetEmpty
  <2>. QED  BY <1>1, <2>1, <2>2, <2>3 DEF Apart, Settled, Given
<1>7. ASSUME NEW x \in Contexts \cup {NoContext}, NEW k \in DeviceKinds, Emit(x, k)
      PROVE  Apart'
  <2>. DEFINE m == [id |-> count + 1, ctx |-> x, kind |-> k]
  <2>1. m \in Message /\ m.id = count + 1
    BY RuntimeAssumption DEF Message
  <2>2. /\ UNCHANGED <<hand, given, forwarded, logged, dropped, lost>>
        /\ \/ inbound' = Append(inbound, m) /\ UNCHANGED overflowed
           \/ inbound' = inbound /\ overflowed' = overflowed \cup {m}
    BY <1>7 DEF Emit, Emits, dispVars
  <2>. HIDE DEF m
  <2>3. m \notin emitted
    BY <2>1 DEF Ordered
  <2>4. \/ InFlight' = InFlight \cup {m} /\ overflowed' = overflowed
        \/ InFlight' = InFlight /\ overflowed' = overflowed \cup {m}
    <3>1. inbound \in Seq(Message)
      OBVIOUS
    <3>2. ToSet(Append(inbound, m)) = ToSet(inbound) \cup {m}
      BY ONLY <2>1, <3>1, ToSetAppend
    <3>. QED  BY <2>2, <3>2
  <2>5. Settled' = Settled /\ Given' = Given
    BY <2>2 DEF Settled, Given
  <2>6. m \notin InFlight /\ m \notin Settled /\ m \notin Gone
    BY <2>3 DEF Accounted
  <2>7. Gone' \cap (InFlight' \cup Settled') = {} /\ (lost \cap overflowed)' = {}
    BY ONLY Apart, <2>2, <2>4, <2>5, <2>6 DEF Apart, Gone
  <2>. QED  BY <2>2, <2>5, <2>7 DEF Apart
<1>8. CASE UNCHANGED <<inbound, hand, count, history>>
  BY <1>8 DEF Apart, Settled, Given
<1>. QED  BY <1>2, <1>3, <1>4, <1>5, <1>6, <1>7, <1>8, EventMoves

\* No step forgets an event.
LEMMA AccountedStep ==
  ASSUME TypeOK, Dispatching, Accounted, [Next]_vars
  PROVE  Accounted'
<1>. USE DEF TypeOK, InFlight, Held, Gone, history
<1>1. CASE Recv
  <2>1. /\ inbound \in Seq(Message) /\ inbound # <<>> /\ hand' = Head(inbound)
        /\ inbound' = Tail(inbound) /\ UNCHANGED history /\ hand = NoMessage
        /\ Head(inbound) \in Message
    BY <1>1 DEF Recv, Dispatching
  <2>2. ToSet(inbound) = {Head(inbound)} \cup ToSet(Tail(inbound))
    BY <2>1, ToSetHeadTail
  <2>. QED  BY <2>1, <2>2, RuntimeAssumption DEF Accounted, Settled, Given
<1>2. CASE Deliver \/ Forward
  <2>1. /\ hand' = NoMessage /\ UNCHANGED <<inbound, emitted, overflowed, lost>> /\ hand # NoMessage
    BY <1>2 DEF Deliver, Closed, HasRoom, Forward, Dispatching, linkVars
  <2>2. CASE Deliver
    <3>1. /\ target \in Calls /\ UNCHANGED <<forwarded, logged, dropped>>
          /\ given' = [given EXCEPT ![target] = @ \cup {hand}]
      BY <2>2 DEF Deliver, Closed, HasRoom, Dispatching
    <3>2. Settled' = Settled \cup {hand}
      BY <3>1 DEF Settled, Given
    <3>. QED  BY <2>1, <3>2 DEF Accounted
  <2>3. CASE Forward
    <3>1. Settled' = Settled \cup {hand}
      BY <2>3 DEF Forward, Settled, Given
    <3>. QED  BY <2>1, <3>1 DEF Accounted
  <2>. QED  BY <1>2, <2>2, <2>3
<1>3. CASE StopDispatchTask
  BY <1>3 DEF StopDispatchTask, Accounted, Settled, Given
<1>4. CASE CloseConnection
  BY <1>4, ToSetEmpty DEF CloseConnection, dispVars, Accounted, Settled, Given
<1>5. ASSUME NEW x \in Contexts \cup {NoContext}, NEW k \in DeviceKinds, Emit(x, k)
      PROVE  Accounted'
  <2>. DEFINE m == [id |-> count + 1, ctx |-> x, kind |-> k]
  <2>1. m \in Message
    BY RuntimeAssumption DEF Message
  <2>2. /\ UNCHANGED <<hand, given, forwarded, logged, dropped, lost>> /\ emitted' = emitted \cup {m}
        /\ \/ inbound' = Append(inbound, m) /\ UNCHANGED overflowed
           \/ inbound' = inbound /\ overflowed' = overflowed \cup {m}
    BY <1>5 DEF Emit, Emits, dispVars
  <2>. HIDE DEF m
  <2>3. ToSet(Append(inbound, m)) = ToSet(inbound) \cup {m}
    <3>1. inbound \in Seq(Message)
      OBVIOUS
    <3>. QED  BY ONLY <2>1, <3>1, ToSetAppend
  <2>4. Settled' = Settled /\ Held' = Held
    BY <2>2 DEF Settled, Given
  <2>. QED  BY <2>2, <2>3, <2>4 DEF Accounted
<1>6. CASE UNCHANGED <<inbound, hand, count, history>>
  BY <1>6 DEF Accounted, Settled, Given
<1>. QED  BY <1>1, <1>2, <1>3, <1>4, <1>5, <1>6, EventMoves

-----------------------------------------------------------------------------
(***************************************************************************)
(* Which of its events a call ends with.                                   *)
(***************************************************************************)

\* Until its command is sent a call has looked at no event; while it waits it
\* has looked at none that ends it.
Unread ==
  \A c \in Calls :
    /\ pc[c] \in {"idle", "sending"} => given[c] \subseteq ToSet(chan[c])
    /\ pc[c] = "waiting" => \A m \in given[c] : Conclusive(c, m) => m \in ToSet(chan[c])

\* The answer a call ends with is the first of its events that ends it.
First(c) ==
  outcome[c] \in {"ok", "error"} =>
    /\ Conclusive(c, answer[c]) /\ answer[c] \in given[c]
    /\ (outcome[c] = "error") <=> (answer[c].kind = "error")
    /\ \A m \in given[c] : Conclusive(c, m) => answer[c].id <= m.id

\* The steps that touch what a call has been given, has looked at or returns.
LEMMA AnswerMoves ==
  ASSUME TypeOK, [Next]_vars
  PROVE  \/ \E c \in Calls : CallStep(c)
         \/ Deliver
         \/ UNCHANGED <<pc, outcome, answer, chan, swallowed, given>>
<1>. USE DEF callVars, history
<1>1. CASE DispatchStep
  BY <1>1 DEF DispatchStep, Recv, RecvFails, Lookup, DeliverFails, Purge, Forward
<1>2. CASE AppStep
  BY <1>2 DEF AppStep, NextMessage, EnableLogging, OpenConnection, EnsureDispatchTask,
     StopDispatchTask, CloseConnection
<1>3. CASE DeviceStep
  BY <1>3 DEF DeviceStep, ReaderEnds, Execute, Emit, Emits
<1>4. CASE UNCHANGED vars
  BY <1>4 DEF vars
<1>. QED  BY <1>1, <1>2, <1>3, <1>4 DEF Next

\* What one turn of the wait loop does: the head of the channel is passed over
\* when it does not end the call, and ends it otherwise.
LEMMA ConsumeFacts ==
  ASSUME TypeOK, Sourced, NEW c \in Calls, Consume(c)
  PROVE  LET m == Head(chan[c]) IN
           /\ pc[c] = "waiting" /\ m \in Message /\ m \in given[c]
           /\ ToSet(chan[c]) = {m} \cup ToSet(chan'[c])
           /\ chan[c] \in Seq(Message) /\ chan[c] # <<>> /\ chan'[c] = Tail(chan[c])
           /\ \A d \in Calls \ {c} : chan'[d] = chan[d]
           /\ UNCHANGED <<given, emitted, wire>>
           /\ IF Conclusive(c, m)
              THEN /\ pc' = [pc EXCEPT ![c] = "removing"]
                   /\ answer' = [answer EXCEPT ![c] = m]
                   /\ outcome' = [outcome EXCEPT ![c] = IF m.kind = "error" THEN "error" ELSE "ok"]
              ELSE UNCHANGED <<pc, outcome, answer>>
           /\ \A d \in Calls \ {c} :
                pc'[d] = pc[d] /\ outcome'[d] = outcome[d] /\ answer'[d] = answer[d]
<1>. DEFINE m == Head(chan[c])
<1>. USE DEF TypeOK
<1>1. /\ pc[c] = "waiting" /\ chan[c] \in Seq(Message) /\ chan[c] # <<>>
      /\ chan'[c] = Tail(chan[c]) /\ \A d \in Calls \ {c} : chan'[d] = chan[d]
      /\ UNCHANGED <<given, emitted, wire>>
  BY DEF Consume, history
<1>2. ToSet(chan[c]) = {m} \cup ToSet(chan'[c])
  BY <1>1, ToSetHeadTail
<1>3. m \in given[c] /\ m.ctx = ContextOf[c] /\ m \in Message
  BY <1>1, <1>2 DEF Sourced
<1>4. IF Conclusive(c, m)
      THEN /\ pc' = [pc EXCEPT ![c] = "removing"]
           /\ answer' = [answer EXCEPT ![c] = m]
           /\ outcome' = [outcome EXCEPT ![c] = IF m.kind = "error" THEN "error" ELSE "ok"]
      ELSE UNCHANGED <<pc, outcome, answer>>
  <2>1. EndsWith(c, m) = IF m.kind = "error" THEN "error" ELSE IF Conclusive(c, m) THEN "ok" ELSE "none"
    BY DEF EndsWith, Conclusive
  <2>2. Conclusive(c, m) <=> EndsWith(c, m) # "none"
    BY <2>1 DEF Conclusive
  <2>3. CASE Conclusive(c, m)
    BY <1>3, <2>1, <2>2, <2>3 DEF Consume, Conclude
  <2>4. CASE ~Conclusive(c, m)
    BY <1>3, <2>2, <2>4 DEF Consume
  <2>. QED  BY <2>3, <2>4
<1>5. \A d \in Calls \ {c} :
        pc'[d] = pc[d] /\ outcome'[d] = outcome[d] /\ answer'[d] = answer[d]
  BY <1>4
<1>. QED  BY <1>1, <1>2, <1>3, <1>4, <1>5

\* A call passes over no event that ends it.
LEMMA UnreadStep ==
  ASSUME TypeOK, Dispatching, Sourced, Unread, [Next]_vars
  PROVE  Unread'
<1>. USE DEF TypeOK, Conclusive, Terminal
<1>1. ASSUME NEW c \in Calls, Consume(c)
      PROVE  Unread'
  <2>. DEFINE m == Head(chan[c])
  <2>1. ASSUME NEW d \in Calls \ {c}
        PROVE  /\ pc'[d] \in {"idle", "sending"} => given'[d] \subseteq ToSet(chan'[d])
               /\ pc'[d] = "waiting" => \A n \in given'[d] : Conclusive(d, n) => n \in ToSet(chan'[d])
    <3>1. pc'[d] = pc[d] /\ chan'[d] = chan[d] /\ given' = given
      BY <1>1, ConsumeFacts
    <3>. QED  BY <3>1 DEF Unread
  <2>2. CASE Conclusive(c, m)
    <3>1. pc'[c] = "removing"
      BY <1>1, <2>2, ConsumeFacts
    <3>. QED  BY <2>1, <3>1 DEF Unread
  <2>3. CASE ~Conclusive(c, m)
    <3>1. /\ pc'[c] = "waiting" /\ given' = given
          /\ ToSet(chan[c]) = {m} \cup ToSet(chan'[c])
      BY <1>1, <2>3, ConsumeFacts
    <3>2. \A n \in given'[c] : Conclusive(c, n) => n \in ToSet(chan'[c])
      BY <1>1, <2>3, <3>1, ConsumeFacts DEF Unread
    <3>. QED  BY <2>1, <3>1, <3>2 DEF Unread
  <2>. QED  BY <2>2, <2>3
<1>2. ASSUME NEW c \in Calls,
             \/ Register(c) \/ SendCommand(c) \/ HandOver(c) \/ SendReturns(c)
             \/ SendFails(c) \/ TimeOut(c) \/ ChannelClosed(c)
      PROVE  Unread'
  BY <1>2 DEF Unread, Register, SendCommand, HandOver, SendReturns, SendFails, TimeOut,
     ChannelClosed, Conclude, history
<1>3. ASSUME NEW c \in Calls, Return(c) \/ Cancel(c)
      PROVE  Unread'
  BY <1>3 DEF Unread, Return, Cancel, history
<1>4. CASE Deliver
  <2>1. /\ target \in Calls /\ hand \in Message /\ pc' = pc
        /\ given' = [given EXCEPT ![target] = @ \cup {hand}]
        /\ chan' = [chan EXCEPT ![target] = Append(@, hand)]
    BY <1>4 DEF Deliver, Closed, HasRoom, Dispatching
  <2>2. ToSet(Append(chan[target], hand)) = ToSet(chan[target]) \cup {hand}
    BY <2>1, ToSetAppend
  <2>. QED  BY <2>1, <2>2 DEF Unread
<1>5. CASE UNCHANGED <<pc, outcome, answer, chan, swallowed, given>>
  BY <1>5 DEF Unread
<1>. QED  BY <1>1, <1>2, <1>3, <1>4, <1>5, AnswerMoves DEF CallStep, SendStep, WaitStep

\* An answer is kept: only later events come after it.
LEMMA AnswerStep ==
  ASSUME TypeOK, Dispatching, Sourced, Ordered, Unread, AnswerIsFirstConclusive, [Next]_vars
  PROVE  AnswerIsFirstConclusive'
<1>1. \A c \in Calls : First(c)
  BY DEF AnswerIsFirstConclusive, First
<1>2. (\A c \in Calls : First(c)') => AnswerIsFirstConclusive'
  BY UnreadStep DEF Unread, AnswerIsFirstConclusive, First, Conclusive, Terminal
<1>3. ASSUME NEW c \in Calls, UNCHANGED given,
             \A d \in Calls \ {c} : outcome'[d] = outcome[d] /\ answer'[d] = answer[d],
             First(c)'
      PROVE  \A d \in Calls : First(d)'
  BY <1>1, <1>3 DEF First, Conclusive, Terminal
<1>4. ASSUME NEW c \in Calls, Consume(c)
      PROVE  \A d \in Calls : First(d)'
  <2>. DEFINE m == Head(chan[c])
  <2>1. /\ UNCHANGED given /\ m \in Message /\ m \in given[c]
        /\ \A d \in Calls \ {c} : outcome'[d] = outcome[d] /\ answer'[d] = answer[d]
    BY <1>4, ConsumeFacts DEF TypeOK
  <2>2. CASE Conclusive(c, m)
    <3>1. /\ answer'[c] = m /\ outcome'[c] = IF m.kind = "error" THEN "error" ELSE "ok"
          /\ pc[c] = "waiting" /\ ToSet(chan[c]) = {m} \cup ToSet(chan'[c])
          /\ chan'[c] = Tail(chan[c]) /\ chan[c] \in Seq(Message) /\ chan[c] # <<>>
      BY <1>4, <2>2, ConsumeFacts DEF TypeOK
    <3>2. \A n \in ToSet(Tail(chan[c])) : m.id < n.id
      BY <3>1, IncreasingTail DEF Ordered
    <3>3. given[c] \subseteq Message
      BY DEF TypeOK
    <3>4. \A n \in given[c] : Conclusive(c, n) => m.id <= n.id
      BY <2>1, <3>1, <3>2, <3>3 DEF Unread, Message
    <3>5. First(c)'
      BY <2>1, <2>2, <3>1, <3>4 DEF First, Conclusive, Terminal
    <3>. QED  BY <1>3, <2>1, <3>5
  <2>3. CASE ~Conclusive(c, m)
    <3>1. UNCHANGED <<outcome, answer, given>>
      BY <1>4, <2>3, ConsumeFacts
    <3>2. First(c)'
      BY <1>1, <3>1 DEF First, Conclusive, Terminal
    <3>. QED  BY <1>3, <3>1, <3>2
  <2>. QED  BY <2>2, <2>3
<1>5. ASSUME NEW c \in Calls, SendFails(c) \/ TimeOut(c) \/ ChannelClosed(c) \/ SendCommand(c)
      PROVE  \A d \in Calls : First(d)'
  <2>1. /\ UNCHANGED given /\ outcome'[c] \notin {"ok", "error"}
        /\ \A d \in Calls \ {c} : outcome'[d] = outcome[d] /\ answer'[d] = answer[d]
    BY <1>5 DEF SendFails, TimeOut, ChannelClosed, SendCommand, Conclude, TypeOK, history
  <2>2. First(c)'
    BY <2>1 DEF First
  <2>. QED  BY <1>3, <2>1, <2>2
<1>6. ASSUME UNCHANGED <<outcome, answer, given>>
      PROVE  \A d \in Calls : First(d)'
  <2>. TAKE d \in Calls
  <2>1. First(d)
    BY <1>1
  <2>. QED  BY <1>6, <2>1 DEF First, Conclusive, Terminal
<1>7. ASSUME Deliver
      PROVE  \A d \in Calls : First(d)'
  <2>1. /\ target \in Calls /\ hand \in InFlight /\ UNCHANGED <<outcome, answer>>
        /\ given' = [given EXCEPT ![target] = @ \cup {hand}] /\ hand \in Message
    BY <1>7 DEF Deliver, Closed, HasRoom, Dispatching, TypeOK, InFlight, Held
  <2>2. \A n \in given[target] : n.id < hand.id /\ n \in Message
    BY <2>1 DEF Ordered, Settled, Given, TypeOK
  <2>3. ASSUME NEW d \in Calls, outcome'[d] \in {"ok", "error"}
        PROVE  \A n \in given'[d] : Conclusive(d, n) => answer[d].id <= n.id
    BY <1>1, <2>1, <2>2, <2>3 DEF First, Message, TypeOK
  <2>4. \A d \in Calls : given[d] \subseteq given'[d]
    BY <2>1 DEF TypeOK
  <2>. TAKE d \in Calls
  <2>5. First(d)
    BY <1>1
  <2>. QED  BY <2>1, <2>3, <2>4, <2>5 DEF First, Conclusive, Terminal
<1>8. \/ \E c \in Calls : Consume(c)
      \/ \E c \in Calls : SendFails(c) \/ TimeOut(c) \/ ChannelClosed(c) \/ SendCommand(c)
      \/ Deliver \/ UNCHANGED <<outcome, answer, given>>
  BY AnswerMoves DEF CallStep, SendStep, WaitStep, Register, HandOver, SendReturns, Return,
     Cancel, history
<1>. QED  BY <1>2, <1>4, <1>5, <1>6, <1>7, <1>8

\* An answer belongs to an outcome, and a call that goes for the registry lock
\* knows its own.
Concluded ==
  \A c \in Calls :
    /\ outcome[c] \notin {"ok", "error"} => answer[c] = NoMessage
    /\ pc[c] \in {"idle", "sending", "waiting"} => outcome[c] = "none"
    /\ pc[c] = "removing" => outcome[c] \in {"ok", "error", "sendError", "timeout", "closed"}

\* Every way to conclude a call sets its outcome and its answer together.
LEMMA ConcludedStep ==
  ASSUME TypeOK, Sourced, Concluded, [Next]_vars
  PROVE  Concluded'
<1>. USE DEF TypeOK, Concluded
<1>1. ASSUME NEW c \in Calls, Consume(c)
      PROVE  Concluded'
  <2>. DEFINE m == Head(chan[c])
  <2>1. CASE Conclusive(c, m)
    <3>1. /\ pc' = [pc EXCEPT ![c] = "removing"] /\ answer' = [answer EXCEPT ![c] = m]
          /\ outcome' = [outcome EXCEPT ![c] = IF m.kind = "error" THEN "error" ELSE "ok"]
      BY <1>1, <2>1, ConsumeFacts
    <3>. QED  BY <3>1
  <2>2. CASE ~Conclusive(c, m)
    <3>1. UNCHANGED <<pc, outcome, answer>>
      BY <1>1, <2>2, ConsumeFacts
    <3>. QED  BY <3>1
  <2>. QED  BY <2>1, <2>2
<1>2. ASSUME NEW c \in Calls,
             \/ Register(c) \/ SendCommand(c) \/ HandOver(c) \/ SendReturns(c)
             \/ SendFails(c) \/ TimeOut(c) \/ ChannelClosed(c)
      PROVE  Concluded'
  BY <1>2 DEF Register, SendCommand, HandOver, SendReturns, SendFails, TimeOut,
     ChannelClosed, Conclude
<1>3. ASSUME NEW c \in Calls, Return(c) \/ Cancel(c)
      PROVE  Concluded'
  BY <1>3 DEF Return, Cancel, Live
<1>4. CASE Deliver
  BY <1>4 DEF Deliver
<1>5. CASE UNCHANGED <<pc, outcome, answer, chan, swallowed, given>>
  BY <1>5
<1>. QED  BY <1>1, <1>2, <1>3, <1>4, <1>5, AnswerMoves DEF CallStep, SendStep, WaitStep

\* A call that is over has left its channel, with what was given to it after
\* the event it ended with.
Leftovers ==
  \A c \in Calls :
    /\ ToSet(swallowed[c]) \subseteq given[c]
    /\ Live(c) \/ pc[c] = "idle" => swallowed[c] = <<>>
    /\ ~Live(c) => chan[c] = <<>>
    /\ outcome[c] \in {"ok", "error"} =>
         \A m \in ToSet(chan[c]) \cup ToSet(swallowed[c]) : answer[c].id < m.id

\* What is given to a call after its answer is later than that.
LEMMA LeftoversStep ==
  ASSUME TypeOK, Dispatching, Sourced, Ordered, AnswerIsFirstConclusive, Concluded,
         Leftovers, [Next]_vars
  PROVE  Leftovers'
<1>. USE DEF TypeOK, Leftovers, Live
<1>1. ASSUME NEW c \in Calls, Consume(c)
      PROVE  Leftovers'
  <2>. DEFINE m == Head(chan[c])
  <2>1. /\ pc[c] = "waiting" /\ chan[c] \in Seq(Message) /\ chan[c] # <<>>
        /\ chan'[c] = Tail(chan[c]) /\ UNCHANGED given
        /\ \A d \in Calls \ {c} : /\ chan'[d] = chan[d] /\ pc'[d] = pc[d]
                                 /\ outcome'[d] = outcome[d] /\ answer'[d] = answer[d]
    BY <1>1, ConsumeFacts
  <2>2. swallowed' = swallowed /\ swallowed[c] = <<>> /\ outcome[c] = "none"
    BY <1>1, <2>1 DEF Consume, Concluded
  <2>3. \A n \in ToSet(Tail(chan[c])) : m.id < n.id
    BY <2>1, IncreasingTail DEF Ordered
  <2>4. CASE Conclusive(c, m)
    <3>1. pc'[c] = "removing" /\ answer'[c] = m
      BY <1>1, <2>4, ConsumeFacts
    <3>2. \A n \in ToSet(chan'[c]) \cup ToSet(swallowed'[c]) : answer'[c].id < n.id
      BY <2>1, <2>2, <2>3, <3>1, ToSetEmpty
    <3>. QED  BY <2>1, <2>2, <3>1, <3>2
  <2>5. CASE ~Conclusive(c, m)
    <3>1. pc'[c] = "waiting" /\ outcome'[c] = "none"
      BY <1>1, <2>1, <2>2, <2>5, ConsumeFacts
    <3>. QED  BY <2>1, <2>2, <3>1
  <2>. QED  BY <2>4, <2>5
<1>2. ASSUME NEW c \in Calls,
             \/ Register(c) \/ SendCommand(c) \/ HandOver(c) \/ SendReturns(c)
             \/ SendFails(c) \/ TimeOut(c) \/ ChannelClosed(c)
      PROVE  Leftovers'
  BY <1>2 DEF Register, SendCommand, HandOver, SendReturns, SendFails, TimeOut,
     ChannelClosed, Conclude, history
<1>3. ASSUME NEW c \in Calls, Return(c) \/ Cancel(c)
      PROVE  Leftovers'
  <2>1. /\ Live(c) /\ pc'[c] \in {"returned", "cancelled"}
        /\ chan'[c] = <<>> /\ swallowed'[c] = chan[c]
        /\ UNCHANGED <<outcome, answer, given>>
        /\ \A d \in Calls \ {c} : /\ chan'[d] = chan[d] /\ pc'[d] = pc[d]
                                 /\ swallowed'[d] = swallowed[d]
    BY <1>3 DEF Return, Cancel, history
  <2>. QED  BY <2>1, ToSetEmpty DEF Sourced
<1>4. CASE Deliver
  <2>1. /\ target \in Calls /\ hand \in Message /\ hand \in InFlight /\ Live(target)
        /\ UNCHANGED <<pc, outcome, answer, swallowed>>
        /\ given' = [given EXCEPT ![target] = @ \cup {hand}]
        /\ chan' = [chan EXCEPT ![target] = Append(@, hand)]
    BY <1>4 DEF Deliver, Closed, HasRoom, Dispatching, InFlight, Held
  <2>2. ToSet(Append(chan[target], hand)) = ToSet(chan[target]) \cup {hand}
    BY <2>1, ToSetAppend
  <2>3. outcome[target] \in {"ok", "error"} => answer[target].id < hand.id
    BY <2>1 DEF AnswerIsFirstConclusive, Ordered, Settled, Given
  <2>. QED  BY <2>1, <2>2, <2>3
<1>5. CASE UNCHANGED <<pc, outcome, answer, chan, swallowed, given>>
  BY <1>5
<1>. QED  BY <1>1, <1>2, <1>3, <1>4, <1>5, AnswerMoves DEF CallStep, SendStep, WaitStep

-----------------------------------------------------------------------------
(***************************************************************************)
(* The refinement: each step of RemoteRuntime is one of CommandExchange or *)
(* leaves what CommandExchange speaks of alone.                            *)
(***************************************************************************)

\* The state functions the refinement substitutes.
PhaseMap == [c \in Calls |-> PhaseOf(c)]
AnswerMap == [c \in Calls |-> IF pc[c] = "returned" THEN answer[c] ELSE NoMessage]
ExecutedMap == {c \in Calls : wire[c] = "delivered"}

\* What the refinement needs to hold in a state.
Refinable == TypeOK /\ Dispatching /\ Started /\ Sourced /\ Apart /\ AnswerIsFirstConclusive /\ Concluded

\* The step of one call shows in the abstract state at that call only.
LEMMA OneCallMoves ==
  ASSUME TypeOK, NEW c \in Calls,
         \A d \in Calls \ {c} : pc'[d] = pc[d] /\ outcome'[d] = outcome[d] /\ answer'[d] = answer[d]
  PROVE  /\ PhaseMap' = [PhaseMap EXCEPT ![c] = PhaseOf(c)']
         /\ AnswerMap' = [AnswerMap EXCEPT ![c] = IF pc'[c] = "returned" THEN answer'[c] ELSE NoMessage]
<1>1. \A d \in Calls \ {c} : PhaseOf(d)' = PhaseOf(d)
  BY DEF PhaseOf, Live
<1>2. \A d \in Calls \ {c} :
        (IF pc'[d] = "returned" THEN answer'[d] ELSE NoMessage)
          = IF pc[d] = "returned" THEN answer[d] ELSE NoMessage
  OBVIOUS
<1>. QED  BY <1>1, <1>2 DEF PhaseMap, AnswerMap

\* So one that keeps the call live does not show.
LEMMA LiveStutters ==
  ASSUME TypeOK, NEW c \in Calls, Live(c), Live(c)',
         \A d \in Calls \ {c} : pc'[d] = pc[d] /\ outcome'[d] = outcome[d] /\ answer'[d] = answer[d]
  PROVE  PhaseMap' = PhaseMap /\ AnswerMap' = AnswerMap
<1>1. PhaseOf(c)' = PhaseMap[c] /\ pc[c] # "returned" /\ pc'[c] # "returned"
  BY DEF PhaseOf, Live, PhaseMap
<1>. QED  BY <1>1, OneCallMoves DEF PhaseMap, AnswerMap

\* The steps that leave the calls and the commands' journey alone.
LEMMA CallsUntouched ==
  ASSUME UNCHANGED <<pc, outcome, answer, wire>>
  PROVE  UNCHANGED <<PhaseMap, AnswerMap, ExecutedMap>>
<1>1. \A d \in Calls : PhaseOf(d)' = PhaseOf(d)
  BY DEF PhaseOf, Live
<1>. QED  BY <1>1 DEF PhaseMap, AnswerMap, ExecutedMap

\* A stutter of the state functions is one of the abstract specification.
LEMMA ExchangeStutters ==
  ASSUME UNCHANGED <<PhaseMap, AnswerMap, ExecutedMap, emitted, count>>
  PROVE  UNCHANGED Exchange!vars
BY DEF Exchange!vars, PhaseMap, AnswerMap, ExecutedMap

\* Return ends the call of the abstract specification: as its outcome says.
LEMMA ReturnRefines ==
  ASSUME Refinable, NEW c \in Calls, Return(c)
  PROVE  Exchange!CallStep(c)
<1>. USE DEF Refinable, TypeOK
<1>1. /\ pc[c] = "removing" /\ pc' = [pc EXCEPT ![c] = "returned"]
      /\ UNCHANGED <<outcome, answer, wire, count, emitted>>
  BY DEF Return, history
<1>2. /\ PhaseMap' = [PhaseMap EXCEPT ![c] = PhaseOf(c)']
      /\ AnswerMap' = [AnswerMap EXCEPT ![c] = answer[c]]
  BY <1>1, OneCallMoves
<1>3. PhaseMap[c] = "open" /\ ExecutedMap' = ExecutedMap
  BY <1>1 DEF PhaseMap, PhaseOf, Live, ExecutedMap
<1>4. CASE outcome[c] \in {"ok", "error"}
  <2>. DEFINE m == answer[c]
  <2>1. /\ m \in given[c] /\ Conclusive(c, m) /\ m # NoMessage
        /\ (outcome[c] = "error") <=> (m.kind = "error")
    BY <1>4, RuntimeAssumption DEF AnswerIsFirstConclusive
  <2>2. m \in emitted /\ m.ctx = ContextOf[c]
    BY <2>1 DEF Sourced
  <2>3. \A d \in Calls : AnswerMap[d] # m
    BY <1>1, <2>1 DEF AnswerMap, Sourced, Apart
  <2>4. PhaseOf(c)' = IF outcome[c] = "ok" THEN "ok" ELSE "refused"
    BY <1>1, <1>4 DEF PhaseOf, Live
  <2>5. Exchange!AnswerWith(c, m)
    BY <1>1, <1>2, <1>3, <2>2, <2>3 DEF Exchange!AnswerWith, PhaseMap, AnswerMap, ExecutedMap
  <2>6. CASE outcome[c] = "ok"
    <3>1. m.kind # "error" /\ Exchange!Terminal(c, m)
      BY <2>1, <2>6 DEF Conclusive, Terminal, Exchange!Terminal
    <3>2. PhaseMap' = [PhaseMap EXCEPT ![c] = "ok"]
      BY <1>2, <2>4, <2>6
    <3>3. Exchange!Succeed(c)
      BY <2>2, <2>5, <3>1, <3>2 DEF Exchange!Succeed, Exchange!AnswerWith, Exchange!Terminal, PhaseMap
    <3>. QED  BY <3>3 DEF Exchange!CallStep
  <2>7. CASE outcome[c] = "error"
    <3>1. PhaseMap' = [PhaseMap EXCEPT ![c] = "refused"]
      BY <1>2, <2>4, <2>7
    <3>2. Exchange!Refuse(c)
      BY <2>2, <2>5, <2>1, <2>7, <3>1 DEF Exchange!Refuse, Exchange!AnswerWith, PhaseMap
    <3>. QED  BY <3>2 DEF Exchange!CallStep
  <2>. QED  BY <1>4, <2>6, <2>7
<1>5. CASE outcome[c] \in {"sendError", "timeout", "closed"}
  <2>1. PhaseOf(c)' = "failed"
    BY <1>1, <1>5 DEF PhaseOf, Live
  <2>2. answer[c] = NoMessage
    BY <1>5 DEF Concluded
  <2>3. AnswerMap' = AnswerMap
    BY <1>1, <1>2, <2>2 DEF AnswerMap
  <2>4. Exchange!Fail(c)
    BY <1>1, <1>2, <1>3, <2>1, <2>3 DEF Exchange!Fail, PhaseMap, AnswerMap, ExecutedMap
  <2>. QED  BY <2>4 DEF Exchange!CallStep
<1>. QED  BY <1>1, <1>4, <1>5 DEF Concluded

\* The other steps of a call: they begin it, drop it or do not show.
LEMMA CallRefines ==
  ASSUME Refinable, NEW c \in Calls, CallStep(c)
  PROVE  Exchange!CallStep(c) \/ UNCHANGED Exchange!vars
<1>. USE DEF Refinable, TypeOK
<1>1. CASE Register(c)
  <2>1. /\ pc[c] = "idle" /\ pc' = [pc EXCEPT ![c] = "sending"]
        /\ UNCHANGED <<outcome, answer, wire, count, emitted>>
    BY <1>1 DEF Register, history
  <2>2. PhaseMap[c] = "idle" /\ PhaseOf(c)' = "open" /\ ExecutedMap' = ExecutedMap
    BY <2>1 DEF PhaseMap, PhaseOf, Live, ExecutedMap
  <2>3. PhaseMap' = [PhaseMap EXCEPT ![c] = "open"] /\ AnswerMap' = AnswerMap
    BY <2>1, <2>2, OneCallMoves DEF AnswerMap
  <2>4. Exchange!Submit(c)
    BY <2>1, <2>2, <2>3 DEF Exchange!Submit, PhaseMap, AnswerMap, ExecutedMap
  <2>. QED  BY <2>4 DEF Exchange!CallStep
<1>2. CASE SendCommand(c)
  <2>1. /\ pc[c] = "idle" /\ pc' = [pc EXCEPT ![c] = "returned"]
        /\ outcome' = [outcome EXCEPT ![c] = "posted"] /\ wire' = [wire EXCEPT ![c] = "queued"]
        /\ UNCHANGED <<answer, count, emitted>>
    BY <1>2 DEF SendCommand, history
  <2>2. answer[c] = NoMessage
    BY <2>1 DEF Concluded
  <2>3. PhaseMap[c] = "idle" /\ PhaseOf(c)' = "posted"
    BY <2>1 DEF PhaseMap, PhaseOf, Live
  <2>4. PhaseMap' = [PhaseMap EXCEPT ![c] = "posted"] /\ AnswerMap' = AnswerMap
    BY <2>1, <2>2, <2>3, OneCallMoves DEF AnswerMap
  <2>5. ExecutedMap' = ExecutedMap
    BY <2>1 DEF ExecutedMap, Started
  <2>6. Exchange!Post(c)
    BY <2>1, <2>3, <2>4, <2>5 DEF Exchange!Post, PhaseMap, AnswerMap, ExecutedMap
  <2>. QED  BY <2>6 DEF Exchange!CallStep
<1>3. CASE HandOver(c)
  <2>1. /\ wire[c] = "none" /\ wire' = [wire EXCEPT ![c] = "queued"]
        /\ UNCHANGED <<pc, outcome, answer, count, emitted>>
    BY <1>3 DEF HandOver, history
  <2>2. PhaseMap' = PhaseMap /\ AnswerMap' = AnswerMap
    <3>1. \A d \in Calls : PhaseOf(d)' = PhaseOf(d)
      BY <2>1 DEF PhaseOf, Live
    <3>. QED  BY <2>1, <3>1 DEF PhaseMap, AnswerMap
  <2>3. ExecutedMap' = ExecutedMap
    BY <2>1 DEF ExecutedMap
  <2>. QED  BY <2>1, <2>2, <2>3, ExchangeStutters
<1>4. CASE SendReturns(c) \/ SendFails(c) \/ TimeOut(c) \/ ChannelClosed(c)
  <2>1. /\ Live(c) /\ Live(c)' /\ UNCHANGED <<wire, count, emitted>>
        /\ \A d \in Calls \ {c} : pc'[d] = pc[d] /\ outcome'[d] = outcome[d] /\ answer'[d] = answer[d]
    BY <1>4 DEF SendReturns, SendFails, TimeOut, ChannelClosed, Conclude, Live, history
  <2>2. PhaseMap' = PhaseMap /\ AnswerMap' = AnswerMap
    BY <2>1, LiveStutters
  <2>. QED  BY <2>1, <2>2, ExchangeStutters DEF ExecutedMap
<1>5. CASE Consume(c)
  <2>1. /\ Live(c) /\ UNCHANGED <<wire, emitted, count>>
        /\ \A d \in Calls \ {c} : pc'[d] = pc[d] /\ outcome'[d] = outcome[d] /\ answer'[d] = answer[d]
    BY <1>5, ConsumeFacts DEF Live, Consume
  <2>2. Live(c)'
    BY <1>5 DEF Consume, Conclude, Live
  <2>3. PhaseMap' = PhaseMap /\ AnswerMap' = AnswerMap
    BY <2>1, <2>2, LiveStutters
  <2>. QED  BY <2>1, <2>3, ExchangeStutters DEF ExecutedMap
<1>6. CASE Return(c)
  BY <1>6, ReturnRefines
<1>7. CASE Cancel(c)
  <2>1. /\ Live(c) /\ pc' = [pc EXCEPT ![c] = "cancelled"]
        /\ UNCHANGED <<outcome, answer, wire, count, emitted>>
    BY <1>7 DEF Cancel, history
  <2>2. PhaseMap[c] = "open" /\ PhaseOf(c)' = "cancelled" /\ ExecutedMap' = ExecutedMap
    BY <2>1 DEF PhaseMap, PhaseOf, Live, ExecutedMap
  <2>3. PhaseMap' = [PhaseMap EXCEPT ![c] = "cancelled"] /\ AnswerMap' = AnswerMap
    BY <2>1, <2>2, OneCallMoves DEF AnswerMap, Live
  <2>4. Exchange!Cancel(c)
    BY <2>1, <2>2, <2>3 DEF Exchange!Cancel, PhaseMap, AnswerMap, ExecutedMap
  <2>. QED  BY <2>4 DEF Exchange!CallStep
<1>. QED  BY <1>1, <1>2, <1>3, <1>4, <1>5, <1>6, <1>7 DEF CallStep, SendStep, WaitStep

\* The device and the connection: a command is executed, an event is emitted,
\* or nothing shows.
LEMMA OtherRefines ==
  ASSUME Refinable, DispatchStep \/ AppStep \/ DeviceStep \/ UNCHANGED vars
  PROVE  Exchange!Next \/ UNCHANGED Exchange!vars
<1>. USE DEF Refinable, TypeOK
<1>1. CASE CloseConnection
  <2>1. /\ wire' = [c \in Calls |-> IF wire[c] = "queued" THEN "gone" ELSE wire[c]]
        /\ UNCHANGED <<pc, outcome, answer, count, emitted>>
    BY <1>1 DEF CloseConnection
  <2>2. ExecutedMap' = ExecutedMap
    BY <2>1 DEF ExecutedMap
  <2>3. PhaseMap' = PhaseMap /\ AnswerMap' = AnswerMap
    <3>1. \A d \in Calls : PhaseOf(d)' = PhaseOf(d)
      BY <2>1 DEF PhaseOf, Live
    <3>. QED  BY <2>1, <3>1 DEF PhaseMap, AnswerMap
  <2>. QED  BY <2>1, <2>2, <2>3, ExchangeStutters
<1>2. ASSUME NEW c \in Calls, Execute(c)
      PROVE  Exchange!Next
  <2>1. /\ wire[c] = "queued" /\ wire' = [wire EXCEPT ![c] = "delivered"]
        /\ UNCHANGED <<pc, outcome, answer, count, emitted>>
    BY <1>2 DEF Execute, history
  <2>2. pc[c] # "idle" /\ PhaseMap[c] # "idle"
    BY <2>1 DEF Started, PhaseMap, PhaseOf, Live
  <2>3. ExecutedMap' = ExecutedMap \cup {c}
    BY <2>1 DEF ExecutedMap
  <2>4. PhaseMap' = PhaseMap /\ AnswerMap' = AnswerMap
    <3>1. \A d \in Calls : PhaseOf(d)' = PhaseOf(d)
      BY <2>1 DEF PhaseOf, Live
    <3>. QED  BY <2>1, <3>1 DEF PhaseMap, AnswerMap
  <2>5. Exchange!Execute(c)
    BY <2>1, <2>2, <2>3, <2>4 DEF Exchange!Execute, PhaseMap, AnswerMap, ExecutedMap
  <2>. QED  BY <2>5 DEF Exchange!Next, Exchange!CallStep
<1>3. ASSUME NEW x \in Contexts \cup {NoContext}, NEW k \in DeviceKinds, Emit(x, k)
      PROVE  Exchange!Next
  <2>1. /\ emitted' = emitted \cup {[id |-> count + 1, ctx |-> x, kind |-> k]}
        /\ count' = count + 1 /\ UNCHANGED <<pc, outcome, answer, wire>>
        /\ x \in {ContextOf[c] : c \in {d \in Calls : wire[d] = "delivered"}} \cup {NoContext}
    BY <1>3 DEF Emit, Emits, callVars
  <2>2. UNCHANGED <<PhaseMap, AnswerMap, ExecutedMap>>
    BY <2>1, CallsUntouched
  <2>3. k \in Exchange!Kinds
    BY RuntimeAssumption DEF Kinds, Exchange!Kinds
  <2>4. Exchange!Emit
    BY <2>1, <2>2, <2>3 DEF Exchange!Emit, PhaseMap, AnswerMap, ExecutedMap
  <2>. QED  BY <2>4 DEF Exchange!Next
<1>4. CASE UNCHANGED <<pc, outcome, answer, wire, count, emitted>>
  BY <1>4, CallsUntouched, ExchangeStutters
<1>5. \/ CloseConnection \/ \E c \in Calls : Execute(c)
      \/ \E x \in Contexts \cup {NoContext}, k \in DeviceKinds : Emit(x, k)
      \/ UNCHANGED <<pc, outcome, answer, wire, count, emitted>>
  BY DEF DispatchStep, Recv, RecvFails, Lookup, Deliver, DeliverFails, Purge, Forward, AppStep,
     NextMessage, EnableLogging, OpenConnection, EnsureDispatchTask, StopDispatchTask,
     DeviceStep, ReaderEnds, vars, callVars, history
<1>. QED  BY <1>1, <1>2, <1>3, <1>4, <1>5

-----------------------------------------------------------------------------
(***************************************************************************)
(* With a context of its own for every call.                               *)
(***************************************************************************)

\* A live call is registered.
Registered == \A c \in Calls : Live(c) => c \in pending

\* With unique contexts no retain removes the registration of another live call.
LEMMA RegisteredStep ==
  ASSUME UniqueContexts, TypeOK, Dispatching, Registered, [Next]_vars
  PROVE  Registered'
<1>. USE DEF TypeOK, Live, vars, callVars, registry, dispVars, appVars,
              linkVars, history
<1>1. ASSUME NEW c \in Calls, Register(c)
       PROVE  Registered'
  BY <1>1 DEF Registered, Register
<1>2. ASSUME NEW c \in Calls, SendCommand(c)
       PROVE  Registered'
  BY <1>2 DEF Registered, SendCommand
<1>3. ASSUME NEW c \in Calls, HandOver(c)
       PROVE  Registered'
  BY <1>3 DEF Registered, HandOver
<1>4. ASSUME NEW c \in Calls, SendReturns(c)
       PROVE  Registered'
  BY <1>4 DEF Registered, SendReturns
<1>5. ASSUME NEW c \in Calls, SendFails(c)
       PROVE  Registered'
  BY <1>5 DEF Registered, SendFails, Conclude
<1>6. ASSUME NEW c \in Calls, Consume(c)
       PROVE  Registered'
  BY <1>6 DEF Registered, Consume, Conclude, EndsWith
<1>7. ASSUME NEW c \in Calls, TimeOut(c)
       PROVE  Registered'
  BY <1>7 DEF Registered, TimeOut, Conclude, Expires
<1>8. ASSUME NEW c \in Calls, ChannelClosed(c)
       PROVE  Registered'
  BY <1>8 DEF Registered, ChannelClosed, Conclude
<1>9. ASSUME NEW c \in Calls, Return(c)
       PROVE  Registered'
  <2>1. \A d \in Calls : d # c => ContextOf[d] # ContextOf[c]
    BY DEF UniqueContexts
  <2>. QED  BY <1>9, <2>1 DEF Return, Unregistered, WithoutContext, Registered
<1>10. ASSUME NEW c \in Calls, Cancel(c)
       PROVE  Registered'
  BY <1>10 DEF Registered, Cancel
<1>11. CASE Lookup
  BY <1>11 DEF Registered, Lookup, Closed
<1>12. CASE Purge
  <2>1. target \in Calls /\ ContextOf[target] = hand.ctx /\ ~Live(target)
    BY <1>12 DEF Purge, Dispatching
  <2>2. \A c \in Calls : Live(c) => ContextOf[c] # hand.ctx
    BY <2>1 DEF UniqueContexts
  <2>. QED  BY <1>12, <2>2 DEF Purge, WithoutContext, Registered
<1>13. CASE Recv \/ RecvFails \/ Deliver \/ DeliverFails \/ Forward
  BY <1>13 DEF Registered, Recv, RecvFails, Deliver, DeliverFails, Forward,
     Closed, HasRoom
<1>14. CASE AppStep
  BY <1>14 DEF Registered, AppStep, NextMessage, EnableLogging,
     OpenConnection, EnsureDispatchTask, StopDispatchTask, CloseConnection
<1>15. CASE DeviceStep
  BY <1>15 DEF Registered, DeviceStep, ReaderEnds, Execute, Emit, Emits
<1>16. CASE UNCHANGED vars
  BY <1>16 DEF Registered
<1>. QED
  BY <1>1, <1>2, <1>3, <1>4, <1>5, <1>6, <1>7, <1>8, <1>9, <1>10, <1>11,
     <1>12, <1>13, <1>14, <1>15, <1>16
     DEF Next, CallStep, SendStep, WaitStep, DispatchStep

\* An event on its way to next_message answers no live call, nor one that has
\* yet to start.
ForwardedIsLate ==
  disp = "forward" =>
    \A c \in Calls : ContextOf[c] = hand.ctx => pc[c] \in {"returned", "cancelled"}

\* The dispatch task decides to forward an event only when its call is over;
\* with Started and Solicited, that call cannot begin afterwards.
LEMMA ForwardedIsLateStep ==
  ASSUME UniqueContexts, TypeOK, Dispatching, Started, Solicited, Sourced, Registered, ForwardedIsLate, [Next]_vars
  PROVE  ForwardedIsLate'
<1>. USE DEF TypeOK, vars, callVars, registry, dispVars, appVars, linkVars,
              history
<1>1. ASSUME NEW c \in Calls, Register(c)
       PROVE  ForwardedIsLate'
  BY <1>1 DEF ForwardedIsLate, Register
<1>2. ASSUME NEW c \in Calls, SendCommand(c)
       PROVE  ForwardedIsLate'
  BY <1>2 DEF ForwardedIsLate, SendCommand
<1>3. ASSUME NEW c \in Calls, HandOver(c)
       PROVE  ForwardedIsLate'
  BY <1>3 DEF ForwardedIsLate, HandOver
<1>4. ASSUME NEW c \in Calls, SendReturns(c)
       PROVE  ForwardedIsLate'
  BY <1>4 DEF ForwardedIsLate, SendReturns
<1>5. ASSUME NEW c \in Calls, SendFails(c)
       PROVE  ForwardedIsLate'
  BY <1>5 DEF ForwardedIsLate, SendFails, Conclude
<1>6. ASSUME NEW c \in Calls, Consume(c)
       PROVE  ForwardedIsLate'
  BY <1>6 DEF ForwardedIsLate, Consume, Conclude, EndsWith
<1>7. ASSUME NEW c \in Calls, TimeOut(c)
       PROVE  ForwardedIsLate'
  BY <1>7 DEF ForwardedIsLate, TimeOut, Conclude, Expires
<1>8. ASSUME NEW c \in Calls, ChannelClosed(c)
       PROVE  ForwardedIsLate'
  BY <1>8 DEF ForwardedIsLate, ChannelClosed, Conclude
<1>9. ASSUME NEW c \in Calls, Return(c)
       PROVE  ForwardedIsLate'
  BY <1>9 DEF ForwardedIsLate, Return, Unregistered, WithoutContext
<1>10. ASSUME NEW c \in Calls, Cancel(c)
       PROVE  ForwardedIsLate'
  BY <1>10 DEF ForwardedIsLate, Cancel
<1>11. CASE Recv
  <2>1. hand' = Head(inbound) /\ (disp' = "forward" => hand'.ctx = NoContext)
    BY <1>11 DEF Recv
  <2>. QED  BY <2>1, RuntimeAssumption DEF ForwardedIsLate
<1>12. CASE RecvFails
  BY <1>12 DEF ForwardedIsLate, RecvFails
<1>13. CASE Lookup
  <2>. SUFFICES ASSUME disp' = "forward", NEW c \in Calls, ContextOf[c] = hand.ctx
                PROVE  pc[c] \in {"returned", "cancelled"}
    BY <1>13 DEF Lookup, ForwardedIsLate
  <2>1. ~Live(c)
    BY <1>13 DEF Lookup, Closed, Registered
  <2>2. hand \in emitted
    BY <1>13 DEF Lookup, Dispatching, Sourced, InFlight, Held
  <2>3. wire[c] = "delivered"
    BY <1>13, <2>2 DEF Lookup, Dispatching, Solicited, UniqueContexts
  <2>. QED  BY <2>1, <2>3 DEF Started, Live, CallStates
<1>14. CASE Deliver
  BY <1>14 DEF ForwardedIsLate, Deliver, Closed, HasRoom
<1>15. CASE Purge
  <2>1. /\ target \in Calls /\ ContextOf[target] = hand.ctx
        /\ pc[target] \in {"returned", "cancelled"}
    BY <1>15 DEF Purge, Dispatching, Live, CallStates
  <2>. QED  BY <1>15, <2>1 DEF Purge, ForwardedIsLate, UniqueContexts
<1>16. CASE Forward
  BY <1>16 DEF ForwardedIsLate, Forward
<1>17. CASE DeliverFails
  BY <1>17 DEF ForwardedIsLate, DeliverFails, Closed
<1>18. CASE EnsureDispatchTask
  BY <1>18 DEF ForwardedIsLate, EnsureDispatchTask
<1>19. CASE StopDispatchTask
  BY <1>19 DEF ForwardedIsLate, StopDispatchTask
<1>20. CASE NextMessage \/ EnableLogging \/ OpenConnection
              \/ CloseConnection
  BY <1>20 DEF ForwardedIsLate, NextMessage, EnableLogging, OpenConnection,
     CloseConnection
<1>21. CASE DeviceStep
  BY <1>21 DEF ForwardedIsLate, DeviceStep, ReaderEnds, Execute, Emit, Emits
<1>22. CASE UNCHANGED vars
  BY <1>22 DEF ForwardedIsLate
<1>. QED
  BY <1>1, <1>2, <1>3, <1>4, <1>5, <1>6, <1>7, <1>8, <1>9, <1>10, <1>11,
     <1>12, <1>13, <1>14, <1>15, <1>16, <1>17, <1>18, <1>19, <1>20, <1>21,
     <1>22
     DEF Next, CallStep, SendStep, WaitStep, DispatchStep, AppStep

\* Every event of a live call stays on its way to that call.
LEMMA ResponsesReachTheirCallStep ==
  ASSUME UniqueContexts, TypeOK, Dispatching, Started, Solicited, ForwardedIsLate, ResponsesReachTheirCall, [Next]_vars
  PROVE  ResponsesReachTheirCall'
<1>. USE DEF TypeOK, Live, InFlight, Held, vars, callVars, registry, dispVars,
              appVars, linkVars, history
<1>1. ASSUME NEW c \in Calls, Register(c)
       PROVE  ResponsesReachTheirCall'
  <2>1. \A m \in emitted : m.ctx # ContextOf[c]
    <3>. SUFFICES ASSUME NEW m \in emitted, m.ctx = ContextOf[c]
                  PROVE  FALSE
      OBVIOUS
    <3>1. ContextOf[c] # NoContext
      BY RuntimeAssumption
    <3>2. wire[c] = "delivered"
      BY <3>1 DEF Solicited, UniqueContexts
    <3>. QED  BY <1>1, <3>2 DEF Register, Started
  <2>. QED  BY <1>1, <2>1 DEF Register, ResponsesReachTheirCall
<1>2. ASSUME NEW c \in Calls, SendCommand(c)
       PROVE  ResponsesReachTheirCall'
  BY <1>2 DEF ResponsesReachTheirCall, SendCommand
<1>3. ASSUME NEW c \in Calls, HandOver(c)
       PROVE  ResponsesReachTheirCall'
  BY <1>3 DEF ResponsesReachTheirCall, HandOver
<1>4. ASSUME NEW c \in Calls, SendReturns(c)
       PROVE  ResponsesReachTheirCall'
  BY <1>4 DEF ResponsesReachTheirCall, SendReturns
<1>5. ASSUME NEW c \in Calls, SendFails(c)
       PROVE  ResponsesReachTheirCall'
  BY <1>5 DEF ResponsesReachTheirCall, SendFails, Conclude
<1>6. ASSUME NEW c \in Calls, Consume(c)
       PROVE  ResponsesReachTheirCall'
  <2>1. \A d \in Calls : Live(d)' => Live(d)
    BY <1>6 DEF Consume, Conclude, EndsWith
  <2>2. UNCHANGED <<emitted, inbound, hand, given, overflowed, lost>>
    BY <1>6 DEF Consume
  <2>. QED  BY <2>1, <2>2 DEF ResponsesReachTheirCall
<1>7. ASSUME NEW c \in Calls, TimeOut(c)
       PROVE  ResponsesReachTheirCall'
  BY <1>7 DEF ResponsesReachTheirCall, TimeOut, Conclude, Expires
<1>8. ASSUME NEW c \in Calls, ChannelClosed(c)
       PROVE  ResponsesReachTheirCall'
  BY <1>8 DEF ResponsesReachTheirCall, ChannelClosed, Conclude
<1>9. ASSUME NEW c \in Calls, Return(c)
       PROVE  ResponsesReachTheirCall'
  BY <1>9 DEF ResponsesReachTheirCall, Return, Unregistered, WithoutContext
<1>10. ASSUME NEW c \in Calls, Cancel(c)
       PROVE  ResponsesReachTheirCall'
  BY <1>10 DEF ResponsesReachTheirCall, Cancel
<1>11. CASE Recv
  <2>1. ToSet(inbound) = {Head(inbound)} \cup ToSet(Tail(inbound))
    BY <1>11, ToSetHeadTail DEF Recv
  <2>2. Head(inbound) \in Message
    BY <1>11 DEF Recv
  <2>3. InFlight \subseteq InFlight'
    BY <1>11, <2>1, <2>2, RuntimeAssumption DEF Recv, Dispatching
  <2>. QED  BY <1>11, <2>3 DEF Recv, ResponsesReachTheirCall
<1>12. CASE Deliver
  <2>1. target \in Calls /\ hand.ctx = ContextOf[target]
    BY <1>12 DEF Deliver, Closed, Dispatching
  <2>2. \A c \in Calls : \A m : m.ctx = ContextOf[c] /\ m \in InFlight \cup given[c]
                              => m \in InFlight' \cup given'[c]
    BY <1>12, <2>1 DEF Deliver, Closed, UniqueContexts
  <2>. QED  BY <1>12, <2>2 DEF Deliver, Closed, ResponsesReachTheirCall
<1>13. CASE Forward
  <2>1. \A c \in Calls : Live(c) => hand.ctx # ContextOf[c]
    BY <1>13 DEF Forward, ForwardedIsLate
  <2>. QED  BY <1>13, <2>1 DEF Forward, ResponsesReachTheirCall
<1>14. CASE RecvFails \/ Lookup \/ DeliverFails \/ Purge
  BY <1>14 DEF ResponsesReachTheirCall, RecvFails, Lookup, DeliverFails, Purge,
     Closed, WithoutContext
<1>15. CASE StopDispatchTask
  BY <1>15 DEF ResponsesReachTheirCall, StopDispatchTask
<1>16. CASE CloseConnection
  BY <1>16 DEF ResponsesReachTheirCall, CloseConnection
<1>17. CASE NextMessage \/ EnableLogging \/ OpenConnection
              \/ EnsureDispatchTask
  BY <1>17 DEF ResponsesReachTheirCall, NextMessage, EnableLogging, OpenConnection,
     EnsureDispatchTask
<1>18. ASSUME NEW x \in Contexts \cup {NoContext}, NEW k \in DeviceKinds, Emit(x, k)
       PROVE  ResponsesReachTheirCall'
  <2>. DEFINE m == [id |-> count + 1, ctx |-> x, kind |-> k]
  <2>1. m \in Message
    BY RuntimeAssumption DEF Message
  <2>2. /\ emitted' = emitted \cup {m}
        /\ \/ inbound' = Append(inbound, m) /\ overflowed' = overflowed
           \/ inbound' = inbound /\ overflowed' = overflowed \cup {m} /\ DropsWhenFull
        /\ UNCHANGED <<hand, given, lost, pc>>
    BY <1>18 DEF Emit, Emits
  <2>. HIDE DEF m
  <2>3. CASE inbound' = Append(inbound, m) /\ overflowed' = overflowed
    <3>1. inbound \in Seq(Message)
      OBVIOUS
    <3>2. ToSet(inbound') = ToSet(inbound) \cup {m}
      BY ONLY <2>1, <2>3, <3>1, ToSetAppend
    <3>. QED  BY <2>2, <2>3, <3>2 DEF ResponsesReachTheirCall
  <2>4. CASE inbound' = inbound /\ overflowed' = overflowed \cup {m} /\ DropsWhenFull
    BY <2>2, <2>4 DEF ResponsesReachTheirCall
  <2>. QED  BY <2>2, <2>3, <2>4
<1>19. ASSUME NEW c \in Calls, Execute(c)
       PROVE  ResponsesReachTheirCall'
  BY <1>19 DEF ResponsesReachTheirCall, Execute
<1>20. CASE ReaderEnds
  BY <1>20 DEF ResponsesReachTheirCall, ReaderEnds
<1>21. CASE UNCHANGED vars
  BY <1>21 DEF ResponsesReachTheirCall
<1>. QED
  BY <1>1, <1>2, <1>3, <1>4, <1>5, <1>6, <1>7, <1>8, <1>9, <1>10, <1>11,
     <1>12, <1>13, <1>14, <1>15, <1>16, <1>17, <1>18, <1>19, <1>20, <1>21
     DEF Next, CallStep, SendStep, WaitStep, DispatchStep, AppStep, DeviceStep

\* A registered call has a sender, so its channel does not close.
LEMMA NeverClosedStep ==
  ASSUME TypeOK, Registered, NeverClosed, [Next]_vars
  PROVE  NeverClosed'
<1>. USE DEF TypeOK, Live, vars, callVars, registry, dispVars, appVars,
              linkVars, history
<1>1. ASSUME NEW c \in Calls, Register(c)
       PROVE  NeverClosed'
  BY <1>1 DEF NeverClosed, Register
<1>2. ASSUME NEW c \in Calls, SendCommand(c)
       PROVE  NeverClosed'
  BY <1>2 DEF NeverClosed, SendCommand
<1>3. ASSUME NEW c \in Calls, HandOver(c)
       PROVE  NeverClosed'
  BY <1>3 DEF NeverClosed, HandOver
<1>4. ASSUME NEW c \in Calls, SendReturns(c)
       PROVE  NeverClosed'
  BY <1>4 DEF NeverClosed, SendReturns
<1>5. ASSUME NEW c \in Calls, SendFails(c)
       PROVE  NeverClosed'
  BY <1>5 DEF NeverClosed, SendFails, Conclude
<1>6. ASSUME NEW c \in Calls, Consume(c)
       PROVE  NeverClosed'
  BY <1>6 DEF NeverClosed, Consume, Conclude, EndsWith
<1>7. ASSUME NEW c \in Calls, TimeOut(c)
       PROVE  NeverClosed'
  BY <1>7 DEF NeverClosed, TimeOut, Conclude, Expires
<1>8. ASSUME NEW c \in Calls, ChannelClosed(c)
       PROVE  NeverClosed'
  BY <1>8 DEF ChannelClosed, Registered
<1>9. ASSUME NEW c \in Calls, Return(c)
       PROVE  NeverClosed'
  BY <1>9 DEF NeverClosed, Return, Unregistered, WithoutContext
<1>10. ASSUME NEW c \in Calls, Cancel(c)
       PROVE  NeverClosed'
  BY <1>10 DEF NeverClosed, Cancel
<1>11. CASE DispatchStep
  BY <1>11 DEF NeverClosed, DispatchStep, Recv, RecvFails, Lookup, Deliver,
     DeliverFails, Purge, Forward, Closed, HasRoom, WithoutContext
<1>12. CASE AppStep
  BY <1>12 DEF NeverClosed, AppStep, NextMessage, EnableLogging,
     OpenConnection, EnsureDispatchTask, StopDispatchTask, CloseConnection
<1>13. CASE DeviceStep
  BY <1>13 DEF NeverClosed, DeviceStep, ReaderEnds, Execute, Emit, Emits
<1>14. CASE UNCHANGED vars
  BY <1>14 DEF NeverClosed
<1>. QED
  BY <1>1, <1>2, <1>3, <1>4, <1>5, <1>6, <1>7, <1>8, <1>9, <1>10, <1>11,
     <1>12, <1>13, <1>14
     DEF Next, CallStep, SendStep, WaitStep

-----------------------------------------------------------------------------
(***************************************************************************)
(* Theorems                                                                *)
(***************************************************************************)

\* The part of the inductive invariant that needs no unique contexts.
Basic == TypeOK /\ Dispatching /\ Started /\ Solicited /\ Sourced /\ NothingLeaks

\* Basic is an invariant.
LEMMA BasicInductive == Spec => []Basic
<1>1. Init => Basic
  <2>. SUFFICES ASSUME Init PROVE Basic
    OBVIOUS
  <2>1. TypeOK
    <3>1. /\ <<>> \in Seq(Message) /\ Len(<<>>) = 0
          /\ 0 <= Buffer /\ 0 <= UnmatchedCap /\ 0 <= TransportCap
      BY RuntimeAssumption
    <3>2. /\ chan \in [Calls -> Seq(Message)]
          /\ \A c \in Calls : Len(chan[c]) <= Buffer
      BY <3>1 DEF Init
    <3>. QED  BY <3>1, <3>2 DEF Init, TypeOK, CallStates, Outcomes, DispatcherStates
  <2>2. Dispatching /\ Started /\ NothingLeaks
    BY DEF Init, Dispatching, Started, NothingLeaks
  <2>3. Solicited /\ Sourced
    BY ToSetEmpty DEF Init, Solicited, Sourced, InFlight, Held
  <2>. QED  BY <2>1, <2>2, <2>3 DEF Basic
<1>2. Basic /\ [Next]_vars => Basic'
  BY TypeStep, DispatchingStep, StartedStep, SolicitedStep, SourcedStep,
     NothingLeaksStep DEF Basic
<1>. QED  BY <1>1, <1>2, PTL DEF Spec

\* Type correctness, the bounds of the three channels included.
THEOREM TypeCorrect == Spec => []TypeOK
BY BasicInductive, PTL DEF Basic

\* No path of execute_command_with_timeout_until leaves a registration behind,
\* even when calls share a context: only cancelled calls wait to be purged.
THEOREM NoRegistrationLeaks == Spec => []NothingLeaks
BY BasicInductive, PTL DEF Basic

\* The fates of events, as an invariant.
LEMMA FatesInductive == Spec => []Fates
<1>1. Init => Fates
  <2>. SUFFICES ASSUME Init PROVE Fates
    OBVIOUS
  <2>1. InFlight = {} /\ Settled = {} /\ Given = {} /\ Gone = {} /\ emitted = {}
    BY ToSetEmpty DEF Init, InFlight, Held, Settled, Given, Gone
  <2>2. Ordered
    BY <2>1, ToSetEmpty DEF Init, Ordered, Increasing, Held
  <2>3. Apart /\ Accounted
    BY <2>1 DEF Init, Apart, Accounted, Gone
  <2>. QED  BY <2>2, <2>3 DEF Fates
<1>2. Basic /\ Fates /\ [Next]_vars => Fates'
  BY OrderedStep, ApartStep, AccountedStep DEF Basic, Fates
<1>. QED  BY <1>1, <1>2, BasicInductive, PTL DEF Spec

\* A response channel, and next_message, get events in the order the device
\* emitted them, connect after disconnect too: one dispatch task takes them
\* from one channel, and what it loses it never delivers later.
THEOREM EventsArriveInOrder == Spec => DeliveredInOrder
<1>. DEFINE Order ==
       /\ \A c \in Calls : \A m \in given[c]' \ given[c], n \in given[c] : n.id < m.id
       /\ \A m \in forwarded' \ forwarded, n \in forwarded : n.id < m.id
<1>1. Basic /\ Fates /\ [Next]_vars => Order
  <2>. SUFFICES ASSUME Basic, Fates, [Next]_vars
                PROVE  Order
    OBVIOUS
  <2>. USE DEF Basic, TypeOK
  <2>1. \A n \in Settled, m \in Held : n.id < m.id
    BY DEF Fates, Ordered, InFlight
  <2>2. CASE Deliver
    <3>1. /\ target \in Calls /\ given' = [given EXCEPT ![target] = @ \cup {hand}]
          /\ forwarded' = forwarded /\ hand \in Held
      BY <2>2 DEF Deliver, Closed, HasRoom, Dispatching, Held
    <3>. QED  BY <2>1, <3>1 DEF Settled, Given
  <2>3. CASE Forward
    <3>1. forwarded' \subseteq forwarded \cup {hand} /\ given' = given /\ hand \in Held
      BY <2>3 DEF Forward, Dispatching, Held
    <3>. QED  BY <2>1, <3>1 DEF Settled
  <2>4. CASE UNCHANGED <<given, forwarded>>
    BY <2>4
  <2>5. Deliver \/ Forward \/ UNCHANGED <<given, forwarded>>
    BY EventMoves DEF Recv, StopDispatchTask, CloseConnection, Emit, Emits, history
  <2>. QED  BY <2>2, <2>3, <2>4, <2>5
<1>. QED  BY <1>1, BasicInductive, FatesInductive, PTL DEF Spec, DeliveredInOrder

\* The invariant of the answers.
Answering == Unread /\ AnswerIsFirstConclusive /\ Concluded /\ Leftovers

LEMMA AnsweringInductive == Spec => []Answering
<1>1. Init => Answering
  BY ToSetEmpty DEF Init, Answering, Unread, AnswerIsFirstConclusive, Concluded, Leftovers, Live
<1>2. Basic /\ Fates /\ Answering /\ [Next]_vars => Answering'
  BY UnreadStep, AnswerStep, ConcludedStep, LeftoversStep DEF Basic, Fates, Answering
<1>. QED  BY <1>1, <1>2, BasicInductive, FatesInductive, PTL DEF Spec

\* Every event the device emitted is in exactly one place: none
\* reaches two calls or a call and next_message (message_dispatch_task and
\* forward_unmatched_message), and a call takes down with it only what its
\* channel still held, whatever disconnects and full channels do.
THEOREM EventsHaveOneFate == Spec => []OneFate
<1>1. Basic /\ Fates /\ Answering => OneFate
  <2>. SUFFICES ASSUME Basic, Fates, Answering
                PROVE  OneFate
    OBVIOUS
  <2>. DEFINE places == <<ToSet(inbound), Held, Given, forwarded, logged, dropped, overflowed, lost>>
  <2>1. emitted = InFlight \cup Given \cup forwarded \cup logged \cup dropped
                     \cup overflowed \cup lost
    BY DEF Fates, Accounted, Settled, Gone
  <2>2. \A c, d \in Calls : c # d => given[c] \cap given[d] = {}
    BY DEF Fates, Apart
  <2>3. \A m \in InFlight : m.id \in Nat
    BY DEF Basic, TypeOK, Sourced, Message
  <2>4. InFlight \cap Settled = {}
    BY <2>3 DEF Fates, Ordered
  <2>5. Held \cap ToSet(inbound) = {}
    BY <2>3 DEF Fates, Ordered, InFlight
  <2>6. \A i, j \in DOMAIN places : i # j => places[i] \cap places[j] = {}
    <3>1. /\ InFlight = ToSet(inbound) \cup Held
          /\ Settled = Given \cup forwarded \cup logged \cup dropped
      BY DEF InFlight, Settled
    <3>2. \A i, j \in 1 .. 8 : i < j => places[i] \cap places[j] = {}
      BY <2>4, <2>5, <3>1 DEF Fates, Apart, Gone
    <3>. QED  BY <3>2
  <2>7. ASSUME NEW c \in Calls
        PROVE  /\ ToSet(chan[c]) \cup ToSet(swallowed[c]) \subseteq given[c]
               /\ IF Live(c) THEN swallowed[c] = <<>> ELSE chan[c] = <<>>
               /\ outcome[c] \in {"ok", "error"} =>
                    \A m \in ToSet(swallowed[c]) : answer[c].id < m.id
    BY DEF Basic, Sourced, Answering, Leftovers
  <2>. QED  BY <2>1, <2>2, <2>6, <2>7 DEF OneFate
<1>. QED  BY <1>1, BasicInductive, FatesInductive, AnsweringInductive, PTL

\* A call returns the first event that ends it, as Ok or as Err by its kind,
\* and passes over none while it waits
\* (execute_command_with_timeout_until, its wait loop).
THEOREM FirstConclusiveAnswer == Spec => []AnswerIsFirstConclusive
BY AnsweringInductive, PTL DEF Answering

\* RemoteRuntime keeps what CommandExchange promises: every call ends once,
\* with an event emitted for its context that answers no other call, or with a
\* failure, even when calls share a context.
THEOREM RuntimeImplementsExchange == Spec => ImplementsExchange
<1>1. Init => Exchange!Init
  BY DEF Init, Exchange!Init, PhaseOf, Live
<1>2. Basic /\ Fates /\ Answering => Refinable
  BY DEF Basic, Fates, Answering, Refinable
<1>3. Refinable /\ [Next]_vars => [Exchange!Next]_(Exchange!vars)
  BY CallRefines, OtherRefines DEF Next, Exchange!Next
<1>. QED
  BY <1>1, <1>2, <1>3, BasicInductive, FatesInductive, AnsweringInductive, PTL
     DEF Spec, ImplementsExchange, Exchange!Spec

\* The inductive invariant for calls with a context each.
Exclusive == Basic /\ Registered /\ ForwardedIsLate /\ ResponsesReachTheirCall /\ NeverClosed

\* Exclusive is an invariant when calls do not share contexts.
LEMMA ExclusiveInductive ==
  ASSUME UniqueContexts
  PROVE  Spec => []Exclusive
<1>1. Init => Registered /\ ForwardedIsLate /\ ResponsesReachTheirCall /\ NeverClosed
  BY DEF Init, Registered, ForwardedIsLate, ResponsesReachTheirCall, NeverClosed, Live
<1>2. Exclusive /\ [Next]_vars => Registered' /\ ForwardedIsLate'
                                  /\ ResponsesReachTheirCall' /\ NeverClosed'
  BY RegisteredStep, ForwardedIsLateStep, ResponsesReachTheirCallStep, NeverClosedStep
     DEF Exclusive, Basic
<1>3. Spec => []Basic
  BY BasicInductive
<1>. QED  BY <1>1, <1>2, <1>3, PTL DEF Spec, Exclusive

\* No event for a call that is not over is forwarded, dropped by the dispatch
\* task or swallowed: what is missing was lost in the transport, by disconnect
\* or by a USB reader with a full receive channel.
THEOREM ResponsesAreNotMissed ==
  ASSUME UniqueContexts
  PROVE  Spec => []ResponsesReachTheirCall
BY ExclusiveInductive, PTL DEF Exclusive

\* The registry is exact, so its linear search and its size mean something.
THEOREM RegistryIsExact ==
  ASSUME UniqueContexts
  PROVE  Spec => []RegistryMatchesCalls
<1>1. Exclusive => RegistryMatchesCalls
  BY DEF Exclusive, Basic, Registered, NothingLeaks, RegistryMatchesCalls
<1>. QED  BY <1>1, ExclusiveInductive, PTL

\* The "command response channel closed" error is unreachable.
THEOREM ChannelNeverClosed ==
  ASSUME UniqueContexts
  PROVE  Spec => []NeverClosed
BY ExclusiveInductive, PTL DEF Exclusive

\* The events a call is given, and the one it ends with, answer its own
\* command, which the device has received.
THEOREM AnswersAreCaused ==
  ASSUME UniqueContexts
  PROVE  Spec => []AnsweredMeansExecuted
<1>1. Exclusive => AnsweredMeansExecuted
  <2>. SUFFICES ASSUME Exclusive, NEW c \in Calls, NEW m \in given[c]
                PROVE  wire[c] = "delivered"
    BY DEF AnsweredMeansExecuted, Exclusive, Basic, Sourced
  <2>1. m \in emitted /\ m.ctx = ContextOf[c]
    BY DEF Exclusive, Basic, Sourced
  <2>2. ContextOf[c] # NoContext
    BY RuntimeAssumption
  <2>. QED  BY <2>1, <2>2 DEF Exclusive, Basic, Solicited, UniqueContexts
<1>. QED  BY <1>1, ExclusiveInductive, PTL

=============================================================================
