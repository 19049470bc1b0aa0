---------------------------- MODULE ResourceProofs -----------------------------
(***************************************************************************)
(* What clients do with the resources of a device.  A transition reported  *)
(* as ended has ended, whatever the number of calls, fixtures and          *)
(* transitions; the samples of a download are complete, whatever their     *)
(* number; and a device is listed in order and each part as a whole,       *)
(* whatever it is made of.                                                 *)
(***************************************************************************)
EXTENDS FixtureTransition, RemoteResources, FiniteSetTheorems, SequenceTheorems, TLAPS

(***************************************************************************)
(* Transitions                                                             *)
(***************************************************************************)

\* The device has nothing more to do for the call.
Over(c) == call[c].stage # "new" /\ c \notin queued /\ \A f \in Fixtures : running[f] # c

\* What the device has not begun it has said nothing of; a command is sent
\* once, and a transition that runs has not reached its target.
BegunOnce ==
  \A c \in Calls :
    /\ call[c].stage = "new" \/ c \in queued =>
         events[c] = <<>> /\ c \notin completed /\ \A f \in Fixtures : running[f] # c
    /\ call[c].stage = "new" => c \notin queued
    /\ \A f \in Fixtures : running[f] = c => c \notin completed

Reached(c) == IF c \in completed THEN "target" ELSE "cut"

\* An end the call will take, before it has looked at it, is the end of its
\* transition and says how far it got.
EndsAreTrue ==
  \A c \in Calls : \A i \in 1 .. Len(events[c]) :
    events[c][i].kind = "end" => Over(c) /\ events[c][i].state = Reached(c)

\* A call's transition runs on the fixture it is for.
RunsHere == \A c \in Calls, f \in Fixtures : running[f] = c => call[c].fixture = f

TransitionInv == TransitionTypeOK /\ BegunOnce /\ RunsHere /\ EndsAreTrue /\ OkTellsTheEnd

Stages == {"new", "waiting"} \cup TransitionEnds
CallRecord == [stage : Stages, fixture : Fixtures, final : FixtureStates \cup {"none"}]

\* An appended event is the last, and the ones before it stay.
LEMMA Appended ==
  ASSUME NEW q \in Seq(TransitionEvent), NEW e \in TransitionEvent
  PROVE  /\ Append(q, e) \in Seq(TransitionEvent)
         /\ \A i \in 1 .. Len(Append(q, e)) : Append(q, e)[i] = e \/ (i \in 1 .. Len(q) /\ Append(q, e)[i] = q[i])
OBVIOUS

\* A fresh application has called nothing.
LEMMA FixtureInit == TransitionInit => TransitionInv
<1>. SUFFICES ASSUME TransitionInit PROVE TransitionInv
  OBVIOUS
<1>1. TransitionTypeOK
  BY FixtureTransitionAssumption DEF TransitionInit, TransitionTypeOK
<1>2. \A c \in Calls : call[c].stage = "new" /\ events[c] = <<>>
  BY DEF TransitionInit
<1>3. BegunOnce
  BY <1>2, FixtureTransitionAssumption DEF TransitionInit, BegunOnce
<1>4. EndsAreTrue
  BY <1>2 DEF EndsAreTrue
<1>5. OkTellsTheEnd
  BY <1>2 DEF OkTellsTheEnd
<1>6. RunsHere
  BY FixtureTransitionAssumption DEF TransitionInit, RunsHere
<1>. QED  BY <1>1, <1>3, <1>4, <1>5, <1>6 DEF TransitionInv

\* What is over stays so, with what is known of its end.
StaysOver ==
  \A c \in Calls : Over(c) => Over(c)' /\ (c \in completed' <=> c \in completed)

\* Events that grow by true ends only keep EndsAreTrue.
LEMMA EventsGrow ==
  ASSUME TransitionInv, StaysOver,
         \A c \in Calls :
           \/ events'[c] = events[c]
           \/ \E e \in TransitionEvent :
                /\ events'[c] = Append(events[c], e)
                /\ e.kind = "end" => Over(c)' /\ e.state = Reached(c)'
  PROVE  EndsAreTrue'
<1>. SUFFICES ASSUME NEW c \in Calls, NEW i \in 1 .. Len(events'[c]), events'[c][i].kind = "end"
              PROVE  Over(c)' /\ events'[c][i].state = Reached(c)'
  BY DEF EndsAreTrue
<1>1. events[c] \in Seq(TransitionEvent)
  BY DEF TransitionInv, TransitionTypeOK
<1>2. ASSUME i \in 1 .. Len(events[c]), events'[c][i] = events[c][i]
      PROVE  Over(c)' /\ events'[c][i].state = Reached(c)'
  <2>1. Over(c) /\ events[c][i].state = Reached(c)
    BY <1>2 DEF TransitionInv, EndsAreTrue
  <2>. QED  BY <1>2, <2>1 DEF StaysOver, Reached
<1>3. CASE events'[c] = events[c]
  BY <1>2, <1>3
<1>4. ASSUME NEW e \in TransitionEvent, events'[c] = Append(events[c], e),
             e.kind = "end" => Over(c)' /\ e.state = Reached(c)'
      PROVE  Over(c)' /\ events'[c][i].state = Reached(c)'
  <2>1. CASE events'[c][i] = e
    BY <1>4, <2>1
  <2>2. CASE i \in 1 .. Len(events[c]) /\ events'[c][i] = events[c][i]
    BY <1>2, <2>2
  <2>. QED  BY <1>1, <1>4, <2>1, <2>2, Appended
<1>. QED  BY <1>3, <1>4

\* A call that has returned a state is over: it stays as it is.
LEMMA OkStays ==
  ASSUME TransitionInv, StaysOver, \A c \in Calls : call[c].stage = "ok" => call'[c] = call[c],
         NEW x \in Calls, call[x].stage = "ok"
  PROVE  /\ x \notin queued' /\ \A f \in Fixtures : running'[f] # x
         /\ call'[x].final = Reached(x)'
<1>1. Over(x) /\ call[x].final = Reached(x)
  BY DEF TransitionInv, OkTellsTheEnd, Over, Reached
<1>. QED  BY <1>1 DEF StaysOver, Over, Reached

\* A call is made: it has no events and no transition yet.
LEMMA CallStep ==
  ASSUME TransitionInv, NEW c \in Calls, CallTransition(c) PROVE TransitionInv'
<1>1. PICK f \in Fixtures, stage \in {"waiting", "error"} :
        call' = [call EXCEPT ![c].stage = stage, ![c].fixture = f]
  BY DEF CallTransition
<1>2. /\ call[c].stage = "new" /\ queued' \in {queued, queued \cup {c}}
      /\ UNCHANGED <<events, running, completed>>
  BY DEF CallTransition
<1>3. events[c] = <<>> /\ c \notin completed /\ \A g \in Fixtures : running[g] # c
  BY <1>2 DEF TransitionInv, BegunOnce
<1>4. /\ call' \in [Calls -> CallRecord] /\ call'[c].stage = stage
      /\ \A d \in Calls \ {c} : call'[d] = call[d]
  BY <1>1 DEF TransitionInv, TransitionTypeOK, CallRecord, Stages, TransitionEnds
<1>5. TransitionTypeOK'
  BY <1>2, <1>4 DEF TransitionInv, TransitionTypeOK, CallRecord, Stages
<1>6. BegunOnce'
  BY <1>2, <1>3, <1>4 DEF TransitionInv, BegunOnce
<1>7. StaysOver
  BY <1>2, <1>4 DEF StaysOver, Over
<1>8. EndsAreTrue'
  BY <1>2, <1>7, EventsGrow
<1>9. OkTellsTheEnd'
  <2>. SUFFICES ASSUME NEW x \in Calls, call'[x].stage = "ok"
                PROVE  /\ x \notin queued' /\ \A g \in Fixtures : running'[g] # x
                       /\ call'[x].final = Reached(x)'
    BY DEF OkTellsTheEnd, Reached
  <2>1. x # c /\ call[x].stage = "ok"
    BY <1>4
  <2>2. \A y \in Calls : call[y].stage = "ok" => call'[y] = call[y]
    BY <1>2, <1>4
  <2>. QED  BY <1>7, <2>1, <2>2, OkStays
<1>10. RunsHere'
  BY <1>2, <1>3, <1>4 DEF TransitionInv, RunsHere
<1>. QED  BY <1>5, <1>6, <1>8, <1>9, <1>10 DEF TransitionInv

\* The calls are as they were: what they returned still holds.
LEMMA ReturnsStay ==
  ASSUME TransitionInv, StaysOver, call' = call PROVE OkTellsTheEnd'
<1>. SUFFICES ASSUME NEW x \in Calls, call[x].stage = "ok"
              PROVE  /\ x \notin queued' /\ \A g \in Fixtures : running'[g] # x
                     /\ call'[x].final = Reached(x)'
  BY DEF OkTellsTheEnd, Reached
<1>. QED  BY OkStays

\* The device begins: the call it interrupts, if any, is another one, and is
\* over now.
LEMMA BeginsStep ==
  ASSUME TransitionInv, NEW c \in Calls, Begins(c) PROVE TransitionInv'
<1>. DEFINE f == call[c].fixture
            d == running[f]
            said(kind) == [kind |-> kind, state |-> "cut", resource |-> f]
<1>1. /\ f \in Fixtures /\ d \in Calls \cup {NoTransition}
      /\ \A x \in Calls : events[x] \in Seq(TransitionEvent)
      /\ c \in queued /\ queued' = queued \ {c}
      /\ running' = [running EXCEPT ![f] = c] /\ UNCHANGED <<call, completed>>
  BY DEF TransitionInv, TransitionTypeOK, Begins
<1>2. /\ d # c /\ events[c] = <<>> /\ c \notin completed /\ \A g \in Fixtures : running[g] # c
      /\ call[c].stage # "new"
  BY <1>1 DEF TransitionInv, BegunOnce
<1>3. \A kind \in {"start", "end", "error", "other"} : said(kind) \in TransitionEvent
  BY <1>1 DEF TransitionEvent, FixtureStates
<1>4. /\ events'[c] = Append(events[c], said("start"))
      /\ \A x \in Calls \ {c} :
           \/ events'[x] = events[x]
           \/ /\ x = d
              /\ \E kind \in {"end", "error", "other"} : events'[x] = Append(events[x], said(kind))
      /\ events' \in [Calls -> Seq(TransitionEvent)]
  <2>1. CASE events' = [events EXCEPT ![c] = Emit(c, "start", "cut", f)]
    <3>1. events' = [events EXCEPT ![c] = Append(events[c], said("start"))]
      BY <2>1 DEF Emit
    <3>. HIDE DEF said
    <3>. QED  BY <1>1, <1>3, <3>1, Appended DEF TransitionInv, TransitionTypeOK
  <2>2. ASSUME NEW kind \in {"end", "error", "other"}, d # NoTransition,
               events' = [events EXCEPT ![c] = Emit(c, "start", "cut", f), ![d] = Emit(d, kind, "cut", f)]
        PROVE  /\ events'[c] = Append(events[c], said("start"))
               /\ \A x \in Calls \ {c} :
                    \/ events'[x] = events[x]
                    \/ x = d /\ events'[x] = Append(events[x], said(kind))
               /\ events' \in [Calls -> Seq(TransitionEvent)]
    <3>1. events' = [events EXCEPT ![c] = Append(events[c], said("start")),
                                   ![d] = Append(events[d], said(kind))]
      BY <2>2 DEF Emit
    <3>2. d \in Calls
      BY <1>1, <2>2
    <3>. HIDE DEF said, d, f
    <3>. QED  BY <1>1, <1>2, <1>3, <3>1, <3>2, Appended DEF TransitionInv, TransitionTypeOK
  <2>3. \/ events' = [events EXCEPT ![c] = Emit(c, "start", "cut", f)]
        \/ /\ d # NoTransition
           /\ \E kind \in {"end", "error", "other"} :
                events' = [events EXCEPT ![c] = Emit(c, "start", "cut", f),
                                         ![d] = Emit(d, kind, "cut", f)]
    BY DEF Begins
  <2>. QED  BY <2>1, <2>2, <2>3
<1>5. TransitionTypeOK'
  BY <1>1, <1>4 DEF TransitionInv, TransitionTypeOK
<1>6. StaysOver
  <2>. SUFFICES ASSUME NEW x \in Calls, Over(x)
                PROVE  Over(x)'
    BY <1>1 DEF StaysOver
  <2>1. x # c
    BY <1>1 DEF Over
  <2>. QED  BY <1>1, <2>1 DEF Over, TransitionInv, TransitionTypeOK
<1>7. BegunOnce'
  <2>. SUFFICES ASSUME NEW x \in Calls
                PROVE  /\ call[x].stage = "new" \/ x \in queued' =>
                            events'[x] = <<>> /\ x \notin completed /\ \A g \in Fixtures : running'[g] # x
                       /\ call[x].stage = "new" => x \notin queued'
                       /\ \A g \in Fixtures : running'[g] = x => x \notin completed
    BY <1>1 DEF BegunOnce
  <2>1. CASE x = c
    BY <1>1, <1>2, <2>1
  <2>2. CASE x # c
    <3>1. \A g \in Fixtures : running'[g] = x => running[g] = x
      BY <1>1, <2>2 DEF TransitionInv, TransitionTypeOK
    <3>2. call[x].stage = "new" \/ x \in queued => events'[x] = events[x]
      BY <1>1, <1>4, <2>2 DEF TransitionInv, BegunOnce
    <3>. QED  BY <1>1, <3>1, <3>2 DEF TransitionInv, BegunOnce
  <2>. QED  BY <2>1, <2>2
<1>8. EndsAreTrue'
  <2>1. ASSUME NEW x \in Calls
        PROVE  \/ events'[x] = events[x]
               \/ \E e \in TransitionEvent :
                    /\ events'[x] = Append(events[x], e)
                    /\ e.kind = "end" => Over(x)' /\ e.state = Reached(x)'
    <3>1. CASE x = c
      BY <1>3, <1>4, <3>1
    <3>2. ASSUME x = d, x # c, NEW kind \in {"end", "error", "other"},
                 events'[x] = Append(events[x], said(kind))
          PROVE  /\ events'[x] = Append(events[x], said(kind)) /\ said(kind) \in TransitionEvent
                 /\ Over(x)' /\ said(kind).state = Reached(x)'
      <4>1. x \notin completed /\ call[x].stage # "new" /\ x \notin queued
        BY <1>1, <3>2 DEF TransitionInv, BegunOnce
      <4>2. \A g \in Fixtures : running'[g] # x
        <5>. SUFFICES ASSUME NEW g \in Fixtures, running'[g] = x PROVE FALSE
          OBVIOUS
        <5>1. g # f /\ running[g] = x
          BY <1>1, <3>2 DEF TransitionInv, TransitionTypeOK
        <5>. QED  BY <1>1, <3>2, <5>1 DEF TransitionInv, RunsHere
      <4>. QED  BY <1>1, <1>3, <3>2, <4>1, <4>2 DEF Over, Reached
    <3>3. CASE x # c
      BY <1>4, <3>2, <3>3
    <3>. QED  BY <3>1, <3>3
  <2>. QED  BY <1>6, <2>1, EventsGrow
<1>9. OkTellsTheEnd'
  BY <1>1, <1>6, ReturnsStay
<1>10. RunsHere'
  BY <1>1 DEF TransitionInv, RunsHere, TransitionTypeOK
<1>. QED  BY <1>5, <1>7, <1>8, <1>9, <1>10 DEF TransitionInv

\* The device refuses: it has nothing more to do for the call.
LEMMA RefusesStep ==
  ASSUME TransitionInv, NEW c \in Calls, Refuses(c) PROVE TransitionInv'
<1>. DEFINE e == [kind |-> "error", state |-> "cut", resource |-> call[c].fixture]
<1>1. /\ c \in queued /\ queued' = queued \ {c}
      /\ events' = [events EXCEPT ![c] = Append(events[c], e)]
      /\ UNCHANGED <<call, running, completed>>
  BY DEF Refuses, Emit
<1>2. /\ e \in TransitionEvent /\ e.kind = "error" /\ events[c] \in Seq(TransitionEvent)
  BY DEF TransitionInv, TransitionTypeOK, TransitionEvent, FixtureStates
<1>. HIDE DEF e
<1>3. events'[c] = Append(events[c], e) /\ \A x \in Calls \ {c} : events'[x] = events[x]
  BY <1>1 DEF TransitionInv, TransitionTypeOK
<1>4. TransitionTypeOK'
  BY <1>1, <1>2, Appended DEF TransitionInv, TransitionTypeOK
<1>5. BegunOnce' /\ RunsHere'
  <2>1. call[c].stage # "new"
    BY <1>1 DEF TransitionInv, BegunOnce
  <2>. QED  BY <1>1, <1>3, <2>1 DEF TransitionInv, BegunOnce, RunsHere
<1>6. StaysOver
  BY <1>1 DEF StaysOver, Over
<1>7. EndsAreTrue'
  BY <1>2, <1>3, <1>6, EventsGrow
<1>8. OkTellsTheEnd'
  BY <1>1, <1>6, ReturnsStay
<1>. QED  BY <1>4, <1>5, <1>7, <1>8 DEF TransitionInv

\* A fixture drops its transition or ends it: the call is over, and what it is
\* told says which.
LEMMA FixtureStep ==
  ASSUME TransitionInv, NEW f \in Fixtures, DropTransition(f) \/ Completes(f)
  PROVE  TransitionInv'
<1>0. PICK d \in Calls : d = running[f]
  BY DEF DropTransition, Completes, TransitionInv, TransitionTypeOK
<1>1. /\ running' = [running EXCEPT ![f] = NoTransition]
      /\ UNCHANGED <<call, queued>>
      /\ completed' \in {completed, completed \cup {d}}
  BY <1>0 DEF DropTransition, Completes, TransitionInv, TransitionTypeOK
<1>2. d \notin queued /\ call[d].stage # "new" /\ d \notin completed
  BY <1>0 DEF TransitionInv, BegunOnce
<1>3. \A g \in Fixtures : running'[g] # d
  BY <1>0, <1>1, FixtureTransitionAssumption DEF TransitionInv, TransitionTypeOK, RunsHere
<1>4. \A x \in Calls, g \in Fixtures : running'[g] = x => running[g] = x /\ x # d
  BY <1>0, <1>1, <1>3, FixtureTransitionAssumption DEF TransitionInv, TransitionTypeOK
<1>5. \/ events' = events
      \/ \E e \in TransitionEvent :
           events' = [events EXCEPT ![d] = Append(events[d], e)] /\ e.state = Reached(d)'
  <2>1. CASE Completes(f)
    <3>1. PICK kind \in {"end", "other"}, r \in {f, NoTransition} :
            events' = [events EXCEPT ![d] = Emit(d, kind, "target", r)]
      BY <1>0, <2>1 DEF Completes
    <3>2. [kind |-> kind, state |-> "target", resource |-> r] \in TransitionEvent
      BY DEF TransitionEvent, FixtureStates
    <3>3. Reached(d)' = "target"
      BY <1>0, <2>1 DEF Completes, Reached
    <3>. QED  BY <3>1, <3>2, <3>3 DEF Emit
  <2>2. CASE DropTransition(f) /\ events' # events
    <3>1. PICK kind \in {"end", "error", "other"} :
            events' = [events EXCEPT ![d] = Emit(d, kind, "cut", f)]
      BY <1>0, <2>2 DEF DropTransition
    <3>2. [kind |-> kind, state |-> "cut", resource |-> f] \in TransitionEvent
      BY DEF TransitionEvent, FixtureStates
    <3>3. Reached(d)' = "cut"
      BY <1>2, <2>2 DEF DropTransition, Reached
    <3>. QED  BY <3>1, <3>2, <3>3 DEF Emit
  <2>. QED  BY <2>1, <2>2
<1>6. \A x \in Calls :
        \/ events'[x] = events[x]
        \/ x = d /\ \E e \in TransitionEvent :
                       events'[x] = Append(events[x], e) /\ e.state = Reached(x)'
  BY <1>5 DEF TransitionInv, TransitionTypeOK
<1>7. events' \in [Calls -> Seq(TransitionEvent)]
  <2>1. \A e \in TransitionEvent : Append(events[d], e) \in Seq(TransitionEvent)
    BY Appended DEF TransitionInv, TransitionTypeOK
  <2>. QED  BY <1>5, <2>1 DEF TransitionInv, TransitionTypeOK
<1>8. TransitionTypeOK'
  BY <1>1, <1>7 DEF TransitionInv, TransitionTypeOK
<1>9. BegunOnce' /\ RunsHere'
  <2>1. \A x \in Calls : call[x].stage = "new" \/ x \in queued => x # d /\ events'[x] = events[x]
    BY <1>2, <1>6
  <2>2. \A x \in Calls : x # d => (x \in completed' <=> x \in completed)
    BY <1>1
  <2>. QED  BY <1>1, <1>4, <2>1, <2>2 DEF TransitionInv, BegunOnce, RunsHere
<1>10. StaysOver
  <2>. SUFFICES ASSUME NEW x \in Calls, Over(x)
                PROVE  Over(x)' /\ (x \in completed' <=> x \in completed)
    BY DEF StaysOver
  <2>1. x # d
    BY <1>0 DEF Over
  <2>. QED  BY <1>1, <1>4, <2>1 DEF Over
<1>11. EndsAreTrue'
  <2>1. Over(d)'
    BY <1>1, <1>2, <1>3 DEF Over
  <2>. QED  BY <1>6, <1>10, <2>1, EventsGrow
<1>12. OkTellsTheEnd'
  BY <1>1, <1>10, ReturnsStay
<1>. QED  BY <1>8, <1>9, <1>11, <1>12 DEF TransitionInv

\* A call looks at its next event: it returns only on an end of its own.
LEMMA TakeStep ==
  ASSUME TransitionInv, NEW c \in Calls, TakeEvent(c) PROVE TransitionInv'
<1>. DEFINE e == Head(events[c])
            o == Outcome(c, e)
            final == IF o = "ok" THEN e.state ELSE "none"
<1>1. /\ call[c].stage = "waiting" /\ events[c] # <<>> /\ events[c] \in Seq(TransitionEvent)
      /\ call' = [call EXCEPT ![c].stage = o, ![c].final = final]
      /\ events' = [events EXCEPT ![c] = Tail(events[c])]
      /\ UNCHANGED <<queued, running, completed>>
  BY DEF TakeEvent, TransitionInv, TransitionTypeOK
<1>2. e = events[c][1] /\ 1 \in 1 .. Len(events[c]) /\ e \in TransitionEvent
  BY <1>1
<1>3. o \in {"waiting", "ok", "error", "unexpected"} /\ (o = "ok" => e.kind = "end")
  BY DEF Outcome, EndsAsAsked
<1>4. final \in FixtureStates \cup {"none"}
  BY <1>2 DEF TransitionEvent
<1>5. o = "ok" => Over(c) /\ final = Reached(c)
  BY <1>2, <1>3 DEF TransitionInv, EndsAreTrue
<1>. HIDE DEF o, final, e
<1>6. /\ \A x \in Calls \ {c} : call'[x] = call[x] /\ events'[x] = events[x]
      /\ call'[c] = [call[c] EXCEPT !.stage = o, !.final = final]
      /\ events'[c] = Tail(events[c])
  BY <1>1 DEF TransitionInv, TransitionTypeOK
<1>7. /\ call'[c].stage = o /\ call'[c].final = final /\ call'[c].fixture = call[c].fixture
      /\ call'[c] \in CallRecord
  BY <1>3, <1>4, <1>6 DEF TransitionInv, TransitionTypeOK, CallRecord, Stages, TransitionEnds
<1>8. /\ Tail(events[c]) \in Seq(TransitionEvent)
      /\ \A i \in 1 .. Len(Tail(events[c])) :
           i + 1 \in 1 .. Len(events[c]) /\ Tail(events[c])[i] = events[c][i + 1]
  BY <1>1
<1>9. TransitionTypeOK'
  <2>1. events' \in [Calls -> Seq(TransitionEvent)]
    BY <1>1, <1>8 DEF TransitionInv, TransitionTypeOK
  <2>2. call' \in [Calls -> CallRecord]
    BY <1>1, <1>6, <1>7 DEF TransitionInv, TransitionTypeOK, CallRecord, Stages
  <2>. QED  BY <1>1, <2>1, <2>2 DEF TransitionInv, TransitionTypeOK, CallRecord, Stages
<1>10. \A x \in Calls :
         /\ call'[x].stage = "new" \/ x \in queued <=> call[x].stage = "new" \/ x \in queued
         /\ call'[x].stage = "new" <=> call[x].stage = "new"
         /\ call'[x].fixture = call[x].fixture
  BY <1>1, <1>3, <1>6, <1>7
<1>11. BegunOnce' /\ RunsHere'
  <2>1. /\ c \notin queued /\ call[c].stage # "new"
        /\ UNCHANGED <<queued, running, completed>>
    BY <1>1 DEF TransitionInv, BegunOnce
  <2>2. \A x \in Calls : call'[x].stage = "new" \/ x \in queued => events'[x] = events[x]
    BY <1>6, <1>10, <2>1
  <2>3. BegunOnce'
    BY <1>10, <2>1, <2>2 DEF TransitionInv, BegunOnce
  <2>4. RunsHere'
    BY <1>10, <2>1 DEF TransitionInv, RunsHere
  <2>. QED  BY <2>3, <2>4
<1>12. StaysOver
  BY <1>1, <1>10 DEF StaysOver, Over
<1>13. EndsAreTrue'
  <2>. SUFFICES ASSUME NEW x \in Calls, NEW i \in 1 .. Len(events'[x]), events'[x][i].kind = "end"
                PROVE  Over(x)' /\ events'[x][i].state = Reached(x)'
    BY DEF EndsAreTrue
  <2>1. PICK j \in 1 .. Len(events[x]) : events'[x][i] = events[x][j]
    <3>1. CASE x = c
      <4>1. i \in 1 .. Len(Tail(events[c])) /\ events'[x][i] = Tail(events[c])[i]
        BY <1>6, <3>1
      <4>2. i + 1 \in 1 .. Len(events[c]) /\ events'[x][i] = events[c][i + 1]
        BY <1>8, <4>1
      <4>. QED  BY <3>1, <4>2
    <3>2. CASE x # c
      BY <1>6, <3>2
    <3>. QED  BY <3>1, <3>2
  <2>2. Over(x) /\ events[x][j].state = Reached(x)
    BY <2>1 DEF TransitionInv, EndsAreTrue
  <2>. QED  BY <1>12, <2>1, <2>2 DEF StaysOver, Reached
<1>14. OkTellsTheEnd'
  <2>. SUFFICES ASSUME NEW x \in Calls, call'[x].stage = "ok"
                PROVE  /\ x \notin queued' /\ \A g \in Fixtures : running'[g] # x
                       /\ call'[x].final = Reached(x)'
    BY DEF OkTellsTheEnd, Reached
  <2>1. CASE x = c
    BY <1>1, <1>5, <1>7, <2>1 DEF Over, Reached
  <2>2. CASE x # c
    <3>1. \A y \in Calls : call[y].stage = "ok" => call'[y] = call[y]
      BY <1>1, <1>6
    <3>. QED  BY <1>6, <1>12, <2>2, <3>1, OkStays
  <2>. QED  BY <2>1, <2>2
<1>. QED  BY <1>9, <1>11, <1>13, <1>14 DEF TransitionInv

\* A call that gives up returns no state.
LEMMA GivesUpStep ==
  ASSUME TransitionInv, NEW c \in Calls, GivesUp(c) PROVE TransitionInv'
<1>1. /\ call[c].stage = "waiting" /\ call' = [call EXCEPT ![c].stage = "timeout"]
      /\ UNCHANGED <<queued, events, running, completed>>
  BY DEF GivesUp
<1>2. /\ \A x \in Calls \ {c} : call'[x] = call[x]
      /\ call'[c].stage = "timeout" /\ call'[c].fixture = call[c].fixture
      /\ call' \in [Calls -> CallRecord]
  BY <1>1 DEF TransitionInv, TransitionTypeOK, CallRecord, Stages, TransitionEnds
<1>3. TransitionTypeOK'
  BY <1>1, <1>2 DEF TransitionInv, TransitionTypeOK, CallRecord, Stages
<1>4. BegunOnce' /\ RunsHere'
  BY <1>1, <1>2 DEF TransitionInv, BegunOnce, RunsHere
<1>5. StaysOver
  BY <1>1, <1>2 DEF StaysOver, Over
<1>6. EndsAreTrue'
  BY <1>1, <1>5, EventsGrow
<1>7. OkTellsTheEnd'
  BY <1>1, <1>2 DEF TransitionInv, OkTellsTheEnd
<1>. QED  BY <1>3, <1>4, <1>6, <1>7 DEF TransitionInv

\* Nothing happens.
LEMMA TransitionStutter ==
  ASSUME TransitionInv, UNCHANGED transitionVars PROVE TransitionInv'
BY DEF TransitionInv, TransitionTypeOK, BegunOnce, RunsHere, EndsAreTrue, Over, Reached,
       OkTellsTheEnd, transitionVars

\* Main result: a call that returns a final state is over on the device, and
\* the state tells whether it was interrupted (fixture.rs, 147-191).
THEOREM TransitionsComplete == TransitionSpec => []OkTellsTheEnd
<1>1. TransitionInv /\ [TransitionNext]_transitionVars => TransitionInv'
  BY CallStep, BeginsStep, RefusesStep, FixtureStep, TakeStep, GivesUpStep, TransitionStutter
     DEF TransitionNext
<1>2. TransitionInv => OkTellsTheEnd
  BY DEF TransitionInv
<1>. QED  BY FixtureInit, <1>1, <1>2, PTL DEF TransitionSpec

\* The type invariant comes with it.
THEOREM TransitionTypes == TransitionSpec => []TransitionTypeOK
<1>1. TransitionInv /\ [TransitionNext]_transitionVars => TransitionInv'
  BY CallStep, BeginsStep, RefusesStep, FixtureStep, TakeStep, GivesUpStep, TransitionStutter
     DEF TransitionNext
<1>2. TransitionInv => TransitionTypeOK
  BY DEF TransitionInv
<1>. QED  BY FixtureInit, <1>1, <1>2, PTL DEF TransitionSpec

(***************************************************************************)
(* Downloads                                                               *)
(***************************************************************************)

\* The samples of a download: as long as the device sends what it is asked
\* for, they are those up to the offset, each once and in order.
Downloading ==
  /\ download \in [count : 0 .. U32 - 1, offset : Nat, samples : Seq(Nat), on : BOOLEAN]
  /\ download.offset <= download.count /\ Len(download.samples) <= SampleCapacity
  /\ download.on /\ ~short => download.samples = [i \in 1 .. download.offset |-> i]

\* The end of a batch lies past its beginning and within the count, or the sum
\* has wrapped and it lies anywhere below.
LEMMA BatchEndBounds ==
  ASSUME Downloading
  PROVE  BatchEnd \in Nat /\ BatchEnd <= download.count
<1>1. /\ download.count \in Nat /\ download.offset + BatchSize \in Nat
      /\ U32 \in Nat /\ U32 > 0
  BY RemoteResourcesAssumption DEF Downloading
<1>2. (download.offset + BatchSize) % U32 \in Nat
  BY <1>1
<1>. QED  BY <1>1, <1>2 DEF BatchEnd, Smaller

\* A batch of the samples that were asked for continues the ones collected.
LEMMA BatchContinues ==
  ASSUME NEW from \in Nat, NEW n \in Nat, NEW s \in Seq(Nat)
  PROVE  LET longer == s \o [i \in 1 .. n |-> from + i] IN
           /\ longer \in Seq(Nat) /\ Len(longer) = Len(s) + n
           /\ s = [i \in 1 .. from |-> i] => longer = [i \in 1 .. from + n |-> i]
<1>. DEFINE batch == [i \in 1 .. n |-> from + i]
            longer == s \o batch
<1>1. batch \in Seq(Nat) /\ Len(batch) = n
  OBVIOUS
<1>2. longer \in Seq(Nat) /\ Len(longer) = Len(s) + n
  BY <1>1
<1>3. ASSUME s = [i \in 1 .. from |-> i] PROVE longer = [i \in 1 .. from + n |-> i]
  <2>1. Len(s) = from /\ \A i \in 1 .. from : s[i] = i
    BY <1>3
  <2>2. Len(longer) = from + n
    BY <1>2, <2>1
  <2>3. ASSUME NEW i \in 1 .. from + n PROVE longer[i] = i
    <3>1. longer[i] = IF i <= Len(s) THEN s[i] ELSE batch[i - Len(s)]
      BY <1>1, <2>1, <2>3
    <3>. QED  BY <2>1, <3>1
  <2>4. DOMAIN longer = 1 .. from + n /\ longer = [i \in DOMAIN longer |-> longer[i]]
    BY <1>2, <2>2
  <2>. QED  BY <2>3, <2>4
<1>. QED  BY <1>2, <1>3

LEMMA DownloadBegins == ResourceInit => Downloading
BY RemoteResourcesAssumption DEF ResourceInit, Downloading, NoDownload

LEMMA AskBatchDownloads ==
  ASSUME Downloading, short \in BOOLEAN, AskBatch PROVE (Downloading') /\ (short' \in BOOLEAN)
<1>1. /\ download.offset \in Nat /\ download.samples \in Seq(Nat) /\ download.count \in 0 .. U32 - 1
      /\ download.on
  BY DEF Downloading, AskBatch
<1>2. BatchEnd \in Nat /\ BatchEnd <= download.count
  BY BatchEndBounds
<1>3. PICK n \in 0 .. BatchSize :
        /\ IF Len(download.samples) + n <= SampleCapacity
           THEN download' = [download EXCEPT
                  !.offset = BatchEnd,
                  !.samples = download.samples \o [i \in 1 .. n |-> download.offset + i]]
           ELSE UNCHANGED download
        /\ short' = (short \/ n # BatchEnd - download.offset)
  BY DEF AskBatch, Pushed
<1>4. short' \in BOOLEAN /\ (~short' => ~short /\ n = BatchEnd - download.offset)
  BY <1>3
<1>5. CASE ~(Len(download.samples) + n <= SampleCapacity)
  BY <1>3, <1>4, <1>5 DEF Downloading
<1>6. CASE Len(download.samples) + n <= SampleCapacity
  <2>. DEFINE longer == download.samples \o [i \in 1 .. n |-> download.offset + i]
  <2>0. n \in Nat
    BY RemoteResourcesAssumption
  <2>1. /\ longer \in Seq(Nat) /\ Len(longer) = Len(download.samples) + n
        /\ download.samples = [i \in 1 .. download.offset |-> i] =>
             longer = [i \in 1 .. download.offset + n |-> i]
    BY <1>1, <2>0, BatchContinues
  <2>2. download' = [download EXCEPT !.offset = BatchEnd, !.samples = longer]
    BY <1>3, <1>6
  <2>. HIDE DEF longer
  <2>3. /\ download' \in [count : 0 .. U32 - 1, offset : Nat, samples : Seq(Nat), on : BOOLEAN]
        /\ download'.offset = BatchEnd /\ download'.count = download.count
        /\ download'.samples = longer
    BY <1>2, <2>1, <2>2 DEF Downloading
  <2>4. ~short' => download.offset + n = BatchEnd
    BY <1>1, <1>2, <1>4, <2>0
  <2>5. ~short' => longer = [i \in 1 .. BatchEnd |-> i]
    BY <1>1, <1>4, <2>1, <2>4 DEF Downloading
  <2>. QED  BY <1>2, <1>4, <1>6, <2>1, <2>3, <2>5 DEF Downloading
<1>. QED  BY <1>4, <1>5, <1>6

DownloadInv == Downloading /\ short \in BOOLEAN

LEMMA DownloadInvariant == DownloadInv /\ [ResourceNext]_resourceVars => DownloadInv'
<1>. SUFFICES ASSUME Downloading, short \in BOOLEAN, [ResourceNext]_resourceVars
              PROVE  (Downloading') /\ (short' \in BOOLEAN)
  BY DEF DownloadInv
<1>1. CASE UNCHANGED <<download, short>>
  BY <1>1 DEF Downloading
<1>2. CASE AskSampleCount
  <2>1. PICK n \in SampleCounts : download' = [NoDownload EXCEPT !.count = n, !.on = TRUE]
    BY <1>2 DEF AskSampleCount
  <2>2. download' = [count |-> n, offset |-> 0, samples |-> <<>>, on |-> TRUE] /\ short' = FALSE
    BY <1>2, <2>1 DEF AskSampleCount, NoDownload
  <2>3. n \in 0 .. U32 - 1 /\ n \in Nat /\ 0 <= SampleCapacity /\ 0 \in Nat
    BY RemoteResourcesAssumption
  <2>4. download' \in [count : 0 .. U32 - 1, offset : Nat, samples : Seq(Nat), on : BOOLEAN]
    BY <2>2, <2>3
  <2>5. download'.samples = <<>> /\ download'.offset = 0 /\ download'.count = n
    BY <2>2
  <2>6. <<>> = [i \in 1 .. 0 |-> i] /\ Len(<<>>) = 0
    OBVIOUS
  <2>7. Len(download'.samples) <= SampleCapacity /\ download'.offset <= download'.count
    BY <2>3, <2>5, <2>6
  <2>8. download'.samples = [i \in 1 .. download'.offset |-> i]
    BY <2>5, <2>6
  <2>9. short' \in BOOLEAN
    BY <2>2
  <2>. QED  BY <2>4, <2>7, <2>8, <2>9 DEF Downloading
<1>3. CASE AskBatch
  BY <1>3, AskBatchDownloads
<1>4. CASE NextDownload
  BY <1>4, RemoteResourcesAssumption DEF NextDownload, Downloading, NoDownload
<1>5. CASE Rebuild \/ AskCount \/ AskInfo \/ AllListed \/ ListingFails \/ AllVisited \/ DownloadFails
  BY <1>1, <1>5 DEF Rebuild, AskCount, AskInfo, AllListed, ListingFails, AllVisited, DownloadFails
<1>. QED  BY <1>1, <1>2, <1>3, <1>4, <1>5 DEF ResourceNext, resourceVars

\* A download that ends well from a device that sends what it is asked for has
\* all the announced samples, each once and in order; a count past the capacity
\* never ends well.
THEOREM SamplesDownloaded == ResourceSpec => []DownloadsAll
<1>1. DownloadInv => DownloadsAll
  <2>. SUFFICES ASSUME Downloading, DownloadEnded, ~short
                PROVE  /\ download.count <= SampleCapacity
                       /\ download.samples = [i \in 1 .. download.count |-> i]
    BY DEF DownloadsAll, DownloadInv
  <2>1. download.offset = download.count /\ download.count \in Nat
    BY DEF Downloading, DownloadEnded
  <2>2. download.samples = [i \in 1 .. download.count |-> i]
    BY <2>1 DEF Downloading, DownloadEnded
  <2>3. Len(download.samples) = download.count
    BY <2>1, <2>2
  <2>. QED  BY <2>2, <2>3 DEF Downloading
<1>2. ResourceInit => DownloadInv
  BY DownloadBegins DEF ResourceInit, DownloadInv
<1>. QED  BY <1>1, <1>2, DownloadInvariant, PTL DEF ResourceSpec

(***************************************************************************)
(* Listings                                                                *)
(***************************************************************************)

LEMMA SetToSeqFacts ==
  ASSUME NEW S, IsFiniteSet(S)
  PROVE  SetToSeq(S) \in Seq(S) /\ IsInjective(SetToSeq(S))
<1>1. Cardinality(S) \in Nat /\ ExistsBijection(1 .. Cardinality(S), S)
  BY FS_CardinalityType
<1>2. \E f \in [1 .. Cardinality(S) -> S] : IsInjective(f)
  BY <1>1 DEF ExistsBijection, Bijection, Injection, IsInjective
<1>3. SetToSeq(S) \in [1 .. Cardinality(S) -> S] /\ IsInjective(SetToSeq(S))
  BY <1>2 DEF SetToSeq
<1>. QED  BY <1>1, <1>3

LEMMA SetToSeqsFacts ==
  ASSUME NEW S, IsFiniteSet(S), NEW s \in SetToSeqs(S)
  PROVE  s \in Seq(S) /\ IsInjective(s)
<1>1. Cardinality(S) \in Nat
  BY FS_CardinalityType
<1>2. /\ s \in [1 .. Cardinality(S) -> S]
      /\ \A i, j \in 1 .. Cardinality(S) : i # j => s[i] # s[j]
  BY DEF SetToSeqs
<1>. QED  BY <1>1, <1>2 DEF IsInjective

\* A sequence over a set is one over every larger set.
LEMMA WiderSeq == ASSUME NEW S, NEW T, S \subseteq T, NEW s \in Seq(S) PROVE s \in Seq(T)
OBVIOUS

LEMMA PartsOfParents ==
  ASSUME NEW r \in Parents
  PROVE  /\ Parts[r] \subseteq Resources /\ IsFiniteSet(Parts[r])
         /\ r = Root \/ r \in Parts[Root] => Parts[r] \subseteq Parents
BY RemoteResourcesAssumption DEF Parents, Resources

\* What a device is made of at any time: parts that may be where they are,
\* each once.
Built(d) ==
  /\ d \in [Parents -> Seq(Resources)]
  /\ \A r \in Parents : d[r] \in Seq(Parts[r]) /\ IsInjective(d[r])

Assembled == Built(device)

LEMMA AssembledInit == ResourceInit => Assembled
<1>. SUFFICES ASSUME ResourceInit PROVE Assembled
  OBVIOUS
<1>1. \A r \in Parents : SetToSeq(Parts[r]) \in Seq(Parts[r]) /\ IsInjective(SetToSeq(Parts[r]))
  BY PartsOfParents, SetToSeqFacts
<1>2. \A r \in Parents : SetToSeq(Parts[r]) \in Seq(Resources)
  BY <1>1, PartsOfParents, WiderSeq
<1>. QED  BY <1>1, <1>2 DEF ResourceInit, Assembled, Built

LEMMA AssembledStep == Assembled /\ [ResourceNext]_resourceVars => Assembled'
<1>. SUFFICES ASSUME Assembled, [ResourceNext]_resourceVars PROVE Assembled'
  OBVIOUS
<1>1. CASE device' = device
  BY <1>1 DEF Assembled
<1>2. CASE Rebuild
  <2>0. PICK r \in Parents : \E s \in UNION {SetToSeqs(P) : P \in SUBSET Parts[r]} :
          device' = [device EXCEPT ![r] = s]
    BY <1>2 DEF Rebuild
  <2>1. PICK s \in UNION {SetToSeqs(P) : P \in SUBSET Parts[r]} :
          device' = [device EXCEPT ![r] = s]
    BY <2>0
  <2>2. PICK P \in SUBSET Parts[r] : s \in SetToSeqs(P)
    BY <2>1
  <2>3. IsFiniteSet(P)
    BY PartsOfParents, FS_Subset
  <2>4. s \in Seq(P) /\ IsInjective(s)
    BY <2>2, <2>3, SetToSeqsFacts
  <2>5. s \in Seq(Parts[r]) /\ s \in Seq(Resources)
    BY <2>4, PartsOfParents, WiderSeq
  <2>. QED  BY <2>1, <2>4, <2>5 DEF Assembled, Built
<1>3. CASE AskCount \/ AskInfo \/ AllListed \/ ListingFails \/ AllVisited
           \/ AskSampleCount \/ AskBatch \/ NextDownload \/ DownloadFails
  BY <1>1, <1>3 DEF AskCount, AskInfo, AllListed, ListingFails, AllVisited, AskSampleCount,
     AskBatch, NextDownload, DownloadFails
<1>. QED  BY <1>1, <1>2, <1>3 DEF ResourceNext, resourceVars
Listing ==
  /\ listing \in [of : Parents, count : Nat, got : Seq(Resources), on : BOOLEAN]
  /\ listing.got \in Seq(Parts[listing.of]) /\ Len(listing.got) <= listing.count

Lists ==
  /\ toList \in Seq(Parents) /\ visited \in Seq(Parents \X Resources)
  /\ toSample \in Seq(Resources)

Command ==
  /\ spectral \in BOOLEAN /\ failed \in BOOLEAN
  /\ outcome \in {"running", "error", "done"} /\ changes \in 0 .. MaxChanges

\* A source is listed before its emitters are sampled, and the next parent after.
Sampling ==
  /\ listing.on => toSample = <<>>
  /\ download.on => toSample # <<>>

LEMMA SamplingStep == Sampling /\ [ResourceNext]_resourceVars => Sampling'
<1>. SUFFICES ASSUME Sampling, [ResourceNext]_resourceVars PROVE Sampling'
  OBVIOUS
<1>1. CASE UNCHANGED <<listing, toSample, download>>
  BY <1>1 DEF Sampling
<1>2. CASE AskCount \/ AskInfo
  BY <1>2 DEF AskCount, AskInfo, Sampling
<1>3. CASE AllListed \/ ListingFails
  <2>1. toSample = <<>> /\ download' = download /\ listing' = NoCall
    BY <1>3 DEF AllListed, ListingFails, Sampling
  <2>2. ~download.on /\ ~NoCall.on
    BY <2>1 DEF Sampling, NoCall
  <2>. QED  BY <2>1, <2>2 DEF Sampling
<1>4. CASE AskSampleCount \/ AskBatch
  BY <1>4 DEF AskSampleCount, AskBatch, Sampling
<1>6. CASE NextDownload
  BY <1>6 DEF NextDownload, NoDownload, Sampling, DownloadEnded
<1>7. CASE DownloadFails
  BY <1>1, <1>7 DEF DownloadFails
<1>5. CASE Rebuild \/ AllVisited
  BY <1>1, <1>5 DEF Rebuild, AllVisited
<1>. QED  BY <1>1, <1>2, <1>3, <1>4, <1>5, <1>6, <1>7 DEF ResourceNext, resourceVars

LEMMA NoCallListing == listing' = NoCall => Listing'
<1>1. Root \in Parents /\ <<>> \in Seq(Parts[Root]) /\ <<>> \in Seq(Resources) /\ Len(<<>>) = 0
  BY RemoteResourcesAssumption DEF Parents
<1>. QED  BY <1>1 DEF NoCall, Listing

LEMMA CommandStep == Command /\ [ResourceNext]_resourceVars => Command'
<1>. SUFFICES ASSUME Command, [ResourceNext]_resourceVars PROVE Command'
  OBVIOUS
<1>1. spectral' = spectral
  BY DEF ResourceNext, resourceVars, Rebuild, AskCount, AskInfo, AllListed, ListingFails,
     AllVisited, AskSampleCount, AskBatch, NextDownload, DownloadFails
<1>2. failed' = failed \/ failed' = TRUE
  BY DEF ResourceNext, resourceVars, Rebuild, AskCount, AskInfo, AllListed, ListingFails,
     AllVisited, AskSampleCount, AskBatch, NextDownload, DownloadFails
<1>3. outcome' = outcome \/ outcome' \in {"done", "error"}
  BY DEF ResourceNext, resourceVars, Rebuild, AskCount, AskInfo, AllListed, ListingFails,
     AllVisited, AskSampleCount, AskBatch, NextDownload, DownloadFails
<1>4. changes' = changes \/ (changes < MaxChanges /\ changes' = changes + 1)
  BY DEF ResourceNext, resourceVars, Rebuild, AskCount, AskInfo, AllListed, ListingFails,
     AllVisited, AskSampleCount, AskBatch, NextDownload, DownloadFails
<1>5. changes' \in 0 .. MaxChanges
  BY <1>4, RemoteResourcesAssumption DEF Command
<1>6. spectral' \in BOOLEAN /\ failed' \in BOOLEAN
  BY <1>1, <1>2 DEF Command
<1>7. outcome' \in {"running", "error", "done"}
  BY <1>3 DEF Command
<1>. QED  BY <1>5, <1>6, <1>7 DEF Command

\* Where the parts of a completed listing go.
LEMMA ListedTyped ==
  ASSUME Lists, NEW r \in Parents, NEW parts \in Seq(Parts[r]), Listed(r, parts)
  PROVE  Lists'
<1>1. Parts[r] \subseteq Resources
  BY PartsOfParents
<1>2. parts \in Seq(Resources)
  BY <1>1
<1>3. CASE r = Root \/ r \in Parts[Root]
  <2>1. parts \in Seq(Parents)
    BY <1>3, PartsOfParents
  <2>2. parts \o toList \in Seq(Parents)
    BY <2>1, ConcatProperties DEF Lists
  <2>. QED  BY <1>3, <2>2 DEF Listed, Lists
<1>4. CASE ~(r = Root \/ r \in Parts[Root])
  <2>. DEFINE block == [i \in DOMAIN parts |-> <<r, parts[i]>>]
  <2>1. block \in Seq(Parents \X Resources)
    BY <1>2
  <2>2. visited \o block \in Seq(Parents \X Resources)
    BY <2>1, ConcatProperties DEF Lists
  <2>3. visited' = visited \o block /\ (toSample' = parts \/ toSample' = <<>>) /\ toList' = toList
    BY <1>4 DEF Listed
  <2>. HIDE DEF block
  <2>4. toSample' \in Seq(Resources)
    BY <1>2, <2>3, EmptySeq
  <2>. QED  BY <2>2, <2>3, <2>4 DEF Lists
<1>. QED  BY <1>3, <1>4

LEMMA ListingStep ==
  Assembled /\ Sampling /\ Listing /\ Lists /\ [ResourceNext]_resourceVars => Listing' /\ (Lists')
<1>. SUFFICES ASSUME Assembled, Sampling, Listing, Lists, [ResourceNext]_resourceVars
              PROVE  Listing' /\ (Lists')
  OBVIOUS
<1>1. CASE UNCHANGED <<listing, toList, visited, toSample>>
  BY <1>1 DEF Listing, Lists
<1>2. CASE AskCount
  <2>. DEFINE r == Head(toList)
  <2>1. r \in Parents /\ Tail(toList) \in Seq(Parents)
    BY <1>2 DEF AskCount, Lists
  <2>2. Len(device[r]) \in Nat /\ <<>> \in Seq(Parts[r]) /\ <<>> \in Seq(Resources) /\ Len(<<>>) = 0
    BY <2>1 DEF Assembled, Built
  <2>3. listing' = [of |-> r, count |-> Len(device[r]), got |-> <<>>, on |-> TRUE]
    BY <1>2 DEF AskCount
  <2>4. Listing'
    BY <2>1, <2>2, <2>3 DEF Listing
  <2>. QED  BY <1>2, <2>1, <2>4 DEF AskCount, Lists
<1>3. CASE AskInfo
  <2>. DEFINE i == Len(listing.got) + 1
              r == listing.of
              e == device[r][i]
  <2>1. /\ r \in Parents /\ i \in Nat /\ i >= 1 /\ i <= listing.count /\ i <= Len(device[r])
        /\ device[r] \in Seq(Parts[r])
    BY <1>3 DEF AskInfo, Listing, Assembled, Built
  <2>2. e \in Parts[r] /\ e \in Resources
    BY <2>1, PartsOfParents
  <2>0. listing.got \in Seq(Parts[r]) /\ listing.got \in Seq(Resources)
    BY DEF Listing
  <2>. HIDE DEF e, r
  <2>3. /\ Append(listing.got, e) \in Seq(Parts[r]) /\ Append(listing.got, e) \in Seq(Resources)
        /\ Len(Append(listing.got, e)) = i
    <3>1. ASSUME NEW S, NEW s \in Seq(S), NEW x \in S
          PROVE  Append(s, x) \in Seq(S) /\ Len(Append(s, x)) = Len(s) + 1
      BY AppendProperties
    <3>. QED  BY ONLY <2>0, <2>2, <3>1
  <2>4. listing' = [listing EXCEPT !.got = Append(listing.got, e)]
    BY <1>3 DEF AskInfo, e, r
  <2>. HIDE DEF i
  <2>5. /\ listing' \in [of : Parents, count : Nat, got : Seq(Resources), on : BOOLEAN]
        /\ listing'.of = r /\ listing'.got = Append(listing.got, e) /\ listing'.count = listing.count
    BY <2>3, <2>4 DEF Listing, r
  <2>6. Listing'
    BY <2>1, <2>3, <2>5 DEF Listing
  <2>. QED  BY <1>3, <2>6 DEF AskInfo, Lists
<1>4. CASE AllListed
  <2>1. listing.of \in Parents /\ listing.got \in Seq(Parts[listing.of])
    BY DEF Listing
  <2>. QED  BY <1>4, <2>1, ListedTyped, NoCallListing DEF AllListed
<1>5. CASE ListingFails
  <2>1. listing.of \in Parents /\ KeptOnFailure(listing.got) \in Seq(Parts[listing.of])
    BY DEF Listing, KeptOnFailure
  <2>2. CASE Listed(listing.of, KeptOnFailure(listing.got))
    BY <1>5, <2>1, <2>2, ListedTyped, NoCallListing DEF ListingFails
  <2>3. CASE toList # <<>> /\ toList' = Tail(toList) /\ UNCHANGED <<visited, toSample>>
    BY <1>5, <2>3, NoCallListing DEF ListingFails, Lists
  <2>. QED  BY <1>5, <2>2, <2>3 DEF ListingFails
<1>6. CASE NextDownload
  BY <1>6 DEF NextDownload, DownloadEnded, Sampling, Listing, Lists
<1>8. CASE AskSampleCount \/ AskBatch \/ DownloadFails
  BY <1>1, <1>8 DEF AskSampleCount, AskBatch, DownloadFails
<1>7. CASE Rebuild \/ AllVisited
  BY <1>1, <1>7 DEF Rebuild, AllVisited
<1>. QED  BY <1>1, <1>2, <1>3, <1>4, <1>5, <1>6, <1>7, <1>8 DEF ResourceNext, resourceVars

TypeInv == Assembled /\ Sampling /\ Listing /\ Lists /\ Command /\ DownloadInv

LEMMA TypeInvInit == ResourceInit => TypeInv
<1>. SUFFICES ASSUME ResourceInit PROVE TypeInv
  OBVIOUS
<1>1. Assembled /\ DownloadInv
  BY AssembledInit, DownloadBegins DEF ResourceInit, DownloadInv
<1>2. Root \in Parents /\ <<>> \in Seq(Parts[Root]) /\ <<>> \in Seq(Resources) /\ Len(<<>>) = 0
  BY RemoteResourcesAssumption DEF Parents
<1>3. Listing /\ Lists
  BY <1>2 DEF ResourceInit, NoCall, Listing, Lists
<1>4. changes \in 0 .. MaxChanges
  BY RemoteResourcesAssumption DEF ResourceInit
<1>5. spectral \in BOOLEAN /\ failed \in BOOLEAN /\ outcome = "running" /\ ~listing.on /\ ~download.on
  BY DEF ResourceInit, NoCall, NoDownload
<1>6. Command /\ Sampling
  BY <1>4, <1>5 DEF Command, Sampling
<1>. QED  BY <1>1, <1>3, <1>6 DEF TypeInv

LEMMA TypeInvStep == TypeInv /\ [ResourceNext]_resourceVars => TypeInv'
BY AssembledStep, SamplingStep, ListingStep, CommandStep, DownloadInvariant DEF TypeInv

\* What the commands hold is well-formed, whatever the device is made of and
\* however it answers; a download does not pass its count or the capacity.
THEOREM ResourceTypes == ResourceSpec => []ResourceTypeOK
<1>1. TypeInv => ResourceTypeOK
  BY DEF TypeInv, Assembled, Built, Listing, Lists, Command, DownloadInv, Downloading, ResourceTypeOK
<1>. QED  BY <1>1, TypeInvInit, TypeInvStep, PTL DEF ResourceSpec

(***************************************************************************)
(* The order of a device                                                   *)
(***************************************************************************)

LEMMA SeqOverRange ==
  ASSUME NEW S, NEW T, NEW s \in Seq(S), Range(s) \subseteq T PROVE s \in Seq(T)
<1>1. Len(s) \in Nat /\ DOMAIN s = 1 .. Len(s) /\ s = [i \in 1 .. Len(s) |-> s[i]]
  OBVIOUS
<1>2. \A i \in 1 .. Len(s) : s[i] \in T
  BY <1>1 DEF Range
<1>. QED  BY <1>1, <1>2

LEMMA HeadAndTail ==
  ASSUME NEW S, NEW s \in Seq(S), s # <<>> PROVE Range(s) = {Head(s)} \cup Range(Tail(s))
<1>1. /\ Len(s) \in Nat \ {0} /\ Len(Tail(s)) = Len(s) - 1 /\ Head(s) = s[1]
      /\ DOMAIN s = 1 .. Len(s) /\ DOMAIN Tail(s) = 1 .. Len(s) - 1
      /\ \A i \in 1 .. Len(s) - 1 : Tail(s)[i] = s[i + 1]
  OBVIOUS
<1>2. ASSUME NEW i \in DOMAIN s PROVE s[i] \in {Head(s)} \cup Range(Tail(s))
  <2>1. CASE i = 1
    BY <1>1, <2>1
  <2>2. CASE i # 1
    <3>1. i - 1 \in 1 .. Len(s) - 1 /\ i - 1 + 1 = i
      BY <1>1, <2>2
    <3>2. Tail(s)[i - 1] = s[i] /\ i - 1 \in DOMAIN Tail(s)
      BY <1>1, <3>1
    <3>. QED  BY <3>2 DEF Range
  <2>. QED  BY <2>1, <2>2
<1>3. ASSUME NEW i \in DOMAIN Tail(s) PROVE Tail(s)[i] \in Range(s)
  <2>1. i + 1 \in DOMAIN s /\ Tail(s)[i] = s[i + 1]
    BY <1>1
  <2>. QED  BY <2>1 DEF Range
<1>4. Head(s) \in Range(s)
  BY <1>1 DEF Range
<1>. QED  BY <1>2, <1>3, <1>4 DEF Range

LEMMA BuiltFacts ==
  ASSUME NEW d, Built(d)
  PROVE  /\ Root \in Parents /\ Root \notin Parts[Root]
         /\ \A r \in Parents : d[r] \in Seq(Parts[r]) /\ Range(d[r]) \subseteq Parts[r]
         /\ \A r \in Parents : \A m, n \in DOMAIN d[r] : d[r][m] = d[r][n] => m = n
         /\ Range(d[Root]) \subseteq Parents
         /\ \A f \in Range(d[Root]) : f # Root /\ f \in Parts[Root] /\ Range(d[f]) \subseteq Parents
<1>1. \A r \in Parents : d[r] \in Seq(Parts[r]) /\ IsInjective(d[r])
  BY DEF Built
<1>2. \A r \in Parents : Range(d[r]) \subseteq Parts[r]
  BY <1>1, RangeOfSeq
<1>3. Root \in Parents /\ Root \notin Parts[Root]
  BY RemoteResourcesAssumption DEF Parents
<1>4. \A f \in Range(d[Root]) : f \in Parts[Root] /\ f \in Parents /\ Parts[f] \subseteq Parents
  BY <1>2, <1>3, RemoteResourcesAssumption DEF Parents
<1>. QED  BY <1>1, <1>2, <1>3, <1>4 DEF IsInjective

\* The fixture with the i-th place, and its sources.
Place(d, i) == {d[Root][i]} \cup Range(d[d[Root][i]])

LEMMA OnePlace ==
  ASSUME NEW d, Built(d), NEW i \in DOMAIN d[Root], NEW j \in DOMAIN d[Root],
         NEW x \in Place(d, i), x \in Place(d, j)
  PROVE  i = j
<1>. DEFINE f == d[Root][i]
            g == d[Root][j]
<1>1. f \in Range(d[Root]) /\ g \in Range(d[Root])
  BY DEF Range
<1>2. /\ f \in Parents /\ g \in Parents /\ f # Root /\ g # Root /\ Root \in Parents
      /\ f \in Parts[Root] /\ g \in Parts[Root]
      /\ Range(d[f]) \subseteq Parts[f] /\ Range(d[g]) \subseteq Parts[g]
  BY <1>1, BuiltFacts
<1>3. Parts[Root] \cap Parts[f] = {} /\ Parts[Root] \cap Parts[g] = {}
      /\ (f # g => Parts[f] \cap Parts[g] = {})
  BY <1>2, RemoteResourcesAssumption DEF Parents
<1>4. f = g
  BY <1>2, <1>3 DEF Place
<1>. QED  BY <1>2, <1>4, BuiltFacts

\* Precedes in terms of places.
LEMMA PrecedesPlaces ==
  ASSUME NEW d, NEW x, NEW y
  PROVE  Precedes(d, x, y) <=>
           \E i, j \in DOMAIN d[Root] :
             /\ x \in Place(d, i) /\ y \in Place(d, j)
             /\ \/ i < j
                \/ i = j /\ \E m, n \in DOMAIN d[d[Root][i]] :
                     m < n /\ x = d[d[Root][i]][m] /\ y = d[d[Root][i]][n]
BY DEF Precedes, Place

LEMMA PrecedesStrictly == ASSUME NEW d, Built(d), NEW x PROVE ~Precedes(d, x, x)
<1>. SUFFICES ASSUME Precedes(d, x, x) PROVE FALSE
  OBVIOUS
<1>1. PICK i, j \in DOMAIN d[Root] :
        /\ x \in Place(d, i) /\ x \in Place(d, j)
        /\ \/ i < j
           \/ i = j /\ \E m, n \in DOMAIN d[d[Root][i]] :
                m < n /\ x = d[d[Root][i]][m] /\ x = d[d[Root][i]][n]
  BY PrecedesPlaces
<1>2. i = j
  BY <1>1, OnePlace
<1>3. DOMAIN d[Root] \subseteq Nat
  BY BuiltFacts
<1>4. PICK m, n \in DOMAIN d[d[Root][i]] : m < n /\ d[d[Root][i]][m] = d[d[Root][i]][n]
  BY <1>1, <1>2, <1>3
<1>5. d[Root][i] \in Range(d[Root])
  BY DEF Range
<1>6. d[Root][i] \in Parents
  BY <1>5, BuiltFacts
<1>7. m = n /\ m \in Nat
  BY <1>4, <1>6, BuiltFacts
<1>. QED  BY <1>4, <1>7

\* The host has no place among its parts.
LEMMA RootApart ==
  ASSUME NEW d, Built(d), NEW y PROVE ~Precedes(d, Root, y) /\ ~Precedes(d, y, Root)
<1>1. ASSUME NEW i \in DOMAIN d[Root] PROVE Root \notin Place(d, i)
  <2>1. d[Root][i] \in Range(d[Root])
    BY DEF Range
  <2>2. d[Root][i] # Root /\ d[Root][i] \in Parents /\ Range(d[d[Root][i]]) \subseteq Parts[d[Root][i]]
    BY <2>1, BuiltFacts
  <2>. QED  BY <2>2, RemoteResourcesAssumption DEF Place, Parents
<1>. QED  BY <1>1, PrecedesPlaces

\* The sources of a fixture come where the fixture does.
LEMMA SourcesWithFixture ==
  ASSUME NEW d, Built(d), NEW f \in Range(d[Root]), NEW s \in Range(d[f]), NEW y
  PROVE  /\ Precedes(d, f, y) => Precedes(d, s, y)
         /\ Precedes(d, y, f) => Precedes(d, y, s)
<1>1. PICK k \in DOMAIN d[Root] : f = d[Root][k]
  BY DEF Range
<1>2. f \in Place(d, k) /\ s \in Place(d, k)
  BY <1>1 DEF Place
<1>3. f \notin Range(d[f])
  <2>1. f \in Parents /\ f # Root /\ f \in Parts[Root] /\ Range(d[f]) \subseteq Parts[f] /\ Root \in Parents
    BY BuiltFacts
  <2>. QED  BY <2>1, RemoteResourcesAssumption DEF Parents
<1>4. ASSUME Precedes(d, f, y) PROVE Precedes(d, s, y)
  <2>1. PICK i, j \in DOMAIN d[Root] :
          /\ f \in Place(d, i) /\ y \in Place(d, j)
          /\ \/ i < j
             \/ i = j /\ \E m, n \in DOMAIN d[d[Root][i]] :
                  m < n /\ f = d[d[Root][i]][m] /\ y = d[d[Root][i]][n]
    BY <1>4, PrecedesPlaces
  <2>2. i = k
    BY <1>2, <2>1, OnePlace
  <2>3. ~\E m \in DOMAIN d[f] : f = d[f][m]
    BY <1>3 DEF Range
  <2>4. k < j
    BY <1>1, <2>1, <2>2, <2>3
  <2>. QED  BY <1>2, <2>1, <2>4, PrecedesPlaces
<1>5. ASSUME Precedes(d, y, f) PROVE Precedes(d, y, s)
  <2>1. PICK i, j \in DOMAIN d[Root] :
          /\ y \in Place(d, i) /\ f \in Place(d, j)
          /\ \/ i < j
             \/ i = j /\ \E m, n \in DOMAIN d[d[Root][i]] :
                  m < n /\ y = d[d[Root][i]][m] /\ f = d[d[Root][i]][n]
    BY <1>5, PrecedesPlaces
  <2>2. j = k
    BY <1>2, <2>1, OnePlace
  <2>3. ~\E m \in DOMAIN d[f] : f = d[f][m]
    BY <1>3 DEF Range
  <2>4. i < k
    BY <1>1, <2>1, <2>2, <2>3
  <2>. QED  BY <1>2, <2>1, <2>4, PrecedesPlaces
<1>. QED  BY <1>4, <1>5

\* Fixtures come in their order, and so do the sources of one fixture.
LEMMA SiblingsInOrder ==
  ASSUME NEW d, Built(d), NEW f \in {Root} \cup Range(d[Root]),
         NEW m \in DOMAIN d[f], NEW n \in DOMAIN d[f], m < n
  PROVE  Precedes(d, d[f][m], d[f][n])
<1>1. CASE f = Root
  <2>1. d[Root][m] \in Place(d, m) /\ d[Root][n] \in Place(d, n)
    BY DEF Place
  <2>. QED  BY <1>1, <2>1, PrecedesPlaces
<1>2. CASE f \in Range(d[Root])
  <2>1. PICK k \in DOMAIN d[Root] : f = d[Root][k]
    BY <1>2 DEF Range
  <2>2. d[f][m] \in Place(d, k) /\ d[f][n] \in Place(d, k)
    BY <2>1 DEF Place, Range
  <2>. QED  BY <2>1, <2>2, PrecedesPlaces
<1>. QED  BY <1>1, <1>2

\* The host, its fixtures and their sources.
Standing(d, x) == x = Root \/ x \in Range(d[Root]) \/ \E f \in Range(d[Root]) : x \in Range(d[f])

\* The parents still to be listed, in the order of the device; what was
\* visited lies before them, in order, and each source as a whole.
Orderly(d, q, v) ==
  /\ \A x \in Range(q) : Standing(d, x)
  /\ \A i, j \in DOMAIN q : i < j => Precedes(d, q[i], q[j])
  /\ \A i \in DOMAIN v : \A j \in DOMAIN q : Precedes(d, v[i][1], q[j])
  /\ \A i, j \in DOMAIN v : i < j => ListedInOrder(d, v[i], v[j])
  /\ Range(v) \subseteq AllEmitters(d)
  /\ \A s \in Parents :
       EmittersOf(d, s) \cap Range(v) = {} \/ EmittersOf(d, s) \subseteq Range(v)

\* No part was passed over.
Complete(d, q, v) ==
  \/ Root \in Range(q)
  \/ \A f \in Range(d[Root]) :
       \/ f \in Range(q)
       \/ \A s \in Range(d[f]) : s \in Range(q) \/ EmittersOf(d, s) \subseteq Range(v)

\* The head of a queue is replaced by parents that lie where it lay.
LEMMA HeadReplaced ==
  ASSUME NEW d, Built(d), NEW q \in Seq(Parents), q # <<>>, NEW v \in Seq(Parents \X Resources),
         Orderly(d, q, v), NEW p \in Seq(Parents),
         \A i, j \in DOMAIN p : i < j => Precedes(d, p[i], p[j]),
         \A x \in Range(p) : Standing(d, x),
         \A x \in Range(p) : \A y : Precedes(d, Head(q), y) => Precedes(d, x, y),
         \A x \in Range(p) : \A y : Precedes(d, y, Head(q)) => Precedes(d, y, x)
  PROVE  Orderly(d, p \o Tail(q), v)
<1>. DEFINE w == p \o Tail(q)
<1>1. /\ Tail(q) \in Seq(Parents) /\ Len(Tail(q)) = Len(q) - 1 /\ Head(q) = q[1] /\ Len(q) \in Nat \ {0}
      /\ \A i \in 1 .. Len(q) - 1 : Tail(q)[i] = q[i + 1]
  OBVIOUS
<1>2. /\ w \in Seq(Parents) /\ Len(w) = Len(p) + Len(q) - 1
      /\ \A i \in 1 .. Len(w) : w[i] = IF i <= Len(p) THEN p[i] ELSE q[i - Len(p) + 1]
  <2>1. /\ w \in Seq(Parents) /\ Len(w) = Len(p) + Len(Tail(q))
        /\ \A i \in 1 .. Len(p) + Len(Tail(q)) :
             w[i] = IF i <= Len(p) THEN p[i] ELSE Tail(q)[i - Len(p)]
    BY <1>1, ConcatProperties
  <2>2. ASSUME NEW i \in 1 .. Len(w), ~(i <= Len(p)) PROVE Tail(q)[i - Len(p)] = q[i - Len(p) + 1]
    BY <1>1, <2>1, <2>2
  <2>. QED  BY <1>1, <2>1, <2>2
<1>. HIDE DEF w
<1>3. DOMAIN w = 1 .. Len(w) /\ DOMAIN p = 1 .. Len(p) /\ DOMAIN q = 1 .. Len(q)
      /\ Len(w) \in Nat /\ Len(p) \in Nat
  BY <1>2
<1>4. ASSUME NEW i \in DOMAIN w
      PROVE  \/ i \in DOMAIN p /\ w[i] = p[i] /\ p[i] \in Range(p)
             \/ /\ i - Len(p) + 1 \in DOMAIN q /\ i - Len(p) + 1 > 1
                /\ w[i] = q[i - Len(p) + 1] /\ i > Len(p) /\ i \notin DOMAIN p
  <2>1. i \in 1 .. Len(w)
    BY <1>3
  <2>2. CASE i <= Len(p)
    <3>1. i \in DOMAIN p /\ w[i] = p[i]
      BY ONLY <1>2, <1>3, <2>1, <2>2
    <3>. QED  BY <3>1 DEF Range
  <2>3. CASE ~(i <= Len(p))
    <3>1. w[i] = q[i - Len(p) + 1]
      BY ONLY <1>2, <2>1, <2>3
    <3>2. Len(w) = Len(p) + Len(q) - 1 /\ Len(q) \in Nat /\ Len(p) \in Nat
      BY <1>1, <1>2, <1>3
    <3>3. i - Len(p) + 1 \in 1 .. Len(q) /\ i - Len(p) + 1 > 1 /\ i > Len(p) /\ i \notin 1 .. Len(p)
      BY ONLY <2>1, <2>3, <3>2
    <3>. QED  BY <1>3, <3>1, <3>3
  <2>. QED  BY <2>2, <2>3
<1>5. \A x \in Range(w) : Standing(d, x)
  <2>1. \A x \in Range(w) : x \in Range(p) \/ x \in Range(q)
    BY <1>4 DEF Range
  <2>. QED  BY <2>1 DEF Orderly
<1>c. \A i, j \in DOMAIN q : i < j => Precedes(d, q[i], q[j])
  BY DEF Orderly
<1>d. \A i \in DOMAIN v : \A j \in DOMAIN q : Precedes(d, v[i][1], q[j])
  BY DEF Orderly
<1>e. 1 \in DOMAIN q
  BY <1>1, <1>3
<1>6. ASSUME NEW i \in DOMAIN w, NEW j \in DOMAIN w, i < j PROVE Precedes(d, w[i], w[j])
  <2>1. CASE i \in DOMAIN p /\ j \in DOMAIN p
    <3>1. w[i] = p[i] /\ w[j] = p[j]
      BY ONLY <1>2, <1>3, <2>1
    <3>. QED  BY <1>6, <2>1, <3>1
  <2>2. CASE i \in DOMAIN p /\ j \notin DOMAIN p
    <3>. DEFINE k == j - Len(p) + 1
    <3>1. k \in DOMAIN q /\ 1 < k /\ w[j] = q[k]
      BY <1>3, <1>4, <2>2
    <3>. HIDE DEF k
    <3>2. Precedes(d, Head(q), w[j])
      BY <1>1, <1>c, <1>e, <3>1
    <3>3. w[i] = p[i] /\ p[i] \in Range(p)
      BY <1>4, <1>3, <2>2
    <3>. QED  BY <3>2, <3>3
  <2>3. CASE i \notin DOMAIN p
    <3>1. i > Len(p) /\ i - Len(p) + 1 \in DOMAIN q /\ w[i] = q[i - Len(p) + 1]
      BY <1>4, <2>3
    <3>2. j \notin DOMAIN p
      BY ONLY <1>3, <1>6, <3>1, i \in DOMAIN w, j \in DOMAIN w
    <3>3. j - Len(p) + 1 \in DOMAIN q /\ w[j] = q[j - Len(p) + 1]
      BY <1>4, <3>2
    <3>4. i - Len(p) + 1 < j - Len(p) + 1
      BY ONLY <1>3, <1>6, i \in DOMAIN w, j \in DOMAIN w
    <3>. QED  BY <1>c, <3>1, <3>3, <3>4
  <2>. QED  BY <2>1, <2>2, <2>3
<1>7. ASSUME NEW i \in DOMAIN v, NEW j \in DOMAIN w PROVE Precedes(d, v[i][1], w[j])
  <2>1. Precedes(d, v[i][1], Head(q))
    BY <1>1, <1>d, <1>e
  <2>2. CASE j \in DOMAIN p /\ w[j] = p[j] /\ p[j] \in Range(p)
    BY <2>1, <2>2
  <2>3. CASE j - Len(p) + 1 \in DOMAIN q /\ w[j] = q[j - Len(p) + 1]
    BY <1>d, <2>3
  <2>. QED  BY <1>4, <2>2, <2>3
<1>8. /\ \A i, j \in DOMAIN v : i < j => ListedInOrder(d, v[i], v[j])
      /\ Range(v) \subseteq AllEmitters(d)
      /\ \A s \in Parents :
           EmittersOf(d, s) \cap Range(v) = {} \/ EmittersOf(d, s) \subseteq Range(v)
  BY DEF Orderly
<1>. QED  BY <1>5, <1>6, <1>7, <1>8 DEF Orderly, w

\* A parent that could not be listed is passed over.
LEMMA HeadSkipped ==
  ASSUME NEW d, Built(d), NEW q \in Seq(Parents), q # <<>>, NEW v \in Seq(Parents \X Resources),
         Orderly(d, q, v)
  PROVE  Orderly(d, Tail(q), v)
<1>1. <<>> \in Seq(Parents) /\ DOMAIN <<>> = {} /\ Range(<<>>) = {} /\ <<>> \o Tail(q) = Tail(q)
  BY DEF Range
<1>2. Orderly(d, <<>> \o Tail(q), v)
  BY <1>1, HeadReplaced
<1>. QED  BY <1>1, <1>2

\* The host and the fixtures are replaced by what they are made of.
LEMMA HeadExpanded ==
  ASSUME NEW d, Built(d), NEW q \in Seq(Parents), q # <<>>, NEW v \in Seq(Parents \X Resources),
         Orderly(d, q, v), Head(q) \in {Root} \cup Range(d[Root])
  PROVE  /\ Orderly(d, d[Head(q)] \o Tail(q), v)
         /\ Complete(d, q, v) => Complete(d, d[Head(q)] \o Tail(q), v)
<1>. DEFINE f == Head(q)
<1>1. f \in Parents /\ d[f] \in Seq(Parts[f])
  BY BuiltFacts
<1>2. Range(d[f]) \subseteq Parents
  BY BuiltFacts
<1>3. d[f] \in Seq(Parents)
  BY <1>1, <1>2, SeqOverRange
<1>4. \A i, j \in DOMAIN d[f] : i < j => Precedes(d, d[f][i], d[f][j])
  BY SiblingsInOrder
<1>5. ASSUME NEW x \in Range(d[f])
      PROVE  /\ Standing(d, x)
             /\ \A y : Precedes(d, f, y) => Precedes(d, x, y)
             /\ \A y : Precedes(d, y, f) => Precedes(d, y, x)
  BY RootApart, SourcesWithFixture DEF Standing
<1>6. Orderly(d, d[f] \o Tail(q), v)
  <2>. HIDE DEF f
  <2>. QED  BY <1>3, <1>4, <1>5, HeadReplaced DEF f
<1>7. /\ Range(q) = {f} \cup Range(Tail(q))
      /\ Range(d[f] \o Tail(q)) = Range(d[f]) \cup Range(Tail(q))
  <2>1. Range(q) = {f} \cup Range(Tail(q)) /\ Tail(q) \in Seq(Parents)
    BY HeadAndTail, HeadTailProperties
  <2>2. ASSUME NEW p \in Seq(Parents), NEW r \in Seq(Parents)
        PROVE  Range(p \o r) = Range(p) \cup Range(r)
    BY RangeConcatenation
  <2>. QED  BY <1>3, <2>1, <2>2
<1>8. ASSUME Complete(d, q, v) PROVE Complete(d, d[f] \o Tail(q), v)
  <2>. HIDE DEF f
  <2>1. f \in {Root} \cup Range(d[Root])
    BY DEF f
  <2>2. CASE f = Root
    <3>1. \A g \in Range(d[Root]) : g \in Range(d[f] \o Tail(q))
      BY <1>7, <2>2
    <3>. QED  BY <3>1 DEF Complete
  <2>3. CASE f # Root
    <3>1. Range(d[f] \o Tail(q)) = (Range(q) \ {f}) \cup Range(d[f]) \cup Range(Tail(q))
      BY <1>7
    <3>2. Root \in Range(q) => Root \in Range(d[f] \o Tail(q))
      BY <2>3, <3>1
    <3>3. ASSUME NEW g \in Range(d[Root])
          PROVE  g \in Range(q) => \/ g \in Range(d[f] \o Tail(q))
                                  \/ \A s \in Range(d[g]) : s \in Range(d[f] \o Tail(q))
      BY <1>7
    <3>4. ASSUME NEW s PROVE s \in Range(q) => s = f \/ s \in Range(d[f] \o Tail(q))
      BY <1>7
    <3>5. ASSUME NEW g \in Range(d[Root]) PROVE f \notin Range(d[g])
      <4>1. f \in Parts[Root] /\ g \in Parents /\ g # Root /\ Range(d[g]) \subseteq Parts[g] /\ Root \in Parents
        BY <2>1, <2>3, BuiltFacts
      <4>. QED  BY <4>1, RemoteResourcesAssumption DEF Parents
    <3>. QED  BY <1>8, <3>2, <3>3, <3>4, <3>5 DEF Complete
  <2>. QED  BY <2>1, <2>2, <2>3
<1>. QED  BY <1>6, <1>8

\* The emitters of a source, as they are visited.
Block(d, s) == [k \in DOMAIN d[s] |-> <<s, d[s][k]>>]

\* A source has been listed: its emitters are visited.
LEMMA HeadVisited ==
  ASSUME NEW d, Built(d), NEW q \in Seq(Parents), q # <<>>, NEW v \in Seq(Parents \X Resources),
         Orderly(d, q, v), Head(q) \notin {Root} \cup Range(d[Root])
  PROVE  /\ Orderly(d, Tail(q), v \o Block(d, Head(q)))
         /\ Complete(d, q, v) => Complete(d, Tail(q), v \o Block(d, Head(q)))
<1>. DEFINE s == Head(q)
            w == v \o Block(d, s)
<1>1. Orderly(d, Tail(q), v)
  BY HeadSkipped
<1>2. /\ s \in Parents /\ Tail(q) \in Seq(Parents) /\ Range(q) = {s} \cup Range(Tail(q))
      /\ Len(Tail(q)) = Len(q) - 1 /\ Len(q) \in Nat \ {0}
      /\ \A j \in 1 .. Len(Tail(q)) : Tail(q)[j] = q[j + 1]
  BY HeadAndTail, HeadTailProperties
<1>3. PICK f \in Range(d[Root]) : s \in Range(d[f])
  <2>1. s \in Range(q)
    BY <1>2
  <2>. QED  BY <2>1 DEF Orderly, Standing
<1>4. d[s] \in Seq(Parts[s]) /\ Parts[s] \subseteq Resources
  BY <1>2, BuiltFacts, PartsOfParents
<1>. HIDE DEF s
<1>5. Block(d, s) \in Seq(Parents \X Resources) /\ Len(Block(d, s)) = Len(d[s])
      /\ DOMAIN d[s] = 1 .. Len(d[s]) /\ Len(d[s]) \in Nat
      /\ \A k \in 1 .. Len(d[s]) : Block(d, s)[k] = <<s, d[s][k]>>
  BY <1>2, <1>4 DEF Block
<1>6. Range(Block(d, s)) = EmittersOf(d, s)
  <2>1. DOMAIN Block(d, s) = DOMAIN d[s] /\ \A k \in DOMAIN d[s] : Block(d, s)[k] = <<s, d[s][k]>>
    BY DEF Block
  <2>. QED  BY <2>1 DEF Range, EmittersOf
<1>7. /\ w \in Seq(Parents \X Resources) /\ Len(w) = Len(v) + Len(d[s])
      /\ Len(v) \in Nat /\ DOMAIN v = 1 .. Len(v)
      /\ \A i \in 1 .. Len(w) : w[i] = IF i <= Len(v) THEN v[i] ELSE Block(d, s)[i - Len(v)]
  <2>. DEFINE P == Parents \X Resources
              b == Block(d, s)
  <2>0. v \in Seq(P) /\ b \in Seq(P)
    BY <1>5
  <2>. HIDE DEF P, b
  <2>1. /\ v \o b \in Seq(P) /\ Len(v \o b) = Len(v) + Len(b)
        /\ \A i \in 1 .. Len(v) + Len(b) : (v \o b)[i] = IF i <= Len(v) THEN v[i] ELSE b[i - Len(v)]
    BY <2>0, ConcatProperties
  <2>. USE DEF P, b
  <2>. HIDE DEF w
  <2>2. w = v \o b
    BY DEF w
  <2>. QED  BY <1>5, <2>1, <2>2
<1>8. Range(w) = Range(v) \cup EmittersOf(d, s)
  BY <1>5, <1>6, RangeConcatenation
<1>. HIDE DEF w
<1>9. ASSUME NEW i \in DOMAIN w
      PROVE  \/ i \in DOMAIN v /\ w[i] = v[i]
             \/ /\ i - Len(v) \in DOMAIN d[s] /\ w[i] = <<s, d[s][i - Len(v)]>>
                /\ i > Len(v) /\ i \notin DOMAIN v
  <2>1. i \in 1 .. Len(w)
    BY <1>7
  <2>2. CASE i <= Len(v)
    BY ONLY <1>7, <2>1, <2>2
  <2>3. CASE ~(i <= Len(v))
    <3>1. i - Len(v) \in 1 .. Len(d[s]) /\ i > Len(v) /\ i \notin 1 .. Len(v)
      BY ONLY <1>5, <1>7, <2>1, <2>3
    <3>2. w[i] = Block(d, s)[i - Len(v)]
      BY ONLY <1>7, <2>1, <2>3
    <3>. QED  BY <1>5, <1>7, <3>1, <3>2
  <2>. QED  BY <2>2, <2>3
<1>10. \A i \in DOMAIN v : Precedes(d, v[i][1], s)
  <2>1. 1 \in DOMAIN q /\ q[1] = s
    BY <1>2 DEF s
  <2>. QED  BY <2>1 DEF Orderly
<1>11. ASSUME NEW j \in DOMAIN Tail(q) PROVE Precedes(d, s, Tail(q)[j])
  <2>1. 1 \in DOMAIN q /\ q[1] = s /\ j + 1 \in DOMAIN q /\ 1 < j + 1 /\ Tail(q)[j] = q[j + 1]
    BY <1>2 DEF s
  <2>. QED  BY <2>1 DEF Orderly
<1>12. ASSUME NEW i \in DOMAIN w, NEW j \in DOMAIN Tail(q) PROVE Precedes(d, w[i][1], Tail(q)[j])
  <2>1. CASE i \in DOMAIN v /\ w[i] = v[i]
    BY <1>1, <2>1 DEF Orderly
  <2>2. CASE w[i][1] = s
    BY <1>11, <2>2
  <2>. QED  BY <1>9, <2>1, <2>2
<1>13. ASSUME NEW i \in DOMAIN w, NEW j \in DOMAIN w, i < j PROVE ListedInOrder(d, w[i], w[j])
  <2>1. CASE i \in DOMAIN v /\ j \in DOMAIN v
    <3>1. w[i] = v[i] /\ w[j] = v[j]
      BY <1>9, <2>1
    <3>. QED  BY <1>13, <2>1, <3>1 DEF Orderly
  <2>2. CASE i \in DOMAIN v /\ j \notin DOMAIN v
    <3>1. w[i] = v[i] /\ w[j][1] = s
      BY <1>9, <2>2
    <3>2. Precedes(d, w[i][1], w[j][1])
      BY <1>10, <2>2, <3>1
    <3>. QED  BY <3>2 DEF ListedInOrder
  <2>3. CASE i \notin DOMAIN v
    <3>1. i - Len(v) \in DOMAIN d[s] /\ w[i] = <<s, d[s][i - Len(v)]>> /\ i > Len(v)
      BY <1>9, <2>3
    <3>2. j \notin DOMAIN v /\ i \in Nat /\ j \in Nat
      BY ONLY <1>7, <1>13, <3>1, i \in DOMAIN w, j \in DOMAIN w
    <3>3. j - Len(v) \in DOMAIN d[s] /\ w[j] = <<s, d[s][j - Len(v)]>>
      BY <1>9, <3>2
    <3>4. i - Len(v) < j - Len(v)
      BY ONLY <1>7, <1>13, <3>2
    <3>5. w[i][1] = s /\ w[j][1] = s /\ w[i][2] = d[s][i - Len(v)] /\ w[j][2] = d[s][j - Len(v)]
      BY ONLY <3>1, <3>3
    <3>. QED  BY <3>1, <3>3, <3>4, <3>5 DEF ListedInOrder
  <2>. QED  BY <2>1, <2>2, <2>3
<1>14. Range(w) \subseteq AllEmitters(d)
  <2>1. EmittersOf(d, s) \subseteq AllEmitters(d)
    BY <1>3 DEF AllEmitters, SourcesOf
  <2>. QED  BY <1>8, <2>1 DEF Orderly
<1>15. ASSUME NEW t \in Parents
       PROVE  EmittersOf(d, t) \cap Range(w) = {} \/ EmittersOf(d, t) \subseteq Range(w)
  <2>1. CASE t = s
    BY <1>8, <2>1
  <2>2. CASE t # s
    <3>1. EmittersOf(d, t) \cap EmittersOf(d, s) = {}
      BY <2>2 DEF EmittersOf
    <3>2. EmittersOf(d, t) \cap Range(v) = {} \/ EmittersOf(d, t) \subseteq Range(v)
      BY DEF Orderly
    <3>. QED  BY <1>8, <3>1, <3>2
  <2>. QED  BY <2>1, <2>2
<1>16. Orderly(d, Tail(q), w)
  <2>1. /\ \A x \in Range(Tail(q)) : Standing(d, x)
        /\ \A i, j \in DOMAIN Tail(q) : i < j => Precedes(d, Tail(q)[i], Tail(q)[j])
    BY <1>1 DEF Orderly
  <2>. QED  BY <1>12, <1>13, <1>14, <1>15, <2>1 DEF Orderly
<1>17. ASSUME Complete(d, q, v) PROVE Complete(d, Tail(q), w)
  <2>1. s # Root /\ s \notin Range(d[Root])
    BY DEF s
  <2>2. \A x \in Range(q) : x = s \/ x \in Range(Tail(q))
    BY <1>2
  <2>3. EmittersOf(d, s) \subseteq Range(w) /\ Range(v) \subseteq Range(w)
    BY <1>8
  <2>. QED  BY <1>17, <2>1, <2>2, <2>3 DEF Complete
<1>. QED  BY <1>16, <1>17 DEF s, w

\* Emitters that come one before the other are not the same.
LEMMA InOrderStrictly ==
  ASSUME NEW d, Built(d), NEW v, NEW w, v[1] \in Parents, ListedInOrder(d, v, w) PROVE v # w
<1>1. CASE Precedes(d, v[1], w[1])
  BY <1>1, PrecedesStrictly
<1>2. CASE \E m, n \in DOMAIN d[v[1]] : m < n /\ v[2] = d[v[1]][m] /\ w[2] = d[v[1]][n]
  <2>1. PICK m, n \in DOMAIN d[v[1]] : m < n /\ v[2] = d[v[1]][m] /\ w[2] = d[v[1]][n]
    BY <1>2
  <2>2. m \in Nat /\ n \in Nat /\ m # n
    BY <2>1, BuiltFacts
  <2>3. d[v[1]][m] # d[v[1]][n]
    BY <2>2, BuiltFacts
  <2>. QED  BY <2>1, <2>3
<1>. QED  BY <1>1, <1>2 DEF ListedInOrder

(***************************************************************************)
(* The listing of a device that is not rebuilt                             *)
(***************************************************************************)

\* The parents still to be listed, with the one that is being listed.
Queue == IF listing.on THEN <<listing.of>> \o toList ELSE toList

\* What was described of a parent is what it has there.
Described ==
  listing.on => /\ listing.count = Len(device[listing.of])
                /\ \A i \in DOMAIN listing.got : listing.got[i] = device[listing.of][i]

Traversal ==
  /\ outcome = "done" => ~listing.on /\ toList = <<>>
  /\ changes = 0 => /\ Described /\ Orderly(device, Queue, visited)
                    /\ ~failed => Complete(device, Queue, visited)

LEMMA QueueFacts ==
  ASSUME Listing, Lists
  PROVE  /\ Queue \in Seq(Parents)
         /\ listing.on => Queue # <<>> /\ Head(Queue) = listing.of /\ Tail(Queue) = toList
BY DEF Listing, Lists, Queue

LEMMA TraversalInit == ResourceInit => Traversal
<1>. SUFFICES ASSUME ResourceInit PROVE Traversal
  OBVIOUS
<1>1. ~listing.on /\ toList = <<Root>> /\ visited = <<>> /\ outcome # "done"
  BY DEF ResourceInit, NoCall
<1>2. Queue = <<Root>> /\ Range(<<Root>>) = {Root} /\ Range(<<>>) = {} /\ DOMAIN <<>> = {}
      /\ DOMAIN <<Root>> = 1 .. 1
  BY <1>1 DEF Queue, Range
<1>3. Orderly(device, Queue, visited)
  BY <1>1, <1>2 DEF Orderly, Standing
<1>4. Complete(device, Queue, visited)
  BY <1>2 DEF Complete
<1>. QED  BY <1>1, <1>3, <1>4 DEF Traversal, Described

LEMMA TraversalStep == TypeInv /\ Traversal /\ [ResourceNext]_resourceVars => Traversal'
<1>. SUFFICES ASSUME TypeInv, Traversal, [ResourceNext]_resourceVars PROVE Traversal'
  OBVIOUS
<1>0. /\ Built(device) /\ Listing /\ Lists /\ Sampling /\ changes \in Nat
      /\ Queue \in Seq(Parents) /\ visited \in Seq(Parents \X Resources)
  BY QueueFacts DEF TypeInv, Assembled, Command, Lists
<1>1. CASE UNCHANGED <<device, listing, toList, visited, outcome, changes, failed>>
  BY <1>1 DEF Traversal, Described, Queue
<1>2. CASE Rebuild
  <2>1. changes' # 0 /\ outcome' # "done"
    BY <1>0, <1>2 DEF Rebuild
  <2>. QED  BY <2>1 DEF Traversal
<1>3. CASE AskCount
  <2>1. /\ ~listing.on /\ toList # <<>> /\ toList' = Tail(toList) /\ outcome' # "done"
        /\ listing' = [of |-> Head(toList), count |-> Len(device[Head(toList)]),
                       got |-> <<>>, on |-> TRUE]
        /\ UNCHANGED <<device, visited, changes, failed>>
    BY <1>3 DEF AskCount
  <2>2. Queue' = <<Head(toList)>> \o Tail(toList) /\ Queue = toList
    BY <2>1 DEF Queue
  <2>3. Queue' = Queue
    BY <1>0, <2>1, <2>2 DEF Lists
  <2>4. Described'
    BY <2>1 DEF Described
  <2>. QED  BY <2>1, <2>3, <2>4 DEF Traversal
<1>4. CASE AskInfo
  <2>. DEFINE i == Len(listing.got) + 1
              e == device[listing.of][i]
  <2>1. /\ listing.on /\ listing' = [listing EXCEPT !.got = Append(listing.got, e)]
        /\ UNCHANGED <<device, toList, visited, outcome, changes, failed>>
    BY <1>4 DEF AskInfo
  <2>2. /\ listing'.on /\ listing'.of = listing.of /\ listing'.count = listing.count
        /\ listing'.got = Append(listing.got, e)
    BY <1>0, <2>1 DEF Listing
  <2>3. Queue' = Queue
    BY <2>1, <2>2 DEF Queue
  <2>4. Described => Described'
    <3>. SUFFICES ASSUME Described, NEW j \in DOMAIN Append(listing.got, e)
                  PROVE  Append(listing.got, e)[j] = device[listing.of][j]
      BY <2>1, <2>2 DEF Described
    <3>1. listing.got \in Seq(Parts[listing.of])
      BY <1>0 DEF Listing
    <3>0. ASSUME NEW S, NEW s \in Seq(S), NEW x, NEW k \in DOMAIN Append(s, x)
          PROVE  (k \in DOMAIN s /\ Append(s, x)[k] = s[k]) \/ (k = Len(s) + 1 /\ Append(s, x)[k] = x)
      OBVIOUS
    <3>. HIDE DEF e
    <3>2. \/ j \in DOMAIN listing.got /\ Append(listing.got, e)[j] = listing.got[j]
          \/ j = i /\ Append(listing.got, e)[j] = e
      BY <3>0, <3>1
    <3>. USE DEF e
    <3>. QED  BY <2>1, <3>2 DEF Described
  <2>. QED  BY <2>1, <2>2, <2>3, <2>4 DEF Traversal
<1>5. CASE AllListed
  <2>. DEFINE r == listing.of
  <2>1. /\ listing.on /\ Len(listing.got) = listing.count /\ Listed(r, listing.got)
        /\ listing' = NoCall /\ ~listing'.on
        /\ UNCHANGED <<device, outcome, changes, failed>>
    BY <1>5 DEF AllListed, NoCall
  <2>2. Queue # <<>> /\ Head(Queue) = r /\ Tail(Queue) = toList /\ Queue' = toList'
    BY <1>0, <2>1, QueueFacts DEF Queue
  <2>3. outcome' # "done"
    BY <2>1 DEF Traversal
  <2>. SUFFICES ASSUME changes = 0
                PROVE  /\ Orderly(device, toList', visited')
                       /\ ~failed => Complete(device, toList', visited')
    BY <2>1, <2>2, <2>3 DEF Traversal, Described
  <2>4. r \in Parents /\ device[r] \in Seq(Parts[r]) /\ listing.got \in Seq(Parts[r])
    BY <1>0, BuiltFacts DEF Listing
  <2>5. listing.got = device[r]
    <3>1. /\ Len(listing.got) = Len(device[r])
          /\ \A i \in DOMAIN listing.got : listing.got[i] = device[r][i]
      BY <2>1 DEF Traversal, Described
    <3>. QED  BY <2>4, <3>1
  <2>6. /\ Orderly(device, Queue, visited)
        /\ ~failed => Complete(device, Queue, visited)
    BY DEF Traversal
  <2>7. r \in {Root} \cup Parts[Root] <=> r \in {Root} \cup Range(device[Root])
    <3>1. r \in Range(Queue)
      BY <1>0, <2>2, HeadAndTail
    <3>2. Standing(device, r)
      BY <2>6, <3>1 DEF Orderly
    <3>3. ASSUME NEW f \in Range(device[Root]), r \in Range(device[f])
          PROVE  r # Root /\ r \notin Parts[Root]
      <4>1. f \in Parents /\ f # Root /\ Root \in Parents /\ Range(device[f]) \subseteq Parts[f]
        BY <1>0, BuiltFacts
      <4>. QED  BY <3>3, <4>1, RemoteResourcesAssumption DEF Parents
    <3>4. Range(device[Root]) \subseteq Parts[Root]
      BY <1>0, BuiltFacts
    <3>. QED  BY <3>2, <3>3, <3>4 DEF Standing
  <2>8. CASE r \in {Root} \cup Parts[Root]
    <3>1. toList' = device[r] \o Tail(Queue) /\ visited' = visited
      BY <2>1, <2>2, <2>5, <2>8 DEF Listed
    <3>. QED  BY <1>0, <2>2, <2>6, <2>7, <2>8, <3>1, HeadExpanded
  <2>9. CASE r \notin {Root} \cup Parts[Root]
    <3>1. toList' = Tail(Queue) /\ visited' = visited \o Block(device, r)
      BY <2>1, <2>2, <2>5, <2>9 DEF Listed, Block
    <3>. QED  BY <1>0, <2>2, <2>6, <2>7, <2>9, <3>1, HeadVisited
  <2>. QED  BY <2>8, <2>9
<1>6. CASE ListingFails
  <2>1. /\ outcome' # "done" /\ failed' /\ ~listing'.on /\ Queue' = toList'
        /\ UNCHANGED <<device, changes>>
    BY <1>6 DEF ListingFails, NoCall, Queue
  <2>2. Queue # <<>> /\ toList' = Tail(Queue) /\ visited' = visited
    <3>1. CASE listing.on /\ Listed(listing.of, KeptOnFailure(listing.got))
      <4>1. <<>> \o toList = toList
        BY <1>0 DEF Lists
      <4>2. visited \o [i \in DOMAIN <<>> |-> <<listing.of, <<>>[i]>>] = visited
        <5>1. [i \in DOMAIN <<>> |-> <<listing.of, <<>>[i]>>] = <<>>
          OBVIOUS
        <5>. QED  BY <1>0, <5>1, ConcatEmptySeq
      <4>3. toList' = toList /\ visited' = visited
        BY <3>1, <4>1, <4>2 DEF Listed, KeptOnFailure
      <4>. QED  BY <1>0, <3>1, <4>3, QueueFacts
    <3>2. CASE ~listing.on /\ toList # <<>> /\ toList' = Tail(toList) /\ UNCHANGED <<visited, toSample>>
      BY <3>2 DEF Queue
    <3>. QED  BY <1>6, <3>1, <3>2 DEF ListingFails
  <2>3. changes = 0 => Orderly(device, Tail(Queue), visited)
    BY <1>0, <2>2, HeadSkipped DEF Traversal
  <2>. QED  BY <2>1, <2>2, <2>3 DEF Traversal, Described
<1>7. CASE AllVisited
  <2>1. Queue' = Queue
    BY <1>7 DEF AllVisited, Queue
  <2>. QED  BY <1>7, <2>1 DEF AllVisited, Traversal, Described
<1>8. CASE AskSampleCount \/ NextDownload
  BY <1>1, <1>8 DEF AskSampleCount, NextDownload
<1>9. CASE AskBatch \/ DownloadFails
  <2>1. outcome' # "done" /\ UNCHANGED <<device, listing, toList, visited, changes, failed>>
    BY <1>9 DEF AskBatch, DownloadFails
  <2>2. Queue' = Queue
    BY <2>1 DEF Queue
  <2>. QED  BY <2>1, <2>2 DEF Traversal, Described
<1>. QED  BY <1>1, <1>2, <1>3, <1>4, <1>5, <1>6, <1>7, <1>8, <1>9 DEF ResourceNext, resourceVars

\* On a device that is not rebuilt meanwhile, emitters are visited once and in
\* the order of the device, each source contributes all or none of its own, and
\* unless a request failed none is left out (scan and download_spectral_data),
\* whatever the device is made of.
THEOREM ListingsWholeOrNothing == ResourceSpec => []ListsWholeOrNothing
<1>. DEFINE Inv == TypeInv /\ Traversal
<1>1. Inv => ListsWholeOrNothing
  <2>. SUFFICES ASSUME TypeInv, Traversal, changes = 0 PROVE ListsWholeOrNothing
    BY DEF ListsWholeOrNothing
  <2>1. /\ Built(device) /\ visited \in Seq(Parents \X Resources)
    BY DEF TypeInv, Assembled, Lists
  <2>2. Orderly(device, Queue, visited)
    BY DEF Traversal
  <2>3. ASSUME NEW i \in DOMAIN visited, NEW j \in DOMAIN visited, i < j
        PROVE  ListedInOrder(device, visited[i], visited[j]) /\ visited[i] # visited[j]
    <3>1. ListedInOrder(device, visited[i], visited[j])
      BY <2>2, <2>3 DEF Orderly
    <3>2. visited[i][1] \in Parents
      BY <2>1
    <3>. QED  BY <2>1, <3>1, <3>2, InOrderStrictly
  <2>4. ASSUME outcome = "done", ~failed PROVE AllEmitters(device) \subseteq Range(visited)
    <3>1. Range(Queue) = {}
      BY <2>4 DEF Traversal, Queue, Range
    <3>2. \A f \in Range(device[Root]) : \A s \in Range(device[f]) :
            EmittersOf(device, s) \subseteq Range(visited)
      BY <2>4, <3>1 DEF Traversal, Complete
    <3>. QED  BY <3>2 DEF AllEmitters, SourcesOf
  <2>. QED  BY <2>2, <2>3, <2>4 DEF ListsWholeOrNothing, Orderly
<1>2. ResourceInit => Inv
  BY TypeInvInit, TraversalInit
<1>3. Inv /\ [ResourceNext]_resourceVars => Inv'
  BY TypeInvStep, TraversalStep
<1>. QED  BY <1>1, <1>2, <1>3, PTL DEF ResourceSpec
================================================================================
