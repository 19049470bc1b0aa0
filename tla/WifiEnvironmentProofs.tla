------------------------- MODULE WifiEnvironmentProofs -------------------------
(***************************************************************************)
(* The list of WiFi runtimes and what the application is told of it,       *)
(* whatever the number of hosts, callers, misses and connections and the   *)
(* size of the channel.                                                    *)
(***************************************************************************)
EXTENDS WifiEnvironment, TLAPS

(***************************************************************************)
(* Types                                                                   *)
(***************************************************************************)

\* A caller that holds a runtime holds one; before, it holds a host.
Held == Runtime \cup {NoRuntime} \cup [host : Hosts, nth : {0}]
CallerRecord == [at : {"idle", "remove", "disconnect", "report"}, rt : Held]

WifiTypes ==
  /\ TypeOK
  /\ caller \in [Callers -> CallerRecord]
  /\ \A c \in Callers : caller[c].at \in {"disconnect", "report"} => caller[c].rt \in Runtime

\* An element put into a queue is its last.
LEMMA QueueGrows ==
  ASSUME NEW S, NEW q \in Seq(S), NEW e \in S
  PROVE  /\ Append(q, e) \in Seq(S) /\ Len(Append(q, e)) = Len(q) + 1
         /\ ToSet(Append(q, e)) = ToSet(q) \cup {e}
<1>1. Append(q, e) \in Seq(S) /\ Len(Append(q, e)) = Len(q) + 1 /\ Len(q) \in Nat
  OBVIOUS
<1>2. \A i \in 1 .. Len(q) : Append(q, e)[i] = q[i]
  OBVIOUS
<1>3. Append(q, e)[Len(q) + 1] = e
  OBVIOUS
<1>4. DOMAIN q = 1 .. Len(q) /\ DOMAIN Append(q, e) = 1 .. (Len(q) + 1)
  BY <1>1
<1>5. ToSet(Append(q, e)) \subseteq ToSet(q) \cup {e}
  BY <1>1, <1>2, <1>3, <1>4 DEF ToSet
<1>6. ToSet(q) \cup {e} \subseteq ToSet(Append(q, e))
  BY <1>1, <1>2, <1>3, <1>4 DEF ToSet
<1>. QED  BY <1>1, <1>5, <1>6

\* An element taken out of a queue was its first.
LEMMA QueueShrinks ==
  ASSUME NEW S, NEW q \in Seq(S), q # <<>>
  PROVE  /\ Tail(q) \in Seq(S) /\ Len(Tail(q)) = Len(q) - 1 /\ Head(q) \in S
         /\ ToSet(q) = ToSet(Tail(q)) \cup {Head(q)}
<1>1. /\ Tail(q) \in Seq(S) /\ Len(q) \in Nat /\ Len(q) > 0 /\ Len(Tail(q)) = Len(q) - 1
      /\ Head(q) \in S
      /\ Head(q) = q[1] /\ \A i \in 1 .. Len(q) - 1 : Tail(q)[i] = q[i + 1]
  OBVIOUS
<1>2. DOMAIN q = 1 .. Len(q) /\ DOMAIN Tail(q) = 1 .. Len(q) - 1
  BY <1>1
<1>3. ASSUME NEW i \in 1 .. Len(q) PROVE q[i] \in ToSet(Tail(q)) \cup {Head(q)}
  <2>1. CASE i = 1
    BY <1>1, <2>1
  <2>2. CASE i # 1
    <3>1. i - 1 \in 1 .. Len(q) - 1 /\ Tail(q)[i - 1] = q[i]
      BY <1>1, <2>2
    <3>. QED  BY <1>2, <3>1 DEF ToSet
  <2>. QED  BY <2>1, <2>2
<1>4. ASSUME NEW i \in 1 .. Len(q) - 1 PROVE Tail(q)[i] \in ToSet(q)
  <2>1. i + 1 \in 1 .. Len(q) /\ Tail(q)[i] = q[i + 1]
    BY <1>1
  <2>. QED  BY <1>2, <2>1 DEF ToSet
<1>5. Head(q) \in ToSet(q)
  BY <1>1, <1>2 DEF ToSet
<1>. QED  BY <1>1, <1>2, <1>3, <1>4, <1>5 DEF ToSet

\* The elements of a queue are of its type.
LEMMA QueueType == ASSUME NEW S, NEW q \in Seq(S) PROVE ToSet(q) \subseteq S
BY DEF ToSet

\* The environment is made with some runtimes.
LEMMA WifiTypesInit == Init => WifiTypes
<1>. SUFFICES ASSUME Init PROVE WifiTypes
  OBVIOUS
<1>1. PICK found \in SUBSET Hosts :
        /\ connected = {[rt |-> r, missed |-> 0] : r \in {[host |-> h, nth |-> 1] : h \in found}}
        /\ opened = [h \in Hosts |-> IF h \in found THEN 1 ELSE 0]
        /\ up = {[host |-> h, nth |-> 1] : h \in found}
        /\ told = {Arrived(r) : r \in {[host |-> h, nth |-> 1] : h \in found}}
  BY WifiEnvironmentAssumption DEF Init
<1>2. \A h \in found : [host |-> h, nth |-> 1] \in Runtime
  BY WifiEnvironmentAssumption DEF Runtime
<1>3. connected \subseteq Entry /\ up \subseteq Runtime /\ told \subseteq RuntimeEvent
  BY <1>1, <1>2, WifiEnvironmentAssumption DEF Entry, Arrived, RuntimeEvent
<1>4. opened \in [Hosts -> 0 .. MaxRuntimes]
  BY <1>1, WifiEnvironmentAssumption
<1>5. Idle \in CallerRecord /\ Idle.at = "idle"
  BY DEF Idle, CallerRecord, Held
<1>6. <<>> \in Seq(RuntimeEvent) /\ Len(<<>>) = 0
  OBVIOUS
<1>7. TypeOK
  BY <1>3, <1>4, <1>5, <1>6, WifiEnvironmentAssumption DEF Init, TypeOK
<1>. QED  BY <1>5, <1>7 DEF Init, WifiTypes

\* What a drop does: what was listed is closed, and the runtimes that were
\* made meanwhile are left open.
LEMMA DropEffect ==
  ASSUME WifiTypes, DropEnvironment
  PROVE  \E rts \in SUBSET Runtime :
           /\ up' = (up \ Runtimes) \cup rts
           /\ unsent' = unsent \cup ToSet(out) \cup {Arrived(r) : r \in rts}
           /\ abandoned' = abandoned \cup leaving \cup rts
           /\ opened' \in [Hosts -> 0 .. MaxRuntimes]
           /\ \A r \in Runtime :
                r.nth <= opened'[r.host] <=> r.nth <= opened[r.host] \/ r \in rts
           /\ \A r \in rts : ~(r.nth <= opened[r.host])
<1>. USE WifiEnvironmentAssumption
<1>1. PICK late \in SUBSET joining :
        /\ \A h \in late : opened[h] < MaxRuntimes
        /\ opened' = [h \in Hosts |-> IF h \in late THEN opened[h] + 1 ELSE opened[h]]
        /\ up' = (up \ Runtimes) \cup {[host |-> h, nth |-> opened[h] + 1] : h \in late}
        /\ unsent' = unsent \cup ToSet(out)
                      \cup {Arrived(r) : r \in {[host |-> h, nth |-> opened[h] + 1] : h \in late}}
        /\ abandoned' = abandoned \cup leaving
                         \cup {[host |-> h, nth |-> opened[h] + 1] : h \in late}
  BY DEF DropEnvironment
<1>. DEFINE rts == {[host |-> h, nth |-> opened[h] + 1] : h \in late}
<1>2. late \subseteq Hosts /\ \A h \in Hosts : opened[h] \in 0 .. MaxRuntimes
  BY DEF WifiTypes, TypeOK
<1>3. opened' \in [Hosts -> 0 .. MaxRuntimes]
  BY <1>1, <1>2
<1>4. rts \subseteq Runtime
  BY <1>1, <1>2 DEF Runtime
<1>5. ASSUME NEW r \in Runtime
      PROVE  /\ r \in rts <=> r.host \in late /\ r.nth = opened[r.host] + 1
             /\ r.nth <= opened'[r.host] <=> r.nth <= opened[r.host] \/ r \in rts
  <2>1. r = [host |-> r.host, nth |-> r.nth] /\ r.host \in Hosts /\ r.nth \in Nat
    BY DEF Runtime
  <2>2. r \in rts <=> r.host \in late /\ r.nth = opened[r.host] + 1
    BY <2>1
  <2>3. opened'[r.host] = IF r.host \in late THEN opened[r.host] + 1 ELSE opened[r.host]
    BY <1>1, <2>1
  <2>4. opened[r.host] \in Nat
    BY <1>2, <2>1
  <2>. HIDE DEF rts
  <2>. QED  BY <2>1, <2>2, <2>3, <2>4
<1>6. \A r \in rts : ~(r.nth <= opened[r.host])
  BY <1>2
<1>. HIDE DEF rts
<1>. QED  BY <1>1, <1>3, <1>4, <1>5, <1>6 DEF rts

\* Every step keeps the types.
LEMMA WifiTypesStep == WifiTypes /\ [Next]_vars => WifiTypes'
<1>. SUFFICES ASSUME WifiTypes, [Next]_vars PROVE WifiTypes'
  OBVIOUS
<1>. USE WifiEnvironmentAssumption DEF WifiTypes, TypeOK, taskVars, history
<1>1. CASE StartDiscovery \/ Discover \/ ConnectDeviceFails \/ AllClosed \/ EndRound
  BY <1>1 DEF StartDiscovery, Discover, ConnectDeviceFails, AllClosed, EndRound
<1>2. CASE StopDiscovery
  <2>1. ToSet(out) \subseteq RuntimeEvent /\ <<>> \in Seq(RuntimeEvent)
    BY QueueType
  <2>. QED  BY <1>2, <2>1 DEF StopDiscovery
<1>3. CASE NextEvent
  <2>1. Tail(events) \in Seq(RuntimeEvent) /\ Len(Tail(events)) <= EventCap /\ Head(events) \in RuntimeEvent
    BY <1>3, QueueShrinks DEF NextEvent
  <2>. QED  BY <1>3, <2>1 DEF NextEvent
<1>4. ASSUME NEW h \in Hosts, CheckDevice(h) PROVE WifiTypes'
  <2>1. \A e \in connected : [e EXCEPT !.missed = 0] \in Entry
    BY DEF Entry
  <2>2. connected' \subseteq Entry
    BY <1>4, <2>1 DEF CheckDevice
  <2>3. seen' \subseteq Hosts /\ joining' \subseteq Hosts /\ todo' \subseteq Hosts
        /\ task' \in {"check", "connect"}
    BY <1>4 DEF CheckDevice
  <2>. QED  BY <1>4, <2>2, <2>3 DEF CheckDevice
<1>5. ASSUME NEW h \in Hosts, ConnectDevice(h) PROVE WifiTypes'
  <2>. DEFINE rt == [host |-> h, nth |-> opened[h] + 1]
  <2>1. opened' = [opened EXCEPT ![h] = opened[h] + 1] /\ opened[h] + 1 \in 1 .. MaxRuntimes
    BY <1>5 DEF ConnectDevice
  <2>2. opened' \in [Hosts -> 0 .. MaxRuntimes] /\ opened'[h] = opened[h] + 1
    BY <2>1
  <2>3. rt \in Runtime /\ [rt |-> rt, missed |-> 0] \in Entry /\ Arrived(rt) \in RuntimeEvent
    BY <2>1 DEF Runtime, Entry, RuntimeEvent, Arrived
  <2>4. /\ up' = up \cup {rt}
        /\ connected' \in {connected, connected \cup {[rt |-> rt, missed |-> 0]}}
        /\ out' \in {out, Append(out, Arrived(rt))}
    BY <1>5, <2>2 DEF ConnectDevice
  <2>. HIDE DEF rt
  <2>5. out' \in Seq(RuntimeEvent)
    <3>1. Append(out, Arrived(rt)) \in Seq(RuntimeEvent)
      BY <2>3, QueueGrows
    <3>. QED  BY <2>4, <3>1
  <2>. QED  BY <1>5, <2>2, <2>3, <2>4, <2>5 DEF ConnectDevice
<1>6. CASE CountMisses
  <2>1. connected' \subseteq Entry
    <3>. SUFFICES ASSUME NEW e \in connected,
                         ~TooMany(IF e.rt.host \in seen THEN 0 ELSE e.missed + 1)
                  PROVE  [e EXCEPT !.missed = IF e.rt.host \in seen THEN 0 ELSE e.missed + 1] \in Entry
      BY <1>6 DEF CountMisses
    <3>. QED  BY DEF TooMany, Entry
  <2>2. leaving' \subseteq Runtime
    BY <1>6 DEF CountMisses, Entry
  <2>. QED  BY <1>6, <2>1, <2>2 DEF CountMisses
<1>7. ASSUME NEW rt \in Runtime, CloseMissing(rt) PROVE WifiTypes'
  <2>1. Left(rt) \in RuntimeEvent
    BY DEF Left, RuntimeEvent
  <2>2. out' \in Seq(RuntimeEvent)
    BY <1>7, <2>1 DEF CloseMissing
  <2>. QED  BY <1>7, <2>2 DEF CloseMissing
<1>8. CASE SendEvent
  <2>1. Head(out) \in RuntimeEvent /\ Tail(out) \in Seq(RuntimeEvent)
    BY <1>8, QueueShrinks DEF SendEvent
  <2>2. events' \in Seq(RuntimeEvent) /\ Len(events') <= EventCap
    BY <1>8, <2>1, QueueGrows DEF SendEvent
  <2>. QED  BY <1>8, <2>1, <2>2 DEF SendEvent
<1>9. ASSUME NEW c \in Callers, NEW h \in Hosts, Exclude(c, h) PROVE WifiTypes'
  <2>1. [at |-> "remove", rt |-> [host |-> h, nth |-> 0]] \in CallerRecord
    BY DEF CallerRecord, Held
  <2>. QED  BY <1>9, <2>1 DEF Exclude, Goto
<1>10. ASSUME NEW c \in Callers, ExcludeRemoves(c) PROVE WifiTypes'
  <2>1. Idle \in CallerRecord /\ Idle.at = "idle"
    BY DEF Idle, CallerRecord, Held
  <2>2. \A e \in connected : [at |-> "disconnect", rt |-> e.rt] \in CallerRecord /\ e.rt \in Runtime
    BY DEF CallerRecord, Held, Entry
  <2>3. \/ caller' = [caller EXCEPT ![c] = Idle]
        \/ \E e \in connected : caller' = [caller EXCEPT ![c] = [at |-> "disconnect", rt |-> e.rt]]
    BY <1>10 DEF ExcludeRemoves, Goto
  <2>4. caller' \in [Callers -> CallerRecord]
        /\ \A d \in Callers : caller'[d].at \in {"disconnect", "report"} => caller'[d].rt \in Runtime
    BY <2>1, <2>2, <2>3
  <2>5. \A d \in Callers : caller'[d].at \in {"idle", "remove", "disconnect", "report"}
    BY <2>4 DEF CallerRecord
  <2>6. connected' \subseteq connected
        /\ UNCHANGED <<excluded, events, opened, up, taskVars, history>>
    BY <1>10 DEF ExcludeRemoves
  <2>. QED  BY <2>4, <2>5, <2>6
<1>11. ASSUME NEW c \in Callers, ExcludeDisconnects(c) PROVE WifiTypes'
  <2>1. [at |-> "report", rt |-> caller[c].rt] \in CallerRecord /\ caller[c].rt \in Runtime
    BY <1>11 DEF ExcludeDisconnects, CallerRecord
  <2>. QED  BY <1>11, <2>1 DEF ExcludeDisconnects, Goto
<1>12. ASSUME NEW c \in Callers, ExcludeReports(c) PROVE WifiTypes'
  <2>1. Left(caller[c].rt) \in RuntimeEvent
    BY <1>12 DEF ExcludeReports, Left, RuntimeEvent
  <2>2. events' \in Seq(RuntimeEvent) /\ Len(events') <= EventCap /\ unsent' \subseteq RuntimeEvent
    <3>1. CASE events' = Append(events, Left(caller[c].rt)) /\ Len(events) < EventCap /\ UNCHANGED unsent
      BY <2>1, <3>1, QueueGrows
    <3>2. CASE events' = events /\ unsent' = unsent \cup {Left(caller[c].rt)}
      BY <2>1, <3>2
    <3>. QED  BY <1>12, <3>1, <3>2 DEF ExcludeReports
  <2>3. Idle \in CallerRecord /\ Idle.at = "idle"
    BY DEF Idle, CallerRecord, Held
  <2>. QED  BY <1>12, <2>2, <2>3 DEF ExcludeReports
<1>13. ASSUME NEW h \in Hosts, RemoveExclusion(h) PROVE WifiTypes'
  BY <1>13 DEF RemoveExclusion
<1>14. CASE Gone \/ UNCHANGED vars
  BY <1>14 DEF vars, Gone
<1>15. CASE DropEnvironment
  <2>1. PICK rts \in SUBSET Runtime :
          /\ up' = (up \ Runtimes) \cup rts
          /\ unsent' = unsent \cup ToSet(out) \cup {Arrived(r) : r \in rts}
          /\ abandoned' = abandoned \cup leaving \cup rts
          /\ opened' \in [Hosts -> 0 .. MaxRuntimes]
    BY <1>15, DropEffect
  <2>2. ToSet(out) \subseteq RuntimeEvent
    BY QueueType
  <2>3. \A r \in Runtime : Arrived(r) \in RuntimeEvent
    BY DEF Arrived, RuntimeEvent
  <2>4. unsent' \subseteq RuntimeEvent /\ up' \subseteq Runtime /\ abandoned' \subseteq Runtime
    BY <2>1, <2>2, <2>3
  <2>5. /\ task' = "dropped" /\ out' = <<>> /\ UNCHANGED <<excluded, connected, events, caller, told>>
        /\ snapshot' = {} /\ todo' = {} /\ joining' = {} /\ seen' = {} /\ leaving' = {}
    BY <1>15 DEF DropEnvironment
  <2>6. <<>> \in Seq(RuntimeEvent)
    OBVIOUS
  <2>. QED  BY <2>1, <2>4, <2>5, <2>6
<1>16. ASSUME NEW c \in Callers, DropExclude(c) PROVE WifiTypes'
  <2>1. caller[c].rt \in Runtime /\ Left(caller[c].rt) \in RuntimeEvent
    BY <1>16 DEF DropExclude, Left, RuntimeEvent
  <2>2. Idle \in CallerRecord /\ Idle.at = "idle"
    BY DEF Idle, CallerRecord, Held
  <2>. QED  BY <1>16, <2>1, <2>2 DEF DropExclude
<1>. QED  BY <1>1, <1>2, <1>3, <1>4, <1>5, <1>6, <1>7, <1>8, <1>9, <1>10, <1>11, <1>12, <1>13, <1>14,
             <1>15, <1>16
          DEF Next, TaskStep, AppStep, ExcludeStep

\* Type correctness of the environment.
THEOREM WifiTypeCorrect == Spec => []TypeOK
<1>1. WifiTypes => TypeOK
  BY DEF WifiTypes
<1>. QED  BY WifiTypesInit, WifiTypesStep, <1>1, PTL DEF Spec

(***************************************************************************)
(* The list                                                                *)
(***************************************************************************)

\* The host the task is connecting to has no entry: only the task makes one.
\* Runtimes wait to be disconnected only while the task is at it.
TaskInv ==
  /\ task = "connect" => \A h \in joining : ~HasEntry(h)
  /\ task # "close" => leaving = {}

\* The runtimes callers are disconnecting or about to report.
Handled(rt) ==
  \E c \in Callers : caller[c].at \in {"disconnect", "report"} /\ caller[c].rt = rt
Closing(rt) == \E c \in Callers : caller[c].at = "disconnect" /\ caller[c].rt = rt

ListInv == WifiTypes /\ TaskInv /\ OneRuntimePerHost

\* At first each host has one runtime.
LEMMA ListInit == Init => ListInv
<1>. SUFFICES ASSUME Init PROVE ListInv
  OBVIOUS
<1>1. PICK found :
        connected = {[rt |-> r, missed |-> 0] : r \in {[host |-> h, nth |-> 1] : h \in found}}
  BY DEF Init
<1>2. OneRuntimePerHost
  BY <1>1 DEF OneRuntimePerHost
<1>3. TaskInv
  BY DEF Init, TaskInv
<1>. QED  BY <1>2, <1>3, WifiTypesInit DEF ListInv

\* Every step keeps it: an entry is only made for a host without one.
LEMMA ListStep == ListInv /\ [Next]_vars => ListInv'
<1>. SUFFICES ASSUME ListInv, [Next]_vars PROVE TaskInv' /\ OneRuntimePerHost'
  BY WifiTypesStep DEF ListInv
<1>0. WifiTypes /\ TypeOK /\ TaskInv /\ OneRuntimePerHost
  BY DEF ListInv, WifiTypes
<1>1. ASSUME NEW h \in Hosts, CheckDevice(h) PROVE TaskInv' /\ OneRuntimePerHost'
  <2>1. CASE Skipped(h)
    BY <1>0, <1>1, <2>1 DEF CheckDevice, TaskInv, OneRuntimePerHost, HasEntry
  <2>2. CASE ~Skipped(h)
    <3>1. /\ connected' = {IF e.rt.host = h THEN [e EXCEPT !.missed = 0] ELSE e : e \in connected}
          /\ joining' = (IF HasEntry(h) THEN {} ELSE {h}) /\ leaving' = leaving
          /\ task = "check" /\ task' \in {"check", "connect"}
      BY <1>1, <2>2 DEF CheckDevice
    <3>2. \A e \in connected : [e EXCEPT !.missed = 0].rt = e.rt
      BY <1>0 DEF TypeOK, Entry
    <3>3. OneRuntimePerHost'
      <4>. SUFFICES ASSUME NEW d \in connected', NEW e \in connected', d.rt.host = e.rt.host
                    PROVE  d = e
        BY DEF OneRuntimePerHost
      <4>1. PICK d0 \in connected : d = IF d0.rt.host = h THEN [d0 EXCEPT !.missed = 0] ELSE d0
        BY <3>1
      <4>2. PICK e0 \in connected : e = IF e0.rt.host = h THEN [e0 EXCEPT !.missed = 0] ELSE e0
        BY <3>1
      <4>3. d.rt = d0.rt /\ e.rt = e0.rt
        BY <3>2, <4>1, <4>2
      <4>4. d0 = e0
        BY <1>0, <4>3 DEF OneRuntimePerHost
      <4>. QED  BY <4>1, <4>2, <4>4
    <3>4. HasEntry(h)' <=> HasEntry(h)
      BY <3>1, <3>2 DEF HasEntry
    <3>. QED  BY <1>0, <3>1, <3>3, <3>4 DEF TaskInv
  <2>. QED  BY <2>1, <2>2
<1>2. ASSUME NEW h \in Hosts, ConnectDevice(h) PROVE TaskInv' /\ OneRuntimePerHost'
  <2>1. /\ ~HasEntry(h) /\ leaving' = leaving /\ task' = "check" /\ task = "connect"
    BY <1>0, <1>2 DEF ConnectDevice, TaskInv
  <2>2. \E rt : rt.host = h /\ connected' = connected \cup {[rt |-> rt, missed |-> 0]}
    BY <1>2, <2>1 DEF ConnectDevice
  <2>3. OneRuntimePerHost'
    BY <1>0, <2>1, <2>2 DEF OneRuntimePerHost, HasEntry
  <2>. QED  BY <1>0, <2>1, <2>3 DEF TaskInv
<1>3. CASE CountMisses
  <2>. DEFINE missed(e) == IF e.rt.host \in seen THEN 0 ELSE e.missed + 1
              gone == {e \in connected : TooMany(missed(e))}
  <2>1. connected' = {[e EXCEPT !.missed = missed(e)] : e \in connected \ gone} /\ task' = "close"
    BY <1>3 DEF CountMisses
  <2>2. \A e \in connected : [e EXCEPT !.missed = missed(e)].rt = e.rt
    BY <1>0 DEF TypeOK, Entry
  <2>. HIDE DEF missed, gone
  <2>3. OneRuntimePerHost'
    <3>. SUFFICES ASSUME NEW d \in connected', NEW e \in connected', d.rt.host = e.rt.host
                  PROVE  d = e
      BY DEF OneRuntimePerHost
    <3>1. PICK d0 \in connected : d = [d0 EXCEPT !.missed = missed(d0)]
      BY <2>1
    <3>2. PICK e0 \in connected : e = [e0 EXCEPT !.missed = missed(e0)]
      BY <2>1
    <3>3. d.rt = d0.rt /\ e.rt = e0.rt
      BY <2>2, <3>1, <3>2
    <3>4. d0 = e0
      BY <1>0, <3>3 DEF OneRuntimePerHost
    <3>. QED  BY <3>1, <3>2, <3>4
  <2>. QED  BY <2>1, <2>3 DEF TaskInv
<1>4. ASSUME NEW c \in Callers, ExcludeRemoves(c) PROVE TaskInv' /\ OneRuntimePerHost'
  BY <1>0, <1>4 DEF ExcludeRemoves, TaskInv, OneRuntimePerHost, HasEntry, taskVars
<1>5. CASE \/ StartDiscovery \/ StopDiscovery \/ DropEnvironment
           \/ Discover \/ ConnectDeviceFails \/ AllClosed \/ EndRound
  BY <1>0, <1>5
     DEF StartDiscovery, StopDiscovery, DropEnvironment, Discover, ConnectDeviceFails, AllClosed, EndRound,
         TaskInv, OneRuntimePerHost
<1>6. CASE NextEvent \/ SendEvent \/ (\E rt \in Runtime : CloseMissing(rt))
  BY <1>0, <1>6 DEF NextEvent, SendEvent, CloseMissing, TaskInv, OneRuntimePerHost, HasEntry, taskVars
<1>7. ASSUME NEW c \in Callers,
             \/ \E h \in Hosts : Exclude(c, h)
             \/ ExcludeDisconnects(c) \/ DropExclude(c) \/ ExcludeReports(c)
      PROVE  TaskInv' /\ OneRuntimePerHost'
  BY <1>0, <1>7 DEF Exclude, ExcludeDisconnects, DropExclude, ExcludeReports, TaskInv, OneRuntimePerHost, HasEntry,
                    taskVars
<1>8. CASE (\E h \in Hosts : RemoveExclusion(h)) \/ Gone \/ UNCHANGED vars
  BY <1>0, <1>8 DEF RemoveExclusion, Gone, vars, TaskInv, OneRuntimePerHost, HasEntry, taskVars
<1>. QED  BY <1>1, <1>2, <1>3, <1>4, <1>5, <1>6, <1>7, <1>8 DEF Next, TaskStep, AppStep, ExcludeStep

\* Main result: a host has one runtime in the list, whatever the order of
\* discoveries, misses and exclusions (wifi.rs).
THEOREM OneWifiRuntime == Spec => []OneRuntimePerHost
<1>1. ListInv => OneRuntimePerHost
  BY DEF ListInv
<1>. QED  BY ListInit, ListStep, <1>1, PTL DEF Spec

(***************************************************************************)
(* Open connections                                                        *)
(***************************************************************************)

\* At first what is open is listed.
LEMMA WifiLeaksInit == Init => NoConnectionLeaks
<1>. SUFFICES ASSUME Init PROVE up \subseteq Runtimes
  BY DEF NoConnectionLeaks, Init
<1>1. connected = {[rt |-> r, missed |-> 0] : r \in up}
  BY DEF Init
<1>2. \A r : [rt |-> r, missed |-> 0].rt = r
  OBVIOUS
<1>. QED  BY <1>1, <1>2 DEF Runtimes

\* After the drop only callers still at a disconnect are at work.
LEMMA WifiLeaksDropped ==
  ListInv /\ NoConnectionLeaks /\ [Next]_vars /\ task = "dropped" => NoConnectionLeaks'
<1>. SUFFICES ASSUME ListInv, NoConnectionLeaks, [Next]_vars, task = "dropped", NEW rt \in up'
              PROVE  rt \in abandoned' \/ Closing(rt)'
  BY DEF NoConnectionLeaks, Closing
<1>0. WifiTypes
  BY DEF ListInv
<1>1. rt \in up => rt \in abandoned \/ Closing(rt)
  BY DEF NoConnectionLeaks, Closing
<1>2. ASSUME NEW c \in Callers, ExcludeRemoves(c) PROVE rt \in abandoned' \/ Closing(rt)'
  <2>1. /\ UNCHANGED <<up, abandoned>>
        /\ \A d \in Callers : caller[d].at = "disconnect" => caller'[d] = caller[d]
    BY <1>0, <1>2 DEF ExcludeRemoves, Goto, WifiTypes, taskVars, history
  <2>. QED  BY <1>1, <2>1 DEF Closing
<1>3. ASSUME NEW c \in Callers, ExcludeDisconnects(c) \/ DropExclude(c)
      PROVE  rt \in abandoned' \/ Closing(rt)'
  <2>1. \/ up' = up \ {caller[c].rt} /\ abandoned' = abandoned
        \/ up' = up /\ abandoned' = abandoned \cup {caller[c].rt}
    BY <1>3 DEF ExcludeDisconnects, DropExclude, taskVars, history
  <2>2. \A d \in Callers \ {c} : caller'[d] = caller[d]
    BY <1>0, <1>3 DEF ExcludeDisconnects, DropExclude, Goto, WifiTypes
  <2>. QED  BY <1>1, <2>1, <2>2 DEF Closing
<1>4. ASSUME NEW c \in Callers, ExcludeReports(c) PROVE rt \in abandoned' \/ Closing(rt)'
  <2>1. /\ UNCHANGED <<up, abandoned>>
        /\ \A d \in Callers : caller[d].at = "disconnect" => caller'[d] = caller[d]
    BY <1>0, <1>4 DEF ExcludeReports, WifiTypes, taskVars
  <2>. QED  BY <1>1, <2>1 DEF Closing
<1>5. CASE Gone \/ UNCHANGED vars
  BY <1>1, <1>5 DEF Gone, vars, history, Closing
<1>6. ~TaskStep
  BY DEF TaskStep, Discover, CheckDevice, ConnectDevice, ConnectDeviceFails, CountMisses, CloseMissing,
         AllClosed, SendEvent, EndRound
<1>7. ~(StartDiscovery \/ StopDiscovery \/ DropEnvironment \/ NextEvent)
      /\ \A h \in Hosts : ~RemoveExclusion(h) /\ \A c \in Callers : ~Exclude(c, h)
  BY DEF StartDiscovery, StopDiscovery, DropEnvironment, NextEvent, RemoveExclusion, Exclude
<1>. QED  BY <1>2, <1>3, <1>4, <1>5, <1>6, <1>7 DEF Next, AppStep, ExcludeStep

\* Before, only the drop itself leaves a listed runtime to nobody.
LEMMA NotDropped ==
  ASSUME [Next]_vars, task # "dropped", ~DropEnvironment PROVE task' # "dropped"
<1>1. TaskStep => task' # "dropped"
  BY DEF TaskStep, Discover, CheckDevice, ConnectDevice, ConnectDeviceFails, CountMisses, CloseMissing,
         AllClosed, SendEvent, EndRound
<1>2. AppStep => task' # "dropped"
  BY DEF AppStep, StartDiscovery, StopDiscovery, Gone, NextEvent, RemoveExclusion, taskVars
<1>3. ASSUME NEW c \in Callers, ExcludeStep(c) PROVE task' = task
  BY <1>3 DEF ExcludeStep, Exclude, ExcludeRemoves, ExcludeDisconnects, DropExclude, ExcludeReports,
              taskVars
<1>. QED  BY <1>1, <1>2, <1>3 DEF Next, vars, taskVars

\* How the steps move an open connection from the list to somebody who closes
\* it.
LEMMA WifiLeaksStep == ListInv /\ NoConnectionLeaks /\ [Next]_vars => NoConnectionLeaks'
<1>. SUFFICES ASSUME ListInv, NoConnectionLeaks, [Next]_vars, task # "dropped"
              PROVE  NoConnectionLeaks'
  BY WifiLeaksDropped
<1>a. CASE DropEnvironment
  <2>1. PICK rts \in SUBSET Runtime :
          up' = (up \ Runtimes) \cup rts /\ abandoned' = abandoned \cup leaving \cup rts
    BY <1>a, DropEffect DEF ListInv
  <2>2. \A c \in Callers : caller[c].at # "disconnect"
    BY <1>a DEF DropEnvironment, NobodyInside, Idle
  <2>3. up \subseteq Runtimes \cup leaving \cup abandoned
    BY <2>2 DEF NoConnectionLeaks
  <2>. QED  BY <2>1, <2>3 DEF NoConnectionLeaks
<1>. SUFFICES ASSUME ~DropEnvironment, NEW rt \in up'
              PROVE  rt \in Runtimes' \cup leaving' \cup abandoned' \/ Closing(rt)'
  BY <1>a, NotDropped DEF NoConnectionLeaks, Closing
<1>0. WifiTypes /\ TypeOK /\ TaskInv /\ OneRuntimePerHost
  BY DEF ListInv, WifiTypes
<1>00. rt \in up => rt \in Runtimes \cup leaving \cup abandoned \/ Closing(rt)
  BY DEF NoConnectionLeaks, Closing
<1>1. ASSUME NEW h \in Hosts, CheckDevice(h) PROVE rt \in Runtimes' \cup leaving' \cup abandoned' \/ Closing(rt)'
  <2>1. Runtimes' = Runtimes
    <3>1. CASE Skipped(h)
      BY <1>1, <3>1 DEF CheckDevice, Runtimes
    <3>2. CASE ~Skipped(h)
      <4>1. connected' = {IF e.rt.host = h THEN [e EXCEPT !.missed = 0] ELSE e : e \in connected}
        BY <1>1, <3>2 DEF CheckDevice
      <4>2. \A e \in connected : [e EXCEPT !.missed = 0].rt = e.rt
        BY <1>0 DEF TypeOK, Entry
      <4>. QED  BY <4>1, <4>2 DEF Runtimes
    <3>. QED  BY <3>1, <3>2
  <2>2. UNCHANGED <<up, leaving, abandoned, caller>>
    BY <1>1 DEF CheckDevice, history
  <2>. QED  BY <1>00, <2>1, <2>2 DEF Closing
<1>2. ASSUME NEW h \in Hosts, ConnectDevice(h)
      PROVE  rt \in Runtimes' \cup leaving' \cup abandoned' \/ Closing(rt)'
  <2>1. ~HasEntry(h) /\ UNCHANGED <<leaving, abandoned, caller>>
    BY <1>0, <1>2 DEF ConnectDevice, TaskInv, history
  <2>2. \E r : up' = up \cup {r} /\ connected' = connected \cup {[rt |-> r, missed |-> 0]}
    BY <1>2, <2>1 DEF ConnectDevice
  <2>3. Runtimes \subseteq Runtimes' /\ up' \subseteq up \cup Runtimes'
    <3>1. PICK r : up' = up \cup {r} /\ connected' = connected \cup {[rt |-> r, missed |-> 0]}
      BY <2>2
    <3>2. [rt |-> r, missed |-> 0].rt = r
      OBVIOUS
    <3>3. r \in Runtimes'
      BY <3>1, <3>2 DEF Runtimes
    <3>4. Runtimes \subseteq Runtimes'
      BY <3>1 DEF Runtimes
    <3>. QED  BY <3>1, <3>3, <3>4
  <2>. QED  BY <1>00, <2>1, <2>3 DEF Closing
<1>3. CASE CountMisses
  <2>. DEFINE missed(e) == IF e.rt.host \in seen THEN 0 ELSE e.missed + 1
              gone == {e \in connected : TooMany(missed(e))}
  <2>1. /\ connected' = {[e EXCEPT !.missed = missed(e)] : e \in connected \ gone}
        /\ leaving' = {e.rt : e \in gone} /\ task = "check" /\ UNCHANGED <<up, abandoned, caller>>
    BY <1>3 DEF CountMisses, history
  <2>2. \A e \in connected : [e EXCEPT !.missed = missed(e)].rt = e.rt
    BY <1>0 DEF TypeOK, Entry
  <2>. HIDE DEF missed, gone
  <2>3. Runtimes \subseteq Runtimes' \cup leaving' /\ leaving = {}
    BY <1>0, <2>1, <2>2 DEF Runtimes, TaskInv
  <2>. QED  BY <1>00, <2>1, <2>3 DEF Closing
<1>4. ASSUME NEW c \in Callers, ExcludeRemoves(c)
      PROVE  rt \in Runtimes' \cup leaving' \cup abandoned' \/ Closing(rt)'
  <2>. DEFINE gone == {e \in connected : e.rt.host = caller[c].rt.host}
  <2>1. /\ connected' = connected \ gone /\ caller[c].at = "remove"
        /\ \/ gone = {} /\ caller' = [caller EXCEPT ![c] = Idle]
           \/ \E e \in gone : caller' = [caller EXCEPT ![c] = [at |-> "disconnect", rt |-> e.rt]]
        /\ UNCHANGED <<up, leaving, abandoned>>
    BY <1>4 DEF ExcludeRemoves, Goto, taskVars, history
  <2>2. \A d, e \in gone : d = e
    BY <1>0 DEF OneRuntimePerHost
  <2>3. \A d \in Callers : caller[d].at = "disconnect" => caller'[d] = caller[d]
    BY <1>0, <2>1 DEF WifiTypes
  <2>4. Closing(rt) => Closing(rt)'
    BY <2>3 DEF Closing
  <2>5. \A e \in gone : Closing(e.rt)'
    BY <1>0, <2>1, <2>2 DEF WifiTypes, Closing
  <2>. HIDE DEF gone
  <2>6. rt \in Runtimes => rt \in Runtimes' \/ \E e \in gone : rt = e.rt
    BY <2>1 DEF Runtimes
  <2>. QED  BY <1>00, <2>1, <2>4, <2>5, <2>6
<1>5. ASSUME NEW c \in Callers, ExcludeDisconnects(c)
      PROVE  rt \in Runtimes' \cup leaving' \cup abandoned' \/ Closing(rt)'
  <2>1. /\ up' = up \ {caller[c].rt} /\ UNCHANGED <<connected, leaving, abandoned>>
        /\ \A d \in Callers \ {c} : caller'[d] = caller[d]
    BY <1>0, <1>5 DEF ExcludeDisconnects, Goto, WifiTypes, taskVars, history
  <2>2. Closing(rt) => Closing(rt)'
    BY <2>1 DEF Closing
  <2>. QED  BY <1>00, <2>1, <2>2 DEF Runtimes
<1>b. ASSUME NEW c \in Callers, DropExclude(c)
      PROVE  rt \in Runtimes' \cup leaving' \cup abandoned' \/ Closing(rt)'
  <2>1. /\ \/ up' = up \ {caller[c].rt} /\ abandoned' = abandoned
           \/ up' = up /\ abandoned' = abandoned \cup {caller[c].rt}
        /\ UNCHANGED <<connected, leaving>>
        /\ \A d \in Callers \ {c} : caller'[d] = caller[d]
    BY <1>0, <1>b DEF DropExclude, WifiTypes, taskVars
  <2>. QED  BY <1>00, <2>1 DEF Runtimes, Closing
<1>6. ASSUME NEW c \in Callers, (\E h \in Hosts : Exclude(c, h)) \/ ExcludeReports(c)
      PROVE  rt \in Runtimes' \cup leaving' \cup abandoned' \/ Closing(rt)'
  <2>1. /\ UNCHANGED <<up, connected, leaving, abandoned>>
        /\ \A d \in Callers : caller[d].at = "disconnect" => caller'[d] = caller[d]
    BY <1>0, <1>6 DEF Exclude, ExcludeReports, Goto, WifiTypes, Idle, taskVars, history
  <2>. QED  BY <1>00, <2>1 DEF Runtimes, Closing
<1>7. ASSUME NEW r \in Runtime, CloseMissing(r)
      PROVE  rt \in Runtimes' \cup leaving' \cup abandoned' \/ Closing(rt)'
  BY <1>00, <1>7 DEF CloseMissing, Runtimes, Closing, history
<1>8. CASE StopDiscovery
  BY <1>00, <1>8 DEF StopDiscovery, Runtimes, Closing
<1>9. CASE UNCHANGED <<up, connected, leaving, abandoned, caller>>
  BY <1>00, <1>9 DEF Runtimes, Closing
<1>10. CASE \/ StartDiscovery \/ Discover \/ ConnectDeviceFails \/ AllClosed \/ EndRound
            \/ NextEvent \/ SendEvent \/ (\E h \in Hosts : RemoveExclusion(h)) \/ Gone \/ UNCHANGED vars
  BY <1>9, <1>10 DEF Gone, StartDiscovery, Discover, ConnectDeviceFails, AllClosed, EndRound, NextEvent,
                     SendEvent, RemoveExclusion, vars, taskVars, history
<1>. QED  BY <1>1, <1>2, <1>3, <1>4, <1>5, <1>b, <1>6, <1>7, <1>8, <1>10
          DEF Next, TaskStep, AppStep, ExcludeStep

\* Main result: whoever takes an open connection off the list closes it,
\* unless the task is aborted half-way (wifi.rs).
THEOREM NoWifiConnectionLeaks == Spec => []NoConnectionLeaks
<1>. QED  BY ListInit, ListStep, WifiLeaksInit, WifiLeaksStep, PTL DEF Spec

(***************************************************************************)
(* Reports                                                                 *)
(***************************************************************************)

\* What the application was, or is about to be told; with what was lost.
Deliverable == told \cup ToSet(events) \cup ToSet(out)
Reports == Deliverable \cup unsent

Made(rt) == rt.nth <= opened[rt.host]
Somewhere(rt) == rt \in Runtimes \cup leaving \cup abandoned \/ Handled(rt)

\* A runtime that was made was reported, and is somewhere or reported as left.
\* Once it leaves the list it is not in it again; once it is reported as left
\* it is closed.  A runtime not yet made is nowhere.
Followed(rt) ==
  /\ Made(rt) => Arrived(rt) \in Reports /\ (Somewhere(rt) \/ Left(rt) \in Reports)
  /\ Left(rt) \in Deliverable => rt \notin up \cup Runtimes
  /\ rt \in leaving \/ Handled(rt) => rt \notin Runtimes
  /\ \A c \in Callers : caller[c].at = "report" => caller[c].rt # rt \/ rt \notin up
  /\ rt \in up \cup Runtimes \cup leaving \/ Handled(rt) \/ Left(rt) \in Deliverable => Made(rt)

FollowInv == ListInv /\ \A rt \in Runtime : Followed(rt)

\* At first the application knows what there is.
LEMMA FollowInit == Init => FollowInv
<1>. SUFFICES ASSUME Init, NEW rt \in Runtime PROVE Followed(rt)
  BY ListInit DEF FollowInv
<1>1. PICK found :
        /\ connected = {[rt |-> r, missed |-> 0] : r \in {[host |-> h, nth |-> 1] : h \in found}}
        /\ opened = [h \in Hosts |-> IF h \in found THEN 1 ELSE 0]
        /\ up = {[host |-> h, nth |-> 1] : h \in found}
        /\ told = {Arrived(r) : r \in {[host |-> h, nth |-> 1] : h \in found}}
  BY DEF Init
<1>2. /\ events = <<>> /\ out = <<>> /\ unsent = {} /\ leaving = {} /\ abandoned = {}
      /\ \A c \in Callers : caller[c].at = "idle"
  BY DEF Init, Idle
<1>3. Deliverable = told /\ Reports = told
  BY <1>2 DEF Deliverable, Reports, ToSet
<1>4. Runtimes = up
  <2>1. \A r : [rt |-> r, missed |-> 0].rt = r
    OBVIOUS
  <2>2. connected = {[rt |-> r, missed |-> 0] : r \in up}
    BY <1>1
  <2>3. Runtimes \subseteq up
    BY <2>1, <2>2 DEF Runtimes
  <2>4. up \subseteq Runtimes
    BY <2>1, <2>2 DEF Runtimes
  <2>. QED  BY <2>3, <2>4
<1>5. \A r, q : Arrived(r).kind # "left" /\ Left(q).kind = "left"
  BY DEF Arrived, Left
<1>6. Left(rt) \notin Deliverable
  BY <1>1, <1>3, <1>5
<1>7. rt \in up <=> Made(rt)
  BY <1>1 DEF Made, Runtime
<1>8. rt \in up => Arrived(rt) \in Reports
  BY <1>1, <1>3
<1>. QED  BY <1>2, <1>4, <1>6, <1>7, <1>8 DEF Followed, Somewhere, Handled

\* A step that makes no runtime, moves none and reports none as left.
LEMMA NothingMoves ==
  ASSUME NEW rt \in Runtime, Followed(rt), Made(rt)' <=> Made(rt),
         Reports \subseteq Reports', Deliverable' \subseteq Deliverable,
         rt \in up' => rt \in up, Runtimes' \subseteq Runtimes, leaving' \subseteq leaving,
         Somewhere(rt) => Somewhere(rt)',
         Handled(rt)' => Handled(rt),
         \A c \in Callers : caller'[c].at = "report" => caller'[c] = caller[c]
  PROVE  Followed(rt)'
BY DEF Followed

\* Checking a device and counting misses do not change what a kept entry is of.
LEMMA EntryKeepsRuntime ==
  ASSUME WifiTypes, NEW e \in connected, NEW m PROVE [e EXCEPT !.missed = m].rt = e.rt
BY DEF WifiTypes, TypeOK, Entry

\* Every step follows every runtime.
LEMMA FollowStep == FollowInv /\ [Next]_vars => FollowInv'
<1>. SUFFICES ASSUME FollowInv, [Next]_vars, NEW rt \in Runtime PROVE Followed(rt)'
  BY ListStep DEF FollowInv
<1>0. WifiTypes /\ TypeOK /\ TaskInv /\ OneRuntimePerHost /\ Followed(rt)
  BY DEF ListInv, WifiTypes, FollowInv
<1>1. CASE UNCHANGED <<up, opened, leaving, abandoned, caller, events, out, told, unsent>>
           /\ Runtimes' = Runtimes
  BY <1>0, <1>1, NothingMoves DEF Made, Reports, Deliverable, Somewhere, Handled
<1>2. CASE \/ StartDiscovery \/ Discover \/ ConnectDeviceFails \/ AllClosed \/ EndRound
           \/ (\E h \in Hosts : RemoveExclusion(h)) \/ Gone \/ UNCHANGED vars
  BY <1>1, <1>2 DEF Gone, StartDiscovery, Discover, ConnectDeviceFails, AllClosed, EndRound,
                    RemoveExclusion, vars, taskVars, history, Runtimes
<1>3. ASSUME NEW h \in Hosts, CheckDevice(h) PROVE Followed(rt)'
  <2>1. Runtimes' = Runtimes
    <3>1. CASE Skipped(h)
      BY <1>3, <3>1 DEF CheckDevice, Runtimes
    <3>2. CASE ~Skipped(h)
      <4>1. connected' = {IF e.rt.host = h THEN [e EXCEPT !.missed = 0] ELSE e : e \in connected}
        BY <1>3, <3>2 DEF CheckDevice
      <4>2. \A e \in connected : [e EXCEPT !.missed = 0].rt = e.rt
        BY <1>0 DEF TypeOK, Entry
      <4>. QED  BY <4>1, <4>2 DEF Runtimes
    <3>. QED  BY <3>1, <3>2
  <2>. QED  BY <1>1, <1>3, <2>1 DEF CheckDevice, history
<1>4. CASE NextEvent
  <2>1. ToSet(events) = ToSet(events') \cup {Head(events)} /\ told' = told \cup {Head(events)}
    BY <1>0, <1>4, QueueShrinks DEF NextEvent, TypeOK
  <2>2. UNCHANGED <<up, opened, leaving, abandoned, caller, out, unsent, connected>>
    BY <1>4 DEF NextEvent, taskVars
  <2>. QED  BY <1>0, <2>1, <2>2, NothingMoves
            DEF Made, Reports, Deliverable, Somewhere, Handled, Runtimes
<1>5. CASE SendEvent
  <2>1. /\ Head(out) \in RuntimeEvent /\ ToSet(out) = ToSet(out') \cup {Head(out)}
    BY <1>0, <1>5, QueueShrinks DEF SendEvent, TypeOK
  <2>2. ToSet(events') = ToSet(events) \cup {Head(out)}
    BY <1>0, <1>5, <2>1, QueueGrows DEF SendEvent, TypeOK
  <2>3. UNCHANGED <<up, opened, leaving, abandoned, caller, told, unsent, connected>>
    BY <1>5 DEF SendEvent, history
  <2>. QED  BY <1>0, <2>1, <2>2, <2>3, NothingMoves
            DEF Made, Reports, Deliverable, Somewhere, Handled, Runtimes
<1>6. CASE StopDiscovery
  <2>1. /\ out' = <<>> /\ unsent' = unsent \cup ToSet(out) /\ leaving' = {}
        /\ abandoned' = abandoned \cup leaving
        /\ UNCHANGED <<connected, events, opened, up, caller, told>>
    BY <1>6 DEF StopDiscovery
  <2>2. ToSet(out') = {}
    BY <2>1 DEF ToSet
  <2>. QED  BY <1>0, <2>1, <2>2, NothingMoves
            DEF Made, Reports, Deliverable, Somewhere, Handled, Runtimes
<1>7. ASSUME NEW c \in Callers, NEW h \in Hosts, Exclude(c, h) PROVE Followed(rt)'
  <2>1. /\ caller[c].at = "idle" /\ caller'[c].at = "remove"
        /\ \A d \in Callers \ {c} : caller'[d] = caller[d]
        /\ UNCHANGED <<connected, events, opened, up, leaving, abandoned, out, told, unsent>>
    BY <1>0, <1>7 DEF Exclude, Goto, Idle, WifiTypes, taskVars, history
  <2>2. Handled(rt)' <=> Handled(rt)
    BY <2>1 DEF Handled
  <2>. QED  BY <1>0, <2>1, <2>2, NothingMoves DEF Made, Reports, Deliverable, Somewhere, Runtimes
<1>8. ASSUME NEW h \in Hosts, ConnectDevice(h) PROVE Followed(rt)'
  <2>1. PICK new : new = [host |-> h, nth |-> opened[h] + 1]
    OBVIOUS
  <2>2. ~HasEntry(h) /\ UNCHANGED <<leaving, abandoned, caller, events, told, unsent>>
    BY <1>0, <1>8 DEF ConnectDevice, TaskInv, history
  <2>3. /\ opened' = [opened EXCEPT ![h] = opened[h] + 1] /\ opened[h] + 1 \in 1 .. MaxRuntimes
    <3>1. opened' = [opened EXCEPT ![h] = opened[h] + 1] /\ opened[h] < MaxRuntimes
      BY <1>8 DEF ConnectDevice
    <3>2. opened[h] \in 0 .. MaxRuntimes /\ MaxRuntimes \in Nat
      BY <1>0, WifiEnvironmentAssumption DEF TypeOK
    <3>. QED  BY <3>1, <3>2
  <2>4. opened'[h] = opened[h] + 1 /\ opened[h] \in Nat
    BY <1>0, <2>3, WifiEnvironmentAssumption DEF TypeOK
  <2>5. new \in Runtime /\ Arrived(new) \in RuntimeEvent
    BY <2>1, <2>3 DEF Runtime, Arrived, RuntimeEvent
  <2>6. /\ up' = up \cup {new} /\ connected' = connected \cup {[rt |-> new, missed |-> 0]}
        /\ out' = Append(out, Arrived(new))
    BY <1>8, <2>1, <2>2, <2>4 DEF ConnectDevice
  <2>7. ToSet(out') = ToSet(out) \cup {Arrived(new)}
    BY <1>0, <2>5, <2>6, QueueGrows DEF TypeOK
  <2>8. Runtimes' = Runtimes \cup {new}
    <3>1. [rt |-> new, missed |-> 0].rt = new
      OBVIOUS
    <3>. QED  BY <2>6, <3>1 DEF Runtimes
  <2>9. /\ Deliverable' = Deliverable \cup {Arrived(new)} /\ Reports' = Reports \cup {Arrived(new)}
        /\ Left(rt) # Arrived(new)
    BY <2>2, <2>7 DEF Deliverable, Reports, Left, Arrived
  <2>10. Handled(rt)' <=> Handled(rt)
    BY <2>2 DEF Handled
  <2>11. Made(rt)' <=> Made(rt) \/ rt = new
    <3>1. CASE rt.host = h
      <4>1. rt = [host |-> rt.host, nth |-> rt.nth] /\ rt.nth \in Nat
        BY WifiEnvironmentAssumption DEF Runtime
      <4>2. rt = new <=> rt.nth = opened[h] + 1
        BY <2>1, <3>1, <4>1
      <4>3. rt.nth <= opened[h] + 1 <=> rt.nth <= opened[h] \/ rt.nth = opened[h] + 1
        BY <2>4, <4>1
      <4>. QED  BY <2>4, <3>1, <4>2, <4>3 DEF Made
    <3>2. CASE rt.host # h
      <4>1. opened'[rt.host] = opened[rt.host]
        BY <1>0, <2>3, <3>2 DEF TypeOK, Runtime
      <4>. QED  BY <2>1, <3>2, <4>1 DEF Made
    <3>. QED  BY <3>1, <3>2
  <2>12. ~Made(new)
    BY <2>1, <2>4 DEF Made
  <2>13. CASE rt = new
    <3>1. Left(rt) \notin Deliverable /\ rt \notin leaving /\ ~Handled(rt)
      BY <1>0, <2>12, <2>13 DEF Followed
    <3>2. \A c \in Callers : caller[c].at = "report" => caller[c].rt # rt
      BY <3>1 DEF Handled
    <3>. QED  BY <2>2, <2>8, <2>9, <2>10, <2>11, <2>13, <3>1, <3>2 DEF Followed, Somewhere
  <2>14. CASE rt # new
    BY <1>0, <2>2, <2>6, <2>8, <2>9, <2>10, <2>11, <2>14 DEF Followed, Somewhere
  <2>. QED  BY <2>13, <2>14
<1>9. CASE CountMisses
  <2>. DEFINE missed(e) == IF e.rt.host \in seen THEN 0 ELSE e.missed + 1
              gone == {e \in connected : TooMany(missed(e))}
  <2>1. /\ connected' = {[e EXCEPT !.missed = missed(e)] : e \in connected \ gone}
        /\ leaving' = {e.rt : e \in gone} /\ task = "check"
        /\ UNCHANGED <<up, opened, abandoned, caller, events, out, told, unsent>>
    BY <1>9 DEF CountMisses, history
  <2>2. \A e \in connected : [e EXCEPT !.missed = missed(e)].rt = e.rt
    BY <1>0, EntryKeepsRuntime
  <2>a. gone \subseteq connected
    OBVIOUS
  <2>. HIDE DEF missed, gone
  <2>3. Runtimes \subseteq Runtimes' \cup leaving' /\ Runtimes' \cup leaving' \subseteq Runtimes
    <3>1. Runtimes \subseteq Runtimes' \cup leaving'
      BY <2>1, <2>2 DEF Runtimes
    <3>2. leaving' \subseteq Runtimes
      BY <2>1, <2>a DEF Runtimes
    <3>3. Runtimes' \subseteq Runtimes
      BY <2>1, <2>2 DEF Runtimes
    <3>. QED  BY <3>1, <3>2, <3>3
  <2>4. rt \in leaving' => rt \notin Runtimes'
    <3>. SUFFICES ASSUME rt \in leaving', rt \in Runtimes' PROVE FALSE
      OBVIOUS
    <3>1. PICK d \in gone : d.rt = rt
      BY <2>1
    <3>2. PICK e \in connected \ gone : [e EXCEPT !.missed = missed(e)].rt = rt
      BY <2>1 DEF Runtimes
    <3>3. e.rt = d.rt
      BY <2>2, <3>1, <3>2
    <3>. QED  BY <1>0, <2>a, <3>3 DEF OneRuntimePerHost
  <2>5. leaving = {}
    BY <1>0, <2>1 DEF TaskInv
  <2>6. /\ Handled(rt)' <=> Handled(rt)
        /\ Made(rt)' <=> Made(rt)
        /\ Reports' = Reports /\ Deliverable' = Deliverable
    BY <2>1 DEF Handled, Made, Reports, Deliverable
  <2>. QED  BY <1>0, <2>1, <2>3, <2>4, <2>5, <2>6 DEF Followed, Somewhere
<1>10. ASSUME NEW r \in Runtime, CloseMissing(r) PROVE Followed(rt)'
  <2>1. /\ leaving' = leaving \ {r} /\ up' = up \ {r} /\ out' = Append(out, Left(r)) /\ r \in leaving
        /\ UNCHANGED <<connected, opened, abandoned, caller, events, told, unsent>>
    BY <1>10 DEF CloseMissing, history
  <2>2. Left(r) \in RuntimeEvent
    BY DEF Left, RuntimeEvent
  <2>3. ToSet(out') = ToSet(out) \cup {Left(r)}
    BY <1>0, <2>1, <2>2, QueueGrows DEF TypeOK
  <2>4. Reports' = Reports \cup {Left(r)} /\ Deliverable' = Deliverable \cup {Left(r)}
    BY <2>1, <2>3 DEF Reports, Deliverable
  <2>5. Left(rt) = Left(r) => rt = r
    BY DEF Left
  <2>6. /\ Handled(rt)' <=> Handled(rt)
        /\ Made(rt)' <=> Made(rt)
        /\ Runtimes' = Runtimes
    BY <2>1 DEF Handled, Made, Runtimes
  <2>. QED  BY <1>0, <2>1, <2>4, <2>5, <2>6 DEF Followed, Somewhere
<1>11. ASSUME NEW c \in Callers, ExcludeRemoves(c) PROVE Followed(rt)'
  <2>. DEFINE gone == {e \in connected : e.rt.host = caller[c].rt.host}
  <2>1. /\ connected' = connected \ gone /\ caller[c].at = "remove"
        /\ \/ gone = {} /\ caller' = [caller EXCEPT ![c] = Idle]
           \/ \E e \in gone : caller' = [caller EXCEPT ![c] = [at |-> "disconnect", rt |-> e.rt]]
        /\ UNCHANGED <<up, opened, leaving, abandoned, events, out, told, unsent>>
    BY <1>11 DEF ExcludeRemoves, Goto, taskVars, history
  <2>2. \A d, e \in gone : d = e
    BY <1>0 DEF OneRuntimePerHost
  <2>3. \A d \in Callers \ {c} : caller'[d] = caller[d]
    BY <1>0, <2>1 DEF WifiTypes
  <2>4. caller'[c].at # "report"
    BY <1>0, <2>1 DEF WifiTypes, Idle
  <2>5. Handled(rt)' <=> Handled(rt) \/ \E e \in gone : rt = e.rt
    <3>1. CASE gone = {}
      <4>1. caller'[c].at = "idle"
        BY <1>0, <2>1, <3>1 DEF WifiTypes, Idle
      <4>. QED  BY <2>1, <2>3, <3>1, <4>1 DEF Handled
    <3>2. ASSUME NEW e \in gone PROVE Handled(rt)' <=> Handled(rt) \/ rt = e.rt
      <4>1. caller'[c].at = "disconnect" /\ caller'[c].rt = e.rt
        BY <1>0, <2>1, <2>2, <3>2 DEF WifiTypes
      <4>. QED  BY <2>1, <2>3, <4>1 DEF Handled
    <3>. QED  BY <2>2, <3>1, <3>2
  <2>6. Runtimes' = Runtimes \ {e.rt : e \in gone}
    <3>1. \A d \in connected \ gone : \A e \in gone : d.rt # e.rt
      OBVIOUS
    <3>. QED  BY <2>1, <3>1 DEF Runtimes
  <2>7. {e.rt : e \in gone} \subseteq Runtimes
    BY DEF Runtimes
  <2>8. Reports' = Reports /\ Deliverable' = Deliverable /\ (Made(rt)' <=> Made(rt))
    BY <2>1 DEF Reports, Deliverable, Made
  <2>. HIDE DEF gone
  <2>9. \A d \in Callers : caller'[d].at = "report" => caller'[d] = caller[d]
    BY <2>3, <2>4
  <2>. QED  BY <1>0, <2>1, <2>5, <2>6, <2>7, <2>8, <2>9 DEF Followed, Somewhere
<1>12. ASSUME NEW c \in Callers, ExcludeDisconnects(c) PROVE Followed(rt)'
  <2>1. /\ caller[c].at = "disconnect" /\ caller'[c].at = "report" /\ caller'[c].rt = caller[c].rt
        /\ up' = up \ {caller[c].rt}
        /\ \A d \in Callers \ {c} : caller'[d] = caller[d]
        /\ UNCHANGED <<connected, opened, leaving, abandoned, events, out, told, unsent>>
    BY <1>0, <1>12 DEF ExcludeDisconnects, Goto, WifiTypes, taskVars, history
  <2>2. Handled(rt)' <=> Handled(rt)
    BY <2>1 DEF Handled
  <2>3. Reports' = Reports /\ Deliverable' = Deliverable /\ (Made(rt)' <=> Made(rt)) /\ Runtimes' = Runtimes
    BY <2>1 DEF Reports, Deliverable, Made, Runtimes
  <2>. QED  BY <1>0, <2>1, <2>2, <2>3 DEF Followed, Somewhere
<1>13. ASSUME NEW c \in Callers, ExcludeReports(c) PROVE Followed(rt)'
  <2>1. PICK r : r = caller[c].rt
    OBVIOUS
  <2>2. /\ caller[c].at = "report" /\ caller'[c].at = "idle"
        /\ \A d \in Callers \ {c} : caller'[d] = caller[d]
        /\ UNCHANGED <<connected, opened, up, leaving, abandoned, out, told>>
    BY <1>0, <1>13 DEF ExcludeReports, WifiTypes, Idle, taskVars
  <2>3. r \in Runtime /\ Left(r) \in RuntimeEvent
    BY <1>0, <2>1, <2>2 DEF WifiTypes, Left, RuntimeEvent
  <2>4. \/ ToSet(events') = ToSet(events) \cup {Left(r)} /\ unsent' = unsent
        \/ events' = events /\ unsent' = unsent \cup {Left(r)}
    <3>1. CASE events' = Append(events, Left(r)) /\ UNCHANGED unsent
      BY <1>0, <2>3, <3>1, QueueGrows DEF TypeOK
    <3>2. CASE events' = events /\ unsent' = unsent \cup {Left(r)}
      BY <3>2
    <3>. QED  BY <1>13, <2>1, <3>1, <3>2 DEF ExcludeReports
  <2>5. Reports' = Reports \cup {Left(r)} /\ Deliverable' \subseteq Deliverable \cup {Left(r)}
    BY <2>2, <2>4 DEF Reports, Deliverable
  <2>6. /\ Handled(rt)' => Handled(rt)
        /\ Handled(rt) => Handled(rt)' \/ rt = r
        /\ Handled(r)
    BY <2>1, <2>2 DEF Handled
  <2>7. r \notin up \cup Runtimes /\ Made(r)
    BY <1>0, <2>1, <2>2, <2>3, <2>6 DEF FollowInv, Followed
  <2>8. (Made(rt)' <=> Made(rt)) /\ Runtimes' = Runtimes
    BY <2>2 DEF Made, Runtimes
  <2>9. Left(rt) = Left(r) => rt = r
    BY DEF Left
  <2>10. \A d \in Callers : caller'[d].at = "report" => caller'[d] = caller[d]
    BY <2>2
  <2>. QED  BY <1>0, <2>2, <2>5, <2>6, <2>7, <2>8, <2>9, <2>10 DEF Followed, Somewhere
<1>14. CASE DropEnvironment
  <2>1. PICK rts \in SUBSET Runtime :
          /\ up' = (up \ Runtimes) \cup rts
          /\ unsent' = unsent \cup ToSet(out) \cup {Arrived(r) : r \in rts}
          /\ abandoned' = abandoned \cup leaving \cup rts
          /\ Made(rt)' <=> Made(rt) \/ rt \in rts
          /\ rt \in rts => ~Made(rt)
    BY <1>0, <1>14, DropEffect DEF Made
  <2>2. out' = <<>> /\ leaving' = {} /\ UNCHANGED <<connected, events, caller, told>>
    BY <1>14 DEF DropEnvironment
  <2>3. ToSet(out') = {}
    BY <2>2 DEF ToSet
  <2>4. Deliverable' \subseteq Deliverable /\ Reports' = Reports \cup {Arrived(r) : r \in rts}
    BY <2>1, <2>2, <2>3 DEF Deliverable, Reports
  <2>5. (Handled(rt)' <=> Handled(rt)) /\ Runtimes' = Runtimes
    BY <2>2 DEF Handled, Runtimes
  <2>6. CASE rt \in rts
    <3>1. /\ rt \notin Runtimes /\ ~Handled(rt) /\ Left(rt) \notin Deliverable
      BY <1>0, <2>1, <2>6 DEF Followed
    <3>2. \A c \in Callers : caller[c].at = "report" => caller[c].rt # rt
      BY <3>1 DEF Handled
    <3>. QED  BY <2>1, <2>2, <2>4, <2>5, <2>6, <3>1, <3>2 DEF Followed, Somewhere
  <2>7. CASE rt \notin rts
    BY <1>0, <2>1, <2>2, <2>4, <2>5, <2>7, NothingMoves DEF Somewhere
  <2>. QED  BY <2>6, <2>7
<1>15. ASSUME NEW c \in Callers, DropExclude(c) PROVE Followed(rt)'
  <2>1. PICK r : r = caller[c].rt
    OBVIOUS
  <2>2. /\ caller[c].at = "disconnect" /\ caller'[c].at = "idle"
        /\ \A d \in Callers \ {c} : caller'[d] = caller[d]
        /\ up' \subseteq up /\ abandoned \subseteq abandoned' /\ unsent' = unsent \cup {Left(r)}
        /\ UNCHANGED <<connected, opened, leaving, events, out, told>>
    BY <1>0, <1>15, <2>1 DEF DropExclude, WifiTypes, Idle, taskVars
  <2>3. Deliverable' = Deliverable /\ Reports' = Reports \cup {Left(r)}
    BY <2>2 DEF Deliverable, Reports
  <2>4. (Made(rt)' <=> Made(rt)) /\ Runtimes' = Runtimes
    BY <2>2 DEF Made, Runtimes
  <2>5. (Handled(rt)' => Handled(rt)) /\ (Handled(rt) => Handled(rt)' \/ rt = r)
    BY <2>1, <2>2 DEF Handled
  <2>6. \A d \in Callers : caller'[d].at = "report" => caller'[d] = caller[d]
    BY <2>2
  <2>. QED  BY <1>0, <2>2, <2>3, <2>4, <2>5, <2>6 DEF Followed, Somewhere
<1>. QED  BY <1>2, <1>3, <1>4, <1>5, <1>6, <1>7, <1>8, <1>9, <1>10, <1>11, <1>12, <1>13, <1>14, <1>15
          DEF Next, TaskStep, AppStep, ExcludeStep

\* Main result: every arrival and every departure is reported, pending, or
\* one of those known to be lost (wifi.rs).
THEOREM WifiChangesReported == Spec => []EveryChangeReported
<1>1. ASSUME FollowInv PROVE EveryChangeReported
  <2>1. ASSUME NEW h \in Hosts, NEW n \in 1 .. opened[h]
        PROVE  /\ [host |-> h, nth |-> n] \in Runtime
               /\ Made([host |-> h, nth |-> n])
    BY <1>1, <2>1, WifiEnvironmentAssumption
       DEF FollowInv, ListInv, WifiTypes, TypeOK, Runtime, Made
  <2>2. \A rt : Handled(rt) =>
          rt \in {caller[c].rt : c \in {d \in Callers : caller[d].at \in {"disconnect", "report"}}}
    BY DEF Handled
  <2>. QED  BY <1>1, <2>1, <2>2 DEF FollowInv, Followed, Somewhere, EveryChangeReported, Reports, Deliverable
<1>. QED  BY FollowInit, FollowStep, <1>1, PTL DEF Spec

\* Main result: a runtime the application is told has left is closed and not
\* in the list (wifi.rs).
THEOREM WifiLeftIsGone == Spec => []LeftIsGone
<1>1. ASSUME FollowInv PROVE LeftIsGone
  <2>1. told \cup ToSet(events) \subseteq RuntimeEvent
    BY <1>1, QueueType DEF FollowInv, ListInv, WifiTypes, TypeOK
  <2>2. ASSUME NEW event \in told \cup ToSet(events), event.kind = "left"
        PROVE  event.rt \in Runtime /\ Left(event.rt) = event
    BY <2>1, <2>2 DEF RuntimeEvent, Left
  <2>. QED  BY <1>1, <2>2 DEF FollowInv, Followed, LeftIsGone, Deliverable
<1>. QED  BY FollowInit, FollowStep, <1>1, PTL DEF Spec
================================================================================
