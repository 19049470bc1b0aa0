---------------------------- MODULE DiscoveryProofs ----------------------------
(***************************************************************************)
(* The environments that find devices, whatever their number.  USB: the list *)
(* of runtimes, whatever the sizes of the channels and the number of       *)
(* pluggings.  mDNS: a device found is reached where it said last, whatever *)
(* is lost, repeated or reordered.                                         *)
(***************************************************************************)
EXTENDS UsbEnvironment, MdnsDiscovery, FiniteSetTheorems, TLAPS

Outside == UNCHANGED <<connected, handler, eventq, told, unsent>>

\* What every action that is not the handler's does to the list, to open
\* connections and to the handler.
LEMMA OutsideSteps ==
  ASSUME \/ \E d \in Devices : Plug(d) \/ Unplug(d)
         \/ Callback \/ Poll \/ StartDiscovery \/ StartDiscoveryFails
  PROVE  Outside /\ up' = up /\ mode # "dropped" /\ mode' # "dropped"
BY DEF Plug, Unplug, Watched, Callback, Poll, StartDiscovery, StartDiscoveryFails, Offer, Outside,
       list, reports

(***************************************************************************)
(* One runtime per device                                                  *)
(***************************************************************************)

\* At first each device was connected by one backend.
LEMMA OneRuntimeInit == UsbInit => OneRuntimePerDevice
<1>. SUFFICES ASSUME UsbInit PROVE OneRuntimePerDevice
  OBVIOUS
<1>1. \E opened :
        /\ \A o, p \in opened : o.dev = p.dev => o = p
        /\ connected = {[device |-> [dev |-> o.dev, via |-> o.via, address |-> 1], nth |-> 1] : o \in opened}
  BY DEF UsbInit
<1>2. PICK opened :
        /\ \A o, p \in opened : o.dev = p.dev => o = p
        /\ connected = {[device |-> [dev |-> o.dev, via |-> o.via, address |-> 1], nth |-> 1] : o \in opened}
  BY <1>1
<1>. QED  BY <1>2 DEF OneRuntimePerDevice

\* A runtime is listed only when none of its device is; the others only go.
LEMMA OneRuntimeStep == OneRuntimePerDevice /\ [UsbNext]_usbVars => OneRuntimePerDevice'
<1>. SUFFICES ASSUME OneRuntimePerDevice, [UsbNext]_usbVars PROVE OneRuntimePerDevice'
  OBVIOUS
<1>1. CASE connected' \subseteq connected
  BY <1>1 DEF OneRuntimePerDevice
<1>2. CASE Arrive
  <2>. DEFINE x == Head(deviceq).device
              r == [device |-> Opened(x), nth |-> listed[x.dev] + 1]
  <2>1. connected' = connected \cup {r} /\ ~ConnectedContainsKey(x)
    BY <1>2 DEF Arrive
  <2>2. ASSUME NEW s \in connected, s.device.dev = x.dev PROVE x.dev \in Unreadable
    BY <2>1, <2>2 DEF ConnectedContainsKey, SerialNumber
  <2>3. r.device.dev = x.dev
    BY DEF Opened, DeviceAt
  <2>. HIDE DEF x, r
  <2>. QED  BY <2>1, <2>2, <2>3 DEF OneRuntimePerDevice
<1>3. CASE Handler /\ ~Arrive
  BY <1>1, <1>3 DEF Handler, Duplicate, CloseDuplicate, ArriveFails, LeaveUnknown, Leave, CloseLeaving,
                    SendEvent, list
<1>4. CASE StopDiscovery \/ DropEnvironment \/ NextRuntimeEvent \/ UserDisconnects \/ UNCHANGED usbVars
  BY <1>1, <1>4 DEF StopDiscovery, DropEnvironment, NextRuntimeEvent, UserDisconnects, usbVars, list
<1>. QED  BY <1>1, <1>2, <1>3, <1>4, OutsideSteps DEF UsbNext, Outside

\* Main result: a readable device is listed once (usb/mod.rs).
THEOREM OneUsbRuntime == UsbSpec => []OneRuntimePerDevice
BY OneRuntimeInit, OneRuntimeStep, PTL DEF UsbSpec

(***************************************************************************)
(* Open connections                                                        *)
(***************************************************************************)

\* At first what is open is listed.
LEMMA LeaksInit == UsbInit => NoConnectionLeaks
BY DEF UsbInit, NoConnectionLeaks, Idle

\* A runtime taken off the list with its connection open is in the handler's
\* hands until the connection is closed.
LEMMA LeaksStep == NoConnectionLeaks /\ [UsbNext]_usbVars => NoConnectionLeaks'
<1>. SUFFICES ASSUME NoConnectionLeaks, [UsbNext]_usbVars PROVE NoConnectionLeaks'
  OBVIOUS
<1>. USE DEF NoConnectionLeaks, Idle, list
<1>1. CASE Outside /\ up' = up /\ mode' # "dropped"
  BY <1>1 DEF Outside
<1>2. CASE Duplicate \/ CloseDuplicate \/ ArriveFails \/ LeaveUnknown
  <2>1. handler' = Idle \/ \E x : handler' = [at |-> "duplicate", device |-> x]
    BY <1>2 DEF Duplicate, CloseDuplicate, ArriveFails, LeaveUnknown, Receives
  <2>2. connected' = connected /\ up' = up /\ mode' = "on" /\ handler.at # "leaving"
    BY <1>2 DEF Duplicate, CloseDuplicate, ArriveFails, LeaveUnknown, Receives
  <2>. QED  BY <2>1, <2>2
<1>3. CASE Arrive
  BY <1>3 DEF Arrive, Receives
<1>4. CASE Leave
  BY <1>4 DEF Leave, Receives
<1>5. CASE CloseLeaving
  BY <1>5 DEF CloseLeaving, UpAfterLeaving
<1>6. CASE SendEvent
  BY <1>6 DEF SendEvent
<1>7. CASE StopDiscovery
  BY <1>7 DEF StopDiscovery, Aborted, UpAfterAbort
<1>8. CASE DropEnvironment
  <2>1. up' = {} \/ (~cached' /\ up' = UpAfterAbort)
    BY <1>8 DEF DropEnvironment, physical
  <2>2. connected' = connected /\ UpAfterAbort \subseteq connected
    BY <1>8 DEF DropEnvironment, UpAfterAbort
  <2>. QED  BY <2>1, <2>2
<1>9. CASE NextRuntimeEvent \/ UserDisconnects \/ UNCHANGED usbVars
  BY <1>9 DEF NextRuntimeEvent, UserDisconnects, usbVars, physical
<1>. QED  BY <1>1, <1>2, <1>3, <1>4, <1>5, <1>6, <1>7, <1>8, <1>9, OutsideSteps DEF UsbNext, Handler

\* Main result: what is open is listed, or just being closed (usb/mod.rs).
THEOREM NoUsbConnectionLeaks == UsbSpec => []NoConnectionLeaks
BY LeaksInit, LeaksStep, PTL DEF UsbSpec

(***************************************************************************)
(* Reports                                                                 *)
(***************************************************************************)

\* The runtime channel is a sequence; what has been or will be reported.
IsQueue == \E S : eventq \in Seq(S)

Reported == told \cup unsent \cup InFlight

ReportInv == IsQueue /\ EveryChangeReported

\* EveryChangeReported needs nothing but the list and what is reported.
LEMMA ReportedIsEnough ==
  EveryChangeReported <=>
    /\ \A r \in connected : \E e \in Reported : e.kind = "arrived" /\ e.rt = r
    /\ \A e \in Reported : e.kind = "arrived" => e.rt \in connected \/ Left(e.rt) \in Reported
BY DEF EveryChangeReported, EverListed, Reported

\* A queue's elements when one is put in.
LEMMA QueueGrows ==
  ASSUME NEW S, NEW q \in Seq(S), NEW e
  PROVE  Append(q, e) \in Seq(S \cup {e}) /\ ToSet(Append(q, e)) = ToSet(q) \cup {e}
<1>1. Append(q, e) \in Seq(S \cup {e}) /\ Len(Append(q, e)) = Len(q) + 1 /\ Len(q) \in Nat
  <2>1. q \in Seq(S \cup {e})
    OBVIOUS
  <2>. QED  BY <2>1
<1>2. \A i \in 1 .. Len(q) : Append(q, e)[i] = q[i]
  OBVIOUS
<1>3. Append(q, e)[Len(q) + 1] = e
  OBVIOUS
<1>4. DOMAIN q = 1 .. Len(q) /\ DOMAIN Append(q, e) = 1 .. (Len(q) + 1)
  BY <1>1
<1>5. ToSet(Append(q, e)) \subseteq ToSet(q) \cup {e}
  BY <1>1, <1>2, <1>3, <1>4 DEF ToSet
<1>6. ToSet(q) \cup {e} \subseteq ToSet(Append(q, e))
  BY <1>1, <1>2, <1>3, <1>4 DEF ToSet
<1>. QED  BY <1>1, <1>5, <1>6

\* A queue's elements when one is taken out.
LEMMA QueueShrinks ==
  ASSUME NEW S, NEW q \in Seq(S), q # <<>>
  PROVE  Tail(q) \in Seq(S) /\ ToSet(q) = ToSet(Tail(q)) \cup {Head(q)}
<1>1. /\ Tail(q) \in Seq(S) /\ Len(q) \in Nat /\ Len(q) > 0 /\ Len(Tail(q)) = Len(q) - 1
      /\ Head(q) = q[1] /\ \A i \in 1 .. Len(q) - 1 : Tail(q)[i] = q[i + 1]
  OBVIOUS
<1>2. DOMAIN q = 1 .. Len(q) /\ DOMAIN Tail(q) = 1 .. Len(q) - 1
  BY <1>1
<1>3. ASSUME NEW i \in 1 .. Len(q) PROVE q[i] \in ToSet(Tail(q)) \cup {Head(q)}
  <2>1. CASE i = 1
    BY <1>1, <2>1
  <2>2. CASE i # 1
    <3>1. i - 1 \in 1 .. Len(q) - 1 /\ Tail(q)[i - 1] = q[i]
      BY <1>1, <2>2
    <3>. QED  BY <1>2, <3>1 DEF ToSet
  <2>. QED  BY <2>1, <2>2
<1>4. ASSUME NEW i \in 1 .. Len(q) - 1 PROVE Tail(q)[i] \in ToSet(q)
  <2>1. i + 1 \in 1 .. Len(q) /\ Tail(q)[i] = q[i + 1]
    BY <1>1
  <2>. QED  BY <1>2, <2>1 DEF ToSet
<1>5. Head(q) \in ToSet(q)
  BY <1>1, <1>2 DEF ToSet
<1>. QED  BY <1>1, <1>2, <1>3, <1>4, <1>5 DEF ToSet

\* A step that changes neither the list nor what is reported.
LEMMA SameReports ==
  ASSUME EveryChangeReported, Reported' = Reported, connected' = connected
  PROVE  EveryChangeReported'
BY ReportedIsEnough DEF EveryChangeReported, EverListed, Reported, Left

\* At first the runtimes are there to be seen.
LEMMA ReportInit == UsbInit => ReportInv
<1>. SUFFICES ASSUME UsbInit PROVE ReportInv
  OBVIOUS
<1>1. /\ told = {Arrived(r) : r \in connected} /\ unsent = {} /\ handler = Idle /\ eventq = <<>>
  BY DEF UsbInit
<1>2. IsQueue
  <2>1. <<>> \in Seq({})
    OBVIOUS
  <2>. QED  BY <1>1, <2>1 DEF IsQueue
<1>3. InFlight = {}
  <2>1. ToSet(eventq) = {}
    BY <1>1 DEF ToSet
  <2>. QED  BY <1>1, <2>1 DEF InFlight, Idle
<1>4. EveryChangeReported
  <2>1. Reported = {Arrived(r) : r \in connected}
    BY <1>1, <1>3 DEF Reported
  <2>2. \A r : Arrived(r).kind = "arrived" /\ Arrived(r).rt = r
    BY DEF Arrived
  <2>3. \A r \in connected : \E e \in Reported : e.kind = "arrived" /\ e.rt = r
    BY <2>1, <2>2
  <2>4. \A e \in Reported : e.kind = "arrived" => e.rt \in connected \/ Left(e.rt) \in Reported
    BY <2>1, <2>2
  <2>. QED  BY <2>3, <2>4, ReportedIsEnough
<1>. QED  BY <1>2, <1>4 DEF ReportInv

\* Every step reports what it changes, and passes reports on.
LEMMA ReportStep == ReportInv /\ [UsbNext]_usbVars => ReportInv'
<1>. SUFFICES ASSUME ReportInv, [UsbNext]_usbVars PROVE ReportInv'
  OBVIOUS
<1>. USE DEF list, reports
<1>1. PICK S : eventq \in Seq(S)
  BY DEF ReportInv, IsQueue
<1>2. CASE Outside
  BY <1>2, SameReports DEF Outside, ReportInv, IsQueue, Reported, InFlight
<1>3. CASE Duplicate \/ CloseDuplicate \/ ArriveFails \/ LeaveUnknown
  <2>1. handler' = Idle \/ \E x : handler' = [at |-> "duplicate", device |-> x]
    BY <1>3 DEF Duplicate, CloseDuplicate, ArriveFails, LeaveUnknown, Receives
  <2>2. /\ UNCHANGED <<connected, eventq, told, unsent>>
        /\ handler.at \notin {"send", "leaving"} /\ handler'.at \notin {"send", "leaving"}
    BY <1>3, <2>1 DEF Duplicate, CloseDuplicate, ArriveFails, LeaveUnknown, Receives, Idle
  <2>3. Reported' = Reported
    BY <2>2 DEF Reported, InFlight
  <2>. QED  BY <2>2, <2>3, SameReports DEF ReportInv, IsQueue
<1>4. CASE Arrive
  <2>1. PICK r : connected' = connected \cup {r} /\ handler' = [at |-> "send", event |-> Arrived(r)]
    BY <1>4 DEF Arrive
  <2>2. UNCHANGED <<eventq, told, unsent>> /\ handler.at \notin {"send", "leaving"}
    BY <1>4 DEF Arrive, Receives, Idle
  <2>3. Reported' = Reported \cup {Arrived(r)}
    BY <2>1, <2>2 DEF Reported, InFlight
  <2>4. EveryChangeReported'
    BY <2>1, <2>3 DEF ReportInv, EveryChangeReported, EverListed, Reported, Arrived, Left
  <2>. QED  BY <2>2, <2>4 DEF ReportInv, IsQueue
<1>5. CASE Leave
  <2>1. PICK r \in connected :
          /\ connected' = connected \ {r}
          /\ \/ handler' = [at |-> "leaving", rt |-> r]
             \/ handler' = [at |-> "send", event |-> Left(r)]
    BY <1>5 DEF Leave
  <2>2. UNCHANGED <<eventq, told, unsent>> /\ handler.at \notin {"send", "leaving"}
    BY <1>5 DEF Leave, Receives, Idle
  <2>3. Reported' = Reported \cup {Left(r)}
    BY <2>1, <2>2 DEF Reported, InFlight
  <2>4. EveryChangeReported'
    BY <2>1, <2>3 DEF ReportInv, EveryChangeReported, EverListed, Reported, Left
  <2>. QED  BY <2>2, <2>4 DEF ReportInv, IsQueue
<1>6. CASE CloseLeaving
  <2>1. /\ handler.at = "leaving" /\ handler' = [at |-> "send", event |-> Left(handler.rt)]
        /\ UNCHANGED <<connected, eventq, told, unsent>>
    BY <1>6 DEF CloseLeaving
  <2>2. Reported' = Reported
    BY <2>1 DEF Reported, InFlight
  <2>. QED  BY <2>1, <2>2, SameReports DEF ReportInv, IsQueue
<1>7. CASE SendEvent
  <2>1. /\ handler.at = "send" /\ handler' = Idle /\ eventq' = Append(eventq, handler.event)
        /\ UNCHANGED <<connected, told, unsent>>
    BY <1>7 DEF SendEvent
  <2>2. ToSet(eventq') = ToSet(eventq) \cup {handler.event} /\ IsQueue'
    <3>. DEFINE e == handler.event
    <3>1. Append(eventq, e) \in Seq(S \cup {e}) /\ ToSet(Append(eventq, e)) = ToSet(eventq) \cup {e}
      BY <1>1, QueueGrows
    <3>2. eventq' \in Seq(S \cup {e}) /\ ToSet(eventq') = ToSet(eventq) \cup {e}
      BY <2>1, <3>1
    <3>3. \E T : eventq' \in Seq(T)
      BY <3>2
    <3>. QED  BY <3>2, <3>3 DEF IsQueue
  <2>3. Reported' = Reported
    BY <2>1, <2>2 DEF Reported, InFlight, Idle
  <2>. QED  BY <2>1, <2>2, <2>3, SameReports DEF ReportInv
<1>8. CASE StopDiscovery \/ DropEnvironment
  <2>1. /\ handler' = Idle /\ UNCHANGED <<connected, eventq, told>>
        /\ unsent' = unsent \cup
             CASE handler.at = "send" -> {handler.event}
               [] handler.at = "leaving" -> {Left(handler.rt)}
               [] OTHER -> {}
    BY <1>8 DEF StopDiscovery, DropEnvironment, Aborted
  <2>2. Reported' = Reported
    <3>1. CASE handler.at = "send"
      BY <2>1, <3>1 DEF Reported, InFlight, Idle
    <3>2. CASE handler.at = "leaving"
      BY <2>1, <3>2 DEF Reported, InFlight, Idle
    <3>3. CASE handler.at \notin {"send", "leaving"}
      BY <2>1, <3>3 DEF Reported, InFlight, Idle
    <3>. QED  BY <3>1, <3>2, <3>3
  <2>. QED  BY <2>1, <2>2, SameReports DEF ReportInv, IsQueue
<1>9. CASE NextRuntimeEvent
  <2>1. /\ eventq # <<>> /\ eventq' = Tail(eventq) /\ told' = told \cup {Head(eventq)}
        /\ UNCHANGED <<connected, handler, unsent>>
    BY <1>9 DEF NextRuntimeEvent
  <2>2. ToSet(eventq) = ToSet(eventq') \cup {Head(eventq)} /\ IsQueue'
    BY <1>1, <2>1, QueueShrinks DEF IsQueue
  <2>3. Reported' = Reported
    BY <2>1, <2>2 DEF Reported, InFlight
  <2>. QED  BY <2>1, <2>2, <2>3, SameReports DEF ReportInv
<1>10. CASE UserDisconnects \/ UNCHANGED usbVars
  <2>1. Outside
    BY <1>10 DEF UserDisconnects, usbVars, Outside
  <2>. QED  BY <1>2, <2>1
<1>. QED  BY <1>2, <1>3, <1>4, <1>5, <1>6, <1>7, <1>8, <1>9, <1>10, OutsideSteps DEF UsbNext, Handler

\* Main result: only an abort loses a report, a full channel never does
\* (usb/mod.rs).
THEOREM UsbChangesReported == UsbSpec => []EveryChangeReported
<1>1. ReportInv => EveryChangeReported
  BY DEF ReportInv
<1>. QED  BY ReportInit, ReportStep, <1>1, PTL DEF UsbSpec

(***************************************************************************)
(* Types of the USB environment                                            *)
(***************************************************************************)

\* What the handler task may hold.
Job == [at : {"wait"}] \cup [at : {"duplicate"}, device : Device]
       \cup [at : {"leaving"}, rt : Runtime] \cup [at : {"send"}, event : RuntimeEvent]

\* A failed start leaves one hotplug registration, and is not repeated; ticks
\* see finitely many ports.
UsbTypeInv ==
  /\ UsbTypeOK /\ handler \in Job
  /\ mode = "new" => hotplug <= 1
  /\ IsFiniteSet(known)

LEMMA FiniteImage ==
  ASSUME NEW S, IsFiniteSet(S), NEW f, DOMAIN f = S
  PROVE  IsFiniteSet({f[x] : x \in S})
<1>. DEFINE T == {f[x] : x \in S}
            g == [x \in S |-> f[x]]
<1>1. g \in Surjection(S, T)
  BY DEF Surjection
<1>. QED  BY <1>1, FS_Surjection

\* An order of some events is a sequence of them.
LEMMA OrderType ==
  ASSUME NEW S, IsFiniteSet(S), NEW T, S \subseteq T, NEW s \in SetToSeqs(S)
  PROVE  s \in Seq(T)
<1>1. Cardinality(S) \in Nat
  BY FS_CardinalityType
<1>2. s \in [1 .. Cardinality(S) -> S]
  BY DEF SetToSeqs
<1>. QED  BY <1>1, <1>2

\* What does not fit is lost: the channel keeps its capacity.
LEMMA OfferType ==
  ASSUME UsbTypeOK, NEW evs \in Seq(DeviceEvent), NEW w \in SUBSET Devices, Offer(evs, w)
  PROVE  deviceq' \in Seq(DeviceEvent) /\ Len(deviceq') <= DeviceCap /\ unseen' \subseteq Devices
<1>. DEFINE all == deviceq \o evs
<1>1. all \in Seq(DeviceEvent) /\ DeviceCap \in Nat /\ unseen \subseteq Devices
  BY UsbEnvironmentAssumption DEF UsbTypeOK
<1>2. /\ deviceq' = IF Len(all) <= DeviceCap THEN all ELSE SubSeq(all, 1, DeviceCap)
      /\ unseen' = unseen \cup w \cup {all[i].device.dev : i \in DeviceCap + 1 .. Len(all)}
  BY DEF Offer
<1>. HIDE DEF all
<1>3. deviceq' \in Seq(DeviceEvent) /\ Len(deviceq') <= DeviceCap
  <2>1. CASE Len(all) <= DeviceCap
    BY <1>1, <1>2, <2>1
  <2>2. CASE ~(Len(all) <= DeviceCap)
    BY <1>1, <1>2, <2>2
  <2>. QED  BY <2>1, <2>2
<1>4. ASSUME NEW i \in DeviceCap + 1 .. Len(all) PROVE all[i].device.dev \in Devices
  <2>1. all[i] \in DeviceEvent
    BY <1>1
  <2>. QED  BY <2>1 DEF DeviceEvent, Device
<1>. QED  BY <1>1, <1>2, <1>3, <1>4

LEMMA AtType ==
  ASSUME UsbTypeOK, NEW d \in Devices, NEW via \in Backends
  PROVE  DeviceAt(d, via) \in Device /\ DeviceAt(d, via).dev = d
BY DEF UsbTypeOK, DeviceAt, Device

LEMMA EventTypes ==
  ASSUME NEW x \in Device
  PROVE  DeviceConnected(x) \in DeviceEvent /\ DeviceDisconnected(x) \in DeviceEvent
BY DEF DeviceConnected, DeviceDisconnected, DeviceEvent

LEMMA ReportTypes ==
  ASSUME NEW r \in Runtime
  PROVE  Arrived(r) \in RuntimeEvent /\ Left(r) \in RuntimeEvent /\ r.device \in Device
BY DEF Arrived, Left, RuntimeEvent, Runtime

LEMMA PortsType ==
  ASSUME UsbTypeOK
  PROVE  Ports \subseteq Device /\ IsFiniteSet(Ports)
<1>. DEFINE S == {p \in plugged : ~Claimed(p)}
            f == [d \in S |-> DeviceAt(d, "serial")]
<1>1. S \subseteq Devices /\ IsFiniteSet(S)
  BY UsbEnvironmentAssumption, FS_Subset DEF UsbTypeOK
<1>2. Ports = {f[d] : d \in S}
  BY DEF Ports
<1>3. IsFiniteSet({f[d] : d \in S})
  <2>1. DOMAIN f = S
    OBVIOUS
  <2>. HIDE DEF f, S
  <2>. QED  BY <1>1, <2>1, FiniteImage
<1>4. Ports \subseteq Device
  BY <1>1, AtType DEF Ports, Backends
<1>. QED  BY <1>2, <1>3, <1>4

\* The events that rusb enumerates when it is registered.
LEMMA EnumeratedType ==
  ASSUME UsbTypeOK,
         NEW evs \in SetToSeqs({DeviceConnected(DeviceAt(d, "rusb")) : d \in plugged})
  PROVE  evs \in Seq(DeviceEvent)
<1>. DEFINE f == [d \in plugged |-> DeviceConnected(DeviceAt(d, "rusb"))]
            T == {f[d] : d \in plugged}
<1>1. plugged \subseteq Devices /\ IsFiniteSet(plugged)
  BY UsbEnvironmentAssumption, FS_Subset DEF UsbTypeOK
<1>2. IsFiniteSet(T)
  <2>1. DOMAIN f = plugged
    OBVIOUS
  <2>. HIDE DEF f
  <2>. QED  BY <1>1, <2>1, FiniteImage
<1>3. T = {DeviceConnected(DeviceAt(d, "rusb")) : d \in plugged}
  OBVIOUS
<1>4. T \subseteq DeviceEvent
  BY <1>1, <1>3, AtType, EventTypes DEF Backends
<1>. HIDE DEF T
<1>. QED  BY <1>2, <1>3, <1>4, OrderType

\* At first each device has at most one runtime, and nothing is under way.
LEMMA UsbTypeInit == UsbInit => UsbTypeInv
<1>. SUFFICES ASSUME UsbInit PROVE UsbTypeInv
  OBVIOUS
<1>. DEFINE Listed(opened) ==
              {[device |-> [dev |-> o.dev, via |-> o.via, address |-> 1], nth |-> 1] : o \in opened}
            Begins(present, opened) ==
              /\ cached = (opened # {}) /\ plugged = present
              /\ address = [d \in Devices |-> IF d \in present THEN 1 ELSE 0]
              /\ connected = Listed(opened) /\ up = Listed(opened)
              /\ listed = [d \in Devices |-> IF \E o \in opened : o.dev = d THEN 1 ELSE 0]
              /\ told = {Arrived(r) : r \in Listed(opened)}
<1>1. \E present \in SUBSET Devices : \E opened \in SUBSET [dev : present, via : Backends] :
        Begins(present, opened)
  BY Zenon DEF UsbInit
<1>2. PICK present \in SUBSET Devices : \E opened \in SUBSET [dev : present, via : Backends] :
        Begins(present, opened)
  BY <1>1
<1>3. PICK opened \in SUBSET [dev : present, via : Backends] : Begins(present, opened)
  BY <1>2
<1>4. mode = "new" /\ hotplug = 0 /\ pending = <<>> /\ known = {} /\ deviceq = <<>>
      /\ handler = Idle /\ eventq = <<>>
      /\ unsent = {} /\ leaked = {} /\ unseen = {} /\ refused = {}
  BY DEF UsbInit
<1>5. 1 \in 0 .. MaxPlugs /\ 0 \in 0 .. MaxPlugs /\ 1 \in 1 .. MaxListed
      /\ 0 \in 0 .. MaxListed /\ 1 \in 0 .. MaxListed
      /\ DeviceCap \in Nat /\ EventCap \in Nat
  BY UsbEnvironmentAssumption
<1>6. connected \subseteq Runtime /\ up \subseteq Runtime
  <2>1. ASSUME NEW o \in opened
        PROVE  [device |-> [dev |-> o.dev, via |-> o.via, address |-> 1], nth |-> 1] \in Runtime
    <3>1. o.dev \in Devices /\ o.via \in Backends
      OBVIOUS
    <3>2. [dev |-> o.dev, via |-> o.via, address |-> 1] \in Device
      BY <1>5, <3>1 DEF Device
    <3>. QED  BY <1>5, <3>2 DEF Runtime
  <2>. QED  BY <1>3, <2>1
<1>7. told \subseteq RuntimeEvent
  <2>1. told = {Arrived(r) : r \in connected}
    BY <1>3
  <2>. QED  BY <1>6, <2>1, ReportTypes
<1>8. address \in [Devices -> 0 .. MaxPlugs] /\ listed \in [Devices -> 0 .. MaxListed]
  BY <1>5, <1>3
<1>9. handler \in Job /\ handler.at = "wait"
  BY <1>4 DEF Job, Idle
<1>10. IsFiniteSet(known)
  BY <1>4, FS_EmptySet
<1>11. /\ pending \in Seq(DeviceEvent) /\ deviceq \in Seq(DeviceEvent) /\ Len(deviceq) <= DeviceCap
      /\ eventq \in Seq(RuntimeEvent) /\ Len(eventq) <= EventCap
  BY <1>4, <1>5
<1>13. cached \in BOOLEAN
  BY <1>3
<1>12. UsbTypeOK
  BY <1>3, <1>13, <1>4, <1>6, <1>7, <1>8, <1>9, <1>11 DEF UsbTypeOK
<1>. QED  BY <1>4, <1>9, <1>10, <1>12 DEF UsbTypeInv

\* libusb's news of a device.
LEMMA NotifyType ==
  ASSUME UsbTypeOK, NEW ev \in DeviceEvent, Notify(ev)
  PROVE  pending' \in Seq(DeviceEvent) /\ unseen' \subseteq Devices
<1>1. hotplug \in Nat /\ pending \in Seq(DeviceEvent) /\ unseen \subseteq Devices
  BY DEF UsbTypeOK
<1>2. [i \in 1 .. hotplug |-> ev] \in Seq(DeviceEvent)
  BY <1>1
<1>3. pending' \in Seq(DeviceEvent)
  BY <1>1, <1>2 DEF Notify
<1>4. ev.device.dev \in Devices
  BY DEF DeviceEvent, Device
<1>. QED  BY <1>1, <1>3, <1>4 DEF Notify

\* What comes and goes.
LEMMA PhysicalTypes ==
  ASSUME UsbTypeInv, NEW d \in Devices, Plug(d) \/ Unplug(d)
  PROVE  UsbTypeInv'
<1>1. UsbTypeOK
  BY DEF UsbTypeInv
<1>2. CASE Plug(d)
  <2>. DEFINE x == [DeviceAt(d, "rusb") EXCEPT !.address = @ + 1]
  <2>1. address[d] + 1 \in 0 .. MaxPlugs
    BY <1>1, <1>2, UsbEnvironmentAssumption DEF Plug, UsbTypeOK
  <2>2. x \in Device
    BY <2>1 DEF DeviceAt, Device, Backends
  <2>3. pending' \in Seq(DeviceEvent) /\ unseen' \subseteq Devices
    BY <1>1, <1>2, <2>2, EventTypes, NotifyType DEF Plug
  <2>4. plugged' \subseteq Devices /\ address' \in [Devices -> 0 .. MaxPlugs]
    BY <1>1, <1>2, <2>1 DEF Plug, UsbTypeOK
  <2>. QED  BY <1>2, <2>3, <2>4 DEF Plug, UsbTypeInv, UsbTypeOK, list, reports
<1>3. CASE Unplug(d)
  <2>1. pending' \in Seq(DeviceEvent) /\ unseen' \subseteq Devices
    BY <1>1, <1>3, AtType, EventTypes, NotifyType DEF Unplug, Backends
  <2>. QED  BY <1>3, <2>1 DEF Unplug, UsbTypeInv, UsbTypeOK, list, reports
<1>. QED  BY <1>2, <1>3

\* What the backends report.
LEMMA BackendTypes ==
  ASSUME UsbTypeInv, Callback \/ Poll
  PROVE  UsbTypeInv'
<1>1. UsbTypeOK
  BY DEF UsbTypeInv
<1>2. CASE Callback
  <2>1. pending \in Seq(DeviceEvent) /\ pending # <<>>
    BY <1>1, <1>2 DEF Callback, UsbTypeOK
  <2>2. <<Head(pending)>> \in Seq(DeviceEvent) /\ pending' \in Seq(DeviceEvent)
    BY <1>2, <2>1 DEF Callback
  <2>3. deviceq' \in Seq(DeviceEvent) /\ Len(deviceq') <= DeviceCap /\ unseen' \subseteq Devices
    <3>1. Offer(<<Head(pending)>>, {}) /\ {} \in SUBSET Devices
      BY <1>2 DEF Callback
    <3>. QED  BY <1>1, <2>2, <3>1, OfferType
  <2>. QED  BY <1>2, <2>2, <2>3 DEF Callback, UsbTypeInv, UsbTypeOK, physical, list, reports
<1>3. CASE Poll
  <2>. DEFINE Added == {y \in Ports : ~InPortMap(y, known)}
              Removed == {y \in known : ~InPortMap(y, Ports)}
              swapped == {x.dev : x \in {y \in Ports \ known : InPortMap(y, known)}}
              New == {DeviceConnected(x) : x \in Added}
              Gone == {DeviceDisconnected(x) : x \in Removed}
  <2>1. PICK a \in SetToSeqs(New), b \in SetToSeqs(Gone) : Offer(a \o b, swapped)
    BY <1>3 DEF Poll
  <2>2. Ports \subseteq Device /\ IsFiniteSet(Ports) /\ known \subseteq Device /\ IsFiniteSet(known)
    BY <1>1, PortsType DEF UsbTypeInv, UsbTypeOK
  <2>3. Added \subseteq Device /\ IsFiniteSet(Added) /\ Removed \subseteq Device /\ IsFiniteSet(Removed)
    BY <2>2, FS_Subset
  <2>4. swapped \in SUBSET Devices
    BY <2>2 DEF Device
  <2>5. IsFiniteSet(New) /\ New \subseteq DeviceEvent
    <3>. DEFINE f == [x \in Added |-> DeviceConnected(x)]
    <3>. HIDE DEF Added
    <3>1. New = {f[x] : x \in Added} /\ DOMAIN f = Added
      OBVIOUS
    <3>2. IsFiniteSet({f[x] : x \in Added})
      <4>. HIDE DEF f
      <4>. QED  BY <2>3, <3>1, FiniteImage
    <3>. QED  BY <2>3, <3>1, <3>2, EventTypes
  <2>6. IsFiniteSet(Gone) /\ Gone \subseteq DeviceEvent
    <3>. DEFINE f == [x \in Removed |-> DeviceDisconnected(x)]
    <3>. HIDE DEF Removed
    <3>1. Gone = {f[x] : x \in Removed} /\ DOMAIN f = Removed
      OBVIOUS
    <3>2. IsFiniteSet({f[x] : x \in Removed})
      <4>. HIDE DEF f
      <4>. QED  BY <2>3, <3>1, FiniteImage
    <3>. QED  BY <2>3, <3>1, <3>2, EventTypes
  <2>. HIDE DEF Added, Removed, swapped, New, Gone
  <2>7. a \in Seq(DeviceEvent) /\ b \in Seq(DeviceEvent)
    BY <2>5, <2>6, OrderType
  <2>8. a \o b \in Seq(DeviceEvent)
    BY <2>7
  <2>9. deviceq' \in Seq(DeviceEvent) /\ Len(deviceq') <= DeviceCap /\ unseen' \subseteq Devices
    BY <1>1, <2>1, <2>4, <2>8, OfferType
  <2>10. known' \subseteq Device /\ IsFiniteSet(known')
    BY <1>3, <2>2 DEF Poll
  <2>. QED  BY <1>3, <2>9, <2>10 DEF Poll, UsbTypeInv, UsbTypeOK, physical, list, reports
<1>. QED  BY <1>2, <1>3

\* The event the handler receives.
LEMMA ReceivedType ==
  ASSUME UsbTypeOK, NEW kind, Receives(kind)
  PROVE  /\ deviceq' \in Seq(DeviceEvent) /\ Len(deviceq') <= DeviceCap
         /\ Head(deviceq).device \in Device /\ Head(deviceq).device.dev \in Devices
<1>1. deviceq \in Seq(DeviceEvent) /\ deviceq # <<>> /\ deviceq' = Tail(deviceq)
      /\ Len(deviceq) <= DeviceCap /\ DeviceCap \in Nat
  BY UsbEnvironmentAssumption DEF Receives, UsbTypeOK
<1>2. Head(deviceq) \in DeviceEvent /\ Tail(deviceq) \in Seq(DeviceEvent)
      /\ Len(Tail(deviceq)) = Len(deviceq) - 1 /\ Len(deviceq) \in Nat
  BY <1>1
<1>. QED  BY <1>1, <1>2 DEF DeviceEvent, Device

LEMMA TakenOverType ==
  ASSUME UsbTypeOK, NEW x
  PROVE  TakenOver(x) \subseteq Devices
BY DEF UsbTypeOK, TakenOver, Runtime, Device

\* What is opened is a device object of the same device and backend.
LEMMA OpenedType ==
  ASSUME UsbTypeOK, NEW x \in Device
  PROVE  Opened(x) \in Device /\ Opened(x).dev = x.dev /\ Opened(x).via = x.via
<1>1. x.dev \in Devices
  BY DEF Device
<1>2. DeviceAt(x.dev, "serial") \in Device
  BY <1>1, AtType DEF Backends
<1>. QED  BY <1>2 DEF Opened, DeviceAt, Device

\* What is received and sent by the handler.
LEMMA HandlerTypes ==
  ASSUME UsbTypeInv, Handler
  PROVE  UsbTypeInv'
<1>1. UsbTypeOK /\ handler \in Job
  BY DEF UsbTypeInv
<1>. DEFINE x == Head(deviceq).device
<1>2. CASE Duplicate
  <2>1. /\ deviceq' \in Seq(DeviceEvent) /\ Len(deviceq') <= DeviceCap /\ x \in Device
    BY <1>1, <1>2, ReceivedType DEF Duplicate
  <2>2. handler' \in Job /\ handler'.at \in {"wait", "duplicate", "leaving", "send"}
    BY <1>2, <2>1 DEF Duplicate, Job, Idle
  <2>3. refused' \subseteq Devices
    BY <1>1, <1>2, TakenOverType DEF Duplicate, UsbTypeOK
  <2>. QED  BY <1>2, <2>1, <2>2, <2>3 DEF Duplicate, UsbTypeInv, UsbTypeOK, physical, backends, list, reports
<1>3. CASE CloseDuplicate
  <2>1. handler' \in Job /\ handler'.at \in {"wait", "duplicate", "leaving", "send"}
    BY <1>3 DEF CloseDuplicate, Job, Idle
  <2>. QED  BY <1>3, <2>1 DEF CloseDuplicate, UsbTypeInv, UsbTypeOK, physical, backends, list, reports
<1>4. CASE ArriveFails
  <2>1. /\ deviceq' \in Seq(DeviceEvent) /\ Len(deviceq') <= DeviceCap /\ x.dev \in Devices
    BY <1>1, <1>4, ReceivedType DEF ArriveFails
  <2>. QED  BY <1>4, <2>1 DEF ArriveFails, UsbTypeInv, UsbTypeOK, physical, backends, list, reports
<1>5. CASE Arrive
  <2>. DEFINE r == [device |-> Opened(x), nth |-> listed[x.dev] + 1]
  <2>1. /\ deviceq' \in Seq(DeviceEvent) /\ Len(deviceq') <= DeviceCap
        /\ x \in Device /\ x.dev \in Devices /\ Opened(x) \in Device
    BY <1>1, <1>5, ReceivedType, OpenedType DEF Arrive
  <2>. HIDE DEF x
  <2>2. listed[x.dev] \in 0 .. MaxListed /\ listed[x.dev] < MaxListed /\ MaxListed \in Nat
    BY <1>1, <1>5, <2>1, UsbEnvironmentAssumption DEF Arrive, UsbTypeOK, x
  <2>3. r \in Runtime /\ listed[x.dev] + 1 \in 0 .. MaxListed
    BY <2>1, <2>2 DEF Runtime
  <2>4. listed' \in [Devices -> 0 .. MaxListed]
    BY <1>1, <1>5, <2>1, <2>3 DEF Arrive, UsbTypeOK, x
  <2>5. handler' \in Job /\ handler'.at = "send"
    <3>1. handler' = [at |-> "send", event |-> Arrived(r)]
      BY <1>5 DEF Arrive, x
    <3>. QED  BY <2>3, <3>1, ReportTypes DEF Job
  <2>6. connected' \subseteq Runtime /\ up' \subseteq Runtime
    BY <1>1, <1>5, <2>3 DEF Arrive, UsbTypeOK, x
  <2>7. refused' \subseteq Devices
    BY <1>1, <1>5, TakenOverType DEF Arrive, UsbTypeOK
  <2>. QED  BY <1>5, <2>1, <2>4, <2>5, <2>6, <2>7 DEF Arrive, UsbTypeInv, UsbTypeOK, physical, backends, reports
<1>6. CASE LeaveUnknown
  <2>1. /\ deviceq' \in Seq(DeviceEvent) /\ Len(deviceq') <= DeviceCap
    BY <1>1, <1>6, ReceivedType DEF LeaveUnknown
  <2>. QED  BY <1>6, <2>1 DEF LeaveUnknown, UsbTypeInv, UsbTypeOK, physical, backends, list, reports
<1>7. CASE Leave
  <2>1. PICK r \in connected :
          /\ Receives("disconnected")
          /\ connected' = connected \ {r}
          /\ handler' = IF r \in up THEN [at |-> "leaving", rt |-> r] ELSE [at |-> "send", event |-> Left(r)]
    BY <1>7 DEF Leave
  <2>2. /\ deviceq' \in Seq(DeviceEvent) /\ Len(deviceq') <= DeviceCap
    BY <1>1, <2>1, ReceivedType
  <2>3. r \in Runtime /\ connected' \subseteq Runtime
    BY <1>1, <2>1 DEF UsbTypeOK
  <2>4. handler' \in Job /\ handler'.at \in {"wait", "duplicate", "leaving", "send"}
    BY <2>1, <2>3, ReportTypes DEF Job
  <2>. QED  BY <1>7, <2>2, <2>3, <2>4 DEF Leave, UsbTypeInv, UsbTypeOK, physical, backends, reports
<1>8. CASE CloseLeaving
  <2>1. handler.rt \in Runtime
    BY <1>1, <1>8 DEF CloseLeaving, Job
  <2>2. handler' \in Job /\ handler'.at = "send"
    BY <1>8, <2>1, ReportTypes DEF CloseLeaving, Job
  <2>3. up' \subseteq Runtime
    BY <1>1, <1>8 DEF CloseLeaving, UpAfterLeaving, UsbTypeOK
  <2>. QED  BY <1>8, <2>2, <2>3 DEF CloseLeaving, UsbTypeInv, UsbTypeOK, physical, backends, reports
<1>9. CASE SendEvent
  <2>1. handler.event \in RuntimeEvent
    BY <1>1, <1>9 DEF SendEvent, Job
  <2>2. handler' \in Job /\ handler'.at = "wait"
    BY <1>9 DEF SendEvent, Job, Idle
  <2>3. eventq \in Seq(RuntimeEvent) /\ Len(eventq) < EventCap /\ EventCap \in Nat
    BY <1>1, <1>9, UsbEnvironmentAssumption DEF SendEvent, UsbTypeOK
  <2>4. eventq' \in Seq(RuntimeEvent) /\ Len(eventq') <= EventCap
    <3>1. eventq' = Append(eventq, handler.event)
      BY <1>9 DEF SendEvent
    <3>. QED  BY <2>1, <2>3, <3>1
  <2>. QED  BY <1>9, <2>2, <2>4 DEF SendEvent, UsbTypeInv, UsbTypeOK, physical, backends, list, reports
<1>. QED  BY <1>2, <1>3, <1>4, <1>5, <1>6, <1>7, <1>8, <1>9 DEF Handler

\* What an abort leaves behind.
LEMMA AbortTypes ==
  ASSUME UsbTypeInv, NEW late, late \subseteq Device, Aborted(late)
  PROVE  /\ handler' \in Job /\ handler'.at = "wait" /\ deviceq' = <<>> /\ pending' = <<>>
         /\ unsent' \subseteq RuntimeEvent /\ leaked' \subseteq Device
<1>1. handler \in Job /\ unsent \subseteq RuntimeEvent /\ leaked \subseteq Device
  BY DEF UsbTypeInv, UsbTypeOK
<1>2. handler' \in Job /\ handler'.at = "wait" /\ deviceq' = <<>> /\ pending' = <<>>
  BY DEF Aborted, Job, Idle
<1>3. handler.at = "send" => handler.event \in RuntimeEvent
  BY <1>1 DEF Job
<1>4. handler.at = "leaving" => handler.rt \in Runtime
  BY <1>1 DEF Job
<1>5. unsent' \subseteq RuntimeEvent
  BY <1>1, <1>3, <1>4, ReportTypes DEF Aborted
<1>6. leaked' \subseteq Device
  BY <1>1, <1>4, ReportTypes DEF Aborted
<1>. QED  BY <1>2, <1>5, <1>6

\* What the application does.
LEMMA ApplicationTypes ==
  ASSUME UsbTypeInv,
         \/ StartDiscovery \/ StartDiscoveryFails \/ StopDiscovery \/ DropEnvironment
         \/ NextRuntimeEvent \/ UserDisconnects
  PROVE  UsbTypeInv'
<1>1. UsbTypeOK /\ handler \in Job /\ (mode = "new" => hotplug <= 1)
  BY DEF UsbTypeInv
<1>2. CASE StartDiscovery \/ StartDiscoveryFails
  <2>1. PICK evs \in SetToSeqs({DeviceConnected(DeviceAt(d, "rusb")) : d \in plugged}) : Offer(evs, {})
    BY <1>2 DEF StartDiscovery, StartDiscoveryFails
  <2>2. evs \in Seq(DeviceEvent)
    BY <1>1, EnumeratedType
  <2>3. deviceq' \in Seq(DeviceEvent) /\ Len(deviceq') <= DeviceCap /\ unseen' \subseteq Devices
    BY <1>1, <2>1, <2>2, OfferType
  <2>4. known' \subseteq Device /\ IsFiniteSet(known')
    BY <1>1, <1>2, PortsType DEF StartDiscovery, StartDiscoveryFails, UsbTypeInv, UsbTypeOK
  <2>5. /\ mode' \in {"new", "on", "stopped", "dropped"} /\ hotplug' \in 0 .. 2
        /\ mode' = "new" => hotplug' <= 1
    BY <1>1, <1>2 DEF StartDiscovery, StartDiscoveryFails, UsbTypeOK
  <2>. QED  BY <1>2, <2>3, <2>4, <2>5
            DEF StartDiscovery, StartDiscoveryFails, UsbTypeInv, UsbTypeOK, physical, list, reports
<1>3. CASE StopDiscovery
  <2>1. /\ handler' \in Job /\ handler'.at = "wait" /\ deviceq' = <<>> /\ pending' = <<>>
        /\ unsent' \subseteq RuntimeEvent /\ leaked' \subseteq Device
    BY <1>3, AbortTypes DEF StopDiscovery
  <2>2. up' \subseteq Runtime
    BY <1>1, <1>3 DEF StopDiscovery, UpAfterAbort, UsbTypeOK
  <2>3. DeviceCap \in Nat
    BY UsbEnvironmentAssumption
  <2>4. deviceq' \in Seq(DeviceEvent) /\ Len(deviceq') <= DeviceCap /\ pending' \in Seq(DeviceEvent)
    BY <2>1, <2>3
  <2>. QED  BY <1>3, <2>1, <2>2, <2>4 DEF StopDiscovery, UsbTypeInv, UsbTypeOK, physical
<1>4. CASE DropEnvironment
  <2>1. PICK late \in SUBSET Opening : Aborted(late)
    BY <1>4 DEF DropEnvironment
  <2>2. Opening \subseteq Device
    <3>1. deviceq \in Seq(DeviceEvent)
      BY <1>1 DEF UsbTypeOK
    <3>2. deviceq # <<>> => Head(deviceq).device \in Device
      <4>. SUFFICES ASSUME deviceq # <<>> PROVE Head(deviceq).device \in Device
        OBVIOUS
      <4>1. Head(deviceq) \in DeviceEvent
        BY <3>1
      <4>. QED  BY <4>1 DEF DeviceEvent
    <3>. QED  BY <1>1, <3>2, OpenedType DEF Opening
  <2>3. /\ handler' \in Job /\ handler'.at = "wait" /\ deviceq' = <<>> /\ pending' = <<>>
        /\ unsent' \subseteq RuntimeEvent /\ leaked' \subseteq Device
    BY <2>1, <2>2, AbortTypes
  <2>4. DeviceCap \in Nat
    BY UsbEnvironmentAssumption
  <2>5. deviceq' \in Seq(DeviceEvent) /\ Len(deviceq') <= DeviceCap /\ pending' \in Seq(DeviceEvent)
    BY <2>3, <2>4
  <2>6. up' \subseteq Runtime
    BY <1>1, <1>4 DEF DropEnvironment, UpAfterAbort, UsbTypeOK
  <2>. QED  BY <1>4, <2>3, <2>5, <2>6 DEF DropEnvironment, UsbTypeInv, UsbTypeOK, physical
<1>5. CASE NextRuntimeEvent
  <2>1. eventq \in Seq(RuntimeEvent) /\ eventq # <<>> /\ Len(eventq) <= EventCap /\ EventCap \in Nat
    BY <1>1, <1>5, UsbEnvironmentAssumption DEF NextRuntimeEvent, UsbTypeOK
  <2>2. Head(eventq) \in RuntimeEvent /\ Tail(eventq) \in Seq(RuntimeEvent)
        /\ Len(Tail(eventq)) <= EventCap
    BY <2>1
  <2>. QED  BY <1>5, <2>2 DEF NextRuntimeEvent, UsbTypeInv, UsbTypeOK, physical, backends, list
<1>6. CASE UserDisconnects
  <2>1. PICK r \in connected \cap up : up' = up \ {r} /\ refused' = refused \cup {r.device.dev}
    BY <1>6 DEF UserDisconnects
  <2>2. r.device.dev \in Devices
    BY <1>1 DEF UsbTypeOK, Runtime, Device
  <2>3. up' \subseteq Runtime /\ refused' \subseteq Devices
    BY <1>1, <2>1, <2>2 DEF UsbTypeOK
  <2>. QED  BY <1>6, <2>3 DEF UserDisconnects, UsbTypeInv, UsbTypeOK, physical, backends, reports
<1>. QED  BY <1>2, <1>3, <1>4, <1>5, <1>6

LEMMA UsbTypeStep == UsbTypeInv /\ [UsbNext]_usbVars => UsbTypeInv'
<1>. SUFFICES ASSUME UsbTypeInv, [UsbNext]_usbVars PROVE UsbTypeInv'
  OBVIOUS
<1>1. CASE UNCHANGED usbVars
  BY <1>1 DEF usbVars, UsbTypeInv, UsbTypeOK, physical, backends, list, reports
<1>. QED  BY <1>1, PhysicalTypes, BackendTypes, HandlerTypes, ApplicationTypes DEF UsbNext

\* Main result: whatever the channels' sizes and however often devices come
\* and go, neither channel ever holds more than its capacity, and the list
\* numbers its runtimes within the bound (usb/mod.rs, rusb.rs, serialport.rs).
THEOREM UsbTypes == UsbSpec => []UsbTypeOK
<1>1. UsbTypeInv => UsbTypeOK
  BY DEF UsbTypeInv
<1>. QED  BY UsbTypeInit, UsbTypeStep, <1>1, PTL DEF UsbSpec

(***************************************************************************)
(* The order of reports                                                    *)
(***************************************************************************)

OnItsWay(r) == Arrived(r) \in told \cup ToSet(eventq)

\* In the channel, an arrival is before the departure.
QueueInOrder ==
  \A i \in 1 .. Len(eventq) :
    eventq[i].kind = "left" =>
      Arrived(eventq[i].rt) \in told \/ \E j \in 1 .. i - 1 : eventq[j] = Arrived(eventq[i].rt)

\* What the handler task may report as left was sent before.
SentBefore ==
  mode \in {"new", "on"} =>
    /\ \A r \in connected : OnItsWay(r) \/ (handler.at = "send" /\ handler.event = Arrived(r))
    /\ handler.at = "leaving" => OnItsWay(handler.rt)
    /\ handler.at = "send" /\ handler.event.kind = "left" => OnItsWay(handler.event.rt)

OrderInv == UsbTypeInv /\ ArrivedBeforeLeft /\ QueueInOrder /\ SentBefore

LEMMA OrderInit == UsbInit => OrderInv
<1>. SUFFICES ASSUME UsbInit PROVE OrderInv
  OBVIOUS
<1>1. /\ told = {Arrived(r) : r \in connected} /\ handler = Idle /\ eventq = <<>>
  BY DEF UsbInit
<1>2. ArrivedBeforeLeft /\ SentBefore
  BY <1>1 DEF ArrivedBeforeLeft, SentBefore, OnItsWay, Arrived, Idle
<1>3. QueueInOrder
  BY <1>1 DEF QueueInOrder
<1>. QED  BY <1>2, <1>3, UsbTypeInit DEF OrderInv

\* Sent by the handler: it is behind what is in the channel.
LEMMA SendEventOrder == OrderInv /\ SendEvent => ArrivedBeforeLeft' /\ QueueInOrder' /\ SentBefore'
<1>. SUFFICES ASSUME OrderInv, SendEvent PROVE ArrivedBeforeLeft' /\ QueueInOrder' /\ SentBefore'
  OBVIOUS
<1>. DEFINE ev == handler.event
<1>1. /\ handler.at = "send" /\ handler' = Idle /\ eventq' = Append(eventq, ev) /\ mode = "on"
      /\ UNCHANGED <<connected, told, mode>>
  BY DEF SendEvent, list, reports
<1>2. eventq \in Seq(RuntimeEvent)
  BY DEF OrderInv, UsbTypeInv, UsbTypeOK
<1>3. ToSet(eventq') = ToSet(eventq) \cup {ev}
  BY <1>1, <1>2, QueueGrows
<1>4. ArrivedBeforeLeft'
  BY <1>1 DEF OrderInv, ArrivedBeforeLeft
<1>5. SentBefore'
  BY <1>1, <1>3 DEF OrderInv, SentBefore, OnItsWay, Idle
<1>6. Len(eventq) \in Nat /\ Len(eventq') = Len(eventq) + 1 /\ eventq'[Len(eventq) + 1] = ev
      /\ \A i \in 1 .. Len(eventq) : eventq'[i] = eventq[i]
  BY <1>1, <1>2
<1>7. ASSUME NEW i \in 1 .. Len(eventq'), eventq'[i].kind = "left"
      PROVE  \/ Arrived(eventq'[i].rt) \in told'
             \/ \E j \in 1 .. i - 1 : eventq'[j] = Arrived(eventq'[i].rt)
  <2>1. CASE i \in 1 .. Len(eventq)
    <3>1. eventq'[i] = eventq[i] /\ \A j \in 1 .. i - 1 : eventq'[j] = eventq[j]
      BY <1>6, <2>1
    <3>2. Arrived(eventq[i].rt) \in told \/ \E j \in 1 .. i - 1 : eventq[j] = Arrived(eventq[i].rt)
      BY <1>7, <2>1, <3>1 DEF OrderInv, QueueInOrder
    <3>. QED  BY <1>1, <3>1, <3>2
  <2>2. CASE i = Len(eventq) + 1
    <3>1. eventq'[i] = ev
      BY <1>6, <2>2
    <3>2. OnItsWay(ev.rt)
      BY <1>1, <1>7, <3>1 DEF OrderInv, SentBefore
    <3>3. CASE Arrived(ev.rt) \in told
      BY <1>1, <3>1, <3>3
    <3>4. CASE Arrived(ev.rt) \in ToSet(eventq)
      <4>1. PICK j \in 1 .. Len(eventq) : eventq[j] = Arrived(ev.rt)
        BY <1>2, <3>4 DEF ToSet
      <4>2. j \in 1 .. i - 1 /\ eventq'[j] = eventq[j]
        BY <1>6, <2>2
      <4>. QED  BY <3>1, <4>1, <4>2
    <3>. QED  BY <3>2, <3>3, <3>4 DEF OnItsWay
  <2>. QED  BY <1>6, <2>1, <2>2
<1>. QED  BY <1>4, <1>5, <1>7 DEF QueueInOrder

\* Taken by the application: the first in the channel.
LEMMA NextEventOrder ==
  OrderInv /\ NextRuntimeEvent => ArrivedBeforeLeft' /\ QueueInOrder' /\ SentBefore'
<1>. SUFFICES ASSUME OrderInv, NextRuntimeEvent
              PROVE  ArrivedBeforeLeft' /\ QueueInOrder' /\ SentBefore'
  OBVIOUS
<1>1. /\ eventq # <<>> /\ eventq' = Tail(eventq) /\ told' = told \cup {Head(eventq)}
      /\ UNCHANGED <<connected, handler, mode>>
  BY DEF NextRuntimeEvent, list
<1>2. eventq \in Seq(RuntimeEvent)
  BY DEF OrderInv, UsbTypeInv, UsbTypeOK
<1>3. ToSet(eventq) = ToSet(eventq') \cup {Head(eventq)}
  BY <1>1, <1>2, QueueShrinks
<1>4. SentBefore'
  BY <1>1, <1>3 DEF OrderInv, SentBefore, OnItsWay
<1>5. /\ Len(eventq) \in Nat /\ Len(eventq') = Len(eventq) - 1 /\ Head(eventq) = eventq[1]
      /\ 1 \in 1 .. Len(eventq)
      /\ \A i \in 1 .. Len(eventq') : i + 1 \in 1 .. Len(eventq) /\ eventq'[i] = eventq[i + 1]
  BY <1>1, <1>2
<1>6. ArrivedBeforeLeft'
  <2>1. Head(eventq).kind = "left" => Arrived(Head(eventq).rt) \in told
    BY <1>5 DEF OrderInv, QueueInOrder
  <2>. QED  BY <1>1, <2>1 DEF OrderInv, ArrivedBeforeLeft
<1>7. ASSUME NEW i \in 1 .. Len(eventq'), eventq'[i].kind = "left"
      PROVE  \/ Arrived(eventq'[i].rt) \in told'
             \/ \E j \in 1 .. i - 1 : eventq'[j] = Arrived(eventq'[i].rt)
  <2>1. i + 1 \in 1 .. Len(eventq) /\ eventq'[i] = eventq[i + 1]
    BY <1>5
  <2>2. CASE Arrived(eventq'[i].rt) \in told
    BY <1>1, <2>2
  <2>3. CASE \E j \in 1 .. i : eventq[j] = Arrived(eventq'[i].rt)
    <3>1. PICK j \in 1 .. i : eventq[j] = Arrived(eventq'[i].rt)
      BY <2>3
    <3>2. CASE j = 1
      BY <1>1, <1>5, <3>1, <3>2
    <3>3. CASE j # 1
      <4>1. j - 1 \in 1 .. i - 1 /\ j - 1 \in 1 .. Len(eventq') /\ j - 1 + 1 = j
        BY <1>5, <3>3
      <4>2. eventq'[j - 1] = eventq[j]
        BY <1>5, <4>1
      <4>. QED  BY <3>1, <4>1, <4>2
    <3>. QED  BY <3>2, <3>3
  <2>. QED  BY <1>7, <2>1, <2>2, <2>3 DEF OrderInv, QueueInOrder
<1>. QED  BY <1>4, <1>6, <1>7 DEF QueueInOrder

LEMMA OrderStep == OrderInv /\ [UsbNext]_usbVars => OrderInv'
<1>. SUFFICES ASSUME OrderInv, [UsbNext]_usbVars PROVE OrderInv'
  OBVIOUS
<1>. USE DEF list, reports
<1>1. UsbTypeInv'
  BY UsbTypeStep DEF OrderInv
<1>2. ASSUME UNCHANGED <<eventq, told>>, SentBefore' PROVE OrderInv'
  BY <1>1, <1>2 DEF OrderInv, ArrivedBeforeLeft, QueueInOrder
<1>3. ASSUME \/ \E d \in Devices : Plug(d) \/ Unplug(d)
             \/ Callback \/ Poll \/ StartDiscovery \/ StartDiscoveryFails
      PROVE  OrderInv'
  <2>1. Outside
    BY <1>3, OutsideSteps
  <2>2. mode \in {"new", "on"}
    BY <1>3 DEF Plug, Unplug, Watched, Callback, Poll, StartDiscovery, StartDiscoveryFails
  <2>. QED  BY <1>2, <2>1, <2>2 DEF Outside, OrderInv, SentBefore, OnItsWay
<1>4. CASE Duplicate \/ CloseDuplicate \/ ArriveFails \/ LeaveUnknown
  <2>1. handler' = Idle \/ \E x : handler' = [at |-> "duplicate", device |-> x]
    BY <1>4 DEF Duplicate, CloseDuplicate, ArriveFails, LeaveUnknown, Receives
  <2>2. /\ UNCHANGED <<connected, eventq, told, mode>> /\ mode = "on"
        /\ handler.at \notin {"send", "leaving"} /\ handler'.at \notin {"send", "leaving"}
    BY <1>4, <2>1 DEF Duplicate, CloseDuplicate, ArriveFails, LeaveUnknown, Receives, Idle
  <2>. QED  BY <1>2, <2>2 DEF OrderInv, SentBefore, OnItsWay
<1>5. CASE Arrive
  <2>1. PICK r : connected' = connected \cup {r} /\ handler' = [at |-> "send", event |-> Arrived(r)]
    BY <1>5 DEF Arrive
  <2>2. UNCHANGED <<eventq, told, mode>> /\ handler = Idle /\ mode = "on"
    BY <1>5 DEF Arrive, Receives
  <2>. QED  BY <1>2, <2>1, <2>2 DEF OrderInv, SentBefore, OnItsWay, Arrived, Idle
<1>6. CASE Leave
  <2>1. PICK r \in connected :
          /\ connected' = connected \ {r}
          /\ \/ handler' = [at |-> "leaving", rt |-> r]
             \/ handler' = [at |-> "send", event |-> Left(r)]
    BY <1>6 DEF Leave
  <2>2. UNCHANGED <<eventq, told, mode>> /\ handler = Idle /\ mode = "on"
    BY <1>6 DEF Leave, Receives
  <2>. QED  BY <1>2, <2>1, <2>2 DEF OrderInv, SentBefore, OnItsWay, Left, Idle
<1>7. CASE CloseLeaving
  <2>1. /\ handler.at = "leaving" /\ handler' = [at |-> "send", event |-> Left(handler.rt)]
        /\ UNCHANGED <<connected, eventq, told, mode>> /\ mode = "on"
    BY <1>7 DEF CloseLeaving
  <2>. QED  BY <1>2, <2>1 DEF OrderInv, SentBefore, OnItsWay, Left
<1>8. CASE StopDiscovery \/ DropEnvironment
  <2>1. /\ mode' \notin {"new", "on"} /\ UNCHANGED <<eventq, told>>
    BY <1>8 DEF StopDiscovery, DropEnvironment
  <2>. QED  BY <1>2, <2>1 DEF SentBefore
<1>9. CASE UserDisconnects \/ UNCHANGED usbVars
  <2>1. UNCHANGED <<connected, handler, eventq, told, mode>>
    BY <1>9 DEF UserDisconnects, usbVars
  <2>. QED  BY <1>2, <2>1 DEF OrderInv, SentBefore, OnItsWay
<1>. QED  BY <1>1, <1>3, <1>4, <1>5, <1>6, <1>7, <1>8, <1>9, SendEventOrder, NextEventOrder
          DEF UsbNext, Handler, OrderInv

\* Main result: no change goes unreported, and an application that gets a Left
\* event got the Arrived event first (usb/mod.rs), however events were lost or
\* discovery was stopped.
THEOREM UsbReportsInOrder == UsbSpec => []ReportedInOrder
<1>1. OrderInv /\ EveryChangeReported => ReportedInOrder
  BY DEF OrderInv, ReportedInOrder
<1>. QED  BY OrderInit, OrderStep, UsbChangesReported, <1>1, PTL DEF UsbSpec

(***************************************************************************)
(* The list when all is settled                                            *)
(***************************************************************************)

Live == mode \in {"new", "on"}

\* Device events on their way to the handler.
News == ToSet(deviceq) \cup ToSet(pending)

\* A serial device's events are in the order of its addresses.
Aged(q) ==
  \A i, j \in 1 .. Len(q) :
    /\ i < j /\ q[i].device.dev = q[j].device.dev
    /\ q[i].device.via = "serial" /\ q[j].device.via = "serial"
    => q[i].device.address <= q[j].device.address

\* A serial device of which it is still to be heard that it came is among
\* those known, or it is also to be heard, later, that it went.
Followed(q, ports, lost) ==
  \A i \in 1 .. Len(q) :
    /\ q[i].kind = "connected" /\ q[i].device.via = "serial" /\ q[i].device.dev \notin lost
    /\ q[i].device \notin ports
    => \E j \in i .. Len(q) : q[j] = DeviceDisconnected(q[i].device)

\* A libusb runtime of the device as it is plugged in now.
Claimer(d) ==
  \E r \in connected \cap up : r.device.via = "rusb" /\ r.device.dev = d /\ Present(r.device)

Served(d) == \E r \in connected : r.device.dev = d /\ Serves(r)

\* What the handler holds, and the list.
HandInv ==
  Live =>
    /\ leaked = {}
    /\ mode = "on" => hotplug > 0
    /\ mode = "new" => handler = Idle
    /\ handler.at = "leaving" =>
         /\ handler.rt \notin connected
         /\ handler.rt.device.address <= address[handler.rt.device.dev]
         /\ handler.rt.device.via = "rusb" => ~Present(handler.rt.device)
    /\ handler.at = "duplicate" => handler.device.dev \in refused \cup unseen
    /\ \A r \in connected \ up : r.device.dev \in refused
    /\ \A r, s \in connected : SameKey(r.device, s.device) => r = s

\* No device object is from the future; one port, one device object.
ObjectInv ==
  Live =>
    /\ \A e \in News : e.device.address <= address[e.device.dev]
    /\ \A x \in known : x.via = "serial" /\ x.address <= address[x.dev]
    /\ \A r \in connected : r.device.address <= address[r.device.dev]
    /\ \A x, y \in known : x.dev = y.dev => x = y
    /\ \A e \in ToSet(pending) : e.device.via = "rusb"

AgeInv ==
  Live =>
    /\ Aged(deviceq)
    /\ \A e \in ToSet(deviceq), y \in known :
         e.device.via = "serial" /\ e.device.dev = y.dev => e.device.address <= y.address

\* libusb tells of no device that is there that it is gone.
GoneInv ==
  Live => \A e \in News : e.kind = "disconnected" /\ e.device.via = "rusb" => ~Present(e.device)

\* Before discovery starts.
NewInv ==
  mode = "new" =>
    /\ \A e \in ToSet(deviceq) : e.kind = "connected" /\ e.device.via = "rusb"
    /\ \A r, s \in connected : r.device.dev = s.device.dev => r = s
    /\ \A r \in connected : r.device.dev \notin unseen => Present(r.device)

\* A runtime's device is there as far as its backend knows, or it is on its
\* way to the handler that it is not.  A port may have been opened later than
\* its backend saw it.
Backed(x) ==
  IF x.via = "rusb"
  THEN Present(x) \/ DeviceDisconnected(x) \in News
  ELSE \/ \E y \in known : SameKey(y, x) /\ y.address <= x.address
       \/ \E e \in ToSet(deviceq) : e.kind = "disconnected" /\ SameKey(e.device, x)

BackedInv ==
  mode = "on" =>
    /\ \A r \in connected : r.device.dev \notin unseen => Backed(r.device)
    /\ Followed(deviceq, known, unseen)

\* libusb has the device open, or its news of it is on its way.
ClaimDue(d) == Claimer(d) \/ DeviceConnected(DeviceAt(d, "rusb")) \in News

\* A port goes away while its device is there, or one comes back before it is
\* noticed, only because libusb has opened the device; or the port was opened
\* again before libusb's news of the device has arrived.
ClaimInv ==
  mode = "on" =>
    \A e \in ToSet(deviceq) :
      /\ e.kind = "disconnected" /\ e.device.via = "serial"
      /\ e.device.dev \notin unseen \cup refused
      /\ Present(e.device) \/ \E r \in connected : SameKey(r.device, e.device) /\ Present(r.device)
      => ClaimDue(e.device.dev)

\* A device that is there is served, or libusb's news of it is on its way.
ServedInv ==
  mode = "on" =>
    \A d \in plugged \ (unseen \cup refused) :
      listed[d] < MaxListed => Served(d) \/ DeviceConnected(DeviceAt(d, "rusb")) \in News

CurrentInv ==
  /\ UsbTypeInv /\ NoConnectionLeaks
  /\ HandInv /\ ObjectInv /\ AgeInv /\ GoneInv /\ NewInv /\ BackedInv /\ ClaimInv /\ ServedInv

\* When nothing is on its way, what the backends know is what there is.
LEMMA CurrentIsSettled == CurrentInv => SettledListIsCurrent
<1>. SUFFICES ASSUME CurrentInv, Settled PROVE SettledListIsCurrent
  BY DEF SettledListIsCurrent
<1>1. mode = "on" /\ News = {} /\ ToSet(deviceq) = {} /\ known = Ports
  BY DEF Settled, News, ToSet
<1>2. \A x \in Ports : Present(x)
  BY DEF Ports, DeviceAt, Present
<1>3. ASSUME NEW r \in connected, r.device.dev \notin unseen PROVE Present(r.device)
  <2>1. CASE r.device.via = "rusb"
    BY <1>1, <1>3, <2>1 DEF CurrentInv, BackedInv, Backed
  <2>2. CASE r.device.via # "rusb"
    <3>1. PICK y \in Ports : SameKey(y, r.device) /\ y.address <= r.device.address
      BY <1>1, <1>3, <2>2 DEF CurrentInv, BackedInv, Backed
    <3>2. y.dev = r.device.dev /\ y.dev \in plugged /\ y.address = address[y.dev]
      BY <1>2, <3>1 DEF SameKey, Present
    <3>3. r.device.address <= address[r.device.dev]
      BY <1>1 DEF CurrentInv, ObjectInv, Live
    <3>4. y \in Device /\ r.device \in Device
      BY PortsType DEF CurrentInv, UsbTypeInv, UsbTypeOK, Runtime
    <3>5. y.address \in Nat /\ r.device.address \in Nat
      BY <3>4, UsbEnvironmentAssumption DEF Device
    <3>. QED  BY <3>1, <3>2, <3>3, <3>5 DEF Present
  <2>. QED  BY <2>1, <2>2
<1>4. ASSUME NEW d \in plugged \ (unseen \cup refused), listed[d] < MaxListed
      PROVE  \E r \in connected : r.device.dev = d /\ Serves(r)
  BY <1>1, <1>4 DEF CurrentInv, ServedInv, Served
<1>. QED  BY <1>3, <1>4 DEF SettledListIsCurrent

(***************************************************************************)
(* The channel                                                             *)
(***************************************************************************)

LEMMA ElementOf ==
  ASSUME NEW S, NEW q \in Seq(S)
  PROVE  /\ \A e : e \in ToSet(q) <=> \E i \in 1 .. Len(q) : q[i] = e
         /\ ToSet(q) \subseteq S
<1>1. DOMAIN q = 1 .. Len(q)
  OBVIOUS
<1>. QED  BY <1>1 DEF ToSet

LEMMA Joined ==
  ASSUME NEW S, NEW p \in Seq(S), NEW q \in Seq(S)
  PROVE  /\ p \o q \in Seq(S) /\ Len(p) \in Nat /\ Len(q) \in Nat /\ Len(p \o q) = Len(p) + Len(q)
         /\ \A i \in 1 .. Len(p) : (p \o q)[i] = p[i]
         /\ \A i \in 1 .. Len(q) : (p \o q)[Len(p) + i] = q[i]
         /\ \A i \in Len(p) + 1 .. Len(p) + Len(q) :
              i - Len(p) \in 1 .. Len(q) /\ (p \o q)[i] = q[i - Len(p)]
         /\ ToSet(p \o q) = ToSet(p) \cup ToSet(q)
<1>1. /\ p \o q \in Seq(S) /\ Len(p) \in Nat /\ Len(q) \in Nat /\ Len(p \o q) = Len(p) + Len(q)
      /\ \A i \in 1 .. Len(p) : (p \o q)[i] = p[i]
      /\ \A i \in Len(p) + 1 .. Len(p) + Len(q) :
           i - Len(p) \in 1 .. Len(q) /\ (p \o q)[i] = q[i - Len(p)]
  OBVIOUS
<1>2. \A i \in 1 .. Len(q) : (p \o q)[Len(p) + i] = q[i]
  <2>. SUFFICES ASSUME NEW i \in 1 .. Len(q) PROVE (p \o q)[Len(p) + i] = q[i]
    OBVIOUS
  <2>1. Len(p) + i \in Len(p) + 1 .. Len(p) + Len(q) /\ Len(p) + i - Len(p) = i
    BY <1>1
  <2>. QED  BY <1>1, <2>1
<1>3. \A e : e \in ToSet(p \o q) => e \in ToSet(p) \cup ToSet(q)
  <2>. SUFFICES ASSUME NEW e \in ToSet(p \o q) PROVE e \in ToSet(p) \cup ToSet(q)
    OBVIOUS
  <2>1. PICK i \in 1 .. Len(p \o q) : (p \o q)[i] = e
    BY <1>1, ElementOf
  <2>2. CASE i <= Len(p)
    <3>1. i \in 1 .. Len(p) /\ p[i] = e
      BY <1>1, <2>1, <2>2
    <3>. QED  BY <3>1, ElementOf
  <2>3. CASE i > Len(p)
    <3>1. i \in Len(p) + 1 .. Len(p) + Len(q)
      BY <1>1, <2>3
    <3>2. i - Len(p) \in 1 .. Len(q) /\ q[i - Len(p)] = e
      BY <1>1, <2>1, <3>1
    <3>. QED  BY <3>2, ElementOf
  <2>. QED  BY <1>1, <2>2, <2>3
<1>4. \A e : e \in ToSet(p) => e \in ToSet(p \o q)
  <2>. SUFFICES ASSUME NEW e \in ToSet(p) PROVE e \in ToSet(p \o q)
    OBVIOUS
  <2>1. PICK i \in 1 .. Len(p) : p[i] = e
    BY ElementOf
  <2>2. i \in 1 .. Len(p \o q) /\ (p \o q)[i] = e
    BY <1>1, <2>1
  <2>. QED  BY <1>1, <2>2, ElementOf
<1>5. \A e : e \in ToSet(q) => e \in ToSet(p \o q)
  <2>. SUFFICES ASSUME NEW e \in ToSet(q) PROVE e \in ToSet(p \o q)
    OBVIOUS
  <2>1. PICK i \in 1 .. Len(q) : q[i] = e
    BY ElementOf
  <2>2. Len(p) + i \in 1 .. Len(p \o q) /\ (p \o q)[Len(p) + i] = e
    BY <1>1, <1>2, <2>1
  <2>. QED  BY <1>1, <2>2, ElementOf
<1>. QED  BY <1>1, <1>2, <1>3, <1>4, <1>5

\* What is offered is in the channel, behind what was there, or its loss is
\* noted.
LEMMA Offered ==
  ASSUME UsbTypeOK, NEW evs \in Seq(DeviceEvent), NEW w \in SUBSET Devices, Offer(evs, w),
         NEW all, all = deviceq \o evs
  PROVE  /\ unseen \cup w \subseteq unseen'
         /\ \A i \in 1 .. Len(deviceq') : i \in 1 .. Len(all) /\ deviceq'[i] = all[i]
         /\ \A i \in 1 .. Len(all) : i \in 1 .. Len(deviceq') \/ all[i].device.dev \in unseen'
         /\ ToSet(deviceq') \subseteq ToSet(deviceq) \cup ToSet(evs)
         /\ \A e \in ToSet(deviceq) \cup ToSet(evs) : e \in ToSet(deviceq') \/ e.device.dev \in unseen'
<1>1. deviceq \in Seq(DeviceEvent) /\ DeviceCap \in Nat
  BY UsbEnvironmentAssumption DEF UsbTypeOK
<1>2. all \in Seq(DeviceEvent) /\ Len(all) \in Nat /\ ToSet(all) = ToSet(deviceq) \cup ToSet(evs)
  BY <1>1, Joined
<1>3. /\ deviceq' = IF Len(all) <= DeviceCap THEN all ELSE SubSeq(all, 1, DeviceCap)
      /\ unseen' = unseen \cup w \cup {all[i].device.dev : i \in DeviceCap + 1 .. Len(all)}
  BY DEF Offer
<1>4. /\ \A i \in 1 .. Len(deviceq') : i \in 1 .. Len(all) /\ deviceq'[i] = all[i]
      /\ \A i \in 1 .. Len(all) : i \in 1 .. Len(deviceq') \/ i \in DeviceCap + 1 .. Len(all)
  <2>1. CASE Len(all) <= DeviceCap
    BY <1>3, <2>1
  <2>2. CASE ~(Len(all) <= DeviceCap)
    <3>1. deviceq' = SubSeq(all, 1, DeviceCap) /\ DeviceCap <= Len(all)
      BY <1>1, <1>2, <1>3, <2>2
    <3>2. Len(deviceq') = DeviceCap /\ \A i \in 1 .. DeviceCap : deviceq'[i] = all[i]
      BY <1>1, <1>2, <3>1
    <3>. QED  BY <1>1, <1>2, <3>1, <3>2
  <2>. QED  BY <2>1, <2>2
<1>5. \A i \in 1 .. Len(all) : i \in 1 .. Len(deviceq') \/ all[i].device.dev \in unseen'
  BY <1>3, <1>4
<1>6. deviceq' \in Seq(DeviceEvent)
  BY OfferType
<1>7. ToSet(deviceq') \subseteq ToSet(all)
  <2>. SUFFICES ASSUME NEW e \in ToSet(deviceq') PROVE e \in ToSet(all)
    OBVIOUS
  <2>1. PICK i \in 1 .. Len(deviceq') : deviceq'[i] = e
    BY <1>6, ElementOf
  <2>. QED  BY <1>2, <1>4, <2>1, ElementOf
<1>8. \A e \in ToSet(all) : e \in ToSet(deviceq') \/ e.device.dev \in unseen'
  <2>. SUFFICES ASSUME NEW e \in ToSet(all) PROVE e \in ToSet(deviceq') \/ e.device.dev \in unseen'
    OBVIOUS
  <2>1. PICK i \in 1 .. Len(all) : all[i] = e
    BY <1>2, ElementOf
  <2>2. CASE i \in 1 .. Len(deviceq')
    <3>1. deviceq'[i] = e
      BY <1>4, <2>1, <2>2
    <3>. QED  BY <1>6, <2>2, <3>1, ElementOf
  <2>. QED  BY <1>5, <2>1, <2>2
<1>9. unseen \cup w \subseteq unseen'
  BY <1>3
<1>. QED  BY <1>2, <1>4, <1>5, <1>7, <1>8, <1>9

\* libusb's events do not concern the order of the serial devices' events.
LEMMA OfferedByLibusb ==
  ASSUME CurrentInv, Live, NEW evs \in Seq(DeviceEvent), Offer(evs, {}),
         \A e \in ToSet(evs) : e.device.via = "rusb"
  PROVE  /\ Aged(deviceq')
         /\ Followed(deviceq, known, unseen) => Followed(deviceq', known, unseen')
<1>. DEFINE all == deviceq \o evs
<1>1. UsbTypeOK /\ deviceq \in Seq(DeviceEvent) /\ Aged(deviceq)
  BY DEF CurrentInv, UsbTypeInv, UsbTypeOK, AgeInv
<1>2. /\ Len(deviceq) \in Nat /\ Len(all) = Len(deviceq) + Len(evs) /\ Len(evs) \in Nat
      /\ \A i \in 1 .. Len(deviceq) : all[i] = deviceq[i]
      /\ \A i \in Len(deviceq) + 1 .. Len(all) : i - Len(deviceq) \in 1 .. Len(evs) /\ all[i] = evs[i - Len(deviceq)]
  BY <1>1, Joined
<1>3. {} \in SUBSET Devices
  OBVIOUS
<1>4. /\ unseen \subseteq unseen'
      /\ \A i \in 1 .. Len(deviceq') : i \in 1 .. Len(all) /\ deviceq'[i] = all[i]
      /\ \A i \in 1 .. Len(all) : i \in 1 .. Len(deviceq') \/ all[i].device.dev \in unseen'
  BY <1>1, <1>3, Offered
<1>. HIDE DEF all
<1>5. \A i \in 1 .. Len(all) : all[i].device.via = "serial" => i \in 1 .. Len(deviceq)
  <2>. SUFFICES ASSUME NEW i \in 1 .. Len(all), all[i].device.via = "serial"
                PROVE  i \in 1 .. Len(deviceq)
    OBVIOUS
  <2>1. CASE i > Len(deviceq)
    <3>1. i \in Len(deviceq) + 1 .. Len(all)
      BY <1>2, <2>1
    <3>2. all[i] \in ToSet(evs)
      BY <1>2, <3>1, ElementOf
    <3>. QED  BY <3>2
  <2>. QED  BY <1>2, <2>1
<1>6. Aged(deviceq')
  <2>. SUFFICES ASSUME NEW i \in 1 .. Len(deviceq'), NEW j \in 1 .. Len(deviceq'),
                       i < j, deviceq'[i].device.dev = deviceq'[j].device.dev,
                       deviceq'[i].device.via = "serial", deviceq'[j].device.via = "serial"
                PROVE  deviceq'[i].device.address <= deviceq'[j].device.address
    BY DEF Aged
  <2>1. i \in 1 .. Len(deviceq) /\ deviceq'[i] = deviceq[i]
    BY <1>2, <1>4, <1>5
  <2>2. j \in 1 .. Len(deviceq) /\ deviceq'[j] = deviceq[j]
    BY <1>2, <1>4, <1>5
  <2>. QED  BY <1>1, <2>1, <2>2 DEF Aged
<1>7. ASSUME Followed(deviceq, known, unseen) PROVE Followed(deviceq', known, unseen')
  <2>. SUFFICES ASSUME NEW i \in 1 .. Len(deviceq'),
                       deviceq'[i].kind = "connected", deviceq'[i].device.via = "serial",
                       deviceq'[i].device.dev \notin unseen', deviceq'[i].device \notin known
                PROVE  \E j \in i .. Len(deviceq') : deviceq'[j] = DeviceDisconnected(deviceq'[i].device)
    BY DEF Followed
  <2>1. i \in 1 .. Len(deviceq) /\ deviceq'[i] = deviceq[i]
    BY <1>2, <1>4, <1>5
  <2>2. PICK j \in i .. Len(deviceq) : deviceq[j] = DeviceDisconnected(deviceq[i].device)
    BY <1>4, <1>7, <2>1 DEF Followed
  <2>3. j \in 1 .. Len(all) /\ all[j] = deviceq[j]
    BY <1>2, <2>1, <2>2
  <2>4. all[j].device.dev \notin unseen'
    BY <2>1, <2>2, <2>3 DEF DeviceDisconnected
  <2>5. j \in 1 .. Len(deviceq') /\ deviceq'[j] = all[j]
    BY <1>4, <2>3, <2>4
  <2>6. j \in i .. Len(deviceq')
    BY <2>2, <2>5
  <2>. QED  BY <2>1, <2>2, <2>3, <2>5, <2>6
<1>. QED  BY <1>6, <1>7

\* An event that the handler has received.
LEMMA Received ==
  ASSUME CurrentInv, NEW kind, Receives(kind), UNCHANGED <<pending, known>>, unseen' = unseen
  PROVE  /\ Head(deviceq) \in DeviceEvent /\ Head(deviceq).kind = kind /\ Head(deviceq) \in News
         /\ ToSet(deviceq) = ToSet(deviceq') \cup {Head(deviceq)}
         /\ News = News' \cup {Head(deviceq)}
         /\ Aged(deviceq') /\ (Followed(deviceq, known, unseen) => Followed(deviceq', known, unseen'))
         /\ \A e \in ToSet(deviceq') :
              /\ Head(deviceq).device.dev = e.device.dev
              /\ Head(deviceq).device.via = "serial" /\ e.device.via = "serial"
              => Head(deviceq).device.address <= e.device.address
         /\ handler = Idle /\ mode = "on" /\ mode' = mode => Live'
<1>1. /\ deviceq \in Seq(DeviceEvent) /\ deviceq # <<>> /\ deviceq' = Tail(deviceq)
      /\ Head(deviceq).kind = kind /\ Aged(deviceq)
  BY DEF Receives, CurrentInv, UsbTypeInv, UsbTypeOK, AgeInv, Live
<1>2. /\ Len(deviceq) \in Nat /\ Len(deviceq') = Len(deviceq) - 1 /\ deviceq' \in Seq(DeviceEvent)
      /\ Head(deviceq) = deviceq[1] /\ 1 \in 1 .. Len(deviceq)
      /\ \A i \in 1 .. Len(deviceq') : i + 1 \in 1 .. Len(deviceq) /\ deviceq'[i] = deviceq[i + 1]
  BY <1>1
<1>3. Head(deviceq) \in DeviceEvent
  BY <1>1
<1>4. ToSet(deviceq) = ToSet(deviceq') \cup {Head(deviceq)}
  BY <1>1, QueueShrinks
<1>5. Aged(deviceq')
  <2>. SUFFICES ASSUME NEW i \in 1 .. Len(deviceq'), NEW j \in 1 .. Len(deviceq'),
                       i < j, deviceq'[i].device.dev = deviceq'[j].device.dev,
                       deviceq'[i].device.via = "serial", deviceq'[j].device.via = "serial"
                PROVE  deviceq'[i].device.address <= deviceq'[j].device.address
    BY DEF Aged
  <2>1. /\ i + 1 \in 1 .. Len(deviceq) /\ deviceq'[i] = deviceq[i + 1]
        /\ j + 1 \in 1 .. Len(deviceq) /\ deviceq'[j] = deviceq[j + 1] /\ i + 1 < j + 1
    BY <1>2
  <2>. QED  BY <1>1, <2>1 DEF Aged
<1>6. ASSUME NEW e \in ToSet(deviceq'), Head(deviceq).device.dev = e.device.dev,
             Head(deviceq).device.via = "serial", e.device.via = "serial"
      PROVE  Head(deviceq).device.address <= e.device.address
  <2>1. PICK i \in 1 .. Len(deviceq') : deviceq'[i] = e
    BY <1>2, ElementOf
  <2>2. i + 1 \in 1 .. Len(deviceq) /\ deviceq[i + 1] = e /\ 1 < i + 1
    BY <1>2, <2>1
  <2>. QED  BY <1>1, <1>2, <1>6, <2>2 DEF Aged
<1>7. ASSUME Followed(deviceq, known, unseen) PROVE Followed(deviceq', known, unseen')
  <2>. SUFFICES ASSUME NEW i \in 1 .. Len(deviceq'),
                       deviceq'[i].kind = "connected", deviceq'[i].device.via = "serial",
                       deviceq'[i].device.dev \notin unseen, deviceq'[i].device \notin known
                PROVE  \E j \in i .. Len(deviceq') : deviceq'[j] = DeviceDisconnected(deviceq'[i].device)
    BY DEF Followed
  <2>1. i + 1 \in 1 .. Len(deviceq) /\ deviceq'[i] = deviceq[i + 1]
    BY <1>2
  <2>2. PICK j \in i + 1 .. Len(deviceq) : deviceq[j] = DeviceDisconnected(deviceq[i + 1].device)
    BY <1>7, <2>1 DEF Followed
  <2>3. j - 1 \in i .. Len(deviceq') /\ j - 1 \in 1 .. Len(deviceq') /\ j - 1 + 1 = j
    BY <1>2, <2>1, <2>2
  <2>4. deviceq'[j - 1] = deviceq[j]
    BY <1>2, <2>3
  <2>. QED  BY <2>1, <2>2, <2>3, <2>4
<1>8. News = News' \cup {Head(deviceq)}
  BY <1>4 DEF News
<1>. QED  BY <1>1, <1>3, <1>4, <1>5, <1>6, <1>7, <1>8 DEF Live, News

(***************************************************************************)
(* Devices                                                                 *)
(***************************************************************************)

\* Every device object there is was made at or before now.
LEMMA Made ==
  ASSUME CurrentInv, Live
  PROVE  /\ \A e \in News : e.device \in Device /\ e.device.address <= address[e.device.dev]
         /\ \A x \in known : x \in Device /\ x.address <= address[x.dev]
         /\ \A r \in connected : r.device \in Device /\ r.device.address <= address[r.device.dev]
         /\ handler.at = "leaving" =>
              handler.rt.device \in Device /\ handler.rt.device.address <= address[handler.rt.device.dev]
         /\ address \in [Devices -> Nat]
<1>1. UsbTypeOK /\ handler \in Job
  BY DEF CurrentInv, UsbTypeInv
<1>2. \A e \in News : e \in DeviceEvent
  BY <1>1, ElementOf DEF News, UsbTypeOK
<1>3. \A e \in News : e.device \in Device
  BY <1>2 DEF DeviceEvent
<1>4. \A r \in connected : r.device \in Device
  BY <1>1 DEF UsbTypeOK, Runtime
<1>5. handler.at = "leaving" => handler.rt.device \in Device
  <2>1. handler.at = "leaving" => handler.rt \in Runtime
    BY <1>1 DEF Job
  <2>. QED  BY <2>1 DEF Runtime
<1>6. address \in [Devices -> Nat]
  BY <1>1, UsbEnvironmentAssumption DEF UsbTypeOK
<1>7. \A x \in known : x \in Device
  BY <1>1 DEF UsbTypeOK
<1>. QED  BY <1>3, <1>4, <1>5, <1>6, <1>7 DEF CurrentInv, ObjectInv, HandInv

LEMMA PlugCurrent == ASSUME CurrentInv, NEW d \in Devices, Plug(d) PROVE CurrentInv'
<1>. DEFINE n == DeviceConnected([DeviceAt(d, "rusb") EXCEPT !.address = @ + 1])
<1>1. /\ Live /\ Live' /\ d \notin plugged /\ plugged' = plugged \cup {d}
      /\ address' = [address EXCEPT ![d] = @ + 1] /\ Notify(n)
      /\ UNCHANGED <<mode, hotplug, known, deviceq, handler, connected, up, listed, eventq, told, unsent, leaked, refused>>
  BY DEF Plug, Watched, Live, list, reports
<1>2. UsbTypeOK /\ UsbTypeInv' /\ NoConnectionLeaks'
  BY <1>1, PhysicalTypes DEF CurrentInv, UsbTypeInv, NoConnectionLeaks, Live
<1>3. /\ pending \in Seq(DeviceEvent) /\ hotplug \in Nat /\ address \in [Devices -> Nat]
      /\ pending' \in Seq(DeviceEvent)
  BY <1>2, Made, <1>1 DEF UsbTypeOK, UsbTypeInv
<1>4. n.device = [dev |-> d, via |-> "rusb", address |-> address'[d]] /\ n.kind = "connected"
      /\ n = DeviceConnected(DeviceAt(d, "rusb"))'
  BY <1>1, <1>3 DEF DeviceConnected, DeviceAt
<1>5. ASSUME NEW x \in Device, x.address <= address[x.dev]
      PROVE  /\ Present(x)' <=> Present(x)
             /\ x.address <= address'[x.dev]
  <2>1. x.dev \in Devices /\ x.address \in Nat
    BY UsbEnvironmentAssumption DEF Device
  <2>2. CASE x.dev = d
    BY <1>1, <1>3, <1>5, <2>1, <2>2 DEF Present
  <2>3. CASE x.dev # d
    BY <1>1, <1>3, <1>5, <2>1, <2>3 DEF Present
  <2>. QED  BY <2>2, <2>3
<1>6. /\ ToSet(pending') \subseteq ToSet(pending) \cup {n} /\ ToSet(pending) \subseteq ToSet(pending')
      /\ hotplug > 0 => n \in ToSet(pending')
  <2>. DEFINE c == [i \in 1 .. hotplug |-> n]
  <2>0. n \in DeviceEvent
    <3>1. address[d] + 1 \in 0 .. MaxPlugs
      BY <1>2, <1>3, UsbEnvironmentAssumption DEF Plug, UsbTypeOK
    <3>2. address'[d] = address[d] + 1
      BY <1>1, <1>3
    <3>3. n.device \in Device
      BY <1>4, <3>1, <3>2 DEF Device, Backends
    <3>. QED  BY <1>4, <3>3 DEF DeviceConnected, DeviceEvent
  <2>. HIDE DEF n
  <2>1. c \in Seq(DeviceEvent) /\ Len(c) = hotplug /\ \A i \in 1 .. hotplug : c[i] = n
    BY <1>3, <2>0
  <2>2. \A e \in ToSet(c) : e = n
    BY <2>1, ElementOf
  <2>3. hotplug > 0 => n \in ToSet(c)
    <3>. SUFFICES ASSUME hotplug > 0 PROVE n \in ToSet(c)
      OBVIOUS
    <3>1. 1 \in 1 .. Len(c) /\ c[1] = n
      BY <1>3, <2>1
    <3>. QED  BY <2>1, <3>1, ElementOf
  <2>4. pending' = pending \o c
    BY <1>1 DEF Notify
  <2>. HIDE DEF c
  <2>5. ToSet(pending') = ToSet(pending) \cup ToSet(c)
    BY <1>3, <2>1, <2>4, Joined
  <2>. QED  BY <2>2, <2>3, <2>5
<1>7. News' \subseteq News \cup {n} /\ News \subseteq News' /\ (mode = "on" => n \in News')
  BY <1>1, <1>6 DEF News, CurrentInv, HandInv
<1>. HIDE DEF n
<1>8. unseen' = IF mode = "on" THEN unseen ELSE unseen \cup {d}
  BY <1>1, <1>4 DEF Notify
<1>9. HandInv'
  BY <1>1, <1>5, <1>8, Made DEF CurrentInv, HandInv, Live, Idle
<1>10. ObjectInv'
  <2>1. \A e \in News' : e.device.address <= (address[e.device.dev])'
    BY <1>1, <1>3, <1>4, <1>5, <1>7, Made
  <2>2. \A e \in ToSet(pending') : e.device.via = "rusb"
    BY <1>1, <1>4, <1>6 DEF CurrentInv, ObjectInv
  <2>. QED  BY <1>1, <1>5, <2>1, <2>2, Made DEF CurrentInv, ObjectInv
<1>11. AgeInv'
  BY <1>1 DEF CurrentInv, AgeInv
<1>12. GoneInv'
  BY <1>1, <1>4, <1>5, <1>7, Made DEF CurrentInv, GoneInv
<1>13. NewInv'
  BY <1>1, <1>5, <1>8, Made DEF CurrentInv, NewInv
<1>14. BackedInv'
  <2>. SUFFICES ASSUME mode = "on" PROVE BackedInv'
    BY <1>1 DEF BackedInv
  <2>1. unseen' = unseen /\ Followed(deviceq, known, unseen)'
    BY <1>1, <1>8 DEF CurrentInv, BackedInv
  <2>2. ASSUME NEW r \in connected, r.device.dev \notin unseen PROVE Backed(r.device)'
    <3>1. Backed(r.device) /\ (Present(r.device)' <=> Present(r.device))
      BY <1>1, <1>5, <2>2, Made DEF CurrentInv, BackedInv
    <3>. QED  BY <1>1, <1>7, <3>1 DEF Backed, SameKey, DeviceDisconnected
  <2>. QED  BY <1>1, <2>1, <2>2 DEF BackedInv
<1>15. \A r \in connected : Present(r.device)' <=> Present(r.device)
  BY <1>1, <1>5, Made
<1>16. \A x : x # d /\ ClaimDue(x) => ClaimDue(x)'
  <2>1. \A x : Claimer(x) => Claimer(x)'
    BY <1>1, <1>15 DEF Claimer
  <2>2. ASSUME NEW x, x # d, DeviceConnected(DeviceAt(x, "rusb")) \in News
        PROVE  DeviceConnected(DeviceAt(x, "rusb"))' \in News'
    <3>1. x \in Devices
      <4>1. DeviceConnected(DeviceAt(x, "rusb")).device.dev = x
        BY DEF DeviceConnected, DeviceAt
      <4>. QED  BY <1>1, <2>2, <4>1, Made DEF Device
    <3>2. DeviceConnected(DeviceAt(x, "rusb"))' = DeviceConnected(DeviceAt(x, "rusb"))
      BY <1>1, <1>3, <2>2, <3>1 DEF DeviceConnected, DeviceAt
    <3>. QED  BY <1>7, <2>2, <3>2
  <2>. QED  BY <2>1, <2>2 DEF ClaimDue
<1>17. ClaimInv'
  <2>1. \A e \in ToSet(deviceq) : Present(e.device)' <=> Present(e.device)
    BY <1>1, <1>5, Made DEF News
  <2>2. \A r, e : SameKey(r.device, e.device)' <=> SameKey(r.device, e.device)
    BY DEF SameKey
  <2>3. \A x \in Device : x.address <= address[x.dev] /\ Present(x) => x.dev # d
    BY <1>1 DEF Present
  <2>4. ASSUME NEW e \in ToSet(deviceq), mode = "on", e.kind = "disconnected", e.device.via = "serial",
               e.device.dev \notin unseen' \cup refused,
               Present(e.device) \/ \E r \in connected : SameKey(r.device, e.device) /\ Present(r.device)
        PROVE  ClaimDue(e.device.dev)'
    <3>1. e.device.dev # d
      BY <1>1, <2>4 DEF Present, SameKey
    <3>2. ClaimDue(e.device.dev)
      BY <1>1, <1>8, <2>4 DEF CurrentInv, ClaimInv
    <3>. QED  BY <1>16, <3>1, <3>2
  <2>. QED  BY <1>1, <1>15, <2>1, <2>2, <2>4 DEF ClaimInv
<1>18. ServedInv'
  <2>. SUFFICES ASSUME mode = "on", NEW c \in plugged', c \notin unseen \cup refused, listed[c] < MaxListed
                PROVE  Served(c)' \/ DeviceConnected(DeviceAt(c, "rusb"))' \in News'
    BY <1>1, <1>8 DEF ServedInv
  <2>1. CASE c = d
    BY <1>4, <1>7, <2>1
  <2>2. CASE c # d
    <3>1. c \in plugged /\ DeviceConnected(DeviceAt(c, "rusb"))' = DeviceConnected(DeviceAt(c, "rusb"))
      BY <1>1, <1>2, <1>3, <2>2 DEF DeviceConnected, DeviceAt, UsbTypeOK
    <3>2. Served(c) => Served(c)'
      BY <1>1, <1>15 DEF Served, Serves
    <3>. QED  BY <1>7, <3>1, <3>2 DEF CurrentInv, ServedInv
  <2>. QED  BY <2>1, <2>2
<1>. QED  BY <1>2, <1>9, <1>10, <1>11, <1>12, <1>13, <1>14, <1>17, <1>18 DEF CurrentInv

LEMMA UnplugCurrent == ASSUME CurrentInv, NEW d \in Devices, Unplug(d) PROVE CurrentInv'
<1>. DEFINE n == DeviceDisconnected(DeviceAt(d, "rusb"))
<1>1. /\ Live /\ Live' /\ d \in plugged /\ plugged' = plugged \ {d} /\ Notify(n)
      /\ UNCHANGED <<address, mode, hotplug, known, deviceq, handler, connected, up, listed, eventq, told, unsent, leaked, refused>>
  BY DEF Unplug, Watched, Live, list, reports
<1>2. UsbTypeOK /\ UsbTypeInv' /\ NoConnectionLeaks'
  BY <1>1, PhysicalTypes DEF CurrentInv, UsbTypeInv, NoConnectionLeaks, Live
<1>3. /\ pending \in Seq(DeviceEvent) /\ hotplug \in Nat /\ address \in [Devices -> Nat]
      /\ pending' \in Seq(DeviceEvent)
  BY <1>1, <1>2, Made DEF UsbTypeOK, UsbTypeInv
<1>4. /\ n.device = [dev |-> d, via |-> "rusb", address |-> address[d]] /\ n.kind = "disconnected"
      /\ n \in DeviceEvent
  BY <1>2, AtType, EventTypes DEF DeviceDisconnected, DeviceAt, Backends
<1>5. \A x : Present(x)' <=> Present(x) /\ x.dev # d
  BY <1>1 DEF Present
<1>6. /\ ToSet(pending') \subseteq ToSet(pending) \cup {n} /\ ToSet(pending) \subseteq ToSet(pending')
      /\ hotplug > 0 => n \in ToSet(pending')
  <2>. DEFINE c == [i \in 1 .. hotplug |-> n]
  <2>. HIDE DEF n
  <2>1. c \in Seq(DeviceEvent) /\ Len(c) = hotplug /\ \A i \in 1 .. hotplug : c[i] = n
    BY <1>3, <1>4
  <2>2. \A e \in ToSet(c) : e = n
    BY <2>1, ElementOf
  <2>3. hotplug > 0 => n \in ToSet(c)
    <3>. SUFFICES ASSUME hotplug > 0 PROVE n \in ToSet(c)
      OBVIOUS
    <3>1. 1 \in 1 .. Len(c) /\ c[1] = n
      BY <1>3, <2>1
    <3>. QED  BY <2>1, <3>1, ElementOf
  <2>4. pending' = pending \o c
    BY <1>1 DEF Notify
  <2>. HIDE DEF c
  <2>5. ToSet(pending') = ToSet(pending) \cup ToSet(c)
    BY <1>3, <2>1, <2>4, Joined
  <2>. QED  BY <2>2, <2>3, <2>5
<1>7. News' \subseteq News \cup {n} /\ News \subseteq News' /\ (mode = "on" => n \in News')
  BY <1>1, <1>6 DEF News, CurrentInv, HandInv
<1>8. \A r : r.device \in Device /\ r.device.via = "rusb" /\ r.device.dev = d /\ Present(r.device)
         => n = DeviceDisconnected(r.device)
  BY DEF Present, Device, DeviceAt
<1>. HIDE DEF n
<1>9. unseen' = IF mode = "on" THEN unseen ELSE unseen \cup {d}
  BY <1>1, <1>4 DEF Notify
<1>10. HandInv'
  <2>1. \A x, y : SameKey(x, y)' <=> SameKey(x, y)
    BY DEF SameKey
  <2>. QED  BY <1>1, <1>5, <1>9 DEF CurrentInv, HandInv, Live, Idle
<1>11. ObjectInv'
  <2>1. \A e \in News' : e.device.address <= address[e.device.dev]
    BY <1>1, <1>3, <1>4, <1>7, Made
  <2>2. \A e \in ToSet(pending') : e.device.via = "rusb"
    BY <1>1, <1>4, <1>6 DEF CurrentInv, ObjectInv
  <2>. QED  BY <1>1, <2>1, <2>2, Made DEF CurrentInv, ObjectInv
<1>12. AgeInv'
  BY <1>1 DEF CurrentInv, AgeInv
<1>13. GoneInv'
  BY <1>1, <1>4, <1>5, <1>7 DEF CurrentInv, GoneInv
<1>14. NewInv'
  BY <1>1, <1>5, <1>9 DEF CurrentInv, NewInv
<1>15. BackedInv'
  <2>. SUFFICES ASSUME mode = "on" PROVE BackedInv'
    BY <1>1 DEF BackedInv
  <2>1. unseen' = unseen /\ Followed(deviceq, known, unseen)'
    BY <1>1, <1>9 DEF CurrentInv, BackedInv
  <2>2. ASSUME NEW r \in connected, r.device.dev \notin unseen
        PROVE  Backed(r.device)'
    <3>1. Backed(r.device) /\ r.device \in Device
      BY <1>1, <2>2, Made DEF CurrentInv, BackedInv
    <3>2. CASE r.device.via = "rusb"
      <4>1. DeviceDisconnected(r.device) \in News => DeviceDisconnected(r.device) \in News'
        BY <1>7
      <4>2. Present(r.device) => Present(r.device)' \/ DeviceDisconnected(r.device) \in News'
        BY <1>5, <1>7, <1>8, <3>1, <3>2
      <4>. QED  BY <3>1, <3>2, <4>1, <4>2 DEF Backed, DeviceDisconnected
    <3>3. CASE r.device.via # "rusb"
      BY <1>1, <3>1, <3>3 DEF Backed, SameKey
    <3>. QED  BY <3>2, <3>3
  <2>. QED  BY <1>1, <2>1, <2>2 DEF BackedInv
<1>16. \A x : x # d /\ ClaimDue(x) => ClaimDue(x)'
  <2>1. \A x : x # d /\ Claimer(x) => Claimer(x)'
    BY <1>1, <1>5 DEF Claimer
  <2>. QED  BY <1>1, <1>7, <2>1 DEF ClaimDue, DeviceConnected, DeviceAt
<1>17. ClaimInv'
  <2>1. \A r, e : SameKey(r.device, e.device)' <=> SameKey(r.device, e.device)
    BY DEF SameKey
  <2>2. \A r, e : SameKey(r.device, e.device) => r.device.dev = e.device.dev
    BY DEF SameKey
  <2>3. ASSUME NEW e \in ToSet(deviceq), mode = "on", e.kind = "disconnected", e.device.via = "serial",
               e.device.dev \notin unseen \cup refused,
               Present(e.device)' \/ \E r \in connected : SameKey(r.device, e.device) /\ Present(r.device)'
        PROVE  ClaimDue(e.device.dev)'
    <3>1. e.device.dev # d
      BY <1>5, <2>2, <2>3
    <3>2. ClaimDue(e.device.dev)
      BY <1>5, <2>3 DEF CurrentInv, ClaimInv
    <3>. QED  BY <1>16, <3>1, <3>2
  <2>. QED  BY <1>1, <1>9, <2>1, <2>3 DEF ClaimInv
<1>18. ServedInv'
  <2>. SUFFICES ASSUME mode = "on", NEW c \in plugged', c \notin unseen \cup refused, listed[c] < MaxListed
                PROVE  Served(c)' \/ DeviceConnected(DeviceAt(c, "rusb"))' \in News'
    BY <1>1, <1>9 DEF ServedInv
  <2>1. c # d /\ c \in plugged /\ DeviceConnected(DeviceAt(c, "rusb"))' = DeviceConnected(DeviceAt(c, "rusb"))
    BY <1>1 DEF DeviceConnected, DeviceAt
  <2>2. Served(c) => Served(c)'
    BY <1>1, <1>5, <2>1 DEF Served, Serves
  <2>. QED  BY <1>7, <2>1, <2>2 DEF CurrentInv, ServedInv
<1>. QED  BY <1>2, <1>10, <1>11, <1>12, <1>13, <1>14, <1>15, <1>17, <1>18 DEF CurrentInv

(***************************************************************************)
(* Backends                                                                *)
(***************************************************************************)

LEMMA CallbackCurrent == CurrentInv /\ Callback => CurrentInv'
<1>. SUFFICES ASSUME CurrentInv, Callback PROVE CurrentInv'
  OBVIOUS
<1>. DEFINE n == Head(pending)
<1>1. /\ mode = "on" /\ mode' = mode /\ pending # <<>> /\ pending' = Tail(pending) /\ Offer(<<n>>, {})
      /\ UNCHANGED <<plugged, address, hotplug, known, handler, connected, up, listed, eventq, told, unsent, leaked, refused>>
      /\ Live /\ Live'
  BY DEF Callback, Live, physical, list, reports
<1>2. UsbTypeOK /\ UsbTypeInv' /\ NoConnectionLeaks' /\ pending \in Seq(DeviceEvent)
  BY <1>1, BackendTypes DEF CurrentInv, UsbTypeInv, UsbTypeOK, NoConnectionLeaks
<1>3. /\ n \in DeviceEvent /\ <<n>> \in Seq(DeviceEvent) /\ ToSet(<<n>>) = {n}
      /\ ToSet(pending) = ToSet(pending') \cup {n}
  <2>1. n \in DeviceEvent
    BY <1>1, <1>2
  <2>. HIDE DEF n
  <2>2. <<n>> \in Seq(DeviceEvent) /\ Len(<<n>>) = 1 /\ <<n>>[1] = n
    BY <2>1
  <2>3. ToSet(<<n>>) = {n}
    BY <2>2 DEF ToSet
  <2>. QED  BY <1>1, <1>2, <2>1, <2>2, <2>3, QueueShrinks DEF n
<1>4. n.device.via = "rusb"
  BY <1>1, <1>3 DEF CurrentInv, ObjectInv
<1>. HIDE DEF n
<1>5. /\ unseen \subseteq unseen'
      /\ ToSet(deviceq') \subseteq ToSet(deviceq) \cup {n}
      /\ \A e \in ToSet(deviceq) \cup {n} : e \in ToSet(deviceq') \/ e.device.dev \in unseen'
  <2>1. {} \in SUBSET Devices
    OBVIOUS
  <2>. QED  BY <1>1, <1>2, <1>3, <2>1, Offered
<1>6. Aged(deviceq') /\ (Followed(deviceq, known, unseen) => Followed(deviceq', known, unseen'))
  BY <1>1, <1>3, <1>4, OfferedByLibusb
<1>7. News' \subseteq News /\ \A e \in News : e \in News' \/ e.device.dev \in unseen'
  BY <1>3, <1>5 DEF News
<1>8. \A x : Present(x)' <=> Present(x)
  BY <1>1 DEF Present
<1>9. HandInv'
  BY <1>1, <1>5, <1>8 DEF CurrentInv, HandInv, SameKey
<1>10. ObjectInv'
  BY <1>1, <1>3, <1>7 DEF CurrentInv, ObjectInv
<1>11. AgeInv'
  BY <1>1, <1>4, <1>5, <1>6 DEF CurrentInv, AgeInv
<1>12. GoneInv'
  BY <1>1, <1>7, <1>8 DEF CurrentInv, GoneInv
<1>13. NewInv'
  BY <1>1 DEF NewInv
<1>14. BackedInv'
  <2>1. Followed(deviceq, known, unseen)'
    BY <1>1, <1>6 DEF CurrentInv, BackedInv
  <2>2. ASSUME NEW r \in connected, r.device.dev \notin unseen'
        PROVE  Backed(r.device)'
    <3>1. DeviceDisconnected(r.device).device.dev = r.device.dev
      BY DEF DeviceDisconnected
    <3>2. Backed(r.device)
      BY <1>1, <1>5, <2>2 DEF CurrentInv, BackedInv
    <3>3. CASE r.device.via = "rusb"
      <4>1. DeviceDisconnected(r.device) \in News => DeviceDisconnected(r.device) \in News'
        BY <1>7, <2>2, <3>1
      <4>. QED  BY <1>8, <3>2, <3>3, <4>1 DEF Backed, DeviceDisconnected
    <3>4. CASE r.device.via # "rusb"
      <4>1. \A e \in ToSet(deviceq) : SameKey(e.device, r.device) => e \in ToSet(deviceq')
        BY <1>5, <2>2 DEF SameKey
      <4>. QED  BY <1>1, <3>2, <3>4, <4>1 DEF Backed, SameKey
    <3>. QED  BY <3>3, <3>4
  <2>. QED  BY <1>1, <2>1, <2>2 DEF BackedInv
<1>15. \A x : x \notin unseen' /\ ClaimDue(x) => ClaimDue(x)'
  <2>1. \A x : Claimer(x) => Claimer(x)'
    BY <1>1, <1>8 DEF Claimer
  <2>2. \A x : DeviceConnected(DeviceAt(x, "rusb")).device.dev = x
    BY DEF DeviceConnected, DeviceAt
  <2>3. \A x : DeviceConnected(DeviceAt(x, "rusb"))' = DeviceConnected(DeviceAt(x, "rusb"))
    BY <1>1 DEF DeviceConnected, DeviceAt
  <2>. QED  BY <1>7, <2>1, <2>2, <2>3 DEF ClaimDue
<1>16. ClaimInv'
  BY <1>1, <1>4, <1>5, <1>8, <1>15 DEF CurrentInv, ClaimInv, SameKey
<1>17. ServedInv'
  <2>. SUFFICES ASSUME NEW c \in plugged, c \notin unseen' \cup refused, listed[c] < MaxListed
                PROVE  Served(c)' \/ DeviceConnected(DeviceAt(c, "rusb"))' \in News'
    BY <1>1 DEF ServedInv
  <2>1. DeviceConnected(DeviceAt(c, "rusb"))' = DeviceConnected(DeviceAt(c, "rusb"))
    BY <1>1 DEF DeviceConnected, DeviceAt
  <2>2. DeviceConnected(DeviceAt(c, "rusb")).device.dev = c
    BY DEF DeviceConnected, DeviceAt
  <2>3. Served(c) => Served(c)'
    BY <1>1, <1>8 DEF Served, Serves
  <2>. QED  BY <1>1, <1>5, <1>7, <2>1, <2>2, <2>3 DEF CurrentInv, ServedInv
<1>. QED  BY <1>2, <1>9, <1>10, <1>11, <1>12, <1>13, <1>14, <1>16, <1>17 DEF CurrentInv

\* The ports as device objects, and what hides one.
LEMMA PortFacts ==
  ASSUME CurrentInv, Live
  PROVE  /\ \A x \in Ports : x \in Device /\ x.via = "serial" /\ x.dev \in plugged /\ x.address = address[x.dev]
         /\ \A x, y \in Ports : x.dev = y.dev => x = y
         /\ \A d \in plugged : Claimed(d) \/ DeviceAt(d, "serial") \in Ports
         /\ \A d : Claimed(d) => Claimer(d) \/ d \in refused \cup unseen
<1>1. \A x \in Ports : x \in Device
  BY PortsType DEF CurrentInv, UsbTypeInv
<1>2. \A x \in Ports : \E d \in plugged : x = DeviceAt(d, "serial")
  BY DEF Ports
<1>3. \A x \in Ports : x.via = "serial" /\ x.dev \in plugged /\ x.address = address[x.dev]
                       /\ x = DeviceAt(x.dev, "serial")
  BY <1>2 DEF DeviceAt
<1>4. \A d \in plugged : Claimed(d) \/ DeviceAt(d, "serial") \in Ports
  BY DEF Ports
<1>5. ASSUME NEW d, Claimed(d), d \notin refused \cup unseen PROVE Claimer(d)
  <2>1. PICK x \in Open : x.via = "rusb" /\ x.dev = d /\ Present(x)
    BY <1>5 DEF Claimed
  <2>2. PICK r \in up : r.device = x
    BY <1>5, <2>1 DEF Open, CurrentInv, HandInv
  <2>3. r \in connected
    <3>1. handler.at = "leaving" => r # handler.rt
      BY <2>1, <2>2 DEF CurrentInv, HandInv
    <3>. QED  BY <2>2, <3>1 DEF CurrentInv, NoConnectionLeaks
  <2>. QED  BY <2>1, <2>2, <2>3 DEF Claimer
<1>6. \A x, y \in Ports : x.dev = y.dev => x = y
  BY <1>3
<1>. QED  BY <1>1, <1>3, <1>4, <1>5, <1>6

\* An order of some events has them all.
LEMMA OrderElements ==
  ASSUME NEW S, IsFiniteSet(S), NEW s \in SetToSeqs(S)
  PROVE  s \in Seq(S) /\ ToSet(s) = S
<1>. DEFINE n == Cardinality(S)
<1>1. n \in Nat
  BY FS_CardinalityType
<1>2. s \in [1 .. n -> S] /\ \A i, j \in 1 .. n : i # j => s[i] # s[j]
  BY DEF SetToSeqs
<1>3. s \in Injection(1 .. n, S)
  BY <1>2 DEF Injection, IsInjective
<1>4. Cardinality(1 .. n) = n
  <2>1. 1 \in Int /\ n \in Int
    BY <1>1
  <2>. HIDE DEF n
  <2>2. Cardinality(1 .. n) = IF 1 > n THEN 0 ELSE n - 1 + 1
    BY <2>1, FS_Interval
  <2>. QED  BY <1>1, <2>2
<1>5. s \in Surjection(1 .. n, S)
  BY <1>3, <1>4, FS_Injection
<1>6. \A x \in S : \E i \in 1 .. n : s[i] = x
  BY <1>5 DEF Surjection
<1>7. s \in Seq(S) /\ Len(s) = n
  BY <1>1, <1>2
<1>8. \A x \in S : x \in ToSet(s)
  BY <1>6, <1>7, ElementOf
<1>9. ToSet(s) \subseteq S
  BY <1>7, ElementOf
<1>. QED  BY <1>7, <1>8, <1>9

\* What a tick of the poll finds: ports by their names.
PortsAdded == {y \in Ports : \A z \in known : z.dev # y.dev}
PortsGone == {y \in known : \A z \in Ports : z.dev # y.dev}
PortsSwapped == {x.dev : x \in {y \in Ports \ known : \E z \in known : z.dev = y.dev}}

LEMMA PollOffers ==
  ASSUME CurrentInv, Poll
  PROVE  \E evs \in Seq(DeviceEvent) :
           /\ Offer(evs, PortsSwapped)
           /\ ToSet(evs) = {DeviceConnected(x) : x \in PortsAdded} \cup {DeviceDisconnected(x) : x \in PortsGone}
<1>. DEFINE New == {DeviceConnected(x) : x \in PortsAdded}
            Gone == {DeviceDisconnected(x) : x \in PortsGone}
<1>1. UsbTypeInv /\ UsbTypeOK /\ mode = "on" /\ Live
  BY DEF CurrentInv, UsbTypeInv, Poll, Live
<1>2. (\A x \in known : x.via = "serial") /\ (\A x \in Ports : x.via = "serial")
  BY <1>1, PortFacts DEF CurrentInv, ObjectInv
<1>3. \A x, y : x.via = "serial" /\ y.via = "serial" => (SameKey(x, y) <=> x.dev = y.dev)
  BY DEF SameKey
<1>4. /\ PortsAdded = {y \in Ports : ~InPortMap(y, known)}
      /\ PortsGone = {y \in known : ~InPortMap(y, Ports)}
      /\ {y \in Ports \ known : \E z \in known : z.dev = y.dev} = {y \in Ports \ known : InPortMap(y, known)}
  BY <1>2, <1>3 DEF PortsAdded, PortsGone, InPortMap
<1>5. PortsSwapped = {x.dev : x \in {y \in Ports \ known : InPortMap(y, known)}}
  BY <1>4 DEF PortsSwapped
<1>6. \E a \in SetToSeqs(New), b \in SetToSeqs(Gone) : Offer(a \o b, PortsSwapped)
  BY <1>4, <1>5 DEF Poll
<1>7. PICK a \in SetToSeqs(New), b \in SetToSeqs(Gone) : Offer(a \o b, PortsSwapped)
  BY <1>6
<1>8. Ports \subseteq Device /\ IsFiniteSet(Ports) /\ known \subseteq Device /\ IsFiniteSet(known)
  BY <1>1, PortsType DEF UsbTypeInv, UsbTypeOK
<1>9. PortsAdded \subseteq Device /\ IsFiniteSet(PortsAdded) /\ PortsGone \subseteq Device /\ IsFiniteSet(PortsGone)
  BY <1>8, FS_Subset DEF PortsAdded, PortsGone
<1>10. IsFiniteSet(New) /\ New \subseteq DeviceEvent
  <2>. DEFINE f == [x \in PortsAdded |-> DeviceConnected(x)]
  <2>1. New = {f[x] : x \in PortsAdded} /\ DOMAIN f = PortsAdded
    OBVIOUS
  <2>2. IsFiniteSet({f[x] : x \in PortsAdded})
    <3>. HIDE DEF f
    <3>. QED  BY <1>9, <2>1, FiniteImage
  <2>. QED  BY <1>9, <2>1, <2>2, EventTypes
<1>11. IsFiniteSet(Gone) /\ Gone \subseteq DeviceEvent
  <2>. DEFINE f == [x \in PortsGone |-> DeviceDisconnected(x)]
  <2>1. Gone = {f[x] : x \in PortsGone} /\ DOMAIN f = PortsGone
    OBVIOUS
  <2>2. IsFiniteSet({f[x] : x \in PortsGone})
    <3>. HIDE DEF f
    <3>. QED  BY <1>9, <2>1, FiniteImage
  <2>. QED  BY <1>9, <2>1, <2>2, EventTypes
<1>. HIDE DEF New, Gone
<1>12. a \in Seq(DeviceEvent) /\ b \in Seq(DeviceEvent)
  BY <1>10, <1>11, OrderType
<1>13. ToSet(a) = New /\ ToSet(b) = Gone
  BY <1>10, <1>11, OrderElements
<1>14. a \o b \in Seq(DeviceEvent) /\ ToSet(a \o b) = New \cup Gone
  BY <1>12, <1>13, Joined
<1>. QED  BY <1>7, <1>14 DEF New, Gone

\* What is offered in the order of the addresses stays in it.
LEMMA OfferedAged ==
  ASSUME CurrentInv, Live, NEW evs \in Seq(DeviceEvent), NEW w \in SUBSET Devices, Offer(evs, w),
         \A e \in ToSet(deviceq) \cup ToSet(evs), f \in ToSet(evs) :
           e.device.dev = f.device.dev /\ e.device.via = "serial" /\ f.device.via = "serial"
             => e.device.address <= f.device.address
  PROVE  Aged(deviceq')
<1>. DEFINE all == deviceq \o evs
<1>1. UsbTypeOK /\ deviceq \in Seq(DeviceEvent) /\ Aged(deviceq)
  BY DEF CurrentInv, UsbTypeInv, UsbTypeOK, AgeInv
<1>2. /\ Len(deviceq) \in Nat /\ Len(all) = Len(deviceq) + Len(evs) /\ Len(evs) \in Nat
      /\ \A i \in 1 .. Len(deviceq) : all[i] = deviceq[i]
      /\ \A i \in Len(deviceq) + 1 .. Len(all) : i - Len(deviceq) \in 1 .. Len(evs) /\ all[i] = evs[i - Len(deviceq)]
      /\ all \in Seq(DeviceEvent) /\ ToSet(all) = ToSet(deviceq) \cup ToSet(evs)
  BY <1>1, Joined
<1>3. \A i \in 1 .. Len(deviceq') : i \in 1 .. Len(all) /\ deviceq'[i] = all[i]
  BY <1>1, Offered
<1>. HIDE DEF all
<1>. SUFFICES ASSUME NEW i \in 1 .. Len(deviceq'), NEW j \in 1 .. Len(deviceq'),
                     i < j, deviceq'[i].device.dev = deviceq'[j].device.dev,
                     deviceq'[i].device.via = "serial", deviceq'[j].device.via = "serial"
              PROVE  deviceq'[i].device.address <= deviceq'[j].device.address
  BY DEF Aged
<1>4. i \in 1 .. Len(all) /\ deviceq'[i] = all[i] /\ j \in 1 .. Len(all) /\ deviceq'[j] = all[j]
  BY <1>3
<1>5. CASE j > Len(deviceq)
  <2>1. j \in Len(deviceq) + 1 .. Len(all)
    BY <1>2, <1>4, <1>5
  <2>2. all[j] \in ToSet(evs)
    BY <1>2, <2>1, ElementOf
  <2>3. all[i] \in ToSet(deviceq) \cup ToSet(evs)
    BY <1>2, <1>4, ElementOf
  <2>. QED  BY <1>4, <2>2, <2>3
<1>6. CASE ~(j > Len(deviceq))
  <2>1. i \in 1 .. Len(deviceq) /\ j \in 1 .. Len(deviceq)
    BY <1>2, <1>4, <1>6
  <2>2. deviceq'[i] = deviceq[i] /\ deviceq'[j] = deviceq[j]
    BY <1>2, <1>4, <2>1
  <2>. QED  BY <1>1, <2>1, <2>2 DEF Aged
<1>. QED  BY <1>5, <1>6

LEMMA PollCurrent == CurrentInv /\ Poll => CurrentInv'
<1>. SUFFICES ASSUME CurrentInv, Poll PROVE CurrentInv'
  OBVIOUS
<1>1. /\ mode = "on" /\ mode' = mode /\ known' = Ports /\ Live /\ Live'
      /\ UNCHANGED <<plugged, address, hotplug, pending, handler, connected, up, listed, eventq, told, unsent, leaked, refused>>
  BY DEF Poll, Live, physical, list, reports
<1>2. UsbTypeOK /\ UsbTypeInv' /\ NoConnectionLeaks' /\ deviceq \in Seq(DeviceEvent)
      /\ deviceq' \in Seq(DeviceEvent)
  BY <1>1, BackendTypes DEF CurrentInv, UsbTypeInv, UsbTypeOK, NoConnectionLeaks
<1>3. PICK evs \in Seq(DeviceEvent) :
        /\ Offer(evs, PortsSwapped)
        /\ ToSet(evs) = {DeviceConnected(x) : x \in PortsAdded} \cup {DeviceDisconnected(x) : x \in PortsGone}
  BY PollOffers
<1>4. /\ \A x \in Ports : x \in Device /\ x.via = "serial" /\ x.dev \in plugged /\ x.address = address[x.dev]
      /\ \A x, y \in Ports : x.dev = y.dev => x = y
      /\ \A d \in plugged : Claimed(d) => Claimer(d) \/ d \in refused \cup unseen
      /\ \A d \in plugged : Claimed(d) \/ DeviceAt(d, "serial") \in Ports
  BY <1>1, PortFacts
<1>5. /\ \A x \in known : x \in Device /\ x.via = "serial" /\ x.address <= address[x.dev]
      /\ \A x, y \in known : x.dev = y.dev => x = y
  BY <1>1, Made DEF CurrentInv, ObjectInv
<1>6. PortsSwapped \in SUBSET Devices
  BY <1>4 DEF Device, PortsSwapped
<1>7. /\ \A x \in PortsAdded : x \in Ports /\ (\A z \in known : z.dev # x.dev)
      /\ \A x \in PortsGone : x \in known /\ (\A z \in Ports : z.dev # x.dev)
  BY DEF PortsAdded, PortsGone
<1>8. \A e \in ToSet(evs) :
        \/ \E x \in PortsAdded : e = DeviceConnected(x) /\ e.kind = "connected" /\ e.device = x
        \/ \E x \in PortsGone : e = DeviceDisconnected(x) /\ e.kind = "disconnected" /\ e.device = x
  BY <1>3 DEF DeviceConnected, DeviceDisconnected
<1>9. /\ unseen \cup PortsSwapped \subseteq unseen'
      /\ ToSet(deviceq') \subseteq ToSet(deviceq) \cup ToSet(evs)
      /\ \A e \in ToSet(deviceq) \cup ToSet(evs) : e \in ToSet(deviceq') \/ e.device.dev \in unseen'
  BY <1>2, <1>3, <1>6, Offered
<1>10. News' \subseteq News \cup ToSet(evs) /\ \A e \in News : e \in News' \/ e.device.dev \in unseen'
  BY <1>1, <1>9 DEF News
<1>11. /\ \A x : Present(x)' <=> Present(x)
       /\ \A x : Claimer(x)' <=> Claimer(x)
  BY <1>1 DEF Present, Claimer
<1>12. \A x \in known : x \in Ports \/ x.dev \in unseen' \/ DeviceDisconnected(x) \in ToSet(evs)
  <2>. SUFFICES ASSUME NEW x \in known, x \notin Ports, x \notin PortsGone PROVE x.dev \in unseen'
    BY <1>3
  <2>1. PICK y \in Ports : y.dev = x.dev
    BY DEF PortsGone
  <2>2. y \notin known
    BY <1>5, <2>1
  <2>3. y.dev \in PortsSwapped
    BY <2>1, <2>2 DEF PortsSwapped
  <2>. QED  BY <1>9, <2>1, <2>3
<1>13. HandInv'
  BY <1>1, <1>9, <1>11 DEF CurrentInv, HandInv, SameKey
<1>14. ObjectInv'
  <2>1. \A e \in ToSet(evs) : e.device.address <= address[e.device.dev]
    <3>. SUFFICES ASSUME NEW e \in ToSet(evs) PROVE e.device.address <= address[e.device.dev]
      OBVIOUS
    <3>1. e.device \in Ports \/ e.device \in known
      BY <1>7, <1>8
    <3>2. e.device \in Ports => e.device.address = address[e.device.dev] /\ e.device.address \in Nat
      BY <1>4, UsbEnvironmentAssumption DEF Device
    <3>. QED  BY <1>5, <3>1, <3>2
  <2>2. \A x \in Ports : x.address <= address[x.dev]
    BY <1>4, UsbEnvironmentAssumption DEF Device
  <2>3. \A e \in News' : e.device.address <= address[e.device.dev]
    BY <1>1, <1>10, <2>1 DEF CurrentInv, ObjectInv
  <2>4. \A r \in connected : r.device.address <= address[r.device.dev]
    BY <1>1 DEF CurrentInv, ObjectInv
  <2>5. \A e \in ToSet(pending) : e.device.via = "rusb"
    BY <1>1 DEF CurrentInv, ObjectInv
  <2>. QED  BY <1>1, <1>4, <2>2, <2>3, <2>4, <2>5 DEF ObjectInv
<1>15. Aged(deviceq')
  <2>1. ASSUME NEW e \in ToSet(deviceq) \cup ToSet(evs), NEW f \in ToSet(evs), e.device.dev = f.device.dev,
               e.device.via = "serial", f.device.via = "serial"
        PROVE  e.device.address <= f.device.address
    <3>1. CASE e \in ToSet(evs)
      <4>1. e.device = f.device
        BY <1>4, <1>5, <1>7, <1>8, <2>1, <3>1
      <4>2. e.device.address \in Nat
        BY <1>4, <1>5, <1>7, <1>8, <3>1, UsbEnvironmentAssumption DEF Device
      <4>. QED  BY <4>1, <4>2
    <3>2. CASE e \in ToSet(deviceq)
      <4>1. e.device.address <= address[e.device.dev]
        BY <1>1, <3>2 DEF CurrentInv, ObjectInv, News
      <4>2. f.device \in Ports \/ f.device \in known
        BY <1>7, <1>8
      <4>3. CASE f.device \in Ports
        BY <1>4, <2>1, <4>1, <4>3
      <4>4. CASE f.device \in known
        BY <1>1, <2>1, <3>2, <4>4 DEF CurrentInv, AgeInv
      <4>. QED  BY <4>2, <4>3, <4>4
    <3>. QED  BY <2>1, <3>1, <3>2
  <2>. QED  BY <1>1, <1>3, <1>6, <2>1, OfferedAged
<1>16. AgeInv'
  <2>1. \A e \in ToSet(deviceq') : e.device.address <= address[e.device.dev]
    BY <1>1, <1>14 DEF ObjectInv, News
  <2>. QED  BY <1>1, <1>4, <1>15, <2>1 DEF AgeInv
<1>17. GoneInv'
  <2>1. \A e \in ToSet(evs) : e.device.via = "serial"
    BY <1>4, <1>5, <1>7, <1>8
  <2>. QED  BY <1>1, <1>10, <1>11, <2>1 DEF CurrentInv, GoneInv
<1>18. NewInv'
  BY <1>1 DEF NewInv
<1>19. BackedInv'
  <2>1. Followed(deviceq', Ports, unseen')
    <3>. DEFINE all == deviceq \o evs
    <3>1. /\ Len(deviceq) \in Nat /\ Len(evs) \in Nat /\ Len(all) = Len(deviceq) + Len(evs)
          /\ \A i \in 1 .. Len(deviceq) : all[i] = deviceq[i]
          /\ \A i \in 1 .. Len(evs) : all[Len(deviceq) + i] = evs[i]
          /\ \A i \in Len(deviceq) + 1 .. Len(all) : i - Len(deviceq) \in 1 .. Len(evs) /\ all[i] = evs[i - Len(deviceq)]
      BY <1>2, <1>3, Joined
    <3>2. /\ \A i \in 1 .. Len(deviceq') : i \in 1 .. Len(all) /\ deviceq'[i] = all[i]
          /\ \A i \in 1 .. Len(all) : i \in 1 .. Len(deviceq') \/ all[i].device.dev \in unseen'
      BY <1>2, <1>3, <1>6, Offered
    <3>. HIDE DEF all
    <3>. SUFFICES ASSUME NEW i \in 1 .. Len(deviceq'),
                         deviceq'[i].kind = "connected", deviceq'[i].device.via = "serial",
                         deviceq'[i].device.dev \notin unseen', deviceq'[i].device \notin Ports
                  PROVE  \E j \in i .. Len(deviceq') : deviceq'[j] = DeviceDisconnected(deviceq'[i].device)
      BY DEF Followed
    <3>3. i \in 1 .. Len(deviceq) /\ deviceq'[i] = deviceq[i]
      <4>1. CASE i > Len(deviceq)
        <5>1. i \in Len(deviceq) + 1 .. Len(all)
          BY <3>1, <3>2, <4>1
        <5>2. all[i] \in ToSet(evs)
          BY <3>1, <5>1, ElementOf
        <5>3. deviceq'[i].device \in Ports
          BY <1>7, <1>8, <3>2, <5>2
        <5>. QED  BY <5>3
      <4>. QED  BY <3>1, <3>2, <4>1
    <3>4. PICK j \in 1 .. Len(all) : j >= i /\ all[j] = DeviceDisconnected(deviceq[i].device)
      <4>1. CASE deviceq[i].device \in known
        <5>1. DeviceDisconnected(deviceq[i].device) \in ToSet(evs)
          BY <1>12, <3>3, <4>1
        <5>2. PICK k \in 1 .. Len(evs) : evs[k] = DeviceDisconnected(deviceq[i].device)
          BY <5>1, ElementOf
        <5>3. Len(deviceq) + k \in 1 .. Len(all) /\ Len(deviceq) + k >= i
          BY <3>1, <3>3, <5>2
        <5>. QED  BY <3>1, <5>2, <5>3
      <4>2. CASE deviceq[i].device \notin known
        <5>1. Followed(deviceq, known, unseen)
          BY <1>1 DEF CurrentInv, BackedInv
        <5>2. PICK k \in i .. Len(deviceq) : deviceq[k] = DeviceDisconnected(deviceq[i].device)
          BY <1>9, <3>3, <4>2, <5>1 DEF Followed
        <5>3. k \in 1 .. Len(all) /\ k >= i /\ k \in 1 .. Len(deviceq)
          BY <3>1, <3>3, <5>2
        <5>. QED  BY <3>1, <5>2, <5>3
      <4>. QED  BY <4>1, <4>2
    <3>5. all[j].device.dev \notin unseen'
      BY <3>3, <3>4 DEF DeviceDisconnected
    <3>6. j \in i .. Len(deviceq') /\ deviceq'[j] = all[j]
      BY <3>2, <3>3, <3>4, <3>5
    <3>. QED  BY <3>3, <3>4, <3>6
  <2>2. ASSUME NEW r \in connected, r.device.dev \notin unseen'
        PROVE  Backed(r.device)'
    <3>1. DeviceDisconnected(r.device).device.dev = r.device.dev
      BY DEF DeviceDisconnected
    <3>2. Backed(r.device)
      BY <1>1, <1>9, <2>2 DEF CurrentInv, BackedInv
    <3>3. CASE r.device.via = "rusb"
      <4>1. DeviceDisconnected(r.device) \in News => DeviceDisconnected(r.device) \in News'
        BY <1>10, <2>2, <3>1
      <4>. QED  BY <1>11, <3>2, <3>3, <4>1 DEF Backed, DeviceDisconnected
    <3>4. CASE r.device.via # "rusb" /\ \E y \in known : SameKey(y, r.device) /\ y.address <= r.device.address
      <4>1. PICK y \in known : SameKey(y, r.device) /\ y.address <= r.device.address
        BY <3>4
      <4>2. y.dev = r.device.dev
        BY <4>1 DEF SameKey
      <4>3. CASE y \in Ports
        BY <1>1, <3>4, <4>1, <4>3 DEF Backed, SameKey
      <4>4. CASE DeviceDisconnected(y) \in ToSet(evs)
        <5>1. DeviceDisconnected(y).device = y /\ DeviceDisconnected(y).kind = "disconnected"
          BY DEF DeviceDisconnected
        <5>2. DeviceDisconnected(y) \in ToSet(deviceq')
          BY <1>9, <2>2, <4>2, <4>4, <5>1
        <5>. QED  BY <3>4, <4>1, <5>1, <5>2 DEF Backed, SameKey
      <4>. QED  BY <1>12, <2>2, <4>2, <4>3, <4>4
    <3>5. CASE r.device.via # "rusb" /\ \E e \in ToSet(deviceq) : e.kind = "disconnected" /\ SameKey(e.device, r.device)
      <4>1. \A e \in ToSet(deviceq) : SameKey(e.device, r.device) => e \in ToSet(deviceq')
        BY <1>9, <2>2 DEF SameKey
      <4>. QED  BY <3>5, <4>1 DEF Backed, SameKey
    <3>. QED  BY <3>2, <3>3, <3>4, <3>5 DEF Backed
  <2>. QED  BY <1>1, <2>1, <2>2 DEF BackedInv
<1>20. ClaimInv'
  <2>3. ASSUME NEW d, d \notin unseen', ClaimDue(d) PROVE ClaimDue(d)'
    <3>1. DeviceConnected(DeviceAt(d, "rusb"))' = DeviceConnected(DeviceAt(d, "rusb"))
      BY <1>1 DEF DeviceConnected, DeviceAt
    <3>2. DeviceConnected(DeviceAt(d, "rusb")).device.dev = d
      BY DEF DeviceConnected, DeviceAt
    <3>. QED  BY <1>10, <1>11, <2>3, <3>1, <3>2 DEF ClaimDue
  <2>1. ASSUME NEW e \in ToSet(deviceq'), e.kind = "disconnected", e.device.via = "serial",
               e.device.dev \notin unseen' \cup refused,
               Present(e.device) \/ \E r \in connected : SameKey(r.device, e.device) /\ Present(r.device)
        PROVE  ClaimDue(e.device.dev)'
    <3>1. CASE e \in ToSet(deviceq)
      <4>1. ClaimDue(e.device.dev)
        BY <1>1, <1>9, <2>1, <3>1 DEF CurrentInv, ClaimInv
      <4>. QED  BY <2>1, <2>3, <4>1
    <3>2. CASE e \in ToSet(evs)
      <4>1. e.device \in PortsGone
        BY <1>8, <2>1, <3>2
      <4>2. e.device.dev \in plugged
        BY <2>1 DEF Present, SameKey
      <4>3. DeviceAt(e.device.dev, "serial") \notin Ports
        BY <1>7, <4>1 DEF DeviceAt
      <4>. QED  BY <1>4, <1>9, <1>11, <2>1, <4>2, <4>3 DEF ClaimDue
    <3>. QED  BY <1>9, <2>1, <3>1, <3>2
  <2>2. \A r, e : SameKey(r.device, e.device)' <=> SameKey(r.device, e.device)
    BY DEF SameKey
  <2>. QED  BY <1>1, <1>11, <2>1, <2>2 DEF ClaimInv
<1>21. ServedInv'
  <2>. SUFFICES ASSUME NEW c \in plugged, c \notin unseen' \cup refused, listed[c] < MaxListed
                PROVE  Served(c)' \/ DeviceConnected(DeviceAt(c, "rusb"))' \in News'
    BY <1>1 DEF ServedInv
  <2>1. DeviceConnected(DeviceAt(c, "rusb"))' = DeviceConnected(DeviceAt(c, "rusb"))
    BY <1>1 DEF DeviceConnected, DeviceAt
  <2>2. DeviceConnected(DeviceAt(c, "rusb")).device.dev = c
    BY DEF DeviceConnected, DeviceAt
  <2>3. Served(c) => Served(c)'
    BY <1>1, <1>11 DEF Served, Serves
  <2>. QED  BY <1>1, <1>9, <1>10, <2>1, <2>2, <2>3 DEF CurrentInv, ServedInv
<1>. QED  BY <1>2, <1>13, <1>14, <1>16, <1>17, <1>18, <1>19, <1>20, <1>21 DEF CurrentInv

(***************************************************************************)
(* The handler                                                             *)
(***************************************************************************)

LEMMA HandlerKeeps == CurrentInv /\ Handler => UsbTypeInv' /\ NoConnectionLeaks'
BY HandlerTypes, LeaksStep DEF UsbNext, CurrentInv

\* An event that changes nothing in the list.
LEMMA ReceivedCurrent ==
  ASSUME CurrentInv, UsbTypeInv', NoConnectionLeaks', NEW kind, Receives(kind),
         UNCHANGED <<plugged, address, mode, hotplug, pending, known, connected, up, listed, leaked, unseen>>,
         refused \subseteq refused',
         \/ handler' = Idle
         \/ handler'.at = "duplicate" /\ handler'.device.dev \in refused' \cup unseen,
         \A r \in connected : Head(deviceq).kind = "disconnected" => ~SameKey(r.device, Head(deviceq).device),
         \A d \in plugged : Head(deviceq) = DeviceConnected(DeviceAt(d, "rusb"))
                              => d \in refused' \cup unseen \/ Claimer(d)
  PROVE  CurrentInv'
<1>. DEFINE h == Head(deviceq)
<1>2. h = Head(deviceq)
  OBVIOUS
<1>. HIDE DEF h
<1>1. /\ News = News' \cup {h} /\ ToSet(deviceq) = ToSet(deviceq') \cup {h}
      /\ Aged(deviceq') /\ (Followed(deviceq, known, unseen) => Followed(deviceq', known, unseen'))
      /\ mode = "on" /\ mode' = mode /\ Live /\ Live'
  <2>1. UNCHANGED <<pending, known>> /\ unseen' = unseen /\ mode' = mode
    OBVIOUS
  <2>2. mode = "on"
    BY DEF Receives
  <2>3. /\ News = News' \cup {Head(deviceq)} /\ ToSet(deviceq) = ToSet(deviceq') \cup {Head(deviceq)}
        /\ Aged(deviceq') /\ (Followed(deviceq, known, unseen) => Followed(deviceq', known, unseen'))
    BY <2>1, Received, Zenon
  <2>. QED  BY <1>2, <2>1, <2>2, <2>3 DEF Live
<1>3. /\ \A x : Present(x)' <=> Present(x)
      /\ \A x : Claimer(x)' <=> Claimer(x)
      /\ \A x : Served(x)' <=> Served(x)
  BY DEF Present, Claimer, Served, Serves
<1>4. HandInv'
  <2>1. handler'.at \notin {"leaving"}
    BY DEF Idle
  <2>2. handler'.at = "duplicate" => handler'.device.dev \in refused' \cup unseen
    BY DEF Idle
  <2>. QED  BY <1>1, <1>3, <2>1, <2>2 DEF CurrentInv, HandInv, SameKey
<1>5. ObjectInv'
  BY <1>1 DEF CurrentInv, ObjectInv
<1>6. AgeInv'
  BY <1>1 DEF CurrentInv, AgeInv
<1>7. GoneInv'
  BY <1>1, <1>3 DEF CurrentInv, GoneInv
<1>8. NewInv'
  BY <1>1 DEF NewInv
<1>9. BackedInv'
  <2>1. Followed(deviceq, known, unseen)'
    BY <1>1 DEF CurrentInv, BackedInv
  <2>2. ASSUME NEW r \in connected, r.device.dev \notin unseen PROVE Backed(r.device)'
    <3>1. Backed(r.device)
      BY <1>1, <2>2 DEF CurrentInv, BackedInv
    <3>2. h.kind = "disconnected" => ~SameKey(r.device, h.device) /\ ~SameKey(h.device, r.device)
      BY <1>2 DEF SameKey
    <3>3. h # DeviceDisconnected(r.device)
      BY <3>2 DEF DeviceDisconnected, SameKey
    <3>. QED  BY <1>1, <1>3, <3>1, <3>2, <3>3 DEF Backed, DeviceDisconnected, SameKey
  <2>. QED  BY <1>1, <2>1, <2>2 DEF BackedInv
<1>10. ClaimInv'
  <2>1. ASSUME NEW e \in ToSet(deviceq'), e.kind = "disconnected", e.device.via = "serial",
               e.device.dev \notin unseen \cup refused',
               Present(e.device) \/ \E r \in connected : SameKey(r.device, e.device) /\ Present(r.device)
        PROVE  ClaimDue(e.device.dev)'
    <3>1. ClaimDue(e.device.dev) /\ e.device.dev \in plugged
      BY <1>1, <2>1 DEF CurrentInv, ClaimInv, Present, SameKey
    <3>2. h = DeviceConnected(DeviceAt(e.device.dev, "rusb")) => Claimer(e.device.dev)
      BY <1>2, <2>1, <3>1
    <3>3. DeviceConnected(DeviceAt(e.device.dev, "rusb"))' = DeviceConnected(DeviceAt(e.device.dev, "rusb"))
      BY DEF DeviceConnected, DeviceAt
    <3>. QED  BY <1>1, <1>3, <3>1, <3>2, <3>3 DEF ClaimDue
  <2>. QED  BY <1>1, <1>3, <2>1 DEF ClaimInv, SameKey
<1>11. ServedInv'
  <2>. SUFFICES ASSUME NEW c \in plugged, c \notin unseen \cup refused', listed[c] < MaxListed
                PROVE  Served(c)' \/ DeviceConnected(DeviceAt(c, "rusb"))' \in News'
    BY <1>1 DEF ServedInv
  <2>1. DeviceConnected(DeviceAt(c, "rusb"))' = DeviceConnected(DeviceAt(c, "rusb"))
    BY DEF DeviceConnected, DeviceAt
  <2>2. Claimer(c) => Served(c)
    BY DEF Claimer, Served, Serves
  <2>. QED  BY <1>1, <1>2, <1>3, <2>1, <2>2 DEF CurrentInv, ServedInv
<1>. QED  BY <1>4, <1>5, <1>6, <1>7, <1>8, <1>9, <1>10, <1>11 DEF CurrentInv

\* A device that is there and cannot be opened is claimed by its runtime.
LEMMA ClaimedHasClaimer ==
  ASSUME CurrentInv, Live, NEW d \in plugged, NEW via, ~CanOpen(DeviceAt(d, via)), d \notin refused \cup unseen
  PROVE  Claimer(d)
<1>1. Present(Opened(DeviceAt(d, via))) /\ DeviceAt(d, via).dev = d
  BY DEF Present, DeviceAt, Opened
<1>. QED  BY <1>1, PortFacts DEF CanOpen

LEMMA DuplicateCurrent == CurrentInv /\ Duplicate => CurrentInv'
<1>. SUFFICES ASSUME CurrentInv, Duplicate PROVE CurrentInv'
  OBVIOUS
<1>. DEFINE x == Head(deviceq).device
<1>1. /\ Receives("connected") /\ ConnectedContainsKey(x) /\ Head(deviceq).kind = "connected"
      /\ handler' = IF x.via = "rusb" /\ CanOpen(x) THEN [at |-> "duplicate", device |-> x] ELSE Idle
      /\ refused' = IF handler' = Idle THEN refused ELSE refused \cup TakenOver(x)
      /\ UNCHANGED <<plugged, address, mode, hotplug, pending, known, connected, up, listed, leaked, unseen>>
      /\ mode = "on" /\ Live
  BY DEF Duplicate, Receives, physical, backends, list, reports, Live
<1>2. UsbTypeInv' /\ NoConnectionLeaks'
  BY HandlerKeeps DEF Handler
<1>3. PICK r \in connected : r.device.dev = x.dev
  <2>1. PICK r \in connected : SameKey(r.device, x) \/ SerialNumber(r.device) \cap SerialNumber(x) # {}
    BY <1>1 DEF ConnectedContainsKey
  <2>. QED  BY <2>1 DEF SameKey, SerialNumber
<1>. HIDE DEF x
<1>4. refused \subseteq refused'
  BY <1>1
<1>5. handler' = Idle \/ (handler'.at = "duplicate" /\ handler'.device.dev \in refused' \cup unseen)
  <2>. SUFFICES ASSUME x.via = "rusb", CanOpen(x)
                PROVE  handler'.at = "duplicate" /\ handler'.device.dev \in refused' \cup unseen
    BY <1>1
  <2>1. handler' = [at |-> "duplicate", device |-> x] /\ handler' # Idle
    BY <1>1 DEF Idle
  <2>2. refused' = refused \cup {s.device.dev : s \in {s \in up : s.device.dev = x.dev}}
    BY <1>1, <2>1 DEF TakenOver
  <2>3. x.dev \in refused'
    <3>1. CASE r \in up
      BY <1>3, <2>2, <3>1
    <3>2. CASE r \notin up
      BY <1>1, <1>3, <2>2, <3>2 DEF CurrentInv, HandInv
    <3>. QED  BY <3>1, <3>2
  <2>. QED  BY <2>1, <2>3
<1>6. Head(deviceq).kind # "disconnected"
  BY <1>1
<1>7. ASSUME NEW d \in plugged, Head(deviceq) = DeviceConnected(DeviceAt(d, "rusb")), d \notin refused' \cup unseen
      PROVE  Claimer(d)
  <2>1. x = DeviceAt(d, "rusb") /\ x.via = "rusb" /\ x.dev = d
    BY <1>7 DEF x, DeviceConnected, DeviceAt
  <2>2. ~CanOpen(x)
    <3>. SUFFICES ASSUME CanOpen(x) PROVE FALSE
      OBVIOUS
    <3>1. handler' = [at |-> "duplicate", device |-> x] /\ handler' # Idle
      BY <1>1, <2>1 DEF Idle
    <3>. QED  BY <1>5, <1>7, <2>1, <3>1
  <2>. QED  BY <1>1, <1>4, <1>7, <2>1, <2>2, ClaimedHasClaimer
<1>. QED  BY <1>1, <1>2, <1>4, <1>5, <1>6, <1>7, ReceivedCurrent

LEMMA ArriveFailsCurrent == CurrentInv /\ ArriveFails => CurrentInv'
<1>. SUFFICES ASSUME CurrentInv, ArriveFails PROVE CurrentInv'
  OBVIOUS
<1>. DEFINE x == Head(deviceq).device
<1>1. /\ Receives("connected") /\ Head(deviceq).kind = "connected" /\ handler' = handler /\ handler = Idle
      /\ refused' = IF CanOpen(x) THEN refused \cup {x.dev} ELSE refused
      /\ UNCHANGED <<plugged, address, mode, hotplug, pending, known, connected, up, listed, leaked, unseen>>
      /\ mode = "on" /\ Live
  BY DEF ArriveFails, Receives, physical, backends, list, reports, Live
<1>2. UsbTypeInv' /\ NoConnectionLeaks'
  BY HandlerKeeps DEF Handler
<1>3. Head(deviceq).kind # "disconnected"
  BY <1>1
<1>4. ASSUME NEW d \in plugged, Head(deviceq) = DeviceConnected(DeviceAt(d, "rusb")), d \notin refused' \cup unseen
      PROVE  Claimer(d)
  <2>1. x = DeviceAt(d, "rusb") /\ x.dev = d
    BY <1>4 DEF DeviceConnected, DeviceAt
  <2>2. ~CanOpen(x) /\ d \notin refused
    BY <1>1, <1>4, <2>1
  <2>. QED  BY <1>1, <1>4, <2>1, <2>2, ClaimedHasClaimer
<1>. HIDE DEF x
<1>5. refused \subseteq refused'
  BY <1>1
<1>. QED  BY <1>1, <1>2, <1>3, <1>4, <1>5, ReceivedCurrent

LEMMA LeaveUnknownCurrent == CurrentInv /\ LeaveUnknown => CurrentInv'
<1>. SUFFICES ASSUME CurrentInv, LeaveUnknown PROVE CurrentInv'
  OBVIOUS
<1>1. /\ Receives("disconnected") /\ Head(deviceq).kind = "disconnected" /\ handler' = handler /\ handler = Idle
      /\ UNCHANGED <<plugged, address, mode, hotplug, pending, known, connected, up, listed, leaked, unseen, refused>>
  BY DEF LeaveUnknown, Receives, physical, backends, list, reports
<1>2. UsbTypeInv' /\ NoConnectionLeaks'
  BY HandlerKeeps DEF Handler
<1>3. \A s \in connected : ~SameKey(s.device, Head(deviceq).device)
  BY DEF LeaveUnknown
<1>4. \A d \in plugged : Head(deviceq) # DeviceConnected(DeviceAt(d, "rusb"))
  BY <1>1 DEF DeviceConnected
<1>. QED  BY <1>1, <1>2, <1>3, <1>4, ReceivedCurrent

\* What the handler does besides.
LEMMA ClosesCurrent == CurrentInv /\ (CloseDuplicate \/ CloseLeaving \/ SendEvent) => CurrentInv'
<1>. SUFFICES ASSUME CurrentInv, CloseDuplicate \/ CloseLeaving \/ SendEvent PROVE CurrentInv'
  OBVIOUS
<1>1. UsbTypeInv' /\ NoConnectionLeaks'
  BY HandlerKeeps DEF Handler
<1>2. /\ mode = "on"
      /\ UNCHANGED <<plugged, address, mode, hotplug, pending, known, deviceq, connected, listed, leaked, unseen, refused>>
      /\ Live /\ Live'
      /\ handler'.at \notin {"duplicate", "leaving"}
  BY DEF CloseDuplicate, CloseLeaving, SendEvent, physical, backends, list, reports, Live, Idle
<1>3. up' = up \/ (handler.at = "leaving" /\ up' = up \ {handler.rt})
  BY DEF CloseDuplicate, CloseLeaving, SendEvent, list, UpAfterLeaving
<1>4. connected \cap up' = connected \cap up
  BY <1>2, <1>3 DEF CurrentInv, HandInv
<1>5. /\ \A x : Present(x)' <=> Present(x)
      /\ News' = News
  BY <1>2 DEF Present, News
<1>6. /\ \A x : Claimer(x)' <=> Claimer(x)
      /\ \A x : Served(x)' <=> Served(x)
  BY <1>2, <1>4, <1>5 DEF Claimer, Served, Serves
<1>7. HandInv'
  <2>1. \A r \in connected : r \notin up' => r \notin up
    BY <1>4
  <2>. QED  BY <1>2, <1>5, <2>1 DEF CurrentInv, HandInv, SameKey
<1>8. ObjectInv'
  BY <1>2, <1>5 DEF CurrentInv, ObjectInv
<1>9. AgeInv'
  BY <1>2 DEF CurrentInv, AgeInv
<1>10. GoneInv'
  BY <1>2, <1>5 DEF CurrentInv, GoneInv
<1>11. NewInv'
  BY <1>2 DEF NewInv
<1>12. BackedInv'
  BY <1>2, <1>5 DEF CurrentInv, BackedInv, Backed, SameKey, DeviceDisconnected
<1>13. ClaimInv'
  BY <1>2, <1>5, <1>6 DEF CurrentInv, ClaimInv, ClaimDue, SameKey, DeviceConnected, DeviceAt
<1>14. ServedInv'
  BY <1>2, <1>5, <1>6 DEF CurrentInv, ServedInv, DeviceConnected, DeviceAt
<1>. QED  BY <1>1, <1>7, <1>8, <1>9, <1>10, <1>11, <1>12, <1>13, <1>14 DEF CurrentInv

LEMMA ArriveCurrent == CurrentInv /\ Arrive => CurrentInv'
<1>. SUFFICES ASSUME CurrentInv, Arrive PROVE CurrentInv'
  OBVIOUS
<1>. DEFINE h == Head(deviceq)
            x == h.device
            o == Opened(x)
            r == [device |-> o, nth |-> listed[x.dev] + 1]
<1>1. /\ Receives("connected") /\ ~ConnectedContainsKey(x) /\ CanOpen(x)
      /\ connected' = connected \cup {r} /\ up' = up \cup {r} /\ r.device = o
      /\ listed' = [listed EXCEPT ![x.dev] = @ + 1]
      /\ refused \subseteq refused' /\ handler'.at = "send"
      /\ UNCHANGED <<plugged, address, mode, hotplug, pending, known, leaked, unseen>>
      /\ mode = "on" /\ Live /\ Live'
  BY DEF Arrive, Receives, physical, backends, list, reports, Live
<1>2. UsbTypeInv' /\ NoConnectionLeaks'
  BY HandlerKeeps DEF Handler
<1>. HIDE DEF r
<1>3. /\ h \in DeviceEvent /\ h.kind = "connected" /\ h \in News
      /\ ToSet(deviceq) = ToSet(deviceq') \cup {h} /\ News = News' \cup {h}
      /\ Aged(deviceq') /\ (Followed(deviceq, known, unseen) => Followed(deviceq', known, unseen'))
      /\ \A e \in ToSet(deviceq') :
           h.device.dev = e.device.dev /\ h.device.via = "serial" /\ e.device.via = "serial"
           => h.device.address <= e.device.address
  <2>1. UNCHANGED <<pending, known>> /\ unseen' = unseen
    BY <1>1
  <2>. QED  BY <1>1, <2>1, Received, Zenon
<1>4. h = DeviceConnected(x) /\ x \in Device
  BY <1>3 DEF DeviceConnected, DeviceEvent
<1>5. h = Head(deviceq) /\ deviceq \in Seq(DeviceEvent) /\ deviceq # <<>>
  BY <1>1 DEF CurrentInv, UsbTypeInv, UsbTypeOK, Receives
<1>. HIDE DEF h, x, o
<1>18. /\ o \in Device /\ o.dev = x.dev /\ o.via = x.via /\ (x.via = "rusb" => o = x)
       /\ x.via = "serial" => o = DeviceAt(x.dev, "serial")
  BY <1>4, OpenedType DEF CurrentInv, UsbTypeInv, Opened, o, DeviceAt
<1>6. /\ \A y : Present(y)' <=> Present(y)
      /\ Present(o)
      /\ \A y : Claimer(y) => Claimer(y)'
      /\ \A y : Served(y) => Served(y)'
  BY <1>1 DEF Present, Claimer, Served, Serves, CanOpen, o
<1>7. /\ \A s \in connected : ~SameKey(s.device, o) /\ ~SameKey(o, s.device)
      /\ \A s \in connected : s.device.via # x.via \/ s.device.dev # x.dev \/ x.via = "rusb"
  BY <1>1, <1>18 DEF ConnectedContainsKey, SameKey
<1>8. ~Claimer(x.dev)
  BY <1>1 DEF Claimer, CanOpen, Claimed, Open
<1>9. o.address = address[x.dev] /\ x.dev \in plugged /\ o.address \in Nat
  BY <1>6, <1>18, UsbEnvironmentAssumption DEF Present, Device
<1>10. HandInv'
  <2>1. \A s \in connected' : s \notin up' => s \in connected /\ s \notin up
    BY <1>1
  <2>2. \A s, t \in connected' : SameKey(s.device, t.device) => s = t
    BY <1>1, <1>7 DEF CurrentInv, HandInv
  <2>. QED  BY <1>1, <1>6, <2>1, <2>2 DEF CurrentInv, HandInv, SameKey
<1>11. ObjectInv'
  <2>1. \A s \in connected' : s.device.address <= address[s.device.dev]
    BY <1>1, <1>9, <1>18 DEF CurrentInv, ObjectInv
  <2>. QED  BY <1>1, <1>3, <2>1 DEF CurrentInv, ObjectInv
<1>12. AgeInv'
  BY <1>1, <1>3 DEF CurrentInv, AgeInv
<1>13. GoneInv'
  BY <1>1, <1>3, <1>6 DEF CurrentInv, GoneInv
<1>14. NewInv'
  BY <1>1 DEF NewInv
<1>15. BackedInv'
  <2>1. Followed(deviceq', known, unseen)
    BY <1>1, <1>3 DEF CurrentInv, BackedInv
  <2>2. ASSUME NEW s \in connected', s.device.dev \notin unseen
        PROVE  Backed(s.device)'
    <3>1. DeviceDisconnected(s.device) # h
      BY <1>3 DEF DeviceDisconnected
    <3>2. CASE s \in connected
      <4>1. Backed(s.device)
        BY <1>1, <2>2, <3>2 DEF CurrentInv, BackedInv
      <4>. QED  BY <1>1, <1>3, <1>6, <3>1, <4>1 DEF Backed, DeviceDisconnected, SameKey
    <3>3. CASE s = r /\ x.via = "rusb"
      BY <1>1, <1>6, <1>18, <3>3 DEF Backed
    <3>4. CASE s = r /\ x.via # "rusb"
      <4>1. x.via = "serial" /\ s.device = o /\ s.device.dev = x.dev
        BY <1>1, <1>4, <1>18, <3>4 DEF Device, Backends
      <4>2. 1 \in 1 .. Len(deviceq) /\ deviceq[1] = h /\ Len(deviceq) \in Nat
        BY <1>5
      <4>3. x \in known \/ \E j \in 1 .. Len(deviceq) : deviceq[j] = DeviceDisconnected(x)
        BY <1>1, <1>3, <1>4, <2>2, <4>1, <4>2 DEF CurrentInv, BackedInv, Followed, x
      <4>4. x \in known \/ DeviceDisconnected(x) \in ToSet(deviceq)
        BY <1>5, <4>3, ElementOf
      <4>5. x.address <= o.address /\ SameKey(x, o)
        BY <1>1, <1>3, <1>9, <1>18, <4>1, Made DEF SameKey, x
      <4>6. CASE x \in known
        BY <1>1, <1>18, <4>1, <4>5, <4>6 DEF Backed, SameKey
      <4>7. CASE DeviceDisconnected(x) \in ToSet(deviceq)
        <5>1. /\ DeviceDisconnected(x).device = x /\ DeviceDisconnected(x).kind = "disconnected"
              /\ DeviceDisconnected(x) # h
          BY <1>3 DEF DeviceDisconnected
        <5>. QED  BY <1>3, <1>18, <4>1, <4>5, <4>7, <5>1 DEF Backed, SameKey
      <4>. QED  BY <4>4, <4>6, <4>7
    <3>. QED  BY <1>1, <3>2, <3>3, <3>4
  <2>. QED  BY <1>1, <2>1, <2>2 DEF BackedInv
<1>19. ASSUME NEW c, h = DeviceConnected(DeviceAt(c, "rusb")) PROVE Claimer(c)'
  <2>1. x = DeviceAt(c, "rusb") /\ x.via = "rusb" /\ x.dev = c
    BY <1>19 DEF x, DeviceConnected, DeviceAt
  <2>2. r \in connected' /\ r \in up' /\ r.device = x
    BY <1>1, <1>18, <2>1
  <2>. QED  BY <1>6, <1>18, <2>1, <2>2 DEF Claimer
<1>20. listed[x.dev] < MaxListed
  BY DEF Arrive, x, h
<1>16. ClaimInv'
  <2>2. ASSUME NEW c, ClaimDue(c) PROVE ClaimDue(c)'
    <3>1. DeviceConnected(DeviceAt(c, "rusb"))' = DeviceConnected(DeviceAt(c, "rusb"))
      BY <1>1 DEF DeviceConnected, DeviceAt
    <3>. QED  BY <1>3, <1>6, <1>19, <2>2, <3>1 DEF ClaimDue
  <2>1. ASSUME NEW e \in ToSet(deviceq'), e.kind = "disconnected", e.device.via = "serial",
               e.device.dev \notin unseen \cup refused',
               Present(e.device) \/ \E s \in connected' : SameKey(s.device, e.device) /\ Present(s.device)
        PROVE  ClaimDue(e.device.dev)'
    <3>1. CASE Present(e.device) \/ \E s \in connected : SameKey(s.device, e.device) /\ Present(s.device)
      <4>1. ClaimDue(e.device.dev)
        BY <1>1, <1>3, <2>1, <3>1 DEF CurrentInv, ClaimInv
      <4>. QED  BY <2>2, <4>1
    <3>2. CASE SameKey(o, e.device)
      <4>1. x.via = "serial" /\ x.dev = e.device.dev
        BY <1>18, <2>1, <3>2 DEF SameKey
      <4>2. Served(x.dev) \/ DeviceConnected(DeviceAt(x.dev, "rusb")) \in News
        BY <1>1, <1>9, <1>20, <2>1, <4>1 DEF CurrentInv, ServedInv
      <4>3. ~Served(x.dev)
        <5>. SUFFICES ASSUME NEW s \in connected \cap up, s.device.dev = x.dev, Present(s.device) PROVE FALSE
          BY DEF Served, Serves
        <5>1. s.device.via = "rusb"
          BY <1>1, <1>7, <4>1, Made DEF Device, Backends
        <5>. QED  BY <1>8, <5>1 DEF Claimer
      <4>. QED  BY <2>2, <4>1, <4>2, <4>3 DEF ClaimDue
    <3>. QED  BY <1>1, <2>1, <3>1, <3>2
  <2>. QED  BY <1>1, <1>6, <2>1 DEF ClaimInv, SameKey
<1>17. ServedInv'
  <2>. SUFFICES ASSUME NEW c \in plugged, c \notin unseen \cup refused', listed'[c] < MaxListed
                PROVE  Served(c)' \/ DeviceConnected(DeviceAt(c, "rusb"))' \in News'
    BY <1>1 DEF ServedInv
  <2>1. DeviceConnected(DeviceAt(c, "rusb"))' = DeviceConnected(DeviceAt(c, "rusb"))
    BY <1>1 DEF DeviceConnected, DeviceAt
  <2>2. listed[c] < MaxListed
    <3>1. listed \in [Devices -> Nat] /\ c \in Devices /\ MaxListed \in Nat
      BY UsbEnvironmentAssumption DEF CurrentInv, UsbTypeInv, UsbTypeOK
    <3>. QED  BY <1>1, <3>1
  <2>3. h = DeviceConnected(DeviceAt(c, "rusb")) => Served(c)'
    BY <1>19 DEF Claimer, Served, Serves
  <2>. QED  BY <1>1, <1>3, <1>6, <2>1, <2>2, <2>3 DEF CurrentInv, ServedInv
<1>. QED  BY <1>2, <1>10, <1>11, <1>12, <1>13, <1>14, <1>15, <1>16, <1>17 DEF CurrentInv

LEMMA LeaveCurrent == CurrentInv /\ Leave => CurrentInv'
<1>. SUFFICES ASSUME CurrentInv, Leave PROVE CurrentInv'
  OBVIOUS
<1>. DEFINE h == Head(deviceq)
<1>1. PICK r \in connected :
        /\ Receives("disconnected") /\ SameKey(r.device, h.device)
        /\ connected' = connected \ {r}
        /\ handler' = IF r \in up THEN [at |-> "leaving", rt |-> r] ELSE [at |-> "send", event |-> Left(r)]
  BY DEF Leave
<1>2. /\ UNCHANGED <<plugged, address, mode, hotplug, pending, known, up, listed, leaked, unseen, refused>>
      /\ mode = "on" /\ Live /\ Live'
  BY DEF Leave, Receives, physical, backends, reports, Live
<1>3. UsbTypeInv' /\ NoConnectionLeaks'
  BY HandlerKeeps DEF Handler
<1>4. /\ h \in DeviceEvent /\ h.kind = "disconnected" /\ h \in News
      /\ ToSet(deviceq) = ToSet(deviceq') \cup {h} /\ News = News' \cup {h}
      /\ Aged(deviceq') /\ (Followed(deviceq, known, unseen) => Followed(deviceq', known, unseen'))
  <2>1. UNCHANGED <<pending, known>> /\ unseen' = unseen
    BY <1>2
  <2>. QED  BY <1>1, <2>1, Received, Zenon
<1>. HIDE DEF h
<1>5. /\ \A y : Present(y)' <=> Present(y)
      /\ \A x, y : SameKey(x, y)' <=> SameKey(x, y)
  BY <1>2 DEF Present, SameKey
<1>6. r.device.via = "rusb" => ~Present(r.device)
  <2>. SUFFICES ASSUME r.device.via = "rusb" PROVE ~Present(r.device)
    OBVIOUS
  <2>1. h.device.via = "rusb" /\ ~Present(h.device)
    BY <1>1, <1>2, <1>4 DEF CurrentInv, GoneInv, SameKey
  <2>. QED  BY <1>1, <2>1 DEF SameKey, Present
<1>7. \A y : Claimer(y)' <=> Claimer(y)
  BY <1>1, <1>2, <1>5, <1>6 DEF Claimer
<1>8. HandInv'
  <2>1. handler'.at = "leaving" => handler'.rt = r
    BY <1>1
  <2>2. handler'.at # "duplicate"
    BY <1>1
  <2>3. r.device.address <= address[r.device.dev]
    BY <1>2 DEF CurrentInv, ObjectInv
  <2>. QED  BY <1>1, <1>2, <1>5, <1>6, <2>1, <2>2, <2>3 DEF CurrentInv, HandInv
<1>9. ObjectInv'
  BY <1>1, <1>2, <1>4 DEF CurrentInv, ObjectInv
<1>10. AgeInv'
  BY <1>2, <1>4 DEF CurrentInv, AgeInv
<1>11. GoneInv'
  BY <1>2, <1>4, <1>5 DEF CurrentInv, GoneInv
<1>12. NewInv'
  BY <1>2 DEF NewInv
<1>13. BackedInv'
  <2>1. Followed(deviceq', known, unseen)
    BY <1>2, <1>4 DEF CurrentInv, BackedInv
  <2>2. ASSUME NEW s \in connected', s.device.dev \notin unseen
        PROVE  Backed(s.device)'
    <3>1. ~SameKey(h.device, s.device)
      <4>. SUFFICES ASSUME SameKey(h.device, s.device) PROVE FALSE
        OBVIOUS
      <4>1. SameKey(r.device, s.device)
        BY <1>1 DEF SameKey
      <4>. QED  BY <1>1, <1>2, <4>1 DEF CurrentInv, HandInv
    <3>2. DeviceDisconnected(s.device) # h
      BY <3>1 DEF DeviceDisconnected, SameKey
    <3>3. Backed(s.device)
      BY <1>1, <1>2, <2>2 DEF CurrentInv, BackedInv
    <3>. QED  BY <1>2, <1>4, <1>5, <3>1, <3>2, <3>3 DEF Backed, DeviceDisconnected
  <2>. QED  BY <1>2, <2>1, <2>2 DEF BackedInv
<1>14. ClaimInv'
  <2>1. ASSUME NEW d, ClaimDue(d) PROVE ClaimDue(d)'
    <3>1. DeviceConnected(DeviceAt(d, "rusb"))' = DeviceConnected(DeviceAt(d, "rusb"))
          /\ DeviceConnected(DeviceAt(d, "rusb")) # h
      BY <1>2, <1>4 DEF DeviceConnected, DeviceAt
    <3>. QED  BY <1>4, <1>7, <2>1, <3>1 DEF ClaimDue
  <2>. QED  BY <1>1, <1>2, <1>4, <1>5, <2>1 DEF CurrentInv, ClaimInv
<1>15. ServedInv'
  <2>. SUFFICES ASSUME NEW c \in plugged, c \notin unseen \cup refused, listed[c] < MaxListed
                PROVE  Served(c)' \/ DeviceConnected(DeviceAt(c, "rusb"))' \in News'
    BY <1>2 DEF ServedInv
  <2>1. DeviceConnected(DeviceAt(c, "rusb"))' = DeviceConnected(DeviceAt(c, "rusb"))
        /\ DeviceConnected(DeviceAt(c, "rusb")) # h
    BY <1>2, <1>4 DEF DeviceConnected, DeviceAt
  <2>2. ASSUME Served(c) PROVE Served(c)' \/ ClaimDue(c)'
    <3>1. PICK s \in connected : s.device.dev = c /\ s \in up /\ Present(s.device)
      BY <2>2 DEF Served, Serves
    <3>2. CASE s # r
      BY <1>1, <1>2, <1>5, <3>1, <3>2 DEF Served, Serves
    <3>3. CASE s = r
      <4>1. r.device.via # "rusb" /\ h.device.dev = c
        BY <1>1, <1>6, <3>1, <3>3 DEF SameKey
      <4>2. h.device.via = "serial"
        BY <1>1, <1>4, <4>1 DEF SameKey, DeviceEvent, Device, Backends
      <4>3. ClaimDue(c)
        BY <1>1, <1>2, <1>4, <3>1, <3>3, <4>1, <4>2 DEF CurrentInv, ClaimInv
      <4>. QED  BY <1>4, <1>7, <2>1, <4>3 DEF ClaimDue
    <3>. QED  BY <3>2, <3>3
  <2>3. Claimer(c)' => Served(c)'
    BY DEF Claimer, Served, Serves
  <2>. QED  BY <1>2, <1>4, <2>1, <2>2, <2>3 DEF CurrentInv, ServedInv, ClaimDue
<1>. QED  BY <1>3, <1>8, <1>9, <1>10, <1>11, <1>12, <1>13, <1>14, <1>15 DEF CurrentInv

(***************************************************************************)
(* The application                                                         *)
(***************************************************************************)

\* What rusb enumerates when it is registered.
LEMMA EnumeratedElements ==
  ASSUME UsbTypeOK,
         NEW evs \in SetToSeqs({DeviceConnected(DeviceAt(d, "rusb")) : d \in plugged})
  PROVE  ToSet(evs) = {DeviceConnected(DeviceAt(d, "rusb")) : d \in plugged}
<1>. DEFINE f == [d \in plugged |-> DeviceConnected(DeviceAt(d, "rusb"))]
            T == {f[d] : d \in plugged}
<1>1. IsFiniteSet(plugged)
  BY UsbEnvironmentAssumption, FS_Subset DEF UsbTypeOK
<1>2. IsFiniteSet(T)
  <2>1. DOMAIN f = plugged
    OBVIOUS
  <2>. HIDE DEF f
  <2>. QED  BY <1>1, <2>1, FiniteImage
<1>3. T = {DeviceConnected(DeviceAt(d, "rusb")) : d \in plugged}
  OBVIOUS
<1>. HIDE DEF T
<1>. QED  BY <1>2, <1>3, OrderElements

LEMMA StartCurrent == CurrentInv /\ (StartDiscovery \/ StartDiscoveryFails) => CurrentInv'
<1>. SUFFICES ASSUME CurrentInv, StartDiscovery \/ StartDiscoveryFails PROVE CurrentInv'
  OBVIOUS
<1>1. UsbTypeInv' /\ NoConnectionLeaks'
  BY ApplicationTypes, LeaksStep DEF UsbNext, CurrentInv
<1>2. /\ mode = "new" /\ Live /\ Live' /\ hotplug \in Nat /\ UsbTypeOK
      /\ UNCHANGED <<plugged, address, pending, handler, connected, up, listed, leaked, refused>>
      /\ \/ mode' = "on" /\ hotplug' > 0 /\ known' = Ports
         \/ mode' = "new" /\ known' = known
  BY DEF StartDiscovery, StartDiscoveryFails, physical, list, reports, Live, CurrentInv, UsbTypeInv, UsbTypeOK
<1>3. PICK evs \in SetToSeqs({DeviceConnected(DeviceAt(d, "rusb")) : d \in plugged}) : Offer(evs, {})
  BY DEF StartDiscovery, StartDiscoveryFails
<1>4. evs \in Seq(DeviceEvent) /\ ToSet(evs) = {DeviceConnected(DeviceAt(d, "rusb")) : d \in plugged}
  BY <1>2, EnumeratedType, EnumeratedElements
<1>5. \A e \in ToSet(evs) : /\ e.device.via = "rusb" /\ e.kind = "connected"
                            /\ e.device.address <= address[e.device.dev]
  <2>1. \A d \in plugged : address[d] <= address[d]
    BY <1>2, UsbEnvironmentAssumption DEF UsbTypeOK
  <2>. QED  BY <1>4, <2>1 DEF DeviceConnected, DeviceAt
<1>6. /\ unseen \subseteq unseen'
      /\ ToSet(deviceq') \subseteq ToSet(deviceq) \cup ToSet(evs)
      /\ \A e \in ToSet(evs) : e \in ToSet(deviceq') \/ e.device.dev \in unseen'
  <2>1. {} \in SUBSET Devices
    OBVIOUS
  <2>. QED  BY <1>2, <1>3, <1>4, <2>1, Offered
<1>7. Aged(deviceq')
  BY <1>2, <1>3, <1>4, <1>5, OfferedByLibusb
<1>8. /\ \A e \in ToSet(deviceq') : e.kind = "connected" /\ e.device.via = "rusb"
      /\ News' \subseteq News \cup ToSet(evs)
  BY <1>2, <1>5, <1>6 DEF CurrentInv, NewInv, News
<1>9. /\ \A x : Present(x)' <=> Present(x)
      /\ \A x, y : SameKey(x, y)' <=> SameKey(x, y)
  BY <1>2 DEF Present, SameKey
<1>10. HandInv'
  BY <1>2, <1>6, <1>9 DEF CurrentInv, HandInv, Idle
<1>11. ObjectInv'
  <2>1. /\ \A x \in known' : x.via = "serial" /\ x.address <= address[x.dev]
        /\ \A x, y \in known' : x.dev = y.dev => x = y
    <3>1. CASE known' = Ports
      <4>1. \A x \in Ports : x.via = "serial" /\ x.address = address[x.dev] /\ x.address \in Nat
        BY <1>2, PortFacts, UsbEnvironmentAssumption DEF Device
      <4>. QED  BY <1>2, <3>1, <4>1, PortFacts
    <3>2. CASE known' = known
      BY <1>2, <3>2 DEF CurrentInv, ObjectInv
    <3>. QED  BY <1>2, <3>1, <3>2
  <2>. QED  BY <1>2, <1>5, <1>8, <2>1 DEF CurrentInv, ObjectInv
<1>12. AgeInv'
  BY <1>7, <1>8 DEF AgeInv
<1>13. GoneInv'
  BY <1>2, <1>5, <1>8, <1>9 DEF CurrentInv, GoneInv
<1>14. NewInv'
  BY <1>2, <1>6, <1>8, <1>9 DEF CurrentInv, NewInv
<1>15. BackedInv'
  <2>. SUFFICES ASSUME mode' = "on" PROVE BackedInv'
    BY DEF BackedInv
  <2>1. Followed(deviceq', known', unseen')
    <3>1. deviceq' \in Seq(DeviceEvent)
      BY <1>1 DEF UsbTypeInv, UsbTypeOK
    <3>2. \A i \in 1 .. Len(deviceq') : deviceq'[i].device.via = "rusb"
      BY <1>8, <3>1, ElementOf
    <3>. QED  BY <3>2 DEF Followed
  <2>2. ASSUME NEW r \in connected, r.device.dev \notin unseen'
        PROVE  Present(r.device) /\ (r.device.via = "rusb" \/ r.device \in Ports)
    <3>1. Present(r.device) /\ r.device \in Device
      BY <1>2, <1>6, <2>2, Made DEF CurrentInv, NewInv
    <3>2. CASE r.device.via = "serial"
      <4>1. ~Claimed(r.device.dev)
        <5>. SUFFICES ASSUME Claimed(r.device.dev) PROVE FALSE
          OBVIOUS
        <5>1. PICK x \in Open : x.via = "rusb" /\ x.dev = r.device.dev
          BY DEF Claimed
        <5>2. PICK s \in up : s.device = x
          BY <1>2 DEF Open, CurrentInv, HandInv, Idle
        <5>3. s \in connected
          BY <1>2 DEF CurrentInv, HandInv, Idle, NoConnectionLeaks
        <5>. QED  BY <1>2, <3>2, <5>1, <5>2, <5>3 DEF CurrentInv, NewInv
      <4>2. r.device = DeviceAt(r.device.dev, "serial") /\ r.device.dev \in plugged
        BY <3>1, <3>2 DEF Present, DeviceAt, Device
      <4>. QED  BY <1>2, <3>1, <4>1, <4>2, PortFacts
    <3>. QED  BY <3>1, <3>2 DEF Device, Backends
  <2>3. ASSUME NEW r \in connected, r.device.dev \notin unseen' PROVE Backed(r.device)'
    <3>1. r.device.address <= r.device.address
      BY <1>2, Made, UsbEnvironmentAssumption DEF Device
    <3>2. known' = Ports
      BY <1>2
    <3>3. SameKey(r.device, r.device)
      BY DEF SameKey
    <3>. QED  BY <1>9, <2>2, <2>3, <3>1, <3>2, <3>3 DEF Backed
  <2>. QED  BY <1>2, <2>1, <2>3 DEF BackedInv
<1>16. ClaimInv'
  BY <1>8 DEF ClaimInv
<1>17. ServedInv'
  <2>. SUFFICES ASSUME NEW c \in plugged, c \notin unseen'
                PROVE  DeviceConnected(DeviceAt(c, "rusb"))' \in News'
    BY <1>2 DEF ServedInv
  <2>1. DeviceConnected(DeviceAt(c, "rusb"))' = DeviceConnected(DeviceAt(c, "rusb"))
    BY <1>2 DEF DeviceConnected, DeviceAt
  <2>2. DeviceConnected(DeviceAt(c, "rusb")).device.dev = c
    BY DEF DeviceConnected, DeviceAt
  <2>. QED  BY <1>4, <1>6, <2>1, <2>2 DEF News
<1>. QED  BY <1>1, <1>10, <1>11, <1>12, <1>13, <1>14, <1>15, <1>16, <1>17 DEF CurrentInv

\* Once discovery is stopped the list is nobody's business.
LEMMA EndsCurrent == CurrentInv /\ (StopDiscovery \/ DropEnvironment) => CurrentInv'
<1>. SUFFICES ASSUME CurrentInv, StopDiscovery \/ DropEnvironment PROVE CurrentInv'
  OBVIOUS
<1>1. UsbTypeInv' /\ NoConnectionLeaks'
  BY ApplicationTypes, LeaksStep DEF UsbNext, CurrentInv
<1>2. mode' \notin {"new", "on"}
  BY DEF StopDiscovery, DropEnvironment
<1>. QED  BY <1>1, <1>2 DEF CurrentInv, HandInv, ObjectInv, AgeInv, GoneInv, NewInv, BackedInv, ClaimInv, ServedInv, Live

LEMMA UserCurrent == CurrentInv /\ UserDisconnects => CurrentInv'
<1>. SUFFICES ASSUME CurrentInv, UserDisconnects PROVE CurrentInv'
  OBVIOUS
<1>1. UsbTypeInv' /\ NoConnectionLeaks'
  BY ApplicationTypes, LeaksStep DEF UsbNext, CurrentInv
<1>2. PICK r \in connected \cap up : up' = up \ {r} /\ refused' = refused \cup {r.device.dev}
  BY DEF UserDisconnects
<1>3. UNCHANGED <<plugged, address, mode, hotplug, pending, known, deviceq, handler, connected, listed, leaked, unseen>>
  BY DEF UserDisconnects, physical, backends, reports
<1>4. /\ \A x : Present(x)' <=> Present(x)
      /\ \A x, y : SameKey(x, y)' <=> SameKey(x, y)
      /\ News' = News /\ (Live' <=> Live)
  BY <1>3 DEF Present, SameKey, News, Live
<1>5. /\ \A d : d \notin refused' /\ Claimer(d) => Claimer(d)'
      /\ \A d : d \notin refused' /\ Served(d) => Served(d)'
  BY <1>2, <1>3, <1>4 DEF Claimer, Served, Serves
<1>6. HandInv'
  <2>1. \A s \in connected : s \notin up' => s.device.dev \in refused' \/ s \notin up
    BY <1>2
  <2>. QED  BY <1>2, <1>3, <1>4, <2>1 DEF CurrentInv, HandInv
<1>7. ObjectInv'
  BY <1>3, <1>4 DEF CurrentInv, ObjectInv
<1>8. AgeInv'
  BY <1>3, <1>4 DEF CurrentInv, AgeInv
<1>9. GoneInv'
  BY <1>3, <1>4 DEF CurrentInv, GoneInv
<1>10. NewInv'
  BY <1>3, <1>4 DEF CurrentInv, NewInv
<1>11. BackedInv'
  BY <1>3, <1>4 DEF CurrentInv, BackedInv, Backed, DeviceDisconnected
<1>12. ClaimInv'
  BY <1>2, <1>3, <1>4, <1>5 DEF CurrentInv, ClaimInv, ClaimDue, DeviceConnected, DeviceAt
<1>13. ServedInv'
  BY <1>2, <1>3, <1>4, <1>5 DEF CurrentInv, ServedInv, DeviceConnected, DeviceAt
<1>. QED  BY <1>1, <1>6, <1>7, <1>8, <1>9, <1>10, <1>11, <1>12, <1>13 DEF CurrentInv

\* A step that concerns neither devices nor the list.
LEMMA ElsewhereCurrent == CurrentInv /\ (NextRuntimeEvent \/ UNCHANGED usbVars) => CurrentInv'
<1>. SUFFICES ASSUME CurrentInv, NextRuntimeEvent \/ UNCHANGED usbVars PROVE CurrentInv'
  OBVIOUS
<1>1. UsbTypeInv' /\ NoConnectionLeaks'
  BY UsbTypeStep, LeaksStep DEF UsbNext, CurrentInv
<1>2. UNCHANGED <<plugged, address, mode, hotplug, pending, known, deviceq, handler, connected, up, listed, leaked, unseen, refused>>
  BY DEF NextRuntimeEvent, usbVars, physical, backends, list, reports
<1>3. /\ \A x : Present(x)' <=> Present(x)
      /\ \A x, y : SameKey(x, y)' <=> SameKey(x, y)
      /\ News' = News /\ (Live' <=> Live)
  BY <1>2 DEF Present, SameKey, News, Live
<1>4. /\ \A d : Claimer(d) <=> Claimer(d)'
      /\ \A d : Served(d) <=> Served(d)'
  BY <1>2, <1>3 DEF Claimer, Served, Serves
<1>5. HandInv' /\ ObjectInv'
  BY <1>2, <1>3 DEF CurrentInv, HandInv, ObjectInv
<1>6. AgeInv' /\ GoneInv' /\ NewInv'
  BY <1>2, <1>3 DEF CurrentInv, AgeInv, GoneInv, NewInv
<1>7. BackedInv'
  BY <1>2, <1>3 DEF CurrentInv, BackedInv, Backed, DeviceDisconnected
<1>8. ClaimInv'
  BY <1>2, <1>3, <1>4 DEF CurrentInv, ClaimInv, ClaimDue, DeviceConnected, DeviceAt
<1>9. ServedInv'
  BY <1>2, <1>3, <1>4 DEF CurrentInv, ServedInv, DeviceConnected, DeviceAt
<1>. QED  BY <1>1, <1>5, <1>6, <1>7, <1>8, <1>9 DEF CurrentInv

(***************************************************************************)
(* The theorem                                                             *)
(***************************************************************************)

\* At first what is listed is there and open.
LEMMA CurrentInit == UsbInit => CurrentInv
<1>. SUFFICES ASSUME UsbInit PROVE CurrentInv
  OBVIOUS
<1>. DEFINE Listed(opened) ==
              {[device |-> [dev |-> o.dev, via |-> o.via, address |-> 1], nth |-> 1] : o \in opened}
            Begins(present, opened) ==
              /\ \A o, p \in opened : o.dev = p.dev => o = p
              /\ plugged = present
              /\ address = [d \in Devices |-> IF d \in present THEN 1 ELSE 0]
              /\ connected = Listed(opened) /\ up = Listed(opened)
<1>1. UsbTypeInv /\ NoConnectionLeaks
  BY UsbTypeInit, LeaksInit
<1>2. \E present \in SUBSET Devices : \E opened \in SUBSET [dev : present, via : Backends] :
        Begins(present, opened)
  BY Zenon DEF UsbInit
<1>3. PICK present \in SUBSET Devices : \E opened \in SUBSET [dev : present, via : Backends] :
        Begins(present, opened)
  BY <1>2
<1>4. PICK opened \in SUBSET [dev : present, via : Backends] : Begins(present, opened)
  BY <1>3
<1>5. /\ mode = "new" /\ pending = <<>> /\ deviceq = <<>> /\ known = {} /\ leaked = {} /\ handler = Idle
      /\ up = connected
  BY <1>4 DEF UsbInit
<1>6. ASSUME NEW r \in connected
      PROVE  Present(r.device) /\ r.device.address <= address[r.device.dev]
  <2>1. PICK o \in opened : r = [device |-> [dev |-> o.dev, via |-> o.via, address |-> 1], nth |-> 1]
    BY <1>4
  <2>2. o.dev \in present /\ o.dev \in Devices /\ r.device.dev = o.dev /\ r.device.address = 1
    BY <2>1
  <2>3. address[o.dev] = 1 /\ o.dev \in plugged
    BY <1>4, <2>2
  <2>. QED  BY <2>2, <2>3 DEF Present
<1>7. \A r, s \in connected : r.device.dev = s.device.dev => r = s
  BY <1>4
<1>8. News = {} /\ ToSet(deviceq) = {} /\ ToSet(pending) = {} /\ Len(deviceq) = 0
  BY <1>5 DEF News, ToSet
<1>9. HandInv
  BY <1>5, <1>7 DEF HandInv, Idle, SameKey
<1>10. ObjectInv
  BY <1>5, <1>6, <1>8 DEF ObjectInv
<1>11. AgeInv
  BY <1>8 DEF AgeInv, Aged
<1>12. GoneInv /\ NewInv
  BY <1>5, <1>6, <1>7, <1>8 DEF GoneInv, NewInv
<1>13. BackedInv /\ ClaimInv /\ ServedInv
  BY <1>5 DEF BackedInv, ClaimInv, ServedInv
<1>. QED  BY <1>1, <1>9, <1>10, <1>11, <1>12, <1>13 DEF CurrentInv

LEMMA CurrentStep == CurrentInv /\ [UsbNext]_usbVars => CurrentInv'
<1>. SUFFICES ASSUME CurrentInv, [UsbNext]_usbVars PROVE CurrentInv'
  OBVIOUS
<1>1. CASE \E d \in Devices : Plug(d) \/ Unplug(d)
  BY <1>1, PlugCurrent, UnplugCurrent
<1>2. CASE Callback \/ Poll
  BY <1>2, CallbackCurrent, PollCurrent
<1>3. CASE Handler
  BY <1>3, DuplicateCurrent, ArriveFailsCurrent, ArriveCurrent, LeaveUnknownCurrent, LeaveCurrent,
     ClosesCurrent DEF Handler
<1>4. CASE StartDiscovery \/ StartDiscoveryFails \/ StopDiscovery \/ DropEnvironment
  BY <1>4, StartCurrent, EndsCurrent
<1>5. CASE NextRuntimeEvent \/ UserDisconnects \/ UNCHANGED usbVars
  BY <1>5, UserCurrent, ElsewhereCurrent
<1>. QED  BY <1>1, <1>2, <1>3, <1>4, <1>5 DEF UsbNext

\* Main result: once the reports of both backends have been worked off, the
\* list is of the devices that are there, and each of them is served by one of
\* its runtimes, unless something of it was lost or it was refused (usb/mod.rs,
\* rusb.rs, serialport.rs).
THEOREM UsbListIsCurrent == UsbSpec => []SettledListIsCurrent
BY CurrentInit, CurrentStep, CurrentIsSettled, PTL DEF UsbSpec

(***************************************************************************)
(* mDNS: the endpoints of the devices found                                *)
(***************************************************************************)

\* An entry has an address exactly when it is resolved, and then the last one
\* its host was seen with; it gets a host and a port together.
EntryIsCurrent(i) ==
  LET d == devices[i] IN
    /\ i \in resolved => d.host # Unknown /\ d.address = latest[d.host] /\ d.address # Unknown
    /\ i \notin resolved => d.address = Unknown
    /\ d.host # Unknown => d.port = i

MdnsInv == MdnsTypeOK /\ \A i \in DOMAIN devices : EntryIsCurrent(i)

Entry(i) == [host : {Unknown, HostNameOf[i]}, address : Addresses \cup {Unknown},
             port : {Unknown, i}, txt : BOOLEAN]

Packet == UNION {AnswersOf(i) : i \in Instances}

\* What an answer holds: records of instances, and addresses of host names.
LEMMA PacketFacts ==
  ASSUME MdnsTypeOK, NEW packet \in Packet
  PROVE  /\ packet.ptr \cup packet.srv \cup packet.txt \subseteq Instances
         /\ packet.a \subseteq HostNames \X Addresses
<1>1. PICK i \in Instances : packet \in AnswersOf(i)
  BY DEF Packet
<1>2. HostNameOf[i] \in HostNames
  BY MdnsDiscoveryAssumption
<1>3. held[HostNameOf[i]] \subseteq Addresses
  BY <1>2 DEF MdnsTypeOK
<1>. QED  BY <1>1, <1>2, <1>3 DEF AnswersOf

\* Nothing is known at first.
LEMMA MdnsStart == MdnsInit => MdnsInv
<1>. SUFFICES ASSUME MdnsInit PROVE MdnsInv
  OBVIOUS
<1>1. DOMAIN devices = {}
  BY DEF MdnsInit
<1>2. (CHOOSE a \in Addresses : TRUE) \in Addresses
  BY MdnsDiscoveryAssumption
<1>. QED  BY <1>1, <1>2 DEF MdnsInit, MdnsInv, MdnsTypeOK

\* An address found in a packet is one, and an unknown host has none.
LEMMA AddressFacts ==
  ASSUME MdnsTypeOK, NEW packet \in Packet
  PROVE  /\ \A h \in HostNames \cup {Unknown} : AddressIn(packet, h) \in Addresses \cup {Unknown}
         /\ AddressIn(packet, Unknown) = Unknown
<1>1. packet.a \subseteq HostNames \X Addresses
  BY PacketFacts
<1>. QED  BY <1>1, MdnsDiscoveryAssumption DEF AddressIn

\* What a packet makes of one entry, and of what is known of its address.
LEMMA EntryStep ==
  ASSUME MdnsTypeOK, NEW packet \in Packet, NEW i \in Instances, NEW d \in Entry(i)
  PROVE  LET named == IF i \in packet.ptr \cup packet.srv \cup packet.txt
                      THEN WithRecords(d, i, packet) ELSE d
             after == WithAddress(named, packet)
             found == AddressIn(packet, after.host)
         IN /\ after \in Entry(i)
            /\ after.host = IF i \in packet.srv THEN HostNameOf[i] ELSE d.host
            /\ found # Unknown => after.address = found
            /\ found = Unknown => after.address = IF i \in packet.srv THEN Unknown ELSE d.address
            /\ (d.host # Unknown => d.port = i) => (after.host # Unknown => after.port = i)
<1>. DEFINE named == IF i \in packet.ptr \cup packet.srv \cup packet.txt
                     THEN WithRecords(d, i, packet) ELSE d
            after == WithAddress(named, packet)
            found == AddressIn(packet, after.host)
<1>1. HostNameOf[i] \in HostNames /\ Unknown \notin HostNames
  BY MdnsDiscoveryAssumption
<1>2. /\ named \in Entry(i)
      /\ named.host = IF i \in packet.srv THEN HostNameOf[i] ELSE d.host
      /\ named.address = IF i \in packet.srv THEN AddressIn(packet, HostNameOf[i]) ELSE d.address
      /\ (d.host # Unknown => d.port = i) => (named.host # Unknown => named.port = i)
  <2>1. CASE i \in packet.srv
    <3>1. AddressIn(packet, HostNameOf[i]) \in Addresses \cup {Unknown}
      BY <1>1, AddressFacts
    <3>. QED  BY <2>1, <3>1 DEF WithRecords, Entry
  <2>2. CASE i \notin packet.srv
    BY <2>2 DEF WithRecords, Entry
  <2>. QED  BY <2>1, <2>2
<1>. HIDE DEF named
<1>3. named.host \in HostNames \cup {Unknown}
  BY <1>1, <1>2 DEF Entry
<1>4. AddressIn(packet, named.host) \in Addresses \cup {Unknown}
  BY <1>3, AddressFacts
<1>5. after \in Entry(i) /\ after.host = named.host /\ after.port = named.port
      /\ after.address = IF AddressIn(packet, named.host) # Unknown
                         THEN AddressIn(packet, named.host) ELSE named.address
  BY <1>2, <1>4 DEF WithAddress, Refreshes, Entry
<1>. QED  BY <1>2, <1>5 DEF named

\* A packet keeps every entry current.
LEMMA ReceiveStep == MdnsInv /\ Receive => MdnsInv'
<1>. SUFFICES ASSUME MdnsInv, Receive PROVE MdnsInv'
  OBVIOUS
<1>1. PICK packet \in Packet :
        LET has(h) == AddressIn(packet, h) # Unknown IN
          /\ devices' = Collected(packet)
          /\ latest' = [h \in HostNames |-> IF has(h) THEN AddressIn(packet, h) ELSE latest[h]]
          /\ resolved' = {i \in DOMAIN devices' :
               \/ devices'[i].host # Unknown /\ has(devices'[i].host)
               \/ i \in resolved /\ i \notin packet.srv}
  BY DEF Receive, Packet
<1>2. UNCHANGED <<searching, held>> /\ MdnsTypeOK
  BY DEF Receive, MdnsInv
<1>3. DOMAIN devices' \subseteq Instances
  BY <1>1, <1>2, PacketFacts DEF Collected, MdnsTypeOK
<1>4. ASSUME NEW i \in DOMAIN devices' PROVE devices'[i] \in Entry(i) /\ EntryIsCurrent(i)'
  <2>. DEFINE d == IF i \in DOMAIN devices THEN devices[i] ELSE Default
              found == AddressIn(packet, devices'[i].host)
  <2>1. i \in Instances /\ d \in Entry(i)
    BY <1>2, <1>3 DEF MdnsTypeOK, Entry, Default
  <2>2. devices'[i] = WithAddress(IF i \in packet.ptr \cup packet.srv \cup packet.txt
                                  THEN WithRecords(d, i, packet) ELSE d, packet)
    BY <1>1 DEF Collected
  <2>3. /\ i \notin resolved => d.address = Unknown
        /\ i \in resolved => d.host # Unknown /\ d.address = latest[d.host] /\ d.address # Unknown
        /\ d.host # Unknown => d.port = i
    BY <1>2 DEF MdnsInv, EntryIsCurrent, MdnsTypeOK, Default
  <2>. HIDE DEF d
  <2>4. /\ devices'[i] \in Entry(i)
        /\ devices'[i].host = IF i \in packet.srv THEN HostNameOf[i] ELSE d.host
        /\ found # Unknown => devices'[i].address = found
        /\ found = Unknown => devices'[i].address = IF i \in packet.srv THEN Unknown ELSE d.address
        /\ devices'[i].host # Unknown => devices'[i].port = i
    BY <1>2, <2>1, <2>2, <2>3, EntryStep
  <2>5. devices'[i].host \in HostNames \cup {Unknown}
    BY <2>1, <2>4, MdnsDiscoveryAssumption DEF Entry
  <2>6. found # Unknown => devices'[i].host # Unknown
    BY <1>2, AddressFacts
  <2>7. i \in resolved' <=> found # Unknown \/ (i \in resolved /\ i \notin packet.srv)
    BY <1>1, <2>6
  <2>8. devices'[i].host # Unknown =>
          latest'[devices'[i].host] = IF found # Unknown THEN found ELSE latest[devices'[i].host]
    BY <1>1, <2>5
  <2>9. CASE found # Unknown
    BY <2>4, <2>6, <2>7, <2>8, <2>9 DEF EntryIsCurrent
  <2>10. CASE found = Unknown
    BY <2>3, <2>4, <2>7, <2>8, <2>10 DEF EntryIsCurrent
  <2>. QED  BY <2>4, <2>9, <2>10
<1>5. latest' \in [HostNames -> Addresses \cup {Unknown}]
  BY <1>1, <1>2, AddressFacts DEF MdnsTypeOK
<1>6. resolved' \subseteq DOMAIN devices'
  BY <1>1
<1>. QED  BY <1>2, <1>3, <1>4, <1>5, <1>6 DEF MdnsInv, MdnsTypeOK, Entry

\* Every step keeps the entries current.
LEMMA MdnsInvariant == MdnsInv /\ [MdnsNext]_mdnsVars => MdnsInv'
<1>. SUFFICES ASSUME MdnsInv, [MdnsNext]_mdnsVars PROVE MdnsInv'
  OBVIOUS
<1>1. CASE UNCHANGED <<devices, latest, resolved>>
           /\ searching' \in BOOLEAN /\ held' \in [HostNames -> SUBSET Addresses]
  BY <1>1 DEF MdnsInv, MdnsTypeOK, EntryIsCurrent
<1>2. ASSUME NEW h \in HostNames, ChangeAddress(h) PROVE MdnsInv'
  BY <1>1, <1>2 DEF ChangeAddress, MdnsInv, MdnsTypeOK
<1>3. CASE Deadline
  BY <1>1, <1>3 DEF Deadline, MdnsInv, MdnsTypeOK
<1>4. CASE UNCHANGED mdnsVars
  BY <1>1, <1>4 DEF mdnsVars, MdnsInv, MdnsTypeOK
<1>. QED  BY <1>2, <1>3, <1>4, ReceiveStep DEF MdnsNext

\* Main result: an address that was superseded is never used
\* (collect_mdns_devices, wifi.rs, 1480-1572).
THEOREM LatestEndpoints == MdnsSpec => []EndpointsAreLatest
<1>1. ASSUME MdnsInv PROVE EndpointsAreLatest
  <2>. SUFFICES ASSUME NEW i \in Candidates
                PROVE  Endpoint(devices[i]) =
                         <<IF i \in resolved THEN latest[devices[i].host] ELSE devices[i].host, i>>
    BY DEF EndpointsAreLatest
  <2>1. i \in DOMAIN devices /\ Endpoint(devices[i])[1] # Unknown
    BY DEF Candidates
  <2>2. EntryIsCurrent(i)
    BY <1>1, <2>1 DEF MdnsInv
  <2>3. devices[i].host # Unknown
    BY <2>1, <2>2 DEF EntryIsCurrent, Endpoint
  <2>. QED  BY <2>2, <2>3 DEF EntryIsCurrent, Endpoint
<1>. QED  BY MdnsStart, MdnsInvariant, <1>1, PTL DEF MdnsSpec

\* The type invariant comes with it.
THEOREM MdnsTypes == MdnsSpec => []MdnsTypeOK
<1>1. MdnsInv => MdnsTypeOK
  BY DEF MdnsInv
<1>. QED  BY MdnsStart, MdnsInvariant, <1>1, PTL DEF MdnsSpec
================================================================================
