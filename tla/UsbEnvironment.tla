---------------------------- MODULE UsbEnvironment ----------------------------
(***************************************************************************)
(* UsbEnvironment (usb/mod.rs) over its two backends: libusb's hotplug     *)
(* callbacks (rusb.rs) and the one-second poll of the serial ports         *)
(* (serialport.rs).  Both try_send device events into one bounded channel; *)
(* the event handler task connects or disconnects runtimes and sends       *)
(* runtime events into another.                                            *)
(*                                                                         *)
(* Only the handler writes connected_runtimes.  Its awaits while a device  *)
(* arrives are on locks nobody else holds, so an arrival is one step; it   *)
(* is suspended, and can be aborted, while a connection closes (the reader *)
(* thread is joined) and while the runtime channel is full.                *)
(*                                                                         *)
(* Outside src/: a device has a new address each time it is plugged in and *)
(* one port name; libusb takes the port away while it has the device open. *)
(***************************************************************************)
EXTENDS Naturals, Sequences, FiniteSets, SequencesExt

CONSTANTS
  Devices,      \* the lamps
  Unreadable,   \* those whose serial number cannot be read
  DeviceCap,    \* USB_EVENT_CHANNEL_SIZE, 16 in the code
  EventCap,     \* RUNTIME_EVENT_CHANNEL_SIZE, 16 in the code
  MaxPlugs,     \* bound on how often a device is plugged in
  MaxListed     \* bound on the runtimes listed for a device

ASSUME UsbEnvironmentAssumption ==
  /\ Unreadable \subseteq Devices
  /\ DeviceCap \in Nat \ {0} /\ EventCap \in Nat \ {0}
  /\ MaxPlugs \in Nat \ {0} /\ MaxListed \in Nat \ {0}   \* what is there at first was plugged in once
  /\ IsFiniteSet(Devices)

Backends == {"rusb", "serial"}
\* address: which plugging in the device object stands for.
Device == [dev : Devices, via : Backends, address : 0 .. MaxPlugs]
Runtime == [device : Device, nth : 1 .. MaxListed]
DeviceEvent == [kind : {"connected", "disconnected"}, device : Device]
RuntimeEvent == [kind : {"arrived", "left"}, rt : Runtime]

VARIABLES
  cached,     \* whether new() connected a device: then it kept a tokio handle
  plugged,    \* the devices plugged in
  address,    \* [Devices -> how often it was plugged in]
  mode,       \* "new", "on", "stopped" (device_event_rx is used up) or "dropped"
  hotplug,    \* hotplug registrations made: they outlive a failed start
  pending,    \* what libusb has yet to tell the callbacks
  known,      \* known_ports: device objects, told apart by port and serial number
  deviceq,    \* the device event channel
  handler,    \* where the event handler task is, and with what
  connected,  \* connected_runtimes
  up,         \* the runtimes whose connection is open
  listed,     \* [Devices -> how many runtimes were listed for it]
  eventq,     \* the runtime event channel
  told,       \* history: the runtime events the application got
  unsent,     \* history: runtime events an abort threw away
  leaked,     \* history: device objects an abort left open for good
  unseen,     \* history: devices of which an event was lost or a change not noticed
  refused     \* history: devices that did not open, were taken over or closed by the user

physical == <<cached, plugged, address>>
backends == <<hotplug, pending, known>>
list == <<connected, up, listed>>
reports == <<told, unsent, leaked>>
usbVars == <<physical, mode, backends, deviceq, handler, list, eventq, reports, unseen, refused>>

Idle == [at |-> "wait"]

UsbTypeOK ==
  /\ cached \in BOOLEAN
  /\ plugged \subseteq Devices /\ address \in [Devices -> 0 .. MaxPlugs]
  /\ mode \in {"new", "on", "stopped", "dropped"} /\ hotplug \in 0 .. 2
  /\ pending \in Seq(DeviceEvent)
  /\ known \subseteq Device
  /\ deviceq \in Seq(DeviceEvent) /\ Len(deviceq) <= DeviceCap
  /\ handler.at \in {"wait", "duplicate", "leaving", "send"}
  /\ connected \subseteq Runtime /\ up \subseteq Runtime /\ listed \in [Devices -> 0 .. MaxListed]
  /\ eventq \in Seq(RuntimeEvent) /\ Len(eventq) <= EventCap
  /\ told \subseteq RuntimeEvent /\ unsent \subseteq RuntimeEvent
  /\ leaked \subseteq Device
  /\ unseen \subseteq Devices /\ refused \subseteq Devices

DeviceAt(d, via) == [dev |-> d, via |-> via, address |-> address[d]]
Present(x) == x.dev \in plugged /\ x.address = address[x.dev]

\* What connect opens: a libusb device by its address, a port by its name,
\* whichever device object was made of it.
Opened(x) == IF x.via = "serial" THEN DeviceAt(x.dev, "serial") ELSE x

\* The device objects that are open: runtimes, a duplicate, what an abort left.
Open == {r.device : r \in up} \cup leaked
        \cup (IF handler.at = "duplicate" THEN {handler.device} ELSE {})
Claimed(d) == \E x \in Open : x.via = "rusb" /\ x.dev = d /\ Present(x)

\* connection_key: the port name does not change with the address.
SameKey(x, y) == x.via = y.via /\ x.dev = y.dev /\ (x.via = "rusb" => x.address = y.address)
SerialNumber(x) == IF x.dev \in Unreadable THEN {} ELSE {x.dev}

\* Mutant: duplicates are looked for by key only.
ContainsKeyOnly(x) == \E r \in connected : SameKey(r.device, x)

ConnectedContainsKey(x) ==
  \E r \in connected : SameKey(r.device, x) \/ SerialNumber(r.device) \cap SerialNumber(x) # {}

Arrived(r) == [kind |-> "arrived", rt |-> r]
Left(r) == [kind |-> "left", rt |-> r]
DeviceConnected(x) == [kind |-> "connected", device |-> x]
DeviceDisconnected(x) == [kind |-> "disconnected", device |-> x]

(***************************************************************************)
(* new(): each backend's attached devices are connected, rusb first; what  *)
(* rusb opened has no port any more.  runtimes() tells the application.    *)
(* Outside a tokio runtime nothing is connected.                           *)
(***************************************************************************)
UsbInit ==
  \E present \in SUBSET Devices : \E opened \in SUBSET [dev : present, via : Backends] :
    LET rts == {[device |-> [dev |-> o.dev, via |-> o.via, address |-> 1], nth |-> 1] : o \in opened} IN
      /\ \A o, p \in opened : o.dev = p.dev => o = p
      /\ cached = (opened # {})
      /\ plugged = present
      /\ address = [d \in Devices |-> IF d \in present THEN 1 ELSE 0]
      /\ connected = rts /\ up = rts
      /\ listed = [d \in Devices |-> IF \E o \in opened : o.dev = d THEN 1 ELSE 0]
      /\ told = {Arrived(r) : r \in rts}
      /\ mode = "new" /\ hotplug = 0 /\ pending = <<>> /\ known = {} /\ deviceq = <<>>
      /\ handler = Idle /\ eventq = <<>>
      /\ unsent = {} /\ leaked = {} /\ unseen = {} /\ refused = {}

(***************************************************************************)
(* Devices come and go; libusb keeps the news for the registered callbacks *)
(***************************************************************************)

\* One callback per registration; without one nobody will ever be told.
Notify(ev) ==
  /\ pending' = pending \o [i \in 1 .. hotplug |-> ev]
  /\ unseen' = IF mode = "on" THEN unseen ELSE unseen \cup {ev.device.dev}

\* Bound: once discovery has stopped, nothing looks at the devices any more.
Watched == mode \in {"new", "on"}

Plug(d) ==
  /\ Watched /\ d \notin plugged /\ address[d] < MaxPlugs
  /\ plugged' = plugged \cup {d}
  /\ address' = [address EXCEPT ![d] = @ + 1]
  /\ Notify(DeviceConnected([DeviceAt(d, "rusb") EXCEPT !.address = @ + 1]))
  /\ UNCHANGED <<cached, mode, hotplug, known, deviceq, handler, list, eventq, reports, refused>>

Unplug(d) ==
  /\ Watched /\ d \in plugged
  /\ plugged' = plugged \ {d}
  /\ Notify(DeviceDisconnected(DeviceAt(d, "rusb")))
  /\ UNCHANGED <<cached, address, mode, hotplug, known, deviceq, handler, list, eventq, reports, refused>>

\* try_send of some events in order: those that do not fit are lost.
Offer(evs, unnoticed) ==
  LET all == deviceq \o evs IN
    /\ deviceq' = IF Len(all) <= DeviceCap THEN all ELSE SubSeq(all, 1, DeviceCap)
    /\ unseen' = unseen \cup unnoticed \cup {all[i].device.dev : i \in DeviceCap + 1 .. Len(all)}

\* device_arrived and device_left, called by the monitor task's handle_events.
Callback ==
  /\ mode = "on" /\ pending # <<>>
  /\ pending' = Tail(pending)
  /\ Offer(<<Head(pending)>>, {})
  /\ UNCHANGED <<physical, mode, hotplug, known, handler, list, eventq, reports, refused>>

\* The ports there are: a device opened with libusb has none.
Ports == {DeviceAt(d, "serial") : d \in {p \in plugged : ~Claimed(p)}}

InPortMap(x, map) == \E y \in map : SameKey(x, y)

\* One tick of the poll: new keys, then missing ones, then the map is
\* replaced even if the events were lost.  A port that was away and back
\* between two ticks has not changed.
Poll ==
  LET new == {DeviceConnected(x) : x \in {y \in Ports : ~InPortMap(y, known)}}
      gone == {DeviceDisconnected(x) : x \in {y \in known : ~InPortMap(y, Ports)}}
      swapped == {x.dev : x \in {y \in Ports \ known : InPortMap(y, known)}} IN
    /\ mode = "on" /\ known # Ports
    /\ \E a \in SetToSeqs(new), b \in SetToSeqs(gone) : Offer(a \o b, swapped)
    /\ known' = Ports
    /\ UNCHANGED <<physical, mode, hotplug, pending, handler, list, eventq, reports, refused>>

(***************************************************************************)
(* The event handler task                                                  *)
(***************************************************************************)

Receives(kind) ==
  /\ mode = "on" /\ handler = Idle /\ deviceq # <<>> /\ Head(deviceq).kind = kind
  /\ deviceq' = Tail(deviceq)

\* claim_interface fails on what is claimed already; a claimed device has no port.
CanOpen(x) == Present(Opened(x)) /\ ~Claimed(x.dev)

\* A serial runtime loses its port to a libusb connection.
TakenOver(x) == IF x.via = "rusb" THEN {r.device.dev : r \in {s \in up : s.device.dev = x.dev}} ELSE {}

\* A serial device knows its serial number; a libusb device must be opened
\* first to read it, and a duplicate is closed again.
Duplicate ==
  LET x == Head(deviceq).device IN
    /\ Receives("connected") /\ ConnectedContainsKey(x)
    /\ handler' = IF x.via = "rusb" /\ CanOpen(x) THEN [at |-> "duplicate", device |-> x] ELSE Idle
    /\ refused' = IF handler' = Idle THEN refused ELSE refused \cup TakenOver(x)
    /\ UNCHANGED <<physical, mode, backends, list, eventq, reports, unseen>>

CloseDuplicate ==
  /\ mode = "on" /\ handler.at = "duplicate"
  /\ handler' = Idle
  /\ UNCHANGED <<physical, mode, backends, deviceq, list, eventq, reports, unseen, refused>>

ArriveFails ==
  LET x == Head(deviceq).device IN
    /\ Receives("connected")
    /\ refused' = IF CanOpen(x) THEN refused \cup {x.dev} ELSE refused
    /\ UNCHANGED <<physical, mode, backends, handler, list, eventq, reports, unseen>>

Arrive ==
  LET x == Head(deviceq).device
      r == [device |-> Opened(x), nth |-> listed[x.dev] + 1] IN
    /\ Receives("connected") /\ ~ConnectedContainsKey(x) /\ CanOpen(x) /\ listed[x.dev] < MaxListed
    /\ connected' = connected \cup {r} /\ up' = up \cup {r}
    /\ listed' = [listed EXCEPT ![x.dev] = @ + 1]
    /\ refused' = refused \cup TakenOver(x)
    /\ handler' = [at |-> "send", event |-> Arrived(r)]
    /\ UNCHANGED <<physical, mode, backends, eventq, reports, unseen>>

\* Mutant: a runtime the application has closed is not taken off the list.
LeaveIfUp ==
  \E r \in connected :
    /\ Receives("disconnected") /\ SameKey(r.device, Head(deviceq).device)
    /\ connected' = IF r \in up THEN connected \ {r} ELSE connected
    /\ handler' = IF r \in up THEN [at |-> "leaving", rt |-> r] ELSE [at |-> "send", event |-> Left(r)]
    /\ UNCHANGED <<physical, mode, backends, up, listed, eventq, reports, unseen, refused>>

\* A device that left and has no entry is nobody's business; one that the
\* application has closed needs no disconnect.
LeaveUnknown ==
  /\ Receives("disconnected")
  /\ ~ \E r \in connected : SameKey(r.device, Head(deviceq).device)
  /\ UNCHANGED <<physical, mode, backends, handler, list, eventq, reports, unseen, refused>>

Leave ==
  \E r \in connected :
    /\ Receives("disconnected") /\ SameKey(r.device, Head(deviceq).device)
    /\ connected' = connected \ {r}
    /\ handler' = IF r \in up THEN [at |-> "leaving", rt |-> r] ELSE [at |-> "send", event |-> Left(r)]
    /\ UNCHANGED <<physical, mode, backends, up, listed, eventq, reports, unseen, refused>>

\* Mutant: the connection of the runtime that left is not closed.
UpAfterLeavingAll == up

UpAfterLeaving == up \ {handler.rt}

CloseLeaving ==
  /\ mode = "on" /\ handler.at = "leaving"
  /\ up' = UpAfterLeaving
  /\ handler' = [at |-> "send", event |-> Left(handler.rt)]
  /\ UNCHANGED <<physical, mode, backends, deviceq, connected, listed, eventq, reports, unseen, refused>>

\* Mutant: try_send.
SendOrDrop ==
  /\ mode = "on" /\ handler.at = "send"
  /\ eventq' = IF Len(eventq) < EventCap THEN Append(eventq, handler.event) ELSE eventq
  /\ handler' = Idle
  /\ UNCHANGED <<physical, mode, backends, deviceq, list, reports, unseen, refused>>

SendEvent ==
  /\ mode = "on" /\ handler.at = "send" /\ Len(eventq) < EventCap
  /\ eventq' = Append(eventq, handler.event)
  /\ handler' = Idle
  /\ UNCHANGED <<physical, mode, backends, deviceq, list, reports, unseen, refused>>

(***************************************************************************)
(* The application                                                         *)
(***************************************************************************)

\* rusb's registrations enumerate what is attached, as if it had just come.
StartDiscovery ==
  /\ mode = "new"
  /\ mode' = "on" /\ hotplug' = hotplug + 1
  /\ known' = Ports
  /\ \E evs \in SetToSeqs({DeviceConnected(DeviceAt(d, "rusb")) : d \in plugged}) : Offer(evs, {})
  /\ UNCHANGED <<physical, pending, handler, list, eventq, reports, refused>>

\* The ports cannot be listed: rusb is stopped again, but its registration
\* stays, and so does what it has enumerated.
StartDiscoveryFails ==
  /\ mode = "new" /\ hotplug = 0
  /\ hotplug' = 1
  /\ \E evs \in SetToSeqs({DeviceConnected(DeviceAt(d, "rusb")) : d \in plugged}) : Offer(evs, {})
  /\ UNCHANGED <<physical, mode, pending, known, handler, list, eventq, reports, refused>>

\* What the handler was about to do is not done.  A disconnect that waits for
\* a send of the application still leaves the connection open; one that
\* waits for the reader thread has told it to end.
Aborted(late) ==
  /\ handler' = Idle /\ deviceq' = <<>> /\ pending' = <<>>
  /\ unsent' = unsent \cup
       CASE handler.at = "send" -> {handler.event}
         [] handler.at = "leaving" -> {Left(handler.rt)}
         [] OTHER -> {}
  /\ IF handler.at = "leaving" THEN leaked' \in {leaked, leaked \cup {handler.rt.device}}
                               ELSE leaked' = leaked \cup late

UpAfterAbort == IF handler.at = "leaving" THEN up \ {handler.rt} ELSE up

\* device_event_rx went down with the task: discovery cannot be started again.
StopDiscovery ==
  /\ mode = "on"
  /\ mode' = "stopped"
  /\ Aborted({})
  /\ up' = UpAfterAbort
  /\ UNCHANGED <<physical, hotplug, known, connected, listed, eventq, told, unseen, refused>>

\* The device the handler may be opening at the moment.
Opening ==
  LET x == Head(deviceq).device IN
    IF /\ mode = "on" /\ handler = Idle /\ deviceq # <<>> /\ Head(deviceq).kind = "connected"
       /\ ~ConnectedContainsKey(x) /\ CanOpen(x)
    THEN {Opened(x)} ELSE {}

\* Drop asks for the abort of the task without waiting for it, stops the
\* backends and disconnects what is listed.  A device that is being opened on
\* another thread meanwhile gets a runtime that nobody closes.  With no tokio
\* runtime to do it in, neither around the drop nor kept by new(), nothing is
\* disconnected; a new() that connected nothing may have kept one or not.
DropEnvironment ==
  /\ mode # "dropped"
  /\ mode' = "dropped"
  /\ \E late \in SUBSET Opening : Aborted(late)
  /\ up' = {} \/ (~cached /\ up' = UpAfterAbort)
  /\ UNCHANGED <<physical, hotplug, known, connected, listed, eventq, told, unseen, refused>>

NextRuntimeEvent ==
  /\ mode = "on" /\ eventq # <<>>
  /\ eventq' = Tail(eventq)
  /\ told' = told \cup {Head(eventq)}
  /\ UNCHANGED <<physical, mode, backends, deviceq, handler, list,
                 unsent, leaked, unseen, refused>>

\* Runtimes are shared: the application may disconnect one.
UserDisconnects ==
  \E r \in connected \cap up :
    /\ up' = up \ {r}
    /\ refused' = refused \cup {r.device.dev}
    /\ UNCHANGED <<physical, mode, backends, deviceq, handler, connected, listed, eventq,
                   reports, unseen>>

Handler ==
  Duplicate \/ CloseDuplicate \/ ArriveFails \/ Arrive \/ LeaveUnknown \/ Leave \/ CloseLeaving \/ SendEvent

UsbNext ==
  \/ \E d \in Devices : Plug(d) \/ Unplug(d)
  \/ Callback \/ Poll \/ Handler
  \/ StartDiscovery \/ StartDiscoveryFails \/ StopDiscovery \/ DropEnvironment
  \/ NextRuntimeEvent \/ UserDisconnects

UsbSpec == UsbInit /\ [][UsbNext]_usbVars

\* The monitor and poll threads and the handler task are scheduled, and the
\* application keeps asking for events.  Nobody must plug, start or stop.
UsbFairness ==
  /\ WF_usbVars(Callback) /\ WF_usbVars(Poll) /\ WF_usbVars(Handler)
  /\ WF_usbVars(NextRuntimeEvent)

UsbFairSpec == UsbSpec /\ UsbFairness

(***************************************************************************)
(* Properties                                                              *)
(***************************************************************************)

\* A device whose serial number can be read has one runtime, whichever
\* backends report it, in whatever order, and whatever reports were lost.
OneRuntimePerDevice ==
  \A r, s \in connected : r.device.dev = s.device.dev /\ r.device.dev \notin Unreadable => r = s

\* An open connection belongs to a listed runtime or to one the handler is
\* just closing; after the drop of an environment whose new() connected a
\* device nothing is open but what an abort left (Drop, 334-374).
NoConnectionLeaks ==
  /\ up \subseteq connected \cup (IF handler.at = "leaving" THEN {handler.rt} ELSE {})
  /\ mode = "dropped" /\ cached => up = {}

InFlight == ToSet(eventq) \cup (IF handler.at = "send" THEN {handler.event} ELSE {})
                         \cup (IF handler.at = "leaving" THEN {Left(handler.rt)} ELSE {})
EverListed == {e.rt : e \in {x \in told \cup unsent \cup InFlight : x.kind = "arrived"}}

\* A listed runtime was announced or is about to be, and one that was
\* announced and is not listed any more was reported as left or is about to
\* be; only an abort loses a report, a full channel never does.
EveryChangeReported ==
  /\ connected \subseteq EverListed
  /\ \A r \in EverListed \ connected : Left(r) \in told \cup unsent \cup InFlight

\* The application is told that a runtime arrived before it is told that it
\* left (environment.rs, lines 26-29): one task sends both, and waits for room.
ArrivedBeforeLeft ==
  \A e \in told : e.kind = "left" => Arrived(e.rt) \in told

\* What the application can count on of the reports: all of them, in order.
ReportedInOrder == EveryChangeReported /\ ArrivedBeforeLeft

Serves(r) == r \in connected \cap up /\ Present(r.device)

\* Nothing is under way: no news, no change of the ports, no event in hand.
Settled == mode = "on" /\ pending = <<>> /\ deviceq = <<>> /\ handler = Idle /\ known = Ports

\* Once all is settled the list is current, however the two backends' reports
\* were interleaved: every runtime is of a device that is there, and a device
\* that is there has one that serves it; with the exceptions named below.
SettledListIsCurrent ==
  Settled =>
    /\ \A r \in connected : r.device.dev \notin unseen => Present(r.device)
    /\ \A d \in plugged \ (unseen \cup refused) :
         listed[d] < MaxListed => \E r \in connected : r.device.dev = d /\ Serves(r)

\* While discovery runs, a device that stays plugged in gets a runtime that
\* serves it, and one that stays away loses its runtime: unless a report of it
\* was lost or a change went unnoticed or, for the first, opening it failed.
ListFollowsDevices ==
  \A d \in Devices :
    /\ <>[](mode = "on" /\ d \in plugged /\ d \notin unseen \cup refused /\ listed[d] < MaxListed)
         => <>[](\E r \in connected : r.device.dev = d /\ Serves(r))
    /\ <>[](mode = "on" /\ d \notin plugged /\ d \notin unseen)
         => <>[](\A r \in connected : r.device.dev # d)
================================================================================
