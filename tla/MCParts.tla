-------------------------------- MODULE MCParts --------------------------------
(***************************************************************************)
(* The parts of the library that share no state, checked in one run: the   *)
(* initial state chooses a part, the others stay where they begin.         *)
(***************************************************************************)
EXTENDS MessageStream, WifiConnection, TokenProvisioning, FirmwareUpdate,
        RemoteResources, FixtureTransition, MdnsDiscovery, UsbEnvironment, TLC

VARIABLE part

\* WifiConnection: a token of host h, whose key another device has too.
MCToken == [host |-> "h", key |-> "k"]
MCKeysOf == [h |-> {"k"}, o |-> {"k"}]

\* RemoteResources: one fixture, two sources, three emitters.
MCPartsOf ==
  ("h" :> {"f1"}) @@ ("f1" :> {"s1", "s2"}) @@ ("s1" :> {"e1", "e2"}) @@ ("s2" :> {"e3"})

\* MdnsDiscovery: two services of one host name and one of another.
MCHostNameOf == ("i1" :> "n1") @@ ("i2" :> "n1") @@ ("i3" :> "n2")

PartsInit ==
  /\ part \in {"stream", "link", "token", "update", "resource", "transition", "mdns", "usb"}
  /\ StreamInit /\ LinkInit /\ TokenInit /\ UpdateInit
  /\ ResourceInit /\ (spectral => part = "resource")
  /\ TransitionInit /\ MdnsInit
  /\ UsbInit /\ (plugged # {} => part = "usb")

StreamStep ==
  /\ part = "stream" /\ StreamNext
  /\ UNCHANGED <<part, linkVars, tokenVars, updateVars,
                 resourceVars, transitionVars, mdnsVars, usbVars>>

LinkStep ==
  /\ part = "link" /\ LinkNext
  /\ UNCHANGED <<part, streamVars, tokenVars, updateVars,
                 resourceVars, transitionVars, mdnsVars, usbVars>>

TokenStep ==
  /\ part = "token" /\ TokenNext
  /\ UNCHANGED <<part, streamVars, linkVars, updateVars,
                 resourceVars, transitionVars, mdnsVars, usbVars>>

UpdateStep ==
  /\ part = "update" /\ UpdateNext
  /\ UNCHANGED <<part, streamVars, linkVars, tokenVars,
                 resourceVars, transitionVars, mdnsVars, usbVars>>

ResourceStep ==
  /\ part = "resource" /\ ResourceNext
  /\ UNCHANGED <<part, streamVars, linkVars, tokenVars,
                 updateVars, transitionVars, mdnsVars, usbVars>>

TransitionStep ==
  /\ part = "transition" /\ TransitionNext
  /\ UNCHANGED <<part, streamVars, linkVars, tokenVars,
                 updateVars, resourceVars, mdnsVars, usbVars>>

MdnsStep ==
  /\ part = "mdns" /\ MdnsNext
  /\ UNCHANGED <<part, streamVars, linkVars, tokenVars,
                 updateVars, resourceVars, transitionVars, usbVars>>

UsbStep ==
  /\ part = "usb" /\ UsbNext
  /\ UNCHANGED <<part, streamVars, linkVars, tokenVars,
                 updateVars, resourceVars, transitionVars, mdnsVars>>

PartsNext ==
  \/ StreamStep \/ LinkStep \/ TokenStep \/ UpdateStep
  \/ ResourceStep \/ TransitionStep \/ MdnsStep \/ UsbStep

partsVars == <<part, streamVars, linkVars, tokenVars, updateVars, resourceVars,
               transitionVars, mdnsVars, usbVars>>

PartsSpec == PartsInit /\ [][PartsNext]_partsVars

\* Only UsbEnvironment has a liveness property; what it assumes is stated there.
PartsFairSpec == PartsSpec /\ UsbFairness

\* The types and bounds of every part, among them the capacities of the
\* frame buffer (serialization.rs) and of a spectral download (emitter.rs).
TypesOK ==
  /\ StreamTypeOK /\ LinkTypeOK /\ TokenTypeOK /\ UpdateTypeOK
  /\ ResourceTypeOK /\ TransitionTypeOK /\ MdnsTypeOK /\ UsbTypeOK
================================================================================
