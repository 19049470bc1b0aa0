----------------------------- MODULE MdnsDiscovery -----------------------------
(***************************************************************************)
(* discover (wifi.rs): what the mDNS answers that arrive until a deadline  *)
(* say about the devices of the service.  Responders answer with packets   *)
(* of PTR, SRV, TXT and A records, all of them or some; packets are lost,  *)
(* duplicated by several interfaces and arrive in any order, and a device  *)
(* may change its address meanwhile.                                       *)
(*                                                                         *)
(* An instance stands for the name of a service instance as every record   *)
(* spells it.  A packet that does not parse to its end changes nothing and *)
(* is not modelled.                                                        *)
(***************************************************************************)
EXTENDS Naturals, FiniteSets

CONSTANTS
  Instances,
  HostNames,
  HostNameOf,   \* [Instances -> HostNames]: the target of the SRV record
  TxtPort,      \* instances whose TXT record repeats the port
  Paired,       \* instances whose TXT record names the protocol and the model
  Addresses,
  Unknown       \* no host name, no address, no port

ASSUME MdnsDiscoveryAssumption ==
  /\ HostNameOf \in [Instances -> HostNames]
  /\ TxtPort \subseteq Instances /\ Paired \subseteq Instances
  /\ Unknown \notin Addresses \cup HostNames
  /\ Addresses # {}

VARIABLES
  devices,     \* [the instances found -> what is known of each]
  searching,   \* the deadline has not passed
  held,        \* [HostNames -> the addresses each has had, an answer with any
               \*  of which may arrive, early, late, again or never]
  latest,      \* history: [HostNames -> the address in the last A record seen]
  resolved     \* history: instances with an A record in or after the last SRV

mdnsVars == <<devices, searching, held, latest, resolved>>

\* A packet: ptr, srv and txt are the instances with such a record, a holds
\* host names with addresses.
Default == [host |-> Unknown, address |-> Unknown, port |-> Unknown, txt |-> FALSE]

MdnsTypeOK ==
  /\ DOMAIN devices \subseteq Instances
  /\ \A i \in DOMAIN devices :
       devices[i] \in [host : {Unknown, HostNameOf[i]}, address : Addresses \cup {Unknown},
                       port : {Unknown, i}, txt : BOOLEAN]
  /\ searching \in BOOLEAN
  /\ held \in [HostNames -> SUBSET Addresses]
  /\ latest \in [HostNames -> Addresses \cup {Unknown}] /\ resolved \subseteq DOMAIN devices

MdnsInit ==
  /\ devices = [i \in {} |-> Default]
  /\ searching = TRUE
  /\ held = [h \in HostNames |-> {CHOOSE a \in Addresses : TRUE}]
  /\ latest = [h \in HostNames |-> Unknown] /\ resolved = {}

(***************************************************************************)
(* collect_mdns_devices                                                    *)
(***************************************************************************)

AddressIn(packet, h) ==
  IF \E a \in Addresses : <<h, a>> \in packet.a
  THEN CHOOSE a \in Addresses : <<h, a>> \in packet.a ELSE Unknown

\* A port is written as the name of its instance.  The SRV record's address
\* is the one its own packet gives, or none; the TXT record's port wins.
WithRecords(d, i, packet) ==
  LET srv == IF i \notin packet.srv THEN d
             ELSE [d EXCEPT !.host = HostNameOf[i], !.port = i,
                            !.address = AddressIn(packet, HostNameOf[i])]
  IN IF i \notin packet.txt THEN srv
     ELSE [srv EXCEPT !.txt = TRUE, !.port = IF i \in TxtPort THEN i ELSE @]

\* Mutant: an address already known is kept.
RefreshesIfUnknown(d, packet) == d.address = Unknown /\ AddressIn(packet, d.host) # Unknown

Refreshes(d, packet) == AddressIn(packet, d.host) # Unknown

WithAddress(d, packet) ==
  IF Refreshes(d, packet) THEN [d EXCEPT !.address = AddressIn(packet, d.host)] ELSE d

Collected(packet) ==
  LET named == packet.ptr \cup packet.srv \cup packet.txt
      entry(i) == IF i \in DOMAIN devices THEN devices[i] ELSE Default
      updated(i) == IF i \in named THEN WithRecords(entry(i), i, packet) ELSE entry(i)
  IN [i \in DOMAIN devices \cup named |-> WithAddress(updated(i), packet)]

(***************************************************************************)
(* Responders and the search                                               *)
(***************************************************************************)

\* An answer of one responder: some of the records of its instance.
AnswersOf(i) ==
  {[ptr |-> ptr, srv |-> srv, txt |-> txt, a |-> a] :
     ptr \in SUBSET {i}, srv \in SUBSET {i}, txt \in SUBSET {i},
     a \in {{}} \cup {{<<HostNameOf[i], x>>} : x \in held[HostNameOf[i]]}}

ChangeAddress(h) ==
  /\ searching
  /\ \E a \in Addresses \ held[h] : held' = [held EXCEPT ![h] = @ \cup {a}]
  /\ UNCHANGED <<devices, searching, latest, resolved>>

Receive ==
  /\ searching
  /\ \E packet \in UNION {AnswersOf(i) : i \in Instances} :
       LET has(h) == AddressIn(packet, h) # Unknown IN
         /\ devices' = Collected(packet)
         /\ latest' = [h \in HostNames |-> IF has(h) THEN AddressIn(packet, h) ELSE latest[h]]
         /\ resolved' = {i \in DOMAIN devices' :
              \/ devices'[i].host # Unknown /\ has(devices'[i].host)
              \/ i \in resolved /\ i \notin packet.srv}
  /\ UNCHANGED <<searching, held>>

\* The receive tasks are aborted; what they hold is dropped.
Deadline ==
  /\ searching
  /\ searching' = FALSE
  /\ UNCHANGED <<devices, held, latest, resolved>>

MdnsNext ==
  \/ \E h \in HostNames : ChangeAddress(h)
  \/ Receive \/ Deadline

MdnsSpec == MdnsInit /\ [][MdnsNext]_mdnsVars

(***************************************************************************)
(* Properties                                                              *)
(***************************************************************************)

\* endpoint(): host or address with a port, 0 for WIFI_PORT.
Endpoint(d) == IF d.address # Unknown THEN <<d.address, d.port>> ELSE <<d.host, d.port>>

\* is_token_generation_candidate.
Candidates ==
  {i \in DOMAIN devices : Endpoint(devices[i])[1] # Unknown /\ devices[i].txt /\ i \in Paired}

\* Whatever is lost, repeated or reordered, a device the search returns for
\* pairing is reached by the last address seen for its host, if one came with
\* or after its SRV record, and by its name otherwise: an address that was
\* superseded is never used (collect_mdns_devices, 1480-1572).
EndpointsAreLatest ==
  \A i \in Candidates :
    Endpoint(devices[i]) =
      <<IF i \in resolved THEN latest[devices[i].host] ELSE devices[i].host, i>>
================================================================================
