----------------------------- MODULE FirmwareUpdate ----------------------------
(***************************************************************************)
(* update_remote_host (update.rs): the boards behind the serial ports are  *)
(* grouped by serial number and asked who they are, the user picks one,    *)
(* its firmware is a local file or what the firmware service sends, it is  *)
(* flashed over a port opened by the name seen at the start, and the host  *)
(* is looked for until a deadline.  update_device is the same from         *)
(* FetchManifest on, for a version the caller names.                       *)
(*                                                                         *)
(* A board reports itself as its host identifier.  A socket is named after *)
(* the board that was in it when the ports were listed; boards may be      *)
(* moved afterwards.                                                       *)
(***************************************************************************)
EXTENDS Naturals, Sequences, Functions

CONSTANTS
  Boards,
  NoBoard,       \* nil identifier, no serial number, no board
  MaxPorts,      \* bound on the ports listed
  MaxPayloads,   \* bound on the payloads of a version
  MaxRounds      \* bound on the verification rounds before the deadline

ASSUME FirmwareUpdateAssumption ==
  NoBoard \notin Boards /\ MaxPorts \in Nat /\ MaxPayloads \in Nat \ {0} /\ MaxRounds \in Nat

VARIABLES
  stage,       \* where the update is, or how it ended
  firmware,    \* [Boards -> what each board holds]
  inSocket,    \* [sockets -> the board in each]
  matches,     \* the ports listed and not yet grouped
  targets,     \* the EP01UpdateTargets found
  asked,       \* how many of them were asked for their host
  chosen,      \* the target selected
  wanted,      \* how many payloads the chosen version has
  image,       \* what will be flashed: the payloads so far, or a local file
  rounds,      \* verification rounds
  answering,   \* history: boards that answered in the last round
  flashed      \* history: the board written to

updateVars ==
  <<stage, firmware, inSocket, matches, targets, asked, chosen, wanted, image, rounds,
    answering, flashed>>
boardVars == <<firmware, inSocket>>
listVars == <<matches, targets, asked>>

Port == [socket : Boards, serial : Boards \cup {NoBoard}]
Target == [ports : Seq(Port), host : Boards \cup {NoBoard}]
Payload == [of : Boards \cup {NoBoard}, data : {"sent", "altered", "cut", "file"}]
Nothing == [ports |-> <<>>, host |-> NoBoard]

Ended == {"aborted", "error", "verified"}

UpdateTypeOK ==
  /\ stage \in {"start", "attached", "select", "resolve", "fetch", "flash",
                "write", "reset", "verify"} \cup Ended
  /\ firmware \in [Boards -> {"old", "broken", "torn", "new", "dud"}]
  /\ inSocket \in [Boards -> Boards]
  /\ matches \in Seq(Port) /\ targets \in Seq(Target) /\ asked \in 0 .. Len(targets)
  /\ chosen \in Target
  /\ wanted \in 0 .. MaxPayloads
  /\ image \in Seq(Payload) /\ Len(image) <= MaxPayloads
  /\ rounds \in 0 .. MaxRounds
  /\ answering \subseteq Boards /\ flashed \in Boards \cup {NoBoard}

UpdateInit ==
  /\ stage = "start"
  /\ firmware = [b \in Boards |-> "old"]
  /\ inSocket = [b \in Boards |-> b]
  /\ matches = <<>> /\ targets = <<>> /\ asked = 0 /\ chosen = Nothing
  /\ wanted = 0 /\ image = <<>>
  /\ rounds = 0 /\ answering = {} /\ flashed = NoBoard

Running(b) == firmware[b] \in {"old", "new"}

(***************************************************************************)
(* The boards                                                              *)
(***************************************************************************)

\* Firmware that stops answering, before the tool is started.
Break(b) ==
  /\ stage = "start" /\ firmware[b] = "old"
  /\ firmware' = [firmware EXCEPT ![b] = "broken"]
  /\ UNCHANGED <<stage, inSocket, listVars, chosen, wanted, image, rounds, answering, flashed>>

\* Two boards change sockets, once.
Replug(a, b) ==
  /\ stage \notin {"start"} \cup Ended
  /\ a # b /\ inSocket = [c \in Boards |-> c]
  /\ inSocket' = [inSocket EXCEPT ![a] = inSocket[b], ![b] = inSocket[a]]
  /\ UNCHANGED <<stage, firmware, listVars, chosen, wanted, image, rounds, answering, flashed>>

(***************************************************************************)
(* EP01UpdateTarget::attached_raw and attached                             *)
(***************************************************************************)

\* Mutant: a port without a serial number is kept.
EverySerial(p) == TRUE

HasSerial(p) == p.serial # NoBoard

AddPort(found, p) ==
  LET same(i) == \E q \in Range(found[i].ports) : q.serial = p.serial IN
    CASE ~HasSerial(p) -> found
      [] HasSerial(p) /\ \E i \in DOMAIN found : same(i)
           -> LET i == CHOOSE i \in DOMAIN found : same(i)
              IN [found EXCEPT ![i].ports = Append(@, p)]
      [] OTHER -> Append(found, [ports |-> <<p>>, host |-> NoBoard])

\* A board has a serial number or none, and any number of ports.
Listings ==
  {s \in UNION {[1 .. n -> Port] : n \in 0 .. MaxPorts} : \E B \in SUBSET Boards :
     \A i \in DOMAIN s : s[i].serial = IF s[i].socket \in B THEN s[i].socket ELSE NoBoard}

\* attached_ports, after the driver of the ports was kicked.
ListPorts ==
  /\ stage = "start"
  /\ matches' \in Listings
  /\ stage' = "attached"
  /\ UNCHANGED <<boardVars, targets, asked, chosen, wanted, image, rounds, answering, flashed>>

GroupPort ==
  /\ matches # <<>>
  /\ targets' = AddPort(targets, Head(matches))
  /\ matches' = Tail(matches)
  /\ UNCHANGED <<stage, boardVars, asked, chosen, wanted, image, rounds, answering, flashed>>

\* Each target is asked over its first port; one that cannot be opened or
\* does not answer within a second keeps the nil identifier.
AskTarget ==
  LET i == asked + 1
      b == inSocket[targets[i].ports[1].socket]
  IN /\ stage = "attached" /\ matches = <<>> /\ asked < Len(targets)
     /\ \E host \in {NoBoard, b} :
          /\ host = NoBoard \/ Running(b)
          /\ targets' = [targets EXCEPT ![i].host = host]
     /\ asked' = i
     /\ UNCHANGED <<stage, boardVars, matches, chosen, wanted, image, rounds, answering, flashed>>

(***************************************************************************)
(* update_remote_host up to the flash                                      *)
(***************************************************************************)

\* Without --force an unresponsive board needs a y.
Confirm ==
  /\ stage = "attached" /\ matches = <<>> /\ asked = Len(targets)
  /\ \/ stage' = "select"
     \/ stage' = "aborted" /\ \E i \in DOMAIN targets : targets[i].host = NoBoard
  /\ UNCHANGED <<boardVars, listVars, chosen, wanted, image, rounds, answering, flashed>>

Select ==
  /\ stage = "select"
  /\ \/ stage' = "error" /\ UNCHANGED chosen     \* no board, or no such number
     \/ stage' = "resolve" /\ \E i \in DOMAIN targets : chosen' = targets[i]
  /\ UNCHANGED <<boardVars, listVars, wanted, image, rounds, answering, flashed>>

UseLocalFile ==
  /\ stage = "resolve"
  /\ image' = <<[of |-> NoBoard, data |-> "file"]>>
  /\ stage' = "flash"
  /\ UNCHANGED <<boardVars, listVars, chosen, wanted, rounds, answering, flashed>>

\* The manifest of the host, and one of its versions that parse.
FetchManifest ==
  /\ stage = "resolve"
  /\ wanted' \in 0 .. MaxPayloads
  /\ stage' = "fetch"
  /\ UNCHANGED <<boardVars, listVars, chosen, image, rounds, answering, flashed>>

Accepts(data) == data # "cut" /\ data # "altered"

Download ==
  /\ stage = "fetch" /\ Len(image) < wanted
  /\ \E data \in {"sent", "altered", "cut"} :
       IF Accepts(data)
       THEN /\ image' = Append(image, [of |-> chosen.host, data |-> data])
            /\ UNCHANGED stage
       ELSE stage' = "error" /\ UNCHANGED image
  /\ UNCHANGED <<boardVars, listVars, chosen, wanted, rounds, answering, flashed>>

Downloaded ==
  /\ stage = "fetch" /\ Len(image) = wanted
  /\ stage' = "flash"
  /\ UNCHANGED <<boardVars, listVars, chosen, wanted, image, rounds, answering, flashed>>

\* No such file, no manifest, no version, a wrong selection, a failed request.
ResolveFails ==
  /\ stage \in {"resolve", "fetch"}
  /\ stage' = "error"
  /\ UNCHANGED <<boardVars, listVars, chosen, wanted, image, rounds, answering, flashed>>

(***************************************************************************)
(* flash_payloads                                                          *)
(***************************************************************************)

\* A version without payloads is flashed without touching the board.
FlashNothing ==
  /\ stage = "flash" /\ image = <<>>
  /\ stage' = "verify"
  /\ UNCHANGED <<boardVars, listVars, chosen, wanted, image, rounds, answering, flashed>>

\* preferred_port is the board's first by name, whichever was asked before.
StartFlash ==
  /\ stage = "flash" /\ image # <<>>
  /\ \E p \in Range(chosen.ports) : flashed' = inSocket[p.socket]
  /\ firmware' = [firmware EXCEPT ![flashed'] = "torn"]
  /\ stage' = "write"
  /\ UNCHANGED <<inSocket, listVars, chosen, wanted, image, rounds, answering>>

\* What was written runs, or does not run although it was written as it was
\* sent, or is not what the board boots: the old firmware runs on.
WriteFlash ==
  /\ stage = "write"
  /\ \E fw \in {"new", "dud", "old"} : firmware' = [firmware EXCEPT ![flashed] = fw]
  /\ stage' = "reset"
  /\ UNCHANGED <<inSocket, listVars, chosen, wanted, image, rounds, answering, flashed>>

Reset ==
  /\ stage = "reset"
  /\ stage' = "verify"
  /\ UNCHANGED <<boardVars, listVars, chosen, wanted, image, rounds, answering, flashed>>

\* The port does not open, the write is interrupted, the reset fails.
FlashFails ==
  /\ stage \in {"flash", "write", "reset"}
  /\ stage' = "error"
  /\ UNCHANGED <<boardVars, listVars, chosen, wanted, image, rounds, answering, flashed>>

(***************************************************************************)
(* verify_updated_host                                                     *)
(***************************************************************************)

\* Mutant: any host will do.
AnyAnswers(heard) == heard # {}

\* The identifier is compared, the version is not.
Answers(heard) == chosen.host \in heard

\* A fresh UsbEnvironment, every runtime asked for its host; at least one
\* round, and the deadline is looked at after each.
VerifyRound ==
  /\ stage = "verify"
  /\ \E heard \in SUBSET {b \in Boards : Running(b)} :
       /\ answering' = heard
       /\ IF Answers(heard) THEN stage' = "verified" /\ UNCHANGED rounds
          ELSE \/ stage' = "error" /\ UNCHANGED rounds
               \/ rounds < MaxRounds /\ rounds' = rounds + 1 /\ UNCHANGED stage
  /\ UNCHANGED <<boardVars, listVars, chosen, wanted, image, flashed>>

UpdateNext ==
  \/ \E b \in Boards : Break(b)
  \/ \E a, b \in Boards : Replug(a, b)
  \/ ListPorts \/ GroupPort \/ AskTarget \/ Confirm \/ Select
  \/ UseLocalFile \/ FetchManifest \/ Download \/ Downloaded \/ ResolveFails
  \/ FlashNothing \/ StartFlash \/ WriteFlash \/ Reset \/ FlashFails
  \/ VerifyRound

UpdateSpec == UpdateInit /\ [][UpdateNext]_updateVars

(***************************************************************************)
(* Properties                                                              *)
(***************************************************************************)

\* What is written to a board is the user's file, or all payloads of the
\* version, made for the host that was shown and exactly as the manifest
\* describes them; and unless boards were moved, the board is the one that gave
\* that identifier, over whichever of its ports it is flashed (attached_raw,
\* download_firmware_payloads and flash_payloads, 123-165, 428-496 and 251-338).
FlashesWhatWasChosen ==
  flashed # NoBoard =>
    /\ \/ image = <<[of |-> NoBoard, data |-> "file"]>>
       \/ /\ Len(image) = wanted
          /\ \A p \in Range(image) : p = [of |-> chosen.host, data |-> "sent"]
    /\ inSocket = [b \in Boards |-> b] =>
         \A p \in Range(chosen.ports) : p.socket = flashed /\ chosen.host \in {flashed, NoBoard}

\* "Update verified" means that the very host that was selected, and that
\* had answered before, answers again: an unresponsive board is never verified.
\* Unless boards were moved it is the board that was flashed, and what it holds
\* runs; which firmware that is, is not known (verify_updated_host, 367-400).
VerifiedMeansFlashed ==
  stage = "verified" =>
    /\ chosen.host # NoBoard /\ chosen.host \in answering
    /\ image # <<>> /\ inSocket = [b \in Boards |-> b] =>
         flashed = chosen.host /\ Running(flashed)
================================================================================
