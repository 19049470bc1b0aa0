---------------------------- MODULE WifiConnection ----------------------------
(***************************************************************************)
(* WifiConnection (wifi.rs): the handshake that fills the connection slot, *)
(* and the sends that encrypt under the noise lock and write under the     *)
(* writer lock of the connection they cloned, which a disconnect may have  *)
(* replaced meanwhile.  Any of these futures may be dropped at an await.   *)
(* Concurrent connects and disconnects are RuntimeLifecycle's subject;     *)
(* here one task connects and disconnects while others send.               *)
(*                                                                         *)
(* A frame carries the nonce it was encrypted with; the peer decrypts with *)
(* a counter of its own and refuses every other nonce.                     *)
(***************************************************************************)
EXTENDS Naturals, Sequences

CONSTANTS
  Sends,           \* send_message calls
  Peers,           \* devices that may answer at the endpoint
  Token,           \* [host, key]: what from_endpoint was given
  KeysOf,          \* [Peers -> keys each has handed out]
  MaxOpened,       \* bound on the connections made
  MaxWireFrames    \* bound on the frames encrypted for a connection

ASSUME WifiConnectionAssumption ==
  /\ Token.host \in Peers
  /\ MaxOpened \in Nat /\ MaxWireFrames \in Nat

Conns == 1 .. MaxOpened

VARIABLES
  slot,        \* connection: the connection in the slot, 0 if there is none
  rx,          \* message_rx: the connection it receives from, 0 if there is none
  op,          \* where connect or disconnect is, and with which connection
  peer,        \* the devices at the other end of the connections made
  nonce,       \* [Conns -> the next nonce of its TransportState]
  send,        \* [Sends -> where each send is, its connection and nonce]
  wire,        \* [Conns -> the pieces of frames written to it]
  gap,         \* history: connections for which a send was dropped or failed
  overlapped   \* history: connections for which two sends were encrypted at once

linkVars == <<slot, rx, op, peer, nonce, send, wire, gap, overlapped>>
opVars == <<slot, rx, op, peer>>
sendVars == <<nonce, send, wire, gap, overlapped>>

Piece == [nonce : Nat, half : {"first", "rest"}]

LinkTypeOK ==
  /\ slot \in 0 .. Len(peer) /\ rx \in 0 .. Len(peer)
  /\ op \in [at : {"idle", "handshake", "fill", "clear"}, with : Peers \cup {Token.host}]
  /\ peer \in Seq(Peers) /\ Len(peer) <= MaxOpened
  /\ nonce \in [Conns -> 0 .. MaxWireFrames]
  /\ send \in [Sends -> [at : {"idle", "encrypt", "encrypted", "write"},
                         conn : 0 .. MaxOpened, nonce : 0 .. MaxWireFrames]]
  /\ wire \in [Conns -> Seq(Piece)]
  /\ gap \subseteq Conns /\ overlapped \subseteq Conns

Quiet == [at |-> "idle", with |-> Token.host]
NoSend == [at |-> "idle", conn |-> 0, nonce |-> 0]

LinkInit ==
  /\ slot = 0 /\ rx = 0 /\ op = Quiet /\ peer = <<>>
  /\ nonce = [c \in Conns |-> 0]
  /\ send = [s \in Sends |-> NoSend]
  /\ wire = [c \in Conns |-> <<>>]
  /\ gap = {} /\ overlapped = {}

(***************************************************************************)
(* connect and disconnect                                                  *)
(***************************************************************************)

\* Whatever device has the address now answers.  connect keeps the slot's
\* write lock until the handshake ends.  (With a filled slot it returns Ok at
\* once and changes nothing, even if DropConnect has left rx empty.)
Connect ==
  /\ op = Quiet /\ slot = 0 /\ Len(peer) < MaxOpened
  /\ \E p \in Peers : op' = [at |-> "handshake", with |-> p]
  /\ UNCHANGED <<slot, rx, peer, sendVars>>

\* Mutant: only the key counts, not the host in the prologue.
KeyIsKnown(p) == Token.key \in KeysOf[p]

\* The pre-shared key must be known and both prologues name the same host.
HandshakeSucceeds(p) == Token.key \in KeysOf[p] /\ p = Token.host

Authenticate ==
  /\ op.at = "handshake" /\ HandshakeSucceeds(op.with)
  /\ peer' = Append(peer, op.with)
  /\ slot' = Len(peer')
  /\ op' = [op EXCEPT !.at = "fill"]
  /\ UNCHANGED <<rx, sendVars>>

\* An error response, a frame that does not parse, a closed stream; or the
\* caller gave up: nothing was stored.
ConnectEnds ==
  /\ op.at = "handshake"
  /\ op' = Quiet
  /\ UNCHANGED <<slot, rx, peer, sendVars>>

FillRx ==
  /\ op.at = "fill"
  /\ rx' = slot
  /\ op' = Quiet
  /\ UNCHANGED <<slot, peer, sendVars>>

\* connect dropped while it waits for the message_rx lock.
DropConnect ==
  /\ op.at = "fill"
  /\ op' = Quiet
  /\ UNCHANGED <<slot, rx, peer, sendVars>>

\* The slot is emptied and the read task aborted.
Disconnect ==
  /\ op = Quiet /\ slot # 0
  /\ slot' = 0
  /\ op' = [op EXCEPT !.at = "clear"]
  /\ UNCHANGED <<rx, peer, sendVars>>

\* message_rx is emptied, unless disconnect is dropped while it waits.
DisconnectEnds ==
  /\ op.at = "clear"
  /\ rx' \in {0, rx}
  /\ op' = Quiet
  /\ UNCHANGED <<slot, peer, sendVars>>

(***************************************************************************)
(* send_message                                                            *)
(***************************************************************************)

Frames(c) == nonce[c] < MaxWireFrames

\* Writer and noise are cloned; with an empty slot the send fails.
BeginSend(s) ==
  /\ send[s] = NoSend /\ slot # 0 /\ op.at # "handshake"
  /\ send' = [send EXCEPT ![s] = [at |-> "encrypt", conn |-> slot, nonce |-> 0]]
  /\ UNCHANGED <<nonce, wire, gap, overlapped, opVars>>

Encrypt(s) ==
  LET c == send[s].conn IN
    /\ send[s].at = "encrypt" /\ Frames(c)
    /\ send' = [send EXCEPT ![s].at = "encrypted", ![s].nonce = nonce[c]]
    /\ nonce' = [nonce EXCEPT ![c] = @ + 1]
    /\ overlapped' = IF \E t \in Sends : send[t].at = "encrypted" /\ send[t].conn = c
                     THEN overlapped \cup {c} ELSE overlapped
    /\ UNCHANGED <<wire, gap, opVars>>

\* Mutant: no writer lock.
WriterAlways(s) == TRUE

WriterFree(s) == \A t \in Sends : ~(send[t].at = "write" /\ send[t].conn = send[s].conn)

Written(s, half) ==
  [wire EXCEPT ![send[s].conn] = Append(@, [nonce |-> send[s].nonce, half |-> half])]

BeginWrite(s) ==
  /\ send[s].at = "encrypted" /\ WriterFree(s)
  /\ wire' = Written(s, "first")
  /\ send' = [send EXCEPT ![s].at = "write"]
  /\ UNCHANGED <<nonce, gap, overlapped, opVars>>

EndWrite(s) ==
  /\ send[s].at = "write"
  /\ wire' = Written(s, "rest")
  /\ send' = [send EXCEPT ![s] = NoSend]
  /\ UNCHANGED <<nonce, gap, overlapped, opVars>>

\* A dropped or failed send: its nonce is spent, its frame unwritten or torn.
DropSend(s) ==
  /\ send[s].at # "idle"
  /\ send' = [send EXCEPT ![s] = NoSend]
  /\ gap' = IF send[s].at = "encrypt" THEN gap ELSE gap \cup {send[s].conn}
  /\ UNCHANGED <<nonce, wire, overlapped, opVars>>

LinkNext ==
  \/ Connect \/ Authenticate \/ ConnectEnds \/ FillRx \/ DropConnect
  \/ Disconnect \/ DisconnectEnds
  \/ \E s \in Sends : BeginSend(s) \/ Encrypt(s) \/ BeginWrite(s) \/ EndWrite(s) \/ DropSend(s)

LinkSpec == LinkInit /\ [][LinkNext]_linkVars

(***************************************************************************)
(* Properties                                                              *)
(***************************************************************************)

\* What the peer can decrypt: whole frames, in the order of their nonces.
InOrder(c) ==
  \A i \in DOMAIN wire[c] :
    wire[c][i] = [nonce |-> (i - 1) \div 2, half |-> IF i % 2 = 1 THEN "first" ELSE "rest"]

\* As long as no send of a connection was dropped past its encryption and no
\* two were encrypted before either had the writer, everything written can be
\* decrypted, across disconnects and reconnects (send_message, 849-873).
DecryptableUnlessOverlapped == \A c \in Conns \ (gap \cup overlapped) : InOrder(c)

\* The claim without the second condition: calls may run concurrently.
ConcurrentSendsDecrypt == \A c \in Conns \ gap : InOrder(c)

\* Whatever is sent goes to the token's host and whatever is received comes
\* from it, across reconnects, dropped futures and sends that still hold an
\* earlier connection, even while another device that knows the key has the
\* address (authenticate, 750-785; connect, 801-832).
OnlyTheTokensHost ==
  /\ \A c \in Conns : wire[c] # <<>> => c <= Len(peer) /\ peer[c] = Token.host
  /\ rx # 0 => peer[rx] = Token.host
================================================================================
