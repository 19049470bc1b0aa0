--------------------------- MODULE TransportProofs -----------------------------
(***************************************************************************)
(* How bytes get from one side to the other.  WiFi: only the token's host  *)
(* is talked to and it can decrypt what it gets, whatever the number of    *)
(* sends, connections, devices and frames.  USB: the parser finds its way  *)
(* back into a damaged line, whatever the length of payloads and frames.   *)
(***************************************************************************)
EXTENDS WifiConnection, MessageStream, FiniteSetTheorems, SequenceTheorems, TLAPS

(***************************************************************************)
(* connect and disconnect                                                  *)
(***************************************************************************)

\* Where connect or disconnect is tells what the slots hold.
SlotInv ==
  /\ op.at = "handshake" => slot = 0 /\ Len(peer) < MaxOpened
  /\ op.at = "clear" => slot = 0
  /\ op.at = "fill" => slot # 0

\* A send under way has a connection.
SendInv == \A s \in Sends : send[s].at # "idle" => send[s].conn \in Conns

LinkInv == LinkTypeOK /\ SlotInv /\ SendInv

SendRecord == [at : {"idle", "encrypt", "encrypted", "write"},
               conn : 0 .. MaxOpened, nonce : 0 .. MaxWireFrames]

\* Nothing is connected at first.
LEMMA LinkStart == LinkInit => LinkInv
<1>. SUFFICES ASSUME LinkInit PROVE LinkInv
  OBVIOUS
<1>1. op \in [at : {"idle", "handshake", "fill", "clear"}, with : Peers \cup {Token.host}]
  BY DEF LinkInit, Quiet
<1>2. NoSend \in SendRecord
  BY WifiConnectionAssumption DEF NoSend, SendRecord
<1>3. send \in [Sends -> SendRecord] /\ nonce \in [Conns -> 0 .. MaxWireFrames]
  BY <1>2, WifiConnectionAssumption DEF LinkInit
<1>4. wire \in [Conns -> Seq(Piece)]
  BY DEF LinkInit
<1>5. peer \in Seq(Peers) /\ Len(peer) = 0 /\ slot = 0 /\ rx = 0
  BY DEF LinkInit
<1>6. LinkTypeOK
  <2>1. 0 \in 0 .. Len(peer) /\ Len(peer) <= MaxOpened
    BY <1>5, WifiConnectionAssumption
  <2>2. gap \subseteq Conns /\ overlapped \subseteq Conns
    BY DEF LinkInit
  <2>. QED  BY <1>1, <1>3, <1>4, <1>5, <2>1, <2>2 DEF LinkTypeOK, SendRecord
<1>7. SlotInv /\ SendInv
  BY DEF LinkInit, SlotInv, SendInv, Quiet, NoSend
<1>. QED  BY <1>6, <1>7 DEF LinkInv

\* The steps of connect and disconnect keep the types and the slots.
LEMMA OpSteps ==
  ASSUME LinkInv,
         \/ Connect \/ Authenticate \/ ConnectEnds
         \/ FillRx \/ DropConnect \/ Disconnect \/ DisconnectEnds
  PROVE  LinkInv'
<1>. USE WifiConnectionAssumption DEF LinkInv, SlotInv, SendInv, Quiet, sendVars, LinkTypeOK
<1>1. CASE Connect
  BY <1>1 DEF Connect
<1>2. CASE Authenticate
  <2>1. /\ op.at = "handshake" /\ op.with \in Peers /\ peer' = Append(peer, op.with)
        /\ slot' = Len(peer') /\ op' = [op EXCEPT !.at = "fill"] /\ UNCHANGED <<rx, sendVars>>
    BY <1>2 DEF Authenticate, HandshakeSucceeds
  <2>2. Len(peer') = Len(peer) + 1 /\ peer' \in Seq(Peers) /\ Len(peer) \in Nat
    BY <2>1
  <2>3. op'.at = "fill" /\ op' \in [at : {"idle", "handshake", "fill", "clear"}, with : Peers \cup {Token.host}]
    BY <2>1
  <2>. HIDE DEF Quiet
  <2>. QED  BY <2>1, <2>2, <2>3
<1>3. CASE ConnectEnds
  BY <1>3 DEF ConnectEnds
<1>4. CASE FillRx
  BY <1>4 DEF FillRx
<1>5. CASE DropConnect
  BY <1>5 DEF DropConnect
<1>6. CASE Disconnect
  <2>1. /\ op.at = "idle" /\ slot' = 0 /\ op' = [op EXCEPT !.at = "clear"]
        /\ UNCHANGED <<rx, peer, sendVars>>
    BY <1>6 DEF Disconnect
  <2>2. op'.at = "clear" /\ op' \in [at : {"idle", "handshake", "fill", "clear"}, with : Peers \cup {Token.host}]
    BY <2>1
  <2>3. slot' \in 0 .. Len(peer')
    BY <2>1
  <2>5. LinkTypeOK'
    BY <2>1, <2>2, <2>3 DEF sendVars
  <2>. QED  BY <2>1, <2>2, <2>5
<1>7. CASE DisconnectEnds
  <2>1. /\ op.at = "clear" /\ rx' \in {0, rx} /\ op' = [at |-> "idle", with |-> Token.host]
        /\ UNCHANGED <<slot, peer, sendVars>>
    BY <1>7 DEF DisconnectEnds
  <2>2. rx' \in 0 .. Len(peer)
    BY <2>1
  <2>. QED  BY <2>1, <2>2
<1>. QED  BY <1>1, <1>2, <1>3, <1>4, <1>5, <1>6, <1>7

\* The steps of a send keep them.
LEMMA SendSteps ==
  ASSUME LinkInv, NEW s \in Sends,
         BeginSend(s) \/ Encrypt(s) \/ BeginWrite(s) \/ EndWrite(s) \/ DropSend(s)
  PROVE  LinkInv'
<1>. USE WifiConnectionAssumption DEF LinkInv, SlotInv, SendInv, opVars, LinkTypeOK
<1>1. CASE BeginSend(s)
  <2>1. slot \in Conns /\ send' = [send EXCEPT ![s] = [at |-> "encrypt", conn |-> slot, nonce |-> 0]]
        /\ UNCHANGED <<nonce, wire, gap, overlapped, opVars>>
    BY <1>1 DEF BeginSend, Conns
  <2>2. [at |-> "encrypt", conn |-> slot, nonce |-> 0] \in SendRecord
    BY <2>1 DEF Conns, SendRecord
  <2>3. send' \in [Sends -> SendRecord]
    BY <2>1, <2>2 DEF SendRecord
  <2>. QED  BY <2>1, <2>3 DEF SendRecord
<1>2. CASE Encrypt(s)
  <2>1. send[s].conn \in Conns /\ nonce[send[s].conn] + 1 \in 0 .. MaxWireFrames
    BY <1>2 DEF Encrypt, Frames
  <2>. QED  BY <1>2, <2>1 DEF Encrypt
<1>3. CASE BeginWrite(s)
  <2>1. send[s].conn \in Conns /\ [nonce |-> send[s].nonce, half |-> "first"] \in Piece
    BY <1>3 DEF BeginWrite, Piece
  <2>. QED  BY <1>3, <2>1 DEF BeginWrite, Written
<1>4. CASE EndWrite(s)
  <2>1. send[s].conn \in Conns /\ [nonce |-> send[s].nonce, half |-> "rest"] \in Piece
    BY <1>4 DEF EndWrite, Piece
  <2>. QED  BY <1>4, <2>1 DEF EndWrite, Written, NoSend
<1>5. CASE DropSend(s)
  BY <1>5 DEF DropSend, NoSend
<1>. QED  BY <1>1, <1>2, <1>3, <1>4, <1>5

\* Every step keeps them.
LEMMA LinkInvariant == LinkInv /\ [LinkNext]_linkVars => LinkInv'
<1>1. LinkInv /\ UNCHANGED linkVars => LinkInv'
  BY DEF LinkInv, LinkTypeOK, SlotInv, SendInv, linkVars
<1>. QED  BY <1>1, OpSteps, SendSteps DEF LinkNext

\* Type correctness of the connection and its sends.
THEOREM LinkTypes == LinkSpec => []LinkTypeOK
<1>1. LinkInv => LinkTypeOK
  BY DEF LinkInv
<1>. QED  BY LinkStart, LinkInvariant, <1>1, PTL DEF LinkSpec

\* Every connection made is with the token's host; what is sent and what is
\* on a wire is a connection's.
HostInv ==
  /\ \A i \in 1 .. Len(peer) : peer[i] = Token.host
  /\ \A s \in Sends : send[s].at # "idle" => send[s].conn <= Len(peer)
  /\ \A c \in Conns : wire[c] # <<>> => c <= Len(peer)

\* connect and disconnect: only a handshake with the token's host succeeds.
LEMMA HostOpSteps ==
  ASSUME LinkInv, HostInv,
         \/ Connect \/ Authenticate \/ ConnectEnds
         \/ FillRx \/ DropConnect \/ Disconnect \/ DisconnectEnds
  PROVE  HostInv'
<1>1. UNCHANGED sendVars
  BY DEF Connect, Authenticate, ConnectEnds, FillRx, DropConnect, Disconnect,
         DisconnectEnds
<1>2. CASE Authenticate
  <2>1. op.with = Token.host /\ peer' = Append(peer, op.with) /\ peer \in Seq(Peers)
    BY <1>2 DEF Authenticate, HandshakeSucceeds, LinkInv, LinkTypeOK
  <2>2. Token.host \in Peers
    BY WifiConnectionAssumption
  <2>3. /\ Len(peer') = Len(peer) + 1 /\ Len(peer) \in Nat
        /\ \A i \in 1 .. Len(peer) : peer'[i] = peer[i]
        /\ peer'[Len(peer) + 1] = Token.host
    BY <2>1, <2>2
  <2>4. \A i \in 1 .. Len(peer') : i \in 1 .. Len(peer) \/ i = Len(peer) + 1
    BY <2>3
  <2>5. \A s \in Sends : send[s].conn \in Nat
    BY WifiConnectionAssumption DEF LinkInv, LinkTypeOK
  <2>6. \A c \in Conns : c \in Nat
    BY DEF Conns
  <2>. QED  BY <1>1, <2>3, <2>4, <2>5, <2>6 DEF HostInv, sendVars
<1>3. CASE ~Authenticate
  <2>1. UNCHANGED peer
    BY <1>3 DEF Connect, ConnectEnds, FillRx, DropConnect, Disconnect, DisconnectEnds
  <2>. QED  BY <1>1, <2>1 DEF HostInv, sendVars
<1>. QED  BY <1>2, <1>3

\* send_message: a send takes the connection in the slot and writes to it.
LEMMA HostSendSteps ==
  ASSUME LinkInv, HostInv, NEW s \in Sends,
         BeginSend(s) \/ Encrypt(s) \/ BeginWrite(s) \/ EndWrite(s) \/ DropSend(s)
  PROVE  HostInv'
<1>1. /\ send \in [Sends -> SendRecord] /\ wire \in [Conns -> Seq(Piece)]
      /\ slot \in 0 .. Len(peer)
  BY DEF LinkInv, LinkTypeOK, SendRecord
<1>2. UNCHANGED peer
  BY DEF BeginSend, Encrypt, BeginWrite, EndWrite, DropSend, opVars
<1>3. CASE BeginSend(s)
  BY <1>1, <1>2, <1>3 DEF BeginSend, HostInv
<1>4. CASE Encrypt(s)
  BY <1>1, <1>2, <1>4 DEF Encrypt, HostInv, SendRecord
<1>5. CASE BeginWrite(s)
  BY <1>1, <1>2, <1>5 DEF BeginWrite, Written, HostInv, SendRecord
<1>6. CASE EndWrite(s)
  BY <1>1, <1>2, <1>6 DEF EndWrite, Written, HostInv, SendRecord, NoSend
<1>7. CASE DropSend(s)
  BY <1>1, <1>2, <1>7 DEF DropSend, HostInv, SendRecord, NoSend
<1>. QED  BY <1>3, <1>4, <1>5, <1>6, <1>7

\* Main result: nothing is sent to and nothing received from any device but the
\* token's host, across reconnects and dropped futures (wifi.rs, 750-882).
THEOREM TalksToTheHost == LinkSpec => []OnlyTheTokensHost
<1>1. LinkInit => HostInv
  BY DEF LinkInit, HostInv, NoSend
<1>2. LinkInv /\ HostInv /\ [LinkNext]_linkVars => HostInv'
  <2>1. HostInv /\ UNCHANGED linkVars => HostInv'
    BY DEF HostInv, linkVars
  <2>. QED  BY <2>1, HostOpSteps, HostSendSteps DEF LinkNext
<1>3. LinkInv /\ HostInv => OnlyTheTokensHost
  <2>. SUFFICES ASSUME LinkInv, HostInv PROVE OnlyTheTokensHost
    OBVIOUS
  <2>1. Len(peer) \in Nat /\ rx \in 0 .. Len(peer)
    BY DEF LinkInv, LinkTypeOK
  <2>2. \A c \in Conns : c \in Nat /\ c >= 1
    BY WifiConnectionAssumption DEF Conns
  <2>3. \A i \in Nat : i >= 1 /\ i <= Len(peer) => peer[i] = Token.host
    BY <2>1 DEF HostInv
  <2>4. ASSUME NEW c \in Conns, wire[c] # <<>>
        PROVE  c <= Len(peer) /\ peer[c] = Token.host
    BY <2>2, <2>3, <2>4 DEF HostInv
  <2>5. rx # 0 => peer[rx] = Token.host
    BY <2>1, <2>3
  <2>. QED  BY <2>4, <2>5 DEF OnlyTheTokensHost
<1>. QED  BY LinkStart, LinkInvariant, <1>1, <1>2, <1>3, PTL DEF LinkSpec

(***************************************************************************)
(* send_message                                                            *)
(***************************************************************************)

\* On a connection of which no send was dropped and no two were encrypted at
\* once: the frames on the wire are the nonces from 0 on, at most one frame is
\* half written and it is the last, at most one is encrypted and not yet
\* written and it is the next, and the counter is past them all.
Encrypted(s, c) == send[s].at = "encrypted" /\ send[s].conn = c
Writing(s, c) == send[s].at = "write" /\ send[s].conn = c
Ahead(c) == IF \E s \in Sends : Encrypted(s, c) THEN 1 ELSE 0

WireInv(c) ==
  /\ InOrder(c)
  /\ \A s, t \in Sends : Encrypted(s, c) /\ Encrypted(t, c) => s = t
  /\ \A s, t \in Sends : Writing(s, c) /\ Writing(t, c) => s = t
  /\ \A s \in Sends : Encrypted(s, c) => send[s].nonce + 1 = nonce[c]
  /\ \A s \in Sends : Writing(s, c) => /\ send[s].nonce + 1 + Ahead(c) = nonce[c]
                                       /\ Len(wire[c]) = 2 * send[s].nonce + 1
  /\ (\A s \in Sends : ~Writing(s, c)) => Len(wire[c]) + 2 * Ahead(c) = 2 * nonce[c]

DecryptInv == LinkInv /\ \A c \in Conns \ (gap \cup overlapped) : WireInv(c)

\* The two halves of frame n are the pieces 2n + 1 and 2n + 2.
LEMMA Halves ==
  ASSUME NEW n \in Nat
  PROVE  /\ (2 * n + 1 - 1) \div 2 = n /\ (2 * n + 1) % 2 = 1
         /\ (2 * n + 2 - 1) \div 2 = n /\ (2 * n + 2) % 2 = 0
OBVIOUS

\* Nothing is on the wire at first.
LEMMA DecryptInit == LinkInit => DecryptInv
<1>. SUFFICES ASSUME LinkInit, NEW c \in Conns PROVE WireInv(c)
  BY LinkStart DEF DecryptInv
<1>. QED  BY DEF LinkInit, WireInv, InOrder, Encrypted, Writing, Ahead, NoSend

\* What a connection's wire, counter and sends are left alone by keeps WireInv.
LEMMA WireUntouched ==
  ASSUME NEW c \in Conns, WireInv(c), wire'[c] = wire[c], nonce'[c] = nonce[c],
         \A s \in Sends : \/ send'[s] = send[s]
                          \/ /\ ~Encrypted(s, c) /\ ~Writing(s, c)
                             /\ ~Encrypted(s, c)' /\ ~Writing(s, c)'
  PROVE  WireInv(c)'
<1>1. \A s \in Sends : /\ Encrypted(s, c)' <=> Encrypted(s, c)
                       /\ Writing(s, c)' <=> Writing(s, c)
                       /\ Encrypted(s, c) \/ Writing(s, c) => send'[s] = send[s]
  BY DEF Encrypted, Writing
<1>2. Ahead(c)' = Ahead(c)
  BY <1>1 DEF Ahead
<1>. QED  BY <1>1, <1>2 DEF WireInv, InOrder

\* What an action of one send does to the others.
LEMMA OneSendMoves ==
  ASSUME LinkInv, NEW s \in Sends,
         BeginSend(s) \/ Encrypt(s) \/ BeginWrite(s) \/ EndWrite(s) \/ DropSend(s)
  PROVE  /\ \A t \in Sends \ {s} : send'[t] = send[t]
         /\ \A c \in Conns \ {send[s].conn} : wire'[c] = wire[c] /\ nonce'[c] = nonce[c]
<1>1. send \in [Sends -> SendRecord] /\ wire \in [Conns -> Seq(Piece)]
      /\ nonce \in [Conns -> 0 .. MaxWireFrames]
  BY DEF LinkInv, LinkTypeOK, SendRecord
<1>2. CASE BeginSend(s)
  BY <1>1, <1>2 DEF BeginSend
<1>3. CASE Encrypt(s)
  BY <1>1, <1>3 DEF Encrypt
<1>4. CASE BeginWrite(s)
  BY <1>1, <1>4 DEF BeginWrite, Written
<1>5. CASE EndWrite(s)
  BY <1>1, <1>5 DEF EndWrite, Written
<1>6. CASE DropSend(s)
  BY <1>1, <1>6 DEF DropSend
<1>. QED  BY <1>2, <1>3, <1>4, <1>5, <1>6

\* The piece that comes next keeps a wire in order.
LEMMA NextPiece ==
  ASSUME NEW w \in Seq(Piece), NEW n \in Nat, NEW half \in {"first", "rest"},
         Len(w) = IF half = "first" THEN 2 * n ELSE 2 * n + 1,
         \A i \in 1 .. Len(w) :
           w[i] = [nonce |-> (i - 1) \div 2, half |-> IF i % 2 = 1 THEN "first" ELSE "rest"]
  PROVE  /\ Len(Append(w, [nonce |-> n, half |-> half])) = Len(w) + 1
         /\ \A i \in DOMAIN Append(w, [nonce |-> n, half |-> half]) :
              Append(w, [nonce |-> n, half |-> half])[i] =
                [nonce |-> (i - 1) \div 2, half |-> IF i % 2 = 1 THEN "first" ELSE "rest"]
<1>. DEFINE e == [nonce |-> n, half |-> half]
<1>1. e \in Piece
  BY DEF Piece
<1>2. /\ Append(w, e) \in Seq(Piece) /\ Len(Append(w, e)) = Len(w) + 1
      /\ \A i \in 1 .. Len(w) : Append(w, e)[i] = w[i]
      /\ Append(w, e)[Len(w) + 1] = e
  BY <1>1
<1>3. DOMAIN Append(w, e) = 1 .. Len(w) + 1
  BY <1>2
<1>4. /\ (Len(w) + 1 - 1) \div 2 = n
      /\ half = IF (Len(w) + 1) % 2 = 1 THEN "first" ELSE "rest"
  <2>1. CASE half = "first"
    <3>1. Len(w) + 1 - 1 = 2 * n + 1 - 1 /\ Len(w) + 1 = 2 * n + 1
      BY <2>1
    <3>. QED  BY <2>1, <3>1, Halves
  <2>2. CASE half = "rest"
    <3>1. Len(w) + 1 - 1 = 2 * n + 2 - 1 /\ Len(w) + 1 = 2 * n + 2
      BY <2>2
    <3>2. (Len(w) + 1) % 2 = 0
      BY <3>1, Halves
    <3>. QED  BY <2>2, <3>1, <3>2, Halves
  <2>. QED  BY <2>1, <2>2
<1>5. ASSUME NEW i \in 1 .. Len(w) + 1
      PROVE  Append(w, e)[i] = [nonce |-> (i - 1) \div 2,
                                half |-> IF i % 2 = 1 THEN "first" ELSE "rest"]
  <2>1. CASE i \in 1 .. Len(w)
    BY <1>2, <2>1
  <2>2. CASE i = Len(w) + 1
    BY <1>2, <1>4, <2>2
  <2>3. i \in 1 .. Len(w) \/ i = Len(w) + 1
    <3>1. PICK m \in Nat : m = Len(w)
      OBVIOUS
    <3>. QED  BY <3>1
  <2>. QED  BY <2>1, <2>2, <2>3
<1>. QED  BY <1>2, <1>3, <1>5

\* The send of another connection.
LEMMA OtherConnection ==
  ASSUME DecryptInv, NEW s \in Sends, Encrypt(s) \/ BeginWrite(s) \/ EndWrite(s),
         NEW c \in Conns \ {send[s].conn}, WireInv(c)
  PROVE  WireInv(c)'
<1>1. /\ \A t \in Sends \ {s} : send'[t] = send[t]
      /\ wire'[c] = wire[c] /\ nonce'[c] = nonce[c]
  BY OneSendMoves DEF DecryptInv
<1>2. send'[s].conn = send[s].conn \/ send'[s].at = "idle"
  BY DEF DecryptInv, LinkInv, LinkTypeOK, Encrypt, BeginWrite, EndWrite, NoSend
<1>. QED  BY <1>1, <1>2, WireUntouched DEF Encrypted, Writing

\* An encryption: no other frame of the connection was waiting for its turn.
LEMMA EncryptKeeps ==
  ASSUME DecryptInv, NEW s \in Sends, Encrypt(s), NEW c \in Conns \ (gap' \cup overlapped')
  PROVE  WireInv(c)'
<1>1. c \notin gap /\ c \notin overlapped
  BY DEF Encrypt
<1>2. WireInv(c)
  BY <1>1 DEF DecryptInv
<1>3. CASE send[s].conn # c
  BY <1>2, <1>3, OtherConnection
<1>4. CASE send[s].conn = c
  <2>1. /\ ~ \E t \in Sends : Encrypted(t, c)
        /\ nonce'[c] = nonce[c] + 1 /\ nonce[c] \in Nat
        /\ send'[s].at = "encrypted" /\ send'[s].conn = c /\ send'[s].nonce = nonce[c]
        /\ send[s].at = "encrypt"
        /\ \A t \in Sends \ {s} : send'[t] = send[t]
        /\ wire'[c] = wire[c] /\ Len(wire[c]) \in Nat
    BY <1>4, WifiConnectionAssumption DEF Encrypt, DecryptInv, LinkInv, LinkTypeOK, Encrypted
  <2>2. \A t \in Sends : Encrypted(t, c)' <=> t = s
    BY <2>1 DEF Encrypted
  <2>3. \A t \in Sends : /\ Writing(t, c)' <=> Writing(t, c)
                         /\ Writing(t, c) => send'[t] = send[t]
    BY <2>1 DEF Writing
  <2>4. Ahead(c) = 0 /\ Ahead(c)' = 1
    BY <2>1, <2>2 DEF Ahead
  <2>5. InOrder(c)'
    BY <1>2, <2>1 DEF WireInv, InOrder
  <2>6. ASSUME NEW t \in Sends, Writing(t, c)
        PROVE  send'[t].nonce + 1 + 1 = nonce'[c] /\ Len(wire'[c]) = 2 * send'[t].nonce + 1
    <3>1. /\ send[t].nonce + 1 + Ahead(c) = nonce[c] /\ Len(wire[c]) = 2 * send[t].nonce + 1
          /\ send'[t] = send[t]
      BY <1>2, <2>3, <2>6 DEF WireInv
    <3>2. send[t].nonce \in Nat
      BY WifiConnectionAssumption DEF DecryptInv, LinkInv, LinkTypeOK
    <3>. QED  BY <2>1, <2>4, <3>1, <3>2
  <2>7. (\A t \in Sends : ~Writing(t, c)) => Len(wire'[c]) + 2 * 1 = 2 * nonce'[c]
    <3>1. (\A t \in Sends : ~Writing(t, c)) => Len(wire[c]) + 2 * Ahead(c) = 2 * nonce[c]
      BY <1>2 DEF WireInv
    <3>. QED  BY <2>1, <2>4, <3>1
  <2>8. \A t, u \in Sends : Writing(t, c) /\ Writing(u, c) => t = u
    BY <1>2 DEF WireInv
  <2>. QED  BY <2>1, <2>2, <2>3, <2>4, <2>5, <2>6, <2>7, <2>8 DEF WireInv
<1>. QED  BY <1>3, <1>4

\* The first half is written: the frame is the next and no other is half
\* written.
LEMMA BeginWriteKeeps ==
  ASSUME DecryptInv, NEW s \in Sends, BeginWrite(s), NEW c \in Conns \ (gap' \cup overlapped')
  PROVE  WireInv(c)'
<1>1. WireInv(c)
  BY DEF BeginWrite, DecryptInv
<1>2. CASE send[s].conn # c
  BY <1>1, <1>2, OtherConnection
<1>3. CASE send[s].conn = c
  <2>1. PICK n \in Nat : n = send[s].nonce
    BY WifiConnectionAssumption DEF DecryptInv, LinkInv, LinkTypeOK
  <2>2. /\ Encrypted(s, c) /\ \A t \in Sends : ~Writing(t, c)
        /\ wire'[c] = Append(wire[c], [nonce |-> n, half |-> "first"])
        /\ send'[s].at = "write" /\ send'[s].conn = c /\ send'[s].nonce = n
        /\ \A t \in Sends \ {s} : send'[t] = send[t]
        /\ nonce'[c] = nonce[c] /\ nonce[c] \in Nat /\ wire[c] \in Seq(Piece)
    BY <1>3, <2>1, WifiConnectionAssumption
       DEF BeginWrite, WriterFree, Written, DecryptInv, LinkInv, LinkTypeOK, Encrypted, Writing
  <2>3. \A t \in Sends : Encrypted(t, c) => t = s
    BY <1>1, <2>2 DEF WireInv
  <2>4. \A t \in Sends : ~Encrypted(t, c)' /\ (Writing(t, c)' <=> t = s)
    BY <2>2, <2>3 DEF Encrypted, Writing
  <2>5. Ahead(c) = 1 /\ Ahead(c)' = 0
    BY <2>2, <2>4 DEF Ahead
  <2>6. n + 1 = nonce[c] /\ Len(wire[c]) + 2 * Ahead(c) = 2 * nonce[c]
    BY <1>1, <2>1, <2>2 DEF WireInv
  <2>7. Len(wire[c]) = 2 * n
    <3>1. Len(wire[c]) \in Nat
      BY <2>2
    <3>. QED  BY <2>5, <2>6, <3>1
  <2>8. \A i \in 1 .. Len(wire[c]) :
          wire[c][i] = [nonce |-> (i - 1) \div 2, half |-> IF i % 2 = 1 THEN "first" ELSE "rest"]
    <3>1. DOMAIN wire[c] = 1 .. Len(wire[c])
      BY <2>2
    <3>. QED  BY <1>1, <3>1 DEF WireInv, InOrder
  <2>9. Len(wire'[c]) = Len(wire[c]) + 1 /\ InOrder(c)'
    <3>1. PICK w \in Seq(Piece) : w = wire[c]
      BY <2>2
    <3>2. Len(w) = IF "first" = "first" THEN 2 * n ELSE 2 * n + 1
      BY <2>7, <3>1
    <3>3. \A i \in 1 .. Len(w) :
            w[i] = [nonce |-> (i - 1) \div 2, half |-> IF i % 2 = 1 THEN "first" ELSE "rest"]
      BY <2>8, <3>1
    <3>4. /\ Len(Append(w, [nonce |-> n, half |-> "first"])) = Len(w) + 1
          /\ \A i \in DOMAIN Append(w, [nonce |-> n, half |-> "first"]) :
               Append(w, [nonce |-> n, half |-> "first"])[i] =
                 [nonce |-> (i - 1) \div 2, half |-> IF i % 2 = 1 THEN "first" ELSE "rest"]
      BY <3>2, <3>3, NextPiece
    <3>. QED  BY <2>2, <3>1, <3>4 DEF InOrder
  <2>10. Len(wire'[c]) = 2 * n + 1 /\ n + 1 + 0 = nonce'[c]
    BY <2>2, <2>6, <2>7, <2>9
  <2>. QED  BY <2>2, <2>4, <2>5, <2>9, <2>10 DEF WireInv
<1>. QED  BY <1>2, <1>3

\* The rest is written: the frame is whole.
LEMMA EndWriteKeeps ==
  ASSUME DecryptInv, NEW s \in Sends, EndWrite(s), NEW c \in Conns \ (gap' \cup overlapped')
  PROVE  WireInv(c)'
<1>1. WireInv(c)
  BY DEF EndWrite, DecryptInv
<1>2. CASE send[s].conn # c
  BY <1>1, <1>2, OtherConnection
<1>3. CASE send[s].conn = c
  <2>1. PICK n \in Nat : n = send[s].nonce
    BY WifiConnectionAssumption DEF DecryptInv, LinkInv, LinkTypeOK
  <2>2. /\ Writing(s, c)
        /\ wire'[c] = Append(wire[c], [nonce |-> n, half |-> "rest"])
        /\ send'[s].at = "idle"
        /\ \A t \in Sends \ {s} : send'[t] = send[t]
        /\ nonce'[c] = nonce[c] /\ nonce[c] \in Nat /\ wire[c] \in Seq(Piece)
    BY <1>3, <2>1, WifiConnectionAssumption
       DEF EndWrite, Written, DecryptInv, LinkInv, LinkTypeOK, Writing, NoSend
  <2>3. \A t \in Sends : Writing(t, c) => t = s
    BY <1>1, <2>2 DEF WireInv
  <2>4. \A t \in Sends : /\ ~Writing(t, c)'
                         /\ Encrypted(t, c)' <=> Encrypted(t, c)
                         /\ Encrypted(t, c) => send'[t] = send[t]
    BY <2>2, <2>3 DEF Encrypted, Writing
  <2>5. Ahead(c)' = Ahead(c)
    BY <2>4 DEF Ahead
  <2>6. PICK k \in {0, 1} : k = Ahead(c)
    BY DEF Ahead
  <2>7. n + 1 + k = nonce[c] /\ Len(wire[c]) = 2 * n + 1
    BY <1>1, <2>1, <2>2, <2>6 DEF WireInv
  <2>8. \A i \in 1 .. Len(wire[c]) :
          wire[c][i] = [nonce |-> (i - 1) \div 2, half |-> IF i % 2 = 1 THEN "first" ELSE "rest"]
    <3>1. DOMAIN wire[c] = 1 .. Len(wire[c])
      BY <2>2
    <3>. QED  BY <1>1, <3>1 DEF WireInv, InOrder
  <2>9. Len(wire'[c]) = Len(wire[c]) + 1 /\ InOrder(c)'
    <3>1. PICK w \in Seq(Piece) : w = wire[c]
      BY <2>2
    <3>2. Len(w) = IF "rest" = "first" THEN 2 * n ELSE 2 * n + 1
      BY <2>7, <3>1
    <3>3. \A i \in 1 .. Len(w) :
            w[i] = [nonce |-> (i - 1) \div 2, half |-> IF i % 2 = 1 THEN "first" ELSE "rest"]
      BY <2>8, <3>1
    <3>4. /\ Len(Append(w, [nonce |-> n, half |-> "rest"])) = Len(w) + 1
          /\ \A i \in DOMAIN Append(w, [nonce |-> n, half |-> "rest"]) :
               Append(w, [nonce |-> n, half |-> "rest"])[i] =
                 [nonce |-> (i - 1) \div 2, half |-> IF i % 2 = 1 THEN "first" ELSE "rest"]
      BY <3>2, <3>3, NextPiece
    <3>. QED  BY <2>2, <3>1, <3>4 DEF InOrder
  <2>10. Len(wire'[c]) + 2 * k = 2 * nonce'[c]
    <3>1. Len(wire'[c]) = 2 * n + 2 /\ nonce'[c] = n + 1 + k
      BY <2>2, <2>7, <2>9
    <3>. QED  BY <3>1
  <2>11. /\ \A t, u \in Sends : Encrypted(t, c) /\ Encrypted(u, c) => t = u
         /\ \A t \in Sends : Encrypted(t, c) => send[t].nonce + 1 = nonce[c]
    BY <1>1 DEF WireInv
  <2>. QED  BY <2>2, <2>4, <2>5, <2>6, <2>9, <2>10, <2>11 DEF WireInv
<1>. QED  BY <1>2, <1>3

\* Every other step leaves a connection's wire and its frames alone, or counts
\* it among those a send of which was dropped.
LEMMA DecryptStep == DecryptInv /\ [LinkNext]_linkVars => DecryptInv'
<1>. SUFFICES ASSUME DecryptInv, [LinkNext]_linkVars,
                     NEW c \in Conns \ (gap' \cup overlapped')
              PROVE  WireInv(c)'
  BY LinkInvariant DEF DecryptInv
<1>1. ASSUME NEW s \in Sends, BeginSend(s) PROVE WireInv(c)'
  <2>1. /\ send[s].at = "idle" /\ send'[s].at = "encrypt" /\ wire' = wire /\ nonce' = nonce
        /\ c \in Conns \ (gap \cup overlapped)
    BY <1>1 DEF BeginSend, NoSend, DecryptInv, LinkInv, LinkTypeOK
  <2>2. \A t \in Sends \ {s} : send'[t] = send[t]
    BY <1>1, OneSendMoves DEF DecryptInv
  <2>3. WireInv(c)
    BY <2>1 DEF DecryptInv
  <2>. QED  BY <2>1, <2>2, <2>3, WireUntouched DEF Encrypted, Writing
<1>2. ASSUME NEW s \in Sends, DropSend(s) PROVE WireInv(c)'
  <2>1. CASE send[s].at = "encrypt"
    BY <1>2, <2>1, WireUntouched
       DEF DropSend, DecryptInv, LinkInv, LinkTypeOK, Encrypted, Writing, NoSend
  <2>2. CASE send[s].at # "encrypt"
    <3>1. send[s].conn # c /\ c \notin gap
      BY <1>2, <2>2 DEF DropSend
    <3>. QED  BY <1>2, <3>1, WireUntouched
              DEF DropSend, DecryptInv, LinkInv, LinkTypeOK, Encrypted, Writing, NoSend
  <2>. QED  BY <2>1, <2>2
<1>3. CASE UNCHANGED sendVars
  BY <1>3, WireUntouched DEF sendVars, DecryptInv
<1>4. Connect \/ Authenticate \/ ConnectEnds \/ FillRx \/ DropConnect \/ Disconnect \/ DisconnectEnds
        \/ UNCHANGED linkVars => UNCHANGED sendVars
  BY DEF Connect, Authenticate, ConnectEnds, FillRx, DropConnect, Disconnect, DisconnectEnds,
         linkVars, sendVars
<1>. QED  BY <1>1, <1>2, <1>3, <1>4, EncryptKeeps, BeginWriteKeeps, EndWriteKeeps DEF LinkNext

\* Main result: the peer can decrypt all that is written to a connection as
\* long as no send of it was dropped past its encryption and no two were
\* encrypted before either had the writer (wifi.rs, 849-873).
THEOREM PeerDecrypts == LinkSpec => []DecryptableUnlessOverlapped
<1>1. DecryptInv => DecryptableUnlessOverlapped
  BY DEF DecryptInv, WireInv, DecryptableUnlessOverlapped
<1>. QED  BY DecryptInit, DecryptStep, <1>1, PTL DEF LinkSpec

(***************************************************************************)
(* Where escaped_bytes and frame_bytes put the bytes of a payload.         *)
(***************************************************************************)

ControlsUpTo(p, i) == {j \in 1 .. i : p[j] \in Control}

\* The place in its frame of the i-th byte of payload p; STX is at FramePlace(p, 0).
FramePlace(p, i) == i + 1 + Cardinality(ControlsUpTo(p, i))

\* f starts with STX and the first k bytes of p, escaped.
Holds(f, p, k) ==
  /\ f[1] = "STX"
  /\ \A i \in 1 .. k :
       /\ f[FramePlace(p, i)] = p[i]
       /\ p[i] \in Control => f[FramePlace(p, i) - 1] = "DLE"

WholeFrame(f, p) ==
  /\ Holds(f, p, Len(p))
  /\ Len(f) = FramePlace(p, Len(p)) + 1
  /\ f[Len(f)] = "ETX"

\* The first r bytes of a frame of p hold n bytes of p, and an escape byte if esc.
Passed(p, r, n, esc) ==
  /\ n \in 0 .. Len(p) /\ esc \in BOOLEAN
  /\ esc => n < Len(p) /\ p[n + 1] \in Control /\ r = FramePlace(p, n) + 1
  /\ ~esc => r = FramePlace(p, n)

(***************************************************************************)
(* The inductive invariant.                                                *)
(***************************************************************************)

ReadOf == Len(frame) - Len(line)

\* What a buffer starts with, and ends with in unescape_bytes: unframe_bytes
\* refuses none that push_byte hands it.
BufferInv ==
  /\ buffer # <<>> => buffer[1] = "STX"
  /\ Unescaping => /\ unescape.next \in 2 .. Len(buffer)
                   /\ buffer[Len(buffer)] = "ETX"

\* A frame that is being built holds what escaped_bytes has passed of the payload.
BuildInv ==
  /\ Framing => /\ line = <<>> /\ ~Unescaping /\ intact >= 1
                /\ escaping <= Len(sent)
                /\ Holds(frame, sent, escaping)
                /\ Len(frame) = FramePlace(sent, escaping)
  /\ ~Framing /\ frame # <<>> => WholeFrame(frame, sent)
  /\ frame = <<>> => ~Framing /\ line = <<>> /\ intact = 1 /\ buffer = <<>> /\ ~isEscaped

\* The line holds the rest of an undamaged frame.
LineInv ==
  intact >= 1 /\ ~Framing =>
    /\ Len(line) <= Len(frame)
    /\ \A i \in 1 .. Len(line) : line[i] = frame[ReadOf + i]

\* In an undamaged frame, a parser that has begun to buffer agrees with the
\* frame on which bytes are escaped; one that has not is at rest after ETX.
SyncInv ==
  intact >= 1 /\ ~Framing =>
    /\ line # <<>> => ~Unescaping
    /\ line # <<>> /\ ReadOf > 0 =>
         \E n \in 0 .. Len(sent), esc \in BOOLEAN :
           Passed(sent, ReadOf, n, esc) /\ (buffer # <<>> => isEscaped = esc)
    /\ line = <<>> /\ ~Unescaping => buffer = <<>> /\ ~isEscaped

\* The frame after an undamaged one is buffered from its first byte and then unescaped.
FollowInv ==
  intact = 2 =>
    /\ Framing => buffer = <<>> /\ ~isEscaped /\ found = <<>>
    /\ line # <<>> \/ Unescaping =>
         /\ found = <<>>
         /\ Len(buffer) = ReadOf
         /\ \A i \in 1 .. ReadOf : buffer[i] = frame[i]
         /\ ReadOf = 0 => ~isEscaped
    /\ Unescaping =>
         /\ Len(unescape.bytes) <= Len(sent)
         /\ \A i \in 1 .. Len(unescape.bytes) : unescape.bytes[i] = sent[i]
         /\ Passed(sent, unescape.next - 1, Len(unescape.bytes), unescape.escaped)
    /\ line = <<>> /\ ~Framing /\ ~Unescaping => found = <<sent>>

StreamInv == StreamTypeOK /\ BufferInv /\ BuildInv /\ LineInv /\ SyncInv /\ FollowInv

(***************************************************************************)
(* Lemmas about places.                                                    *)
(***************************************************************************)

\* At most i of the first i bytes are control bytes; the next one counts if it is one.
LEMMA ControlsCount ==
  ASSUME NEW p, NEW i \in Nat
  PROVE  /\ IsFiniteSet(ControlsUpTo(p, i))
         /\ Cardinality(ControlsUpTo(p, i)) \in 0 .. i
         /\ Cardinality(ControlsUpTo(p, 0)) = 0
         /\ Cardinality(ControlsUpTo(p, i + 1)) =
              Cardinality(ControlsUpTo(p, i)) + (IF p[i + 1] \in Control THEN 1 ELSE 0)
<1>1. IsFiniteSet(1 .. i) /\ Cardinality(1 .. i) = i
  <2>1. IsFiniteSet(1 .. i) /\ Cardinality(1 .. i) = IF 1 > i THEN 0 ELSE i - 1 + 1
    BY FS_Interval
  <2>. QED  BY <2>1
<1>2. ControlsUpTo(p, i) \subseteq 1 .. i
  BY DEF ControlsUpTo
<1>3. IsFiniteSet(ControlsUpTo(p, i)) /\ Cardinality(ControlsUpTo(p, i)) <= i
  BY <1>1, <1>2, FS_Subset
<1>4. Cardinality(ControlsUpTo(p, i)) \in Nat
  BY <1>3, FS_CardinalityType
<1>5. Cardinality(ControlsUpTo(p, 0)) = 0
  <2>1. ControlsUpTo(p, 0) = {}
    BY DEF ControlsUpTo
  <2>. QED  BY <2>1, FS_EmptySet
<1>6. CASE p[i + 1] \in Control
  <2>1. ControlsUpTo(p, i + 1) = ControlsUpTo(p, i) \cup {i + 1}
    BY <1>6 DEF ControlsUpTo
  <2>2. i + 1 \notin ControlsUpTo(p, i)
    BY DEF ControlsUpTo
  <2>3. Cardinality(ControlsUpTo(p, i + 1)) = Cardinality(ControlsUpTo(p, i)) + 1
    BY <1>3, <2>1, <2>2, FS_AddElement
  <2>. QED  BY <1>3, <1>4, <1>5, <1>6, <2>3
<1>7. CASE p[i + 1] \notin Control
  <2>1. ControlsUpTo(p, i + 1) = ControlsUpTo(p, i)
    BY <1>7 DEF ControlsUpTo
  <2>. QED  BY <1>3, <1>4, <1>5, <1>7, <2>1
<1>. QED  BY <1>6, <1>7

LEMMA PlaceStep ==
  ASSUME NEW p, NEW i \in Nat
  PROVE  /\ FramePlace(p, i) \in Nat /\ i + 1 <= FramePlace(p, i) /\ FramePlace(p, i) <= 2 * i + 1
         /\ FramePlace(p, 0) = 1
         /\ FramePlace(p, i + 1) = FramePlace(p, i) + (IF p[i + 1] \in Control THEN 2 ELSE 1)
<1>. DEFINE c == Cardinality(ControlsUpTo(p, i))
            d == Cardinality(ControlsUpTo(p, i + 1))
            z == Cardinality(ControlsUpTo(p, 0))
<1>1. c \in 0 .. i /\ z = 0 /\ d = c + (IF p[i + 1] \in Control THEN 1 ELSE 0)
  BY ControlsCount
<1>2. FramePlace(p, i) = i + 1 + c /\ FramePlace(p, i + 1) = i + 1 + 1 + d /\ FramePlace(p, 0) = 0 + 1 + z
  BY DEF FramePlace
<1>. HIDE DEF c, d, z
<1>. QED  BY <1>1, <1>2

\* Later bytes have later places, an escape byte between them included.
LEMMA PlaceGrows ==
  ASSUME NEW p, NEW i \in Nat, NEW j \in Nat, i < j
  PROVE  /\ FramePlace(p, i) \in Nat /\ FramePlace(p, j) \in Nat
         /\ FramePlace(p, i) < FramePlace(p, j)
         /\ p[j] \in Control => FramePlace(p, i) < FramePlace(p, j) - 1
<1>. DEFINE k == j - 1
<1>1. k \in Nat /\ i <= k /\ j = k + 1
  OBVIOUS
<1>2. ControlsUpTo(p, i) \subseteq ControlsUpTo(p, k)
  BY <1>1 DEF ControlsUpTo
<1>3. /\ IsFiniteSet(ControlsUpTo(p, k))
      /\ Cardinality(ControlsUpTo(p, i)) \in Nat /\ Cardinality(ControlsUpTo(p, k)) \in Nat
  BY <1>1, ControlsCount
<1>4. Cardinality(ControlsUpTo(p, i)) <= Cardinality(ControlsUpTo(p, k))
  BY <1>2, <1>3, FS_Subset
<1>5. FramePlace(p, i) <= FramePlace(p, k) /\ FramePlace(p, k) \in Nat /\ FramePlace(p, i) \in Nat
  BY <1>1, <1>3, <1>4 DEF FramePlace
<1>6. FramePlace(p, j) = FramePlace(p, k) + (IF p[j] \in Control THEN 2 ELSE 1)
  <2>1. FramePlace(p, k + 1) = FramePlace(p, k) + (IF p[k + 1] \in Control THEN 2 ELSE 1)
    BY <1>1, PlaceStep
  <2>. QED  BY <1>1, <2>1
<1>. QED  BY <1>5, <1>6

\* What comes next in a frame of which n bytes and perhaps an escape byte have
\* passed: ETX, an escape byte, or the next byte of the payload.
LEMMA NextInFrame ==
  ASSUME NEW p \in Seq(Byte), NEW f, WholeFrame(f, p),
         NEW r \in Nat, NEW n, NEW esc, Passed(p, r, n, esc)
  PROVE  /\ n \in Nat /\ Len(f) \in Nat /\ r < Len(f)
         /\ \/ f[r + 1] = "ETX" /\ ~esc /\ n = Len(p) /\ r + 1 = Len(f)
            \/ /\ f[r + 1] = "DLE" /\ ~esc /\ r + 1 < Len(f)
               /\ Passed(p, r + 1, n, TRUE)
            \/ /\ n < Len(p) /\ f[r + 1] = p[n + 1] /\ r + 1 < Len(f)
               /\ (esc \/ f[r + 1] \notin Control)
               /\ Passed(p, r + 1, n + 1, FALSE)
<1>1. n \in Nat /\ n <= Len(p) /\ Len(p) \in Nat /\ esc \in BOOLEAN
  BY DEF Passed
<1>2. FramePlace(p, n) \in Nat /\ FramePlace(p, Len(p)) \in Nat
  <2>1. FramePlace(p, n) \in Nat
    BY <1>1, PlaceStep
  <2>2. FramePlace(p, Len(p)) \in Nat
    BY <1>1, PlaceStep
  <2>. QED  BY <2>1, <2>2
<1>3. Len(f) = FramePlace(p, Len(p)) + 1 /\ Len(f) \in Nat
  BY <1>2 DEF WholeFrame
<1>4. CASE n = Len(p)
  <2>1. ~esc /\ r = FramePlace(p, n)
    BY <1>1, <1>4 DEF Passed
  <2>2. r + 1 = Len(f) /\ r < Len(f) /\ n \in Nat
    BY <1>1, <1>2, <1>3, <1>4, <2>1
  <2>3. f[r + 1] = "ETX"
    BY <2>2 DEF WholeFrame
  <2>. QED  BY <1>3, <1>4, <2>1, <2>2, <2>3
<1>5. CASE n < Len(p)
  <2>1. FramePlace(p, n + 1) = FramePlace(p, n) + (IF p[n + 1] \in Control THEN 2 ELSE 1)
    BY <1>1, PlaceStep
  <2>2. FramePlace(p, n + 1) <= FramePlace(p, Len(p)) /\ FramePlace(p, n + 1) \in Nat
    <3>1. CASE n + 1 = Len(p)
      BY <1>2, <3>1
    <3>2. CASE n + 1 < Len(p)
      BY <1>1, <3>2, PlaceGrows
    <3>. QED  BY <1>1, <1>5, <3>1, <3>2
  <2>3. /\ f[FramePlace(p, n + 1)] = p[n + 1]
        /\ p[n + 1] \in Control => f[FramePlace(p, n + 1) - 1] = "DLE"
    BY <1>1, <1>5 DEF WholeFrame, Holds
  <2>4. CASE esc
    <3>1. p[n + 1] \in Control /\ r = FramePlace(p, n) + 1
      BY <2>4 DEF Passed
    <3>2. r + 1 = FramePlace(p, n + 1)
      BY <1>2, <2>1, <3>1
    <3>. QED  BY <1>1, <1>2, <1>3, <1>5, <2>2, <2>3, <2>4, <3>1, <3>2 DEF Passed
  <2>5. CASE ~esc /\ p[n + 1] \in Control
    <3>1. r = FramePlace(p, n)
      BY <2>5 DEF Passed
    <3>2. r + 1 = FramePlace(p, n + 1) - 1
      BY <1>2, <2>1, <2>5, <3>1
    <3>. QED  BY <1>1, <1>2, <1>3, <1>5, <2>2, <2>3, <2>5, <3>1, <3>2 DEF Passed
  <2>6. CASE ~esc /\ p[n + 1] \notin Control
    <3>1. r + 1 = FramePlace(p, n + 1)
      BY <1>2, <2>1, <2>6 DEF Passed
    <3>. QED  BY <1>1, <1>2, <1>3, <1>5, <2>2, <2>3, <2>6, <3>1 DEF Passed
  <2>. QED  BY <1>1, <2>4, <2>5, <2>6
<1>6. n = Len(p) \/ n < Len(p)
  BY <1>1
<1>. QED  BY <1>4, <1>5, <1>6

(***************************************************************************)
(* The invariant holds initially and implies the property.                 *)
(***************************************************************************)

LEMMA PayloadType ==
  ASSUME NEW p \in Payloads
  PROVE  p \in Seq(Byte) /\ Len(p) \in Nat /\ Len(p) <= MaxPayload
<1>1. PICK n \in 0 .. MaxPayload : p \in [1 .. n -> Byte]
  BY DEF Payloads
<1>. QED  BY <1>1, MessageStreamAssumption

LEMMA StreamInvInit == StreamInit => StreamInv
<1>. SUFFICES ASSUME StreamInit PROVE StreamInv
  OBVIOUS
<1>. USE MessageStreamAssumption DEF StreamInit, Framing, Unescaping, NotUnescaping, NotFraming
<1>1. StreamTypeOK
  <2>1. <<>> \in [1 .. 0 -> Byte] /\ 0 \in 0 .. MaxPayload
    OBVIOUS
  <2>2. sent \in Payloads
    BY <2>1 DEF Payloads
  <2>3. unescape \in [next : Nat, bytes : Seq(Byte), escaped : BOOLEAN]
    OBVIOUS
  <2>4. escaping \in 0 .. NotFraming
    OBVIOUS
  <2>5. /\ frame \in Seq(Byte) /\ line \in Seq(Byte) /\ buffer \in Seq(Byte)
        /\ found \in Seq(Seq(Byte))
    BY EmptySeq
  <2>6. Len(buffer) <= Capacity /\ isEscaped \in BOOLEAN
    <3>1. Len(buffer) = 0
      BY EmptySeq
    <3>2. isEscaped \in BOOLEAN
      OBVIOUS
    <3>. QED  BY <3>1, <3>2
  <2>7. intact \in 0 .. 2 /\ faults \in 0 .. MaxFaults /\ frames \in 0 .. MaxFrames
    OBVIOUS
  <2>. QED  BY ONLY <2>2, <2>3, <2>4, <2>5, <2>6, <2>7 DEF StreamTypeOK
<1>2. BufferInv
  BY DEF BufferInv
<1>3. BuildInv
  BY DEF BuildInv
<1>4. LineInv
  BY DEF LineInv
<1>5. SyncInv
  BY DEF SyncInv
<1>6. FollowInv
  BY DEF FollowInv
<1>. QED  BY <1>1, <1>2, <1>3, <1>4, <1>5, <1>6 DEF StreamInv

LEMMA StreamInvResyncs == StreamInv => Resyncs
BY DEF StreamInv, StreamTypeOK, SyncInv, FollowInv, Resyncs

(***************************************************************************)
(* The device and the line.                                                *)
(***************************************************************************)

LEMMA BeginFrameInv == StreamInv /\ BeginFrame => StreamInv'
<1>. SUFFICES ASSUME StreamInv, BeginFrame PROVE StreamInv'
  OBVIOUS
<1>. USE MessageStreamAssumption DEF BeginFrame
<1>1. StreamTypeOK'
  BY DEF StreamInv, StreamTypeOK, NotFraming, Byte, Control
<1>2. /\ Framing' /\ escaping' = 0 /\ ~Unescaping' /\ ~Unescaping /\ ~Framing
      /\ line' = <<>> /\ intact' \in {1, 2} /\ frame' = <<"STX">>
  BY DEF Framing, Unescaping, NotFraming, StreamInv, StreamTypeOK
<1>3. BufferInv'
  BY <1>2 DEF StreamInv, BufferInv
<1>4. BuildInv'
  <2>1. sent' \in Payloads /\ 0 <= Len(sent')
    BY PayloadType
  <2>2. FramePlace(sent', 0) = 1
    BY PlaceStep
  <2>3. Holds(frame', sent', 0)
    BY <1>2 DEF Holds
  <2>4. Len(frame') = 1 /\ frame' # <<>>
    BY <1>2
  <2>. QED  BY <1>2, <2>1, <2>2, <2>3, <2>4 DEF BuildInv
<1>5. LineInv' /\ SyncInv'
  BY <1>2 DEF LineInv, SyncInv
<1>6. FollowInv'
  <2>1. ASSUME intact' = 2 PROVE buffer' = <<>> /\ ~isEscaped' /\ found' = <<>>
    <3>1. intact >= 1
      BY <2>1, <1>2 DEF StreamInv, StreamTypeOK
    <3>. QED  BY <1>2, <3>1 DEF StreamInv, SyncInv
  <2>. QED  BY <1>2, <2>1 DEF FollowInv
<1>. QED  BY <1>1, <1>3, <1>4, <1>5, <1>6 DEF StreamInv

LEMMA EscapeByteInv == StreamInv /\ EscapeByte => StreamInv'
<1>. SUFFICES ASSUME StreamInv, EscapeByte PROVE StreamInv'
  OBVIOUS
<1>. DEFINE k == escaping
            b == sent[k + 1]
            added == IF b \in Control THEN <<"DLE", b>> ELSE <<b>>
<1>. USE MessageStreamAssumption
<1>1. /\ Framing /\ k \in Nat /\ k < Len(sent) /\ sent \in Seq(Byte) /\ Len(sent) <= MaxPayload
      /\ frame \in Seq(Byte)
  BY PayloadType DEF EscapeByte, StreamInv, StreamTypeOK
<1>2. /\ frame' = frame \o added /\ escaping' = k + 1
      /\ UNCHANGED <<line, buffer, isEscaped, unescape, found, sent, intact, faults, frames>>
  BY DEF EscapeByte, readerVars
<1>3. b \in Byte
  BY <1>1
<1>4. added \in Seq(Byte) /\ Len(added) = IF b \in Control THEN 2 ELSE 1
  <2>1. "DLE" \in Byte
    BY DEF Byte, Control
  <2>2. CASE b \in Control
    BY <1>3, <2>1, <2>2
  <2>3. CASE b \notin Control
    BY <1>3, <2>3
  <2>. QED  BY <2>2, <2>3
<1>5. /\ line = <<>> /\ ~Unescaping /\ intact >= 1 /\ Holds(frame, sent, k)
      /\ Len(frame) = FramePlace(sent, k)
  BY <1>1 DEF StreamInv, BuildInv
<1>6. /\ frame' \in Seq(Byte) /\ Len(frame') = Len(frame) + Len(added)
      /\ \A i \in 1 .. Len(frame) : frame'[i] = frame[i]
      /\ \A i \in 1 .. Len(added) : frame'[Len(frame) + i] = added[i]
  <2>. HIDE DEF added
  <2>1. frame \o added \in Seq(Byte) /\ Len(frame \o added) = Len(frame) + Len(added)
    BY ONLY <1>1, <1>4, ConcatProperties
  <2>2. \A i \in 1 .. Len(frame) + Len(added) :
          (frame \o added)[i] = IF i <= Len(frame) THEN frame[i] ELSE added[i - Len(frame)]
    BY <1>1, <1>4, ConcatProperties
  <2>3. Len(frame) \in Nat /\ Len(added) \in Nat
    BY <1>1, <1>4
  <2>4. ASSUME NEW i \in 1 .. Len(frame) PROVE (frame \o added)[i] = frame[i]
    BY <2>2, <2>3
  <2>5. ASSUME NEW i \in 1 .. Len(added) PROVE (frame \o added)[Len(frame) + i] = added[i]
    <3>1. Len(frame) + i \in 1 .. Len(frame) + Len(added) /\ ~(Len(frame) + i <= Len(frame))
          /\ Len(frame) + i - Len(frame) = i
      BY ONLY <2>3, i \in 1 .. Len(added)
    <3>. QED  BY <2>2, <3>1
  <2>. QED  BY <1>2, <2>1, <2>4, <2>5
<1>7. Framing' /\ ~Unescaping' /\ escaping' <= Len(sent) /\ escaping' \in 0 .. NotFraming
  BY <1>1, <1>2, <1>5 DEF Framing, Unescaping, NotFraming
<1>8. StreamTypeOK'
  BY <1>2, <1>6, <1>7 DEF StreamInv, StreamTypeOK
<1>9. /\ FramePlace(sent, k) \in Nat /\ k + 1 <= FramePlace(sent, k)
      /\ FramePlace(sent, k + 1) = FramePlace(sent, k) + (IF b \in Control THEN 2 ELSE 1)
  BY <1>1, PlaceStep
<1>10. Len(frame') = FramePlace(sent, k + 1)
  BY <1>4, <1>5, <1>6, <1>9
<1>11. Holds(frame', sent, k + 1)
  <2>1. frame'[1] = "STX"
    BY <1>1, <1>5, <1>6, <1>9 DEF Holds
  <2>2. ASSUME NEW i \in 1 .. k
        PROVE  /\ frame'[FramePlace(sent, i)] = sent[i]
               /\ sent[i] \in Control => frame'[FramePlace(sent, i) - 1] = "DLE"
    <3>1. FramePlace(sent, i) \in Nat /\ i + 1 <= FramePlace(sent, i)
      BY PlaceStep
    <3>2. FramePlace(sent, i) <= FramePlace(sent, k)
      <4>1. CASE i = k
        BY <1>9, <4>1
      <4>2. CASE i < k
        BY <1>1, <4>2, PlaceGrows
      <4>. QED  BY <1>1, <4>1, <4>2
    <3>3. FramePlace(sent, i) \in 1 .. Len(frame) /\ FramePlace(sent, i) - 1 \in 1 .. Len(frame)
      BY <1>5, <1>9, <3>1, <3>2
    <3>. QED  BY <1>5, <1>6, <3>3 DEF Holds
  <2>3. /\ frame'[FramePlace(sent, k + 1)] = b
        /\ b \in Control => frame'[FramePlace(sent, k + 1) - 1] = "DLE"
    <3>1. CASE b \in Control
      <4>1. added[1] = "DLE" /\ added[2] = b /\ Len(added) = 2
        BY <3>1
      <4>2. FramePlace(sent, k + 1) = Len(frame) + 2 /\ FramePlace(sent, k + 1) - 1 = Len(frame) + 1
        BY <1>1, <1>5, <1>9, <3>1
      <4>. QED  BY <1>6, <4>1, <4>2
    <3>2. CASE b \notin Control
      <4>1. added[1] = b /\ Len(added) = 1
        BY <3>2
      <4>2. FramePlace(sent, k + 1) = Len(frame) + 1
        BY <1>1, <1>5, <1>9, <3>2
      <4>. QED  BY <1>6, <3>2, <4>1, <4>2
    <3>. QED  BY <3>1, <3>2
  <2>4. 1 .. k + 1 = (1 .. k) \cup {k + 1}
    BY <1>1
  <2>. QED  BY <2>1, <2>2, <2>3, <2>4 DEF Holds
<1>12. BufferInv'
  BY <1>2, <1>7 DEF StreamInv, BufferInv
<1>13. BuildInv'
  <2>1. frame' # <<>>
    BY <1>4, <1>6, <1>1
  <2>. QED  BY <1>2, <1>5, <1>7, <1>10, <1>11, <2>1 DEF BuildInv
<1>14. LineInv' /\ SyncInv'
  BY <1>7 DEF LineInv, SyncInv
<1>15. FollowInv'
  BY <1>1, <1>2, <1>5, <1>7 DEF StreamInv, FollowInv
<1>. QED  BY <1>8, <1>12, <1>13, <1>14, <1>15 DEF StreamInv

LEMMA SendFrameInv == StreamInv /\ SendFrame => StreamInv'
<1>. SUFFICES ASSUME StreamInv, SendFrame PROVE StreamInv'
  OBVIOUS
<1>. USE MessageStreamAssumption
<1>1. /\ Framing /\ escaping = Len(sent) /\ sent \in Seq(Byte) /\ frame \in Seq(Byte)
  BY PayloadType DEF SendFrame, StreamInv, StreamTypeOK
<1>2. /\ frame' = Append(frame, "ETX") /\ line' = frame' /\ escaping' = NotFraming
      /\ UNCHANGED <<buffer, isEscaped, unescape, found, sent, intact, faults, frames>>
  BY DEF SendFrame, readerVars
<1>3. /\ line = <<>> /\ ~Unescaping /\ intact >= 1 /\ Holds(frame, sent, Len(sent))
      /\ Len(frame) = FramePlace(sent, Len(sent))
  BY <1>1 DEF StreamInv, BuildInv
<1>4. ~Framing' /\ ~Unescaping'
  BY <1>2, <1>3 DEF Framing, Unescaping
<1>5. /\ frame' \in Seq(Byte) /\ Len(frame') = Len(frame) + 1 /\ frame'[Len(frame')] = "ETX"
      /\ \A i \in 1 .. Len(frame) : frame'[i] = frame[i]
  BY <1>1, <1>2 DEF Byte, Control
<1>6. StreamTypeOK'
  BY <1>2, <1>5 DEF StreamInv, StreamTypeOK, NotFraming
<1>7. WholeFrame(frame', sent)
  <2>1. FramePlace(sent, Len(sent)) \in Nat /\ 1 <= FramePlace(sent, Len(sent))
    <3>1. Len(sent) \in Nat
      BY <1>1
    <3>. QED  BY <3>1, PlaceStep
  <2>2. frame'[1] = "STX"
    BY <1>3, <1>5, <2>1 DEF Holds
  <2>3. ASSUME NEW i \in 1 .. Len(sent)
        PROVE  /\ frame'[FramePlace(sent, i)] = sent[i]
               /\ sent[i] \in Control => frame'[FramePlace(sent, i) - 1] = "DLE"
    <3>1. FramePlace(sent, i) \in Nat /\ i + 1 <= FramePlace(sent, i)
      BY PlaceStep
    <3>2. FramePlace(sent, i) <= FramePlace(sent, Len(sent))
      <4>1. CASE i = Len(sent)
        BY <2>1, <4>1
      <4>2. CASE i < Len(sent)
        <5>1. Len(sent) \in Nat
          BY <1>1
        <5>. QED  BY <4>2, <5>1, PlaceGrows
      <4>. QED  BY <1>1, <4>1, <4>2
    <3>3. FramePlace(sent, i) \in 1 .. Len(frame) /\ FramePlace(sent, i) - 1 \in 1 .. Len(frame)
      BY <1>3, <2>1, <3>1, <3>2
    <3>. QED  BY <1>3, <1>5, <3>3 DEF Holds
  <2>. QED  BY <1>3, <1>5, <2>2, <2>3 DEF WholeFrame, Holds
<1>8. frame' # <<>>
  BY <1>1, <1>5
<1>9. BufferInv'
  BY <1>2, <1>3, <1>4 DEF StreamInv, BufferInv
<1>10. BuildInv'
  BY <1>2, <1>4, <1>7, <1>8 DEF BuildInv
<1>11. ReadOf' = 0 /\ Len(line') \in Nat /\ line' # <<>>
  BY <1>2, <1>5, <1>8 DEF ReadOf
<1>12. LineInv'
  BY <1>2, <1>11 DEF LineInv
<1>13. SyncInv'
  BY <1>4, <1>11 DEF SyncInv
<1>14. FollowInv'
  BY <1>1, <1>2, <1>4, <1>11 DEF StreamInv, FollowInv
<1>. QED  BY <1>6, <1>9, <1>10, <1>12, <1>13, <1>14 DEF StreamInv

LEMMA DamageInv == StreamInv /\ Damage => StreamInv'
<1>. SUFFICES ASSUME StreamInv, Damage PROVE StreamInv'
  OBVIOUS
<1>. USE MessageStreamAssumption
<1>1. PICK i \in DOMAIN line :
        line' \in {SubSeq(line, i + 1, Len(line)), RemoveAt(line, i)}
                  \cup {[line EXCEPT ![i] = b] : b \in Byte \ {line[i]}}
  BY DEF Damage
<1>2. line \in Seq(Byte) /\ i \in 1 .. Len(line) /\ line # <<>>
  BY <1>1 DEF StreamInv, StreamTypeOK
<1>3. line' \in Seq(Byte)
  <2>1. CASE line' = SubSeq(line, i + 1, Len(line))
    BY <1>2, <2>1
  <2>2. CASE line' = RemoveAt(line, i)
    <3>1. SubSeq(line, 1, i - 1) \in Seq(Byte) /\ SubSeq(line, i + 1, Len(line)) \in Seq(Byte)
      BY <1>2
    <3>. QED  BY <2>2, <3>1 DEF RemoveAt
  <2>3. CASE line' \in {[line EXCEPT ![i] = b] : b \in Byte \ {line[i]}}
    BY <1>2, <2>3
  <2>. QED  BY <1>1, <2>1, <2>2, <2>3
<1>4. /\ intact' = 0 /\ faults' \in 0 .. MaxFaults
      /\ UNCHANGED <<frame, escaping, buffer, isEscaped, unescape, found, sent, frames>>
  <2>1. intact' = 0 /\ faults < MaxFaults /\ faults' = faults + 1
    BY DEF Damage
  <2>2. faults' \in 0 .. MaxFaults
    BY <2>1 DEF StreamInv, StreamTypeOK
  <2>. QED  BY <2>1, <2>2 DEF Damage, readerVars
<1>5. StreamTypeOK'
  BY <1>3, <1>4 DEF StreamInv, StreamTypeOK
<1>6. ~Framing /\ frame # <<>>
  BY <1>2 DEF StreamInv, BuildInv
<1>7. BufferInv'
  BY <1>4 DEF StreamInv, BufferInv, Unescaping
<1>8. BuildInv'
  BY <1>4, <1>6 DEF StreamInv, BuildInv, Framing
<1>9. LineInv' /\ SyncInv' /\ FollowInv'
  BY <1>4 DEF LineInv, SyncInv, FollowInv
<1>. QED  BY <1>5, <1>7, <1>8, <1>9 DEF StreamInv

(***************************************************************************)
(* The reader takes a byte off the line.                                   *)
(***************************************************************************)

\* The line loses its first byte, and holds the rest of an undamaged frame.
LEMMA NextByteOnLine ==
  ASSUME StreamInv, NextByte
  PROVE  /\ Head(line) \in Byte
         /\ line \in Seq(Byte) /\ line' \in Seq(Byte) /\ Len(line') = Len(line) - 1
         /\ (line' = <<>>) <=> (Len(line) = 1)
         /\ ~Unescaping /\ ~Framing /\ frame # <<>>
         /\ UNCHANGED <<frame, escaping, sent, intact, frames, found, faults>>
         /\ BuildInv' /\ LineInv'
         /\ intact >= 1 => /\ ReadOf \in Nat /\ ReadOf' = ReadOf + 1 /\ ReadOf < Len(frame)
                           /\ Len(frame) \in Nat
                           /\ (line' = <<>>) <=> (ReadOf + 1 = Len(frame))
                           /\ Head(line) = frame[ReadOf + 1]
                           /\ WholeFrame(frame, sent)
<1>1. line \in Seq(Byte) /\ frame \in Seq(Byte) /\ line # <<>> /\ line' = Tail(line)
  BY DEF NextByte, StreamInv, StreamTypeOK
<1>2. /\ Head(line) \in Byte /\ Head(line) = line[1] /\ line' \in Seq(Byte)
      /\ Len(line) \in Nat /\ Len(line) >= 1 /\ Len(line') = Len(line) - 1
      /\ \A i \in 1 .. Len(line') : line'[i] = line[i + 1]
  BY <1>1
<1>3. (line' = <<>>) <=> (Len(line) = 1)
  BY <1>2
<1>4. ~Unescaping
  BY DEF NextByte
<1>5. ~Framing /\ frame # <<>>
  BY <1>1 DEF StreamInv, BuildInv
<1>6. UNCHANGED <<frame, escaping, sent, intact, frames, found, faults>>
  BY DEF NextByte, deviceVars
<1>7. BuildInv'
  BY <1>5, <1>6 DEF StreamInv, BuildInv, Framing
<1>8. ASSUME intact >= 1
      PROVE  /\ ReadOf \in Nat /\ ReadOf' = ReadOf + 1 /\ ReadOf < Len(frame)
             /\ Len(frame) \in Nat
             /\ (line' = <<>>) <=> (ReadOf + 1 = Len(frame))
             /\ Head(line) = frame[ReadOf + 1]
             /\ WholeFrame(frame, sent)
  <2>1. Len(line) <= Len(frame) /\ \A i \in 1 .. Len(line) : line[i] = frame[ReadOf + i]
    BY <1>5, <1>8 DEF StreamInv, LineInv
  <2>2. Len(frame) \in Nat
    BY <1>1
  <2>3. ReadOf = Len(frame) - Len(line) /\ ReadOf' = Len(frame) - Len(line')
    BY <1>6 DEF ReadOf
  <2>4. ReadOf \in Nat /\ ReadOf' = ReadOf + 1 /\ ReadOf < Len(frame)
    BY <1>2, <2>1, <2>2, <2>3
  <2>5. (line' = <<>>) <=> (ReadOf + 1 = Len(frame))
    BY <1>2, <1>3, <2>2, <2>3
  <2>6. Head(line) = frame[ReadOf + 1]
    BY <1>2, <2>1
  <2>7. WholeFrame(frame, sent)
    BY <1>5 DEF StreamInv, BuildInv
  <2>. QED  BY <2>2, <2>4, <2>5, <2>6, <2>7
<1>9. LineInv'
  <2>. SUFFICES ASSUME intact' >= 1
                PROVE  /\ Len(line') <= Len(frame')
                       /\ \A i \in 1 .. Len(line') : line'[i] = frame'[ReadOf' + i]
    BY DEF LineInv
  <2>1. Len(line) <= Len(frame) /\ \A i \in 1 .. Len(line) : line[i] = frame[ReadOf + i]
    BY <1>5, <1>6 DEF StreamInv, LineInv
  <2>2. ReadOf' = ReadOf + 1 /\ ReadOf \in Nat /\ Len(frame) \in Nat
    BY <1>6, <1>8
  <2>3. ASSUME NEW i \in 1 .. Len(line') PROVE line'[i] = frame[ReadOf' + i]
    <3>1. i + 1 \in 1 .. Len(line) /\ ReadOf' + i = ReadOf + (i + 1)
      BY <1>2, <2>2
    <3>. QED  BY <1>2, <2>1, <3>1
  <2>4. Len(line') <= Len(frame)
    BY <1>2, <2>1, <2>2
  <2>5. frame' = frame
    BY <1>6
  <2>. QED  BY <2>3, <2>4, <2>5
<1>. QED  BY <1>1, <1>2, <1>3, <1>4, <1>5, <1>6, <1>7, <1>8, <1>9

\* The byte an undamaged frame goes on with, its rank in the frame, and whether
\* the frame escapes it: what a parser that agrees with the frame is given.
Upcoming(b, r, esc) ==
  \/ r = 0 /\ b = "STX" /\ line' # <<>>
     /\ \E n \in 0 .. Len(sent) : Passed(sent, 1, n, FALSE)
  \/ r > 0 /\ b = "ETX" /\ ~esc /\ line' = <<>>
  \/ r > 0 /\ b = "DLE" /\ ~esc /\ line' # <<>>
     /\ \E n \in 0 .. Len(sent) : Passed(sent, r + 1, n, TRUE)
  \/ r > 0 /\ (esc \/ b \notin Control) /\ line' # <<>>
     /\ \E n \in 0 .. Len(sent) : Passed(sent, r + 1, n, FALSE)

LEMMA NextByteInFrame ==
  ASSUME StreamInv, NextByte, intact >= 1
  PROVE  \E esc \in BOOLEAN :
           /\ ReadOf > 0 /\ buffer # <<>> => isEscaped = esc
           /\ Upcoming(Head(line), ReadOf, esc)
<1>. DEFINE r == ReadOf
            b == Head(line)
<1>1. /\ r \in Nat /\ r < Len(frame) /\ Len(frame) \in Nat /\ line # <<>> /\ ~Framing
      /\ (line' = <<>>) <=> (r + 1 = Len(frame))
      /\ b = frame[r + 1]
      /\ WholeFrame(frame, sent)
  BY NextByteOnLine DEF NextByte
<1>2. sent \in Seq(Byte) /\ Len(sent) \in Nat
  BY PayloadType DEF StreamInv, StreamTypeOK
<1>3. CASE r = 0
  <2>1. b = "STX"
    BY <1>1, <1>3 DEF WholeFrame, Holds
  <2>2. Passed(sent, 1, 0, FALSE)
    <3>1. FramePlace(sent, 0) = 1
      BY PlaceStep
    <3>. QED  BY <1>2, <3>1 DEF Passed
  <2>3. line' # <<>>
    <3>1. FramePlace(sent, Len(sent)) \in Nat /\ Len(sent) + 1 <= FramePlace(sent, Len(sent))
      BY <1>2, PlaceStep
    <3>. QED  BY <1>2, <1>3, <3>1, <1>1 DEF WholeFrame
  <2>4. 0 \in 0 .. Len(sent)
    BY <1>2
  <2>5. Upcoming(b, r, FALSE)
    BY <1>3, <2>1, <2>2, <2>3, <2>4 DEF Upcoming
  <2>6. ~(r > 0)
    BY <1>3
  <2>. QED  BY <2>5, <2>6
<1>4. CASE r > 0
  <2>1. PICK n \in 0 .. Len(sent), esc \in BOOLEAN :
          Passed(sent, r, n, esc) /\ (buffer # <<>> => isEscaped = esc)
    BY <1>1, <1>4 DEF StreamInv, SyncInv
  <2>2. /\ n \in Nat /\ Len(frame) \in Nat /\ r < Len(frame)
        /\ \/ frame[r + 1] = "ETX" /\ ~esc /\ n = Len(sent) /\ r + 1 = Len(frame)
           \/ /\ frame[r + 1] = "DLE" /\ ~esc /\ r + 1 < Len(frame)
              /\ Passed(sent, r + 1, n, TRUE)
           \/ /\ n < Len(sent) /\ frame[r + 1] = sent[n + 1] /\ r + 1 < Len(frame)
              /\ (esc \/ frame[r + 1] \notin Control)
              /\ Passed(sent, r + 1, n + 1, FALSE)
    <3>. HIDE DEF r
    <3>. QED  BY <1>1, <1>2, <2>1, NextInFrame
  <2>3. CASE frame[r + 1] = "ETX" /\ ~esc /\ r + 1 = Len(frame)
    <3>1. Upcoming(b, r, esc)
      BY <1>1, <1>4, <2>3 DEF Upcoming
    <3>. QED  BY <2>1, <3>1
  <2>4. CASE /\ frame[r + 1] = "DLE" /\ ~esc /\ r + 1 < Len(frame)
             /\ Passed(sent, r + 1, n, TRUE)
    <3>1. line' # <<>>
      BY <1>1, <2>4
    <3>2. Upcoming(b, r, esc)
      BY <1>1, <1>4, <2>4, <3>1 DEF Upcoming
    <3>. QED  BY <2>1, <3>2
  <2>5. CASE /\ n < Len(sent) /\ r + 1 < Len(frame)
             /\ (esc \/ frame[r + 1] \notin Control)
             /\ Passed(sent, r + 1, n + 1, FALSE)
    <3>1. n + 1 \in 0 .. Len(sent) /\ line' # <<>>
      BY <1>1, <1>2, <2>2, <2>5
    <3>2. Upcoming(b, r, esc)
      BY <1>1, <1>4, <2>5, <3>1 DEF Upcoming
    <3>. QED  BY <2>1, <3>2
  <2>. QED  BY <2>2, <2>3, <2>4, <2>5
<1>5. r = 0 \/ r > 0
  BY <1>1
<1>. QED  BY <1>3, <1>4, <1>5

\* What the parser does with a byte of an undamaged frame keeps it in step.
LEMMA SyncKept ==
  ASSUME StreamInv, NextByte, NEW esc \in BOOLEAN,
         ReadOf > 0 /\ buffer # <<>> => isEscaped = esc,
         Upcoming(Head(line), ReadOf, esc),
         AwaitFrame \/ DropFrame \/ TakeByte \/ EndFrame
  PROVE  /\ line' # <<>> => ~Unescaping'
         /\ line' # <<>> =>
              \E n \in 0 .. Len(sent), e \in BOOLEAN :
                Passed(sent, ReadOf + 1, n, e) /\ (buffer' # <<>> => isEscaped' = e)
         /\ line' = <<>> /\ ~Unescaping' => buffer' = <<>> /\ ~isEscaped'
<1>. DEFINE b == Head(line)
            r == ReadOf
<1>1. ~Unescaping /\ isEscaped \in BOOLEAN
  BY DEF NextByte, StreamInv, StreamTypeOK
<1>2. DropFrame => buffer' = <<>> /\ isEscaped' = FALSE /\ ~Unescaping' /\ buffer # <<>>
  BY <1>1 DEF DropFrame, Unescaping
<1>3. AwaitFrame =>
        /\ buffer = <<>> /\ ~Unescaping'
        /\ b = "DLE" /\ ~isEscaped => isEscaped' = TRUE
        /\ ~(b = "DLE" /\ ~isEscaped) => isEscaped' = FALSE
        /\ b # "STX" => buffer' = <<>>
  BY <1>1 DEF AwaitFrame, Escapes, Unescaping
<1>4. TakeByte => /\ buffer # <<>> /\ ~Unescaping' /\ ~(b = "ETX" /\ ~isEscaped)
                  /\ b = "DLE" /\ ~isEscaped => isEscaped' = TRUE
                  /\ ~(b = "DLE" /\ ~isEscaped) => isEscaped' = FALSE
  BY <1>1 DEF TakeByte, Escapes, Unescaping
<1>5. EndFrame => /\ buffer # <<>> /\ b = "ETX" /\ ~isEscaped /\ Unescaping'
                  /\ isEscaped' = FALSE
  BY <1>1 DEF EndFrame, Unescaping
<1>6. CASE r = 0 /\ b = "STX" /\ line' # <<>> /\ \E n \in 0 .. Len(sent) : Passed(sent, 1, n, FALSE)
  <2>1. ~Unescaping' /\ (buffer' # <<>> => isEscaped' = FALSE)
    BY <1>2, <1>3, <1>4, <1>5, <1>6
  <2>2. PICK n \in 0 .. Len(sent) : Passed(sent, r + 1, n, FALSE)
    <3>1. r + 1 = 1
      BY <1>6
    <3>. QED  BY <1>6, <3>1
  <2>. QED  BY <1>6, <2>1, <2>2
<1>7. CASE r > 0 /\ b = "ETX" /\ ~esc /\ line' = <<>>
  BY <1>2, <1>3, <1>4, <1>5, <1>7
<1>8. CASE /\ r > 0 /\ b = "DLE" /\ ~esc /\ line' # <<>>
           /\ \E n \in 0 .. Len(sent) : Passed(sent, r + 1, n, TRUE)
  <2>1. ~Unescaping' /\ (buffer' # <<>> => isEscaped' = TRUE)
    BY <1>2, <1>3, <1>4, <1>5, <1>8
  <2>2. PICK n \in 0 .. Len(sent) : Passed(sent, r + 1, n, TRUE)
    BY <1>8
  <2>. QED  BY <1>8, <2>1, <2>2
<1>9. CASE /\ r > 0 /\ (esc \/ b \notin Control) /\ line' # <<>>
           /\ \E n \in 0 .. Len(sent) : Passed(sent, r + 1, n, FALSE)
  <2>1. b \notin Control => b # "DLE" /\ b # "ETX" /\ b # "STX"
    BY DEF Control
  <2>2. ~Unescaping' /\ (buffer' # <<>> => isEscaped' = FALSE)
    <3>1. CASE AwaitFrame
      <4>1. b = "STX" => isEscaped' = FALSE
        BY <1>3, <3>1
      <4>. QED  BY <1>3, <3>1, <4>1
    <3>2. CASE DropFrame
      BY <1>2, <3>2
    <3>3. CASE TakeByte
      BY <1>4, <1>9, <2>1, <3>3
    <3>4. CASE EndFrame
      BY <1>5, <1>9, <2>1, <3>4
    <3>. QED  BY <3>1, <3>2, <3>3, <3>4
  <2>3. PICK n \in 0 .. Len(sent) : Passed(sent, r + 1, n, FALSE)
    BY <1>9
  <2>. QED  BY <1>9, <2>2, <2>3
<1>. QED  BY <1>6, <1>7, <1>8, <1>9 DEF Upcoming

LEMMA ParserSync ==
  StreamInv /\ NextByte /\ (AwaitFrame \/ DropFrame \/ TakeByte \/ EndFrame) => SyncInv'
<1>. SUFFICES ASSUME StreamInv, NextByte, AwaitFrame \/ DropFrame \/ TakeByte \/ EndFrame,
                     intact' >= 1
              PROVE  /\ line' # <<>> => ~Unescaping'
                     /\ line' # <<>> /\ ReadOf' > 0 =>
                          \E n \in 0 .. Len(sent'), e \in BOOLEAN :
                            Passed(sent', ReadOf', n, e) /\ (buffer' # <<>> => isEscaped' = e)
                     /\ line' = <<>> /\ ~Unescaping' => buffer' = <<>> /\ ~isEscaped'
  BY DEF SyncInv
<1>1. intact >= 1 /\ ReadOf' = ReadOf + 1 /\ sent' = sent
  BY NextByteOnLine
<1>2. PICK esc \in BOOLEAN : /\ ReadOf > 0 /\ buffer # <<>> => isEscaped = esc
                             /\ Upcoming(Head(line), ReadOf, esc)
  BY <1>1, NextByteInFrame
<1>3. /\ line' # <<>> => ~Unescaping'
      /\ line' # <<>> =>
           \E n \in 0 .. Len(sent), e \in BOOLEAN :
             Passed(sent, ReadOf + 1, n, e) /\ (buffer' # <<>> => isEscaped' = e)
      /\ line' = <<>> /\ ~Unescaping' => buffer' = <<>> /\ ~isEscaped'
  BY <1>2, SyncKept
<1>. QED  BY <1>1, <1>3

\* A frame fits into the buffer.
LEMMA FrameFits == StreamInv /\ WholeFrame(frame, sent) => Len(frame) <= Capacity
<1>. SUFFICES ASSUME StreamInv, WholeFrame(frame, sent) PROVE Len(frame) <= Capacity
  OBVIOUS
<1>1. Len(sent) \in Nat /\ Len(sent) <= MaxPayload
  BY PayloadType DEF StreamInv, StreamTypeOK
<1>2. FramePlace(sent, Len(sent)) \in Nat /\ FramePlace(sent, Len(sent)) <= 2 * Len(sent) + 1
  BY <1>1, PlaceStep
<1>. QED  BY <1>1, <1>2, MessageStreamAssumption DEF WholeFrame

\* A parser that has the frame so far takes its next byte: only the first
\* byte begins a buffer, none overflows it, and ETX ends the line.
LEMMA FollowerReads ==
  ASSUME StreamInv, NextByte, intact = 2,
         AwaitFrame \/ DropFrame \/ TakeByte \/ EndFrame
  PROVE  /\ ~DropFrame /\ found = <<>>
         /\ buffer' \in Seq(Byte) /\ Len(buffer') = ReadOf + 1
         /\ \A i \in 1 .. ReadOf + 1 : buffer'[i] = frame[i]
         /\ line' = <<>> <=> EndFrame
<1>1. /\ Head(line) \in Byte /\ line # <<>> /\ ~Unescaping
      /\ ReadOf \in Nat /\ ReadOf < Len(frame) /\ Len(frame) \in Nat
      /\ Head(line) = frame[ReadOf + 1] /\ WholeFrame(frame, sent)
  BY NextByteOnLine DEF NextByte
<1>2. /\ found = <<>> /\ Len(buffer) = ReadOf
      /\ \A i \in 1 .. ReadOf : buffer[i] = frame[i]
      /\ ReadOf = 0 => ~isEscaped
  BY <1>1 DEF StreamInv, FollowInv
<1>3. buffer \in Seq(Byte) /\ isEscaped \in BOOLEAN
  BY DEF StreamInv, StreamTypeOK
<1>4. buffer = <<>> <=> ReadOf = 0
  BY <1>1, <1>2, <1>3
<1>5. ~DropFrame
  <2>1. Len(frame) <= Capacity /\ Capacity \in Nat
    BY <1>1, FrameFits, MessageStreamAssumption
  <2>. QED  BY <1>1, <1>2, <2>1 DEF DropFrame
<1>6. PICK esc \in BOOLEAN : /\ ReadOf > 0 /\ buffer # <<>> => isEscaped = esc
                             /\ Upcoming(Head(line), ReadOf, esc)
  BY NextByteInFrame
<1>7. buffer' = Append(buffer, Head(line))
  <2>1. CASE AwaitFrame
    <3>1. buffer = <<>> /\ ~isEscaped /\ ReadOf = 0
      BY <1>2, <1>4, <2>1 DEF AwaitFrame
    <3>2. Head(line) = "STX"
      BY <1>6, <3>1 DEF Upcoming
    <3>. QED  BY <1>1, <2>1, <3>1, <3>2 DEF AwaitFrame
  <2>2. CASE TakeByte \/ EndFrame
    BY <2>2 DEF TakeByte, EndFrame
  <2>. QED  BY <1>5, <2>1, <2>2
<1>8. /\ buffer' \in Seq(Byte) /\ Len(buffer') = ReadOf + 1
      /\ \A i \in 1 .. ReadOf + 1 : buffer'[i] = frame[i]
  BY <1>1, <1>2, <1>3, <1>7
<1>9. EndFrame => line' = <<>>
  <2>. SUFFICES ASSUME EndFrame PROVE line' = <<>>
    OBVIOUS
  <2>1. Head(line) = "ETX" /\ ~isEscaped /\ buffer # <<>> /\ ReadOf > 0
    BY <1>1, <1>4 DEF EndFrame
  <2>2. isEscaped = esc
    BY <1>6, <2>1
  <2>. QED  BY <1>6, <2>1, <2>2 DEF Upcoming, Control
<1>10. line' = <<>> => EndFrame
  <2>. SUFFICES ASSUME line' = <<>> PROVE EndFrame
    OBVIOUS
  <2>1. ReadOf > 0 /\ Head(line) = "ETX" /\ ~esc
    BY <1>6 DEF Upcoming
  <2>2. buffer # <<>> /\ ~isEscaped
    BY <1>4, <1>6, <2>1
  <2>. QED  BY <1>5, <2>1, <2>2 DEF AwaitFrame, TakeByte
<1>. QED  BY <1>2, <1>5, <1>8, <1>9, <1>10

LEMMA ParserFollow ==
  StreamInv /\ NextByte /\ (AwaitFrame \/ DropFrame \/ TakeByte \/ EndFrame) => FollowInv'
<1>. SUFFICES ASSUME StreamInv, NextByte, AwaitFrame \/ DropFrame \/ TakeByte \/ EndFrame,
                     intact' = 2
              PROVE  FollowInv'
  BY DEF FollowInv
<1>1. /\ ~Unescaping /\ intact = 2 /\ ReadOf \in Nat /\ ReadOf' = ReadOf + 1
      /\ UNCHANGED <<frame, sent, found>> /\ ~Framing'
      /\ Len(frame) \in Nat
  BY NextByteOnLine DEF Framing
<1>2. /\ found = <<>>
      /\ Len(buffer') = ReadOf + 1
      /\ \A i \in 1 .. ReadOf + 1 : buffer'[i] = frame[i]
      /\ line' = <<>> <=> EndFrame
  BY <1>1, FollowerReads
<1>3. EndFrame => unescape' = [next |-> 2, bytes |-> <<>>, escaped |-> FALSE]
  BY DEF EndFrame
<1>4. ~EndFrame => ~Unescaping'
  BY <1>1 DEF AwaitFrame, DropFrame, TakeByte, Unescaping
<1>5. Unescaping' =>
        /\ Len(unescape'.bytes) <= Len(sent')
        /\ \A i \in 1 .. Len(unescape'.bytes) : unescape'.bytes[i] = sent'[i]
        /\ Passed(sent', unescape'.next - 1, Len(unescape'.bytes), unescape'.escaped)
  <2>. SUFFICES ASSUME Unescaping'
                PROVE  /\ Len(unescape'.bytes) <= Len(sent')
                       /\ \A i \in 1 .. Len(unescape'.bytes) : unescape'.bytes[i] = sent'[i]
                       /\ Passed(sent', unescape'.next - 1, Len(unescape'.bytes), unescape'.escaped)
    OBVIOUS
  <2>1. /\ unescape'.next - 1 = 1 /\ Len(unescape'.bytes) = 0 /\ unescape'.escaped = FALSE
    BY <1>3, <1>4
  <2>2. Len(sent') \in Nat
    BY <1>1, PayloadType DEF StreamInv, StreamTypeOK
  <2>3. FramePlace(sent', 0) = 1
    BY PlaceStep
  <2>4. Passed(sent', 1, 0, FALSE)
    BY <2>2, <2>3 DEF Passed
  <2>5. Passed(sent', unescape'.next - 1, Len(unescape'.bytes), unescape'.escaped)
    BY <2>1, <2>4, Zenon
  <2>. QED  BY <2>1, <2>2, <2>5
<1>6. ~(line' = <<>> /\ ~Framing' /\ ~Unescaping')
  BY <1>2, <1>3 DEF Unescaping
<1>. QED  BY <1>1, <1>2, <1>5, <1>6 DEF FollowInv

LEMMA ParserInv ==
  StreamInv /\ (AwaitFrame \/ DropFrame \/ TakeByte \/ EndFrame) => StreamInv'
<1>. SUFFICES ASSUME StreamInv, AwaitFrame \/ DropFrame \/ TakeByte \/ EndFrame
              PROVE  StreamInv'
  OBVIOUS
<1>. DEFINE b == Head(line)
<1>1. NextByte
  BY DEF AwaitFrame, DropFrame, TakeByte, EndFrame
<1>2. /\ b \in Byte /\ line' \in Seq(Byte) /\ ~Unescaping
      /\ UNCHANGED <<frame, escaping, sent, intact, frames, found, faults>>
      /\ BuildInv' /\ LineInv'
  BY <1>1, NextByteOnLine
<1>3. /\ buffer \in Seq(Byte) /\ Len(buffer) <= Capacity /\ isEscaped \in BOOLEAN
      /\ Capacity \in Nat
      /\ buffer # <<>> => buffer[1] = "STX"
      /\ unescape \in [next : Nat, bytes : Seq(Byte), escaped : BOOLEAN]
  BY MessageStreamAssumption DEF StreamInv, StreamTypeOK, BufferInv
<1>4. Escapes(b) \in BOOLEAN
  BY DEF Escapes
<1>5. /\ buffer' \in Seq(Byte) /\ Len(buffer') <= Capacity /\ isEscaped' \in BOOLEAN
      /\ unescape' \in [next : Nat, bytes : Seq(Byte), escaped : BOOLEAN]
      /\ BufferInv'
  <2>1. CASE AwaitFrame
    <3>1. isEscaped' = Escapes(b) /\ unescape' = unescape
      BY <2>1 DEF AwaitFrame
    <3>2. buffer' = IF b = "STX" /\ ~isEscaped THEN <<b>> ELSE <<>>
      BY <2>1 DEF AwaitFrame
    <3>3. /\ buffer' \in Seq(Byte) /\ Len(buffer') <= Capacity
          /\ buffer' # <<>> => buffer'[1] = "STX"
      <4>1. Capacity >= 1
        BY MessageStreamAssumption
      <4>2. CASE b = "STX" /\ ~isEscaped
        BY <1>2, <1>3, <3>2, <4>1, <4>2
      <4>3. CASE ~(b = "STX" /\ ~isEscaped)
        BY <1>2, <1>3, <3>2, <4>3
      <4>. QED  BY <4>2, <4>3
    <3>4. ~Unescaping'
      BY <1>2, <3>1 DEF Unescaping
    <3>5. BufferInv'
      BY <3>3, <3>4 DEF BufferInv
    <3>. QED  BY <1>3, <1>4, <3>1, <3>3, <3>5
  <2>2. CASE DropFrame
    <3>1. buffer' = <<>> /\ isEscaped' = FALSE /\ unescape' = unescape
      BY <2>2 DEF DropFrame
    <3>2. ~Unescaping'
      BY <1>2, <3>1 DEF Unescaping
    <3>3. BufferInv'
      BY <3>1, <3>2 DEF BufferInv
    <3>4. buffer' \in Seq(Byte) /\ Len(buffer') <= Capacity
      BY <1>3, <3>1
    <3>5. isEscaped' \in BOOLEAN
      BY <3>1
    <3>. QED  BY <1>3, <3>1, <3>3, <3>4, <3>5
  <2>3. CASE TakeByte
    <3>1. /\ buffer # <<>> /\ Len(buffer) < Capacity /\ buffer' = Append(buffer, b)
          /\ isEscaped' = Escapes(b) /\ unescape' = unescape
      BY <2>3 DEF TakeByte
    <3>2. /\ buffer' \in Seq(Byte) /\ Len(buffer') <= Capacity /\ buffer'[1] = "STX"
      BY <1>2, <1>3, <3>1
    <3>. QED  BY <1>2, <1>3, <1>4, <3>1, <3>2 DEF BufferInv, Unescaping
  <2>4. CASE EndFrame
    <3>1. /\ buffer # <<>> /\ Len(buffer) < Capacity /\ buffer' = Append(buffer, b) /\ b = "ETX"
          /\ isEscaped' = isEscaped
          /\ unescape' = [next |-> 2, bytes |-> <<>>, escaped |-> FALSE]
      BY <2>4 DEF EndFrame
    <3>2. /\ buffer' \in Seq(Byte) /\ Len(buffer') <= Capacity /\ buffer'[1] = "STX"
          /\ Len(buffer') \in Nat /\ 2 <= Len(buffer') /\ buffer'[Len(buffer')] = "ETX"
      BY <1>2, <1>3, <3>1
    <3>3. unescape' \in [next : Nat, bytes : Seq(Byte), escaped : BOOLEAN]
      BY <3>1
    <3>4. BufferInv'
      BY <3>1, <3>2 DEF BufferInv
    <3>. QED  BY <1>3, <3>1, <3>2, <3>3, <3>4
  <2>. QED  BY <2>1, <2>2, <2>3, <2>4
<1>6. StreamTypeOK'
  BY <1>2, <1>5 DEF StreamInv, StreamTypeOK
<1>7. SyncInv' /\ FollowInv'
  BY <1>1, ParserSync, ParserFollow
<1>. QED  BY <1>2, <1>5, <1>6, <1>7 DEF StreamInv

(***************************************************************************)
(* unescape_bytes.                                                         *)
(***************************************************************************)

\* In a buffered frame, unescape_bytes is as far in the payload as it has bytes.
LEMMA UnescapeFollows ==
  ASSUME StreamInv, Unescaping, intact = 2
  PROVE  /\ line = <<>> /\ found = <<>> /\ ~Framing /\ sent \in Seq(Byte) /\ Len(sent) \in Nat
         /\ WholeFrame(frame, sent) /\ Len(frame) \in Nat /\ Len(buffer) = Len(frame)
         /\ \A i \in 1 .. Len(frame) : buffer[i] = frame[i]
         /\ Len(unescape.bytes) \in Nat /\ Len(unescape.bytes) <= Len(sent)
         /\ \A i \in 1 .. Len(unescape.bytes) : unescape.bytes[i] = sent[i]
         /\ Passed(sent, unescape.next - 1, Len(unescape.bytes), unescape.escaped)
         /\ unescape.next \in 2 .. Len(frame)
<1>1. ~Framing
  BY DEF StreamInv, BuildInv
<1>2. line = <<>>
  BY <1>1 DEF StreamInv, SyncInv
<1>3. frame # <<>> /\ WholeFrame(frame, sent)
  BY <1>1 DEF StreamInv, BuildInv
<1>4. frame \in Seq(Byte) /\ sent \in Seq(Byte) /\ Len(unescape.bytes) \in Nat
  BY PayloadType DEF StreamInv, StreamTypeOK
<1>5. ReadOf = Len(frame)
  BY <1>2, <1>4 DEF ReadOf
<1>6. /\ found = <<>> /\ Len(buffer) = Len(frame)
      /\ \A i \in 1 .. Len(frame) : buffer[i] = frame[i]
      /\ Len(unescape.bytes) <= Len(sent)
      /\ \A i \in 1 .. Len(unescape.bytes) : unescape.bytes[i] = sent[i]
      /\ Passed(sent, unescape.next - 1, Len(unescape.bytes), unescape.escaped)
  BY <1>5 DEF StreamInv, FollowInv
<1>7. unescape.next \in 2 .. Len(buffer)
  BY DEF StreamInv, BufferInv
<1>. QED  BY <1>1, <1>2, <1>3, <1>4, <1>6, <1>7

LEMMA UnescapeByteInv == StreamInv /\ UnescapeByte => StreamInv'
<1>. SUFFICES ASSUME StreamInv, UnescapeByte PROVE StreamInv'
  OBVIOUS
<1>. DEFINE b == buffer[unescape.next]
            skip == b = "DLE" /\ ~unescape.escaped
<1>1. /\ Unescaping /\ unescape.next < Len(buffer) /\ unescape.next \in 2 .. Len(buffer)
      /\ buffer \in Seq(Byte)
      /\ unescape \in [next : Nat, bytes : Seq(Byte), escaped : BOOLEAN]
  BY DEF UnescapeByte, StreamInv, StreamTypeOK, BufferInv
<1>2. /\ unescape'.next = unescape.next + 1 /\ unescape'.escaped = skip
      /\ unescape'.bytes = IF skip THEN unescape.bytes ELSE Append(unescape.bytes, b)
      /\ unescape' = [next |-> unescape.next + 1, escaped |-> skip,
                      bytes |-> IF skip THEN unescape.bytes ELSE Append(unescape.bytes, b)]
  BY DEF UnescapeByte
<1>3. UNCHANGED <<frame, escaping, line, buffer, isEscaped, found, sent, intact, faults, frames>>
  BY DEF UnescapeByte, deviceVars
<1>4. b \in Byte
  BY <1>1
<1>5. unescape' \in [next : Nat, bytes : Seq(Byte), escaped : BOOLEAN]
  BY <1>1, <1>2, <1>4
<1>6. StreamTypeOK'
  BY <1>3, <1>5 DEF StreamInv, StreamTypeOK
<1>7. Unescaping' /\ unescape'.next \in 2 .. Len(buffer)
  BY <1>1, <1>2 DEF Unescaping
<1>8. BufferInv'
  BY <1>1, <1>3, <1>7 DEF StreamInv, BufferInv
<1>9. BuildInv'
  BY <1>1, <1>3 DEF StreamInv, BuildInv, Framing
<1>10. LineInv'
  BY <1>3 DEF StreamInv, LineInv, Framing, ReadOf
<1>11. SyncInv'
  BY <1>1, <1>3, <1>7 DEF StreamInv, SyncInv, Framing, ReadOf
<1>12. FollowInv'
  <2>. SUFFICES ASSUME intact' = 2 PROVE FollowInv'
    BY DEF FollowInv
  <2>. DEFINE n == Len(unescape.bytes)
              r == unescape.next - 1
  <2>1. intact = 2
    BY <1>3
  <2>2. /\ line = <<>> /\ found = <<>> /\ ~Framing /\ sent \in Seq(Byte) /\ Len(sent) \in Nat
        /\ WholeFrame(frame, sent) /\ Len(frame) \in Nat /\ Len(buffer) = Len(frame)
        /\ \A i \in 1 .. Len(frame) : buffer[i] = frame[i]
        /\ n \in Nat /\ n <= Len(sent) /\ \A i \in 1 .. n : unescape.bytes[i] = sent[i]
        /\ Passed(sent, r, n, unescape.escaped)
        /\ unescape.next \in 2 .. Len(frame)
    BY <1>1, <2>1, UnescapeFollows
  <2>3. r \in Nat /\ r + 1 = unescape.next /\ r + 1 < Len(frame) /\ b = frame[r + 1]
    BY <1>1, <2>2
  <2>4. \/ frame[r + 1] = "ETX" /\ ~unescape.escaped /\ n = Len(sent) /\ r + 1 = Len(frame)
        \/ /\ frame[r + 1] = "DLE" /\ ~unescape.escaped /\ r + 1 < Len(frame)
           /\ Passed(sent, r + 1, n, TRUE)
        \/ /\ n < Len(sent) /\ frame[r + 1] = sent[n + 1] /\ r + 1 < Len(frame)
           /\ (unescape.escaped \/ frame[r + 1] \notin Control)
           /\ Passed(sent, r + 1, n + 1, FALSE)
    <3>. HIDE DEF r, n
    <3>. QED  BY <2>2, <2>3, NextInFrame
  <2>5. /\ Len(unescape'.bytes) <= Len(sent)
        /\ \A i \in 1 .. Len(unescape'.bytes) : unescape'.bytes[i] = sent[i]
        /\ Passed(sent, unescape'.next - 1, Len(unescape'.bytes), unescape'.escaped)
    <3>0. unescape'.next - 1 = r + 1 /\ unescape.bytes \in Seq(Byte)
      BY <1>1, <1>2, <2>3
    <3>1. CASE /\ frame[r + 1] = "DLE" /\ ~unescape.escaped
               /\ Passed(sent, r + 1, n, TRUE)
      <4>1. skip
        BY <2>3, <3>1
      <4>2. unescape'.bytes = unescape.bytes /\ unescape'.escaped = TRUE
        BY <1>2, <4>1
      <4>. QED  BY <2>2, <3>0, <3>1, <4>2, Zenon
    <3>2. CASE /\ n < Len(sent) /\ frame[r + 1] = sent[n + 1]
               /\ (unescape.escaped \/ frame[r + 1] \notin Control)
               /\ Passed(sent, r + 1, n + 1, FALSE)
      <4>1. ~skip
        BY <2>3, <3>2 DEF Control
      <4>2. unescape'.bytes = Append(unescape.bytes, b) /\ unescape'.escaped = FALSE
        BY <1>2, <4>1
      <4>3. /\ Len(unescape'.bytes) = n + 1
            /\ \A i \in 1 .. n + 1 : unescape'.bytes[i] = sent[i]
        BY <1>4, <2>2, <2>3, <3>0, <3>2, <4>2
      <4>4. n + 1 <= Len(sent)
        BY <2>2, <3>2
      <4>. QED  BY <3>0, <3>2, <4>2, <4>3, <4>4, Zenon
    <3>3. ~(r + 1 = Len(frame))
      BY <2>2, <2>3
    <3>. QED  BY <2>4, <3>1, <3>2, <3>3
  <2>6. /\ ~Framing' /\ line' = <<>> /\ found' = <<>> /\ ReadOf' = Len(frame)
        /\ Len(frame) # 0
    BY <1>3, <2>2, <2>3 DEF Framing, ReadOf
  <2>. QED  BY <1>3, <1>7, <2>2, <2>5, <2>6 DEF FollowInv
<1>. QED  BY <1>6, <1>8, <1>9, <1>10, <1>11, <1>12 DEF StreamInv

LEMMA FoundPayloadInv == StreamInv /\ FoundPayload => StreamInv'
<1>. SUFFICES ASSUME StreamInv, FoundPayload PROVE StreamInv'
  OBVIOUS
<1>1. /\ Unescaping /\ unescape.next = Len(buffer)
      /\ found' = Append(found, unescape.bytes)
      /\ buffer' = <<>> /\ isEscaped' = FALSE /\ unescape' = NotUnescaping
      /\ UNCHANGED <<frame, escaping, line, sent, intact, faults, frames>>
  BY DEF FoundPayload, deviceVars
<1>2. /\ unescape \in [next : Nat, bytes : Seq(Byte), escaped : BOOLEAN]
      /\ found \in Seq(Seq(Byte)) /\ Capacity \in Nat
  BY MessageStreamAssumption DEF StreamInv, StreamTypeOK
<1>3. found' \in Seq(Seq(Byte))
  BY <1>1, <1>2
<1>4. ~Unescaping' /\ unescape' \in [next : Nat, bytes : Seq(Byte), escaped : BOOLEAN]
  BY <1>1 DEF NotUnescaping, Unescaping
<1>5. /\ buffer' \in Seq(Byte) /\ Len(buffer') <= Capacity
  BY <1>1, <1>2
<1>6. isEscaped' \in BOOLEAN
  BY <1>1
<1>7. StreamTypeOK'
  BY <1>1, <1>3, <1>4, <1>5, <1>6 DEF StreamInv, StreamTypeOK
<1>8. BufferInv'
  BY <1>1, <1>4 DEF BufferInv
<1>9. ~Framing /\ ~Framing'
  BY <1>1 DEF StreamInv, BuildInv, Framing
<1>10. BuildInv'
  BY <1>1, <1>9 DEF StreamInv, BuildInv
<1>11. LineInv'
  BY <1>1, <1>9 DEF StreamInv, LineInv, ReadOf
<1>12. SyncInv'
  BY <1>1, <1>9 DEF StreamInv, SyncInv
<1>13. FollowInv'
  <2>. SUFFICES ASSUME intact' = 2 PROVE FollowInv'
    BY DEF FollowInv
  <2>. DEFINE n == Len(unescape.bytes)
              r == unescape.next - 1
  <2>1. intact = 2
    BY <1>1
  <2>2. /\ line = <<>> /\ found = <<>> /\ sent \in Seq(Byte) /\ Len(sent) \in Nat
        /\ WholeFrame(frame, sent) /\ Len(frame) \in Nat /\ Len(buffer) = Len(frame)
        /\ n \in Nat /\ n <= Len(sent) /\ \A i \in 1 .. n : unescape.bytes[i] = sent[i]
        /\ Passed(sent, r, n, unescape.escaped)
        /\ unescape.next \in 2 .. Len(frame)
    BY <1>1, <2>1, UnescapeFollows
  <2>3. r \in Nat /\ r + 1 = Len(frame)
    BY <1>1, <2>2
  <2>4. n = Len(sent)
    <3>1. \/ n = Len(sent)
          \/ r + 1 < Len(frame)
      <4>. HIDE DEF r, n
      <4>. QED  BY <2>2, <2>3, NextInFrame
    <3>. QED  BY <2>2, <2>3, <3>1
  <2>5. unescape.bytes = sent
    BY <1>2, <2>2, <2>4
  <2>6. found' = <<sent>> /\ sent' = sent /\ line' = <<>>
    BY <1>1, <2>2, <2>5
  <2>. QED  BY <1>4, <1>9, <2>6 DEF FollowInv
<1>. QED  BY <1>7, <1>8, <1>10, <1>11, <1>12, <1>13 DEF StreamInv

LEMMA StreamInvStep == StreamInv /\ [StreamNext]_streamVars => StreamInv'
<1>. SUFFICES ASSUME StreamInv, [StreamNext]_streamVars PROVE StreamInv'
  OBVIOUS
<1>1. CASE StreamNext
  BY <1>1, BeginFrameInv, EscapeByteInv, SendFrameInv, DamageInv, ParserInv,
     UnescapeByteInv, FoundPayloadInv DEF StreamNext
<1>2. CASE UNCHANGED streamVars
  <2>1. UNCHANGED <<frame, escaping, line, buffer, isEscaped, unescape, found,
                    sent, intact, faults, frames>>
    BY <1>2 DEF streamVars, deviceVars, readerVars
  <2>. QED  BY <2>1 DEF StreamInv, StreamTypeOK, BufferInv, BuildInv, LineInv, SyncInv,
                FollowInv, Framing, Unescaping, ReadOf
<1>. QED  BY <1>1, <1>2

(***************************************************************************)
(* The types and the bounds of the parser, its buffer's capacity included. *)
(***************************************************************************)
THEOREM StreamTypes == StreamSpec => []StreamTypeOK
<1>1. StreamInit => StreamInv
  BY StreamInvInit
<1>2. StreamInv /\ [StreamNext]_streamVars => StreamInv'
  BY StreamInvStep
<1>3. StreamInv => StreamTypeOK
  BY DEF StreamInv
<1>. QED  BY <1>1, <1>2, <1>3, PTL DEF StreamSpec

(***************************************************************************)
(* unframe_bytes refuses no buffer that push_byte hands it: its checks of  *)
(* the length, of STX and of ETX hold whatever the line did.               *)
(***************************************************************************)
THEOREM UnframeAccepts == StreamSpec => [](Unescaping => Unframes(buffer))
<1>1. StreamInit => StreamInv
  BY StreamInvInit
<1>2. StreamInv /\ [StreamNext]_streamVars => StreamInv'
  BY StreamInvStep
<1>3. StreamInv => (Unescaping => Unframes(buffer))
  BY DEF StreamInv, StreamTypeOK, BufferInv, Unframes
<1>. QED  BY <1>1, <1>2, <1>3, PTL DEF StreamSpec

(***************************************************************************)
(* Whatever the line did to earlier bytes, one whole frame brings the      *)
(* parser to rest and the next one is found, with the payload that was     *)
(* escaped into it: push_byte, unescape_bytes and escaped_bytes agree on   *)
(* every payload.                                                          *)
(***************************************************************************)
THEOREM StreamResyncs == StreamSpec => []Resyncs
<1>1. StreamInit => StreamInv
  BY StreamInvInit
<1>2. StreamInv /\ [StreamNext]_streamVars => StreamInv'
  BY StreamInvStep
<1>3. StreamInv => Resyncs
  BY StreamInvResyncs
<1>. QED  BY <1>1, <1>2, <1>3, PTL DEF StreamSpec
================================================================================
