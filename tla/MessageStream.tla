----------------------------- MODULE MessageStream -----------------------------
(***************************************************************************)
(* serialization.rs: messages wrapped in STX ... ETX with DLE escapes, and *)
(* the MessageStream that the USB readers feed byte by byte.  A line that  *)
(* starts in the middle of a frame, loses a byte or flips one must not     *)
(* keep the parser from the frames that follow.                            *)
(*                                                                         *)
(* A payload is a sequence of bytes told apart by what framing does with   *)
(* them.  Every iteration of a loop over bytes is an action.  The buffer   *)
(* is unbounded with std and bounded without it.                           *)
(***************************************************************************)
EXTENDS Naturals, Sequences, SequencesExt

CONSTANTS
  Capacity,    \* size of UsbDataBuffer without std; with std no frame reaches it
  MaxPayload,  \* bound on the length of a payload
  MaxFaults,   \* bound on the bytes the line damages
  MaxFrames    \* bound on the frames sent

ASSUME MessageStreamAssumption ==
  /\ Capacity \in Nat /\ MaxPayload \in Nat /\ MaxFaults \in Nat /\ MaxFrames \in Nat
  /\ Capacity >= 2 * MaxPayload + 2   \* push(..).unwrap(): a longer frame is never built

Control == {"STX", "ETX", "DLE"}
Byte == Control \cup {"data"}
Payloads == UNION {[1 .. n -> Byte] : n \in 0 .. MaxPayload}

VARIABLES
  frame,      \* device: what frame_bytes has pushed
  escaping,   \* device: payload bytes escaped_bytes has passed, in a frame being built
  line,       \* bytes sent and not yet read
  buffer,     \* MessageStream::buffer
  isEscaped,  \* MessageStream::is_escaped
  unescape,   \* locals of unescape_bytes, while push_byte is in it
  found,      \* the payloads found since the current frame was begun
  sent,       \* history: the current frame's payload
  intact,     \* history: whole frames in a row, the current one included (0 .. 2)
  faults,     \* bytes damaged so far
  frames      \* frames sent so far

deviceVars == <<frame, escaping, sent, intact, frames>>
readerVars == <<buffer, isEscaped, unescape, found>>
streamVars == <<deviceVars, line, readerVars, faults>>

NotFraming == MaxPayload + 1   \* escaping, when no frame is being built

\* next: index in the buffer; bytes: the payload; escaped: is_escaped.
NotUnescaping == [next |-> 0, bytes |-> <<>>, escaped |-> FALSE]
Framing == escaping # NotFraming
Unescaping == unescape.next > 0

StreamTypeOK ==
  /\ frame \in Seq(Byte) /\ escaping \in 0 .. NotFraming
  /\ line \in Seq(Byte)
  /\ buffer \in Seq(Byte) /\ Len(buffer) <= Capacity /\ isEscaped \in BOOLEAN
  /\ unescape \in [next : Nat, bytes : Seq(Byte), escaped : BOOLEAN]
  /\ found \in Seq(Seq(Byte)) /\ sent \in Payloads
  /\ intact \in 0 .. 2 /\ faults \in 0 .. MaxFaults /\ frames \in 0 .. MaxFrames

\* A new parser is at rest, as after a whole frame.
StreamInit ==
  /\ frame = <<>> /\ escaping = NotFraming /\ line = <<>>
  /\ buffer = <<>> /\ isEscaped = FALSE /\ unescape = NotUnescaping /\ found = <<>>
  /\ sent = <<>> /\ intact = 1 /\ faults = 0 /\ frames = 0

(***************************************************************************)
(* frame_bytes and escaped_bytes, and a line that damages bytes.  Only the *)
(* order of the bytes matters to the reader, so that a frame is begun when *)
(* the last one was read.                                                  *)
(***************************************************************************)

BeginFrame ==
  /\ ~Framing /\ line = <<>> /\ ~Unescaping /\ frames < MaxFrames
  /\ sent' \in Payloads
  /\ frame' = <<"STX">>
  /\ escaping' = 0
  /\ found' = <<>>
  /\ intact' = IF intact = 0 THEN 1 ELSE 2
  /\ frames' = frames + 1
  /\ UNCHANGED <<line, buffer, isEscaped, unescape, faults>>

EscapeByte ==
  /\ Framing /\ escaping < Len(sent)
  /\ LET b == sent[escaping + 1] IN
       frame' = frame \o IF b \in Control THEN <<"DLE", b>> ELSE <<b>>
  /\ escaping' = escaping + 1
  /\ UNCHANGED <<line, readerVars, sent, intact, faults, frames>>

SendFrame ==
  /\ Framing /\ escaping = Len(sent)
  /\ frame' = Append(frame, "ETX")
  /\ line' = frame'
  /\ escaping' = NotFraming
  /\ UNCHANGED <<readerVars, sent, intact, faults, frames>>

\* A byte is lost or changed, or the reader opens the port after the frame
\* was begun and misses its beginning.
Damage ==
  /\ line # <<>> /\ faults < MaxFaults
  /\ \E i \in DOMAIN line :
       line' \in {SubSeq(line, i + 1, Len(line)), RemoveAt(line, i)}
                 \cup {[line EXCEPT ![i] = b] : b \in Byte \ {line[i]}}
  /\ intact' = 0
  /\ faults' = faults + 1
  /\ UNCHANGED <<frame, escaping, readerVars, sent, frames>>

(***************************************************************************)
(* MessageStream::push_byte, called for each byte of a read by             *)
(* message_rx_closure, and the unescape_bytes that it calls.               *)
(***************************************************************************)

\* Mutant: an escaped escape byte escapes again.
EscapesAgain(b) == b = "DLE"

Escapes(b) == b = "DLE" /\ ~isEscaped

NextByte ==
  /\ line # <<>> /\ ~Unescaping
  /\ line' = Tail(line)
  /\ UNCHANGED <<deviceVars, found, faults>>

AwaitFrame ==
  LET b == Head(line) IN
    /\ NextByte
    /\ buffer = <<>>
    /\ buffer' = IF b = "STX" /\ ~isEscaped THEN <<b>> ELSE <<>>
    /\ isEscaped' = Escapes(b)
    /\ UNCHANGED unescape

DropFrame ==
  /\ NextByte
  /\ buffer # <<>> /\ Len(buffer) = Capacity
  /\ buffer' = <<>>
  /\ isEscaped' = FALSE
  /\ UNCHANGED unescape

TakeByte ==
  LET b == Head(line) IN
    /\ NextByte
    /\ buffer # <<>> /\ Len(buffer) < Capacity /\ ~(b = "ETX" /\ ~isEscaped)
    /\ buffer' = Append(buffer, b)
    /\ isEscaped' = Escapes(b)
    /\ UNCHANGED unescape

\* The checks of unframe_bytes: they hold of every buffer that gets there.
Unframes(bytes) == Len(bytes) >= 2 /\ bytes[1] = "STX" /\ bytes[Len(bytes)] = "ETX"

EndFrame ==
  LET b == Head(line) IN
    /\ NextByte
    /\ buffer # <<>> /\ Len(buffer) < Capacity /\ b = "ETX" /\ ~isEscaped
    /\ buffer' = Append(buffer, b)
    /\ unescape' = [next |-> 2, bytes |-> <<>>, escaped |-> FALSE]
    /\ UNCHANGED isEscaped

UnescapeByte ==
  /\ Unescaping /\ unescape.next < Len(buffer)
  /\ LET b == buffer[unescape.next]
         skip == b = "DLE" /\ ~unescape.escaped
     IN unescape' = [next |-> unescape.next + 1, escaped |-> skip,
                     bytes |-> IF skip THEN unescape.bytes ELSE Append(unescape.bytes, b)]
  /\ UNCHANGED <<deviceVars, line, buffer, isEscaped, found, faults>>

FoundPayload ==
  /\ Unescaping /\ unescape.next = Len(buffer)
  /\ found' = Append(found, unescape.bytes)
  /\ buffer' = <<>>
  /\ isEscaped' = FALSE
  /\ unescape' = NotUnescaping
  /\ UNCHANGED <<deviceVars, line, faults>>

StreamNext ==
  \/ BeginFrame \/ EscapeByte \/ SendFrame \/ Damage
  \/ AwaitFrame \/ DropFrame \/ TakeByte \/ EndFrame \/ UnescapeByte \/ FoundPayload

StreamSpec == StreamInit /\ [][StreamNext]_streamVars

(***************************************************************************)
(* Whatever the line did before, one whole frame brings the parser to      *)
(* rest, and a whole frame that follows a whole frame is found: it alone,  *)
(* with the payload that was sent (push_byte, lines 127-162).              *)
(***************************************************************************)
Resyncs ==
  line = <<>> /\ ~Framing /\ ~Unescaping =>
    /\ intact >= 1 => buffer = <<>> /\ ~isEscaped
    /\ intact = 2 => found = <<sent>>
================================================================================
