----------------------------- MODULE FrameCodec -----------------------------
(***************************************************************************)
(* The frames of internal/protocol: EncodeFrame and ReadFrameWithMode, and *)
(* how the adapter finds out from the registration whether a controller    *)
(* sends sequence numbers.  A client sends a registration and then other   *)
(* frames in its mode; a byte may be changed on the way.                   *)
(***************************************************************************)
EXTENDS Integers, Sequences

CONSTANTS
  ImeiLen,        \* bytes of an IMEI, 15 in the code
  Imeis,          \* IMEIs, padded with zero bytes
  Versions,       \* values of the two version bytes
  Payloads,       \* what is sent after the registration
  TTLs, Seqs,
  Checksum(_),    \* the checksum of a sequence of bytes: CRC16Modbus
  Noise,          \* what may be added to a byte on the way
  NoFrame,        \* a read that fails
  MaxFrames       \* bound: frames that the client sends

VARIABLES
  mode,      \* the client's frame mode
  sent,      \* the frames it sent
  wire,      \* the bytes that are not yet read
  frameMode, \* the mode handleConn reads in
  got,       \* the frames it read
  failed,    \* a read failed and the connection was closed
  garbled,   \* a byte was changed
  resized    \* it was a byte of the length of a frame

frameVars == <<mode, sent, wire, frameMode, got, failed, garbled, resized>>

Base == 256

Byte == 0..(Base - 1)

Digits == 48..57

\* The largest length that the two bytes of the header hold.
MaxDataLen == Base * Base - 1

Frames ==
  [mode : {"compact", "sequenced"}, ttl : Byte, seq : Byte, payload : Seq(Byte)]

ASSUME CodecAssumption ==
  /\ ImeiLen \in Nat \ {0}
  /\ \A imei \in Imeis :
       /\ imei \in Seq(Byte) /\ Len(imei) = ImeiLen
       /\ \E n \in 1..ImeiLen :
            /\ \A i \in 1..n : imei[i] \in Digits
            /\ \A i \in (n + 1)..ImeiLen : imei[i] = 0
  /\ Payloads \subseteq Seq(Byte)
  /\ Versions \cup TTLs \cup Seqs \cup Noise \subseteq Byte
  /\ NoFrame \notin Frames

StartMarker == <<83, 76, 68, 78>>

-----------------------------------------------------------------------------
\* Encoding

LittleEndian(n) == <<n % Base, n \div Base>>

\* Mutant of DataLen: the sequence number is counted in both modes.
DataLenAlways(f) == 2 + Len(f.payload)

DataLen(f) == Len(f.payload) + (IF f.mode = "compact" THEN 1 ELSE 2)

\* EncodeFrame returns an error unless the payload has a command and the length
\* fits its two bytes.
Encodable(f) == f.payload # <<>> /\ DataLen(f) <= MaxDataLen

EncodeFrame(f) ==
  LET seq  == IF f.mode = "compact" THEN <<>> ELSE <<f.seq>>
      body == LittleEndian(DataLen(f)) \o <<f.ttl>> \o seq \o f.payload
  IN  StartMarker \o body \o LittleEndian(Checksum(body))

-----------------------------------------------------------------------------
\* Decoding

\* Mutant of IsRegistration: the IMEI is not looked at.
IsRegistrationAny(p) == Len(p) >= ImeiLen + 3 /\ p[1] = 1

\* ParseRegistrationPayload succeeds: the IMEI without its padding is a number.
IsRegistration(p) ==
  /\ Len(p) >= ImeiLen + 3
  /\ p[1] = 1
  /\ \E n \in 1..ImeiLen :
       /\ \A i \in 1..n : p[i + 1] \in Digits
       /\ \A i \in (n + 1)..ImeiLen : p[i + 1] = 0

isKnownCommandID(cmd) == cmd \in (1..25) \cup {27}

Compact(data) ==
  [mode |-> "compact", ttl |-> data[1], seq |-> 0,
   payload |-> SubSeq(data, 2, Len(data))]
Sequenced(data) ==
  [mode |-> "sequenced", ttl |-> data[1], seq |-> data[2],
   payload |-> SubSeq(data, 3, Len(data))]

\* readAutoFrame: whichever form is a registration, the compact one first; else
\* the sequenced one only if its command is known and the other's is not.
ReadAuto(data) ==
  CASE Len(data) < 2 -> NoFrame
    [] Len(data) = 2 -> Compact(data)
    [] OTHER ->
         LET c == Compact(data)
             s == Sequenced(data)
         IN  IF IsRegistration(c.payload) THEN c
             ELSE IF \/ IsRegistration(s.payload)
                     \/ /\ isKnownCommandID(s.payload[1])
                        /\ ~isKnownCommandID(c.payload[1])
             THEN s ELSE c

ReadData(data, m) ==
  CASE m = "auto"      -> ReadAuto(data)
    [] m = "compact"   -> IF Len(data) < 2 THEN NoFrame ELSE Compact(data)
    [] m = "sequenced" -> IF Len(data) < 3 THEN NoFrame ELSE Sequenced(data)

\* Mutant of CrcMatches: the checksum is not compared.
CrcMatchesAlways(body, crc) == TRUE

CrcMatches(body, crc) == LittleEndian(Checksum(body)) = crc

\* The length in the header, and where the frame ends.
WireLen == wire[5] + Base * wire[6]
FrameEnd == 8 + WireLen

\* ReadFrameWithMode has the bytes it waits for: the header, and the rest unless
\* the header is already wrong.
BadHeader == SubSeq(wire, 1, 4) # StartMarker \/ WireLen < 1
CanRead == Len(wire) >= 6 /\ (BadHeader \/ Len(wire) >= FrameEnd)

ReadFrameWithMode(m) ==
  IF BadHeader \/ ~CrcMatches(SubSeq(wire, 5, FrameEnd - 2),
                              SubSeq(wire, FrameEnd - 1, FrameEnd))
  THEN NoFrame
  ELSE ReadData(SubSeq(wire, 7, FrameEnd - 2), m)

-----------------------------------------------------------------------------
FrameInit ==
  /\ mode \in {"compact", "sequenced"}
  /\ sent = <<>> /\ wire = <<>> /\ got = <<>>
  /\ frameMode = "auto"
  /\ failed = FALSE /\ garbled = FALSE /\ resized = FALSE

Registration(imei, v, w) == <<1>> \o imei \o <<v, w>>

Registrations ==
  {Registration(imei, v, w) : imei \in Imeis, v \in Versions, w \in Versions}

\* The bytes of a frame that hold its length.
LengthBytes == {5, 6}

\* The bytes of a frame arrive as they were sent, or one of them is changed.
Arrives(bytes) ==
  \/ wire' = wire \o bytes /\ UNCHANGED <<garbled, resized>>
  \/ /\ ~garbled
     /\ \E i \in DOMAIN bytes, n \in Noise :
          /\ wire' = wire \o [bytes EXCEPT ![i] = (@ + n) % Base]
          /\ resized' = (i \in LengthBytes)
     /\ garbled' = TRUE

\* The client sends a frame, first its registration.
Send ==
  /\ Len(sent) < MaxFrames
  /\ \E p \in (IF sent = <<>> THEN Registrations ELSE Payloads),
        ttl \in TTLs, seq \in Seqs :
       LET f == [mode |-> mode, ttl |-> ttl, payload |-> p,
                 seq |-> IF mode = "compact" THEN 0 ELSE seq]
       IN  Encodable(f) /\ sent' = Append(sent, f) /\ Arrives(EncodeFrame(f))
  /\ UNCHANGED <<mode, frameMode, got, failed>>

\* handleConn reads a frame.  It closes the connection if that fails or if the
\* first frame is not a registration, whose mode it keeps.
Accepted(f) ==
  f # NoFrame /\ (frameMode = "auto" => IsRegistration(f.payload))

Read ==
  /\ ~failed /\ CanRead
  /\ LET f == ReadFrameWithMode(frameMode)
     IN  \/ /\ ~Accepted(f)
            /\ failed' = TRUE
            /\ UNCHANGED <<wire, frameMode, got>>
         \/ /\ Accepted(f)
            /\ got' = Append(got, f)
            /\ wire' = SubSeq(wire, FrameEnd + 1, Len(wire))
            /\ frameMode' = f.mode
            /\ UNCHANGED failed
  /\ UNCHANGED <<mode, sent, garbled, resized>>

FrameNext == Send \/ Read

FrameSpec == FrameInit /\ [][FrameNext]_frameVars

-----------------------------------------------------------------------------
\* Properties

\* After the registration the adapter reads in the client's mode, whatever the
\* bytes of the registration are (its sequence number may be the number of the
\* registration command) and whichever byte of it but a length was changed.
ModeDetected == got # <<>> /\ ~resized => frameMode = mode

\* The frames that were read are the first ones that were sent.
AsSent == Len(got) <= Len(sent) /\ got = SubSeq(sent, 1, Len(got))

\* What the client sends is read back frame by frame, and nothing of it is left
\* over when the reader waits for more.
RoundTrip ==
  ~garbled => /\ ~failed
              /\ AsSent
              /\ ~CanRead => wire = <<>> /\ got = sent

\* A changed byte, of the marker, the TTL, the sequence number, the payload or
\* the checksum, never makes the adapter take a frame for another one: every
\* frame it reads was sent, in that order.  A changed length is left out: the
\* reader then compares other bytes, and whether they match is up to them.
GarbleDetected == ~resized => AsSent
=============================================================================
