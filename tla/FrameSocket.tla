---------------------------- MODULE FrameSocket -----------------------------
(***************************************************************************)
(* The receiving half of FrameSocket (socket/framesocket.go): frames, each *)
(* a length of FrameLengthSize bytes and its data, arrive in websocket     *)
(* messages that may be cut anywhere; processData puts them together.      *)
(* Bytes are numbers, a slice is a sequence, and nil is the empty sequence *)
(* with a flag of its own where the code tells the two apart.              *)
(***************************************************************************)
EXTENDS Naturals, Sequences, SequencesExt

CONSTANTS
  Data,              \* the data of the frames the server sends, in order
  MaxMessage         \* bound: bytes of a websocket message

\* Bytes of a frame's length.
FrameLengthSize == 3

VARIABLES
  stream,          \* bytes the server has not put into a websocket message yet
  msg,             \* what processData has not used of its message yet
  partialHeader,   \* fs.partialHeader, <<>> when nil
  receiving,       \* fs.incoming is not nil
  incoming,        \* fs.incoming
  incomingLength, receivedLength,
  frames,          \* what was sent on fs.Frames
  panicked         \* a slice expression was out of range

vars == <<stream, msg, partialHeader, receiving, incoming, incomingLength, receivedLength,
          frames, panicked>>

\* SendFrame of the other side: the length, most significant byte first, and the data.
Encode(data) == <<Len(data) \div 65536, (Len(data) \div 256) % 256, Len(data) % 256>> \o data
Decode(m) == m[1] * 65536 + m[2] * 256 + m[3]

Drop(s, n) == SubSeq(s, n + 1, Len(s))
Take(s, n) == SubSeq(s, 1, n)
Zeros(n) == [i \in 1..n |-> 0]

\* copy(dst[at:], src), which stops at the end of the shorter one.
Copy(dst, at, src) ==
  [i \in DOMAIN dst |-> IF i > at /\ i - at <= Len(src) THEN src[i - at] ELSE dst[i]]

Init ==
  /\ stream = FlattenSeq([i \in DOMAIN Data |-> Encode(Data[i])])
  /\ msg = <<>> /\ partialHeader = <<>>
  /\ receiving = FALSE /\ incoming = <<>>
  /\ incomingLength = 0 /\ receivedLength = 0
  /\ frames = <<>>
  /\ panicked = FALSE

\* readPump: the next websocket message, cut anywhere.
Read ==
  /\ ~panicked /\ msg = <<>>
  /\ \E n \in 1..MaxMessage :
       /\ n <= Len(stream)
       /\ msg' = partialHeader \o Take(stream, n)
       /\ stream' = Drop(stream, n)
  /\ partialHeader' = <<>>
  /\ UNCHANGED <<receiving, incoming, incomingLength, receivedLength, frames, panicked>>

frameComplete(data) ==
  /\ frames' = Append(frames, data)
  /\ receiving' = FALSE /\ incoming' = <<>>
  /\ partialHeader' = <<>>
  /\ incomingLength' = 0 /\ receivedLength' = 0

\* A new frame starts: its length is known, its data may be there or not.
NewFrame ==
  /\ ~panicked /\ msg # <<>> /\ ~receiving
  /\ Len(msg) >= FrameLengthSize
  /\ LET length == Decode(msg)
         rest == Drop(msg, FrameLengthSize)
     IN  \/ /\ Len(rest) >= length
            /\ msg' = Drop(rest, length)
            /\ frameComplete(Take(rest, length))
         \/ /\ Len(rest) < length
            /\ incomingLength' = length
            /\ receivedLength' = Len(msg)
            /\ incoming' = Copy(Zeros(length), 0, rest)
            /\ receiving' = TRUE
            /\ msg' = <<>>
            /\ UNCHANGED <<partialHeader, frames>>
  /\ UNCHANGED <<stream, panicked>>

ShortHeader ==
  /\ ~panicked /\ msg # <<>> /\ ~receiving
  /\ Len(msg) < FrameLengthSize
  /\ partialHeader' = msg
  /\ msg' = <<>>
  /\ UNCHANGED <<stream, receiving, incoming, incomingLength, receivedLength, frames, panicked>>

\* More of a frame that has started.
Continue ==
  /\ ~panicked /\ msg # <<>> /\ receiving
  /\ LET missing == incomingLength - receivedLength
     IN  \/ /\ receivedLength > incomingLength          \* incoming[receivedLength:] panics
            /\ panicked' = TRUE
            /\ UNCHANGED <<msg, partialHeader, receiving, incoming, incomingLength, receivedLength, frames>>
         \/ /\ receivedLength <= incomingLength /\ Len(msg) >= missing
            /\ frameComplete(Copy(incoming, receivedLength, Take(msg, missing)))
            /\ msg' = Drop(msg, missing)
            /\ UNCHANGED panicked
         \/ /\ receivedLength <= incomingLength /\ Len(msg) < missing
            /\ incoming' = Copy(incoming, receivedLength, msg)
            /\ receivedLength' = receivedLength + Len(msg)
            /\ msg' = <<>>
            /\ UNCHANGED <<partialHeader, receiving, incomingLength, frames, panicked>>
  /\ UNCHANGED stream

Next == Read \/ NewFrame \/ ShortHeader \/ Continue

Spec == Init /\ [][Next]_vars

-----------------------------------------------------------------------------
\* However the server's bytes are cut into websocket messages, the frames that
\* reach the noise socket are the ones the server sent, whole and in order, and
\* the read pump survives.
FramesIntact == ~panicked /\ IsPrefix(frames, Data)

=============================================================================
