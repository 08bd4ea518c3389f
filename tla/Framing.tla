------------------------------ MODULE Framing ------------------------------
(***************************************************************************)
(* How `read_message` of src/src/transport.rs cuts the byte stream of the  *)
(* port into messages: what module Rpc takes for granted.                  *)
(*                                                                         *)
(* Bytes are their positions in the stream: what has been taken out, what  *)
(* is in `inbuf`, what the driver holds and what is still to come are four *)
(* adjacent stretches of it.  Frames, too, are stretches, and each says a  *)
(* length in its first bytes, which may be wrong.  Every other position    *)
(* says a length as well: the one read there when the buffer happens to    *)
(* start in the middle of a frame.                                         *)
(***************************************************************************)
EXTENDS Integers, FiniteSets

CONSTANTS
    LengthBytes,    \* bytes of the length field: 4
    MinTotal,       \* shortest frame accepted, length field included: 20
    MaxTotal,       \* longest: MAX_MESSAGE_LEN
    ReadBufLen,     \* READ_BUF_LEN
    FrameLengths,   \* lengths of the frames the firmware sends
    SaidLengths,    \* lengths that may be read anywhere
    SaidBy(_),      \* the length said by a position that starts no frame
    WholeFrames,    \* a reset of the channel drops whole frames
    MaxBytes        \* bound: bytes sent in a behaviour

ASSUME FramingAssumption ==
    /\ {LengthBytes, MinTotal, MaxTotal, ReadBufLen, MaxBytes} \subseteq Nat \ {0}
    /\ LengthBytes <= MinTotal /\ MinTotal <= MaxTotal
    /\ FrameLengths \subseteq LengthBytes..MaxBytes
    /\ SaidLengths \subseteq Nat
    /\ \A p \in 0..MaxBytes : SaidBy(p) \in SaidLengths
    /\ WholeFrames \in BOOLEAN

VARIABLES
    frames,     \* the frames sent
    end,        \* the number of bytes sent,
    arrived,    \* ... that the driver holds or has handed over,
    received,   \* ... that were read from the port,
    taken,      \* ... and that were taken from the buffer or dropped
    call,       \* "read_message" or "idle"
    last,       \* how the last call since the port was opened ended
    got,        \* the message it returned
    garbled     \* a frame on its way is malformed or lost its beginning

vars == <<frames, end, arrived, received, taken, call, last, got, garbled>>

Frame == [from : Nat, to : Nat, says : Nat]
Buffered == received - taken

\* The length said by the bytes at position p, the length field included.
SaidAt(p) ==
    IF \E f \in frames : f.from = p
    THEN (CHOOSE f \in frames : f.from = p).says
    ELSE SaidBy(p)

Boundaries == {end} \cup {f.from : f \in frames}
Malformed(f) == f.says # f.to - f.from

TypeOK ==
    /\ frames \subseteq Frame
    /\ end \in 0..MaxBytes
    /\ arrived \in 0..end
    /\ received \in 0..arrived
    /\ taken \in 0..received
    /\ call \in {"idle", "read_message"}
    /\ last \in {"none", "message", "timeout", "error"}
    /\ got \in [from : Nat, to : Nat]
    /\ garbled \in BOOLEAN

Init ==
    /\ frames = {}
    /\ end = 0 /\ arrived = 0 /\ received = 0 /\ taken = 0
    /\ call = "idle" /\ last = "none"
    /\ got = [from |-> 0, to |-> 0]
    /\ garbled = FALSE

-----------------------------------------------------------------------------
(* The firmware and the driver: external. *)

Send(length, says) ==
    /\ end + length <= MaxBytes
    /\ frames' = frames \cup {[from |-> end, to |-> end + length, says |-> says]}
    /\ end' = end + length
    /\ garbled' = (garbled \/ says # length)
    /\ UNCHANGED <<arrived, received, taken, call, last, got>>

\* A frame may reach the driver in pieces.
Arrive(n) ==
    /\ arrived + n <= end
    /\ arrived' = arrived + n
    /\ UNCHANGED <<frames, end, received, taken, call, last, got, garbled>>

-----------------------------------------------------------------------------
(* read_message, one turn of its loop at a time. *)

ReadMessage ==
    /\ call = "idle"
    /\ call' = "read_message"
    /\ UNCHANGED <<frames, end, arrived, received, taken, last, got, garbled>>

Return(how) ==
    /\ call' = "idle"
    /\ last' = how

HasLength == Buffered >= LengthBytes
\* Mutant: no upper bound.
LongEnough == SaidAt(taken) >= MinTotal
\* Mutant: the range leaves out its last length.
BelowMaximum == SaidAt(taken) >= MinTotal /\ SaidAt(taken) < MaxTotal
InRange == SaidAt(taken) \in MinTotal..MaxTotal

\* Mutant: the frame is drained before all of it is there.
DrainEarly ==
    /\ call = "read_message"
    /\ HasLength /\ InRange
    /\ taken' = taken + SaidAt(taken)
    /\ got' = [from |-> taken, to |-> taken + SaidAt(taken)]
    /\ Return("message")
    /\ UNCHANGED <<frames, end, arrived, received, garbled>>

\* Mutant: the length field itself is not counted.
DrainPayload ==
    /\ call = "read_message"
    /\ HasLength /\ InRange /\ Buffered >= SaidAt(taken)
    /\ taken' = taken + SaidAt(taken) - LengthBytes
    /\ got' = [from |-> taken, to |-> taken + SaidAt(taken) - LengthBytes]
    /\ Return("message")
    /\ UNCHANGED <<frames, end, arrived, received, garbled>>

\* A whole frame is buffered, and drained.
Drain ==
    /\ call = "read_message"
    /\ HasLength /\ InRange /\ Buffered >= SaidAt(taken)
    /\ taken' = taken + SaidAt(taken)
    /\ got' = [from |-> taken, to |-> taken + SaidAt(taken)]
    /\ Return("message")
    /\ UNCHANGED <<frames, end, arrived, received, garbled>>

\* Mutant: the bad length is skipped in the hope of better ones.
OutOfSyncSkips ==
    /\ call = "read_message"
    /\ HasLength /\ ~InRange
    /\ taken' = taken + LengthBytes
    /\ Return("error")
    /\ UNCHANGED <<frames, end, arrived, received, got, garbled>>

\* "channel out of sync": nothing is drained.
OutOfSync ==
    /\ call = "read_message"
    /\ HasLength /\ ~InRange
    /\ Return("error")
    /\ UNCHANGED <<frames, end, arrived, received, taken, got, garbled>>

\* Otherwise more bytes are needed, and the call waits for them.
Short == ~HasLength \/ (InRange /\ Buffered < SaidAt(taken))

\* One read returns what the driver has, up to the size of its buffer, or less.
Read(n) ==
    /\ call = "read_message"
    /\ Short
    /\ n <= ReadBufLen /\ received + n <= arrived
    /\ received' = received + n
    /\ UNCHANGED <<frames, end, arrived, taken, call, last, got, garbled>>

\* Mutant: a timeout discards the piece of a frame that was read.
TimeoutDiscards ==
    /\ call = "read_message"
    /\ Short
    /\ taken' = received
    /\ Return("timeout")
    /\ UNCHANGED <<frames, end, arrived, received, got, garbled>>

\* The deadline passes, or the port fails: the bytes read so far stay buffered.
Timeout ==
    /\ call = "read_message"
    /\ Short
    /\ Return("timeout")
    /\ UNCHANGED <<frames, end, arrived, received, taken, got, garbled>>

\* reopen: the buffer is cleared and the channel drops what has arrived, of a
\* frame that is still arriving the rest as well or not.
Reopen ==
    /\ call = "idle"
    /\ arrived' \in IF WholeFrames THEN {p \in Boundaries : p >= arrived} ELSE {arrived}
    /\ \A p \in Boundaries : p >= arrived => arrived' <= p
    /\ received' = arrived' /\ taken' = arrived'
    /\ last' = "none"
    /\ garbled' = (arrived' \notin Boundaries
                   \/ \E f \in frames : f.from >= arrived' /\ Malformed(f))
    /\ UNCHANGED <<frames, end, call, got>>

-----------------------------------------------------------------------------
Next ==
    \/ \E length \in FrameLengths, says \in SaidLengths : Send(length, says)
    \/ \E n \in 1..MaxBytes : Arrive(n)
    \/ ReadMessage
    \/ Drain \/ OutOfSync \/ Timeout
    \/ \E n \in 1..ReadBufLen : Read(n)
    \/ Reopen

Spec == Init /\ [][Next]_vars

-----------------------------------------------------------------------------
(* Properties. *)

\* The buffer starts where a frame does, however the bytes were cut up on their
\* way and whatever calls timed out in the middle of one, until a frame says a
\* wrong length or a reopen drops the beginning of one (read_message,
\* transport.rs:212-238).
InSync == ~garbled => taken \in Boundaries

\* What is returned is then exactly one of the frames sent.
ReturnsFrames ==
    last = "message" /\ ~garbled =>
        \E f \in frames : f.from = got.from /\ f.to = got.to

\* The buffer never holds more than the longest frame, short of a byte, and one
\* read: a length out of range is refused before anything is read for its sake
\* (transport.rs:219-231).
BufferBounded == Buffered <= MaxTotal - 1 + ReadBufLen

\* No frame of an acceptable length is refused, neither the shortest nor the longest:
\* when a call fails for the length it read, the frame that says it is there, whole
\* or on its way, and has that length (transport.rs:218-223).  Again as long as no
\* frame says a wrong length or was cut by a reopen, however the bytes arrive and
\* whichever calls time out in between.
NoFrameRefused ==
    last = "error" /\ ~garbled =>
        \E f \in frames : f.from = taken /\ f.to - f.from \notin MinTotal..MaxTotal

\* Once the channel is out of sync no call returns a message, nor waits for one,
\* until the port is reopened (transport.rs:219-223: nothing is drained).
ErrorSticks == [][last = "error" => last' \in {"error", "none"}]_vars
=============================================================================
