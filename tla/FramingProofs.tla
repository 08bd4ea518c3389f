--------------------------- MODULE FramingProofs ---------------------------
(***************************************************************************)
(* What TLAPS proves about module Framing, for any length limits, read     *)
(* sizes and frames: 4, 20, 1 MiB and 128 KiB in the code.                 *)
(***************************************************************************)
EXTENDS Framing, TLAPS

\* Frames are laid end to end, without a gap between two of them.
Laid ==
    /\ \A f \in frames : f.from < f.to /\ f.to <= end /\ f.to \in Boundaries
    /\ \A f, g \in frames : f.from = g.from => f = g

\* What is ahead of the reader is well-formed, and starts with a frame.
Ahead ==
    ~garbled => /\ taken \in Boundaries
                /\ \A f \in frames : f.from >= taken => ~Malformed(f)

\* Out of sync, the length that was refused is still the first thing buffered.
Stuck == last = "error" => HasLength /\ ~InRange

FramingInv ==
    /\ TypeOK
    /\ Laid
    /\ Ahead
    /\ Stuck
    /\ ReturnsFrames
    /\ BufferBounded

-----------------------------------------------------------------------------
\* The constants are numbers, ordered as the code has them.
LEMMA ConstantTypes ==
    /\ LengthBytes \in Nat /\ MinTotal \in Nat /\ MaxTotal \in Nat /\ ReadBufLen \in Nat
    /\ MaxBytes \in Nat /\ 0 < LengthBytes /\ 0 < ReadBufLen
    /\ LengthBytes <= MinTotal /\ MinTotal <= MaxTotal
BY FramingAssumption

\* The length said where a frame starts is that frame's.
LEMMA SaidAtFrame ==
    ASSUME Laid, NEW f \in frames
    PROVE  SaidAt(f.from) = f.says
BY DEF SaidAt, Laid

\* A frame starts within what was sent.
LEMMA BoundaryType ==
    ASSUME TypeOK, Laid, NEW p \in Boundaries
    PROVE  p \in 0..end
<1>1. end \in Nat /\ frames \subseteq Frame
  BY ConstantTypes DEF TypeOK
<1>2. CASE p = end
  BY <1>1, <1>2
<1>3. CASE \E f \in frames : f.from = p
  <2> PICK f \in frames : f.from = p
    BY <1>3
  <2>1. f.from \in Nat /\ f.to \in Nat /\ f.from < f.to /\ f.to <= end
    BY <1>1 DEF Frame, Laid
  <2> QED BY <1>1, <2>1
<1> QED BY <1>2, <1>3 DEF Boundaries

\* Of an empty stream the invariant holds.
LEMMA InitFraming == Init => FramingInv
<1> SUFFICES ASSUME Init PROVE FramingInv
  OBVIOUS
<1> USE ConstantTypes DEF Init
<1>1. TypeOK
  <2>1. end \in 0..MaxBytes /\ arrived \in 0..end /\ received \in 0..arrived
        /\ taken \in 0..received
    OBVIOUS
  <2>2. frames \subseteq Frame /\ got \in [from : Nat, to : Nat]
    OBVIOUS
  <2>3. /\ call \in {"idle", "read_message"} /\ garbled \in BOOLEAN
        /\ last \in {"none", "message", "timeout", "error"}
    OBVIOUS
  <2> QED BY <2>1, <2>2, <2>3 DEF TypeOK
<1>2. Laid /\ Ahead /\ Stuck /\ ReturnsFrames
  BY DEF Laid, Ahead, Stuck, ReturnsFrames, Boundaries
<1>3. BufferBounded
  BY DEF BufferBounded, Buffered
<1> QED BY <1>1, <1>2, <1>3 DEF FramingInv

-----------------------------------------------------------------------------
(* One lemma per action that moves more than the state of the call. *)

\* A frame sent is laid behind the others, and is a new boundary.
LEMMA SendFraming ==
    ASSUME FramingInv, NEW length \in FrameLengths, NEW says \in SaidLengths,
           Send(length, says)
    PROVE  FramingInv'
<1> DEFINE new == [from |-> end, to |-> end + length, says |-> says]
<1>1. /\ length \in Nat /\ 0 < length /\ says \in Nat /\ end \in Nat /\ frames \subseteq Frame
      /\ received \in Nat /\ taken \in Nat /\ received <= end
  BY FramingAssumption, ConstantTypes DEF FramingInv, TypeOK
<1>2. /\ frames' = frames \cup {new} /\ end' = end + length /\ end' <= MaxBytes
      /\ UNCHANGED <<arrived, received, taken, call, last, got>>
  BY DEF Send
<1>3. garbled' = (garbled \/ says # length)
  BY DEF Send
<1>4. new \in Frame
  BY <1>1 DEF Frame
<1>5. TypeOK'
  <2>1. end' \in 0..MaxBytes /\ arrived' \in 0..end'
    BY <1>1, <1>2, ConstantTypes DEF FramingInv, TypeOK
  <2>2. garbled' \in BOOLEAN
    BY <1>3
  <2>3. frames' \subseteq Frame
    BY <1>1, <1>2, <1>4
  <2> QED BY <1>2, <2>1, <2>2, <2>3 DEF FramingInv, TypeOK
<1>6. Boundaries' = Boundaries \cup {end'}
  <2>1. \A p : p \in Boundaries' <=> p = end' \/ \E f \in frames \cup {new} : f.from = p
    BY <1>2 DEF Boundaries
  <2>2. \A p : p \in Boundaries <=> p = end \/ \E f \in frames : f.from = p
    BY DEF Boundaries
  <2>3. new.from = end
    OBVIOUS
  <2> QED BY <2>1, <2>2, <2>3
<1>7. \A f \in frames : f.from \in Nat /\ f.to \in Nat /\ f.from < f.to /\ f.to <= end
  BY <1>1 DEF FramingInv, Laid, Frame
<1>8. Laid'
  <2>1. \A f \in frames' : f.from < f.to /\ f.to <= end'
    BY <1>1, <1>2, <1>7
  <2>2. \A f \in frames' : f.to \in Boundaries'
    BY <1>2, <1>6 DEF FramingInv, Laid
  <2>3. \A f, g \in frames' : f.from = g.from => f = g
    <3>1. \A f \in frames : f.from # new.from
      BY <1>1, <1>7
    <3> QED BY <1>2, <3>1 DEF FramingInv, Laid
  <2> QED BY <2>1, <2>2, <2>3 DEF Laid
<1>9. Ahead'
  <2> SUFFICES ASSUME ~garbled' PROVE taken' \in Boundaries' /\
                    \A f \in frames' : f.from >= taken' => ~Malformed(f)
    BY DEF Ahead, Malformed
  <2>1. ~garbled /\ says = length
    BY <1>3
  <2>2. ~Malformed(new)
    BY <1>1, <2>1 DEF Malformed
  <2> QED BY <1>2, <1>6, <2>1, <2>2 DEF FramingInv, Ahead
<1>10. Stuck'
  <2> SUFFICES ASSUME last = "error" PROVE HasLength' /\ ~InRange'
    BY <1>2 DEF Stuck
  <2>1. HasLength /\ ~InRange
    BY DEF FramingInv, Stuck
  <2>2. taken # end
    BY <1>1, <2>1, ConstantTypes DEF HasLength, Buffered
  <2>3. SaidAt(taken)' = SaidAt(taken)
    <3>1. CASE \E f \in frames : f.from = taken
      <4> PICK f \in frames : f.from = taken
        BY <3>1
      <4>1. SaidAt(taken) = f.says
        BY SaidAtFrame DEF FramingInv
      <4>2. SaidAt(taken)' = f.says
        BY <1>2, <1>8 DEF SaidAt, Laid
      <4> QED BY <4>1, <4>2
    <3>2. CASE ~\E f \in frames : f.from = taken
      <4>1. ~\E f \in frames' : f.from = taken
        BY <1>2, <2>2, <3>2
      <4> QED BY <1>2, <3>2, <4>1 DEF SaidAt
    <3> QED BY <3>1, <3>2
  <2> QED BY <1>2, <2>1, <2>3 DEF HasLength, Buffered, InRange
<1>11. ReturnsFrames' /\ BufferBounded'
  BY <1>2, <1>3 DEF FramingInv, ReturnsFrames, BufferBounded, Buffered
<1> QED BY <1>5, <1>8, <1>9, <1>10, <1>11 DEF FramingInv

\* A frame is drained as a whole: the reader ends where the next one starts.
LEMMA DrainFraming == FramingInv /\ Drain => FramingInv'
<1> SUFFICES ASSUME FramingInv, Drain PROVE FramingInv'
  OBVIOUS
<1> DEFINE total == SaidAt(taken)
<1>1. /\ HasLength /\ total \in MinTotal..MaxTotal /\ Buffered >= total
      /\ taken' = taken + total
      /\ got' = [from |-> taken, to |-> taken + total]
      /\ last' = "message" /\ call' = "idle"
      /\ UNCHANGED <<frames, end, arrived, received, garbled>>
  BY DEF Drain, Return, InRange
<1>2. /\ taken \in Nat /\ received \in Nat /\ end \in Nat /\ taken <= received /\ received <= end
      /\ arrived \in Nat /\ frames \subseteq Frame
  BY ConstantTypes DEF FramingInv, TypeOK
<1>3. /\ total \in Nat /\ 0 < total /\ taken' \in Nat /\ taken' <= received /\ taken < end
  BY <1>1, <1>2, ConstantTypes DEF HasLength, Buffered
<1>4. TypeOK'
  BY <1>1, <1>2, <1>3 DEF FramingInv, TypeOK
<1>5. Laid'
  BY <1>1 DEF FramingInv, Laid, Boundaries
<1>6. ASSUME ~garbled
      PROVE  \E f \in frames : f.from = taken /\ f.to = taken' /\ f.to \in Boundaries
  <2>1. taken \in Boundaries /\ taken # end
    BY <1>2, <1>3, <1>6 DEF FramingInv, Ahead
  <2>2. PICK f \in frames : f.from = taken
    BY <2>1 DEF Boundaries
  <2>3. total = f.says /\ ~Malformed(f) /\ f.to \in Boundaries
    BY <1>2, <1>6, <2>2, SaidAtFrame DEF FramingInv, Ahead, Laid
  <2>4. f.from \in Nat /\ f.to \in Nat
    BY <1>2 DEF Frame
  <2>5. f.to = taken'
    BY <1>1, <2>2, <2>3, <2>4 DEF Malformed
  <2> QED BY <2>2, <2>3, <2>5
<1>7. Ahead'
  <2> SUFFICES ASSUME ~garbled PROVE taken' \in Boundaries /\
                    \A f \in frames : f.from >= taken' => ~Malformed(f)
    BY <1>1 DEF Ahead, Boundaries, Malformed
  <2>1. taken' \in Boundaries
    BY <1>6
  <2>2. \A f \in frames : f.from >= taken' => f.from >= taken
    BY <1>1, <1>2, <1>3 DEF Frame
  <2> QED BY <2>1, <2>2 DEF FramingInv, Ahead
<1>8. Stuck'
  BY <1>1 DEF Stuck
<1>9. ReturnsFrames'
  BY <1>1, <1>6 DEF ReturnsFrames
<1>10. BufferBounded'
  BY <1>1, <1>2, <1>3, ConstantTypes DEF FramingInv, BufferBounded, Buffered
<1> QED BY <1>4, <1>5, <1>7, <1>8, <1>9, <1>10 DEF FramingInv

\* A read of a short buffer leaves it bounded.
LEMMA ReadFraming ==
    ASSUME FramingInv, NEW n \in 1..ReadBufLen, Read(n)
    PROVE  FramingInv'
<1>1. /\ Short /\ received + n <= arrived /\ received' = received + n
      /\ UNCHANGED <<frames, end, arrived, taken, call, last, got, garbled>>
  BY DEF Read
<1>2. /\ taken \in Nat /\ received \in Nat /\ end \in Nat /\ taken <= received
      /\ arrived \in Nat /\ arrived <= end /\ n \in Nat /\ n <= ReadBufLen
  BY ConstantTypes DEF FramingInv, TypeOK
<1>3. TypeOK'
  BY <1>1, <1>2 DEF FramingInv, TypeOK
<1>4. Laid' /\ Ahead' /\ ReturnsFrames'
  BY <1>1 DEF FramingInv, Laid, Ahead, ReturnsFrames, Boundaries, Malformed
<1>5. Stuck'
  <2>1. last # "error"
    BY <1>1 DEF FramingInv, Stuck, Short
  <2> QED BY <1>1, <2>1 DEF Stuck
<1>6. BufferBounded'
  <2>1. Buffered < MaxTotal
    BY <1>1, <1>2, ConstantTypes DEF Short, HasLength, InRange, Buffered
  <2> QED BY <1>1, <1>2, <2>1, ConstantTypes DEF BufferBounded, Buffered
<1> QED BY <1>3, <1>4, <1>5, <1>6 DEF FramingInv

\* A reopen leaves nothing buffered, and the reader where the channel goes on.
LEMMA ReopenFraming == FramingInv /\ Reopen => FramingInv'
<1> SUFFICES ASSUME FramingInv, Reopen PROVE FramingInv'
  OBVIOUS
<1>1. /\ arrived' \in Boundaries \/ arrived' = arrived
      /\ received' = arrived' /\ taken' = arrived' /\ last' = "none"
      /\ UNCHANGED <<frames, end, call, got>>
  BY DEF Reopen
<1>2. garbled' = (arrived' \notin Boundaries
                  \/ \E f \in frames : f.from >= arrived' /\ Malformed(f))
  BY DEF Reopen
<1>3. arrived' \in 0..end /\ end \in Nat
  BY <1>1, BoundaryType, ConstantTypes DEF FramingInv, TypeOK
<1>4. TypeOK'
  <2>1. garbled' \in BOOLEAN
    BY <1>2
  <2> QED BY <1>1, <1>3, <2>1 DEF FramingInv, TypeOK
<1>5. Laid'
  BY <1>1 DEF FramingInv, Laid, Boundaries
<1>6. Ahead'
  BY <1>1, <1>2 DEF Ahead, Boundaries, Malformed
<1>7. Stuck' /\ ReturnsFrames'
  BY <1>1 DEF Stuck, ReturnsFrames
<1>8. BufferBounded'
  <2>1. arrived' \in Int
    BY <1>3
  <2>2. received' - taken' = 0
    <3>1. received' = arrived' /\ taken' = arrived'
      BY <1>1
    <3>2. \A n \in Int : n - n = 0
      OBVIOUS
    <3>3. arrived' - arrived' = 0
      BY <2>1, <3>2
    <3> QED BY <3>1, <3>3
  <2>3. 0 <= MaxTotal - 1 + ReadBufLen
    BY ConstantTypes
  <2> QED BY <2>2, <2>3 DEF BufferBounded, Buffered
<1> QED BY <1>4, <1>5, <1>6, <1>7, <1>8 DEF FramingInv

\* The steps that move no byte past the reader.
LEMMA OtherFraming ==
    ASSUME FramingInv,
           (\E n \in 1..MaxBytes : Arrive(n)) \/ ReadMessage \/ OutOfSync \/ Timeout
             \/ UNCHANGED vars
    PROVE  FramingInv'
<1>1. /\ UNCHANGED <<frames, end, received, taken, got, garbled>>
      /\ call' \in {"idle", "read_message"}
  BY DEF Arrive, ReadMessage, OutOfSync, Timeout, Return, vars, FramingInv, TypeOK
<1>2. \/ last' = last
      \/ last' = "timeout"
      \/ last' = "error" /\ HasLength /\ ~InRange
  BY DEF Arrive, ReadMessage, OutOfSync, Timeout, Return, vars
<1>3. arrived' \in 0..end /\ received \in 0..arrived'
  <2>1. /\ arrived \in Nat /\ received \in Nat /\ end \in Nat
        /\ arrived <= end /\ received <= arrived
    BY ConstantTypes DEF FramingInv, TypeOK
  <2>2. CASE \E n \in 1..MaxBytes : Arrive(n)
    BY <2>1, <2>2, ConstantTypes DEF Arrive
  <2>3. CASE ~\E n \in 1..MaxBytes : Arrive(n)
    BY <2>1, <2>3 DEF ReadMessage, OutOfSync, Timeout, vars
  <2> QED BY <2>2, <2>3
<1>4. TypeOK'
  BY <1>1, <1>2, <1>3 DEF FramingInv, TypeOK
<1>5. Laid' /\ Ahead' /\ BufferBounded'
  BY <1>1 DEF FramingInv, Laid, Ahead, BufferBounded, Buffered, Boundaries, Malformed
<1>6. Stuck'
  BY <1>1, <1>2 DEF FramingInv, Stuck, HasLength, Buffered, InRange, SaidAt
<1>7. ReturnsFrames'
  BY <1>1, <1>2 DEF FramingInv, ReturnsFrames
<1> QED BY <1>4, <1>5, <1>6, <1>7 DEF FramingInv

-----------------------------------------------------------------------------
\* The inductive invariant: frames are laid end to end, the reader stands at the
\* start of a well-formed one, and a refused length stays where it was read.
THEOREM FramingInvariant == Spec => []FramingInv
<1>1. FramingInv /\ [Next]_vars => FramingInv'
  BY SendFraming, DrainFraming, ReadFraming, ReopenFraming, OtherFraming DEF Next
<1> QED BY InitFraming, <1>1, PTL DEF Spec

\* Every variable keeps its type: in particular what was taken never overtakes
\* what was read, nor that what has arrived.
THEOREM FramingTypeCorrect == Spec => []TypeOK
<1>1. FramingInv => TypeOK
  BY DEF FramingInv
<1> QED BY FramingInvariant, <1>1, PTL

\* Whatever the pieces in which the bytes arrive and whichever calls time out
\* half-way through a frame, the reader stays at the start of a frame, until a
\* frame says a wrong length or a reopen cuts one (transport.rs:212-238).
THEOREM InSyncAlways == Spec => []InSync
<1>1. FramingInv => InSync
  BY DEF FramingInv, Ahead, InSync
<1> QED BY FramingInvariant, <1>1, PTL

\* What read_message returns is then a frame that was sent, all of it and no more.
THEOREM ReturnsFramesAlways == Spec => []ReturnsFrames
<1>1. FramingInv => ReturnsFrames
  BY DEF FramingInv
<1> QED BY FramingInvariant, <1>1, PTL

\* The buffer is bounded by MAX_MESSAGE_LEN - 1 + READ_BUF_LEN, whatever lengths
\* the stream says, in sync or not.
THEOREM BufferAlwaysBounded == Spec => []BufferBounded
<1>1. FramingInv => BufferBounded
  BY DEF FramingInv
<1> QED BY FramingInvariant, <1>1, PTL

\* A frame is refused only for its length: none from the shortest to the longest
\* accepted, the two included, makes a call fail while the stream is well-formed
\* (transport.rs:218-223).
THEOREM NoFrameEverRefused == Spec => []NoFrameRefused
<1>1. FramingInv => NoFrameRefused
  <2> SUFFICES ASSUME FramingInv, last = "error", ~garbled
               PROVE  \E f \in frames : f.from = taken /\ f.to - f.from \notin MinTotal..MaxTotal
    BY DEF NoFrameRefused
  <2>1. HasLength /\ SaidAt(taken) \notin MinTotal..MaxTotal
    BY DEF FramingInv, Stuck, InRange
  <2>2. taken # end
    BY <2>1, ConstantTypes DEF FramingInv, TypeOK, HasLength, Buffered
  <2>3. PICK f \in frames : f.from = taken
    BY <2>2 DEF FramingInv, Ahead, Boundaries
  <2>4. SaidAt(taken) = f.says
    BY <2>3, SaidAtFrame DEF FramingInv
  <2>5. f.from >= taken
    BY <2>3 DEF FramingInv, TypeOK, Frame
  <2>6. f.says = f.to - f.from
    BY <2>5 DEF FramingInv, Ahead, Malformed
  <2> QED BY <2>1, <2>3, <2>4, <2>6
<1> QED BY FramingInvariant, <1>1, PTL

\* Once a length was refused no call returns a message or waits for one, until
\* the port is reopened (transport.rs:219-223).
THEOREM ErrorAlwaysSticks == Spec => ErrorSticks
<1>1. FramingInv /\ [Next]_vars => [last = "error" => last' \in {"error", "none"}]_vars
  <2> SUFFICES ASSUME FramingInv, Next, last = "error" PROVE last' \in {"error", "none"}
    OBVIOUS
  <2>1. HasLength /\ ~InRange /\ ~Short
    BY DEF FramingInv, Stuck, Short
  <2>2. ~Drain /\ ~Timeout /\ \A n \in 1..ReadBufLen : ~Read(n)
    BY <2>1 DEF Drain, Timeout, Read
  <2>3. \/ last' = last
        \/ OutOfSync \/ Reopen
    BY <2>2 DEF Next, Send, Arrive, ReadMessage
  <2> QED BY <2>3 DEF OutOfSync, Return, Reopen
<1> QED BY FramingInvariant, <1>1, PTL DEF Spec, ErrorSticks
=============================================================================
