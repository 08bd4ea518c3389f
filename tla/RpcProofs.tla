----------------------------- MODULE RpcProofs -----------------------------
(***************************************************************************)
(* What TLAPS proves about module Rpc, for any commands, indications,      *)
(* timeouts and faults, and any number of requests and indications.        *)
(***************************************************************************)
EXTENDS Rpc, SequenceTheorems, FiniteSetTheorems, TLAPS

-----------------------------------------------------------------------------
(* Sequences. *)

\* Cutting a sequence in two and joining the pieces changes nothing.
LEMMA CutAndJoin ==
    ASSUME NEW S, NEW s \in Seq(S), NEW k \in 1..Len(s)
    PROVE  /\ SubSeq(s, 1, k) \in Seq(S)
           /\ SubSeq(s, k + 1, Len(s)) \in Seq(S)
           /\ SubSeq(s, 1, k) \o SubSeq(s, k + 1, Len(s)) = s
<1> DEFINE a == SubSeq(s, 1, k)
           b == SubSeq(s, k + 1, Len(s))
<1>1. /\ Len(s) \in Nat /\ k \in Int /\ k + 1 \in Int /\ Len(s) \in Int
      /\ \A i \in 1..k : s[i] \in S
      /\ \A i \in (k + 1)..Len(s) : s[i] \in S
  BY LenProperties, ElementOfSeq
<1>2. a \in Seq(S) /\ Len(a) = k /\ \A i \in 1..k : a[i] = s[i]
  BY <1>1, SubSeqProperties
<1>3. /\ b \in Seq(S) /\ Len(b) = Len(s) - k
      /\ \A i \in 1..(Len(s) - k) : b[i] = s[k + i]
  BY <1>1, SubSeqProperties
<1>4. /\ a \o b \in Seq(S) /\ Len(a \o b) = Len(s)
      /\ \A i \in 1..Len(s) : (a \o b)[i] = IF i <= k THEN a[i] ELSE b[i - k]
  BY <1>1, <1>2, <1>3, ConcatProperties
<1>5. \A i \in 1..Len(s) : (a \o b)[i] = s[i]
  BY <1>1, <1>2, <1>3, <1>4
<1> QED BY <1>1, <1>2, <1>3, <1>4, <1>5, SeqEqual

\* Appending to the second of two joined sequences appends to the whole.
LEMMA JoinAppend ==
    ASSUME NEW S, NEW s \in Seq(S), NEW t \in Seq(S), NEW e \in S
    PROVE  s \o Append(t, e) = Append(s \o t, e)
OBVIOUS

\* Taking from the first of two joined sequences takes from the whole.
LEMMA JoinTail ==
    ASSUME NEW S, NEW s \in Seq(S), NEW t \in Seq(S), s # <<>>
    PROVE  /\ s \o t # <<>>
           /\ Head(s \o t) = Head(s)
           /\ Tail(s) \o t = Tail(s \o t)
<1>1. Len(s) \in Nat \ {0} /\ Len(t) \in Nat
  BY LenProperties, EmptySeq
<1>2. /\ s \o t \in Seq(S) /\ Len(s \o t) = Len(s) + Len(t)
      /\ \A i \in 1..(Len(s) + Len(t)) :
            (s \o t)[i] = IF i <= Len(s) THEN s[i] ELSE t[i - Len(s)]
  BY ConcatProperties
<1>3. s \o t # <<>>
  BY <1>1, <1>2, EmptySeq
<1>4. Head(s \o t) = Head(s)
  BY <1>1, <1>2, <1>3
<1>5. /\ Tail(s) \in Seq(S) /\ Len(Tail(s)) = Len(s) - 1
      /\ \A i \in 1..(Len(s) - 1) : Tail(s)[i] = s[i + 1]
  BY HeadTailProperties
<1>6. /\ Tail(s \o t) \in Seq(S) /\ Len(Tail(s \o t)) = Len(s) + Len(t) - 1
      /\ \A i \in 1..(Len(s) + Len(t) - 1) : Tail(s \o t)[i] = (s \o t)[i + 1]
  BY <1>2, <1>3, HeadTailProperties
<1>7. /\ Tail(s) \o t \in Seq(S) /\ Len(Tail(s) \o t) = Len(s) - 1 + Len(t)
      /\ \A i \in 1..(Len(s) - 1 + Len(t)) : (Tail(s) \o t)[i] =
            IF i <= Len(s) - 1 THEN Tail(s)[i] ELSE t[i - (Len(s) - 1)]
  BY <1>5, ConcatProperties
<1>8. \A i \in 1..(Len(s) + Len(t) - 1) : (Tail(s) \o t)[i] = Tail(s \o t)[i]
  <2> TAKE i \in 1..(Len(s) + Len(t) - 1)
  <2>1. CASE i <= Len(s) - 1
    BY <2>1, <1>1, <1>2, <1>5, <1>6, <1>7
  <2>2. CASE ~(i <= Len(s) - 1)
    BY <2>2, <1>1, <1>2, <1>6, <1>7
  <2> QED BY <2>1, <2>2
<1> QED BY <1>1, <1>3, <1>4, <1>6, <1>7, <1>8, SeqEqual

-----------------------------------------------------------------------------
(* Type correctness.  It needs that no message or request in flight claims  *)
(* to come from a request that was not written yet, and that a second       *)
(* handle is open only while a reopen is under way.                         *)

\* Messages and requests that stem from one of the first n requests.
MessageUpTo(n) == [fault: Faults \cup {"none"}, tid: {TXID_SYNC, TXID_ASYNC, TXID_OTHER},
                   code: Nat, arg: Args, req: 0..n]
PendingUpTo(n) == [req: 0..n, cmd: Cmds, mode: Modes, acked: BOOLEAN]

TypeInv ==
    /\ TypeOK
    /\ fwq \in Seq(PendingUpTo(sent))
    /\ wire \in Seq(MessageUpTo(sent))
    /\ inbuf \in Seq(MessageUpTo(sent))
    /\ handles = IF call = "reopen" THEN 2 ELSE 1

\* More requests only allow for more messages.
LEMMA UpToMonotonic ==
    ASSUME NEW m \in Nat, NEW n \in Nat, m <= n
    PROVE  /\ \A s \in Seq(MessageUpTo(m)) : s \in Seq(MessageUpTo(n)) /\ s \in Seq(Message)
           /\ \A s \in Seq(PendingUpTo(m)) :
                s \in Seq(PendingUpTo(n)) /\ s \in Seq(PendingRequest)
<1>1. /\ MessageUpTo(m) \subseteq MessageUpTo(n) /\ MessageUpTo(m) \subseteq Message
      /\ PendingUpTo(m) \subseteq PendingUpTo(n) /\ PendingUpTo(m) \subseteq PendingRequest
  BY DEF MessageUpTo, PendingUpTo, Message, PendingRequest
<1> QED BY <1>1, SeqMonotonic

\* The empty message and the empty return have their types.
LEMMA NoMessageType ==
    /\ NoMessage \in Message
    /\ NoReturn \in Return
BY RpcAssumption DEF NoMessage, NoReturn, Message, Return, Calling

\* The typing holds of a client that has just opened the port.
LEMMA InitTypeInv == Init => TypeInv
<1>1. /\ <<>> \in Seq(PendingUpTo(0)) /\ <<>> \in Seq(MessageUpTo(0))
      /\ <<>> \in Seq(PendingRequest) /\ <<>> \in Seq(Message)
  BY EmptySeq
<1> SUFFICES ASSUME Init PROVE TypeInv
  OBVIOUS
<1>2. TypeOK
  <2>1. /\ noise \in 0..MaxNoise /\ sent \in 0..MaxReq
    BY RpcAssumption DEF Init
  <2>2. handles \in 1..2 /\ limit \in Nat /\ left \in 0..limit /\ settled \in 0..sent /\ age \in Nat
    BY DEF Init
  <2>3. up \in BOOLEAN /\ attachAllowed \in BOOLEAN /\ failed \in BOOLEAN /\ announced \in BOOLEAN
    BY DEF Init
  <2>4. call \in Calling /\ ret \in Return
    BY NoMessageType DEF Init, Calling
  <2>5. fwq \in Seq(PendingRequest) /\ wire \in Seq(Message) /\ inbuf \in Seq(Message)
    BY <1>1 DEF Init
  <2> QED BY <2>1, <2>2, <2>3, <2>4, <2>5 DEF TypeOK
<1> QED BY <1>1, <1>2 DEF Init, TypeInv

\* A message that the firmware emits is one of a request written.
LEMMA EmitType ==
    ASSUME TypeInv, NEW m \in MessageUpTo(sent), NEW cost \in Nat, Emit(m, cost),
           sent' = sent
    PROVE  /\ wire' \in Seq(MessageUpTo(sent)) /\ wire' \in Seq(Message)
           /\ noise' \in 0..MaxNoise
           /\ announced' \in BOOLEAN
           /\ \E f \in Faults \cup {"none"} : wire' = Append(wire, [m EXCEPT !.fault = f])
<1> PICK f \in FaultsOf(m) :
        LET total == IF f = "none" THEN cost ELSE cost + 1
            given == [m EXCEPT !.fault = f]
        IN  /\ total <= noise
            /\ noise' = noise - total
            /\ wire' = Append(wire, given)
            /\ announced' = AfterMessage(announced, given)
  BY DEF Emit
<1> DEFINE given == [m EXCEPT !.fault = f]
<1>1. f \in Faults \cup {"none"}
  BY DEF FaultsOf
<1>2. given \in MessageUpTo(sent)
  BY <1>1 DEF MessageUpTo
<1>3. /\ wire' \in Seq(MessageUpTo(sent))
  BY <1>2 DEF TypeInv
<1>4. wire' \in Seq(Message)
  <2>1. sent \in Nat /\ sent <= sent
    BY RpcAssumption DEF TypeInv, TypeOK
  <2> QED BY <1>3, <2>1, UpToMonotonic
<1>5. announced' \in BOOLEAN
  BY DEF AfterMessage, TypeInv, TypeOK
<1>6. noise' \in 0..MaxNoise
  <2>1. noise \in 0..MaxNoise /\ MaxNoise \in Nat
    BY RpcAssumption DEF TypeInv, TypeOK
  <2> DEFINE total == IF f = "none" THEN cost ELSE cost + 1
  <2>2. total \in Nat /\ total <= noise /\ noise' = noise - total
    OBVIOUS
  <2> HIDE DEF total
  <2> QED BY <2>1, <2>2
<1> QED BY <1>1, <1>3, <1>4, <1>5, <1>6

\* Whatever the firmware or the driver does keeps the typing.
LEMMA FirmwareTypeInv == TypeInv /\ Firmware => TypeInv'
<1> SUFFICES ASSUME TypeInv, Firmware PROVE TypeInv'
  OBVIOUS
<1> USE RpcAssumption
<1>1. CASE FirmwareAcks
  <2> DEFINE m == [fault |-> "none", tid |-> TXID_ASYNC, code |-> ACK_CODE_MIN,
                   arg |-> NoArg, req |-> Head(fwq).req]
  <2>1. Head(fwq) \in PendingUpTo(sent)
    BY <1>1, HeadTailProperties DEF TypeInv, FirmwareAcks
  <2>2. m \in MessageUpTo(sent)
    BY <2>1 DEF MessageUpTo, PendingUpTo, ACK_CODE_MIN
  <2>3. fwq' \in Seq(PendingUpTo(sent))
    <3>1. Len(fwq) \in Nat \ {0} /\ fwq[1] \in PendingUpTo(sent)
      BY <1>1, EmptySeq, ElementOfSeq DEF TypeInv, FirmwareAcks
    <3>2. [fwq[1] EXCEPT !.acked = TRUE] \in PendingUpTo(sent)
      BY <3>1 DEF PendingUpTo
    <3>3. fwq' = [fwq EXCEPT ![1] = [fwq[1] EXCEPT !.acked = TRUE]]
      BY <1>1 DEF FirmwareAcks
    <3> QED BY <3>1, <3>2, <3>3, ExceptSeq DEF TypeInv
  <2>4. Emit(m, 0) /\ FirmwareUnchanged
    BY <1>1 DEF FirmwareAcks
  <2>5. fwq' \in Seq(PendingRequest)
    BY <2>3, UpToMonotonic DEF TypeInv, TypeOK
  <2>6. sent' = sent
    BY <2>4 DEF FirmwareUnchanged
  <2>7. /\ wire' \in Seq(MessageUpTo(sent)) /\ wire' \in Seq(Message)
        /\ noise' \in 0..MaxNoise
        /\ announced' \in BOOLEAN
    BY <2>2, <2>4, <2>6, EmitType
  <2> QED BY <2>3, <2>4, <2>5, <2>7 DEF TypeInv, TypeOK, FirmwareUnchanged
<1>2. CASE \E arg \in Args : FirmwareAnswers(arg)
  <2> PICK arg \in Args : FirmwareAnswers(arg)
    BY <1>2
  <2> DEFINE m == [fault |-> "none",
                   tid |-> IF Head(fwq).mode = "Sync" THEN TXID_SYNC ELSE TXID_ASYNC,
                   code |-> Head(fwq).cmd, arg |-> arg, req |-> Head(fwq).req]
  <2>1. Head(fwq) \in PendingUpTo(sent) /\ fwq' \in Seq(PendingUpTo(sent))
    BY HeadTailProperties DEF TypeInv, FirmwareAnswers
  <2>2. m \in MessageUpTo(sent)
    <3>1. Head(fwq).cmd \in Nat /\ Head(fwq).req \in 0..sent
      <4>1. Head(fwq).cmd \in Cmds /\ Head(fwq).req \in 0..sent
        BY <2>1 DEF PendingUpTo
      <4>2. \A c \in Cmds : c \in Nat
        BY DEF ACK_CODE_MIN
      <4> QED BY <4>1, <4>2
    <3>2. m.tid \in {TXID_SYNC, TXID_ASYNC, TXID_OTHER}
      OBVIOUS
    <3> QED BY <3>1, <3>2 DEF MessageUpTo
  <2>3. Emit(m, 0) /\ FirmwareUnchanged
    BY DEF FirmwareAnswers
  <2>4. fwq' \in Seq(PendingRequest)
    BY <2>1, UpToMonotonic DEF TypeInv, TypeOK
  <2>5. sent' = sent
    BY <2>3 DEF FirmwareUnchanged
  <2>6. /\ wire' \in Seq(MessageUpTo(sent)) /\ wire' \in Seq(Message)
        /\ noise' \in 0..MaxNoise
        /\ announced' \in BOOLEAN
    BY <2>2, <2>3, <2>5, EmitType
  <2> QED BY <2>1, <2>3, <2>4, <2>6 DEF TypeInv, TypeOK, FirmwareUnchanged
<1>3. CASE FirmwareIgnores
  <2>1. fwq' \in Seq(PendingUpTo(sent)) /\ fwq' \in Seq(PendingRequest)
    BY <1>3, HeadTailProperties DEF TypeInv, TypeOK, FirmwareIgnores
  <2> QED BY <1>3, <2>1 DEF TypeInv, TypeOK, FirmwareIgnores, FirmwareUnchanged
<1>4. CASE \E ind \in Inds, arg \in Args, cost \in Costs : FirmwareIndicates(ind, arg, cost)
  <2> PICK ind \in Inds, arg \in Args, cost \in Costs : FirmwareIndicates(ind, arg, cost)
    BY <1>4
  <2> DEFINE m == [fault |-> "none", tid |-> TXID_OTHER, code |-> ind, arg |-> arg, req |-> 0]
  <2>1. m \in MessageUpTo(sent)
    BY DEF MessageUpTo, TypeInv, TypeOK
  <2>2. Emit(m, cost) /\ FirmwareUnchanged /\ fwq' = fwq
    BY DEF FirmwareIndicates
  <2>3. sent' = sent
    BY <2>2 DEF FirmwareUnchanged
  <2>4. /\ wire' \in Seq(MessageUpTo(sent)) /\ wire' \in Seq(Message)
        /\ noise' \in 0..MaxNoise
        /\ announced' \in BOOLEAN
    BY <2>1, <2>2, <2>3, EmitType
  <2> QED BY <2>2, <2>4 DEF TypeInv, TypeOK, FirmwareUnchanged
<1>5. CASE PortRemoved
  <2>1. /\ fwq' \in Seq(PendingUpTo(sent)) /\ fwq' \in Seq(PendingRequest)
        /\ wire' \in Seq(MessageUpTo(sent)) /\ wire' \in Seq(Message)
    BY <1>5, EmptySeq DEF PortRemoved
  <2>2. announced' \in BOOLEAN
    BY <1>5 DEF PortRemoved, AfterMessages, TypeInv, TypeOK
  <2> QED BY <1>5, <2>1, <2>2 DEF TypeInv, TypeOK, PortRemoved
<1> QED BY <1>1, <1>2, <1>3, <1>4, <1>5 DEF Firmware

\* How a call ends.
LEMMA EndType ==
    ASSUME TypeInv, NEW status \in {"ok", "timeout", "error"}, NEW msg \in Message,
           End(status, msg)
    PROVE  /\ call' = "idle" /\ limit' \in Nat /\ left' \in 0..limit' /\ age' \in Nat
           /\ ret' \in Return
BY DEF End, Return, TypeInv, TypeOK

\* What is left once a message was taken has its type.
LEMMA TakeMessageType ==
    ASSUME TypeInv, TakeMessage
    PROVE  /\ Head(inbuf) \in MessageUpTo(sent) /\ Head(inbuf) \in Message
           /\ inbuf' \in Seq(MessageUpTo(sent)) /\ inbuf' \in Seq(Message)
           /\ attachAllowed' \in BOOLEAN
<1>1. Head(inbuf) \in MessageUpTo(sent) /\ inbuf' \in Seq(MessageUpTo(sent))
  BY HeadTailProperties DEF TypeInv, TakeMessage
<1>2. Head(inbuf) \in Message /\ inbuf' \in Seq(Message)
  BY HeadTailProperties DEF TypeInv, TypeOK, TakeMessage
<1>3. attachAllowed' \in BOOLEAN
  BY DEF TakeMessage, AfterMessage, TypeInv, TypeOK
<1> QED BY <1>1, <1>2, <1>3

\* Each step of a call in progress keeps the typing.
LEMMA ProgressTypeInv == TypeInv /\ Progress => TypeInv'
<1> SUFFICES ASSUME TypeInv, Progress PROVE TypeInv'
  OBVIOUS
<1> USE RpcAssumption
<1>0. sent \in Nat
  BY DEF TypeInv, TypeOK
<1>1. CASE ReadChunk
  <2>1. PICK k \in 1..Len(wire) : /\ inbuf' = SubSeq(wire, 1, k)
                                  /\ wire' = SubSeq(wire, k + 1, Len(wire))
    BY <1>1 DEF ReadChunk
  <2>2. /\ inbuf' \in Seq(MessageUpTo(sent)) /\ inbuf' \in Seq(Message)
        /\ wire' \in Seq(MessageUpTo(sent)) /\ wire' \in Seq(Message)
    BY <2>1, CutAndJoin DEF TypeInv, TypeOK
  <2> QED BY <1>1, <2>2 DEF ReadChunk, TypeInv, TypeOK
<1>2. CASE FrameError
  <2>1. End("error", NoMessage)
    BY <1>2 DEF FrameError, CallFails
  <2>2. /\ call' = "idle" /\ limit' \in Nat /\ left' \in 0..limit' /\ age' \in Nat
        /\ ret' \in Return
    BY <2>1, EndType, NoMessageType
  <2>3. failed' \in BOOLEAN
    BY <1>2 DEF FrameError, CallFails, TypeInv, TypeOK
  <2> QED BY <1>2, <2>2, <2>3 DEF FrameError, portVars, TypeInv, TypeOK, Calling
<1>3. CASE ParseError
  <2>1. End("error", NoMessage) /\ TakeMessage
    BY <1>3 DEF ParseError, CallFails
  <2>2. /\ call' = "idle" /\ limit' \in Nat /\ left' \in 0..limit' /\ age' \in Nat
        /\ ret' \in Return
    BY <2>1, EndType, NoMessageType
  <2>3. failed' \in BOOLEAN
    BY <1>3 DEF ParseError, CallFails, TypeInv, TypeOK
  <2> QED BY <1>3, <2>1, <2>2, <2>3, TakeMessageType
          DEF ParseError, TakeMessage, portVars, TypeInv, TypeOK, Calling
<1>4. CASE Answered
  <2>1. End("ok", Head(inbuf)) /\ TakeMessage
    BY <1>4 DEF Answered
  <2>2. Head(inbuf) \in MessageUpTo(sent) /\ Head(inbuf) \in Message
    BY <2>1, TakeMessageType
  <2>3. /\ call' = "idle" /\ limit' \in Nat /\ left' \in 0..limit' /\ age' \in Nat
        /\ ret' \in Return
    BY <2>1, <2>2, EndType
  <2>4. settled' \in 0..sent
    BY <1>4, <2>2 DEF Answered, MessageUpTo, TypeInv, TypeOK
  <2> QED BY <1>4, <2>1, <2>3, <2>4, TakeMessageType
          DEF Answered, TakeMessage, portVars, TypeInv, TypeOK, Calling
<1>5. CASE Skipped
  <2>1. TakeMessage
    BY <1>5 DEF Skipped
  <2> QED BY <1>5, <2>1, TakeMessageType
          DEF Skipped, TakeMessage, portVars, TypeInv, TypeOK
<1>6. CASE TimeoutExpires
  <2>1. End("timeout", NoMessage)
    BY <1>6 DEF TimeoutExpires, CallFails
  <2>2. /\ call' = "idle" /\ limit' \in Nat /\ left' \in 0..limit' /\ age' \in Nat
        /\ ret' \in Return
    BY <2>1, EndType, NoMessageType
  <2>3. failed' \in BOOLEAN
    BY <1>6 DEF TimeoutExpires, CallFails, TypeInv, TypeOK
  <2> QED BY <1>6, <2>2, <2>3 DEF TimeoutExpires, portVars, TypeInv, TypeOK, Calling
<1>7. CASE PortClosed
  <2>1. End("error", NoMessage)
    BY <1>7 DEF PortClosed, CallFails
  <2>2. /\ call' = "idle" /\ limit' \in Nat /\ left' \in 0..limit' /\ age' \in Nat
        /\ ret' \in Return
    BY <2>1, EndType, NoMessageType
  <2>3. failed' \in BOOLEAN
    BY <1>7 DEF PortClosed, CallFails, TypeInv, TypeOK
  <2> QED BY <1>7, <2>2, <2>3 DEF PortClosed, portVars, TypeInv, TypeOK, Calling
<1>8. CASE ReopenCloses
  <2>1. End("ok", NoMessage)
    BY <1>8 DEF ReopenCloses
  <2>2. /\ call' = "idle" /\ limit' \in Nat /\ left' \in 0..limit' /\ age' \in Nat
        /\ ret' \in Return
    BY <2>1, EndType, NoMessageType
  <2>3. /\ fwq' \in Seq(PendingUpTo(sent)) /\ fwq' \in Seq(PendingRequest)
        /\ wire' \in Seq(MessageUpTo(sent)) /\ wire' \in Seq(Message)
    BY <1>8, EmptySeq DEF ReopenCloses, TypeInv, TypeOK
  <2>4. /\ inbuf' \in Seq(MessageUpTo(sent)) /\ inbuf' \in Seq(Message)
    BY <1>8, EmptySeq DEF ReopenCloses
  <2>5. announced' \in BOOLEAN /\ attachAllowed' \in BOOLEAN /\ failed' \in BOOLEAN
    BY <1>8 DEF ReopenCloses, AfterMessages
  <2>6. settled' \in 0..sent /\ handles' = 1
    BY <1>0, <1>8 DEF ReopenCloses, TypeInv
  <2>7. up' = up /\ noise' = noise /\ sent' = sent
    BY <1>8 DEF ReopenCloses
  <2> QED BY <2>2, <2>3, <2>4, <2>5, <2>6, <2>7 DEF TypeInv, TypeOK, Calling
<1> QED BY <1>1, <1>2, <1>3, <1>4, <1>5, <1>6, <1>7, <1>8 DEF Progress

\* Time passing keeps the typing: the ticks left never go below zero.
LEMMA TickTypeInv == TypeInv /\ Tick => TypeInv'
BY DEF Tick, portVars, TypeInv, TypeOK

\* How a call begins.
LEMMA BeginType ==
    ASSUME NEW name \in Calling, NEW timeout \in Nat, Begin(name, timeout)
    PROVE  /\ call' = name /\ limit' \in Nat /\ left' \in 0..limit' /\ age' \in Nat
           /\ ret' \in Return
BY NoMessageType DEF Begin

\* Each call that is made keeps the typing.
LEMMA ClientTypeInv == TypeInv /\ Client => TypeInv'
<1> SUFFICES ASSUME TypeInv, Client PROVE TypeInv'
  OBVIOUS
<1> USE RpcAssumption
<1>0. sent \in Nat
  BY DEF TypeInv, TypeOK
<1>1. CASE \E cmd \in Cmds, mode \in Modes, t \in Timeouts : Execute(cmd, mode, t)
  <2> PICK cmd \in Cmds, mode \in Modes, t \in Timeouts : Execute(cmd, mode, t)
    BY <1>1
  <2> DEFINE r == [req |-> sent + 1, cmd |-> cmd, mode |-> mode, acked |-> FALSE]
  <2>1. /\ sent' = sent + 1 /\ sent' \in 0..MaxReq /\ settled' = settled
        /\ settled' \in 0..sent' /\ Begin("execute", t) /\ call = "idle"
    BY <1>0 DEF Execute, Begin, TypeInv, TypeOK
  <2>2. r \in PendingUpTo(sent')
    BY <1>0, <2>1 DEF PendingUpTo
  <2>3. fwq \in Seq(PendingUpTo(sent'))
    BY <1>0, <2>1, UpToMonotonic DEF TypeInv
  <2>4. fwq' \in Seq(PendingUpTo(sent'))
    BY <2>2, <2>3 DEF Execute
  <2>5. /\ fwq' \in Seq(PendingRequest)
        /\ wire' \in Seq(MessageUpTo(sent')) /\ inbuf' \in Seq(MessageUpTo(sent'))
    <3>1. wire' = wire /\ inbuf' = inbuf
      BY DEF Execute
    <3>2. sent' \in Nat /\ sent <= sent'
      BY <1>0, <2>1
    <3> QED BY <1>0, <2>4, <3>1, <3>2, UpToMonotonic DEF TypeInv
  <2>6. /\ call' = "execute" /\ limit' \in Nat /\ left' \in 0..limit' /\ age' \in Nat
        /\ ret' \in Return
    BY <2>1, BeginType DEF Calling
  <2> QED BY <2>1, <2>4, <2>5, <2>6 DEF Execute, TypeInv, TypeOK, Calling
<1>2. CASE ExecuteWriteFails
  <2>1. ret' \in Return
    BY <1>2, NoMessageType DEF ExecuteWriteFails, Return, Calling
  <2> QED BY <1>2, <2>1 DEF ExecuteWriteFails, TypeInv, TypeOK
<1>3. CASE Recv
  <2>1. Begin("recv", 0) /\ call = "idle"
    BY <1>3 DEF Recv, Begin
  <2>2. /\ call' = "recv" /\ limit' \in Nat /\ left' \in 0..limit' /\ age' \in Nat
        /\ ret' \in Return
    BY <2>1, BeginType DEF Calling
  <2> QED BY <1>3, <2>1, <2>2 DEF Recv, portVars, TypeInv, TypeOK, Calling
<1>4. CASE ReopenOpens
  <2>1. Begin("reopen", 0) /\ call = "idle"
    BY <1>4 DEF ReopenOpens, Begin
  <2>2. /\ call' = "reopen" /\ limit' \in Nat /\ left' \in 0..limit' /\ age' \in Nat
        /\ ret' \in Return
    BY <2>1, BeginType DEF Calling
  <2>3. /\ fwq' \in Seq(PendingUpTo(sent)) /\ fwq' \in Seq(PendingRequest)
        /\ wire' \in Seq(MessageUpTo(sent)) /\ wire' \in Seq(Message)
    BY <1>4, EmptySeq DEF ReopenOpens, TypeInv, TypeOK
  <2>4. announced' \in BOOLEAN
    BY <1>4 DEF ReopenOpens, AfterMessages, TypeInv, TypeOK
  <2>5. handles' = 2
    BY <1>4, <2>1 DEF ReopenOpens, TypeInv
  <2> QED BY <1>4, <2>2, <2>3, <2>4, <2>5 DEF ReopenOpens, TypeInv, TypeOK, Calling
<1>5. CASE ReopenFails
  <2>1. ret' \in Return
    BY <1>5, NoMessageType DEF ReopenFails, Return, Calling
  <2> QED BY <1>5, <2>1 DEF ReopenFails, portVars, TypeInv, TypeOK
<1> QED BY <1>1, <1>2, <1>3, <1>4, <1>5 DEF Client

\* A step of something else keeps the typing.
LEMMA StutterTypeInv == TypeInv /\ UNCHANGED vars => TypeInv'
BY DEF vars, TypeInv, TypeOK

\* The inductive typing: TypeOK, with requests and messages whose identities were
\* written and with as many handles as the call in progress has open.
THEOREM TypeInvariant == Spec => []TypeInv
<1>1. TypeInv /\ [Next]_vars => TypeInv'
  BY FirmwareTypeInv, ProgressTypeInv, TickTypeInv, ClientTypeInv, StutterTypeInv DEF Next
<1> QED BY InitTypeInv, <1>1, PTL DEF Spec

\* Every variable keeps its type; in particular, a response settles only a
\* request that was written, and no handle but the old one outlives a reopen.
THEOREM TypeCorrect == Spec => []TypeOK
<1>1. TypeInv => TypeOK
  BY DEF TypeInv
<1> QED BY TypeInvariant, <1>1, PTL

-----------------------------------------------------------------------------
(* Correlation.  What is in flight is in the order of the requests: first   *)
(* the responses on their way, then the requests not answered yet, and none *)
(* of them is settled.  All of it rests on a reopen that resets the channel *)
(* when it opens the port: see RpcReopen for a driver that does not.        *)

IsResponse(m) == Kind(m) = "Response"

\* The messages on their way to the client, read from the port or not.
Flow == inbuf \o wire

InOrder(flow, queue, low) ==
    /\ \A i \in 1..Len(flow) : IsResponse(flow[i]) => low < flow[i].req
    /\ \A i, j \in 1..Len(flow) :
        i < j /\ IsResponse(flow[i]) /\ IsResponse(flow[j]) => flow[i].req < flow[j].req
    /\ \A i \in 1..Len(queue) : low < queue[i].req
    /\ \A i, j \in 1..Len(queue) : i < j => queue[i].req < queue[j].req
    /\ \A i \in 1..Len(flow), j \in 1..Len(queue) :
        IsResponse(flow[i]) => flow[i].req < queue[j].req

\* Between the two halves of a reopen no request is alive, nor a response that
\* the second half would let through.
WrittenOff ==
    call = "reopen" =>
        /\ fwq = <<>>
        /\ \A i \in 1..Len(wire) : ~IsResponse(wire[i])

\* Unless an execute failed, only the request being executed is not settled.
InStep == ~failed => settled = IF call = "execute" THEN sent - 1 ELSE sent

OrderInv ==
    /\ ResetOn = "open"
    /\ TypeInv
    /\ InOrder(Flow, fwq, settled)
    /\ WrittenOff
    /\ InStep
    /\ Correlated

\* What is in flight, with the requests not answered yet, is a sequence of messages.
LEMMA FlowType ==
    ASSUME TypeInv
    PROVE  Flow \in Seq(MessageUpTo(sent)) /\ fwq \in Seq(PendingUpTo(sent))
BY ConcatProperties DEF TypeInv, Flow

\* A response that arrives comes after those on their way.
LEMMA InOrderDeliver ==
    ASSUME NEW n \in Nat, NEW flow \in Seq(MessageUpTo(n)), NEW queue \in Seq(PendingUpTo(n)),
           NEW low \in Nat, InOrder(flow, queue, low),
           NEW m \in MessageUpTo(n),
           IsResponse(m) =>
               /\ low < m.req
               /\ \A i \in 1..Len(flow) : IsResponse(flow[i]) => flow[i].req < m.req
               /\ \A j \in 1..Len(queue) : m.req < queue[j].req
    PROVE  InOrder(Append(flow, m), queue, low)
<1> DEFINE longer == Append(flow, m)
<1>1. /\ Len(flow) \in Nat /\ Len(longer) = Len(flow) + 1
      /\ \A i \in 1..Len(flow) : longer[i] = flow[i]
      /\ longer[Len(flow) + 1] = m
  OBVIOUS
<1>2. \A i \in 1..Len(longer) : i \in 1..Len(flow) \/ i = Len(flow) + 1
  BY <1>1
<1>3. /\ \A i \in 1..Len(flow) : flow[i].req \in Nat
      /\ \A j \in 1..Len(queue) : queue[j].req \in Nat
      /\ m.req \in Nat
  <2>1. /\ \A i \in 1..Len(flow) : flow[i] \in MessageUpTo(n)
        /\ \A j \in 1..Len(queue) : queue[j] \in PendingUpTo(n)
    BY ElementOfSeq
  <2>2. \A x \in MessageUpTo(n) : x.req \in Nat
    BY DEF MessageUpTo
  <2>3. \A x \in PendingUpTo(n) : x.req \in Nat
    BY DEF PendingUpTo
  <2> HIDE DEF longer
  <2> QED BY <2>1, <2>2, <2>3
<1> HIDE DEF longer
<1>4. \A i \in 1..Len(longer) : IsResponse(longer[i]) => low < longer[i].req
  BY <1>1, <1>2 DEF InOrder
<1>5. \A i, j \in 1..Len(longer) :
        i < j /\ IsResponse(longer[i]) /\ IsResponse(longer[j])
            => longer[i].req < longer[j].req
  <2> TAKE i, j \in 1..Len(longer)
  <2> HAVE i < j /\ IsResponse(longer[i]) /\ IsResponse(longer[j])
  <2>1. i \in 1..Len(flow)
    BY <1>1, <1>2
  <2>2. CASE j \in 1..Len(flow)
    BY <1>1, <2>1, <2>2 DEF InOrder
  <2>3. CASE j = Len(flow) + 1
    BY <1>1, <2>1, <2>3
  <2> QED BY <1>2, <2>2, <2>3
<1>6. \A i \in 1..Len(longer), j \in 1..Len(queue) :
        IsResponse(longer[i]) => longer[i].req < queue[j].req
  BY <1>1, <1>2 DEF InOrder
<1> QED BY <1>4, <1>5, <1>6 DEF InOrder, longer

\* The oldest message is taken, and settles its request if it is a response.
LEMMA InOrderTake ==
    ASSUME NEW n \in Nat, NEW flow \in Seq(MessageUpTo(n)), NEW queue \in Seq(PendingUpTo(n)),
           NEW low \in Nat, InOrder(flow, queue, low), flow # <<>>
    PROVE  /\ InOrder(Tail(flow), queue, low)
           /\ IsResponse(Head(flow)) =>
                low < Head(flow).req /\ InOrder(Tail(flow), queue, Head(flow).req)
<1> DEFINE rest == Tail(flow)
<1>1. /\ Len(flow) \in Nat \ {0} /\ Head(flow) = flow[1]
      /\ Len(rest) = Len(flow) - 1
      /\ \A i \in 1..Len(rest) : rest[i] = flow[i + 1] /\ i + 1 \in 1..Len(flow)
  BY EmptySeq, HeadTailProperties
<1> HIDE DEF rest
<1>2. \A i, j \in 1..Len(rest) :
        i < j /\ IsResponse(rest[i]) /\ IsResponse(rest[j]) => rest[i].req < rest[j].req
  <2> TAKE i, j \in 1..Len(rest)
  <2> HAVE i < j /\ IsResponse(rest[i]) /\ IsResponse(rest[j])
  <2>1. /\ i + 1 \in 1..Len(flow) /\ j + 1 \in 1..Len(flow) /\ i + 1 < j + 1
        /\ rest[i] = flow[i + 1] /\ rest[j] = flow[j + 1]
    BY <1>1
  <2> QED BY <2>1 DEF InOrder
<1>3. \A i \in 1..Len(rest), j \in 1..Len(queue) :
        IsResponse(rest[i]) => rest[i].req < queue[j].req
  BY <1>1 DEF InOrder
<1>4. \A i \in 1..Len(rest) : IsResponse(rest[i]) => low < rest[i].req
  BY <1>1 DEF InOrder
<1>5. InOrder(rest, queue, low)
  BY <1>2, <1>3, <1>4 DEF InOrder
<1>6. ASSUME IsResponse(Head(flow))
      PROVE  low < Head(flow).req /\ InOrder(rest, queue, Head(flow).req)
  <2>1. \A i \in 1..Len(rest) : IsResponse(rest[i]) => Head(flow).req < rest[i].req
    BY <1>1, <1>6 DEF InOrder
  <2>2. \A j \in 1..Len(queue) : Head(flow).req < queue[j].req
    BY <1>1, <1>6 DEF InOrder
  <2>3. low < Head(flow).req
    BY <1>1, <1>6 DEF InOrder
  <2> QED BY <1>2, <1>3, <2>1, <2>2, <2>3 DEF InOrder
<1> QED BY <1>5, <1>6 DEF rest

\* The oldest request leaves the queue; it was older than the others, and newer
\* than all the responses on their way.
LEMMA InOrderServe ==
    ASSUME NEW n \in Nat, NEW flow \in Seq(MessageUpTo(n)), NEW queue \in Seq(PendingUpTo(n)),
           NEW low \in Nat, InOrder(flow, queue, low), queue # <<>>
    PROVE  /\ InOrder(flow, Tail(queue), low)
           /\ low < Head(queue).req
           /\ \A i \in 1..Len(flow) : IsResponse(flow[i]) => flow[i].req < Head(queue).req
           /\ \A j \in 1..Len(Tail(queue)) : Head(queue).req < Tail(queue)[j].req
<1> DEFINE rest == Tail(queue)
<1>1. /\ Len(queue) \in Nat \ {0} /\ Head(queue) = queue[1]
      /\ Len(rest) = Len(queue) - 1
      /\ \A i \in 1..Len(rest) : rest[i] = queue[i + 1] /\ i + 1 \in 1..Len(queue)
  BY EmptySeq, HeadTailProperties
<1> HIDE DEF rest
<1>2. /\ \A j \in 1..Len(rest) : low < rest[j].req
      /\ \A i, j \in 1..Len(rest) : i < j => rest[i].req < rest[j].req
      /\ \A i \in 1..Len(flow), j \in 1..Len(rest) :
            IsResponse(flow[i]) => flow[i].req < rest[j].req
  <2>1. \A i, j \in 1..Len(rest) : i < j => rest[i].req < rest[j].req
    <3> TAKE i, j \in 1..Len(rest)
    <3> HAVE i < j
    <3>1. /\ i + 1 \in 1..Len(queue) /\ j + 1 \in 1..Len(queue) /\ i + 1 < j + 1
          /\ rest[i] = queue[i + 1] /\ rest[j] = queue[j + 1]
      BY <1>1
    <3> QED BY <3>1 DEF InOrder
  <2> QED BY <1>1, <2>1 DEF InOrder
<1>3. /\ low < Head(queue).req
      /\ \A i \in 1..Len(flow) : IsResponse(flow[i]) => flow[i].req < Head(queue).req
      /\ \A j \in 1..Len(rest) : Head(queue).req < rest[j].req
  <2>1. 1 \in 1..Len(queue) /\ \A j \in 1..Len(rest) : 1 < j + 1
    BY <1>1
  <2>2. \A j \in 1..Len(rest) : Head(queue).req < rest[j].req
    BY <1>1, <2>1 DEF InOrder
  <2> QED BY <1>1, <2>1, <2>2 DEF InOrder
<1>4. InOrder(flow, rest, low)
  BY <1>2 DEF InOrder
<1> QED BY <1>3, <1>4 DEF rest

\* A new request is the newest.
LEMMA InOrderRequest ==
    ASSUME NEW n \in Nat, NEW flow \in Seq(MessageUpTo(n)), NEW queue \in Seq(PendingUpTo(n)),
           NEW low \in 0..n, InOrder(flow, queue, low),
           NEW r, r.req = n + 1
    PROVE  InOrder(flow, Append(queue, r), low)
<1> DEFINE longer == Append(queue, r)
<1>1. /\ Len(queue) \in Nat /\ Len(longer) = Len(queue) + 1
      /\ \A j \in 1..Len(queue) : longer[j] = queue[j]
      /\ longer[Len(queue) + 1] = r
  OBVIOUS
<1>2. \A j \in 1..Len(longer) : j \in 1..Len(queue) \/ j = Len(queue) + 1
  BY <1>1
<1>3. /\ \A i \in 1..Len(flow) : flow[i].req \in 0..n
      /\ \A j \in 1..Len(queue) : queue[j].req \in 0..n
  <2>1. /\ \A i \in 1..Len(flow) : flow[i] \in MessageUpTo(n)
        /\ \A j \in 1..Len(queue) : queue[j] \in PendingUpTo(n)
    BY ElementOfSeq
  <2>2. \A x \in MessageUpTo(n) : x.req \in 0..n
    BY DEF MessageUpTo
  <2>3. \A x \in PendingUpTo(n) : x.req \in 0..n
    BY DEF PendingUpTo
  <2> HIDE DEF longer
  <2> QED BY <2>1, <2>2, <2>3
<1> HIDE DEF longer
<1>4. \A j \in 1..Len(longer) : low < longer[j].req
  BY <1>1, <1>2 DEF InOrder
<1>5. \A i, j \in 1..Len(longer) : i < j => longer[i].req < longer[j].req
  <2> TAKE i, j \in 1..Len(longer)
  <2> HAVE i < j
  <2>1. i \in 1..Len(queue) /\ longer[i].req = queue[i].req /\ queue[i].req \in 0..n
    BY <1>1, <1>2, <1>3
  <2>2. CASE j \in 1..Len(queue)
    <3>1. queue[i].req < queue[j].req
      BY <2>1, <2>2, Zenon DEF InOrder
    <3> QED BY <1>1, <2>1, <2>2, <3>1
  <2>3. CASE j = Len(queue) + 1
    <3>1. longer[j].req = n + 1
      BY <1>1, <2>3
    <3> QED BY <2>1, <3>1
  <2> QED BY <1>2, <2>2, <2>3
<1>6. \A i \in 1..Len(flow), j \in 1..Len(longer) :
        IsResponse(flow[i]) => flow[i].req < longer[j].req
  <2> TAKE i \in 1..Len(flow), j \in 1..Len(longer)
  <2> HAVE IsResponse(flow[i])
  <2>1. CASE j \in 1..Len(queue)
    BY <2>1, <1>1 DEF InOrder
  <2>2. CASE j = Len(queue) + 1
    BY <2>2, <1>1, <1>3
  <2> QED BY <1>2, <2>1, <2>2
<1> QED BY <1>4, <1>5, <1>6 DEF InOrder, longer

\* Acknowledgements and indications are not responses, however malformed.
LEMMA NotResponses ==
    ASSUME NEW m \in Message
    PROVE  /\ m.tid = TXID_ASYNC /\ m.code = ACK_CODE_MIN => ~IsResponse(m)
           /\ m.tid = TXID_OTHER => ~IsResponse(m)
<1>1. ASSUME m.tid = TXID_ASYNC, m.code = ACK_CODE_MIN PROVE ~IsResponse(m)
  <2>1. m.tid # TXID_SYNC /\ m.code >= ACK_CODE_MIN
    BY <1>1 DEF TXID_ASYNC, TXID_SYNC, ACK_CODE_MIN
  <2> QED BY <2>1 DEF IsResponse, Kind
<1>2. ASSUME m.tid = TXID_OTHER PROVE ~IsResponse(m)
  <2>1. m.tid # TXID_SYNC /\ ~IsRpcTid(m.tid)
    BY <1>2 DEF TXID_OTHER, TXID_SYNC, IsRpcTid
  <2> QED BY <2>1 DEF IsResponse, Kind
<1> QED BY <1>1, <1>2

\* What is emitted is on its way, behind everything else.
LEMMA EmitFlow ==
    ASSUME TypeInv, NEW m \in MessageUpTo(sent), NEW cost \in Nat, Emit(m, cost),
           inbuf' = inbuf
    PROVE  \E given \in MessageUpTo(sent) :
              /\ wire' = Append(wire, given) /\ Flow' = Append(Flow, given)
              /\ given.req = m.req /\ given.tid = m.tid /\ given.code = m.code
<1>1. PICK f \in FaultsOf(m) : wire' = Append(wire, [m EXCEPT !.fault = f])
  BY DEF Emit
<1> DEFINE given == [m EXCEPT !.fault = f]
<1>2. f \in Faults \cup {"none"}
  BY DEF FaultsOf
<1>3. /\ given \in MessageUpTo(sent)
      /\ given.req = m.req /\ given.tid = m.tid /\ given.code = m.code
  BY <1>2 DEF MessageUpTo
<1> HIDE DEF given
<1>4. Flow' = Append(Flow, given)
  <2>1. inbuf \in Seq(MessageUpTo(sent)) /\ wire \in Seq(MessageUpTo(sent))
    BY DEF TypeInv
  <2>2. inbuf \o Append(wire, given) = Append(inbuf \o wire, given)
    BY <1>3, <2>1, JoinAppend
  <2>3. wire' = Append(wire, given)
    BY <1>1 DEF given
  <2> QED BY <2>2, <2>3 DEF Flow
<1> QED BY <1>1, <1>3, <1>4 DEF given

\* The firmware changes neither what is settled nor what a call has returned.
LEMMA FirmwareOrder == OrderInv /\ Firmware => OrderInv'
<1> SUFFICES ASSUME OrderInv, Firmware PROVE OrderInv'
  OBVIOUS
<1> USE RpcAssumption
<1>0. /\ TypeInv /\ InOrder(Flow, fwq, settled) /\ WrittenOff /\ InStep /\ Correlated
      /\ sent \in Nat /\ settled \in Nat
      /\ Flow \in Seq(MessageUpTo(sent)) /\ fwq \in Seq(PendingUpTo(sent))
  BY FlowType DEF OrderInv, TypeInv, TypeOK
<1>1. TypeInv'
  BY <1>0, FirmwareTypeInv
<1>2. UNCHANGED <<sent, settled, call, ret, failed, inbuf>>
  BY DEF Firmware, FirmwareAcks, FirmwareAnswers, FirmwareIgnores, FirmwareIndicates,
         FirmwareUnchanged, PortRemoved
<1>3. InStep' /\ Correlated'
  BY <1>0, <1>2 DEF InStep, Correlated, AnswersItsRequest
<1>4. InOrder(Flow', fwq', settled) /\ WrittenOff'
  <2>1. CASE FirmwareAcks
    <3> DEFINE m == [fault |-> "none", tid |-> TXID_ASYNC, code |-> ACK_CODE_MIN,
                     arg |-> NoArg, req |-> Head(fwq).req]
    <3>1. fwq # <<>> /\ Emit(m, 0) /\ fwq' = [fwq EXCEPT ![1].acked = TRUE]
      BY <2>1 DEF FirmwareAcks
    <3>2. m \in MessageUpTo(sent)
      <4>1. Head(fwq) \in PendingUpTo(sent)
        BY <1>0, <3>1, HeadTailProperties
      <4> QED BY <4>1 DEF MessageUpTo, PendingUpTo, ACK_CODE_MIN
    <3>3. PICK given \in MessageUpTo(sent) :
            /\ Flow' = Append(Flow, given)
            /\ given.tid = TXID_ASYNC /\ given.code = ACK_CODE_MIN
      BY <1>0, <1>2, <3>1, <3>2, EmitFlow
    <3>4. ~IsResponse(given)
      <4>1. given \in Message
        BY <1>0 DEF MessageUpTo, Message
      <4> QED BY <3>3, <4>1, NotResponses
    <3>5. InOrder(Flow', fwq, settled)
      BY <1>0, <3>3, <3>4, InOrderDeliver
    <3>6. /\ Len(fwq') = Len(fwq)
          /\ \A i \in 1..Len(fwq) : fwq'[i].req = fwq[i].req
      <4>1. Len(fwq) \in Nat \ {0} /\ DOMAIN fwq = 1..Len(fwq) /\ fwq[1] \in PendingUpTo(sent)
        BY <1>0, <3>1, EmptySeq, LenProperties, ElementOfSeq
      <4>2. [fwq[1] EXCEPT !.acked = TRUE] \in PendingUpTo(sent)
            /\ [fwq[1] EXCEPT !.acked = TRUE].req = fwq[1].req
        BY <4>1 DEF PendingUpTo
      <4>3. fwq' = [fwq EXCEPT ![1] = [fwq[1] EXCEPT !.acked = TRUE]]
        BY <3>1
      <4>4. Len(fwq') = Len(fwq)
            /\ \A i \in 1..Len(fwq) :
                fwq'[i] = IF i = 1 THEN [fwq[1] EXCEPT !.acked = TRUE] ELSE fwq[i]
        BY <1>0, <4>1, <4>2, <4>3, ExceptSeq
      <4> QED BY <4>2, <4>4
    <3>7. InOrder(Flow', fwq', settled)
      <4>1. /\ \A i \in 1..Len(fwq') : settled < fwq'[i].req
            /\ \A i, j \in 1..Len(fwq') : i < j => fwq'[i].req < fwq'[j].req
        BY <3>5, <3>6 DEF InOrder
      <4>2. \A i \in 1..Len(Flow'), j \in 1..Len(fwq') :
                IsResponse(Flow'[i]) => Flow'[i].req < fwq'[j].req
        BY <3>5, <3>6 DEF InOrder
      <4> QED BY <3>5, <4>1, <4>2 DEF InOrder
    <3> QED BY <1>0, <1>2, <3>1, <3>7 DEF WrittenOff
  <2>2. CASE \E arg \in Args : FirmwareAnswers(arg)
    <3> PICK arg \in Args : FirmwareAnswers(arg)
      BY <2>2
    <3> DEFINE m == [fault |-> "none",
                     tid |-> IF Head(fwq).mode = "Sync" THEN TXID_SYNC ELSE TXID_ASYNC,
                     code |-> Head(fwq).cmd, arg |-> arg, req |-> Head(fwq).req]
    <3>1. fwq # <<>> /\ Emit(m, 0) /\ fwq' = Tail(fwq)
      BY DEF FirmwareAnswers
    <3>2. m \in MessageUpTo(sent)
      <4>1. Head(fwq) \in PendingUpTo(sent)
        BY <1>0, <3>1, HeadTailProperties
      <4>2. Head(fwq).cmd \in Cmds /\ Head(fwq).req \in 0..sent
        BY <4>1 DEF PendingUpTo
      <4>3. \A c \in Cmds : c \in Nat
        BY DEF ACK_CODE_MIN
      <4>4. m.tid \in {TXID_SYNC, TXID_ASYNC, TXID_OTHER}
        OBVIOUS
      <4> QED BY <4>2, <4>3, <4>4 DEF MessageUpTo
    <3>3. PICK given \in MessageUpTo(sent) :
            Flow' = Append(Flow, given) /\ given.req = Head(fwq).req
      BY <1>0, <1>2, <3>1, <3>2, EmitFlow
    <3>4. /\ InOrder(Flow, fwq', settled)
          /\ settled < given.req
          /\ \A i \in 1..Len(Flow) : IsResponse(Flow[i]) => Flow[i].req < given.req
          /\ \A j \in 1..Len(fwq') : given.req < fwq'[j].req
      BY <1>0, <3>1, <3>3, InOrderServe
    <3>5. fwq' \in Seq(PendingUpTo(sent))
      BY <1>0, <3>1, HeadTailProperties
    <3>6. InOrder(Flow', fwq', settled)
      BY <1>0, <3>3, <3>4, <3>5, InOrderDeliver
    <3> QED BY <1>0, <1>2, <3>1, <3>6 DEF WrittenOff
  <2>3. CASE FirmwareIgnores
    <3>1. fwq # <<>> /\ fwq' = Tail(fwq) /\ wire' = wire
      BY <2>3 DEF FirmwareIgnores
    <3>2. InOrder(Flow, fwq', settled) /\ Flow' = Flow
      BY <1>0, <1>2, <3>1, InOrderServe DEF Flow
    <3> QED BY <1>0, <1>2, <3>1, <3>2 DEF WrittenOff
  <2>4. CASE \E ind \in Inds, arg \in Args, cost \in Costs : FirmwareIndicates(ind, arg, cost)
    <3> PICK ind \in Inds, arg \in Args, cost \in Costs : FirmwareIndicates(ind, arg, cost)
      BY <2>4
    <3> DEFINE m == [fault |-> "none", tid |-> TXID_OTHER, code |-> ind, arg |-> arg,
                     req |-> 0]
    <3>1. Emit(m, cost) /\ fwq' = fwq
      BY DEF FirmwareIndicates
    <3>2. m \in MessageUpTo(sent)
      BY <1>0 DEF MessageUpTo
    <3>3. PICK given \in MessageUpTo(sent) :
            /\ wire' = Append(wire, given) /\ Flow' = Append(Flow, given)
            /\ given.tid = TXID_OTHER
      BY <1>0, <1>2, <3>1, <3>2, EmitFlow
    <3>4. ~IsResponse(given)
      <4>1. given \in Message
        BY <1>0 DEF MessageUpTo, Message
      <4> QED BY <3>3, <4>1, NotResponses
    <3>5. InOrder(Flow', fwq', settled)
      BY <1>0, <3>1, <3>3, <3>4, InOrderDeliver
    <3>6. ASSUME call = "reopen"
          PROVE  \A i \in 1..Len(wire') : ~IsResponse(wire'[i])
      <4>1. wire \in Seq(MessageUpTo(sent)) /\ \A i \in 1..Len(wire) : ~IsResponse(wire[i])
        BY <1>0, <3>6 DEF TypeInv, WrittenOff
      <4>2. /\ Len(wire) \in Nat /\ Len(wire') = Len(wire) + 1
            /\ \A i \in 1..Len(wire) : wire'[i] = wire[i]
            /\ wire'[Len(wire) + 1] = given
        BY <3>3, <4>1
      <4>3. \A i \in 1..Len(wire') : i \in 1..Len(wire) \/ i = Len(wire) + 1
        BY <4>2
      <4> QED BY <3>4, <4>1, <4>2, <4>3
    <3> QED BY <1>0, <1>2, <3>1, <3>5, <3>6 DEF WrittenOff
  <2>5. CASE PortRemoved
    <3>1. fwq' = <<>> /\ wire' = <<>> /\ Len(fwq') = 0 /\ Len(wire') = 0
      BY <2>5, EmptySeq DEF PortRemoved
    <3>2. /\ inbuf \in Seq(MessageUpTo(sent)) /\ wire \in Seq(MessageUpTo(sent))
          /\ <<>> \in Seq(MessageUpTo(sent))
      BY <1>0, EmptySeq DEF TypeInv
    <3>3. /\ Flow' = inbuf /\ Len(inbuf) \in Nat /\ Len(wire) \in Nat
          /\ Len(Flow) = Len(inbuf) + Len(wire)
          /\ \A i \in 1..Len(inbuf) : i \in 1..Len(Flow) /\ Flow[i] = inbuf[i]
      BY <1>2, <3>1, <3>2, ConcatProperties, ConcatEmptySeq, LenProperties DEF Flow
    <3>4. InOrder(inbuf, <<>>, settled)
      <4>1. \A i \in 1..Len(inbuf) : IsResponse(inbuf[i]) => settled < inbuf[i].req
        BY <1>0, <3>3 DEF InOrder
      <4>2. \A i, j \in 1..Len(inbuf) :
                i < j /\ IsResponse(inbuf[i]) /\ IsResponse(inbuf[j])
                    => inbuf[i].req < inbuf[j].req
        BY <1>0, <3>3 DEF InOrder
      <4>3. \A j \in 1..Len(<<>>) : FALSE
        OBVIOUS
      <4> QED BY <4>1, <4>2, <4>3 DEF InOrder
    <3> QED BY <3>1, <3>3, <3>4 DEF WrittenOff
  <2> QED BY <2>1, <2>2, <2>3, <2>4, <2>5 DEF Firmware
<1>5. ResetOn = "open"
  BY DEF OrderInv
<1> QED BY <1>1, <1>2, <1>3, <1>4, <1>5 DEF OrderInv

\* Nothing in flight, or no response, is in order.
LEMMA InOrderQuiet ==
    ASSUME NEW flow, NEW low, \A i \in 1..Len(flow) : ~IsResponse(flow[i])
    PROVE  InOrder(flow, <<>>, low)
<1>1. \A j \in 1..Len(<<>>) : FALSE
  OBVIOUS
<1> QED BY <1>1 DEF InOrder

\* What the oldest message is, and what is left in flight without it.
LEMMA TakeOrder ==
    ASSUME OrderInv, TakeMessage
    PROVE  /\ Head(inbuf) \in MessageUpTo(sent)
           /\ InOrder(Flow', fwq', settled)
           /\ IsResponse(Head(inbuf)) =>
                /\ settled < Head(inbuf).req /\ Head(inbuf).req <= sent
                /\ InOrder(Flow', fwq', Head(inbuf).req)
           /\ sent' = sent
<1> USE RpcAssumption
<1>1. /\ TypeInv /\ InOrder(Flow, fwq, settled) /\ sent \in Nat /\ settled \in Nat
      /\ Flow \in Seq(MessageUpTo(sent)) /\ fwq \in Seq(PendingUpTo(sent))
      /\ inbuf \in Seq(MessageUpTo(sent)) /\ wire \in Seq(MessageUpTo(sent))
  BY FlowType DEF OrderInv, TypeInv, TypeOK
<1>2. /\ inbuf # <<>> /\ inbuf' = Tail(inbuf) /\ wire' = wire /\ fwq' = fwq /\ sent' = sent
  BY DEF TakeMessage, portVars
<1>3. Flow # <<>> /\ Head(Flow) = Head(inbuf) /\ Flow' = Tail(Flow)
  BY <1>1, <1>2, JoinTail DEF Flow
<1>4. Head(inbuf) \in MessageUpTo(sent)
  BY <1>1, <1>2, HeadTailProperties
<1>5. Head(inbuf).req \in 0..sent
  BY <1>4 DEF MessageUpTo
<1>6. /\ InOrder(Tail(Flow), fwq, settled)
      /\ IsResponse(Head(Flow)) =>
            settled < Head(Flow).req /\ InOrder(Tail(Flow), fwq, Head(Flow).req)
  BY <1>1, <1>3, InOrderTake
<1> QED BY <1>1, <1>2, <1>3, <1>4, <1>5, <1>6

\* A call that fails settles nothing, and an execute that fails is remembered.
LEMMA FailsInStep ==
    ASSUME OrderInv, NEW status \in {"error", "timeout"}, CallFails(status),
           call \in {"execute", "recv"}, UNCHANGED <<sent, settled>>
    PROVE  InStep' /\ Correlated' /\ WrittenOff'
<1>1. /\ call' = "idle" /\ ret'.status # "ok"
      /\ failed' = (failed \/ call = "execute")
  BY DEF CallFails, End
<1>2. InStep'
  BY <1>1 DEF InStep, OrderInv
<1>3. Correlated'
  BY <1>1 DEF Correlated, AnswersItsRequest
<1>4. WrittenOff'
  BY <1>1 DEF WrittenOff
<1> QED BY <1>2, <1>3, <1>4

\* Each step of a call in progress keeps what is in flight in order.
LEMMA ProgressOrder == OrderInv /\ Progress => OrderInv'
<1> SUFFICES ASSUME OrderInv, Progress PROVE OrderInv'
  OBVIOUS
<1> USE RpcAssumption
<1>0. /\ TypeInv /\ InOrder(Flow, fwq, settled) /\ WrittenOff /\ InStep /\ Correlated
      /\ sent \in Nat /\ settled \in 0..sent /\ ResetOn = "open"
      /\ inbuf \in Seq(MessageUpTo(sent)) /\ wire \in Seq(MessageUpTo(sent))
  BY DEF OrderInv, TypeInv, TypeOK
<1>t. TypeInv'
  BY <1>0, ProgressTypeInv
<1>1. CASE ReadChunk
  <2>1. PICK k \in 1..Len(wire) : /\ inbuf' = SubSeq(wire, 1, k)
                                  /\ wire' = SubSeq(wire, k + 1, Len(wire))
    BY <1>1 DEF ReadChunk
  <2>2. Flow' = wire
    BY <1>0, <2>1, CutAndJoin DEF Flow
  <2>3. Flow = wire
    BY <1>0, <1>1, ConcatEmptySeq DEF Flow, ReadChunk
  <2>4. UNCHANGED <<fwq, call, ret, sent, settled, failed>> /\ call # "reopen"
    BY <1>1 DEF ReadChunk
  <2>5. InOrder(Flow', fwq', settled') /\ WrittenOff' /\ InStep' /\ Correlated'
    BY <1>0, <2>2, <2>3, <2>4 DEF WrittenOff, InStep, Correlated, AnswersItsRequest
  <2> QED BY <1>0, <1>t, <2>5 DEF OrderInv
<1>2. CASE FrameError \/ TimeoutExpires \/ PortClosed
  <2>1. /\ UNCHANGED <<portVars, inbuf, sent, settled>>
        /\ call \in {"execute", "recv"}
        /\ CallFails("error") \/ CallFails("timeout")
    BY <1>2 DEF FrameError, TimeoutExpires, PortClosed
  <2>2. InStep' /\ Correlated' /\ WrittenOff'
    BY <2>1, FailsInStep
  <2>3. InOrder(Flow', fwq', settled')
    BY <1>0, <2>1 DEF Flow, portVars
  <2> QED BY <1>0, <1>t, <2>2, <2>3 DEF OrderInv
<1>3. CASE ParseError
  <2>1. TakeMessage /\ CallFails("error") /\ settled' = settled
        /\ call \in {"execute", "recv"}
    BY <1>3 DEF ParseError, TakeMessage
  <2>2. InOrder(Flow', fwq', settled') /\ sent' = sent
    BY <2>1, TakeOrder
  <2>3. InStep' /\ Correlated' /\ WrittenOff'
    BY <2>1, <2>2, FailsInStep
  <2> QED BY <1>0, <1>t, <2>2, <2>3 DEF OrderInv
<1>4. CASE Answered
  <2> DEFINE m == Head(inbuf)
  <2>1. /\ TakeMessage /\ call \in {"execute", "recv"}
        /\ call = "recv" \/ IsResponse(m)
        /\ settled' = IF IsResponse(m) THEN m.req ELSE settled
        /\ failed' = failed /\ call' = "idle"
        /\ ret'.of = call /\ ret'.msg = m
    BY <1>4 DEF Answered, TakeMessage, End, IsResponse
  <2>2. /\ m \in MessageUpTo(sent)
        /\ InOrder(Flow', fwq', settled)
        /\ IsResponse(m) =>
            settled < m.req /\ m.req <= sent /\ InOrder(Flow', fwq', m.req)
        /\ sent' = sent
    BY <2>1, TakeOrder
  <2>3. InOrder(Flow', fwq', settled')
    BY <2>1, <2>2
  <2>4. m.req \in 0..sent
    BY <2>2 DEF MessageUpTo
  <2>5. ASSUME ~failed, call = "execute" PROVE m.req = sent /\ settled' = sent
    <3>1. settled = sent - 1
      BY <1>0, <2>5 DEF InStep
    <3>2. IsResponse(m)
      BY <2>1, <2>5
    <3> QED BY <1>0, <2>1, <2>2, <2>4, <3>1, <3>2
  <2>6. ASSUME ~failed, call = "recv" PROVE settled' = sent
    <3>1. settled = sent
      BY <1>0, <2>6 DEF InStep
    <3> QED BY <1>0, <2>1, <2>2, <2>4, <3>1
  <2>7. InStep' /\ Correlated' /\ WrittenOff'
    BY <2>1, <2>2, <2>5, <2>6 DEF InStep, Correlated, AnswersItsRequest, WrittenOff
  <2> QED BY <1>0, <1>t, <2>3, <2>7 DEF OrderInv
<1>5. CASE Skipped
  <2>1. TakeMessage /\ UNCHANGED <<call, ret, settled, failed>> /\ call # "reopen"
    BY <1>5 DEF Skipped
  <2>2. InOrder(Flow', fwq', settled') /\ sent' = sent
    BY <2>1, TakeOrder
  <2>3. InStep' /\ Correlated' /\ WrittenOff'
    BY <1>0, <2>1, <2>2 DEF InStep, Correlated, AnswersItsRequest, WrittenOff
  <2> QED BY <1>0, <1>t, <2>2, <2>3 DEF OrderInv
<1>6. CASE ReopenCloses
  <2>1. handles = 2 /\ fwq = <<>> /\ \A i \in 1..Len(wire) : ~IsResponse(wire[i])
    BY <1>0, <1>6 DEF ReopenCloses, TypeInv, WrittenOff
  <2>2. handles' = 1 /\ ~ResetChannel("close", handles')
    BY <1>6, <2>1 DEF ReopenCloses, ResetChannel
  <2>3. /\ fwq' = fwq /\ wire' = wire /\ inbuf' = <<>>
        /\ settled' = sent /\ sent' = sent /\ call' = "idle" /\ ret'.of = call /\ call = "reopen"
    BY <1>6, <2>2 DEF ReopenCloses, End
  <2>4. Flow' = wire
    BY <1>0, <2>3, ConcatEmptySeq DEF Flow
  <2>5. InOrder(Flow', fwq', settled')
    BY <2>1, <2>3, <2>4, InOrderQuiet
  <2>6. InStep' /\ Correlated' /\ WrittenOff'
    BY <2>3 DEF InStep, Correlated, AnswersItsRequest, WrittenOff
  <2> QED BY <1>0, <1>t, <2>5, <2>6 DEF OrderInv
<1> QED BY <1>1, <1>2, <1>3, <1>4, <1>5, <1>6 DEF Progress

\* Time passing touches nothing that is in flight.
LEMMA TickOrder == OrderInv /\ Tick => OrderInv'
<1> SUFFICES ASSUME OrderInv, Tick PROVE OrderInv'
  OBVIOUS
<1>1. TypeInv'
  BY TickTypeInv DEF OrderInv
<1>2. UNCHANGED <<fwq, wire, inbuf, call, ret, sent, settled, failed>>
  BY DEF Tick, portVars
<1> QED BY <1>1, <1>2 DEF OrderInv, Flow, WrittenOff, InStep, Correlated, AnswersItsRequest

\* Each call keeps what is in flight in order: a request written is the newest.
LEMMA ClientOrder == OrderInv /\ Client => OrderInv'
<1> SUFFICES ASSUME OrderInv, Client PROVE OrderInv'
  OBVIOUS
<1> USE RpcAssumption
<1>0. /\ TypeInv /\ InOrder(Flow, fwq, settled) /\ WrittenOff /\ InStep /\ Correlated
      /\ sent \in Nat /\ settled \in 0..sent /\ ResetOn = "open"
      /\ Flow \in Seq(MessageUpTo(sent)) /\ fwq \in Seq(PendingUpTo(sent))
      /\ inbuf \in Seq(MessageUpTo(sent))
  BY FlowType DEF OrderInv, TypeInv, TypeOK
<1>t. TypeInv'
  BY <1>0, ClientTypeInv
<1>1. CASE \E cmd \in Cmds, mode \in Modes, t \in Timeouts : Execute(cmd, mode, t)
  <2> PICK cmd \in Cmds, mode \in Modes, t \in Timeouts : Execute(cmd, mode, t)
    BY <1>1
  <2> DEFINE r == [req |-> sent + 1, cmd |-> cmd, mode |-> mode, acked |-> FALSE]
  <2>1. /\ fwq' = Append(fwq, r) /\ r.req = sent + 1 /\ Flow' = Flow
        /\ sent' = sent + 1 /\ settled' = settled /\ failed' = failed
        /\ call = "idle" /\ call' = "execute" /\ ret' = NoReturn
    BY DEF Execute, Begin, Flow
  <2>2. InOrder(Flow', fwq', settled')
    BY <1>0, <2>1, InOrderRequest
  <2>3. InStep' /\ Correlated' /\ WrittenOff'
    BY <1>0, <2>1 DEF InStep, Correlated, AnswersItsRequest, WrittenOff, NoReturn
  <2> QED BY <1>0, <1>t, <2>2, <2>3 DEF OrderInv
<1>2. CASE ExecuteWriteFails \/ ReopenFails
  <2>1. /\ UNCHANGED <<fwq, wire, inbuf, call, sent, settled, failed>>
        /\ call = "idle" /\ ret'.status # "ok"
    BY <1>2 DEF ExecuteWriteFails, ReopenFails, portVars
  <2> QED BY <1>0, <1>t, <2>1
          DEF OrderInv, Flow, WrittenOff, InStep, Correlated, AnswersItsRequest
<1>3. CASE Recv
  <2>1. /\ UNCHANGED <<fwq, wire, inbuf, sent, settled, failed>>
        /\ call = "idle" /\ call' = "recv" /\ ret' = NoReturn
    BY <1>3 DEF Recv, Begin, portVars
  <2> QED BY <1>0, <1>t, <2>1
          DEF OrderInv, Flow, WrittenOff, InStep, Correlated, AnswersItsRequest, NoReturn
<1>4. CASE ReopenOpens
  <2>1. ResetChannel("open", handles')
    BY <1>0 DEF ResetChannel
  <2>2. /\ fwq' = <<>> /\ wire' = <<>> /\ UNCHANGED <<inbuf, sent, settled, failed>>
        /\ call = "idle" /\ call' = "reopen" /\ ret' = NoReturn
    BY <1>4, <2>1 DEF ReopenOpens, Begin
  <2>3. Flow' = inbuf
    BY <1>0, <2>2, ConcatEmptySeq DEF Flow
  <2>4. InOrder(Flow', fwq', settled')
    <3>1. wire \in Seq(MessageUpTo(sent))
      BY <1>0 DEF TypeInv
    <3>2. /\ Len(inbuf) \in Nat
          /\ \A i \in 1..Len(inbuf) : i \in 1..Len(Flow) /\ Flow[i] = inbuf[i]
      BY <1>0, <3>1, ConcatProperties, LenProperties DEF Flow
    <3>3. \A i \in 1..Len(inbuf) : IsResponse(inbuf[i]) => settled < inbuf[i].req
      BY <1>0, <3>2 DEF InOrder
    <3>4. \A i, j \in 1..Len(inbuf) :
            i < j /\ IsResponse(inbuf[i]) /\ IsResponse(inbuf[j])
                => inbuf[i].req < inbuf[j].req
      BY <1>0, <3>2 DEF InOrder
    <3>5. \A j \in 1..Len(<<>>) : FALSE
      OBVIOUS
    <3>6. InOrder(inbuf, <<>>, settled)
      BY <3>3, <3>4, <3>5 DEF InOrder
    <3> QED BY <2>2, <2>3, <3>6
  <2>5. InStep' /\ Correlated' /\ WrittenOff'
    <3>1. \A i \in 1..Len(wire') : FALSE
      BY <2>2
    <3> QED BY <1>0, <2>2, <3>1
            DEF InStep, Correlated, AnswersItsRequest, WrittenOff, NoReturn
  <2> QED BY <1>0, <1>t, <2>4, <2>5 DEF OrderInv
<1> QED BY <1>1, <1>2, <1>3, <1>4 DEF Client

\* Nothing is in flight at first.
LEMMA InitOrder == ResetOn = "open" /\ Init => OrderInv
<1> SUFFICES ASSUME ResetOn = "open", Init PROVE OrderInv
  OBVIOUS
<1>1. TypeInv
  BY InitTypeInv
<1>2. Flow = <<>> /\ fwq = <<>>
  BY DEF Init, Flow
<1>3. InOrder(Flow, fwq, settled)
  <2>1. \A i \in 1..Len(<<>>) : ~IsResponse(<<>>[i])
    OBVIOUS
  <2> QED BY <1>2, <2>1, InOrderQuiet
<1>4. WrittenOff /\ InStep /\ Correlated
  BY DEF Init, WrittenOff, InStep, Correlated, AnswersItsRequest, NoReturn
<1> QED BY <1>1, <1>3, <1>4 DEF OrderInv

\* A step of something else keeps the order.
LEMMA StutterOrder == OrderInv /\ UNCHANGED vars => OrderInv'
<1> SUFFICES ASSUME OrderInv, UNCHANGED vars PROVE OrderInv'
  OBVIOUS
<1>1. TypeInv'
  BY StutterTypeInv DEF OrderInv
<1> QED BY <1>1
        DEF OrderInv, vars, Flow, WrittenOff, InStep, Correlated, AnswersItsRequest

\* The inductive invariant behind correlation: responses in flight and requests not
\* answered yet are in the order the requests were written, all of them unsettled.
THEOREM OrderInvariant == ResetOn = "open" /\ Spec => []OrderInv
<1>1. OrderInv /\ [Next]_vars => OrderInv'
  BY FirmwareOrder, ProgressOrder, TickOrder, ClientOrder, StutterOrder DEF Next
<1> QED BY InitOrder, <1>1, PTL DEF Spec

\* As long as no execute has failed since the port was opened, the response that
\* execute returns is the one to the request it wrote (transport.rs:154-186), for
\* every client, every firmware and any number of requests.
THEOREM CorrelatedAlways == ResetOn = "open" /\ Spec => []Correlated
<1>1. OrderInv => Correlated
  BY DEF OrderInv
<1> QED BY OrderInvariant, <1>1, PTL

-----------------------------------------------------------------------------
(* The transport implements what module Calls promises.                     *)

\* A fresh transport is a fresh instance of Calls.
LEMMA CallsInit == Init => Abstract!Init
BY DEF Init, Abstract!Init

\* Every step of the transport is a step of Calls or a stutter of it.
LEMMA CallsStep == OrderInv /\ [Next]_vars => [Abstract!Next]_(Abstract!vars)
<1> SUFFICES ASSUME OrderInv, [Next]_vars
             PROVE  Abstract!Next \/ UNCHANGED <<sent, settled, call # "idle">>
  BY DEF Abstract!vars
<1>0. sent \in Nat /\ settled \in 0..sent
  BY RpcAssumption DEF OrderInv, TypeInv, TypeOK
<1>1. CASE Firmware
  <2>1. UNCHANGED <<sent, settled, call>>
    BY <1>1 DEF Firmware, FirmwareAcks, FirmwareAnswers, FirmwareIgnores, FirmwareIndicates,
                FirmwareUnchanged, PortRemoved
  <2> QED BY <2>1
<1>2. CASE ReadChunk \/ Skipped \/ Tick \/ ExecuteWriteFails \/ ReopenFails \/ UNCHANGED vars
  <2>1. UNCHANGED <<sent, settled, call>>
    BY <1>2 DEF ReadChunk, Skipped, TakeMessage, Tick, ExecuteWriteFails, ReopenFails,
                portVars, vars
  <2> QED BY <2>1
<1>3. CASE FrameError \/ TimeoutExpires \/ PortClosed \/ ParseError
  <2>1. /\ UNCHANGED <<sent, settled>> /\ call \in {"execute", "recv"}
        /\ call' = "idle"
    BY <1>3 DEF FrameError, TimeoutExpires, PortClosed, ParseError, TakeMessage, CallFails, End
  <2>2. Abstract!EndWithout
    BY <2>1 DEF Abstract!EndWithout
  <2> QED BY <2>2 DEF Abstract!Next
<1>4. CASE Answered
  <2>1. /\ TakeMessage /\ call \in {"execute", "recv"} /\ call' = "idle"
        /\ settled' = IF IsResponse(Head(inbuf)) THEN Head(inbuf).req ELSE settled
    BY <1>4 DEF Answered, TakeMessage, End, IsResponse
  <2>2. /\ Head(inbuf) \in MessageUpTo(sent) /\ sent' = sent
        /\ IsResponse(Head(inbuf)) => settled < Head(inbuf).req /\ Head(inbuf).req <= sent
    BY <2>1, TakeOrder
  <2>3. CASE IsResponse(Head(inbuf))
    <3>1. Head(inbuf).req \in 0..sent
      BY <2>2 DEF MessageUpTo
    <3>2. settled' \in (settled + 1)..sent
      BY <1>0, <2>1, <2>2, <2>3, <3>1
    <3>3. Abstract!Answer
      BY <2>1, <2>2, <3>2 DEF Abstract!Answer
    <3> QED BY <3>3 DEF Abstract!Next
  <2>4. CASE ~IsResponse(Head(inbuf))
    <3>1. Abstract!EndWithout
      BY <2>1, <2>2, <2>4 DEF Abstract!EndWithout
    <3> QED BY <3>1 DEF Abstract!Next
  <2> QED BY <2>3, <2>4
<1>5. CASE ReopenCloses
  <2>1. call = "reopen" /\ call' = "idle" /\ settled' = sent /\ sent' = sent
    BY <1>5 DEF ReopenCloses, End
  <2>2. Abstract!CleanSlate
    BY <2>1 DEF Abstract!CleanSlate
  <2> QED BY <2>2 DEF Abstract!Next
<1>6. CASE \E cmd \in Cmds, mode \in Modes, t \in Timeouts : Execute(cmd, mode, t)
  <2>1. call = "idle" /\ call' = "execute" /\ sent' = sent + 1 /\ settled' = settled
    BY <1>6 DEF Execute, Begin
  <2>2. Abstract!Request
    BY <2>1 DEF Abstract!Request
  <2> QED BY <2>2 DEF Abstract!Next
<1>7. CASE Recv \/ ReopenOpens
  <2>1. call = "idle" /\ call' \in {"recv", "reopen"} /\ UNCHANGED <<sent, settled>>
    BY <1>7 DEF Recv, ReopenOpens, Begin
  <2>2. Abstract!Listen
    BY <2>1 DEF Abstract!Listen
  <2> QED BY <2>2 DEF Abstract!Next
<1> QED BY <1>1, <1>2, <1>3, <1>4, <1>5, <1>6, <1>7 DEF Next, Progress, Client

\* With a driver that resets the channel at every open, every call ends the way
\* module Calls allows: no response is handed back twice, out of order, or after
\* the reopen that wrote its request off (transport.rs:138-202).
THEOREM CallsImplemented == ResetOn = "open" /\ Spec => ImplementsCalls
BY OrderInvariant, CallsInit, CallsStep, PTL DEF ImplementsCalls, Abstract!Spec, Spec

\* The reopen's part of it: no call returns a response to a request written
\* before the port was last reopened (transport.rs:138-147).
THEOREM CleanSlateAlways == ResetOn = "open" /\ Spec => CleanSlate
<1> DEFINE Fresh == ret'.status = "ok" /\ Kind(ret'.msg) = "Response" /\ ret' # ret
                        => ret'.msg.req > settled
<1>1. OrderInv /\ [Next]_vars => [Fresh]_vars
  <2> SUFFICES ASSUME OrderInv, Next, ret' # ret, ret'.status = "ok", Kind(ret'.msg) = "Response"
               PROVE  ret'.msg.req > settled
    OBVIOUS
  <2>1. ~IsResponse(NoMessage)
    <3>1. NoMessage \in Message /\ NoMessage.tid = TXID_OTHER
      BY NoMessageType DEF NoMessage
    <3> QED BY <3>1, NotResponses
  <2>2. ret'.msg # NoMessage
    BY <2>1 DEF IsResponse
  <2>3. ~Firmware /\ ~Tick /\ ~ReadChunk /\ ~Skipped
    BY DEF Firmware, FirmwareAcks, FirmwareAnswers, FirmwareIgnores, FirmwareIndicates,
           FirmwareUnchanged, PortRemoved, Tick, ReadChunk, Skipped
  <2>4. ~FrameError /\ ~ParseError /\ ~TimeoutExpires /\ ~PortClosed /\ ~ReopenCloses
    <3>1. \A status : End(status, NoMessage) => ret'.msg = NoMessage
      BY DEF End
    <3>2. ~CallFails("error") /\ ~CallFails("timeout") /\ ~End("ok", NoMessage)
      BY <2>2, <3>1 DEF CallFails
    <3> QED BY <3>2 DEF FrameError, ParseError, TimeoutExpires, PortClosed, ReopenCloses
  <2>5. ~Client
    <3>1. \A name, timeout : Begin(name, timeout) => ret'.msg = NoMessage
      BY DEF Begin, NoReturn
    <3>2. \A cmd, mode, t : ~Execute(cmd, mode, t)
      BY <2>2, <3>1 DEF Execute
    <3>3. ~Recv /\ ~ReopenOpens
      BY <2>2, <3>1 DEF Recv, ReopenOpens
    <3>4. ~ExecuteWriteFails /\ ~ReopenFails
      BY <2>2 DEF ExecuteWriteFails, ReopenFails
    <3> QED BY <3>2, <3>3, <3>4 DEF Client
  <2>6. Answered
    BY <2>3, <2>4, <2>5 DEF Next, Progress
  <2>7. TakeMessage /\ ret'.msg = Head(inbuf)
    BY <2>6 DEF Answered, End
  <2>8. IsResponse(Head(inbuf))
    BY <2>7 DEF IsResponse
  <2>9. settled < Head(inbuf).req /\ Head(inbuf).req \in Nat /\ settled \in Nat
    <3>1. Head(inbuf) \in MessageUpTo(sent) /\ settled < Head(inbuf).req
      BY <2>7, <2>8, TakeOrder
    <3> QED BY <3>1, RpcAssumption DEF MessageUpTo, OrderInv, TypeInv, TypeOK
  <2> QED BY <2>7, <2>9
<1> QED BY OrderInvariant, <1>1, PTL DEF Spec, CleanSlate

-----------------------------------------------------------------------------
(* The permission to attach.  Between the firmware's announcement and the   *)
(* flag there is the queue of messages: what AfterMessages makes of it.     *)

\* A set of indices has a last one.
LEMMA LastExists ==
    ASSUME NEW n \in Nat, NEW I \in SUBSET (1..n), I # {}
    PROVE  \E i \in I : \A j \in I : j <= i
<1> DEFINE Above(i) == {j \in I : i < j}
           all == {Above(i) : i \in I}
<1>1. IsFiniteSet(I) /\ I \subseteq Int
  <2>1. IsFiniteSet(1..n) /\ I \in SUBSET (1..n)
    BY FS_Interval
  <2>2. IsFiniteSet(I)
    BY <2>1, FS_Subset
  <2> QED BY <2>1, <2>2
<1>2. all \subseteq FiniteSubsetsOf(I)
  BY <1>1, FS_FiniteSubsetsOfFinite
<1>3. all # {}
  OBVIOUS
<1>4. \E x \in all : \A y \in all : ~(<<y, x>> \in StrictSubsetOrdering(I))
  <2> HIDE DEF all
  <2> QED BY <1>2, <1>3, FS_StrictSubsetOrderingWellFounded, WFMin
<1>5. PICK i \in I : \A j \in I : ~(<<Above(j), Above(i)>> \in StrictSubsetOrdering(I))
  BY <1>4
<1>6. \A j \in I : j <= i
  <2> SUFFICES ASSUME NEW j \in I, ~(j <= i) PROVE FALSE
    OBVIOUS
  <2>1. i < j /\ i \in Int /\ j \in Int
    OBVIOUS
  <2>2. \A k \in I : j < k => i < k
    BY <2>1, <1>1
  <2>3. Above(j) \subseteq Above(i) /\ j \in Above(i) /\ j \notin Above(j)
    <3>1. ~(j < j)
      BY <2>1
    <3> QED BY <2>1, <2>2, <3>1
  <2>4. <<Above(j), Above(i)>> \in StrictSubsetOrdering(I)
    BY <2>3 DEF StrictSubsetOrdering
  <2> QED BY <2>4, <1>5
<1> QED BY <1>6

\* The last permission of a sequence counts, and without one nothing changes.
LEMMA LastCounts ==
    ASSUME NEW S, NEW s \in Seq(S), NEW flag
    PROVE  /\ (\A i \in 1..Len(s) : ~IsPermission(s[i])) => AfterMessages(flag, s) = flag
           /\ \A i \in 1..Len(s) :
                /\ IsPermission(s[i])
                /\ \A j \in 1..Len(s) : IsPermission(s[j]) => j <= i
                => AfterMessages(flag, s) = (s[i].arg # 0)
<1> DEFINE said == {i \in DOMAIN s : IsPermission(s[i])}
           last == CHOOSE i \in said : \A j \in said : j <= i
<1>1. DOMAIN s = 1..Len(s) /\ Len(s) \in Nat
  BY LenProperties
<1>2. AfterMessages(flag, s) = IF said = {} THEN flag ELSE s[last].arg # 0
  BY DEF AfterMessages
<1>3. ASSUME NEW i \in said, \A j \in said : j <= i
      PROVE  last = i
  <2>1. last \in said /\ \A j \in said : j <= last
    BY <1>3
  <2>2. last <= i /\ i <= last /\ i \in Nat /\ last \in Nat
    BY <2>1, <1>1, <1>3
  <2> QED BY <2>2
<1>4. ASSUME NEW i \in 1..Len(s), IsPermission(s[i]),
             \A j \in 1..Len(s) : IsPermission(s[j]) => j <= i
      PROVE  AfterMessages(flag, s) = (s[i].arg # 0)
  <2>1. i \in said /\ \A j \in said : j <= i
    BY <1>1, <1>4
  <2>2. last = i
    BY <2>1, <1>3
  <2> QED BY <1>2, <2>1, <2>2
<1>5. ASSUME \A i \in 1..Len(s) : ~IsPermission(s[i])
      PROVE  AfterMessages(flag, s) = flag
  <2>1. said = {}
    BY <1>1, <1>5
  <2> QED BY <1>2, <2>1
<1> QED BY <1>4, <1>5

\* Messages one after the other: what the first make of the flag, and the others of
\* that.
LEMMA OneAfterOther ==
    ASSUME NEW S, NEW s \in Seq(S), NEW t \in Seq(S), NEW flag
    PROVE  AfterMessages(flag, s \o t) = AfterMessages(AfterMessages(flag, s), t)
<1> DEFINE u == s \o t
           mid == AfterMessages(flag, s)
<1>1. /\ u \in Seq(S) /\ Len(u) = Len(s) + Len(t) /\ Len(s) \in Nat /\ Len(t) \in Nat
      /\ \A i \in 1..Len(s) : u[i] = s[i]
      /\ \A i \in 1..Len(t) : u[Len(s) + i] = t[i]
      /\ \A k \in 1..Len(u) : k \in 1..Len(s) \/ \E i \in 1..Len(t) : k = Len(s) + i
  <2>1. /\ u \in Seq(S) /\ Len(u) = Len(s) + Len(t) /\ Len(s) \in Nat /\ Len(t) \in Nat
        /\ \A i \in 1..(Len(s) + Len(t)) : u[i] = IF i <= Len(s) THEN s[i] ELSE t[i - Len(s)]
    BY ConcatProperties, LenProperties
  <2>2. \A i \in 1..Len(s) : u[i] = s[i]
    BY <2>1
  <2>3. \A i \in 1..Len(t) : u[Len(s) + i] = t[i]
    <3> TAKE i \in 1..Len(t)
    <3>1. Len(s) + i \in 1..(Len(s) + Len(t)) /\ ~(Len(s) + i <= Len(s)) /\ (Len(s) + i) - Len(s) = i
      BY <2>1
    <3> QED BY <2>1, <3>1
  <2>4. ASSUME NEW k \in 1..Len(u), k \notin 1..Len(s)
        PROVE  \E i \in 1..Len(t) : k = Len(s) + i
    <3>1. k - Len(s) \in 1..Len(t) /\ k = Len(s) + (k - Len(s))
      BY <2>1, <2>4
    <3> QED BY <3>1
  <2> QED BY <2>1, <2>2, <2>3, <2>4
<1> HIDE DEF u
<1>2. CASE \E i \in 1..Len(t) : IsPermission(t[i])
  <2>1. PICK i \in 1..Len(t) : /\ IsPermission(t[i])
                               /\ \A j \in 1..Len(t) : IsPermission(t[j]) => j <= i
    <3> DEFINE I == {i \in 1..Len(t) : IsPermission(t[i])}
    <3>1. PICK i \in I : \A j \in I : j <= i
      <4>1. I \in SUBSET (1..Len(t)) /\ I # {}
        BY <1>2
      <4> HIDE DEF I
      <4> QED BY <4>1, <1>1, LastExists
    <3> QED BY <3>1
  <2>2. AfterMessages(mid, t) = (t[i].arg # 0)
    <3> HIDE DEF mid
    <3> QED BY <2>1, LastCounts
  <2>3. Len(s) + i \in 1..Len(u) /\ u[Len(s) + i] = t[i]
    BY <1>1
  <2>4. \A k \in 1..Len(u) : IsPermission(u[k]) => k <= Len(s) + i
    <3> SUFFICES ASSUME NEW k \in 1..Len(u), IsPermission(u[k]) PROVE k <= Len(s) + i
      OBVIOUS
    <3>1. CASE k \in 1..Len(s)
      BY <3>1, <1>1
    <3>2. CASE \E j \in 1..Len(t) : k = Len(s) + j
      <4> PICK j \in 1..Len(t) : k = Len(s) + j
        BY <3>2
      <4>1. IsPermission(t[j])
        BY <1>1
      <4>2. j <= i
        BY <4>1, <2>1
      <4> QED BY <4>2, <1>1
    <3> QED BY <3>1, <3>2, <1>1
  <2>5. AfterMessages(flag, u) = (u[Len(s) + i].arg # 0)
    BY <1>1, <2>1, <2>3, <2>4, LastCounts
  <2> QED BY <2>2, <2>3, <2>5 DEF u
<1>3. CASE \A i \in 1..Len(t) : ~IsPermission(t[i])
  <2>1. AfterMessages(mid, t) = mid
    <3> HIDE DEF mid
    <3> QED BY <1>3, LastCounts
  <2>2. CASE \E i \in 1..Len(s) : IsPermission(s[i])
    <3>1. PICK i \in 1..Len(s) : /\ IsPermission(s[i])
                                 /\ \A j \in 1..Len(s) : IsPermission(s[j]) => j <= i
      <4> DEFINE I == {i \in 1..Len(s) : IsPermission(s[i])}
      <4>1. PICK i \in I : \A j \in I : j <= i
        <5>1. I \in SUBSET (1..Len(s)) /\ I # {}
          BY <2>2
        <5> HIDE DEF I
        <5> QED BY <5>1, <1>1, LastExists
      <4> QED BY <4>1
    <3>2. AfterMessages(flag, s) = (s[i].arg # 0)
      BY <3>1, LastCounts
    <3>3. i \in 1..Len(u) /\ u[i] = s[i]
      BY <1>1
    <3>4. \A k \in 1..Len(u) : IsPermission(u[k]) => k <= i
      BY <1>1, <1>3, <3>1
    <3>5. AfterMessages(flag, u) = (u[i].arg # 0)
      BY <1>1, <3>1, <3>3, <3>4, LastCounts
    <3> QED BY <2>1, <3>2, <3>3, <3>5 DEF u
  <2>3. CASE \A i \in 1..Len(s) : ~IsPermission(s[i])
    <3>1. AfterMessages(flag, s) = flag
      BY <2>3, LastCounts
    <3>2. \A k \in 1..Len(u) : ~IsPermission(u[k])
      BY <1>1, <1>3, <2>3
    <3>3. AfterMessages(flag, u) = flag
      BY <1>1, <3>2, LastCounts
    <3> QED BY <2>1, <3>1, <3>3 DEF u
  <2> QED BY <2>2, <2>3
<1> QED BY <1>2, <1>3

\* In particular one message at either end of a sequence.
LEMMA OneMessage ==
    ASSUME NEW S, NEW s \in Seq(S), NEW m \in S, NEW flag
    PROVE  /\ AfterMessages(flag, <<>>) = flag
           /\ AfterMessages(flag, Append(s, m)) = AfterMessage(AfterMessages(flag, s), m)
           /\ s # <<>> => AfterMessages(flag, s) = AfterMessages(AfterMessage(flag, Head(s)), Tail(s))
<1>1. ASSUME NEW e \in S, NEW f
      PROVE  <<e>> \in Seq(S) /\ AfterMessages(f, <<e>>) = AfterMessage(f, e)
  <2>1. <<e>> \in Seq(S) /\ Len(<<e>>) = 1 /\ <<e>>[1] = e /\ 1..1 = {1}
    OBVIOUS
  <2> DEFINE one == <<e>>
  <2>2. one \in Seq(S) /\ Len(one) = 1 /\ one[1] = e
    BY <2>1
  <2> HIDE DEF one
  <2>3. CASE IsPermission(e)
    <3>1. AfterMessages(f, one) = (one[1].arg # 0)
      BY <2>1, <2>2, <2>3, LastCounts
    <3> QED BY <2>1, <2>2, <2>3, <3>1 DEF AfterMessage, one
  <2>4. CASE ~IsPermission(e)
    <3>1. AfterMessages(f, one) = f
      BY <2>1, <2>2, <2>4, LastCounts
    <3> QED BY <2>1, <2>4, <3>1 DEF AfterMessage, one
  <2> QED BY <2>3, <2>4
<1>2. AfterMessages(flag, <<>>) = flag
  BY DEF AfterMessages
<1>3. AfterMessages(flag, Append(s, m)) = AfterMessage(AfterMessages(flag, s), m)
  <2>1. Append(s, m) = s \o <<m>>
    OBVIOUS
  <2>2. AfterMessages(flag, s \o <<m>>) = AfterMessages(AfterMessages(flag, s), <<m>>)
    BY <1>1, OneAfterOther
  <2> QED BY <1>1, <2>1, <2>2
<1>4. ASSUME s # <<>>
      PROVE  AfterMessages(flag, s) = AfterMessages(AfterMessage(flag, Head(s)), Tail(s))
  <2>1. Head(s) \in S /\ Tail(s) \in Seq(S) /\ s = <<Head(s)>> \o Tail(s)
    <3>1. Head(s) \in S /\ Tail(s) \in Seq(S)
      BY <1>4, HeadTailProperties
    <3>2. s = <<Head(s)>> \o Tail(s)
      BY <1>4
    <3> QED BY <3>1, <3>2
  <2>2. AfterMessages(flag, <<Head(s)>> \o Tail(s))
            = AfterMessages(AfterMessages(flag, <<Head(s)>>), Tail(s))
    BY <1>1, <2>1, OneAfterOther
  <2> QED BY <1>1, <2>1, <2>2
<1> QED BY <1>2, <1>3, <1>4

\* The flag at the end of the queue.
FlagInv == TypeInv /\ FlagFollowsFirmware

\* What the queue makes of the flag, and of one with nothing behind it.
LEMMA QueueType ==
    ASSUME TypeInv
    PROVE  /\ inbuf \in Seq(Message) /\ wire \in Seq(Message)
           /\ inbuf \o wire \in Seq(Message)
           /\ inbuf = <<>> => inbuf \o wire = wire
           /\ inbuf \o <<>> = inbuf
           /\ <<>> \o wire = wire
<1>1. inbuf \in Seq(Message) /\ wire \in Seq(Message)
  BY DEF TypeInv, TypeOK
<1> QED BY <1>1, ConcatProperties

\* A message that reaches the queue is announced.
LEMMA EmitFlag ==
    ASSUME FlagInv, NEW m \in MessageUpTo(sent), NEW cost \in Nat, Emit(m, cost),
           UNCHANGED <<inbuf, attachAllowed>>
    PROVE  FlagFollowsFirmware'
<1> PICK f \in FaultsOf(m) :
        LET given == [m EXCEPT !.fault = f]
        IN  /\ wire' = Append(wire, given)
            /\ announced' = AfterMessage(announced, given)
  BY DEF Emit
<1> DEFINE given == [m EXCEPT !.fault = f]
<1>1. given \in Message
  <2>1. sent \in Nat
    BY RpcAssumption DEF FlagInv, TypeInv, TypeOK
  <2> QED BY <2>1 DEF FaultsOf, MessageUpTo, Message
<1> HIDE DEF given
<1>2. inbuf \in Seq(Message) /\ wire \in Seq(Message) /\ inbuf \o wire \in Seq(Message)
  BY QueueType DEF FlagInv
<1>3. inbuf \o Append(wire, given) = Append(inbuf \o wire, given)
  BY <1>1, <1>2, JoinAppend
<1>4. AfterMessages(attachAllowed, Append(inbuf \o wire, given))
        = AfterMessage(AfterMessages(attachAllowed, inbuf \o wire), given)
  <2> DEFINE queue == inbuf \o wire
  <2>1. queue \in Seq(Message)
    BY <1>2
  <2> HIDE DEF queue
  <2>2. AfterMessages(attachAllowed, Append(queue, given))
          = AfterMessage(AfterMessages(attachAllowed, queue), given)
    BY <1>1, <2>1, OneMessage
  <2> QED BY <2>2 DEF queue
<1>5. wire' = Append(wire, given) /\ announced' = AfterMessage(announced, given)
  BY DEF given
<1> QED BY <1>3, <1>4, <1>5 DEF FlagInv, FlagFollowsFirmware

\* Nothing of what the flag is compared with changes.
LEMMA FlagUnchanged ==
    ASSUME FlagInv, UNCHANGED <<inbuf, attachAllowed, wire, announced>>
    PROVE  FlagFollowsFirmware'
BY DEF FlagInv, FlagFollowsFirmware

\* What the firmware and the driver do.
LEMMA FirmwareFlag == FlagInv /\ Firmware => FlagFollowsFirmware'
<1> SUFFICES ASSUME FlagInv, Firmware PROVE FlagFollowsFirmware'
  OBVIOUS
<1> USE RpcAssumption
<1>0. sent \in Nat /\ fwq \in Seq(PendingUpTo(sent))
  BY DEF FlagInv, TypeInv, TypeOK
<1>h. fwq # <<>> => Head(fwq) \in PendingUpTo(sent)
  BY <1>0, HeadTailProperties
<1>1. CASE FirmwareAcks
  <2>1. [fault |-> "none", tid |-> TXID_ASYNC, code |-> ACK_CODE_MIN, arg |-> NoArg,
         req |-> Head(fwq).req] \in MessageUpTo(sent)
    BY <1>1, <1>h DEF FirmwareAcks, MessageUpTo, PendingUpTo, ACK_CODE_MIN
  <2> QED BY <1>1, <2>1, EmitFlag DEF FirmwareAcks, FirmwareUnchanged
<1>2. ASSUME NEW arg \in Args, FirmwareAnswers(arg) PROVE FlagFollowsFirmware'
  <2> DEFINE m == [fault |-> "none",
                   tid |-> IF Head(fwq).mode = "Sync" THEN TXID_SYNC ELSE TXID_ASYNC,
                   code |-> Head(fwq).cmd, arg |-> arg, req |-> Head(fwq).req]
  <2>1. Head(fwq).cmd \in Nat /\ Head(fwq).req \in 0..sent
    <3>1. Head(fwq).cmd \in Cmds /\ Head(fwq).req \in 0..sent
      BY <1>2, <1>h DEF FirmwareAnswers, PendingUpTo
    <3>2. \A c \in Cmds : c \in Nat
      BY DEF ACK_CODE_MIN
    <3> QED BY <3>1, <3>2
  <2>2. m \in MessageUpTo(sent)
    <3>1. m.tid \in {TXID_SYNC, TXID_ASYNC, TXID_OTHER}
      OBVIOUS
    <3> QED BY <2>1, <3>1 DEF MessageUpTo
  <2> QED BY <1>2, <2>2, EmitFlag DEF FirmwareAnswers, FirmwareUnchanged
<1>3. CASE FirmwareIgnores
  BY <1>3, FlagUnchanged DEF FirmwareIgnores, FirmwareUnchanged
<1>4. ASSUME NEW ind \in Inds, NEW arg \in Args, NEW cost \in Costs,
       FirmwareIndicates(ind, arg, cost)
      PROVE  FlagFollowsFirmware'
  <2>1. [fault |-> "none", tid |-> TXID_OTHER, code |-> ind, arg |-> arg, req |-> 0]
            \in MessageUpTo(sent)
    BY <1>0 DEF MessageUpTo
  <2> QED BY <1>4, <2>1, EmitFlag DEF FirmwareIndicates, FirmwareUnchanged
<1>5. CASE PortRemoved
  <2>1. inbuf' \o wire' = inbuf
    BY <1>5, QueueType DEF PortRemoved, FlagInv
  <2> QED BY <1>5, <2>1 DEF PortRemoved, FlagFollowsFirmware
<1> QED BY <1>1, <1>2, <1>3, <1>4, <1>5 DEF Firmware

\* A message taken is one that is handled.
LEMMA TakeMessageFlag ==
    ASSUME FlagInv, TakeMessage
    PROVE  FlagFollowsFirmware'
<1> DEFINE queue == inbuf \o wire
<1>1. inbuf \in Seq(Message) /\ wire \in Seq(Message) /\ queue \in Seq(Message) /\ inbuf # <<>>
  BY QueueType DEF FlagInv, TakeMessage
<1>2. /\ queue # <<>> /\ Head(queue) = Head(inbuf)
      /\ Tail(inbuf) \o wire = Tail(queue)
  BY <1>1, JoinTail
<1>3. Head(queue) \in Message
  BY <1>1, <1>2, HeadTailProperties
<1> HIDE DEF queue
<1>4. AfterMessages(attachAllowed, queue)
        = AfterMessages(AfterMessage(attachAllowed, Head(queue)), Tail(queue))
  BY <1>1, <1>2, <1>3, OneMessage
<1>5. inbuf' \o wire' = Tail(queue) /\ attachAllowed' = AfterMessage(attachAllowed, Head(queue))
  BY <1>2 DEF TakeMessage, portVars
<1>6. announced = AfterMessages(attachAllowed, queue) /\ announced' = announced
  BY DEF FlagInv, FlagFollowsFirmware, TakeMessage, queue
<1> QED BY <1>4, <1>5, <1>6 DEF FlagFollowsFirmware

\* The steps of calls, and time.
LEMMA CallFlag == FlagInv /\ (Progress \/ Tick \/ Client) => FlagFollowsFirmware'
<1> SUFFICES ASSUME FlagInv, Progress \/ Tick \/ Client PROVE FlagFollowsFirmware'
  OBVIOUS
<1>1. CASE ReadChunk
  <2>1. PICK k \in 1..Len(wire) : /\ inbuf' = SubSeq(wire, 1, k)
                                  /\ wire' = SubSeq(wire, k + 1, Len(wire))
    BY <1>1 DEF ReadChunk
  <2>2. inbuf' \o wire' = inbuf \o wire
    BY <1>1, <2>1, CutAndJoin, QueueType DEF ReadChunk, FlagInv
  <2> QED BY <1>1, <2>2 DEF ReadChunk, FlagInv, FlagFollowsFirmware
<1>2. CASE ParseError \/ Answered \/ Skipped
  BY <1>2, TakeMessageFlag DEF ParseError, Answered, Skipped
<1>3. CASE FrameError \/ TimeoutExpires \/ PortClosed \/ Tick
  BY <1>3, FlagUnchanged DEF FrameError, TimeoutExpires, PortClosed, Tick, portVars
<1>4. CASE ReopenCloses
  <2>1. wire' \in Seq(Message) /\ inbuf' = <<>> /\ attachAllowed' = FALSE
        /\ announced' = AfterMessages(FALSE, wire')
    <3>1. <<>> \in Seq(Message) /\ wire \in Seq(Message)
      BY QueueType, EmptySeq DEF FlagInv
    <3> QED BY <1>4, <3>1 DEF ReopenCloses
  <2>2. inbuf' \o wire' = wire'
    BY <2>1, ConcatProperties
  <2> QED BY <2>1, <2>2 DEF FlagFollowsFirmware
<1>5. CASE ReopenOpens
  <2>1. wire' \in Seq(Message) /\ inbuf \in Seq(Message) /\ UNCHANGED <<inbuf, attachAllowed>>
        /\ announced' = AfterMessages(AfterMessages(attachAllowed, inbuf), wire')
    <3>1. <<>> \in Seq(Message) /\ wire \in Seq(Message) /\ inbuf \in Seq(Message)
      BY QueueType, EmptySeq DEF FlagInv
    <3> QED BY <1>5, <3>1 DEF ReopenOpens
  <2>2. AfterMessages(attachAllowed, inbuf \o wire')
            = AfterMessages(AfterMessages(attachAllowed, inbuf), wire')
    BY <2>1, OneAfterOther
  <2> QED BY <2>1, <2>2 DEF FlagFollowsFirmware
<1>6. CASE \E cmd \in Cmds, mode \in Modes, t \in Timeouts : Execute(cmd, mode, t)
  BY <1>6, FlagUnchanged DEF Execute
<1>7. CASE ExecuteWriteFails \/ Recv \/ ReopenFails
  BY <1>7, FlagUnchanged DEF ExecuteWriteFails, Recv, ReopenFails, portVars
<1> QED BY <1>1, <1>2, <1>3, <1>4, <1>5, <1>6, <1>7 DEF Progress, Client

\* A permission to attach is never lost, whichever call reads it and whenever: once
\* the queue is processed, the flag is what the firmware announced last
\* (transport.rs:204-210).
THEOREM FlagAlwaysFollows == Spec => []FlagFollowsFirmware
<1>1. Init => FlagFollowsFirmware
  <2>1. AfterMessages(FALSE, <<>>) = FALSE
    BY DEF AfterMessages
  <2>2. <<>> \o <<>> = <<>>
    OBVIOUS
  <2> QED BY <2>1, <2>2 DEF Init, FlagFollowsFirmware
<1>2. TypeInv /\ FlagFollowsFirmware /\ [Next]_vars => FlagFollowsFirmware'
  BY FirmwareFlag, CallFlag, FlagUnchanged DEF Next, FlagInv, vars
<1> QED BY TypeInvariant, <1>1, <1>2, PTL DEF Spec
=============================================================================
