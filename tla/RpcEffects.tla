----------------------------- MODULE RpcEffects -----------------------------
(***************************************************************************)
(* What each step of the transport does to what a client can still be      *)
(* handed, proved for module Rpc.  What a client's own invariant says of   *)
(* the messages under way is about sets, not about where in which queue    *)
(* they are: this module goes from the one to the other.                   *)
(***************************************************************************)
EXTENDS RpcProofs

\* The messages the client has not taken yet, and with them the one that the
\* last call returned.
Messages == Range(inbuf) \cup Range(wire)
Seen == Messages \cup {ret.msg}

\* The requests that may still be answered, by a response on its way or by one
\* that the firmware has still to send.
Alive == {[req |-> m.req, code |-> m.code] : m \in {n \in Messages : IsResponse(n)}}
         \cup {[req |-> p.req, code |-> p.cmd] : p \in Range(fwq)}

-----------------------------------------------------------------------------
(* Ranges of sequences. *)

\* Taking the first element leaves some of the others.
LEMMA RangeTail ==
    ASSUME NEW S, NEW s \in Seq(S), s # <<>>
    PROVE  Range(Tail(s)) \subseteq Range(s) /\ Head(s) \in Range(s) /\ Range(s) \subseteq S
<1>1. /\ Len(s) \in Nat \ {0} /\ Head(s) = s[1] /\ 1 \in 1..Len(s)
      /\ Len(Tail(s)) = Len(s) - 1 /\ Tail(s) \in Seq(S)
      /\ \A i \in 1..Len(Tail(s)) : Tail(s)[i] = s[i + 1] /\ i + 1 \in 1..Len(s)
  BY EmptySeq, HeadTailProperties
<1>2. Range(s) = {s[i] : i \in 1..Len(s)} /\ Range(s) \subseteq S
  BY RangeEquality, RangeOfSeq
<1>3. Range(Tail(s)) = {Tail(s)[i] : i \in 1..Len(Tail(s))}
  BY <1>1, RangeEquality
<1> QED BY <1>1, <1>2, <1>3

\* Appending adds one element.
LEMMA RangeAppend ==
    ASSUME NEW S, NEW s \in Seq(S), NEW e \in S
    PROVE  Range(Append(s, e)) = Range(s) \cup {e}
<1>1. /\ Len(s) \in Nat /\ Append(s, e) \in Seq(S) /\ Len(Append(s, e)) = Len(s) + 1
      /\ \A i \in 1..Len(s) : Append(s, e)[i] = s[i]
      /\ Append(s, e)[Len(s) + 1] = e
  BY AppendProperties, LenProperties
<1>2. Range(s) = {s[i] : i \in 1..Len(s)}
  BY RangeEquality
<1>3. Range(Append(s, e)) = {Append(s, e)[i] : i \in 1..(Len(s) + 1)}
  BY <1>1, RangeEquality
<1>4. 1..(Len(s) + 1) = 1..Len(s) \cup {Len(s) + 1}
  BY <1>1
<1> QED BY <1>1, <1>2, <1>3, <1>4

\* The empty sequence has no elements.
LEMMA RangeEmpty == Range(<<>>) = {}
BY DEF Range

\* Cutting a sequence in two loses and adds no element.
LEMMA RangeCut ==
    ASSUME NEW S, NEW s \in Seq(S), NEW k \in 1..Len(s)
    PROVE  Range(SubSeq(s, 1, k)) \cup Range(SubSeq(s, k + 1, Len(s))) = Range(s)
<1> DEFINE a == SubSeq(s, 1, k)
           b == SubSeq(s, k + 1, Len(s))
<1>1. a \in Seq(S) /\ b \in Seq(S) /\ a \o b = s
  BY CutAndJoin
<1> HIDE DEF a, b
<1>2. Range(a \o b) = Range(a) \cup Range(b)
  BY <1>1, RangeConcatenation
<1> QED BY <1>1, <1>2 DEF a, b

-----------------------------------------------------------------------------
(* What is under way. *)

\* Everything under way is typed, unsettled, and from a request written; the
\* request that the firmware serves next is newer than every response under way.
UnderWay ==
    /\ sent \in Nat /\ settled \in Nat /\ settled <= sent
    /\ Messages \subseteq MessageUpTo(sent)
    /\ Range(fwq) \subseteq PendingUpTo(sent)
    /\ \A x \in Alive : x.req \in Nat /\ settled < x.req /\ x.req <= sent
    /\ fwq # <<>> =>
        /\ Head(fwq) \in Range(fwq)
        /\ \A m \in Messages : IsResponse(m) => m.req < Head(fwq).req

\* It follows from the order that the transport keeps ...
LEMMA OrderUnderWay == OrderInv => UnderWay
<1> SUFFICES ASSUME OrderInv PROVE UnderWay
  OBVIOUS
<1>1. /\ TypeInv /\ InOrder(Flow, fwq, settled) /\ sent \in Nat /\ settled \in 0..sent
      /\ Flow \in Seq(MessageUpTo(sent)) /\ fwq \in Seq(PendingUpTo(sent))
      /\ inbuf \in Seq(MessageUpTo(sent)) /\ wire \in Seq(MessageUpTo(sent))
  BY RpcAssumption, FlowType DEF OrderInv, TypeInv, TypeOK
<1>2. Messages = Range(Flow)
  BY <1>1, RangeConcatenation DEF Messages, Flow
<1>3. /\ Range(Flow) = {Flow[i] : i \in 1..Len(Flow)} /\ Range(Flow) \subseteq MessageUpTo(sent)
      /\ Range(fwq) = {fwq[i] : i \in 1..Len(fwq)} /\ Range(fwq) \subseteq PendingUpTo(sent)
  BY <1>1, RangeEquality, RangeOfSeq
<1>4. /\ \A m \in Messages : m.req \in 0..sent /\ (IsResponse(m) => settled < m.req)
      /\ \A p \in Range(fwq) : p.req \in 0..sent /\ settled < p.req
  <2>1. /\ \A m \in MessageUpTo(sent) : m.req \in 0..sent
        /\ \A p \in PendingUpTo(sent) : p.req \in 0..sent
    BY DEF MessageUpTo, PendingUpTo
  <2>2. /\ \A i \in 1..Len(Flow) : IsResponse(Flow[i]) => settled < Flow[i].req
        /\ \A i \in 1..Len(fwq) : settled < fwq[i].req
    BY <1>1 DEF InOrder
  <2> QED BY <1>2, <1>3, <2>1, <2>2
<1>5. \A x \in Alive : x.req \in Nat /\ settled < x.req /\ x.req <= sent
  <2> TAKE x \in Alive
  <2>1. \/ \E m \in Messages : IsResponse(m) /\ x.req = m.req
        \/ \E p \in Range(fwq) : x.req = p.req
    BY DEF Alive
  <2>2. x.req \in 0..sent /\ settled < x.req
    BY <1>4, <2>1
  <2> QED BY <1>1, <2>2
<1>6. ASSUME fwq # <<>>
      PROVE  /\ Head(fwq) \in Range(fwq)
             /\ \A m \in Messages : IsResponse(m) => m.req < Head(fwq).req
  <2>1. Head(fwq) = fwq[1] /\ 1 \in 1..Len(fwq)
    BY <1>1, <1>6, EmptySeq, HeadTailProperties
  <2> QED BY <1>1, <1>2, <1>3, <2>1 DEF InOrder
<1> QED BY <1>1, <1>2, <1>3, <1>5, <1>6 DEF UnderWay

\* ... before a step as after it.
LEMMA OrderUnderWayAfter == OrderInv' => UnderWay'
BY OrderUnderWay, PTL

-----------------------------------------------------------------------------
(* The steps of the firmware. *)

\* What the firmware leaves alone of the call in progress.
CallsAlone == UNCHANGED <<up, call, ret, sent, settled, failed>>

\* A message that is emitted is one more under way, well-formed or not.
LEMMA EmitSeen ==
    ASSUME OrderInv, NEW m \in MessageUpTo(sent), NEW cost \in Nat, Emit(m, cost),
           inbuf' = inbuf, ret' = ret
    PROVE  \E given \in MessageUpTo(sent) :
              /\ Seen' = Seen \cup {given} /\ Messages' = Messages \cup {given}
              /\ given.req = m.req /\ given.tid = m.tid
              /\ given.code = m.code /\ given.arg = m.arg
<1>1. PICK f \in FaultsOf(m) : wire' = Append(wire, [m EXCEPT !.fault = f])
  BY DEF Emit
<1> DEFINE given == [m EXCEPT !.fault = f]
<1>2. f \in Faults \cup {"none"}
  BY DEF FaultsOf
<1>3. /\ given \in MessageUpTo(sent)
      /\ given.req = m.req /\ given.tid = m.tid /\ given.code = m.code /\ given.arg = m.arg
  BY <1>2 DEF MessageUpTo
<1> HIDE DEF given
<1>4. Range(wire') = Range(wire) \cup {given}
  <2>1. wire \in Seq(MessageUpTo(sent)) /\ wire' = Append(wire, given)
    BY <1>1 DEF OrderInv, TypeInv, given
  <2> QED BY <1>3, <2>1, RangeAppend
<1> QED BY <1>3, <1>4 DEF Messages, Seen

\* The oldest request is answered: one request the fewer is pending, and its
\* response is under way unless it was garbled.
LEMMA AnswersEffect ==
    ASSUME OrderInv, NEW arg \in Args, FirmwareAnswers(arg)
    PROVE  /\ up /\ fwq # <<>> /\ CallsAlone
           /\ Alive' \subseteq Alive
           /\ \E given \in MessageUpTo(sent) :
                /\ Seen' = Seen \cup {given}
                /\ given.req = Head(fwq).req /\ given.code = Head(fwq).cmd /\ given.arg = arg
<1> USE RpcAssumption
<1> DEFINE m == [fault |-> "none",
                 tid |-> IF Head(fwq).mode = "Sync" THEN TXID_SYNC ELSE TXID_ASYNC,
                 code |-> Head(fwq).cmd, arg |-> arg, req |-> Head(fwq).req]
<1>1. /\ up /\ fwq # <<>> /\ fwq' = Tail(fwq) /\ Emit(m, 0)
      /\ CallsAlone /\ inbuf' = inbuf
  BY DEF FirmwareAnswers, FirmwareUnchanged, CallsAlone
<1>2. /\ Head(fwq) \in PendingUpTo(sent) /\ Head(fwq) \in Range(fwq)
      /\ Range(fwq') \subseteq Range(fwq)
  <2>1. fwq \in Seq(PendingUpTo(sent))
    BY DEF OrderInv, TypeInv
  <2> QED BY <1>1, <2>1, RangeTail
<1>3. m \in MessageUpTo(sent)
  <2>1. Head(fwq).cmd \in Cmds /\ Head(fwq).req \in 0..sent
    BY <1>2 DEF PendingUpTo
  <2>2. \A c \in Cmds : c \in Nat
    BY DEF ACK_CODE_MIN
  <2>3. m.tid \in {TXID_SYNC, TXID_ASYNC, TXID_OTHER}
    OBVIOUS
  <2> QED BY <2>1, <2>2, <2>3 DEF MessageUpTo
<1>4. ret' = ret
  BY <1>1 DEF CallsAlone
<1>5. PICK given \in MessageUpTo(sent) :
        /\ Seen' = Seen \cup {given} /\ Messages' = Messages \cup {given}
        /\ given.req = m.req /\ given.code = m.code /\ given.arg = m.arg
  BY <1>1, <1>3, <1>4, EmitSeen
<1>6. [req |-> given.req, code |-> given.code] = [req |-> Head(fwq).req, code |-> Head(fwq).cmd]
  BY <1>5
<1>7. Alive' \subseteq Alive
  BY <1>2, <1>5, <1>6 DEF Alive
<1> QED BY <1>1, <1>5, <1>7

\* The oldest request is ignored.
LEMMA IgnoresEffect ==
    ASSUME OrderInv, FirmwareIgnores
    PROVE  up /\ fwq # <<>> /\ CallsAlone /\ Alive' \subseteq Alive /\ Seen' = Seen
<1>1. /\ up /\ fwq # <<>> /\ fwq' = Tail(fwq) /\ wire' = wire
      /\ CallsAlone /\ inbuf' = inbuf /\ ret' = ret
  BY DEF FirmwareIgnores, FirmwareUnchanged, CallsAlone
<1>2. Range(fwq') \subseteq Range(fwq)
  <2>1. fwq \in Seq(PendingUpTo(sent))
    BY DEF OrderInv, TypeInv
  <2> QED BY <1>1, <2>1, RangeTail
<1> QED BY <1>1, <1>2 DEF Alive, Messages, Seen

\* An acknowledgement is no response, and leaves the request to be answered.
LEMMA AcksEffect ==
    ASSUME OrderInv, FirmwareAcks
    PROVE  /\ CallsAlone
           /\ Alive' \subseteq Alive
           /\ \E given \in MessageUpTo(sent) :
                Seen' = Seen \cup {given} /\ ~IsResponse(given) /\ given.code = ACK_CODE_MIN
<1> USE RpcAssumption
<1> DEFINE m == [fault |-> "none", tid |-> TXID_ASYNC, code |-> ACK_CODE_MIN,
                 arg |-> NoArg, req |-> Head(fwq).req]
<1>1. /\ fwq # <<>> /\ fwq' = [fwq EXCEPT ![1].acked = TRUE] /\ Emit(m, 0)
      /\ CallsAlone /\ inbuf' = inbuf /\ ret' = ret
  BY DEF FirmwareAcks, FirmwareUnchanged, CallsAlone
<1>2. /\ fwq \in Seq(PendingUpTo(sent)) /\ Len(fwq) \in Nat \ {0}
      /\ Head(fwq) \in PendingUpTo(sent)
      /\ \A i \in 1..Len(fwq) : fwq[i] \in PendingUpTo(sent)
  BY <1>1, EmptySeq, HeadTailProperties, ElementOfSeq DEF OrderInv, TypeInv
<1>3. m \in MessageUpTo(sent)
  BY <1>2 DEF MessageUpTo, PendingUpTo, ACK_CODE_MIN
<1>4. PICK given \in MessageUpTo(sent) :
        /\ Seen' = Seen \cup {given} /\ Messages' = Messages \cup {given}
        /\ given.tid = m.tid /\ given.code = m.code
  BY <1>1, <1>3, EmitSeen
<1>5. ~IsResponse(given)
  <2>1. given \in Message
    BY DEF MessageUpTo, Message, OrderInv, TypeInv, TypeOK
  <2> QED BY <1>4, <2>1, NotResponses
<1>6. \A p \in Range(fwq') : \E q \in Range(fwq) : p.req = q.req /\ p.cmd = q.cmd
  <2>1. /\ fwq' = [fwq EXCEPT ![1] = [fwq[1] EXCEPT !.acked = TRUE]]
        /\ DOMAIN fwq = 1..Len(fwq)
    BY <1>1, <1>2
  <2>2. \A i \in DOMAIN fwq : fwq'[i].req = fwq[i].req /\ fwq'[i].cmd = fwq[i].cmd
    BY <1>2, <2>1 DEF PendingUpTo
  <2>3. DOMAIN fwq' = DOMAIN fwq
    BY <2>1
  <2> QED BY <2>2, <2>3 DEF Range
<1>7. Alive' \subseteq Alive
  BY <1>4, <1>5, <1>6 DEF Alive
<1> QED BY <1>1, <1>4, <1>5, <1>7

\* An indication is no response.
LEMMA IndicatesEffect ==
    ASSUME OrderInv, NEW ind \in Inds, NEW arg \in Args, NEW cost \in Costs,
           FirmwareIndicates(ind, arg, cost)
    PROVE  /\ CallsAlone
           /\ Alive' \subseteq Alive
           /\ \E given \in MessageUpTo(sent) :
                /\ Seen' = Seen \cup {given} /\ ~IsResponse(given)
                /\ given.code = ind /\ given.arg = arg
<1> USE RpcAssumption
<1> DEFINE m == [fault |-> "none", tid |-> TXID_OTHER, code |-> ind, arg |-> arg, req |-> 0]
<1>1. /\ fwq' = fwq /\ Emit(m, cost)
      /\ CallsAlone /\ inbuf' = inbuf /\ ret' = ret
  BY DEF FirmwareIndicates, FirmwareUnchanged, CallsAlone
<1>2. m \in MessageUpTo(sent)
  BY DEF MessageUpTo, OrderInv, TypeInv, TypeOK
<1>3. PICK given \in MessageUpTo(sent) :
        /\ Seen' = Seen \cup {given} /\ Messages' = Messages \cup {given}
        /\ given.tid = m.tid /\ given.code = m.code /\ given.arg = m.arg
  BY <1>1, <1>2, EmitSeen
<1>4. ~IsResponse(given)
  <2>1. given \in Message
    BY DEF MessageUpTo, Message, OrderInv, TypeInv, TypeOK
  <2> QED BY <1>3, <2>1, NotResponses
<1>5. Alive' \subseteq Alive
  BY <1>1, <1>3, <1>4 DEF Alive
<1> QED BY <1>1, <1>3, <1>4, <1>5

\* The port goes, with what the firmware and the driver held.
LEMMA RemovedEffect ==
    ASSUME OrderInv, PortRemoved
    PROVE  /\ ~up' /\ UNCHANGED <<call, ret, sent, settled, failed>>
           /\ Alive' \subseteq Alive /\ Seen' \subseteq Seen
<1>1. /\ ~up' /\ UNCHANGED <<call, ret, sent, settled, failed>>
      /\ fwq' = <<>> /\ wire' = <<>> /\ inbuf' = inbuf /\ ret' = ret
  BY DEF PortRemoved
<1> QED BY <1>1, RangeEmpty DEF Alive, Messages, Seen

-----------------------------------------------------------------------------
(* The steps of a call in progress: it goes on, or it ends in one of three  *)
(* ways.                                                                    *)

GoesOn == UNCHANGED <<call, ret, settled, failed>>

Fails ==
    /\ call \in {"execute", "recv"} /\ call' = "idle"
    /\ \E status \in {"timeout", "error"} :
        ret' = [of |-> call, status |-> status, msg |-> NoMessage]
    /\ settled' = settled /\ failed' = (failed \/ call = "execute")

HandsBack ==
    /\ call \in {"execute", "recv"} /\ call' = "idle"
    /\ \E m \in Messages :
        /\ call = "execute" => IsResponse(m)
        /\ ret' = [of |-> call, status |-> "ok", msg |-> m]
        /\ settled' = IF IsResponse(m) THEN m.req ELSE settled
    /\ failed' = failed

StartsOver ==
    /\ call = "reopen" /\ call' = "idle"
    /\ ret' = [of |-> "reopen", status |-> "ok", msg |-> NoMessage]
    /\ settled' = sent /\ failed' = FALSE
    /\ Alive' = {}

\* Taking a message takes it from what is under way.
LEMMA TakeEffect ==
    ASSUME OrderInv, TakeMessage
    PROVE  /\ Head(inbuf) \in Messages /\ UNCHANGED <<up, sent>>
           /\ Messages' \subseteq Messages /\ Alive' \subseteq Alive
<1>1. /\ inbuf # <<>> /\ inbuf' = Tail(inbuf) /\ UNCHANGED <<up, sent, fwq, wire>>
  BY DEF TakeMessage, portVars
<1>2. Head(inbuf) \in Range(inbuf) /\ Range(inbuf') \subseteq Range(inbuf)
  <2>1. inbuf \in Seq(MessageUpTo(sent))
    BY DEF OrderInv, TypeInv
  <2> QED BY <1>1, <2>1, RangeTail
<1>3. Messages' \subseteq Messages
  BY <1>1, <1>2 DEF Messages
<1> QED BY <1>1, <1>2, <1>3 DEF Messages, Alive

\* Whatever a call in progress does, it adds nothing to what is under way.
LEMMA ProgressEffect ==
    ASSUME OrderInv, Progress
    PROVE  /\ UNCHANGED <<up, sent>>
           /\ Messages' \subseteq Messages /\ Alive' \subseteq Alive
           /\ GoesOn \/ Fails \/ HandsBack \/ StartsOver
<1>1. CASE ReadChunk
  <2>1. PICK k \in 1..Len(wire) :
            /\ inbuf' = SubSeq(wire, 1, k)
            /\ wire' = SubSeq(wire, k + 1, Len(wire))
    BY <1>1 DEF ReadChunk
  <2>2. Range(inbuf') \cup Range(wire') = Range(wire)
    <3>1. wire \in Seq(MessageUpTo(sent))
      BY DEF OrderInv, TypeInv
    <3> QED BY <2>1, <3>1, RangeCut
  <2>3. Messages' \subseteq Messages
    BY <2>2 DEF Messages
  <2>4. fwq' = fwq /\ UNCHANGED <<up, sent>> /\ GoesOn
    BY <1>1 DEF ReadChunk, GoesOn
  <2> QED BY <2>3, <2>4 DEF Alive
<1>2. CASE FrameError \/ TimeoutExpires \/ PortClosed
  <2>1. UNCHANGED <<up, sent, fwq, wire, inbuf>> /\ Fails
    BY <1>2 DEF FrameError, TimeoutExpires, PortClosed, CallFails, End, Fails, portVars
  <2> QED BY <2>1 DEF Messages, Alive
<1>3. CASE ParseError
  <2>1. TakeMessage /\ Fails
    BY <1>3 DEF ParseError, TakeMessage, CallFails, End, Fails
  <2> QED BY <2>1, TakeEffect
<1>4. CASE Answered
  <2>1. TakeMessage
    BY <1>4 DEF Answered
  <2>2. Head(inbuf) \in Messages
    BY <2>1, TakeEffect
  <2>3. HandsBack
    BY <1>4, <2>2 DEF Answered, TakeMessage, End, HandsBack, IsResponse
  <2> QED BY <2>1, <2>3, TakeEffect
<1>5. CASE Skipped
  <2>1. TakeMessage /\ GoesOn
    BY <1>5 DEF Skipped, GoesOn
  <2> QED BY <2>1, TakeEffect
<1>6. CASE ReopenCloses
  <2>1. /\ fwq = <<>> /\ \A i \in 1..Len(wire) : ~IsResponse(wire[i])
        /\ wire \in Seq(MessageUpTo(sent)) /\ handles = 2
    BY <1>6 DEF ReopenCloses, OrderInv, TypeInv, WrittenOff
  <2>2. /\ call = "reopen" /\ call' = "idle" /\ settled' = sent /\ failed' = FALSE
        /\ ret' = [of |-> "reopen", status |-> "ok", msg |-> NoMessage]
        /\ inbuf' = <<>> /\ UNCHANGED <<up, sent>>
    BY <1>6 DEF ReopenCloses, End
  <2>3. wire' = wire /\ fwq' = fwq
    <3>1. handles' = 1
      BY <1>6, <2>1 DEF ReopenCloses
    <3>2. ~ResetChannel("close", handles')
      BY <3>1 DEF ResetChannel
    <3> QED BY <1>6, <3>2 DEF ReopenCloses
  <2>4. \A m \in Range(wire) : ~IsResponse(m)
    BY <2>1, RangeEquality
  <2>5. Messages' = Range(wire)
    BY <2>2, <2>3, RangeEmpty DEF Messages
  <2>6. Alive' = {}
    BY <2>1, <2>3, <2>4, <2>5, RangeEmpty DEF Alive
  <2>7. Messages' \subseteq Messages
    BY <2>5 DEF Messages
  <2> QED BY <2>2, <2>6, <2>7 DEF StartsOver
<1> QED BY <1>1, <1>2, <1>3, <1>4, <1>5, <1>6 DEF Progress

\* Time passing changes nothing of it.
LEMMA TickEffect ==
    ASSUME Tick
    PROVE  UNCHANGED <<up, sent, Messages, Alive>> /\ GoesOn
BY DEF Tick, portVars, Messages, Alive, GoesOn

-----------------------------------------------------------------------------
(* The steps by which a client starts a call.                               *)

\* A request written is one more that may be answered.
LEMMA ExecuteEffect ==
    ASSUME OrderInv, NEW cmd \in Cmds, NEW mode \in Modes, NEW timeout, Execute(cmd, mode, timeout)
    PROVE  /\ up /\ call = "idle" /\ call' = "execute" /\ ret' = NoReturn /\ sent' = sent + 1
           /\ UNCHANGED <<up, settled, failed, Messages>>
           /\ Alive' = Alive \cup {[req |-> sent + 1, code |-> cmd]}
<1> DEFINE p == [req |-> sent + 1, cmd |-> cmd, mode |-> mode, acked |-> FALSE]
<1>1. /\ up /\ call = "idle" /\ call' = "execute" /\ ret' = NoReturn /\ sent' = sent + 1
      /\ UNCHANGED <<up, settled, failed, inbuf, wire>> /\ fwq' = Append(fwq, p)
  BY DEF Execute, Begin
<1>2. fwq \in Seq(PendingUpTo(sent + 1)) /\ p \in PendingUpTo(sent + 1)
  <2>1. sent \in Nat /\ fwq \in Seq(PendingUpTo(sent))
    BY RpcAssumption DEF OrderInv, TypeInv, TypeOK
  <2>2. sent + 1 \in Nat /\ sent <= sent + 1
    BY <2>1
  <2>3. fwq \in Seq(PendingUpTo(sent + 1))
    BY <2>1, <2>2, UpToMonotonic
  <2> QED BY <2>2, <2>3 DEF PendingUpTo
<1> HIDE DEF p
<1>3. Range(fwq') = Range(fwq) \cup {p}
  BY <1>1, <1>2, RangeAppend
<1>4. Messages' = Messages
  BY <1>1 DEF Messages
<1>5. Alive' = Alive \cup {[req |-> sent + 1, code |-> cmd]}
  <2>1. [req |-> p.req, code |-> p.cmd] = [req |-> sent + 1, code |-> cmd]
    BY DEF p
  <2>2. {[req |-> q.req, code |-> q.cmd] : q \in Range(fwq')}
            = {[req |-> q.req, code |-> q.cmd] : q \in Range(fwq)}
              \cup {[req |-> sent + 1, code |-> cmd]}
    BY <1>3, <2>1
  <2> QED BY <1>4, <2>2 DEF Alive
<1> QED BY <1>1, <1>4, <1>5

\* A request that could not be written changes nothing but what the call returned.
LEMMA WriteFailsEffect ==
    ASSUME ExecuteWriteFails
    PROVE  /\ ~up /\ call = "idle" /\ UNCHANGED <<up, call, sent, settled, failed, Messages, Alive>>
           /\ ret' = [of |-> "execute", status |-> "error", msg |-> NoMessage]
BY DEF ExecuteWriteFails, Messages, Alive

\* Nor does listening.
LEMMA RecvEffect ==
    ASSUME Recv
    PROVE  /\ call = "idle" /\ call' = "recv" /\ ret' = NoReturn
           /\ UNCHANGED <<up, sent, settled, failed, Messages, Alive>>
BY DEF Recv, Begin, portVars, Messages, Alive

\* The first half of a reopen discards what the firmware and the driver hold.
LEMMA ReopenOpensEffect ==
    ASSUME OrderInv, ReopenOpens
    PROVE  /\ call = "idle" /\ call' = "reopen" /\ ret' = NoReturn
           /\ UNCHANGED <<up, sent, settled, failed>>
           /\ Messages' \subseteq Messages /\ Alive' \subseteq Alive
<1>1. /\ call = "idle" /\ call' = "reopen" /\ ret' = NoReturn
      /\ UNCHANGED <<up, sent, settled, failed, inbuf>>
      /\ fwq' = <<>> /\ wire' = <<>>
  BY DEF ReopenOpens, Begin, ResetChannel, OrderInv
<1>2. Messages' \subseteq Messages
  BY <1>1, RangeEmpty DEF Messages
<1> QED BY <1>1, <1>2, RangeEmpty DEF Alive

\* A reopen that fails changes nothing but what the call returned.
LEMMA ReopenFailsEffect ==
    ASSUME ReopenFails
    PROVE  /\ call = "idle" /\ UNCHANGED <<up, call, sent, settled, failed, Messages, Alive>>
           /\ ret' = [of |-> "reopen", status |-> "error", msg |-> NoMessage]
BY DEF ReopenFails, portVars, Messages, Alive

-----------------------------------------------------------------------------
(* What a call returned, against what the transport knows: a response is    *)
(* the one settled last, and an execute that failed has either left a       *)
(* request behind or found no port.                                         *)
ReturnInv ==
    /\ IsResponse(ret.msg) => ret.msg.req = settled
    /\ ret.of = "execute" /\ ret.status = "ok" => IsResponse(ret.msg)
    /\ ret.of = "execute" /\ ret.status # "ok" => failed \/ ~up

\* The message of a call that returned none is no response.
LEMMA NoMessageQuiet == ~IsResponse(NoMessage) /\ NoReturn.of = "none" /\ NoReturn.msg = NoMessage
<1>1. NoMessage \in Message /\ NoMessage.tid = TXID_OTHER
  BY NoMessageType DEF NoMessage
<1> QED BY <1>1, NotResponses DEF NoReturn

\* It holds before anything was returned.
LEMMA InitReturn == Init => ReturnInv
BY NoMessageQuiet DEF Init, ReturnInv

\* Every step keeps it.
LEMMA ReturnStep == OrderInv /\ ReturnInv /\ [Next]_vars => ReturnInv'
<1> SUFFICES ASSUME OrderInv, ReturnInv, [Next]_vars PROVE ReturnInv'
  OBVIOUS
<1> USE RpcAssumption
<1>1. CASE Firmware
  <2>1. UNCHANGED <<ret, settled, failed>> /\ (up' => up)
    BY <1>1 DEF Firmware, FirmwareAcks, FirmwareAnswers, FirmwareIgnores, FirmwareIndicates,
                FirmwareUnchanged, PortRemoved
  <2> QED BY <2>1 DEF ReturnInv, IsResponse
<1>2. CASE Progress
  <2>1. UNCHANGED <<up, sent>> /\ (GoesOn \/ Fails \/ HandsBack \/ StartsOver)
    BY <1>2, ProgressEffect
  <2>2. CASE GoesOn
    BY <2>1, <2>2 DEF GoesOn, ReturnInv, IsResponse
  <2>3. CASE Fails
    <3>1. ret'.of = call /\ ret'.msg = NoMessage /\ ret'.status # "ok"
      BY <2>3 DEF Fails
    <3>2. call = "execute" => failed'
      BY <2>3, Zenon DEF Fails
    <3> QED BY <3>1, <3>2, NoMessageQuiet DEF ReturnInv, IsResponse
  <2>4. CASE HandsBack
    BY <2>1, <2>4 DEF HandsBack, ReturnInv, IsResponse
  <2>5. CASE StartsOver
    BY <2>1, <2>5, NoMessageQuiet DEF StartsOver, ReturnInv, IsResponse
  <2> QED BY <2>1, <2>2, <2>3, <2>4, <2>5
<1>3. CASE Tick
  BY <1>3, TickEffect DEF GoesOn, ReturnInv, IsResponse
<1>4. CASE Client
  <2>1. CASE \E cmd \in Cmds, mode \in Modes, t \in Timeouts : Execute(cmd, mode, t)
    <3>1. ret' = NoReturn
      BY <2>1 DEF Execute, Begin
    <3> QED BY <3>1, NoMessageQuiet DEF ReturnInv, IsResponse
  <2>2. CASE ExecuteWriteFails
    BY <2>2, WriteFailsEffect, NoMessageQuiet DEF ReturnInv, IsResponse
  <2>3. CASE Recv \/ ReopenOpens
    <3>1. ret' = NoReturn
      BY <2>3, RecvEffect, ReopenOpensEffect
    <3> QED BY <3>1, NoMessageQuiet DEF ReturnInv, IsResponse
  <2>4. CASE ReopenFails
    BY <2>4, ReopenFailsEffect, NoMessageQuiet DEF ReturnInv, IsResponse
  <2> QED BY <1>4, <2>1, <2>2, <2>3, <2>4 DEF Client
<1>5. CASE UNCHANGED vars
  BY <1>5 DEF vars, ReturnInv, IsResponse
<1> QED BY <1>1, <1>2, <1>3, <1>4, <1>5 DEF Next

\* Whatever the client and the firmware do, a response handed back settles its own
\* request, and an execute that returned without one has left the request behind,
\* as `failed` says, or had no port to write to (transport.rs:163-202).
THEOREM ReturnsRemembered == ResetOn = "open" /\ Spec => []ReturnInv
BY InitReturn, OrderInvariant, ReturnStep, PTL DEF Spec
=============================================================================
