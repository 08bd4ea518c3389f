-------------------------------- MODULE Rpc --------------------------------
(***************************************************************************)
(* The blocking transport of src/src/transport.rs: one thread, one open    *)
(* port, calls `execute_with_timeout`, `recv` and `reopen`, and between    *)
(* them and the modem the driver's receive queue and the firmware.         *)
(*                                                                         *)
(* Messages are whole here; how they are cut out of the byte stream is the *)
(* subject of module Framing.  A message carries, next to what the code    *)
(* looks at, the identity `req` of the request that caused it.  No such    *)
(* field is on the wire: it is there to state what the code gets right and *)
(* wrong about correlation.                                                *)
(*                                                                         *)
(* The client is any client: it calls in any order.  Module Bringup is the *)
(* one client the repository has.                                          *)
(***************************************************************************)
EXTENDS Naturals, Sequences

CONSTANTS
    Cmds,           \* command codes the client executes
    Inds,           \* codes of the indications the firmware may send
    Args,           \* what an integer position of a payload may hold
    NoArg,          \* ... in particular: no integer
    Timeouts,       \* timeouts passed to execute_with_timeout, in ticks
    Faults,         \* ways in which a message may be malformed
    Costs,          \* what an indication counts against MaxNoise: 1, or 0 for
                    \* one that is owed to a request
    MaxReq,         \* bound: requests written in a behaviour
    MaxNoise,       \* bound: indications and malformed messages together
    ResetOn         \* when the driver resets the channel: see ResetChannel

\* Transaction words, and the first code of an asynchronous acknowledgement.
TXID_SYNC  == 285212928      \* 0x1100_0100
TXID_ASYNC == 285212929      \* 0x1100_0101
TXID_OTHER == 0              \* any word that is not 0x1100_01xx
ACK_CODE_MIN == 2000
UTA_MS_NET_IS_ATTACH_ALLOWED_IND_CB == 108      \* 0x06c

Modes == {"Sync", "Async"}
FaultKinds == {"frame", "payload", "echo"}

ASSUME RpcAssumption ==
    /\ Cmds \subseteq 0..(ACK_CODE_MIN - 1)
    /\ Inds \subseteq Nat
    /\ 0 \in Args /\ NoArg \in Args
    /\ Timeouts \subseteq Nat \ {0}
    /\ Faults \subseteq FaultKinds
    /\ Costs \subseteq Nat
    /\ MaxReq \in Nat
    /\ MaxNoise \in Nat
    /\ ResetOn \in {"open", "last_close"}

VARIABLES
    \* The port and the modem behind it.
    up,             \* the device is there
    handles,        \* open handles on the port
    fwq,            \* requests the firmware has not answered yet
    wire,           \* messages the driver holds for the reader
    noise,          \* indications and malformed messages still to come
    \* The fields of `Rpc`.
    inbuf,          \* messages read from the port and not yet taken
    attachAllowed,
    \* The call in progress: its name, its timeout and the ticks left of it.
    call, limit, left,
    ret,            \* what the last call returned
    \* History, for the properties only.
    sent, settled,  \* as in module Calls
    failed,         \* an execute failed after writing, and no reopen since
    age,            \* ticks since the request was written
    announced       \* the last attach permission the firmware announced

portVars == <<up, handles, fwq, wire, noise>>
vars == <<up, handles, fwq, wire, noise, inbuf, attachAllowed, call, limit,
          left, ret, sent, settled, failed, age, announced>>

Message == [fault: Faults \cup {"none"}, tid: {TXID_SYNC, TXID_ASYNC, TXID_OTHER},
            code: Nat, arg: Args, req: Nat]
PendingRequest == [req: Nat, cmd: Cmds, mode: Modes, acked: BOOLEAN]

NoMessage == [fault |-> "none", tid |-> TXID_OTHER, code |-> 0, arg |-> NoArg, req |-> 0]
NoReturn == [of |-> "none", status |-> "none", msg |-> NoMessage]

Calling == {"idle", "execute", "recv", "reopen"}
Return == [of: Calling \cup {"none"}, status: {"none", "ok", "timeout", "error"},
           msg: Message]

TypeOK ==
    /\ up \in BOOLEAN
    /\ handles \in 1..2
    /\ fwq \in Seq(PendingRequest)
    /\ wire \in Seq(Message)
    /\ noise \in 0..MaxNoise
    /\ inbuf \in Seq(Message)
    /\ attachAllowed \in BOOLEAN
    /\ call \in Calling
    /\ limit \in Nat
    /\ left \in 0..limit
    /\ ret \in Return
    /\ sent \in 0..MaxReq
    /\ settled \in 0..sent
    /\ failed \in BOOLEAN
    /\ age \in Nat
    /\ announced \in BOOLEAN

Init ==
    /\ up = TRUE /\ handles = 1
    /\ fwq = <<>> /\ wire = <<>> /\ noise = MaxNoise
    /\ inbuf = <<>> /\ attachAllowed = FALSE
    /\ call = "idle" /\ limit = 0 /\ left = 0
    /\ ret = NoReturn
    /\ sent = 0 /\ settled = 0 /\ failed = FALSE /\ age = 0
    /\ announced = FALSE

-----------------------------------------------------------------------------
(* Message::parse.  A message with a frame fault is never parsed. *)

\* The high three bytes of the transaction word: tid & 0xffff_ff00.
IsRpcTid(tid) == tid - (tid % 256) = TXID_SYNC

\* Mutant: an acknowledgement is taken for the response.
KindWithoutAcks(m) ==
    IF m.fault \in {"frame", "payload"} THEN "error"
    ELSE IF ~IsRpcTid(m.tid) THEN "Unsolicited"
    ELSE IF m.fault = "echo" THEN "error"
    ELSE "Response"

Kind(m) ==
    IF m.fault \in {"frame", "payload"} THEN "error"
    ELSE IF m.tid = TXID_SYNC THEN "Response"
    ELSE IF ~IsRpcTid(m.tid) THEN "Unsolicited"
    ELSE IF m.code >= ACK_CODE_MIN THEN "AsyncAck"
    ELSE IF m.fault = "echo" THEN "error"
    ELSE "Response"

\* An unsolicited message that says whether an attach is allowed.
IsPermission(m) ==
    /\ Kind(m) = "Unsolicited"
    /\ m.code = UTA_MS_NET_IS_ATTACH_ALLOWED_IND_CB
    /\ m.arg # NoArg

\* handle_unsolicited, run by recv_inner on every unsolicited message: the
\* attach permission that holds once `m` is processed in state `flag`.
AfterMessage(flag, m) == IF IsPermission(m) THEN m.arg # 0 ELSE flag

\* ... and once all of `msgs` are: the last permission counts.
AfterMessages(flag, msgs) ==
    LET said == {i \in DOMAIN msgs : IsPermission(msgs[i])}
        last == CHOOSE i \in said : \A j \in said : j <= i
    IN  IF said = {} THEN flag ELSE msgs[last].arg # 0

-----------------------------------------------------------------------------
(* The firmware and the driver: external. *)

\* The echoed transaction id can only be missing where one is looked for.
FaultsOf(m) ==
    {"none"} \cup {f \in Faults : f = "echo" => m.tid = TXID_ASYNC /\ m.code < ACK_CODE_MIN}

\* A message reaches the driver's queue, well-formed or not.
Emit(m, cost) ==
    \E f \in FaultsOf(m) :
        LET total == IF f = "none" THEN cost ELSE cost + 1
            given == [m EXCEPT !.fault = f]
        IN  /\ total <= noise
            /\ noise' = noise - total
            /\ wire' = Append(wire, given)
            /\ announced' = AfterMessage(announced, given)

FirmwareUnchanged ==
    UNCHANGED <<up, handles, inbuf, attachAllowed, call, limit, left, ret,
                sent, settled, failed, age>>

\* An asynchronous request is acknowledged before it is answered, or not at all.
FirmwareAcks ==
    /\ up /\ fwq # <<>>
    /\ Head(fwq).mode = "Async" /\ ~Head(fwq).acked
    /\ fwq' = [fwq EXCEPT ![1].acked = TRUE]
    /\ Emit([fault |-> "none", tid |-> TXID_ASYNC, code |-> ACK_CODE_MIN,
             arg |-> NoArg, req |-> Head(fwq).req], 0)
    /\ FirmwareUnchanged

\* The oldest request is answered, with the transaction word of its mode.
FirmwareAnswers(arg) ==
    /\ up /\ fwq # <<>>
    /\ fwq' = Tail(fwq)
    /\ Emit([fault |-> "none",
             tid |-> IF Head(fwq).mode = "Sync" THEN TXID_SYNC ELSE TXID_ASYNC,
             code |-> Head(fwq).cmd, arg |-> arg, req |-> Head(fwq).req], 0)
    /\ FirmwareUnchanged

\* The oldest request goes unanswered forever.
FirmwareIgnores ==
    /\ up /\ fwq # <<>>
    /\ fwq' = Tail(fwq)
    /\ UNCHANGED <<wire, noise, announced>>
    /\ FirmwareUnchanged

\* An indication, at its cost.
FirmwareIndicates(ind, arg, cost) ==
    /\ up
    /\ Emit([fault |-> "none", tid |-> TXID_OTHER, code |-> ind, arg |-> arg, req |-> 0], cost)
    /\ UNCHANGED fwq
    /\ FirmwareUnchanged

\* The device goes away, with what the driver and the firmware held.
PortRemoved ==
    /\ up
    /\ up' = FALSE
    /\ fwq' = <<>> /\ wire' = <<>>
    /\ announced' = AfterMessages(attachAllowed, inbuf)
    /\ UNCHANGED <<handles, noise, inbuf, attachAllowed, call, limit, left, ret,
                   sent, settled, failed, age>>

\* Whether the channel loses what is in flight when the number of open handles
\* changes to `open` by an open or a close.  The code trusts a reopen to do so.
\* ResetOn = "open": every open resets the channel.  ResetOn = "last_close":
\* the channel stays as it is until no handle is left.
ResetChannel(event, open) ==
    \/ ResetOn = "open" /\ event = "open"
    \/ open = 0

-----------------------------------------------------------------------------
(* Calls. *)

Begin(name, timeout) ==
    /\ call = "idle"
    /\ call' = name
    /\ limit' = timeout /\ left' = timeout
    /\ ret' = NoReturn
    /\ age' = 0

End(status, msg) ==
    /\ call' = "idle"
    /\ limit' = 0 /\ left' = 0
    /\ ret' = [of |-> call, status |-> status, msg |-> msg]
    /\ age' = 0

\* execute_with_timeout: the request is written, then the loop is entered.
Execute(cmd, mode, timeout) ==
    /\ sent < MaxReq
    /\ up
    /\ Begin("execute", timeout)
    /\ fwq' = Append(fwq, [req |-> sent + 1, cmd |-> cmd, mode |-> mode, acked |-> FALSE])
    /\ sent' = sent + 1
    /\ UNCHANGED <<up, handles, wire, noise, inbuf, attachAllowed, settled, failed, announced>>

\* ... or write_all fails and nothing was sent.
ExecuteWriteFails ==
    /\ call = "idle"
    /\ ~up
    /\ ret' = [of |-> "execute", status |-> "error", msg |-> NoMessage]
    /\ UNCHANGED <<up, handles, fwq, wire, noise, inbuf, attachAllowed, call, limit, left,
                   sent, settled, failed, age, announced>>

\* recv: recv_inner(None), no deadline.
Recv ==
    /\ Begin("recv", 0)
    /\ UNCHANGED <<portVars, inbuf, attachAllowed, sent, settled, failed, announced>>

\* read_message with no whole message buffered: the port is readable and the
\* bytes of k messages arrive in one read.
ReadChunk ==
    /\ call \in {"execute", "recv"}
    /\ inbuf = <<>> /\ wire # <<>>
    /\ \E k \in 1..Len(wire) :
        /\ inbuf' = SubSeq(wire, 1, k)
        /\ wire' = SubSeq(wire, k + 1, Len(wire))
    /\ UNCHANGED <<up, handles, fwq, noise, attachAllowed, call, limit, left, ret,
                   sent, settled, failed, age, announced>>

CallFails(status) ==
    /\ End(status, NoMessage)
    /\ failed' = (failed \/ call = "execute")

\* read_message finds a length out of range: nothing is taken from the buffer.
FrameError ==
    /\ call \in {"execute", "recv"}
    /\ inbuf # <<>> /\ Head(inbuf).fault = "frame"
    /\ CallFails("error")
    /\ UNCHANGED <<portVars, inbuf, attachAllowed, sent, settled, announced>>

\* Mutant: execute drops the indications it skips, and only recv handles them.
TakeMessageSilently ==
    /\ call \in {"execute", "recv"}
    /\ inbuf # <<>> /\ Head(inbuf).fault # "frame"
    /\ inbuf' = Tail(inbuf)
    /\ attachAllowed' = IF call = "recv" THEN AfterMessage(attachAllowed, Head(inbuf))
                                         ELSE attachAllowed
    /\ UNCHANGED <<portVars, sent, announced>>

\* recv_inner: the first message is taken from the buffer, parsed, and an
\* unsolicited one handled, whatever the call is.
TakeMessage ==
    /\ call \in {"execute", "recv"}
    /\ inbuf # <<>> /\ Head(inbuf).fault # "frame"
    /\ inbuf' = Tail(inbuf)
    /\ attachAllowed' = AfterMessage(attachAllowed, Head(inbuf))
    /\ UNCHANGED <<portVars, sent, announced>>

\* Message::parse fails: the message is gone and the call returns the error.
ParseError ==
    /\ TakeMessage
    /\ Kind(Head(inbuf)) = "error"
    /\ CallFails("error")
    /\ UNCHANGED settled

\* A response ends an execute; recv returns whatever it gets.
Answered ==
    /\ TakeMessage
    /\ Kind(Head(inbuf)) # "error"
    /\ call = "recv" \/ Kind(Head(inbuf)) = "Response"
    /\ End("ok", Head(inbuf))
    /\ settled' = IF Kind(Head(inbuf)) = "Response" THEN Head(inbuf).req ELSE settled
    /\ UNCHANGED failed

\* Anything else sends execute round its loop: a new read_message, a new deadline.
Skipped ==
    /\ TakeMessage
    /\ call = "execute"
    /\ Kind(Head(inbuf)) \in {"AsyncAck", "Unsolicited"}
    /\ left' = limit
    /\ UNCHANGED <<call, limit, ret, settled, failed, age>>

\* Time passes while poll() blocks.  age saturates one tick past the timeout.
Tick ==
    /\ call = "execute" /\ up
    /\ inbuf = <<>> /\ wire = <<>>
    /\ left > 0
    /\ left' = left - 1
    /\ age' = IF age <= limit THEN age + 1 ELSE age
    /\ UNCHANGED <<portVars, inbuf, attachAllowed, call, limit, ret, sent, settled,
                   failed, announced>>

\* Mutant: a poll that found nothing is tried again with a fresh deadline.
TimeoutRetries ==
    /\ call = "execute"
    /\ inbuf = <<>> /\ left = 0
    /\ left' = limit
    /\ UNCHANGED <<portVars, inbuf, attachAllowed, call, limit, ret, sent, settled,
                   failed, age, announced>>

\* The deadline has passed; a message may arrive just now and stay unread.
TimeoutExpires ==
    /\ call = "execute"
    /\ inbuf = <<>> /\ left = 0
    /\ CallFails("timeout")
    /\ UNCHANGED <<portVars, inbuf, attachAllowed, sent, settled, announced>>

\* A read from a removed port returns no bytes.
PortClosed ==
    /\ call \in {"execute", "recv"}
    /\ inbuf = <<>> /\ ~up
    /\ CallFails("error")
    /\ UNCHANGED <<portVars, inbuf, attachAllowed, sent, settled, announced>>

\* reopen opens the port again while the old handle is still open ...
ReopenOpens ==
    /\ up
    /\ Begin("reopen", 0)
    /\ handles' = handles + 1
    /\ IF ResetChannel("open", handles')
       THEN fwq' = <<>> /\ wire' = <<>>
       ELSE UNCHANGED <<fwq, wire>>
    /\ announced' = AfterMessages(AfterMessages(attachAllowed, inbuf), wire')
    /\ UNCHANGED <<up, noise, inbuf, attachAllowed, sent, settled, failed>>

\* Mutant: the old handle is never closed.
ReopenLeaksHandle ==
    /\ call = "reopen"
    /\ inbuf' = <<>> /\ attachAllowed' = FALSE
    /\ announced' = AfterMessages(FALSE, wire)
    /\ End("ok", NoMessage)
    /\ settled' = sent /\ failed' = FALSE
    /\ UNCHANGED <<portVars, sent>>

\* Mutant: what was buffered before the reopen is still there after it.
ReopenKeepsBuffer ==
    /\ call = "reopen"
    /\ handles' = handles - 1
    /\ attachAllowed' = FALSE
    /\ announced' = AfterMessages(FALSE, inbuf \o wire)
    /\ End("ok", NoMessage)
    /\ settled' = sent /\ failed' = FALSE
    /\ UNCHANGED <<up, fwq, wire, noise, inbuf, sent>>

\* ... which the assignment then drops; buffer and flag are cleared.
ReopenCloses ==
    /\ call = "reopen"
    /\ handles' = handles - 1
    /\ IF ResetChannel("close", handles')
       THEN fwq' = <<>> /\ wire' = <<>>
       ELSE UNCHANGED <<fwq, wire>>
    /\ inbuf' = <<>> /\ attachAllowed' = FALSE
    /\ announced' = AfterMessages(FALSE, wire')
    /\ End("ok", NoMessage)
    /\ settled' = sent /\ failed' = FALSE
    /\ UNCHANGED <<up, noise, sent>>

\* The open fails, and the old handle, the buffer and the flag stay.
ReopenFails ==
    /\ call = "idle"
    /\ ret' = [of |-> "reopen", status |-> "error", msg |-> NoMessage]
    /\ UNCHANGED <<portVars, inbuf, attachAllowed, call, limit, left, sent, settled,
                   failed, age, announced>>

-----------------------------------------------------------------------------
Firmware ==
    \/ FirmwareAcks
    \/ \E arg \in Args : FirmwareAnswers(arg)
    \/ FirmwareIgnores
    \/ \E ind \in Inds, arg \in Args, cost \in Costs : FirmwareIndicates(ind, arg, cost)
    \/ PortRemoved

\* The steps a call in progress takes on its own.
Progress ==
    \/ ReadChunk \/ FrameError \/ ParseError \/ Answered \/ Skipped
    \/ TimeoutExpires \/ PortClosed \/ ReopenCloses

Client ==
    \/ \E cmd \in Cmds, mode \in Modes, t \in Timeouts : Execute(cmd, mode, t)
    \/ ExecuteWriteFails
    \/ Recv
    \/ ReopenOpens
    \/ ReopenFails

Next == Firmware \/ Progress \/ Tick \/ Client

Spec == Init /\ [][Next]_vars

(* The thread runs whenever it can, and while it is blocked time passes.   *)
(* Of the firmware nothing is assumed.                                     *)
Fairness == WF_vars(Progress) /\ WF_vars(Tick)
FairSpec == Spec /\ Fairness


-----------------------------------------------------------------------------
(* Properties. *)

Abstract == INSTANCE Calls WITH busy <- call # "idle"

\* The transport implements what module Calls promises: no response is handed
\* back twice, out of order, or after the reopen that wrote its request off
\* (execute_with_timeout, recv, reopen; transport.rs:138-147, 163-202).
ImplementsCalls == Abstract!Spec

\* The same about a reopen alone: "discarding any buffered or in-flight state"
\* (transport.rs:138), no call returns a response to a request written before it.
CleanSlate ==
    [][ret'.status = "ok" /\ Kind(ret'.msg) = "Response" /\ ret' # ret
        => ret'.msg.req > settled]_vars

\* execute returns the response to the request it wrote: "Send `cmd` and wait
\* for its response" (transport.rs:154).
AnswersItsRequest ==
    ret.of = "execute" /\ ret.status = "ok" => ret.msg.req = sent

\* What holds of it: as long as no execute has failed since the port was last
\* opened, the response is the right one.  One failure that the client steps
\* over, and the next response may be the late answer to the failed request.
Correlated == ~failed => AnswersItsRequest

\* A permission to attach is not lost on its way to attach_allowed(), whichever
\* call reads it: the flag, once what is in flight has been processed, is what
\* the firmware announced last (handle_unsolicited, transport.rs:204-210).
FlagFollowsFirmware == AfterMessages(attachAllowed, inbuf \o wire) = announced

\* execute_with_timeout "fails after `timeout`" (transport.rs:162).
FailsAfterTimeout == call = "execute" => age <= limit

\* What holds of it: each skipped message starts the timeout afresh, so an
\* execute returns once the firmware has fallen silent, which MaxNoise makes it.
ExecuteReturns == call = "execute" ~> call = "idle"
=============================================================================
