------------------------------ MODULE Bringup ------------------------------
(***************************************************************************)
(* `run` of src/src/main.rs and the calls of src/src/modem.rs it makes:    *)
(* the one client of the transport (module Rpc), from the readiness probe  *)
(* to the data channel, together with the modem it brings up and the steps *)
(* by which it configures the host (src/src/net.rs).                       *)
(*                                                                         *)
(* `step` is where the program is.  In a step with a request, `issued`     *)
(* says that the call was made; the result is in `ret`.  What the modem    *)
(* really is (`modem`) is kept apart from what the program believes, which *)
(* is only what it has decoded: the properties compare the two.            *)
(***************************************************************************)
EXTENDS Naturals, Sequences, FiniteSets

CONSTANTS
    NoArg,          \* no integer at the position looked at
    U32Max,         \* u32::MAX, the attach status "refused"
    ProbeTimeout,   \* READY_PROBE_TIMEOUT, and all other times, in ticks
    ReadyTimeout,   \* READY_TIMEOUT
    ResponseTimeout,\* RESPONSE_TIMEOUT
    IpWait, IpInterval,         \* settings.ip_wait and ip_fetch_interval
    DefaultRoute, WriteResolv,  \* settings.default_route and write_resolv
    Locks,          \* whether the modem is FCC-locked: possible answers
    EarlyModeRsp,   \* the firmware may report the mode before it answers
    Faults,         \* see Rpc
    MaxReq,         \* bound: requests in a behaviour, see Rpc
    MaxNoise        \* bound: see Rpc

ASSUME BringupAssumption ==
    /\ {ProbeTimeout, ReadyTimeout, ResponseTimeout, IpInterval} \subseteq Nat \ {0}
    /\ IpWait \in Nat
    /\ {DefaultRoute, WriteResolv, EarlyModeRsp} \cup Locks \subseteq BOOLEAN
    /\ Faults \subseteq {"frame", "payload", "echo"}
    /\ {MaxReq, MaxNoise} \subseteq Nat

VARIABLES
    \* The transport's: see Rpc.
    up, handles, fwq, wire, noise, inbuf, attachAllowed, call, limit, left,
    ret, sent, settled, failed, age, announced,
    \* The program's.
    step, issued,
    nextInit,   \* initialize: the command it is at
    remaining,  \* ticks to the deadline of wait_ready or wait_for_ip
    kept,       \* what an answer said, kept across the next call
    configured, \* steps of NetPlan done
    exit,       \* "running", or how it ended: exit codes 0, 1, and 2 for the
                \* two conditions AttachRefused and NoIp
    \* The modem's.
    modem

-----------------------------------------------------------------------------
UTA_MS_SIM_OPEN_REQ == 1
UTA_MS_SMS_INIT == 48
UTA_MS_CBS_INIT == 37
UTA_MS_NET_OPEN == 83
UTA_MS_CALL_CS_INIT == 36
UTA_MS_CALL_PS_INITIALIZE == 58
UTA_MS_SS_INIT == 38
UTA_MS_CALL_PS_ATTACH_APN_CONFIG_REQ == 431
UTA_MS_NET_ATTACH_REQ == 92
UTA_MS_CALL_PS_GET_NEG_IP_ADDR_REQ == 73
UTA_MS_CALL_PS_GET_NEGOTIATED_DNS_REQ == 71
UTA_MS_CALL_PS_CONNECT_REQ == 81
UTA_RPC_PS_CONNECT_TO_DATACHANNEL_REQ == 126
UTA_RPC_PS_CONNECT_SETUP_REQ == 125
UTA_MODE_SET_REQ == 303
UTA_SYS_GET_INFO == 124
CSI_FCC_LOCK_QUERY_REQ == 398
CSI_FCC_LOCK_GEN_CHALLENGE_REQ == 400
CSI_FCC_LOCK_VER_CHALLENGE_REQ == 402

UTA_MODE_SET_RSP_CB == 301
UTA_MS_NET_IS_ATTACH_ALLOWED_IND_CB == 108

\* The loop of initialize.
InitCommands == <<UTA_MS_SMS_INIT, UTA_MS_CBS_INIT, UTA_MS_NET_OPEN, UTA_MS_CALL_CS_INIT,
                  UTA_MS_CALL_PS_INITIALIZE, UTA_MS_SS_INIT, UTA_MS_SIM_OPEN_REQ>>

\* The request each other step executes, with the default timeout.
Request ==
    [fcc_query     |-> [cmd |-> CSI_FCC_LOCK_QUERY_REQ, mode |-> "Async"],
     fcc_challenge |-> [cmd |-> CSI_FCC_LOCK_GEN_CHALLENGE_REQ, mode |-> "Async"],
     fcc_answer    |-> [cmd |-> CSI_FCC_LOCK_VER_CHALLENGE_REQ, mode |-> "Async"],
     set_mode      |-> [cmd |-> UTA_MODE_SET_REQ, mode |-> "Sync"],
     version       |-> [cmd |-> UTA_SYS_GET_INFO, mode |-> "Sync"],
     apn_config    |-> [cmd |-> UTA_MS_CALL_PS_ATTACH_APN_CONFIG_REQ, mode |-> "Async"],
     attach        |-> [cmd |-> UTA_MS_NET_ATTACH_REQ, mode |-> "Async"],
     attach_again  |-> [cmd |-> UTA_MS_NET_ATTACH_REQ, mode |-> "Async"],
     neg_ip        |-> [cmd |-> UTA_MS_CALL_PS_GET_NEG_IP_ADDR_REQ, mode |-> "Async"],
     neg_dns       |-> [cmd |-> UTA_MS_CALL_PS_GET_NEGOTIATED_DNS_REQ, mode |-> "Async"],
     ps_connect    |-> [cmd |-> UTA_MS_CALL_PS_CONNECT_REQ, mode |-> "Async"],
     datachannel   |-> [cmd |-> UTA_RPC_PS_CONNECT_TO_DATACHANNEL_REQ, mode |-> "Sync"],
     setup         |-> [cmd |-> UTA_RPC_PS_CONNECT_SETUP_REQ, mode |-> "Sync"]]

Steps == DOMAIN Request \cup
         {"wait_ready", "initialize", "mode_wait", "attach_wait", "configure", "exited"}

Commands == {InitCommands[i] : i \in DOMAIN InitCommands}
            \cup {Request[s].cmd : s \in DOMAIN Request}
Words == {0, 1, NoArg, U32Max}

T == INSTANCE Rpc WITH
        Cmds <- Commands,
        Inds <- {UTA_MS_NET_IS_ATTACH_ALLOWED_IND_CB, UTA_MODE_SET_RSP_CB},
        Args <- Words, Timeouts <- {ProbeTimeout, ResponseTimeout}, Costs <- {0, 1},
        ResetOn <- "open"

\* net::configure, then append_resolv_conf.
NetPlan == <<"link_index", "flush_addresses", "link_up", "add_address">>
           \o (IF DefaultRoute THEN <<"add_route">> ELSE <<>>)
           \o (IF WriteResolv THEN <<"append_resolv_conf">> ELSE <<>>)

rpcVars == <<up, handles, fwq, wire, noise, inbuf, attachAllowed, call, limit, left,
             ret, sent, settled, failed, age, announced>>
clientVars == <<step, issued, nextInit, remaining, kept, configured, exit>>
vars == <<rpcVars, clientVars, modem>>

Modem == [locked : BOOLEAN, radio : BOOLEAN, modeRsp : {"none", "due", "sent"},
          refused : BOOLEAN, attached : BOOLEAN, address : BOOLEAN,
          served : SUBSET Commands]

TypeOK ==
    /\ T!TypeOK
    /\ step \in Steps
    /\ issued \in BOOLEAN
    /\ nextInit \in DOMAIN InitCommands
    /\ remaining \in 0..ReadyTimeout \cup 0..IpWait
    /\ kept \in BOOLEAN
    /\ configured \in 0..Len(NetPlan)
    /\ exit \in {"running", "success", "failure", "refused", "no_ip"}
    /\ modem \in Modem

\* The modem was powered on and enumerated; the FCC lock depends on the machine.
Init ==
    /\ T!Init
    /\ step = "wait_ready" /\ issued = FALSE /\ nextInit = 1
    /\ remaining = ReadyTimeout /\ kept = FALSE /\ configured = 0
    /\ exit = "running"
    /\ \E locked \in Locks :
        modem = [locked |-> locked, radio |-> FALSE, modeRsp |-> "none", refused |-> FALSE,
                 attached |-> FALSE, address |-> FALSE, served |-> {}]

-----------------------------------------------------------------------------
(* The modem and the network: external.  Nothing is modelled of what they do *)
(* after the program's exit.                                                 *)

\* The modem serves `cmd` and would answer `arg`.
Serves(cmd, arg) ==
    LET served == [modem EXCEPT !.served = @ \cup {cmd}] IN
    \/ /\ cmd = CSI_FCC_LOCK_QUERY_REQ
       /\ arg = IF modem.locked THEN 0 ELSE 1
       /\ modem' = served
    \/ /\ cmd = CSI_FCC_LOCK_VER_CHALLENGE_REQ
       /\ arg \in {0, 1}
       /\ modem' = IF arg = 1 THEN [served EXCEPT !.locked = FALSE] ELSE modem
    \/ /\ cmd = UTA_MODE_SET_REQ
       /\ arg \in {0, 1}
       /\ modem' = IF arg = 1 THEN modem
                   ELSE [served EXCEPT !.modeRsp = IF @ = "none" THEN "due" ELSE @]
    \/ /\ cmd = UTA_MS_NET_ATTACH_REQ
       /\ arg \in {0, U32Max}
       /\ modem' = IF arg = U32Max THEN [modem EXCEPT !.refused = TRUE, !.attached = FALSE]
                   ELSE [served EXCEPT !.refused = FALSE, !.attached = TRUE]
    \/ /\ cmd = UTA_MS_CALL_PS_GET_NEG_IP_ADDR_REQ
       /\ arg \in {0, 1}
       /\ arg = 1 => modem.attached
       /\ modem' = [served EXCEPT !.address = (arg = 1)]
    \/ /\ cmd \in Commands \ {CSI_FCC_LOCK_QUERY_REQ, CSI_FCC_LOCK_VER_CHALLENGE_REQ,
                              UTA_MODE_SET_REQ, UTA_MS_NET_ATTACH_REQ,
                              UTA_MS_CALL_PS_GET_NEG_IP_ADDR_REQ}
       /\ arg \in {1, NoArg}
       /\ modem' = served

ModemAnswers ==
    /\ step # "exited"
    /\ fwq # <<>>
    /\ \E arg \in Words : Serves(Head(fwq).cmd, arg) /\ T!FirmwareAnswers(arg)
    /\ UNCHANGED clientVars

\* A request may also be dropped, or served and never answered.
ModemIgnores ==
    /\ step # "exited"
    /\ T!FirmwareIgnores
    /\ UNCHANGED modem \/ \E arg \in Words : Serves(Head(fwq).cmd, arg)
    /\ UNCHANGED clientVars

\* Setting the mode ends with an indication of the mode that was reached: a
\* locked radio stays off.  It follows the answer, or, with EarlyModeRsp,
\* overtakes it.
ModemReportsMode ==
    /\ step # "exited"
    /\ \/ modem.modeRsp = "due"
       \/ /\ EarlyModeRsp /\ modem.modeRsp = "none"
          /\ fwq # <<>> /\ Head(fwq).cmd = UTA_MODE_SET_REQ
    /\ modem' = [modem EXCEPT !.modeRsp = "sent", !.radio = ~modem.locked]
    /\ T!FirmwareIndicates(UTA_MODE_SET_RSP_CB, IF modem.locked THEN 0 ELSE 1, 0)
    /\ UNCHANGED clientVars

\* After a refusal, the network comes to allow the attach.
NetworkAllows ==
    /\ step # "exited"
    /\ modem.refused /\ ~announced
    /\ T!FirmwareIndicates(UTA_MS_NET_IS_ATTACH_ALLOWED_IND_CB, 1, 0)
    /\ UNCHANGED <<clientVars, modem>>

ModemOnItsOwn ==
    /\ step # "exited"
    /\ \/ T!FirmwareAcks
       \/ \E arg \in {0, 1, NoArg} :
            T!FirmwareIndicates(UTA_MS_NET_IS_ATTACH_ALLOWED_IND_CB, arg, 1)
       \/ T!PortRemoved
    /\ UNCHANGED <<clientVars, modem>>

-----------------------------------------------------------------------------
(* The program. *)

\* The transport works on the call in progress.
CallProgress == T!Progress /\ UNCHANGED <<clientVars, modem>>

\* Mutant: the time left goes below zero.
AfterUnclamped(ticks) == remaining - ticks

After(ticks) == IF remaining > ticks THEN remaining - ticks ELSE 0

\* Time passes, and the deadlines come closer.
Tick ==
    /\ T!Tick
    /\ remaining' = After(1)
    /\ UNCHANGED <<step, issued, nextInit, kept, configured, exit, modem>>

Call(cmd, mode, timeout) ==
    /\ ~issued /\ issued' = TRUE
    /\ T!Execute(cmd, mode, timeout) \/ T!ExecuteWriteFails
    /\ UNCHANGED <<step, nextInit, remaining, kept, configured, exit, modem>>

Receive ==
    /\ ~issued /\ issued' = TRUE
    /\ T!Recv
    /\ UNCHANGED <<step, nextInit, remaining, kept, configured, exit, modem>>

Returned(s) == step = s /\ issued /\ call = "idle"
Succeeded(s) == Returned(s) /\ ret.of # "reopen" /\ ret.status = "ok"

\* Responses with an integer in second place, as the code unpacks them: "nnn",
\* "nn", "nn" and "nns".
SecondIsInteger == {CSI_FCC_LOCK_QUERY_REQ, CSI_FCC_LOCK_GEN_CHALLENGE_REQ,
                    UTA_MS_NET_ATTACH_REQ, UTA_SYS_GET_INFO}

\* What the program decodes where it expects the response to `cmd`.  A response
\* to another command may yield anything, an error included; where the addresses
\* are expected, "nsnnnn", an integer is an error.
Decoded(cmd) ==
    IF ret.msg.code = cmd THEN {ret.msg.arg}
    ELSE IF cmd = UTA_MS_CALL_PS_GET_NEG_IP_ADDR_REQ /\ ret.msg.code \in SecondIsInteger
    THEN {NoArg}
    ELSE Words

\* The rest of a step that makes no call: the program goes on, or exits.
Proceed(s) == step' = s /\ issued' = FALSE /\ exit' = exit
GoTo(s) == Proceed(s) /\ UNCHANGED <<rpcVars, nextInit, remaining, kept, configured, modem>>
Stop(code) ==
    /\ exit' = code
    /\ step' = "exited"
    /\ UNCHANGED <<rpcVars, issued, nextInit, remaining, kept, configured, modem>>

\* `?` in run and in the functions it calls, but for the steps that look at the error.
CallFails ==
    /\ \E s \in Steps \ {"wait_ready", "version", "exited"} : Returned(s)
    /\ ret.status # "ok"
    /\ Stop("failure")

\* An APN of more than 101 bytes or a data-channel path of more than 23 is refused
\* by the encoder, in the second case with the host configured.
RequestTooLong ==
    /\ step \in {"apn_config", "datachannel"} /\ ~issued
    /\ Stop("failure")

\* wait_ready: probe, and on a timeout reopen the port and probe again.
Probe ==
    /\ step = "wait_ready"
    /\ Call(CSI_FCC_LOCK_QUERY_REQ, "Async", ProbeTimeout)

\* The deadline goes with the function that set it.
Ready ==
    /\ Succeeded("wait_ready")
    /\ remaining' = 0
    /\ Proceed("initialize")
    /\ UNCHANGED <<rpcVars, nextInit, kept, configured, modem>>

ProbeTimesOut ==
    /\ Returned("wait_ready") /\ ret.status = "timeout" /\ remaining > 0
    /\ T!ReopenOpens \/ T!ReopenFails
    /\ UNCHANGED <<clientVars, modem>>

Reopened ==
    /\ Returned("wait_ready") /\ ret.of = "reopen" /\ ret.status = "ok"
    /\ GoTo("wait_ready")

NotReady ==
    /\ Returned("wait_ready")
    /\ \/ ret.status = "error"
       \/ ret.status = "timeout" /\ remaining = 0
    /\ Stop("failure")

\* initialize: the contents of the responses are not looked at.
Initialize ==
    /\ step = "initialize"
    /\ Call(InitCommands[nextInit], "Sync", ResponseTimeout)

\* Mutant: the loop stops one command early.
InitializedButOne ==
    /\ Succeeded("initialize")
    /\ IF nextInit + 1 < Len(InitCommands)
       THEN nextInit' = nextInit + 1 /\ Proceed("initialize")
       ELSE nextInit' = nextInit /\ Proceed("fcc_query")
    /\ UNCHANGED <<rpcVars, remaining, kept, configured, modem>>

Initialized ==
    /\ Succeeded("initialize")
    /\ IF nextInit < Len(InitCommands)
       THEN nextInit' = nextInit + 1 /\ Proceed("initialize")
       ELSE nextInit' = nextInit /\ Proceed("fcc_query")
    /\ UNCHANGED <<rpcVars, remaining, kept, configured, modem>>

\* Every later step but the two that listen executes its request.
Ask ==
    /\ step \in DOMAIN Request
    /\ Call(Request[step].cmd, Request[step].mode, ResponseTimeout)

\* fcc_unlock: state and mode of the lock are one word here, 0 when an unlock is due.
FccQueried ==
    /\ Succeeded("fcc_query")
    /\ \E lock \in Decoded(CSI_FCC_LOCK_QUERY_REQ) :
        \/ lock = 0 /\ GoTo("fcc_challenge")
        \/ lock \notin {0, NoArg} /\ GoTo("set_mode")
        \/ lock = NoArg /\ Stop("failure")

FccChallenged ==
    /\ Succeeded("fcc_challenge")
    /\ \E challenge \in Decoded(CSI_FCC_LOCK_GEN_CHALLENGE_REQ) :
        \/ challenge # NoArg /\ GoTo("fcc_answer")
        \/ challenge = NoArg /\ Stop("failure")

FccAnswered ==
    /\ Succeeded("fcc_answer")
    /\ \E accepted \in Decoded(CSI_FCC_LOCK_VER_CHALLENGE_REQ) :
        \/ accepted = 1 /\ GoTo("set_mode")
        \/ accepted # 1 /\ Stop("failure")

\* set_mode: the request is accepted, then the mode is reported.
ModeRequested ==
    /\ Succeeded("set_mode")
    /\ \E rejected \in Decoded(UTA_MODE_SET_REQ) :
        \/ rejected = 0 /\ GoTo("mode_wait")
        \/ rejected # 0 /\ Stop("failure")

ModeWaits == step = "mode_wait" /\ Receive

\* Mutant: the report is looked for among the responses only.
ModeReportedInResponse ==
    /\ Succeeded("mode_wait")
    /\ \/ T!Kind(ret.msg) # "Response" /\ GoTo("mode_wait")
       \/ T!Kind(ret.msg) = "Response" /\ GoTo("version")

\* The code is all it looks at, not the kind of the message.
ModeReported ==
    /\ Succeeded("mode_wait")
    /\ \/ ret.msg.code # UTA_MODE_SET_RSP_CB /\ GoTo("mode_wait")
       \/ ret.msg.code = UTA_MODE_SET_RSP_CB /\ ret.msg.arg = 1 /\ GoTo("version")
       \/ ret.msg.code = UTA_MODE_SET_RSP_CB /\ ret.msg.arg # 1 /\ Stop("failure")

\* firmware_version: run goes on whatever became of it.
VersionRead == Returned("version") /\ GoTo("apn_config")

\* attach.
ApnConfigured == Succeeded("apn_config") /\ GoTo("attach")

AttachedNow ==
    /\ remaining' = IpWait
    /\ Proceed("neg_ip")
    /\ UNCHANGED <<rpcVars, nextInit, kept, configured, modem>>

Attached ==
    /\ Succeeded("attach")
    /\ \E status \in Decoded(UTA_MS_NET_ATTACH_REQ) :
        \/ status \notin {U32Max, NoArg} /\ AttachedNow
        \/ status = U32Max /\ GoTo("attach_wait")
        \/ status = NoArg /\ Stop("failure")

\* Mutant: the loop receives before it looks at the permission.
AttachWaitsFirst ==
    /\ step = "attach_wait"
    /\ Receive

AttachWaits ==
    /\ step = "attach_wait"
    /\ ~attachAllowed
    /\ Receive

\* Whatever was received, the loop goes round and looks at the permission.
AttachReceived == Succeeded("attach_wait") /\ GoTo("attach_wait")

AttachAllowed ==
    /\ step = "attach_wait" /\ ~issued
    /\ attachAllowed
    /\ GoTo("attach_again")

AttachedAgain ==
    /\ Succeeded("attach_again")
    /\ \E status \in Decoded(UTA_MS_NET_ATTACH_REQ) :
        \/ status \notin {U32Max, NoArg} /\ AttachedNow
        \/ status = U32Max /\ Stop("refused")
        \/ status = NoArg /\ Stop("failure")

\* Mutant: the unspecified address counts as an address.
IpQueriedUnspecified ==
    /\ Succeeded("neg_ip")
    /\ \E address \in Decoded(UTA_MS_CALL_PS_GET_NEG_IP_ADDR_REQ) :
        \/ /\ address # NoArg
           /\ kept' = TRUE
           /\ Proceed("neg_dns")
           /\ UNCHANGED <<rpcVars, nextInit, remaining, configured, modem>>
        \/ address = NoArg /\ Stop("failure")

\* query_ip: the address (0 when unspecified) is kept across the DNS query.
IpQueried ==
    /\ Succeeded("neg_ip")
    /\ \E address \in Decoded(UTA_MS_CALL_PS_GET_NEG_IP_ADDR_REQ) :
        \/ /\ address # NoArg
           /\ kept' = (address # 0)
           /\ Proceed("neg_dns")
           /\ UNCHANGED <<rpcVars, nextInit, remaining, configured, modem>>
        \/ address = NoArg /\ Stop("failure")

\* Mutant: the deadline is looked at before the address.
DnsQueriedLate ==
    /\ Succeeded("neg_dns")
    /\ \E dns \in Decoded(UTA_MS_CALL_PS_GET_NEGOTIATED_DNS_REQ) :
        \/ dns # NoArg /\ remaining = 0 /\ Stop("no_ip")
        \/ dns # NoArg /\ remaining > 0 /\ kept /\ GoTo("configure")
        \/ /\ dns # NoArg /\ remaining > 0 /\ ~kept
           /\ remaining' = After(IpInterval)
           /\ Proceed("neg_ip")
           /\ UNCHANGED <<rpcVars, nextInit, kept, configured, modem>>
        \/ dns = NoArg /\ Stop("failure")

\* wait_for_ip: with an address to configure, or without one to sleep and ask
\* again, the deadline permitting.
DnsQueried ==
    /\ Succeeded("neg_dns")
    /\ \E dns \in Decoded(UTA_MS_CALL_PS_GET_NEGOTIATED_DNS_REQ) :
        \/ dns # NoArg /\ kept /\ GoTo("configure")
        \/ dns # NoArg /\ ~kept /\ remaining = 0 /\ Stop("no_ip")
        \/ /\ dns # NoArg /\ ~kept /\ remaining > 0
           /\ remaining' = After(IpInterval)
           /\ Proceed("neg_ip")
           /\ UNCHANGED <<rpcVars, nextInit, kept, configured, modem>>
        \/ dns = NoArg /\ Stop("failure")

\* Mutant: when a request fails, all of them are made again.
ConfigureAgain ==
    /\ step = "configure" /\ configured < Len(NetPlan)
    /\ configured' \in {0, configured + 1}
    /\ UNCHANGED <<rpcVars, step, issued, nextInit, remaining, kept, exit, modem>>

\* net::configure and append_resolv_conf, one netlink request or file at a time.
\* What was done stays when a later step fails.
Configure ==
    /\ step = "configure" /\ configured < Len(NetPlan)
    /\ \/ /\ configured' = configured + 1
          /\ UNCHANGED <<rpcVars, step, issued, nextInit, remaining, kept, exit, modem>>
       \/ Stop("failure")

Configured ==
    /\ step = "configure" /\ configured = Len(NetPlan)
    /\ GoTo("ps_connect")

\* open_data_channel: the length of the connect response is checked after the
\* next call.
PsConnected ==
    /\ Succeeded("ps_connect")
    /\ \E body \in Decoded(UTA_MS_CALL_PS_CONNECT_REQ) : kept' = (body # NoArg)
    /\ Proceed("datachannel")
    /\ UNCHANGED <<rpcVars, nextInit, remaining, configured, modem>>

\* Mutant: the data channel is taken to be up before it is set up.
DatachannelSuffices ==
    /\ Succeeded("datachannel")
    /\ IF kept THEN Stop("success") ELSE Stop("failure")

DatachannelOpened ==
    /\ Succeeded("datachannel")
    /\ IF kept THEN GoTo("setup") ELSE Stop("failure")

SetUp == Succeeded("setup") /\ Stop("success")

-----------------------------------------------------------------------------
Environment ==
    \/ ModemAnswers \/ ModemIgnores \/ ModemReportsMode \/ NetworkAllows \/ ModemOnItsOwn

Program ==
    \/ CallProgress \/ CallFails \/ RequestTooLong
    \/ Probe \/ Ready \/ ProbeTimesOut \/ Reopened \/ NotReady
    \/ Initialize \/ Initialized
    \/ Ask \/ FccQueried \/ FccChallenged \/ FccAnswered
    \/ ModeRequested \/ ModeWaits \/ ModeReported \/ VersionRead
    \/ ApnConfigured \/ Attached \/ AttachWaits \/ AttachReceived \/ AttachAllowed
    \/ AttachedAgain
    \/ IpQueried \/ DnsQueried \/ Configure \/ Configured
    \/ PsConnected \/ DatachannelOpened \/ SetUp

Next == Environment \/ Program \/ Tick

Spec == Init /\ [][Next]_vars

(* The program's thread runs when it can and time passes while it blocks   *)
(* (never are both enabled).  Of the modem and the network nothing is      *)
(* assumed: neither an answer, nor the report of a mode, nor a permission. *)
Fairness == WF_vars(Program \/ Tick)
FairSpec == Spec /\ Fairness

-----------------------------------------------------------------------------
(* Properties. *)

\* Exit code 2 "No connectivity: the network refused the attach or never assigned
\* an address" (README.md:71, error.rs:23-29, 53-61) is true of the modem: without
\* an address it has none, and refused it is not attached.  The latter only while
\* no answer can be stale, that is, unless the version query failed and was
\* stepped over (main.rs:52-55): the second attach may then be judged by the
\* answer to the first.
NoServiceMeansNone ==
    /\ exit = "no_ip" => ~modem.address
    /\ exit = "refused" /\ ~failed => ~modem.attached

\* Exit code 0 "Success": the radio is on, the modem attached, an address
\* assigned, the host configured and the data channel set up (main.rs:42-88), also
\* when answers were stale for a while; and if they were not, every command was served.
SuccessMeansUp ==
    exit = "success" =>
        /\ modem.radio /\ modem.attached /\ modem.address
        /\ configured = Len(NetPlan)
        /\ UTA_RPC_PS_CONNECT_SETUP_REQ \in modem.served
        /\ failed \/ Commands \ {CSI_FCC_LOCK_GEN_CHALLENGE_REQ, CSI_FCC_LOCK_VER_CHALLENGE_REQ}
                       \subseteq modem.served

\* The host's interface, routes and resolver are touched only once the modem is
\* attached and has an address: exits 1 and 2 from before leave them alone, and a
\* stale answer is found out before it comes to that.
HostFollowsModem ==
    configured > 0 \/ step \in {"ps_connect", "datachannel", "setup"} =>
        modem.attached /\ modem.address

\* What each request relies on having been served before it (the order of
\* main.rs:46-85): the commands of all earlier steps but the unlock's and the
\* version's.
Relies(cmd) ==
    LET inits == {InitCommands[i] : i \in DOMAIN InitCommands}
        mode == inits \cup {CSI_FCC_LOCK_QUERY_REQ, UTA_MODE_SET_REQ}
        apn == mode \cup {UTA_MS_CALL_PS_ATTACH_APN_CONFIG_REQ}
        address == apn \cup {UTA_MS_NET_ATTACH_REQ, UTA_MS_CALL_PS_GET_NEG_IP_ADDR_REQ,
                             UTA_MS_CALL_PS_GET_NEGOTIATED_DNS_REQ}
    IN  CASE cmd = UTA_MODE_SET_REQ -> inits \cup {CSI_FCC_LOCK_QUERY_REQ}
          [] cmd = UTA_MS_CALL_PS_ATTACH_APN_CONFIG_REQ -> mode
          [] cmd = UTA_MS_NET_ATTACH_REQ -> apn
          [] cmd = UTA_MS_CALL_PS_GET_NEG_IP_ADDR_REQ -> apn \cup {UTA_MS_NET_ATTACH_REQ}
          [] cmd = UTA_MS_CALL_PS_CONNECT_REQ -> address
          [] cmd = UTA_RPC_PS_CONNECT_SETUP_REQ ->
                address \cup {UTA_MS_CALL_PS_CONNECT_REQ, UTA_RPC_PS_CONNECT_TO_DATACHANNEL_REQ}
          [] OTHER -> {}

\* The modem is never asked for anything before what that relies on was served.
ServedInOrder == ~failed /\ fwq # <<>> => Relies(Head(fwq).cmd) \subseteq modem.served

\* The program ends, or waits for what nobody owes it: the permission to attach
\* (modem.rs:172-174) or the report of the mode (modem.rs:149-150), the only waits
\* without a deadline.  Nothing else keeps it going, no stale answer, no message
\* skipped and no address that does not come.
Ends == exit = "running" ~> exit # "running" \/ step \in {"attach_wait", "mode_wait"}

\* A report of the mode that the program has not read yet.
ReportInFlight ==
    \E i \in DOMAIN (inbuf \o wire) : (inbuf \o wire)[i].code = UTA_MODE_SET_RSP_CB

\* A report that is still to be read when the wait for it begins, or that comes
\* during the wait, ends the wait, whatever is read before it (modem.rs:149-158).
\* So the wait is in vain only if no report comes, or if it overtook the answer to
\* the request and execute skipped it (transport.rs:176-179).
ModeReportWakes == (step = "mode_wait" /\ ReportInFlight) ~> step # "mode_wait"

\* A permission to attach wakes the wait for it, also when it arrived before the
\* wait began (modem.rs:172-174, transport.rs:204-210).
PermissionWakes == []<>~(step = "attach_wait" /\ announced)
=============================================================================
