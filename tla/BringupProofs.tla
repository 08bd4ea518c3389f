---------------------------- MODULE BringupProofs ----------------------------
(***************************************************************************)
(* What TLAPS proves about module Bringup: that what the program concludes *)
(* is true of the modem, for any timeouts, any number of requests and of   *)
(* indications, and any way in which messages are malformed.               *)
(***************************************************************************)
EXTENDS BringupTransport

-----------------------------------------------------------------------------
(* The inductive invariant.                                                 *)

\* The steps that listen, those that execute a request, and those that connect.
Listening == {"mode_wait", "attach_wait"}
Asking == DOMAIN Request \cup {"wait_ready", "initialize"}
Connecting == {"ps_connect", "datachannel", "setup"}

\* The program's own variables have their types.
ClientTypeOK ==
    /\ step \in Steps
    /\ issued \in BOOLEAN
    /\ nextInit \in 1..Len(InitCommands)
    /\ remaining \in 0..ReadyTimeout \cup 0..IpWait
    /\ kept \in BOOLEAN
    /\ configured \in 0..Len(NetPlan)
    /\ exit \in {"running", "success", "failure", "refused", "no_ip"}

\* The calls that a step makes.
CallsOf(s) ==
    IF s \in Listening THEN {"recv"}
    ELSE IF s = "wait_ready" THEN {"execute", "reopen"} ELSE {"execute"}

\* Where the program is goes with what the transport is doing for it, and with how
\* far the host is configured.
Control ==
    /\ exit = "running" <=> step # "exited"
    /\ ~issued \/ step = "exited" => call = "idle"
    /\ issued /\ step # "exited" =>
        /\ step \in Asking \cup Listening
        /\ IF call = "idle" THEN ret.of \in CallsOf(step) ELSE call \in CallsOf(step)
    /\ step = "wait_ready" => nextInit = 1
    /\ step \in Connecting => configured = Len(NetPlan)
    /\ configured > 0 => step \in Connecting \cup {"configure", "exited"}

\* The command that a step executes.
Asked ==
    IF step = "wait_ready" THEN CSI_FCC_LOCK_QUERY_REQ
    ELSE IF step = "initialize" THEN InitCommands[nextInit]
    ELSE Request[step].cmd

\* The command of the request that an earlier step may have left behind, when the
\* version query failed and was stepped over: until the address is asked for.
Leftover(s) ==
    CASE s = "apn_config" -> {UTA_SYS_GET_INFO}
      [] s = "attach" -> {UTA_MS_CALL_PS_ATTACH_APN_CONFIG_REQ}
      [] s \in {"attach_wait", "attach_again", "neg_ip"} -> {UTA_MS_NET_ATTACH_REQ}
      [] OTHER -> {}

\* What a step may be answered: its request, or the one left behind.
Expected(req, code) ==
    \/ req = sent /\ code = Asked
    \/ req = sent - 1 /\ code \in Leftover(step)

Executing == issued /\ step \in Asking /\ call = "execute"
Executed == issued /\ step \in Asking /\ call = "idle" /\ ret.of = "execute"
HasAnswer == Executed /\ ret.status = "ok"

\* No step but an execute has a request of its own under way.
Between ==
    \/ ~issued /\ step # "exited"
    \/ step \in Listening
    \/ issued /\ step = "wait_ready" /\ call = "idle" /\ ret.of = "reopen" /\ ret.status = "ok"

\* The program is at most one request ahead of the answers, and knows which.
OneBehind ==
    /\ \A x \in P!Alive :
        /\ Executing => Expected(x.req, x.code)
        /\ Executed => x.code \in {Asked} \cup Leftover(step)
        /\ HasAnswer \/ (Executed /\ step = "version") => x.req = sent /\ x.code = Asked
        /\ Between => x.req = sent /\ x.code \in Leftover(step)
    /\ HasAnswer => Expected(ret.msg.req, ret.msg.code)

\* Answers that say that the modem did not do what it was asked.
Refusal(m) ==
    \/ m.code = CSI_FCC_LOCK_VER_CHALLENGE_REQ /\ m.arg = 0
    \/ m.code = UTA_MODE_SET_REQ /\ m.arg = 1
    \/ m.code = UTA_MS_NET_ATTACH_REQ /\ m.arg = U32Max

\* What a message says once and for all: the command was served, the radio is on.
Honest(m) ==
    /\ P!IsResponse(m) /\ ~Refusal(m) => m.code \in modem.served
    /\ m.code = UTA_MODE_SET_RSP_CB /\ m.arg = 1 => modem.radio

\* What the response to the last request says of the modem as it is now.
UpToDate(m) ==
    P!IsResponse(m) /\ m.req = sent =>
        /\ m.code = UTA_MS_NET_ATTACH_REQ /\ m.arg = U32Max => ~modem.attached
        /\ m.code = UTA_MS_CALL_PS_GET_NEG_IP_ADDR_REQ =>
            IF m.arg = 0 THEN ~modem.address ELSE modem.attached /\ modem.address

Truthful ==
    /\ modem \in Modem
    /\ modem.radio => modem.modeRsp = "sent"
    /\ \A m \in P!Seen : Honest(m) /\ UpToDate(m)

\* The commands that have been served when a step is reached.
Inits == {InitCommands[i] : i \in 1..7}
BeforeMode == Inits \cup {CSI_FCC_LOCK_QUERY_REQ}
BeforeVersion == BeforeMode \cup {UTA_MODE_SET_REQ}
BeforeApn == BeforeVersion \cup {UTA_SYS_GET_INFO}
BeforeAttach == BeforeApn \cup {UTA_MS_CALL_PS_ATTACH_APN_CONFIG_REQ}
BeforeIp == BeforeAttach \cup {UTA_MS_NET_ATTACH_REQ}
BeforeDns == BeforeIp \cup {UTA_MS_CALL_PS_GET_NEG_IP_ADDR_REQ}
BeforeConnect == BeforeDns \cup {UTA_MS_CALL_PS_GET_NEGOTIATED_DNS_REQ}
BeforeChannel == BeforeConnect \cup {UTA_MS_CALL_PS_CONNECT_REQ}
BeforeSetup == BeforeChannel \cup {UTA_RPC_PS_CONNECT_TO_DATACHANNEL_REQ}

Before(s) ==
    CASE s = "initialize" ->
            {CSI_FCC_LOCK_QUERY_REQ} \cup {InitCommands[i] : i \in 1..(nextInit - 1)}
      [] s \in {"fcc_query", "fcc_challenge", "fcc_answer", "set_mode"} -> BeforeMode
      [] s \in {"mode_wait", "version"} -> BeforeVersion
      [] s = "apn_config" -> BeforeApn
      [] s \in {"attach", "attach_wait", "attach_again"} -> BeforeAttach
      [] s = "neg_ip" -> BeforeIp
      [] s = "neg_dns" -> BeforeDns
      [] s \in {"configure", "ps_connect"} -> BeforeConnect
      [] s = "datachannel" -> BeforeChannel
      [] s = "setup" -> BeforeSetup
      [] OTHER -> {}

\* The version query could not be written: the port is gone, and the next request
\* will not be written either.
Unplugged == step = "apn_config" /\ ~up /\ call = "idle" /\ (issued => ret.status # "ok")

\* As long as no request was left behind, the modem served every step before this one.
InTurn == ~failed => Before(step) \subseteq modem.served \/ Unplugged

\* What the program has concluded of the radio and of the address.
Concluded ==
    /\ step \in {"version", "apn_config", "attach", "attach_wait", "attach_again", "neg_ip",
                 "neg_dns", "configure"} \cup Connecting => modem.radio
    /\ step = "neg_dns" => IF kept THEN modem.attached /\ modem.address ELSE ~modem.address
    /\ step \in {"configure"} \cup Connecting => modem.attached /\ modem.address

\* When the program ends, it ends with what it has concluded.
ExitsTrue == NoServiceMeansNone /\ SuccessMeansUp /\ HostFollowsModem

BringupInv ==
    /\ TransportInv
    /\ ClientTypeOK
    /\ Control
    /\ OneBehind
    /\ Truthful
    /\ InTurn
    /\ Concluded
    /\ ExitsTrue
-----------------------------------------------------------------------------
(* The program's own variables.                                             *)

\* The steps with a request, and all steps.
LEMMA StepsListed ==
    /\ DOMAIN Request = {"fcc_query", "fcc_challenge", "fcc_answer", "set_mode", "version",
                         "apn_config", "attach", "attach_again", "neg_ip", "neg_dns",
                         "ps_connect", "datachannel", "setup"}
    /\ Steps = DOMAIN Request \cup {"wait_ready", "initialize", "mode_wait", "attach_wait",
                                    "configure", "exited"}
BY DEF Request, Steps

\* The host is configured in four to six steps.
LEMMA NetPlanLength == Len(NetPlan) \in 4..6
<1>1. CASE DefaultRoute /\ WriteResolv
  BY <1>1 DEF NetPlan
<1>2. CASE DefaultRoute /\ ~WriteResolv
  BY <1>2 DEF NetPlan
<1>3. CASE ~DefaultRoute /\ WriteResolv
  BY <1>3 DEF NetPlan
<1>4. CASE ~DefaultRoute /\ ~WriteResolv
  BY <1>4 DEF NetPlan
<1> QED BY <1>1, <1>2, <1>3, <1>4

\* All times are numbers.
LEMMA TimesType ==
    ReadyTimeout \in Nat /\ IpWait \in Nat /\ IpInterval \in Nat
BY BringupAssumption

\* Time runs down to zero and no further.
LEMMA AfterType ==
    ASSUME remaining \in 0..ReadyTimeout \cup 0..IpWait, NEW ticks \in Nat
    PROVE  After(ticks) \in 0..ReadyTimeout \cup 0..IpWait
BY TimesType DEF After

\* What the steps of the program that decide may do to its variables.
LEMMA ClientTypeDecides == ClientTypeOK /\ Decides => ClientTypeOK'
<1> SUFFICES ASSUME ClientTypeOK, Decides PROVE ClientTypeOK'
  OBVIOUS
<1> USE DEF ClientTypeOK
<1>1. CASE \E s \in Steps : GoTo(s)
  BY <1>1 DEF GoTo, Proceed
<1>2. CASE \E code \in {"success", "failure", "refused", "no_ip"} : Stop(code)
  BY <1>2, StepsListed DEF Stop
<1>3. CASE \/ CallFails \/ RequestTooLong \/ Reopened \/ NotReady \/ FccQueried \/ FccChallenged
           \/ FccAnswered \/ ModeRequested \/ ModeReported \/ VersionRead \/ ApnConfigured
           \/ AttachReceived \/ AttachAllowed \/ Configured \/ DatachannelOpened \/ SetUp
  BY <1>1, <1>2, <1>3, StepsListed
  DEF CallFails, RequestTooLong, Reopened, NotReady, FccQueried, FccChallenged, FccAnswered,
      ModeRequested, ModeReported, VersionRead, ApnConfigured, AttachReceived, AttachAllowed,
      Configured, DatachannelOpened, SetUp
<1>4. CASE Ready
  <2>1. remaining' \in 0..ReadyTimeout
    BY <1>4, TimesType DEF Ready
  <2> QED BY <1>4, <2>1, StepsListed DEF Ready, Proceed
<1>5. CASE Initialized
  <2>1. nextInit' \in 1..Len(InitCommands)
    BY <1>5, InitCommandsType DEF Initialized
  <2> QED BY <1>5, <2>1, StepsListed DEF Initialized, Proceed
<1>6. CASE AttachedNow
  <2>1. remaining' \in 0..IpWait
    BY <1>6, TimesType DEF AttachedNow
  <2> QED BY <1>6, <2>1, StepsListed DEF AttachedNow, Proceed
<1>7. CASE Attached \/ AttachedAgain
  BY <1>1, <1>2, <1>6, <1>7, StepsListed DEF Attached, AttachedAgain
<1>8. CASE IpQueried
  BY <1>1, <1>2, <1>8, StepsListed DEF IpQueried, Proceed
<1>9. CASE DnsQueried
  <2>1. CASE \E s \in Steps : GoTo(s) \/ Stop("no_ip") \/ Stop("failure")
    BY <1>1, <1>2, <2>1
  <2>2. CASE remaining' = After(IpInterval) /\ Proceed("neg_ip")
             /\ UNCHANGED <<rpcVars, nextInit, kept, configured, modem>>
    BY <2>2, StepsListed, AfterType, TimesType DEF Proceed
  <2> QED BY <1>9, <2>1, <2>2, StepsListed DEF DnsQueried
<1>10. CASE Configure
  BY <1>2, <1>10, NetPlanLength DEF Configure
<1>11. CASE PsConnected
  BY <1>11, StepsListed DEF PsConnected, Proceed
<1> QED BY <1>3, <1>4, <1>5, <1>7, <1>8, <1>9, <1>10, <1>11 DEF Decides

\* No step takes a variable of the program out of its type.
LEMMA ClientTypeStep == ClientTypeOK /\ [Next]_vars => ClientTypeOK'
<1> SUFFICES ASSUME ClientTypeOK, [Next]_vars PROVE ClientTypeOK'
  OBVIOUS
<1>1. CASE Environment \/ CallProgress \/ ProbeTimesOut \/ UNCHANGED vars
  <2>1. UNCHANGED clientVars
    BY <1>1 DEF Environment, ModemAnswers, ModemIgnores, ModemReportsMode, NetworkAllows,
           ModemOnItsOwn, CallProgress, ProbeTimesOut, vars
  <2> QED BY <2>1 DEF clientVars, ClientTypeOK
<1>2. CASE Tick
  BY <1>2, AfterType DEF Tick, ClientTypeOK
<1>3. CASE Probe \/ Initialize \/ Ask \/ ModeWaits \/ AttachWaits
  <2>1. issued' = TRUE /\ UNCHANGED <<step, nextInit, remaining, kept, configured, exit>>
    BY <1>3 DEF Probe, Initialize, Ask, ModeWaits, AttachWaits, Call, Receive
  <2> QED BY <2>1 DEF ClientTypeOK
<1>4. CASE Decides
  BY <1>4, ClientTypeDecides
<1> QED BY <1>1, <1>2, <1>3, <1>4, ProgramSteps DEF Next, Starts

-----------------------------------------------------------------------------
(* The steps, as the transport accounts for them.                           *)

\* What a call in progress, or time, does.
LEMMA WorkEffect ==
    ASSUME TransportInv, CallProgress \/ Tick
    PROVE  /\ UNCHANGED <<step, issued, nextInit, kept, configured, exit, modem, up, sent>>
           /\ P!Messages' \subseteq P!Messages /\ P!Alive' \subseteq P!Alive
           /\ P!GoesOn \/ P!Fails \/ P!HandsBack \/ P!StartsOver
<1>1. CASE CallProgress
  <2>1. P!OrderInv /\ P!Progress
    BY <1>1, SameProgress DEF CallProgress, TransportInv
  <2>2. /\ UNCHANGED <<up, sent>>
        /\ P!Messages' \subseteq P!Messages /\ P!Alive' \subseteq P!Alive
        /\ P!GoesOn \/ P!Fails \/ P!HandsBack \/ P!StartsOver
    BY <2>1, TransportAssumption, P!ProgressEffect
  <2> QED BY <1>1, <2>2 DEF CallProgress, clientVars
<1>2. CASE Tick
  <2>1. P!Tick
    BY <1>2, SameTick DEF Tick
  <2>2. UNCHANGED <<up, sent, P!Messages, P!Alive>> /\ P!GoesOn
    BY <2>1, TransportAssumption, P!TickEffect
  <2> QED BY <1>2, <2>2 DEF Tick
<1> QED BY <1>1, <1>2

\* What the program does when it starts a call with `cmd`.
Wrote(cmd) ==
    /\ up /\ call' = "execute" /\ ret' = P!NoReturn /\ sent' = sent + 1
    /\ P!Alive' = P!Alive \cup {[req |-> sent + 1, code |-> cmd]}

\* ... and when the request cannot be written.
NotWritten ==
    /\ ~up /\ UNCHANGED <<call, sent, P!Alive>>
    /\ ret' = [of |-> "execute", status |-> "error", msg |-> P!NoMessage]

\* It is the one or the other.
LEMMA CallEffect ==
    ASSUME TransportInv, NEW cmd \in Commands, NEW mode \in T!Modes, NEW timeout,
           Call(cmd, mode, timeout)
    PROVE  /\ ~issued /\ issued' = TRUE /\ call = "idle"
           /\ UNCHANGED <<step, nextInit, kept, configured, exit, modem>>
           /\ UNCHANGED <<up, settled, failed, P!Messages>>
           /\ Wrote(cmd) \/ NotWritten
<1>1. CASE T!Execute(cmd, mode, timeout)
  <2>1. P!OrderInv /\ P!Execute(cmd, mode, timeout) /\ mode \in P!Modes
    BY <1>1, SameExecute, SameWords DEF TransportInv
  <2>2. /\ call = "idle" /\ UNCHANGED <<up, settled, failed, P!Messages>> /\ Wrote(cmd)
    BY <2>1, TransportAssumption, P!ExecuteEffect DEF Wrote
  <2> QED BY <2>2 DEF Call
<1>2. CASE T!ExecuteWriteFails
  <2>1. P!ExecuteWriteFails
    BY <1>2, SameExecuteWriteFails
  <2>2. call = "idle" /\ UNCHANGED <<up, settled, failed, P!Messages>> /\ NotWritten
    BY <2>1, TransportAssumption, P!WriteFailsEffect DEF NotWritten
  <2> QED BY <2>2 DEF Call
<1> QED BY <1>1, <1>2 DEF Call

\* What the steps that make a request do.
LEMMA AskEffect ==
    ASSUME TransportInv, ClientTypeOK, Probe \/ Initialize \/ Ask
    PROVE  /\ ~issued /\ issued' = TRUE /\ call = "idle" /\ step \in Asking
           /\ UNCHANGED <<step, nextInit, kept, configured, exit, modem>>
           /\ UNCHANGED <<up, settled, failed, P!Messages>>
           /\ Wrote(Asked) \/ NotWritten
<1>1. ASSUME NEW cmd \in Commands, NEW mode \in T!Modes, NEW timeout, Call(cmd, mode, timeout),
             cmd = Asked, step \in Asking
      PROVE  /\ ~issued /\ issued' = TRUE /\ call = "idle" /\ step \in Asking
             /\ UNCHANGED <<step, nextInit, kept, configured, exit, modem>>
             /\ UNCHANGED <<up, settled, failed, P!Messages>>
             /\ Wrote(Asked) \/ NotWritten
  BY <1>1, CallEffect
<1>2. {"Sync", "Async"} \subseteq T!Modes
  BY DEF T!Modes
<1>3. CASE Probe
  <2>1. step = "wait_ready" /\ Asked = CSI_FCC_LOCK_QUERY_REQ /\ step \in Asking
    BY <1>3 DEF Probe, Asked, Asking
  <2>2. CSI_FCC_LOCK_QUERY_REQ \in Commands
    <3>1. Request["fcc_query"].cmd = CSI_FCC_LOCK_QUERY_REQ /\ "fcc_query" \in DOMAIN Request
      BY DEF Request
    <3> QED BY <3>1 DEF Commands
  <2> QED BY <1>1, <1>2, <1>3, <2>1, <2>2 DEF Probe
<1>4. CASE Initialize
  <2>1. Asked = InitCommands[nextInit] /\ step \in Asking
    BY <1>4 DEF Initialize, Asked, Asking
  <2>2. InitCommands[nextInit] \in Commands
    BY InitCommandsType DEF ClientTypeOK
  <2> QED BY <1>1, <1>2, <1>4, <2>1, <2>2 DEF Initialize
<1>5. CASE Ask
  <2>1. Asked = Request[step].cmd /\ step \in Asking
    BY <1>5, StepsListed DEF Ask, Asked, Asking
  <2>2. Request[step].cmd \in Commands /\ Request[step].mode \in T!Modes
    BY <1>5, RequestType DEF Ask
  <2> QED BY <1>1, <1>5, <2>1, <2>2 DEF Ask
<1> QED BY <1>3, <1>4, <1>5

\* ... and those that listen.
LEMMA ListenEffect ==
    ASSUME TransportInv, ModeWaits \/ AttachWaits
    PROVE  /\ ~issued /\ issued' = TRUE /\ step \in Listening
           /\ UNCHANGED <<step, nextInit, kept, configured, exit, modem>>
           /\ call = "idle" /\ call' = "recv" /\ ret' = P!NoReturn
           /\ UNCHANGED <<up, sent, settled, failed, P!Messages, P!Alive>>
<1>1. /\ ~issued /\ issued' = TRUE /\ step \in Listening /\ T!Recv
      /\ UNCHANGED <<step, nextInit, kept, configured, exit, modem>>
  BY DEF ModeWaits, AttachWaits, Receive, Listening
<1>2. P!Recv
  BY <1>1, SameRecv
<1>3. /\ call = "idle" /\ call' = "recv" /\ ret' = P!NoReturn
      /\ UNCHANGED <<up, sent, settled, failed, P!Messages, P!Alive>>
  BY <1>2, TransportAssumption, P!RecvEffect
<1> QED BY <1>1, <1>3

\* ... and the one that opens the port again.
LEMMA ReopenEffect ==
    ASSUME TransportInv, ProbeTimesOut
    PROVE  /\ issued /\ step = "wait_ready" /\ call = "idle"
           /\ UNCHANGED <<step, issued, nextInit, kept, configured, exit, modem>>
           /\ UNCHANGED <<up, sent, settled, failed>>
           /\ P!Messages' \subseteq P!Messages /\ P!Alive' \subseteq P!Alive
           /\ \/ call' = "reopen" /\ ret' = P!NoReturn
              \/ call' = "idle" /\ ret' = [of |-> "reopen", status |-> "error", msg |-> P!NoMessage]
<1>1. /\ issued /\ step = "wait_ready" /\ call = "idle"
      /\ UNCHANGED <<step, issued, nextInit, kept, configured, exit, modem>>
  BY DEF ProbeTimesOut, Returned, clientVars
<1>2. CASE T!ReopenOpens
  <2>1. P!OrderInv /\ P!ReopenOpens
    BY <1>2, SameReopenOpens DEF TransportInv
  <2>2. /\ call' = "reopen" /\ ret' = P!NoReturn
        /\ UNCHANGED <<up, sent, settled, failed>>
        /\ P!Messages' \subseteq P!Messages /\ P!Alive' \subseteq P!Alive
    BY <2>1, TransportAssumption, P!ReopenOpensEffect
  <2> QED BY <1>1, <2>2
<1>3. CASE T!ReopenFails
  <2>1. P!ReopenFails
    BY <1>3, SameReopenFails
  <2>2. /\ UNCHANGED <<up, call, sent, settled, failed, P!Messages, P!Alive>>
        /\ ret' = [of |-> "reopen", status |-> "error", msg |-> P!NoMessage]
    BY <2>1, TransportAssumption, P!ReopenFailsEffect
  <2> QED BY <1>1, <2>2
<1> QED BY <1>2, <1>3 DEF ProbeTimesOut

-----------------------------------------------------------------------------
(* The modem. *)

\* What serving a request does to the modem, and what the answer then says of it.
LEMMA ServesEffect ==
    ASSUME modem \in Modem, NEW cmd \in Commands, NEW arg \in Words, Serves(cmd, arg)
    PROVE  /\ modem' \in Modem
           /\ modem.served \subseteq modem'.served /\ modem'.radio = modem.radio
           /\ modem.modeRsp = "sent" => modem'.modeRsp = "sent"
           /\ \/ cmd \in modem'.served
              \/ cmd = CSI_FCC_LOCK_VER_CHALLENGE_REQ /\ arg = 0
              \/ cmd = UTA_MODE_SET_REQ /\ arg = 1
              \/ cmd = UTA_MS_NET_ATTACH_REQ /\ arg = U32Max
           /\ cmd # UTA_MS_NET_ATTACH_REQ => modem'.attached = modem.attached
           /\ cmd # UTA_MS_CALL_PS_GET_NEG_IP_ADDR_REQ => modem'.address = modem.address
           /\ cmd = UTA_MS_NET_ATTACH_REQ /\ arg = U32Max => ~modem'.attached
           /\ cmd = UTA_MS_CALL_PS_GET_NEG_IP_ADDR_REQ =>
                 IF arg = 0 THEN ~modem'.address ELSE modem'.attached /\ modem'.address
<1> USE DEF CSI_FCC_LOCK_QUERY_REQ, CSI_FCC_LOCK_VER_CHALLENGE_REQ, UTA_MODE_SET_REQ,
            UTA_MS_NET_ATTACH_REQ, UTA_MS_CALL_PS_GET_NEG_IP_ADDR_REQ, Modem
<1> DEFINE served == [modem EXCEPT !.served = @ \cup {cmd}]
<1>1. served \in Modem
      /\ served.served = modem.served \cup {cmd} /\ served.locked = modem.locked
      /\ served.radio = modem.radio /\ served.modeRsp = modem.modeRsp
      /\ served.attached = modem.attached /\ served.address = modem.address
  OBVIOUS
<1> HIDE DEF served
<1>2. CASE cmd = CSI_FCC_LOCK_QUERY_REQ /\ modem' = served
  BY <1>1, <1>2
<1>3. CASE /\ cmd = CSI_FCC_LOCK_VER_CHALLENGE_REQ /\ arg \in {0, 1}
           /\ modem' = IF arg = 1 THEN [served EXCEPT !.locked = FALSE] ELSE modem
  <2>1. CASE arg = 1
    <3>1. modem' = [served EXCEPT !.locked = FALSE]
      BY <1>3, <2>1
    <3>2. modem' \in Modem
      BY <1>1, <3>1
    <3>3. /\ modem'.served = served.served /\ modem'.radio = served.radio
          /\ modem'.modeRsp = served.modeRsp /\ modem'.attached = served.attached
          /\ modem'.address = served.address
      BY <1>1, <3>1
    <3> QED BY <1>1, <1>3, <3>2, <3>3
  <2>2. CASE arg = 0
    BY <1>3, <2>2
  <2> QED BY <1>3, <2>1, <2>2
<1>4. CASE /\ cmd = UTA_MODE_SET_REQ /\ arg \in {0, 1}
           /\ modem' = IF arg = 1 THEN modem
                       ELSE [served EXCEPT !.modeRsp = IF @ = "none" THEN "due" ELSE @]
  BY <1>1, <1>4
<1>5. CASE /\ cmd = UTA_MS_NET_ATTACH_REQ /\ arg \in {0, U32Max}
           /\ modem' = IF arg = U32Max THEN [modem EXCEPT !.refused = TRUE, !.attached = FALSE]
                       ELSE [served EXCEPT !.refused = FALSE, !.attached = TRUE]
  <2>1. CASE arg = U32Max
    <3>1. modem' = [modem EXCEPT !.refused = TRUE, !.attached = FALSE]
      BY <1>5, <2>1
    <3>2. modem' \in Modem
      BY <3>1
    <3>3. /\ modem'.served = modem.served /\ modem'.radio = modem.radio
          /\ modem'.modeRsp = modem.modeRsp /\ modem'.address = modem.address
          /\ ~modem'.attached
      BY <3>1
    <3> QED BY <1>5, <2>1, <3>2, <3>3
  <2>2. CASE arg # U32Max
    <3>1. modem' = [served EXCEPT !.refused = FALSE, !.attached = TRUE]
      BY <1>5, <2>2
    <3>2. modem' \in Modem
      BY <1>1, <3>1
    <3>3. /\ modem'.served = served.served /\ modem'.radio = served.radio
          /\ modem'.modeRsp = served.modeRsp /\ modem'.address = served.address
      BY <1>1, <3>1
    <3> QED BY <1>1, <1>5, <2>2, <3>2, <3>3
  <2> QED BY <2>1, <2>2
<1>6. CASE /\ cmd = UTA_MS_CALL_PS_GET_NEG_IP_ADDR_REQ /\ arg \in {0, 1}
           /\ arg = 1 => modem.attached
           /\ modem' = [served EXCEPT !.address = (arg = 1)]
  <2>1. modem' \in Modem
    BY <1>1, <1>6
  <2>2. /\ modem'.served = served.served /\ modem'.radio = served.radio
        /\ modem'.modeRsp = served.modeRsp /\ modem'.attached = served.attached
    BY <1>1, <1>6
  <2>3. modem'.address = (arg = 1)
    BY <1>1, <1>6
  <2>4. IF arg = 0 THEN ~modem'.address ELSE modem'.attached /\ modem'.address
    <3>1. arg # 1 <=> ~modem'.address
      BY <2>3, Zenon
    <3>2. arg = 1 => modem'.attached
      BY <1>1, <1>6, <2>2
    <3> QED BY <1>6, <3>1, <3>2
  <2> QED BY <1>1, <1>6, <2>1, <2>2, <2>4
<1>7. CASE /\ cmd \notin {CSI_FCC_LOCK_QUERY_REQ, CSI_FCC_LOCK_VER_CHALLENGE_REQ,
                          UTA_MODE_SET_REQ, UTA_MS_NET_ATTACH_REQ,
                          UTA_MS_CALL_PS_GET_NEG_IP_ADDR_REQ}
           /\ modem' = served
  BY <1>1, <1>7
<1> QED BY <1>2, <1>3, <1>4, <1>5, <1>6, <1>7 DEF Serves, served

\* What the modem may do: serve a request and put the answer under way or not, ...
ServesOne ==
    \E p \in P!Range(fwq), arg \in Words :
        /\ p.cmd \in Commands /\ Serves(p.cmd, arg) /\ p.req <= sent
        /\ [req |-> p.req, code |-> p.cmd] \in P!Alive
        /\ \A m \in P!Seen : P!IsResponse(m) => m.req < p.req
        /\ \A m \in P!Seen' : m \in P!Seen \/ (m.req = p.req /\ m.code = p.cmd /\ m.arg = arg)

\* ... report the mode it has reached, ...
Reports ==
    /\ modem.modeRsp # "sent"
    /\ modem' = [modem EXCEPT !.modeRsp = "sent", !.radio = ~modem.locked]
    /\ \A m \in P!Seen' :
        \/ m \in P!Seen
        \/ ~P!IsResponse(m) /\ m.code = UTA_MODE_SET_RSP_CB /\ m.arg = IF modem.locked THEN 0 ELSE 1

\* ... or stay as it is.
StaysAsItIs ==
    /\ modem' = modem
    /\ \A m \in P!Seen' : m \in P!Seen \/ (~P!IsResponse(m) /\ m.code # UTA_MODE_SET_RSP_CB)

\* A request that is served is newer than every answer.
LEMMA ServedIsNewest ==
    ASSUME TransportInv, fwq # <<>>
    PROVE  /\ Head(fwq) \in P!Range(fwq) /\ Head(fwq).cmd \in Commands /\ Head(fwq).req <= sent
           /\ settled < Head(fwq).req
           /\ [req |-> Head(fwq).req, code |-> Head(fwq).cmd] \in P!Alive
           /\ \A m \in P!Seen : P!IsResponse(m) => m.req < Head(fwq).req
<1>1. P!UnderWay
  BY TransportAssumption, P!OrderUnderWay DEF TransportInv
<1>2. Head(fwq) \in P!Range(fwq) /\ \A m \in P!Messages : P!IsResponse(m) => m.req < Head(fwq).req
  BY <1>1 DEF P!UnderWay
<1>3. Head(fwq).cmd \in Commands
  BY <1>1, <1>2 DEF P!UnderWay, P!PendingUpTo
<1>4. [req |-> Head(fwq).req, code |-> Head(fwq).cmd] \in P!Alive
  BY <1>2 DEF P!Alive
<1>5. settled < Head(fwq).req /\ Head(fwq).req <= sent
  BY <1>1, <1>4 DEF P!UnderWay
<1>6. P!IsResponse(ret.msg) => ret.msg.req < Head(fwq).req
  BY <1>5 DEF TransportInv, P!ReturnInv
<1> QED BY <1>2, <1>3, <1>4, <1>5, <1>6 DEF P!Seen

\* Nothing else that the modem does concerns the calls of the program.
LEMMA EnvironmentEffect ==
    ASSUME TransportInv, Environment
    PROVE  /\ step # "exited" /\ UNCHANGED clientVars
           /\ UNCHANGED <<call, ret, sent, settled, failed>> /\ (up' => up)
           /\ P!Alive' \subseteq P!Alive
           /\ ServesOne \/ Reports \/ StaysAsItIs
<1>0. P!OrderInv /\ step # "exited" /\ UNCHANGED clientVars
  BY DEF TransportInv, Environment, ModemAnswers, ModemIgnores, ModemReportsMode, NetworkAllows,
         ModemOnItsOwn
<1>1. CASE ModemAnswers
  <2>1. PICK arg \in Words : Serves(Head(fwq).cmd, arg) /\ T!FirmwareAnswers(arg)
    BY <1>1 DEF ModemAnswers
  <2>2. P!FirmwareAnswers(arg)
    BY <2>1, SameFirmwareAnswers
  <2>3. /\ up /\ fwq # <<>> /\ P!CallsAlone /\ P!Alive' \subseteq P!Alive
        /\ \E given \in P!MessageUpTo(sent) :
            /\ P!Seen' = P!Seen \cup {given}
            /\ given.req = Head(fwq).req /\ given.code = Head(fwq).cmd /\ given.arg = arg
    BY <1>0, <2>2, TransportAssumption, P!AnswersEffect
  <2>4. ServesOne
    BY <2>1, <2>3, ServedIsNewest DEF ServesOne
  <2> QED BY <1>0, <2>3, <2>4 DEF P!CallsAlone
<1>2. CASE ModemIgnores
  <2>1. P!FirmwareIgnores
    BY <1>2, SameFirmwareIgnores DEF ModemIgnores
  <2>2. fwq # <<>> /\ P!CallsAlone /\ P!Alive' \subseteq P!Alive /\ P!Seen' = P!Seen
    BY <1>0, <2>1, TransportAssumption, P!IgnoresEffect
  <2>3. ServesOne \/ StaysAsItIs
    BY <1>2, <2>2, ServedIsNewest DEF ModemIgnores, ServesOne, StaysAsItIs
  <2> QED BY <1>0, <2>2, <2>3 DEF P!CallsAlone
<1>i. ASSUME NEW ind \in {UTA_MS_NET_IS_ATTACH_ALLOWED_IND_CB, UTA_MODE_SET_RSP_CB},
             NEW arg \in Words, NEW cost \in {0, 1}, T!FirmwareIndicates(ind, arg, cost)
      PROVE  /\ P!CallsAlone /\ P!Alive' \subseteq P!Alive
             /\ \A m \in P!Seen' :
                m \in P!Seen \/ (~P!IsResponse(m) /\ m.code = ind /\ m.arg = arg)
  <2>1. P!FirmwareIndicates(ind, arg, cost)
    BY <1>i, SameFirmwareIndicates
  <2>2. /\ P!CallsAlone /\ P!Alive' \subseteq P!Alive
        /\ \E given \in P!MessageUpTo(sent) :
            /\ P!Seen' = P!Seen \cup {given} /\ ~P!IsResponse(given)
            /\ given.code = ind /\ given.arg = arg
    BY <1>0, <2>1, TransportAssumption, P!IndicatesEffect
  <2> QED BY <2>2
<1>w. {0, 1, NoArg} \subseteq Words
  BY DEF Words
<1>3. CASE ModemReportsMode
  <2>1. T!FirmwareIndicates(UTA_MODE_SET_RSP_CB, IF modem.locked THEN 0 ELSE 1, 0)
        /\ (IF modem.locked THEN 0 ELSE 1) \in Words
    BY <1>3, <1>w DEF ModemReportsMode
  <2>2. /\ P!CallsAlone /\ P!Alive' \subseteq P!Alive
        /\ \A m \in P!Seen' :
            \/ m \in P!Seen
            \/ /\ ~P!IsResponse(m) /\ m.code = UTA_MODE_SET_RSP_CB
               /\ m.arg = IF modem.locked THEN 0 ELSE 1
    BY <1>i, <2>1
  <2>3. Reports
    BY <1>3, <2>2 DEF ModemReportsMode, Reports
  <2> QED BY <1>0, <2>2, <2>3 DEF P!CallsAlone
<1>n. UTA_MS_NET_IS_ATTACH_ALLOWED_IND_CB # UTA_MODE_SET_RSP_CB
  BY DEF UTA_MS_NET_IS_ATTACH_ALLOWED_IND_CB, UTA_MODE_SET_RSP_CB
<1>4. CASE \E arg \in {0, 1, NoArg}, cost \in {0, 1} :
                /\ T!FirmwareIndicates(UTA_MS_NET_IS_ATTACH_ALLOWED_IND_CB, arg, cost)
                /\ modem' = modem
  <2>1. PICK arg \in {0, 1, NoArg}, cost \in {0, 1} :
                /\ T!FirmwareIndicates(UTA_MS_NET_IS_ATTACH_ALLOWED_IND_CB, arg, cost)
                /\ modem' = modem
    BY <1>4
  <2>2. /\ P!CallsAlone /\ P!Alive' \subseteq P!Alive
        /\ \A m \in P!Seen' :
            m \in P!Seen \/ (~P!IsResponse(m) /\ m.code = UTA_MS_NET_IS_ATTACH_ALLOWED_IND_CB)
    BY <1>i, <1>w, <2>1
  <2>3. StaysAsItIs
    BY <1>n, <2>1, <2>2 DEF StaysAsItIs
  <2> QED BY <1>0, <2>2, <2>3 DEF P!CallsAlone
<1>5. CASE T!FirmwareAcks /\ modem' = modem
  <2>1. P!FirmwareAcks
    BY <1>5, SameFirmwareAcks
  <2>2. /\ P!CallsAlone /\ P!Alive' \subseteq P!Alive
        /\ \E given \in P!MessageUpTo(sent) :
            /\ P!Seen' = P!Seen \cup {given} /\ ~P!IsResponse(given)
            /\ given.code = P!ACK_CODE_MIN
    BY <1>0, <2>1, TransportAssumption, P!AcksEffect
  <2>3. StaysAsItIs
    BY <1>5, <2>2 DEF StaysAsItIs, P!ACK_CODE_MIN, UTA_MODE_SET_RSP_CB
  <2> QED BY <1>0, <2>2, <2>3 DEF P!CallsAlone
<1>6. CASE T!PortRemoved /\ modem' = modem
  <2>1. P!PortRemoved
    BY <1>6, SamePortRemoved
  <2>2. /\ ~up' /\ UNCHANGED <<call, ret, sent, settled, failed>>
        /\ P!Alive' \subseteq P!Alive /\ P!Seen' \subseteq P!Seen
    BY <1>0, <2>1, TransportAssumption, P!RemovedEffect
  <2> QED BY <1>0, <1>6, <2>2 DEF StaysAsItIs
<1> QED BY <1>1, <1>2, <1>3, <1>4, <1>5, <1>6 DEF Environment, NetworkAllows, ModemOnItsOwn

-----------------------------------------------------------------------------
(* The decisions of the program.                                            *)

\* The program exits with a code, and on these grounds if it is not 1.
Exits ==
    /\ step' = "exited" /\ UNCHANGED <<issued, nextInit, kept, configured>>
    /\ \/ exit' = "failure"
       \/ exit' = "success" /\ step = "setup" /\ HasAnswer
       \/ /\ exit' = "refused" /\ step = "attach_again" /\ HasAnswer
          /\ ret.msg.code = Asked => ret.msg.arg = U32Max
       \/ exit' = "no_ip" /\ step = "neg_dns" /\ ~kept

\* Which step follows which on an answer.
Follows ==
    \/ step = "wait_ready" /\ step' = "initialize"
    \/ step = "initialize" /\ step' \in {"initialize", "fcc_query"}
    \/ step = "fcc_query" /\ step' \in {"fcc_challenge", "set_mode"}
    \/ step = "fcc_challenge" /\ step' = "fcc_answer"
    \/ step = "fcc_answer" /\ step' = "set_mode"
    \/ step = "set_mode" /\ step' = "mode_wait"
    \/ step = "apn_config" /\ step' = "attach"
    \/ step = "attach" /\ step' \in {"attach_wait", "neg_ip"}
    \/ step = "attach_again" /\ step' = "neg_ip"
    \/ step = "neg_ip" /\ step' = "neg_dns"
    \/ step = "neg_dns" /\ step' \in {"configure", "neg_ip"}
    \/ step = "ps_connect" /\ step' = "datachannel"
    \/ step = "datachannel" /\ step' = "setup"

\* An answer takes the program on: unless the answer is to another request, it is
\* no refusal, or the refusal that is waited upon.
Advances ==
    /\ HasAnswer /\ Follows
    /\ issued' = FALSE /\ UNCHANGED <<exit, configured>>
    /\ ret.msg.code = Asked => ~Refusal(ret.msg) \/ step' = "attach_wait"
    /\ step = "initialize" =>
        IF step' = "initialize" THEN nextInit' = nextInit + 1 /\ nextInit < 7
        ELSE nextInit = 7 /\ nextInit' = nextInit
    /\ step # "initialize" => nextInit' = nextInit
    /\ step = "neg_ip" =>
        /\ ret.msg.code # UTA_MS_NET_ATTACH_REQ
        /\ ret.msg.code = Asked => (kept' <=> ret.msg.arg # 0)
    /\ step = "neg_dns" /\ step' = "configure" => kept

\* What is received takes it on, or not.
Hears ==
    /\ step \in Listening /\ issued /\ issued' = FALSE
    /\ UNCHANGED <<nextInit, kept, configured, exit>>
    /\ \/ step' = step
       \/ /\ step = "mode_wait" /\ step' = "version"
          /\ ret.msg.code = UTA_MODE_SET_RSP_CB /\ ret.msg.arg = 1

\* The version is done without.
DoesWithout ==
    /\ step = "version" /\ step' = "apn_config" /\ Executed /\ issued' = FALSE
    /\ UNCHANGED <<nextInit, kept, configured, exit>>

\* It goes on of itself.
GoesOnAlone ==
    /\ issued' = FALSE /\ UNCHANGED <<nextInit, kept, exit>>
    /\ \/ step = "attach_wait" /\ step' = "attach_again" /\ ~issued /\ configured' = configured
       \/ /\ step = "wait_ready" /\ step' = "wait_ready" /\ issued /\ call = "idle"
          /\ ret.of = "reopen" /\ ret.status = "ok" /\ configured' = configured
       \/ step = "configure" /\ step' = "configure"
       \/ /\ step = "configure" /\ step' = "ps_connect"
          /\ configured = Len(NetPlan) /\ configured' = configured

\* The command that each step executes.
LEMMA AskedIs ==
    /\ step = "wait_ready" => Asked = CSI_FCC_LOCK_QUERY_REQ
    /\ step = "initialize" => Asked = InitCommands[nextInit]
    /\ step = "fcc_query" => Asked = CSI_FCC_LOCK_QUERY_REQ
    /\ step = "fcc_challenge" => Asked = CSI_FCC_LOCK_GEN_CHALLENGE_REQ
    /\ step = "fcc_answer" => Asked = CSI_FCC_LOCK_VER_CHALLENGE_REQ
    /\ step = "set_mode" => Asked = UTA_MODE_SET_REQ
    /\ step = "version" => Asked = UTA_SYS_GET_INFO
    /\ step = "apn_config" => Asked = UTA_MS_CALL_PS_ATTACH_APN_CONFIG_REQ
    /\ step \in {"attach", "attach_again"} => Asked = UTA_MS_NET_ATTACH_REQ
    /\ step = "neg_ip" => Asked = UTA_MS_CALL_PS_GET_NEG_IP_ADDR_REQ
    /\ step = "neg_dns" => Asked = UTA_MS_CALL_PS_GET_NEGOTIATED_DNS_REQ
    /\ step = "ps_connect" => Asked = UTA_MS_CALL_PS_CONNECT_REQ
    /\ step = "datachannel" => Asked = UTA_RPC_PS_CONNECT_TO_DATACHANNEL_REQ
    /\ step = "setup" => Asked = UTA_RPC_PS_CONNECT_SETUP_REQ
BY DEF Asked, Request

\* The commands of the loop of initialize, by their numbers.
LEMMA InitCommandsListed == \A i \in 1..7 : InitCommands[i] \in {1, 48, 37, 83, 36, 58, 38}
BY DEF InitCommands, UTA_MS_SMS_INIT, UTA_MS_CBS_INIT, UTA_MS_NET_OPEN, UTA_MS_CALL_CS_INIT,
       UTA_MS_CALL_PS_INITIALIZE, UTA_MS_SS_INIT, UTA_MS_SIM_OPEN_REQ

\* The commands that the program may refuse to take for served are three, and no
\* step but theirs executes them.
LEMMA RefusalsAre ==
    /\ \A m : Refusal(m) => m.code \in {CSI_FCC_LOCK_VER_CHALLENGE_REQ, UTA_MODE_SET_REQ,
                                         UTA_MS_NET_ATTACH_REQ}
    /\ ClientTypeOK /\ step \notin {"fcc_answer", "set_mode", "attach", "attach_again"}
         /\ step \in Asking =>
        Asked \notin {CSI_FCC_LOCK_VER_CHALLENGE_REQ, UTA_MODE_SET_REQ, UTA_MS_NET_ATTACH_REQ}
    /\ step \in Asking /\ step # "neg_ip" /\ ClientTypeOK =>
        Asked # UTA_MS_CALL_PS_GET_NEG_IP_ADDR_REQ
<1>1. \A m : Refusal(m) => m.code \in {CSI_FCC_LOCK_VER_CHALLENGE_REQ, UTA_MODE_SET_REQ,
                                        UTA_MS_NET_ATTACH_REQ}
  BY DEF Refusal
<1> USE DEF CSI_FCC_LOCK_VER_CHALLENGE_REQ, UTA_MODE_SET_REQ, UTA_MS_NET_ATTACH_REQ,
            UTA_MS_CALL_PS_GET_NEG_IP_ADDR_REQ
<1>2. CASE step = "initialize" /\ ClientTypeOK
  <2>1. nextInit \in 1..7
    BY <1>2, InitCommandsType DEF ClientTypeOK
  <2> QED BY <1>1, <1>2, <2>1, InitCommandsListed, AskedIs
<1>3. CASE step # "initialize" /\ step \in Asking
  BY <1>1, <1>3, AskedIs, StepsListed
  DEF Asking, CSI_FCC_LOCK_QUERY_REQ, CSI_FCC_LOCK_GEN_CHALLENGE_REQ, UTA_SYS_GET_INFO,
      UTA_MS_CALL_PS_ATTACH_APN_CONFIG_REQ, UTA_MS_CALL_PS_GET_NEGOTIATED_DNS_REQ,
      UTA_MS_CALL_PS_CONNECT_REQ, UTA_RPC_PS_CONNECT_TO_DATACHANNEL_REQ,
      UTA_RPC_PS_CONNECT_SETUP_REQ
<1> QED BY <1>1, <1>2, <1>3

\* A step that was successful and is no listening one has the answer to an execute.
LEMMA SucceededHasAnswer ==
    ASSUME Control, ClientTypeOK, NEW s \in Asking, Succeeded(s)
    PROVE  HasAnswer /\ step = s /\ step # "exited" /\ s \notin Listening
BY StepsListed DEF Control, ClientTypeOK, Succeeded, Returned, HasAnswer, Executed, CallsOf, Asking,
                   Listening

\* Whatever the program decides is one of these.
LEMMA DecidesEffect ==
    ASSUME Control, ClientTypeOK, Decides
    PROVE  /\ step # "exited" /\ call = "idle" /\ UNCHANGED <<rpcVars, modem>>
           /\ Exits \/ Advances \/ Hears \/ DoesWithout \/ GoesOnAlone
<1>0. UNCHANGED <<rpcVars, modem>>
  BY DecidesAlone
<1>1. CASE CallFails
  BY <1>0, <1>1 DEF CallFails, Returned, Stop, Exits
<1>2. CASE RequestTooLong
  BY <1>0, <1>2 DEF RequestTooLong, Stop, Exits, Control
<1>3. CASE Reopened
  BY <1>0, <1>3 DEF Reopened, Returned, GoTo, Proceed, GoesOnAlone
<1>4. CASE NotReady
  BY <1>0, <1>4 DEF NotReady, Returned, Stop, Exits
<1>5. CASE VersionRead
  <2>1. Executed /\ call = "idle"
    BY <1>5 DEF VersionRead, Returned, Control, CallsOf, Listening, Executed
  <2> QED BY <1>0, <1>5, <2>1 DEF VersionRead, Returned, GoTo, Proceed, DoesWithout
<1>6. CASE ModeReported \/ AttachReceived
  BY <1>0, <1>6 DEF ModeReported, AttachReceived, Succeeded, Returned, GoTo, Proceed, Stop, Hears,
                    Listening, Exits
<1>7. CASE AttachAllowed
  BY <1>0, <1>7 DEF AttachAllowed, GoTo, Proceed, GoesOnAlone, Control
<1>8. CASE Configure \/ Configured
  <2>1. ~issued /\ call = "idle" /\ step # "exited"
    BY <1>8, StepsListed DEF Configure, Configured, Control, Asking, Listening
  <2> QED BY <1>0, <1>8, <2>1 DEF Configure, Configured, GoTo, Proceed, Stop, GoesOnAlone, Exits
<1>a. ASSUME NEW s \in Asking, Succeeded(s)
      PROVE  HasAnswer /\ step = s /\ step # "exited" /\ call = "idle"
  BY <1>a, SucceededHasAnswer DEF HasAnswer, Executed
<1>b. Asking = {"fcc_query", "fcc_challenge", "fcc_answer", "set_mode", "version", "apn_config",
                "attach", "attach_again", "neg_ip", "neg_dns", "ps_connect", "datachannel",
                "setup", "wait_ready", "initialize"}
  BY StepsListed DEF Asking
<1>c. ClientTypeOK /\ step \in Asking \ {"fcc_answer", "set_mode", "attach", "attach_again"}
        /\ ret.msg.code = Asked => ~Refusal(ret.msg)
  BY RefusalsAre
<1>9. CASE Ready
  <2>1. HasAnswer /\ step = "wait_ready" /\ call = "idle"
    BY <1>9, <1>a, <1>b DEF Ready
  <2> QED BY <1>0, <1>9, <1>b, <1>c, <2>1 DEF Ready, Proceed, Advances, Follows
<1>10. CASE Initialized
  <2>1. HasAnswer /\ step = "initialize" /\ call = "idle"
    BY <1>10, <1>a, <1>b DEF Initialized
  <2>2. nextInit \in 1..7 /\ Len(InitCommands) = 7
    BY InitCommandsType DEF ClientTypeOK
  <2>3. /\ issued' = FALSE /\ UNCHANGED <<exit, configured>>
        /\ IF nextInit < 7 THEN nextInit' = nextInit + 1 /\ step' = "initialize"
           ELSE nextInit' = nextInit /\ step' = "fcc_query" /\ nextInit = 7
    BY <1>10, <2>2 DEF Initialized, Proceed
  <2>4. Advances
    BY <1>b, <1>c, <2>1, <2>3 DEF Advances, Follows
  <2> QED BY <1>0, <2>1, <2>4
<1>11. CASE FccQueried \/ FccChallenged \/ ApnConfigured \/ PsConnected \/ DatachannelOpened
  <2>1. /\ HasAnswer /\ call = "idle"
        /\ step \in {"fcc_query", "fcc_challenge", "apn_config", "ps_connect", "datachannel"}
    BY <1>11, <1>a, <1>b
    DEF FccQueried, FccChallenged, ApnConfigured, PsConnected, DatachannelOpened
  <2>2. ret.msg.code = Asked => ~Refusal(ret.msg)
    BY <1>b, <1>c, <2>1
  <2> QED BY <1>0, <1>11, <2>1, <2>2
          DEF FccQueried, FccChallenged, ApnConfigured, PsConnected, DatachannelOpened, GoTo,
              Proceed, Stop, Succeeded, Returned, Advances, Follows, Exits
<1>12. CASE FccAnswered \/ ModeRequested
  <2>1. HasAnswer /\ call = "idle" /\ step \in {"fcc_answer", "set_mode"}
    BY <1>12, <1>a, <1>b DEF FccAnswered, ModeRequested
  <2>2. CASE Stop("failure")
    BY <1>0, <2>1, <2>2 DEF Stop, Exits
  <2>3. CASE /\ step = "fcc_answer" /\ GoTo("set_mode")
             /\ ret.msg.code = Asked => ret.msg.arg = 1
    <3>1. ret.msg.code = Asked => ~Refusal(ret.msg)
      BY <2>3, AskedIs
      DEF Refusal, CSI_FCC_LOCK_VER_CHALLENGE_REQ, UTA_MODE_SET_REQ, UTA_MS_NET_ATTACH_REQ
    <3> QED BY <1>0, <2>1, <2>3, <3>1 DEF GoTo, Proceed, Advances, Follows
  <2>4. CASE /\ step = "set_mode" /\ GoTo("mode_wait")
             /\ ret.msg.code = Asked => ret.msg.arg = 0
    <3>1. ret.msg.code = Asked => ~Refusal(ret.msg)
      BY <2>4, AskedIs
      DEF Refusal, CSI_FCC_LOCK_VER_CHALLENGE_REQ, UTA_MODE_SET_REQ, UTA_MS_NET_ATTACH_REQ
    <3> QED BY <1>0, <2>1, <2>4, <3>1 DEF GoTo, Proceed, Advances, Follows
  <2> QED BY <1>12, <2>1, <2>2, <2>3, <2>4, AskedIs, StepsListed
          DEF FccAnswered, ModeRequested, Decoded, Succeeded, Returned
<1>13. CASE Attached \/ AttachedAgain
  <2>1. /\ HasAnswer /\ call = "idle" /\ step \in {"attach", "attach_again"}
        /\ Asked = UTA_MS_NET_ATTACH_REQ
    BY <1>13, <1>a, <1>b, AskedIs DEF Attached, AttachedAgain
  <2>2. PICK status \in Decoded(UTA_MS_NET_ATTACH_REQ) :
            \/ status \notin {U32Max, NoArg} /\ AttachedNow
            \/ status = U32Max /\ step = "attach" /\ GoTo("attach_wait")
            \/ status = U32Max /\ step = "attach_again" /\ Stop("refused")
            \/ Stop("failure")
    BY <1>13 DEF Attached, AttachedAgain, Succeeded, Returned
  <2>3. ret.msg.code = Asked => status = ret.msg.arg
    BY <2>1, <2>2 DEF Decoded
  <2>4. CASE status \notin {U32Max, NoArg} /\ AttachedNow
    <3>1. ret.msg.code = Asked => ~Refusal(ret.msg)
      BY <2>1, <2>3, <2>4
      DEF Refusal, CSI_FCC_LOCK_VER_CHALLENGE_REQ, UTA_MODE_SET_REQ, UTA_MS_NET_ATTACH_REQ
    <3> QED BY <1>0, <2>1, <2>4, <3>1 DEF AttachedNow, Proceed, Advances, Follows
  <2>5. CASE status = U32Max /\ step = "attach" /\ GoTo("attach_wait")
    BY <1>0, <2>1, <2>5 DEF GoTo, Proceed, Advances, Follows
  <2>6. CASE status = U32Max /\ step = "attach_again" /\ Stop("refused")
    BY <1>0, <2>1, <2>3, <2>6 DEF Stop, Exits
  <2>7. CASE Stop("failure")
    BY <1>0, <2>1, <2>7 DEF Stop, Exits
  <2> QED BY <2>2, <2>4, <2>5, <2>6, <2>7
<1>14. CASE IpQueried
  <2>1. HasAnswer /\ call = "idle" /\ step = "neg_ip" /\ Asked = UTA_MS_CALL_PS_GET_NEG_IP_ADDR_REQ
    BY <1>14, <1>a, <1>b, AskedIs DEF IpQueried
  <2>2. PICK address \in Decoded(UTA_MS_CALL_PS_GET_NEG_IP_ADDR_REQ) :
            \/ /\ address # NoArg /\ kept' = (address # 0) /\ Proceed("neg_dns")
               /\ UNCHANGED <<rpcVars, nextInit, remaining, configured, modem>>
            \/ Stop("failure")
    BY <1>14 DEF IpQueried
  <2>3. CASE /\ address # NoArg /\ kept' = (address # 0) /\ Proceed("neg_dns")
             /\ UNCHANGED <<rpcVars, nextInit, remaining, configured, modem>>
    <3>1. ret.msg.code # UTA_MS_NET_ATTACH_REQ
      BY <2>2, <2>3 DEF Decoded, SecondIsInteger, UTA_MS_NET_ATTACH_REQ,
                        UTA_MS_CALL_PS_GET_NEG_IP_ADDR_REQ
    <3>2. kept' <=> address # 0
      BY <2>3, Zenon
    <3>3. ret.msg.code = Asked => (kept' <=> ret.msg.arg # 0)
      BY <2>1, <2>2, <3>2 DEF Decoded
    <3>4. ret.msg.code = Asked => ~Refusal(ret.msg)
      BY <1>b, <1>c, <2>1
    <3> QED BY <1>0, <2>1, <2>3, <3>1, <3>3, <3>4 DEF Proceed, Advances, Follows
  <2> QED BY <1>0, <2>1, <2>2, <2>3 DEF Stop, Exits
<1>15. CASE DnsQueried
  <2>1. HasAnswer /\ call = "idle" /\ step = "neg_dns"
    BY <1>15, <1>a, <1>b DEF DnsQueried
  <2>2. ret.msg.code = Asked => ~Refusal(ret.msg)
    BY <1>b, <1>c, <2>1
  <2> QED BY <1>0, <1>15, <2>1, <2>2 DEF DnsQueried, GoTo, Proceed, Stop, Advances, Follows, Exits
<1>16. CASE SetUp
  <2>1. HasAnswer /\ call = "idle" /\ step = "setup"
    BY <1>16, <1>a, <1>b DEF SetUp
  <2> QED BY <1>0, <1>16, <2>1 DEF SetUp, Stop, Exits
<1> QED BY <1>1, <1>2, <1>3, <1>4, <1>5, <1>6, <1>7, <1>8, <1>9, <1>10, <1>11, <1>12, <1>13,
           <1>14, <1>15, <1>16 DEF Decides

-----------------------------------------------------------------------------
(* The steps of the invariant. *)

\* Every step is one of the kinds above.
LEMMA StepKinds ==
    ASSUME [Next]_vars
    PROVE  \/ Environment \/ CallProgress \/ Tick
           \/ Probe \/ Initialize \/ Ask
           \/ ModeWaits \/ AttachWaits
           \/ ProbeTimesOut \/ Decides \/ UNCHANGED vars
BY ProgramSteps DEF Next, Starts

\* Where the program is goes with what the transport does for it.
LEMMA ControlStep ==
    TransportInv /\ ClientTypeOK /\ Control /\ [Next]_vars => Control'
<1> SUFFICES ASSUME TransportInv, ClientTypeOK, Control, [Next]_vars PROVE Control'
  OBVIOUS
<1>s. /\ DOMAIN Request = {"fcc_query", "fcc_challenge", "fcc_answer", "set_mode", "version",
                           "apn_config", "attach", "attach_again", "neg_ip", "neg_dns",
                           "ps_connect", "datachannel", "setup"}
      /\ Asking = DOMAIN Request \cup {"wait_ready", "initialize"}
      /\ Listening = {"mode_wait", "attach_wait"}
      /\ Connecting = {"ps_connect", "datachannel", "setup"}
  BY StepsListed DEF Asking, Listening, Connecting
<1>1. CASE UNCHANGED <<step, issued, nextInit, configured, exit, call, ret>>
  BY <1>1 DEF Control, CallsOf
<1>2. CASE Environment
  BY <1>1, <1>2, EnvironmentEffect DEF clientVars
<1>3. CASE CallProgress \/ Tick
  <2>1. /\ UNCHANGED <<step, issued, nextInit, configured, exit>>
        /\ P!GoesOn \/ P!Fails \/ P!HandsBack \/ P!StartsOver
    BY <1>3, WorkEffect
  <2>2. CASE P!GoesOn
    BY <1>1, <2>1, <2>2 DEF P!GoesOn
  <2>3. CASE P!Fails \/ P!HandsBack \/ P!StartsOver
    <3>1. call # "idle" /\ call' = "idle" /\ ret'.of = call
      BY <2>3 DEF P!Fails, P!HandsBack, P!StartsOver
    <3> QED BY <2>1, <3>1 DEF Control, CallsOf
  <2> QED BY <2>1, <2>2, <2>3
<1>4. CASE Probe \/ Initialize \/ Ask
  <2>1. /\ ~issued /\ issued' = TRUE /\ call = "idle" /\ step \in Asking
        /\ UNCHANGED <<step, nextInit, configured, exit>>
        /\ call' = "execute" \/ (call' = "idle" /\ ret'.of = "execute")
    <3>1. /\ ~issued /\ issued' = TRUE /\ call = "idle" /\ step \in Asking
          /\ UNCHANGED <<step, nextInit, configured, exit>>
          /\ Wrote(Asked) \/ NotWritten
      BY <1>4, AskEffect
    <3>2. Wrote(Asked) => call' = "execute"
      BY DEF Wrote
    <3>3. NotWritten => call' = call /\ ret'.of = "execute"
      BY DEF NotWritten
    <3> QED BY <3>1, <3>2, <3>3
  <2>2. "execute" \in CallsOf(step) /\ step # "exited"
    BY <1>s, <2>1 DEF CallsOf
  <2> QED BY <2>1, <2>2 DEF Control, CallsOf
<1>5. CASE ModeWaits \/ AttachWaits
  <2>1. /\ ~issued /\ issued' = TRUE /\ call' = "recv" /\ step \in Listening
        /\ UNCHANGED <<step, nextInit, configured, exit>>
    BY <1>5, ListenEffect
  <2>2. "recv" \in CallsOf(step) /\ step # "exited"
    BY <1>s, <2>1 DEF CallsOf
  <2> QED BY <2>1, <2>2 DEF Control, CallsOf
<1>6. CASE ProbeTimesOut
  <2>1. /\ issued /\ step = "wait_ready" /\ call = "idle"
        /\ UNCHANGED <<step, issued, nextInit, configured, exit>>
        /\ call' = "reopen" \/ (call' = "idle" /\ ret'.of = "reopen")
    BY <1>6, ReopenEffect
  <2>2. "reopen" \in CallsOf(step)
    BY <2>1 DEF CallsOf, Listening
  <2> QED BY <2>1, <2>2 DEF Control, CallsOf
<1>7. CASE Decides
  <2>1. /\ step # "exited" /\ call = "idle" /\ UNCHANGED <<rpcVars, modem>>
        /\ Exits \/ Advances \/ Hears \/ DoesWithout \/ GoesOnAlone
        /\ configured' \in Nat
    <3>1. configured' \in Nat
      BY <1>7, ClientTypeDecides, NetPlanLength DEF ClientTypeOK
    <3> QED BY <1>7, <3>1, DecidesEffect
  <2>2. call' = call /\ ret' = ret
    BY <2>1 DEF rpcVars
  <2>3. CASE Exits
    <3>1. exit' # "running" /\ step' = "exited" /\ configured' = configured
      BY <2>3 DEF Exits
    <3>2. "exited" \notin Connecting
      BY <1>s
    <3> QED BY <2>1, <2>2, <3>1, <3>2 DEF Control
  <2>4. CASE Advances
    <3>1. /\ Follows /\ issued' = FALSE /\ exit' = exit /\ configured' = configured
          /\ step # "initialize" => nextInit' = nextInit
      BY <2>4 DEF Advances
    <3>2. /\ step' # "exited" /\ step' # "wait_ready" /\ step # "configure"
          /\ step' \in Connecting => step \in Connecting
          /\ step \in Connecting => step' \in Connecting
      BY <1>s, <3>1 DEF Follows
    <3> QED BY <2>1, <2>2, <3>1, <3>2 DEF Control
  <2>5. CASE Hears \/ DoesWithout
    <3>1. /\ issued' = FALSE /\ exit' = exit /\ configured' = configured /\ nextInit' = nextInit
          /\ step' \in {"mode_wait", "attach_wait", "version", "apn_config"}
          /\ step \in {"mode_wait", "attach_wait", "version"}
      BY <1>s, <2>5 DEF Hears, DoesWithout
    <3> QED BY <1>s, <2>1, <2>2, <3>1 DEF Control
  <2>6. CASE GoesOnAlone
    BY <1>s, <2>1, <2>2, <2>6 DEF GoesOnAlone, Control
  <2> QED BY <2>1, <2>3, <2>4, <2>5, <2>6
<1>8. CASE UNCHANGED vars
  BY <1>1, <1>8 DEF vars, clientVars, rpcVars
<1> QED BY <1>2, <1>3, <1>4, <1>5, <1>6, <1>7, <1>8, StepKinds

\* The answer in hand is the one settled last; it is the answer to the last request,
\* and nothing else is under way, unless it is the one left behind.
LEMMA AnswerInHand ==
    ASSUME TransportInv, OneBehind, HasAnswer
    PROVE  /\ P!IsResponse(ret.msg) /\ Expected(ret.msg.req, ret.msg.code)
           /\ ~failed \/ ret.msg.code \notin Leftover(step) =>
                ret.msg.req = sent /\ ret.msg.code = Asked /\ P!Alive = {}
<1>1. P!UnderWay
  BY TransportAssumption, P!OrderUnderWay DEF TransportInv
<1>2. P!IsResponse(ret.msg) /\ ret.msg.req = settled
  BY DEF HasAnswer, Executed, TransportInv, P!ReturnInv
<1>3. Expected(ret.msg.req, ret.msg.code)
  BY DEF OneBehind
<1>4. ASSUME ~failed \/ ret.msg.code \notin Leftover(step)
      PROVE  ret.msg.req = sent /\ ret.msg.code = Asked
  <2>1. ~failed => settled = sent
    BY DEF HasAnswer, Executed, TransportInv, P!OrderInv, P!InStep
  <2>2. sent # sent - 1
    BY <1>1 DEF P!UnderWay
  <2> QED BY <1>2, <1>3, <1>4, <2>1, <2>2 DEF Expected
<1>5. settled = sent => P!Alive = {}
  BY <1>1 DEF P!UnderWay
<1> QED BY <1>2, <1>3, <1>4, <1>5

\* The program is at most one request ahead of the answers.
LEMMA OneBehindStep ==
    TransportInv /\ TransportInv' /\ ClientTypeOK /\ Control /\ OneBehind /\ [Next]_vars
        => OneBehind'
<1> SUFFICES ASSUME TransportInv, TransportInv', ClientTypeOK, Control, OneBehind, [Next]_vars
             PROVE  OneBehind'
  OBVIOUS
<1>s. /\ DOMAIN Request = {"fcc_query", "fcc_challenge", "fcc_answer", "set_mode", "version",
                           "apn_config", "attach", "attach_again", "neg_ip", "neg_dns",
                           "ps_connect", "datachannel", "setup"}
      /\ Asking = DOMAIN Request \cup {"wait_ready", "initialize"}
      /\ Listening = {"mode_wait", "attach_wait"}
  BY StepsListed DEF Asking, Listening
<1>u. P!UnderWay /\ P!UnderWay'
  BY TransportAssumption, P!OrderUnderWay, P!OrderUnderWayAfter DEF TransportInv
<1>n. sent \in Nat /\ sent # sent + 1 /\ (sent + 1) - 1 = sent
  BY <1>u DEF P!UnderWay
<1>1. CASE UNCHANGED <<step, issued, nextInit, call, ret, sent>> /\ P!Alive' \subseteq P!Alive
  BY <1>1 DEF OneBehind, Executing, Executed, HasAnswer, Between, Expected, Asked
<1>2. CASE Environment
  BY <1>1, <1>2, EnvironmentEffect DEF clientVars
<1>3. CASE CallProgress \/ Tick
  <2>1. /\ UNCHANGED <<step, issued, nextInit, exit, sent>>
        /\ P!Messages' \subseteq P!Messages /\ P!Alive' \subseteq P!Alive
        /\ P!GoesOn \/ P!Fails \/ P!HandsBack \/ P!StartsOver
    BY <1>3, WorkEffect
  <2>2. CASE P!GoesOn
    BY <1>1, <2>1, <2>2 DEF P!GoesOn
  <2>a. Asked' = Asked
    BY <2>1 DEF Asked
  <2>3. CASE P!Fails
    <3>1. call \in {"execute", "recv"} /\ call' = "idle" /\ ret'.of = call /\ ret'.status # "ok"
      BY <2>3 DEF P!Fails
    <3>2. ASSUME NEW x \in P!Alive', Executed'
          PROVE  /\ x.code \in {Asked} \cup Leftover(step)
                 /\ step = "version" => x.req = sent /\ x.code = Asked
      <4>1. Executing
        BY <2>1, <3>1, <3>2 DEF Executed, Executing
      <4> QED BY <2>1, <3>2, <4>1 DEF OneBehind, Expected, Leftover
    <3>3. ~HasAnswer' /\ ~Executing'
      BY <3>1 DEF HasAnswer, Executing
    <3>4. Between' => Between
      BY <2>1, <3>1 DEF Between
    <3> QED BY <2>1, <2>a, <3>2, <3>3, <3>4 DEF OneBehind, Expected
  <2>4. CASE P!HandsBack
    <3>1. PICK m \in P!Messages :
            /\ call \in {"execute", "recv"} /\ call' = "idle"
            /\ call = "execute" => P!IsResponse(m)
            /\ ret' = [of |-> call, status |-> "ok", msg |-> m]
            /\ settled' = IF P!IsResponse(m) THEN m.req ELSE settled
      BY <2>4 DEF P!HandsBack
    <3>2. ret'.of = call /\ ret'.msg = m
      BY <3>1
    <3>3. ~Executing' /\ (HasAnswer' => Executed')
      BY <3>1 DEF Executing, HasAnswer
    <3>4. Between' => Between
      BY <2>1, <3>1, <3>2 DEF Between
    <3>5. ASSUME Executed'
          PROVE  /\ Expected(m.req, m.code)
                 /\ \A x \in P!Alive' : x.req = sent /\ x.code = Asked
      <4>1. Executing /\ P!IsResponse(m)
        BY <2>1, <3>1, <3>2, <3>5 DEF Executed, Executing
      <4>2. [req |-> m.req, code |-> m.code] \in P!Alive
        BY <4>1 DEF P!Alive
      <4>3. Expected(m.req, m.code)
        BY <4>1, <4>2 DEF OneBehind, Expected
      <4>4. ASSUME NEW x \in P!Alive'
            PROVE  x.req = sent /\ x.code = Asked
        <5>1. Expected(x.req, x.code)
          BY <2>1, <4>1 DEF OneBehind, Expected
        <5>2. m.req < x.req /\ x.req <= sent
          BY <1>u, <2>1, <3>1, <4>1 DEF P!UnderWay
        <5> QED BY <1>n, <4>3, <5>1, <5>2 DEF Expected
      <4> QED BY <4>3, <4>4
    <3> QED BY <2>1, <2>a, <3>2, <3>3, <3>4, <3>5 DEF OneBehind, Expected
  <2>5. CASE P!StartsOver
    <3>1. call' = "idle" /\ ret'.of = "reopen" /\ P!Alive' = {}
      BY <2>5 DEF P!StartsOver
    <3> QED BY <3>1 DEF OneBehind, Expected, HasAnswer, Executed
  <2> QED BY <2>1, <2>2, <2>3, <2>4, <2>5
<1>4. CASE Probe \/ Initialize \/ Ask
  <2>1. /\ ~issued /\ issued' = TRUE /\ call = "idle" /\ step \in Asking
        /\ UNCHANGED <<step, nextInit>>
        /\ Wrote(Asked) \/ NotWritten
    BY <1>4, AskEffect
  <2>2. Between /\ ~Between'
    BY <1>s, <2>1 DEF Between, Wrote, NotWritten
  <2>a. Asked' = Asked /\ Leftover(step') = Leftover(step)
    BY <2>1 DEF Asked
  <2>3. CASE Wrote(Asked)
    <3>1. call' = "execute" /\ sent' = sent + 1
          /\ P!Alive' = P!Alive \cup {[req |-> sent + 1, code |-> Asked]}
      BY <2>3 DEF Wrote
    <3>2. ~Executed' /\ ~HasAnswer'
      BY <3>1 DEF Executed, HasAnswer
    <3>3. \A x \in P!Alive' :
            \/ x.req = sent' /\ x.code = Asked'
            \/ x.req = sent' - 1 /\ x.code \in Leftover(step')
      <4> TAKE x \in P!Alive'
      <4>1. CASE x \in P!Alive
        <5>1. x.req = sent /\ x.code \in Leftover(step)
          BY <2>2, <4>1 DEF OneBehind
        <5> QED BY <1>n, <2>a, <3>1, <5>1
      <4>2. CASE x = [req |-> sent + 1, code |-> Asked]
        BY <2>a, <3>1, <4>2 DEF Expected
      <4> QED BY <3>1, <4>1, <4>2
    <3> QED BY <2>2, <3>2, <3>3 DEF OneBehind, Expected
  <2>4. CASE NotWritten
    <3>1. call' = "idle" /\ ret'.of = "execute" /\ ret'.status # "ok" /\ sent' = sent
          /\ P!Alive' = P!Alive
      BY <2>1, <2>4 DEF NotWritten
    <3>2. ~Executing' /\ ~HasAnswer'
      BY <3>1 DEF Executing, HasAnswer
    <3>3. \A x \in P!Alive' : x.code \in Leftover(step)
      BY <2>2, <3>1 DEF OneBehind, Expected
    <3>4. step = "version" => P!Alive' = {}
      BY <3>3 DEF Leftover
    <3> QED BY <2>2, <2>1, <2>a, <3>2, <3>3, <3>4 DEF OneBehind, Expected
  <2> QED BY <2>1, <2>3, <2>4
<1>5. CASE ModeWaits \/ AttachWaits
  <2>1. /\ step \in Listening /\ UNCHANGED <<step, sent, P!Alive>>
    BY <1>5, ListenEffect
  <2>2. Between /\ ~Executing' /\ ~Executed' /\ ~HasAnswer'
    BY <1>s, <2>1 DEF Between, Executing, Executed, HasAnswer
  <2> QED BY <2>1, <2>2 DEF OneBehind, Expected
<1>6. CASE ProbeTimesOut
  <2>1. /\ step' = "wait_ready" /\ issued'
        /\ call' = "reopen" \/ (ret'.of = "reopen" /\ ret'.status = "error")
    BY <1>6, ReopenEffect
  <2>2. ~Executing' /\ ~Executed' /\ ~HasAnswer' /\ ~Between'
    <3>1. call' = "reopen" => call' # "execute" /\ call' # "idle"
      OBVIOUS
    <3>2. ret'.of = "reopen" => call' # "execute"
      <4>1. call' = "reopen" \/ call' = "idle"
        BY <1>6, ReopenEffect
      <4> QED BY <4>1
    <3> QED BY <1>s, <2>1, <3>1, <3>2 DEF Executing, Executed, HasAnswer, Between
  <2> QED BY <2>2 DEF OneBehind, Expected
<1>7. CASE Decides
  <2>1. /\ step # "exited" /\ call = "idle" /\ UNCHANGED rpcVars
        /\ Exits \/ Advances \/ Hears \/ DoesWithout \/ GoesOnAlone
    BY <1>7, DecidesEffect
  <2>2. UNCHANGED <<call, ret, sent>> /\ P!Alive' = P!Alive
    BY <2>1 DEF rpcVars, P!Alive, P!Messages
  <2>3. CASE Exits
    <3>1. step' = "exited"
      BY <2>3 DEF Exits
    <3> QED BY <1>s, <3>1 DEF OneBehind, Expected, Executing, Executed, HasAnswer, Between
  <2>4. ASSUME ~issued', step' # "exited",
               \A x \in P!Alive : x.req = sent /\ x.code \in Leftover(step')
        PROVE  OneBehind'
    BY <2>2, <2>4 DEF OneBehind, Expected, Executing, Executed, HasAnswer
  <2>5. CASE Advances
    <3>1. HasAnswer /\ Follows /\ issued' = FALSE
      BY <2>5 DEF Advances
    <3>2. \A x \in P!Alive : x.req = sent /\ x.code = Asked
      BY <3>1 DEF OneBehind, Expected
    <3>3. CASE step \in {"apn_config", "attach", "attach_again"}
      <4>1. Asked \in Leftover(step') /\ step' # "exited"
        BY <3>1, <3>3, AskedIs DEF Follows, Leftover
      <4> QED BY <2>4, <3>1, <3>2, <4>1
    <3>4. CASE step \notin {"apn_config", "attach", "attach_again"}
      <4>1. ret.msg.code \notin Leftover(step)
        BY <2>5, <3>1, <3>4 DEF Follows, Leftover, Advances
      <4>2. P!Alive = {}
        BY <3>1, <4>1, AnswerInHand
      <4>3. step' # "exited"
        BY <3>1 DEF Follows
      <4> QED BY <2>4, <3>1, <4>2, <4>3
    <3> QED BY <3>3, <3>4
  <2>6. CASE Hears
    <3>1. Between /\ issued' = FALSE /\ step' # "exited"
          /\ (step' = step \/ (step = "mode_wait" /\ step' = "version"))
      BY <1>s, <2>6 DEF Hears, Between
    <3>2. Leftover("mode_wait") = {}
      BY DEF Leftover
    <3> QED BY <2>4, <3>1, <3>2 DEF OneBehind, Expected
  <2>7. CASE DoesWithout
    <3>1. step = "version" /\ step' = "apn_config" /\ Executed /\ issued' = FALSE
      BY <2>7 DEF DoesWithout
    <3>2. Asked = UTA_SYS_GET_INFO /\ Leftover(step') = {UTA_SYS_GET_INFO}
      BY <3>1, AskedIs DEF Leftover
    <3> QED BY <2>4, <3>1, <3>2 DEF OneBehind, Expected
  <2>8. CASE GoesOnAlone
    <3>1. Between /\ issued' = FALSE /\ step' # "exited"
      BY <1>s, <2>1, <2>8 DEF GoesOnAlone, Between, Control
    <3>2. Leftover(step') = Leftover(step)
      BY <2>8 DEF GoesOnAlone, Leftover
    <3> QED BY <2>4, <3>1, <3>2 DEF OneBehind, Expected
  <2> QED BY <2>1, <2>3, <2>5, <2>6, <2>7, <2>8
<1>8. CASE UNCHANGED vars
  BY <1>1, <1>8 DEF vars, clientVars, rpcVars, P!Alive, P!Messages
<1> QED BY <1>2, <1>3, <1>4, <1>5, <1>6, <1>7, <1>8, StepKinds

\* The program makes no message up: what it sees is what the modem had said.
LEMMA ProgramSeen ==
    ASSUME TransportInv, ClientTypeOK, [Next]_vars, ~Environment
    PROVE  /\ modem' = modem /\ sent' \in {sent, sent + 1}
           /\ P!Seen' \subseteq P!Seen \cup {P!NoMessage}
<1>0. P!NoReturn.msg = P!NoMessage
  BY TransportAssumption, P!NoMessageQuiet
<1>1. ASSUME P!Messages' \subseteq P!Messages,
             ret'.msg \in P!Seen \cup {P!NoMessage}
      PROVE  P!Seen' \subseteq P!Seen \cup {P!NoMessage}
  BY <1>1 DEF P!Seen
<1>2. CASE CallProgress \/ Tick
  <2>1. /\ modem' = modem /\ sent' = sent /\ P!Messages' \subseteq P!Messages
        /\ P!GoesOn \/ P!Fails \/ P!HandsBack \/ P!StartsOver
    BY <1>2, WorkEffect
  <2>2. ret'.msg \in P!Seen \cup {P!NoMessage}
    BY <2>1 DEF P!GoesOn, P!Fails, P!HandsBack, P!StartsOver, P!Seen
  <2> QED BY <1>1, <2>1, <2>2
<1>3. CASE Probe \/ Initialize \/ Ask
  <2>1. modem' = modem /\ P!Messages' = P!Messages /\ (Wrote(Asked) \/ NotWritten)
    BY <1>3, AskEffect
  <2>2. sent' \in {sent, sent + 1} /\ ret'.msg = P!NoMessage
    BY <1>0, <2>1 DEF Wrote, NotWritten
  <2> QED BY <1>1, <2>1, <2>2
<1>4. CASE ModeWaits \/ AttachWaits
  <2>1. modem' = modem /\ P!Messages' = P!Messages /\ sent' = sent /\ ret' = P!NoReturn
    BY <1>4, ListenEffect
  <2> QED BY <1>0, <1>1, <2>1
<1>5. CASE ProbeTimesOut
  <2>1. /\ modem' = modem /\ P!Messages' \subseteq P!Messages /\ sent' = sent
        /\ \/ ret' = P!NoReturn
           \/ ret' = [of |-> "reopen", status |-> "error", msg |-> P!NoMessage]
    BY <1>5, ReopenEffect
  <2>2. ret'.msg = P!NoMessage
    BY <1>0, <2>1
  <2> QED BY <1>1, <2>1, <2>2
<1>6. CASE Decides \/ UNCHANGED vars
  <2>1. UNCHANGED <<rpcVars, modem>>
    BY <1>6, DecidesAlone DEF vars
  <2>2. P!Messages' = P!Messages /\ ret' = ret /\ sent' = sent
    BY <2>1 DEF rpcVars, P!Messages
  <2>3. ret'.msg \in P!Seen
    BY <2>2 DEF P!Seen
  <2> QED BY <1>1, <2>1, <2>2, <2>3
<1> QED BY <1>2, <1>3, <1>4, <1>5, <1>6, StepKinds

\* Nothing it sees is untrue of the modem: it was true when it was said, and the modem
\* does nothing that takes it back without being asked.
LEMMA TruthfulStep ==
    TransportInv /\ ClientTypeOK /\ Truthful /\ [Next]_vars => Truthful'
<1> SUFFICES ASSUME TransportInv, ClientTypeOK, Truthful, [Next]_vars PROVE Truthful'
  OBVIOUS
<1>u. sent \in Nat /\ \A m \in P!Seen : P!IsResponse(m) => m.req \in Nat /\ m.req <= sent
  <2>1. P!UnderWay
    BY TransportAssumption, P!OrderUnderWay DEF TransportInv
  <2>2. sent \in Nat /\ settled \in Nat /\ settled <= sent
    BY <2>1 DEF P!UnderWay
  <2>3. \A m \in P!Messages : m.req \in Nat /\ m.req <= sent
    BY <2>1 DEF P!UnderWay, P!MessageUpTo
  <2>4. P!IsResponse(ret.msg) => ret.msg.req = settled
    BY DEF TransportInv, P!ReturnInv
  <2> QED BY <2>2, <2>3, <2>4 DEF P!Seen
<1>t. /\ modem \in Modem /\ (modem.radio => modem.modeRsp = "sent")
      /\ \A m \in P!Seen : Honest(m) /\ UpToDate(m)
  BY DEF Truthful
<1>m. UTA_MODE_SET_RSP_CB \notin Commands
  <2>1. \A c \in Commands : c \in {1, 48, 37, 83, 36, 58, 38, 431, 92, 73, 71, 81, 126, 125, 303,
                                    124, 398, 400, 402}
    <3>2. \A s \in DOMAIN Request :
            Request[s].cmd \in {431, 92, 73, 71, 81, 126, 125, 303, 124, 398, 400, 402}
      BY DEF Request, CSI_FCC_LOCK_QUERY_REQ, CSI_FCC_LOCK_GEN_CHALLENGE_REQ,
             CSI_FCC_LOCK_VER_CHALLENGE_REQ, UTA_MODE_SET_REQ, UTA_SYS_GET_INFO,
             UTA_MS_CALL_PS_ATTACH_APN_CONFIG_REQ, UTA_MS_NET_ATTACH_REQ,
             UTA_MS_CALL_PS_GET_NEG_IP_ADDR_REQ, UTA_MS_CALL_PS_GET_NEGOTIATED_DNS_REQ,
             UTA_MS_CALL_PS_CONNECT_REQ, UTA_RPC_PS_CONNECT_TO_DATACHANNEL_REQ,
             UTA_RPC_PS_CONNECT_SETUP_REQ
    <3> QED BY <3>2, InitCommandsListed, InitCommandsType DEF Commands
  <2> QED BY <2>1 DEF UTA_MODE_SET_RSP_CB
<1>1. CASE ~Environment
  <2>1. /\ modem' = modem /\ sent' \in {sent, sent + 1}
        /\ P!Seen' \subseteq P!Seen \cup {P!NoMessage}
    BY <1>1, ProgramSeen
  <2>2. ~P!IsResponse(P!NoMessage) /\ P!NoMessage.code # UTA_MODE_SET_RSP_CB
    BY TransportAssumption, P!NoMessageQuiet DEF P!NoMessage, UTA_MODE_SET_RSP_CB
  <2>3. ASSUME NEW m \in P!Seen' PROVE Honest(m)' /\ UpToDate(m)'
    <3>1. CASE m = P!NoMessage
      BY <2>2, <3>1 DEF Honest, UpToDate
    <3>2. CASE m \in P!Seen
      <4>1. Honest(m) /\ UpToDate(m)
        BY <1>t, <3>2
      <4>2. P!IsResponse(m) /\ m.req = sent' => m.req = sent
        BY <1>u, <2>1, <3>2
      <4> QED BY <2>1, <4>1, <4>2 DEF Honest, UpToDate
    <3> QED BY <2>1, <3>1, <3>2
  <2> QED BY <1>t, <2>1, <2>3 DEF Truthful, Modem
<1>e. CASE Environment
  <2>1. sent' = sent /\ (ServesOne \/ Reports \/ StaysAsItIs)
    BY <1>e, EnvironmentEffect
  <2>2. CASE ServesOne
    <3>1. PICK p \in P!Range(fwq), arg \in Words :
            /\ p.cmd \in Commands /\ Serves(p.cmd, arg) /\ p.req <= sent
            /\ [req |-> p.req, code |-> p.cmd] \in P!Alive
            /\ \A m \in P!Seen : P!IsResponse(m) => m.req < p.req
            /\ \A m \in P!Seen' :
                m \in P!Seen \/ (m.req = p.req /\ m.code = p.cmd /\ m.arg = arg)
      BY <2>2 DEF ServesOne
    <3>2. /\ modem' \in Modem
          /\ modem.served \subseteq modem'.served /\ modem'.radio = modem.radio
          /\ modem.modeRsp = "sent" => modem'.modeRsp = "sent"
          /\ \/ p.cmd \in modem'.served
             \/ p.cmd = CSI_FCC_LOCK_VER_CHALLENGE_REQ /\ arg = 0
             \/ p.cmd = UTA_MODE_SET_REQ /\ arg = 1
             \/ p.cmd = UTA_MS_NET_ATTACH_REQ /\ arg = U32Max
          /\ p.cmd = UTA_MS_NET_ATTACH_REQ /\ arg = U32Max => ~modem'.attached
          /\ p.cmd = UTA_MS_CALL_PS_GET_NEG_IP_ADDR_REQ =>
                IF arg = 0 THEN ~modem'.address ELSE modem'.attached /\ modem'.address
      BY <1>t, <3>1, ServesEffect
    <3>3. p.req \in Nat
      <4>1. P!UnderWay
        BY TransportAssumption, P!OrderUnderWay DEF TransportInv
      <4> QED BY <3>1, <4>1 DEF P!UnderWay
    <3>4. ASSUME NEW m \in P!Seen' PROVE Honest(m)' /\ UpToDate(m)'
      <4>1. CASE m \in P!Seen
        <5>1. Honest(m)
          BY <1>t, <4>1
        <5>2. ~(P!IsResponse(m) /\ m.req = sent')
          BY <1>u, <2>1, <3>1, <3>3, <4>1
        <5> QED BY <3>2, <5>1, <5>2 DEF Honest, UpToDate
      <4>2. CASE m.req = p.req /\ m.code = p.cmd /\ m.arg = arg
        <5>1. ~Refusal(m) => m.code \in modem'.served
          BY <3>2, <4>2 DEF Refusal
        <5>2. m.code # UTA_MODE_SET_RSP_CB
          BY <1>m, <3>1, <4>2
        <5>3. UpToDate(m)'
          BY <3>2, <4>2 DEF UpToDate
        <5> QED BY <5>1, <5>2, <5>3 DEF Honest
      <4> QED BY <3>1, <4>1, <4>2
    <3> QED BY <1>t, <3>2, <3>4 DEF Truthful
  <2>3. CASE Reports
    <3>1. /\ modem' = [modem EXCEPT !.modeRsp = "sent", !.radio = ~modem.locked]
          /\ ~modem.radio
      BY <1>t, <2>3 DEF Reports
    <3>2. /\ modem' \in Modem /\ modem'.modeRsp = "sent"
          /\ modem'.served = modem.served /\ modem'.attached = modem.attached
          /\ modem'.address = modem.address
      BY <1>t, <3>1 DEF Modem
    <3>3. modem'.radio = ~modem.locked
      BY <1>t, <3>1 DEF Modem
    <3>4. ASSUME NEW m \in P!Seen' PROVE Honest(m)' /\ UpToDate(m)'
      <4>1. CASE m \in P!Seen
        <5>1. Honest(m) /\ UpToDate(m)
          BY <1>t, <4>1
        <5> QED BY <2>1, <3>1, <3>2, <5>1 DEF Honest, UpToDate
      <4>2. CASE /\ ~P!IsResponse(m) /\ m.code = UTA_MODE_SET_RSP_CB
                 /\ m.arg = IF modem.locked THEN 0 ELSE 1
        <5>1. m.arg = 1 => modem'.radio
          <6>1. m.arg = 1 => ~modem.locked
            BY <4>2
          <6> QED BY <3>3, <6>1, Zenon
        <5> QED BY <4>2, <5>1 DEF Honest, UpToDate
      <4> QED BY <2>3, <4>1, <4>2 DEF Reports
    <3> QED BY <3>2, <3>4 DEF Truthful
  <2>4. CASE StaysAsItIs
    <3>1. ASSUME NEW m \in P!Seen' PROVE Honest(m)' /\ UpToDate(m)'
      BY <1>t, <2>1, <2>4 DEF StaysAsItIs, Honest, UpToDate
    <3> QED BY <1>t, <2>4, <3>1 DEF StaysAsItIs, Truthful
  <2> QED BY <2>1, <2>2, <2>3, <2>4
<1> QED BY <1>1, <1>e

\* The modem does not go back on what it has served, nor on the radio; and once the
\* program waits for no answer on the address, not on the address either.
LEMMA EnvironmentModem ==
    ASSUME TransportInv, ClientTypeOK, Control, OneBehind, Truthful, Environment
    PROVE  /\ modem.served \subseteq modem'.served /\ (modem.radio => modem'.radio)
           /\ step \in {"neg_dns", "configure"} \cup Connecting =>
                modem'.attached = modem.attached /\ modem'.address = modem.address
<1>t. modem \in Modem /\ (modem.radio => modem.modeRsp = "sent")
  BY DEF Truthful
<1>1. CASE Reports \/ StaysAsItIs
  BY <1>t, <1>1 DEF Reports, StaysAsItIs, Modem
<1>2. CASE ServesOne
  <2>1. PICK p \in P!Range(fwq), arg \in Words :
          /\ p.cmd \in Commands /\ Serves(p.cmd, arg)
          /\ [req |-> p.req, code |-> p.cmd] \in P!Alive
    BY <1>2 DEF ServesOne
  <2>2. /\ modem.served \subseteq modem'.served /\ modem'.radio = modem.radio
        /\ p.cmd # UTA_MS_NET_ATTACH_REQ => modem'.attached = modem.attached
        /\ p.cmd # UTA_MS_CALL_PS_GET_NEG_IP_ADDR_REQ => modem'.address = modem.address
    BY <1>t, <2>1, ServesEffect
  <2>3. ASSUME step \in {"neg_dns", "configure"} \cup Connecting
        PROVE  p.cmd \notin {UTA_MS_NET_ATTACH_REQ, UTA_MS_CALL_PS_GET_NEG_IP_ADDR_REQ}
    <3>1. Leftover(step) = {}
      BY <2>3 DEF Leftover, Connecting
    <3>2. Executing \/ Executed \/ Between
      BY <2>3, StepsListed
      DEF Control, Executing, Executed, Between, CallsOf, Asking, Listening, Connecting
    <3>3. p.cmd = Asked /\ step \in Asking
      <4>1. p.cmd = Asked /\ ~Between
        BY <2>1, <3>1, <3>2 DEF OneBehind, Expected
      <4> QED BY <2>3, <3>2, <4>1 DEF Executing, Executed
    <3> QED BY <2>3, <3>3, RefusalsAre DEF Connecting
  <2> QED BY <2>2, <2>3
<1> QED BY <1>1, <1>2, EnvironmentEffect

\* As long as no request was left behind, every step comes after those it relies on.
LEMMA InTurnStep ==
    TransportInv /\ ClientTypeOK /\ Control /\ OneBehind /\ Truthful /\ InTurn /\ [Next]_vars
        => InTurn'
<1> SUFFICES ASSUME TransportInv, ClientTypeOK, Control, OneBehind, Truthful, InTurn, [Next]_vars
             PROVE  InTurn'
  OBVIOUS
<1>1. ASSUME UNCHANGED <<step, issued, nextInit, call, ret, failed>>, up' => up,
             modem.served \subseteq modem'.served
      PROVE  InTurn'
  BY <1>1 DEF InTurn, Before, Unplugged
<1>2. CASE Environment
  <2>1. UNCHANGED <<step, issued, nextInit, call, ret, failed>> /\ (up' => up)
    BY <1>2, EnvironmentEffect DEF clientVars
  <2> QED BY <1>1, <1>2, <2>1, EnvironmentModem
<1>3. CASE CallProgress \/ Tick
  <2>1. /\ UNCHANGED <<step, issued, nextInit, modem, up>>
        /\ P!GoesOn \/ P!Fails \/ P!HandsBack \/ P!StartsOver
    BY <1>3, WorkEffect
  <2>2. CASE P!GoesOn
    BY <1>1, <2>1, <2>2 DEF P!GoesOn
  <2>3. CASE P!Fails \/ P!HandsBack
    <3>1. failed => failed'
      <4>1. failed' = (failed \/ call = "execute") \/ failed' = failed
        BY <2>3 DEF P!Fails, P!HandsBack
      <4> QED BY <4>1, Zenon
    <3>2. call # "idle"
      BY <2>3 DEF P!Fails, P!HandsBack
    <3> QED BY <2>1, <3>1, <3>2 DEF InTurn, Before, Unplugged
  <2>4. CASE P!StartsOver
    <3>1. step' = "wait_ready"
      BY <2>1, <2>4 DEF P!StartsOver, Control, CallsOf
    <3> QED BY <3>1 DEF InTurn, Before
  <2> QED BY <2>1, <2>2, <2>3, <2>4
<1>4. CASE Probe \/ Initialize \/ Ask
  <2>1. /\ ~issued /\ call = "idle" /\ UNCHANGED <<step, nextInit, modem, up, failed>>
        /\ Wrote(Asked) \/ NotWritten
    BY <1>4, AskEffect
  <2>2. Wrote(Asked) => ~Unplugged
    BY DEF Wrote, Unplugged
  <2>3. NotWritten /\ Unplugged => Unplugged'
    BY <2>1 DEF NotWritten, Unplugged
  <2> QED BY <2>1, <2>2, <2>3 DEF InTurn, Before
<1>5. CASE ModeWaits \/ AttachWaits
  <2>1. UNCHANGED <<step, nextInit, modem, failed>> /\ step \in Listening
    BY <1>5, ListenEffect
  <2> QED BY <2>1 DEF InTurn, Before, Unplugged, Listening
<1>6. CASE ProbeTimesOut
  <2>1. step' = "wait_ready"
    BY <1>6, ReopenEffect
  <2> QED BY <2>1 DEF InTurn, Before
<1>7. CASE Decides
  <2>1. /\ step # "exited" /\ call = "idle" /\ UNCHANGED <<rpcVars, modem>>
        /\ Exits \/ Advances \/ Hears \/ DoesWithout \/ GoesOnAlone
    BY <1>7, DecidesEffect
  <2>2. UNCHANGED <<up, call, ret, failed, modem>>
    BY <2>1 DEF rpcVars
  <2>3. ASSUME ~failed => Before(step)' \subseteq modem.served PROVE InTurn'
    BY <2>2, <2>3 DEF InTurn
  <2>4. CASE Exits \/ GoesOnAlone
    BY <2>2, <2>4 DEF Exits, GoesOnAlone, InTurn, Before, Unplugged
  <2>5. CASE Advances
    <3> SUFFICES ASSUME ~failed PROVE Before(step)' \subseteq modem.served
      BY <2>3
    <3>1. HasAnswer /\ Follows
      BY <2>5 DEF Advances
    <3>2. Before(step) \subseteq modem.served
      BY <3>1 DEF InTurn, Unplugged, HasAnswer, Executed
    <3>3. P!IsResponse(ret.msg) /\ ret.msg.code = Asked
      BY <3>1, AnswerInHand
    <3>4. step' = "attach_wait" \/ Asked \in modem.served
      <4>1. Honest(ret.msg)
        BY DEF Truthful, P!Seen
      <4> QED BY <2>5, <3>3, <4>1 DEF Honest, Advances
    <3>5. CASE step = "initialize"
      <4>1. Asked = InitCommands[nextInit] /\ nextInit \in 1..7
        BY <3>5, AskedIs, InitCommandsType DEF ClientTypeOK
      <4>2. {InitCommands[i] : i \in 1..nextInit} \cup {CSI_FCC_LOCK_QUERY_REQ}
                \subseteq modem.served
        <5>1. 1..nextInit = 1..(nextInit - 1) \cup {nextInit}
          BY <4>1
        <5>2. InitCommands[nextInit] \in modem.served
          BY <3>1, <3>4, <3>5, <4>1 DEF Follows
        <5> QED BY <3>2, <3>5, <5>1, <5>2 DEF Before
      <4>3. CASE step' = "initialize"
        <5>1. nextInit' - 1 = nextInit
          BY <2>5, <3>5, <4>1, <4>3 DEF Advances
        <5> QED BY <4>2, <4>3, <5>1 DEF Before
      <4>4. CASE step' = "fcc_query"
        <5>1. nextInit = 7
          BY <2>5, <3>5, <4>4 DEF Advances
        <5> QED BY <4>2, <4>4, <5>1 DEF Before, BeforeMode, Inits
      <4> QED BY <3>1, <3>5, <4>3, <4>4 DEF Follows
    <3>6. CASE step = "wait_ready"
      <4>1. step' = "initialize" /\ nextInit' = 1 /\ Asked = CSI_FCC_LOCK_QUERY_REQ
        BY <2>5, <3>1, <3>6, AskedIs DEF Follows, Advances, Control
      <4>2. 1..(nextInit' - 1) = {}
        BY <4>1
      <4> QED BY <3>4, <4>1, <4>2 DEF Before
    <3>7. CASE step \notin {"initialize", "wait_ready"}
      <4>1. CASE step \in {"fcc_query", "fcc_challenge", "fcc_answer"}
        BY <3>1, <3>2, <4>1 DEF Follows, Before
      <4>2. CASE step = "set_mode"
        BY <3>1, <3>2, <3>4, <4>2, AskedIs DEF Follows, Before, BeforeVersion
      <4>3. CASE step = "apn_config"
        BY <3>1, <3>2, <3>4, <4>3, AskedIs DEF Follows, Before, BeforeAttach
      <4>4. CASE step \in {"attach", "attach_again"}
        BY <3>1, <3>2, <3>4, <4>4, AskedIs DEF Follows, Before, BeforeIp
      <4>5. CASE step = "neg_ip"
        BY <3>1, <3>2, <3>4, <4>5, AskedIs DEF Follows, Before, BeforeDns
      <4>6. CASE step = "neg_dns"
        BY <3>1, <3>2, <3>4, <4>6, AskedIs DEF Follows, Before, BeforeDns, BeforeConnect
      <4>7. CASE step \in {"ps_connect", "datachannel"}
        BY <3>1, <3>2, <3>4, <4>7, AskedIs DEF Follows, Before, BeforeChannel, BeforeSetup
      <4> QED BY <3>1, <3>7, <4>1, <4>2, <4>3, <4>4, <4>5, <4>6, <4>7 DEF Follows
    <3> QED BY <3>5, <3>6, <3>7
  <2>6. CASE Hears
    <3>1. Before(step)' = Before(step) /\ ~Unplugged
      BY <2>6 DEF Hears, Listening, Before, Unplugged
    <3> QED BY <2>3, <3>1 DEF InTurn
  <2>7. CASE DoesWithout
    <3>1. step = "version" /\ step' = "apn_config" /\ Executed /\ issued' = FALSE
      BY <2>7 DEF DoesWithout
    <3> SUFFICES ASSUME ~failed PROVE Before(step)' \subseteq modem.served \/ Unplugged'
      BY <2>2 DEF InTurn
    <3>2. BeforeVersion \subseteq modem.served
      BY <3>1 DEF InTurn, Before, Unplugged
    <3>3. CASE ret.status = "ok"
      <4>1. HasAnswer
        BY <3>1, <3>3 DEF HasAnswer
      <4>2. P!IsResponse(ret.msg) /\ ret.msg.code = Asked
        BY <4>1, AnswerInHand
      <4>3. Honest(ret.msg)
        BY DEF Truthful, P!Seen
      <4>4. Asked = UTA_SYS_GET_INFO /\ ~Refusal(ret.msg)
        BY <3>1, <4>2, AskedIs, RefusalsAre, StepsListed DEF Asking
      <4>5. UTA_SYS_GET_INFO \in modem.served
        BY <4>2, <4>3, <4>4 DEF Honest
      <4> QED BY <3>1, <3>2, <4>5 DEF Before, BeforeApn
    <3>4. CASE ret.status # "ok"
      <4>1. ~up
        BY <3>1, <3>4 DEF TransportInv, P!ReturnInv, Executed
      <4> QED BY <2>1, <2>2, <3>1, <4>1 DEF Unplugged
    <3> QED BY <3>3, <3>4
  <2> QED BY <2>1, <2>4, <2>5, <2>6, <2>7
<1>8. CASE UNCHANGED vars
  BY <1>1, <1>8 DEF vars, clientVars, rpcVars
<1> QED BY <1>2, <1>3, <1>4, <1>5, <1>6, <1>7, <1>8, StepKinds

\* What the program has concluded of the radio and of the address stays true.
LEMMA ConcludedStep ==
    TransportInv /\ ClientTypeOK /\ Control /\ OneBehind /\ Truthful /\ Concluded /\ [Next]_vars
        => Concluded'
<1> SUFFICES ASSUME TransportInv, ClientTypeOK, Control, OneBehind, Truthful, Concluded,
                    [Next]_vars
             PROVE  Concluded'
  OBVIOUS
<1>s. /\ Connecting = {"ps_connect", "datachannel", "setup"}
      /\ Listening = {"mode_wait", "attach_wait"}
  BY DEF Connecting, Listening
<1>1. CASE UNCHANGED <<step, kept, modem>>
  BY <1>1 DEF Concluded
<1>2. CASE Environment
  <2>1. UNCHANGED <<step, kept>>
    BY <1>2, EnvironmentEffect DEF clientVars
  <2> QED BY <1>2, <2>1, EnvironmentModem DEF Concluded
<1>3. CASE CallProgress \/ Tick
  BY <1>1, <1>3, WorkEffect
<1>4. CASE Probe \/ Initialize \/ Ask
  BY <1>1, <1>4, AskEffect
<1>5. CASE ModeWaits \/ AttachWaits
  BY <1>1, <1>5, ListenEffect
<1>6. CASE ProbeTimesOut
  BY <1>1, <1>6, ReopenEffect
<1>7. CASE Decides
  <2>1. /\ step # "exited" /\ call = "idle" /\ modem' = modem
        /\ Exits \/ Advances \/ Hears \/ DoesWithout \/ GoesOnAlone
    BY <1>7, DecidesEffect
  <2>2. CASE Exits
    BY <1>s, <2>2 DEF Exits, Concluded
  <2>3. CASE Advances /\ step = "neg_ip"
    <3>1. /\ HasAnswer /\ step' = "neg_dns"
          /\ ret.msg.code \notin Leftover(step)
          /\ ret.msg.code = Asked => (kept' <=> ret.msg.arg # 0)
      BY <2>3 DEF Advances, Follows, Leftover
    <3>2. P!IsResponse(ret.msg) /\ ret.msg.req = sent /\ ret.msg.code = Asked
      BY <3>1, AnswerInHand
    <3>3. UpToDate(ret.msg)
      BY DEF Truthful, P!Seen
    <3>4. IF kept' THEN modem.attached /\ modem.address ELSE ~modem.address
      BY <2>3, <3>1, <3>2, <3>3, AskedIs DEF UpToDate
    <3> QED BY <1>s, <2>1, <2>3, <3>1, <3>4 DEF Concluded
  <2>4. CASE Advances /\ step # "neg_ip"
    <3>1. Follows /\ step' # "neg_dns" /\ (step = "neg_dns" /\ step' = "configure" => kept)
      BY <2>4 DEF Advances, Follows
    <3> QED BY <1>s, <2>1, <2>4, <3>1 DEF Follows, Concluded
  <2>5. CASE Hears
    <3>1. Honest(ret.msg)
      BY DEF Truthful, P!Seen
    <3> QED BY <1>s, <2>1, <2>5, <3>1 DEF Hears, Honest, Concluded
  <2>6. CASE DoesWithout \/ GoesOnAlone
    BY <1>s, <2>1, <2>6 DEF DoesWithout, GoesOnAlone, Concluded
  <2> QED BY <2>1, <2>2, <2>3, <2>4, <2>5, <2>6
<1>8. CASE UNCHANGED vars
  BY <1>1, <1>8 DEF vars, clientVars
<1> QED BY <1>2, <1>3, <1>4, <1>5, <1>6, <1>7, <1>8, StepKinds

\* Once the program has ended, nothing changes any more.
LEMMA EndedStays ==
    ASSUME TransportInv, ClientTypeOK, Control, [Next]_vars, step = "exited"
    PROVE  UNCHANGED <<step, configured, exit, modem, failed>>
<1>0. call = "idle"
  BY DEF Control
<1>1. ~Environment /\ ~Decides /\ ~ProbeTimesOut
  BY EnvironmentEffect, DecidesEffect, ReopenEffect
<1>2. "exited" \notin Asking /\ "exited" \notin Listening
  BY StepsListed DEF Asking, Listening
<1>3. ~(Probe \/ Initialize \/ Ask) /\ ~(ModeWaits \/ AttachWaits)
  BY <1>2, AskEffect, ListenEffect
<1>4. CASE CallProgress \/ Tick
  <2>1. /\ UNCHANGED <<step, configured, exit, modem>>
        /\ P!GoesOn \/ P!Fails \/ P!HandsBack \/ P!StartsOver
    BY <1>4, WorkEffect
  <2>2. P!GoesOn
    BY <1>0, <2>1 DEF P!Fails, P!HandsBack, P!StartsOver
  <2> QED BY <2>1, <2>2 DEF P!GoesOn
<1>5. CASE UNCHANGED vars
  BY <1>5 DEF vars, clientVars, rpcVars
<1> QED BY <1>1, <1>3, <1>4, <1>5, StepKinds

\* When it ends, it ends with what it has concluded.
LEMMA ExitsTrueStep ==
    ASSUME TransportInv, ClientTypeOK, Control, OneBehind, Truthful, InTurn, Concluded,
           ClientTypeOK', Control', Concluded', ExitsTrue, [Next]_vars
    PROVE  ExitsTrue'
<1>1. CASE step = "exited"
  <2>1. UNCHANGED <<step, configured, exit, modem, failed>>
    BY <1>1, EndedStays
  <2> QED BY <2>1 DEF ExitsTrue, NoServiceMeansNone, SuccessMeansUp, HostFollowsModem
<1>2. CASE step' # "exited"
  <2>1. exit' = "running"
    BY <1>2 DEF Control
  <2>2. configured' > 0 => step' \in Connecting \cup {"configure"}
    BY <1>2 DEF Control
  <2>3. HostFollowsModem'
    BY <2>2 DEF HostFollowsModem, Concluded, Connecting
  <2> QED BY <2>1, <2>3 DEF ExitsTrue, NoServiceMeansNone, SuccessMeansUp
<1>3. CASE step # "exited" /\ step' = "exited"
  <2>1. Decides
    BY <1>3, StepKinds, EnvironmentEffect, WorkEffect, AskEffect, ListenEffect, ReopenEffect
    DEF clientVars, vars
  <2>2. /\ call = "idle" /\ UNCHANGED <<rpcVars, modem>>
        /\ Exits \/ Advances \/ Hears \/ DoesWithout \/ GoesOnAlone
    BY <2>1, DecidesEffect
  <2>3. Exits
    BY <1>3, <2>2 DEF Advances, Follows, Hears, Listening, DoesWithout, GoesOnAlone
  <2>4. UNCHANGED <<configured, failed, modem>>
    BY <2>2, <2>3 DEF Exits, rpcVars
  <2>5. HostFollowsModem'
    BY <1>3, <2>4 DEF ExitsTrue, HostFollowsModem
  <2>6. exit' \in {"failure", "success", "refused", "no_ip"}
    BY <2>3 DEF Exits
  <2>7. exit' = "no_ip" => ~modem.address
    BY <2>3 DEF Exits, Concluded
  <2>8. ASSUME exit' = "refused", ~failed PROVE ~modem.attached
    <3>1. /\ step = "attach_again" /\ HasAnswer
          /\ ret.msg.code = Asked => ret.msg.arg = U32Max
      BY <2>3, <2>8 DEF Exits
    <3>2. P!IsResponse(ret.msg) /\ ret.msg.req = sent /\ ret.msg.code = Asked
      BY <2>8, <3>1, AnswerInHand
    <3>3. UpToDate(ret.msg)
      BY DEF Truthful, P!Seen
    <3> QED BY <3>1, <3>2, <3>3, AskedIs DEF UpToDate
  <2>9. ASSUME exit' = "success"
        PROVE  /\ modem.radio /\ modem.attached /\ modem.address
               /\ configured = Len(NetPlan)
               /\ UTA_RPC_PS_CONNECT_SETUP_REQ \in modem.served
               /\ failed \/ Commands \ {CSI_FCC_LOCK_GEN_CHALLENGE_REQ,
                                        CSI_FCC_LOCK_VER_CHALLENGE_REQ} \subseteq modem.served
    <3>1. step = "setup" /\ HasAnswer
      BY <2>3, <2>9 DEF Exits
    <3>2. /\ modem.radio /\ modem.attached /\ modem.address
          /\ configured = Len(NetPlan)
      BY <3>1 DEF Concluded, Control, Connecting
    <3>3. Asked = UTA_RPC_PS_CONNECT_SETUP_REQ /\ Asked \in modem.served
      <4>1. Leftover(step) = {}
        BY <3>1 DEF Leftover
      <4>2. P!IsResponse(ret.msg) /\ ret.msg.code = Asked
        BY <3>1, <4>1, AnswerInHand
      <4>3. Honest(ret.msg)
        BY DEF Truthful, P!Seen
      <4>4. ~Refusal(ret.msg)
        BY <3>1, <4>2, RefusalsAre DEF HasAnswer, Executed
      <4> QED BY <3>1, <4>2, <4>3, <4>4, AskedIs DEF Honest
    <3>4. ~failed => BeforeSetup \subseteq modem.served
      BY <3>1 DEF InTurn, Unplugged, Before
    <3>5. Commands \subseteq BeforeSetup \cup {UTA_RPC_PS_CONNECT_SETUP_REQ,
                CSI_FCC_LOCK_GEN_CHALLENGE_REQ, CSI_FCC_LOCK_VER_CHALLENGE_REQ}
      <4>1. \A i \in DOMAIN InitCommands : InitCommands[i] \in Inits
        BY InitCommandsType DEF Inits
      <4>2. Inits \subseteq BeforeSetup
        BY DEF BeforeSetup, BeforeChannel, BeforeConnect, BeforeDns, BeforeIp, BeforeAttach,
               BeforeApn, BeforeVersion, BeforeMode
      <4>3. \A s \in DOMAIN Request :
                Request[s].cmd \in BeforeSetup \cup {UTA_RPC_PS_CONNECT_SETUP_REQ,
                    CSI_FCC_LOCK_GEN_CHALLENGE_REQ, CSI_FCC_LOCK_VER_CHALLENGE_REQ}
        BY DEF Request, BeforeSetup, BeforeChannel, BeforeConnect, BeforeDns, BeforeIp,
               BeforeAttach, BeforeApn, BeforeVersion, BeforeMode
      <4> QED BY <4>1, <4>2, <4>3 DEF Commands
    <3> QED BY <3>2, <3>3, <3>4, <3>5
  <2>n. NoServiceMeansNone'
    BY <2>4, <2>7, <2>8 DEF NoServiceMeansNone
  <2>s. SuccessMeansUp'
    BY <2>4, <2>9 DEF SuccessMeansUp
  <2> QED BY <2>5, <2>n, <2>s DEF ExitsTrue
<1> QED BY <1>1, <1>2, <1>3

-----------------------------------------------------------------------------
(* The theorems. *)

\* Nothing is under way at first, and nothing is concluded.
LEMMA BringupStarts == Init => BringupInv
<1> SUFFICES ASSUME Init PROVE BringupInv
  OBVIOUS
<1>1. T!Init /\ step = "wait_ready" /\ issued = FALSE /\ nextInit = 1
      /\ remaining = ReadyTimeout /\ kept = FALSE /\ configured = 0 /\ exit = "running"
      /\ \E locked \in Locks :
            modem = [locked |-> locked, radio |-> FALSE, modeRsp |-> "none", refused |-> FALSE,
                     attached |-> FALSE, address |-> FALSE, served |-> {}]
  BY DEF Init
<1>2. P!Init
  BY <1>1, SameInit
<1>3. /\ fwq = <<>> /\ wire = <<>> /\ inbuf = <<>> /\ call = "idle" /\ ret = P!NoReturn
  BY <1>2 DEF P!Init
<1>4. TransportInv
  BY <1>2, TransportAssumption, P!InitOrder, P!InitReturn DEF TransportInv
<1>5. P!Alive = {} /\ P!Seen = {P!NoMessage}
  BY <1>3, TransportAssumption, P!RangeEmpty, P!NoMessageQuiet DEF P!Alive, P!Seen, P!Messages
<1>6. ClientTypeOK
  <2>1. ReadyTimeout \in 0..ReadyTimeout
    BY TimesType
  <2>2. 0 \in 0..Len(NetPlan) /\ 1 \in 1..Len(InitCommands)
    BY InitCommandsType, NetPlanLength
  <2> QED BY <1>1, <2>1, <2>2, StepsListed DEF ClientTypeOK
<1>7. Control
  BY <1>1, <1>3 DEF Control, Connecting
<1>8. OneBehind
  BY <1>1, <1>5 DEF OneBehind, HasAnswer, Executed
<1>9. Truthful
  <2>1. modem \in Modem /\ modem.modeRsp = "none"
    BY <1>1, BringupAssumption DEF Modem
  <2>2. ~modem.radio
    BY <1>1
  <2>3. ~P!IsResponse(P!NoMessage) /\ P!NoMessage.code # UTA_MODE_SET_RSP_CB
    BY TransportAssumption, P!NoMessageQuiet DEF P!NoMessage, UTA_MODE_SET_RSP_CB
  <2> QED BY <1>5, <2>1, <2>2, <2>3 DEF Truthful, Honest, UpToDate
<1>10. InTurn
  BY <1>1 DEF InTurn, Before
<1>11. Concluded /\ ExitsTrue
  BY <1>1 DEF Concluded, Connecting, ExitsTrue, NoServiceMeansNone, SuccessMeansUp, HostFollowsModem
<1> QED BY <1>4, <1>6, <1>7, <1>8, <1>9, <1>10, <1>11 DEF BringupInv

\* The invariant is inductive, given that the transport's is kept.
LEMMA BringupStep == BringupInv /\ TransportInv' /\ [Next]_vars => BringupInv'
<1> SUFFICES ASSUME BringupInv, TransportInv', [Next]_vars PROVE BringupInv'
  OBVIOUS
<1>1. /\ TransportInv /\ ClientTypeOK /\ Control /\ OneBehind /\ Truthful /\ InTurn /\ Concluded
      /\ ExitsTrue
  BY DEF BringupInv
<1>2. ClientTypeOK' /\ Control' /\ OneBehind' /\ Truthful' /\ InTurn' /\ Concluded'
  BY <1>1, ClientTypeStep, ControlStep, OneBehindStep, TruthfulStep, InTurnStep, ConcludedStep
<1>3. ExitsTrue'
  BY <1>1, <1>2, ExitsTrueStep
<1> QED BY <1>2, <1>3 DEF BringupInv

\* The program is never more than one request ahead of the answers, is told nothing
\* untrue of the modem, and concludes from it only what is so (main.rs:29-89,
\* modem.rs:32-229).
THEOREM BringupInvariant == Spec => []BringupInv
BY BringupStarts, BringupStep, TransportHolds, PTL DEF Spec

\* All variables of the program, of the transport and of the modem have their types.
THEOREM BringupTypeCorrect == Spec => []TypeOK
<1>1. BringupInv => TypeOK
  <2> SUFFICES ASSUME BringupInv PROVE TypeOK
    OBVIOUS
  <2>1. P!TypeOK
    BY DEF BringupInv, TransportInv, P!OrderInv, P!TypeInv
  <2>2. T!TypeOK
    BY <2>1, SameWords
    DEF P!TypeOK, T!TypeOK, P!Message, T!Message, P!PendingRequest, T!PendingRequest,
        P!Return, T!Return, P!Calling, T!Calling
  <2>3. ClientTypeOK /\ modem \in Modem
    BY DEF BringupInv, Truthful
  <2> QED BY <2>2, <2>3, InitCommandsType DEF TypeOK, ClientTypeOK
<1> QED BY <1>1, BringupInvariant, PTL

\* Exit code 2 is true of the modem (error.rs:23-29, main.rs:42-88): without an address
\* it has none, and refused it is not attached, unless an answer may be stale.
THEOREM NoServiceCorrect == Spec => []NoServiceMeansNone
<1>1. BringupInv => NoServiceMeansNone
  BY DEF BringupInv, ExitsTrue
<1> QED BY <1>1, BringupInvariant, PTL

\* Exit code 0 is true of the modem and of the host (main.rs:42-88): also when an
\* answer was left behind and taken for the next one's.
THEOREM SuccessCorrect == Spec => []SuccessMeansUp
<1>1. BringupInv => SuccessMeansUp
  BY DEF BringupInv, ExitsTrue
<1> QED BY <1>1, BringupInvariant, PTL

\* The host is touched only with a modem that is attached and has an address
\* (main.rs:62-75), also when answers are stale.
THEOREM HostUntouchedBefore == Spec => []HostFollowsModem
<1>1. BringupInv => HostFollowsModem
  BY DEF BringupInv, ExitsTrue
<1> QED BY <1>1, BringupInvariant, PTL

\* What a command relies on.
LEMMA ReliesOn ==
    LET mode == Inits \cup {CSI_FCC_LOCK_QUERY_REQ, UTA_MODE_SET_REQ}
        apn == mode \cup {UTA_MS_CALL_PS_ATTACH_APN_CONFIG_REQ}
        address == apn \cup {UTA_MS_NET_ATTACH_REQ, UTA_MS_CALL_PS_GET_NEG_IP_ADDR_REQ,
                             UTA_MS_CALL_PS_GET_NEGOTIATED_DNS_REQ}
    IN  /\ Relies(UTA_MODE_SET_REQ) = Inits \cup {CSI_FCC_LOCK_QUERY_REQ}
        /\ Relies(UTA_MS_CALL_PS_ATTACH_APN_CONFIG_REQ) = mode
        /\ Relies(UTA_MS_NET_ATTACH_REQ) = apn
        /\ Relies(UTA_MS_CALL_PS_GET_NEG_IP_ADDR_REQ) = apn \cup {UTA_MS_NET_ATTACH_REQ}
        /\ Relies(UTA_MS_CALL_PS_CONNECT_REQ) = address
        /\ Relies(UTA_RPC_PS_CONNECT_SETUP_REQ) =
                address \cup {UTA_MS_CALL_PS_CONNECT_REQ, UTA_RPC_PS_CONNECT_TO_DATACHANNEL_REQ}
        /\ \A cmd : cmd \notin {UTA_MODE_SET_REQ, UTA_MS_CALL_PS_ATTACH_APN_CONFIG_REQ,
                               UTA_MS_NET_ATTACH_REQ, UTA_MS_CALL_PS_GET_NEG_IP_ADDR_REQ,
                               UTA_MS_CALL_PS_CONNECT_REQ, UTA_RPC_PS_CONNECT_SETUP_REQ}
                => Relies(cmd) = {}
<1>1. {InitCommands[i] : i \in DOMAIN InitCommands} = Inits
  BY InitCommandsType DEF Inits
<1> QED BY <1>1
        DEF Relies, UTA_MODE_SET_REQ, UTA_MS_CALL_PS_ATTACH_APN_CONFIG_REQ,
            UTA_MS_NET_ATTACH_REQ, UTA_MS_CALL_PS_GET_NEG_IP_ADDR_REQ,
            UTA_MS_CALL_PS_CONNECT_REQ, UTA_RPC_PS_CONNECT_SETUP_REQ

\* It is the business of the steps before the one that executes it.
LEMMA ReliesOnEarlier ==
    ASSUME ClientTypeOK, step \in Asking
    PROVE  Relies(Asked) \subseteq Before(step)
<1> USE DEF Before, BeforeMode, BeforeVersion, BeforeApn, BeforeAttach, BeforeIp, BeforeDns,
            BeforeConnect, BeforeChannel, BeforeSetup
<1>1. CASE step = "set_mode"
  BY <1>1, AskedIs, ReliesOn
<1>2. CASE step = "apn_config"
  BY <1>2, AskedIs, ReliesOn
<1>3. CASE step \in {"attach", "attach_again"}
  BY <1>3, AskedIs, ReliesOn
<1>4. CASE step = "neg_ip"
  BY <1>4, AskedIs, ReliesOn
<1>5. CASE step = "ps_connect"
  BY <1>5, AskedIs, ReliesOn
<1>6. CASE step = "setup"
  BY <1>6, AskedIs, ReliesOn
<1>7. CASE step \notin {"set_mode", "apn_config", "attach", "attach_again", "neg_ip",
                        "ps_connect", "setup"}
  <2>1. Asked \notin {UTA_MODE_SET_REQ, UTA_MS_CALL_PS_ATTACH_APN_CONFIG_REQ,
                      UTA_MS_NET_ATTACH_REQ, UTA_MS_CALL_PS_GET_NEG_IP_ADDR_REQ,
                      UTA_MS_CALL_PS_CONNECT_REQ, UTA_RPC_PS_CONNECT_SETUP_REQ}
    <3> USE DEF UTA_MODE_SET_REQ, UTA_MS_CALL_PS_ATTACH_APN_CONFIG_REQ, UTA_MS_NET_ATTACH_REQ,
                UTA_MS_CALL_PS_GET_NEG_IP_ADDR_REQ, UTA_MS_CALL_PS_CONNECT_REQ,
                UTA_RPC_PS_CONNECT_SETUP_REQ
    <3>1. CASE step = "initialize"
      <4>1. nextInit \in 1..7
        BY InitCommandsType DEF ClientTypeOK
      <4> QED BY <3>1, <4>1, InitCommandsListed, AskedIs
    <3>2. CASE step # "initialize"
      BY <1>7, <3>2, AskedIs, StepsListed
      DEF Asking, CSI_FCC_LOCK_QUERY_REQ, CSI_FCC_LOCK_GEN_CHALLENGE_REQ,
          CSI_FCC_LOCK_VER_CHALLENGE_REQ, UTA_SYS_GET_INFO,
          UTA_MS_CALL_PS_GET_NEGOTIATED_DNS_REQ, UTA_RPC_PS_CONNECT_TO_DATACHANNEL_REQ
    <3> QED BY <3>1, <3>2
  <2> QED BY <2>1, ReliesOn
<1> QED BY <1>1, <1>2, <1>3, <1>4, <1>5, <1>6, <1>7

\* The modem is never asked for anything before what that relies on was served
\* (main.rs:46-85), as long as no request was left behind.
THEOREM OrderOfService == Spec => []ServedInOrder
<1>1. BringupInv => ServedInOrder
  <2> SUFFICES ASSUME BringupInv, ~failed, fwq # <<>>
               PROVE  Relies(Head(fwq).cmd) \subseteq modem.served
    BY DEF ServedInOrder
  <2>0. /\ TransportInv /\ ClientTypeOK /\ Control /\ OneBehind /\ InTurn
    BY DEF BringupInv
  <2>u. P!UnderWay
    BY <2>0, TransportAssumption, P!OrderUnderWay DEF TransportInv
  <2>1. /\ Head(fwq).req <= sent /\ settled < Head(fwq).req
        /\ [req |-> Head(fwq).req, code |-> Head(fwq).cmd] \in P!Alive
    BY <2>0, ServedIsNewest
  <2>2. call = "execute"
    <3>1. settled = IF call = "execute" THEN sent - 1 ELSE sent
      BY <2>0 DEF TransportInv, P!OrderInv, P!InStep
    <3> QED BY <2>1, <2>u, <3>1 DEF P!UnderWay
  <2>3. Executing
    BY <2>0, <2>2 DEF Control, CallsOf, Executing, Listening, Asking
  <2>4. Head(fwq).cmd = Asked
    <3>1. settled = sent - 1
      BY <2>0, <2>2 DEF TransportInv, P!OrderInv, P!InStep
    <3>2. Expected(Head(fwq).req, Head(fwq).cmd)
      BY <2>0, <2>1, <2>3 DEF OneBehind
    <3> QED BY <2>1, <2>u, <3>1, <3>2 DEF Expected, P!UnderWay
  <2>5. Before(step) \subseteq modem.served
    BY <2>0, <2>2 DEF InTurn, Unplugged
  <2>6. Relies(Asked) \subseteq Before(step)
    BY <2>0, <2>3, ReliesOnEarlier DEF Executing
  <2> QED BY <2>4, <2>5, <2>6
<1> QED BY <1>1, BringupInvariant, PTL
=============================================================================
