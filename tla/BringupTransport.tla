-------------------------- MODULE BringupTransport --------------------------
(***************************************************************************)
(* The bring-up as a client of the transport: every step of module Bringup *)
(* is a step of module Rpc or leaves the transport alone, so what is       *)
(* proved of Rpc for any client holds of the bring-up.                     *)
(***************************************************************************)
EXTENDS Bringup, TLAPS

\* The transport of Bringup once more, with what is proved about it.
P == INSTANCE RpcEffects WITH
        Cmds <- Commands,
        Inds <- {UTA_MS_NET_IS_ATTACH_ALLOWED_IND_CB, UTA_MODE_SET_RSP_CB},
        Args <- Words, Timeouts <- {ProbeTimeout, ResponseTimeout}, Costs <- {0, 1},
        ResetOn <- "open"

-----------------------------------------------------------------------------
(* The assumptions of Rpc hold of its instance.                             *)

\* The commands are numbers below those of acknowledgements, and so on.
LEMMA TransportAssumption ==
    /\ Commands \subseteq 0..(P!ACK_CODE_MIN - 1)
    /\ {UTA_MS_NET_IS_ATTACH_ALLOWED_IND_CB, UTA_MODE_SET_RSP_CB} \subseteq Nat
    /\ 0 \in Words /\ NoArg \in Words
    /\ {ProbeTimeout, ResponseTimeout} \subseteq Nat \ {0}
    /\ Faults \subseteq P!FaultKinds
    /\ {0, 1} \subseteq Nat
    /\ MaxReq \in Nat
    /\ MaxNoise \in Nat
    /\ "open" \in {"open", "last_close"}
<1> DEFINE Low == 0..1999
<1>1. Commands \subseteq Low
  <2>1. DOMAIN InitCommands = 1..7
    BY DEF InitCommands
  <2>2. \A i \in 1..7 : InitCommands[i] \in Low
    BY DEF InitCommands, UTA_MS_SMS_INIT, UTA_MS_CBS_INIT, UTA_MS_NET_OPEN,
           UTA_MS_CALL_CS_INIT, UTA_MS_CALL_PS_INITIALIZE, UTA_MS_SS_INIT, UTA_MS_SIM_OPEN_REQ
  <2> DEFINE Requests ==
          {CSI_FCC_LOCK_QUERY_REQ, CSI_FCC_LOCK_GEN_CHALLENGE_REQ,
           CSI_FCC_LOCK_VER_CHALLENGE_REQ, UTA_MODE_SET_REQ, UTA_SYS_GET_INFO,
           UTA_MS_CALL_PS_ATTACH_APN_CONFIG_REQ, UTA_MS_NET_ATTACH_REQ,
           UTA_MS_CALL_PS_GET_NEG_IP_ADDR_REQ, UTA_MS_CALL_PS_GET_NEGOTIATED_DNS_REQ,
           UTA_MS_CALL_PS_CONNECT_REQ, UTA_RPC_PS_CONNECT_TO_DATACHANNEL_REQ,
           UTA_RPC_PS_CONNECT_SETUP_REQ}
  <2>3. \A s \in DOMAIN Request : Request[s].cmd \in Requests
    BY DEF Request
  <2>4. Requests \subseteq Low
    BY DEF CSI_FCC_LOCK_QUERY_REQ, CSI_FCC_LOCK_GEN_CHALLENGE_REQ,
           CSI_FCC_LOCK_VER_CHALLENGE_REQ, UTA_MODE_SET_REQ, UTA_SYS_GET_INFO,
           UTA_MS_CALL_PS_ATTACH_APN_CONFIG_REQ, UTA_MS_NET_ATTACH_REQ,
           UTA_MS_CALL_PS_GET_NEG_IP_ADDR_REQ, UTA_MS_CALL_PS_GET_NEGOTIATED_DNS_REQ,
           UTA_MS_CALL_PS_CONNECT_REQ, UTA_RPC_PS_CONNECT_TO_DATACHANNEL_REQ,
           UTA_RPC_PS_CONNECT_SETUP_REQ
  <2>5. Commands \subseteq Low
    <3> HIDE DEF Low, Requests
    <3>1. \A i \in DOMAIN InitCommands : InitCommands[i] \in Low
      BY <2>1, <2>2
    <3> QED BY <2>3, <2>4, <3>1, Zenon DEF Commands
  <2> QED BY <2>5
<1>2. {UTA_MS_NET_IS_ATTACH_ALLOWED_IND_CB, UTA_MODE_SET_RSP_CB} \subseteq Nat
  BY DEF UTA_MS_NET_IS_ATTACH_ALLOWED_IND_CB, UTA_MODE_SET_RSP_CB
<1>3. 0 \in Words /\ NoArg \in Words
  BY DEF Words
<1>4. /\ {ProbeTimeout, ResponseTimeout} \subseteq Nat \ {0}
      /\ MaxReq \in Nat /\ MaxNoise \in Nat
  BY BringupAssumption
<1>5. Faults \subseteq P!FaultKinds
  BY BringupAssumption DEF P!FaultKinds
<1>6. 0..(P!ACK_CODE_MIN - 1) = Low
  BY DEF P!ACK_CODE_MIN
<1> HIDE DEF Low
<1>7. Commands \subseteq 0..(P!ACK_CODE_MIN - 1)
  BY <1>1, <1>6, Zenon
<1> QED BY <1>2, <1>3, <1>4, <1>5, <1>7

-----------------------------------------------------------------------------
(* Bringup has its transport from module Rpc, the proofs theirs from the one *)
(* that extends it: the same definitions under two names.                   *)

\* The constants have the same values.
LEMMA SameWords ==
    /\ T!TXID_SYNC = P!TXID_SYNC /\ T!TXID_ASYNC = P!TXID_ASYNC
    /\ T!TXID_OTHER = P!TXID_OTHER /\ T!ACK_CODE_MIN = P!ACK_CODE_MIN
    /\ T!UTA_MS_NET_IS_ATTACH_ALLOWED_IND_CB = P!UTA_MS_NET_IS_ATTACH_ALLOWED_IND_CB
    /\ T!Modes = P!Modes
    /\ T!NoMessage = P!NoMessage /\ T!NoReturn = P!NoReturn
BY DEF T!TXID_SYNC, P!TXID_SYNC, T!TXID_ASYNC, P!TXID_ASYNC, T!TXID_OTHER, P!TXID_OTHER,
       T!ACK_CODE_MIN, P!ACK_CODE_MIN, T!UTA_MS_NET_IS_ATTACH_ALLOWED_IND_CB,
       P!UTA_MS_NET_IS_ATTACH_ALLOWED_IND_CB, T!Modes, P!Modes, T!NoMessage, P!NoMessage,
       T!NoReturn, P!NoReturn

\* A message is parsed alike, ...
LEMMA SameKind == \A m : T!Kind(m) = P!Kind(m)
BY SameWords DEF T!Kind, P!Kind, T!IsRpcTid, P!IsRpcTid

\* ... allows the attach alike, ...
LEMMA SamePermission == \A m : T!IsPermission(m) <=> P!IsPermission(m)
BY SameWords, SameKind DEF T!IsPermission, P!IsPermission

\* ... alone ...
LEMMA SameAfterMessage == \A flag, m : T!AfterMessage(flag, m) = P!AfterMessage(flag, m)
BY SamePermission DEF T!AfterMessage, P!AfterMessage

\* ... or with others, ...
LEMMA SameAfterMessages == \A flag, msgs : T!AfterMessages(flag, msgs) = P!AfterMessages(flag, msgs)
<1> TAKE flag, msgs
<1>1. {i \in DOMAIN msgs : T!IsPermission(msgs[i])} = {i \in DOMAIN msgs : P!IsPermission(msgs[i])}
  BY SamePermission
<1> QED BY <1>1 DEF T!AfterMessages, P!AfterMessages

\* ... and is emitted alike.
LEMMA SameEmit == \A m, cost : T!Emit(m, cost) <=> P!Emit(m, cost)
<1>1. \A m : T!FaultsOf(m) = P!FaultsOf(m)
  BY SameWords DEF T!FaultsOf, P!FaultsOf
<1> QED BY <1>1, SameAfterMessage DEF T!Emit, P!Emit

\* The steps of the firmware are the same.
LEMMA SameFirmwareAcks == T!FirmwareAcks => P!FirmwareAcks
BY SameWords, SameEmit
DEF T!FirmwareAcks, P!FirmwareAcks, T!FirmwareUnchanged, P!FirmwareUnchanged

\* An answer, ...
LEMMA SameFirmwareAnswers ==
    ASSUME NEW arg, T!FirmwareAnswers(arg)
    PROVE  P!FirmwareAnswers(arg)
BY SameWords, SameEmit
DEF T!FirmwareAnswers, P!FirmwareAnswers, T!FirmwareUnchanged, P!FirmwareUnchanged

\* ... none, ...
LEMMA SameFirmwareIgnores == T!FirmwareIgnores => P!FirmwareIgnores
BY DEF T!FirmwareIgnores, P!FirmwareIgnores, T!FirmwareUnchanged, P!FirmwareUnchanged

\* ... an indication, ...
LEMMA SameFirmwareIndicates ==
    ASSUME NEW ind, NEW arg, NEW cost, T!FirmwareIndicates(ind, arg, cost)
    PROVE  P!FirmwareIndicates(ind, arg, cost)
BY SameWords, SameEmit
DEF T!FirmwareIndicates, P!FirmwareIndicates, T!FirmwareUnchanged, P!FirmwareUnchanged

\* ... and the end of it.
LEMMA SamePortRemoved == T!PortRemoved => P!PortRemoved
BY SameAfterMessages DEF T!PortRemoved, P!PortRemoved

\* So are those of a call in progress: a message is taken, ...
LEMMA SameTakeMessage == T!TakeMessage => P!TakeMessage
BY SameAfterMessage DEF T!TakeMessage, P!TakeMessage, T!portVars, P!portVars

\* ... looked at, ...
LEMMA SameReading ==
    T!ReadChunk \/ T!Answered \/ T!Skipped => P!ReadChunk \/ P!Answered \/ P!Skipped
BY SameKind, SameTakeMessage
DEF T!ReadChunk, P!ReadChunk, T!Answered, P!Answered, T!Skipped, P!Skipped, T!End, P!End

\* ... the call fails in one way or another, ...
LEMMA SameFailing ==
    T!FrameError \/ T!ParseError \/ T!TimeoutExpires \/ T!PortClosed
        => P!FrameError \/ P!ParseError \/ P!TimeoutExpires \/ P!PortClosed
<1>1. T!FrameError => P!FrameError
  BY SameWords DEF T!FrameError, P!FrameError, T!CallFails, P!CallFails, T!End, P!End,
                   T!portVars, P!portVars
<1>2. T!ParseError => P!ParseError
  BY SameWords, SameKind, SameTakeMessage
  DEF T!ParseError, P!ParseError, T!CallFails, P!CallFails, T!End, P!End
<1>3. T!TimeoutExpires => P!TimeoutExpires
  BY SameWords DEF T!TimeoutExpires, P!TimeoutExpires, T!CallFails, P!CallFails, T!End, P!End,
                   T!portVars, P!portVars
<1>4. T!PortClosed => P!PortClosed
  BY SameWords DEF T!PortClosed, P!PortClosed, T!CallFails, P!CallFails, T!End, P!End,
                   T!portVars, P!portVars
<1> QED BY <1>1, <1>2, <1>3, <1>4

\* ... or the old port is closed; ...
LEMMA SameReopenCloses == T!ReopenCloses => P!ReopenCloses
BY SameWords, SameAfterMessages
DEF T!ReopenCloses, P!ReopenCloses, T!ResetChannel, P!ResetChannel, T!End, P!End

\* ... and time passes.
LEMMA SameTick == T!Tick => P!Tick
BY DEF T!Tick, P!Tick, T!portVars, P!portVars

\* So are the steps by which a call begins.
LEMMA SameExecute ==
    ASSUME NEW cmd, NEW mode, NEW timeout, T!Execute(cmd, mode, timeout)
    PROVE  P!Execute(cmd, mode, timeout)
BY SameWords DEF T!Execute, P!Execute, T!Begin, P!Begin

\* A request not written, ...
LEMMA SameExecuteWriteFails == T!ExecuteWriteFails => P!ExecuteWriteFails
BY SameWords DEF T!ExecuteWriteFails, P!ExecuteWriteFails

\* ... listening, ...
LEMMA SameRecv == T!Recv => P!Recv
BY SameWords DEF T!Recv, P!Recv, T!Begin, P!Begin, T!portVars, P!portVars

\* ... the port opened again, ...
LEMMA SameReopenOpens == T!ReopenOpens => P!ReopenOpens
BY SameWords, SameAfterMessages
DEF T!ReopenOpens, P!ReopenOpens, T!Begin, P!Begin, T!ResetChannel, P!ResetChannel

\* ... or not.
LEMMA SameReopenFails == T!ReopenFails => P!ReopenFails
BY SameWords DEF T!ReopenFails, P!ReopenFails, T!portVars, P!portVars

-----------------------------------------------------------------------------
(* Every step of the bring-up is one of the transport.                      *)

\* The loop of initialize stays within its list.
InList == nextInit \in 1..Len(InitCommands)

\* A command of the list is a command, and the list has seven.
LEMMA InitCommandsType ==
    /\ Len(InitCommands) = 7 /\ DOMAIN InitCommands = 1..7
    /\ \A i \in 1..7 : InitCommands[i] \in Commands
<1>1. Len(InitCommands) = 7 /\ DOMAIN InitCommands = 1..7
  BY DEF InitCommands
<1> QED BY <1>1 DEF Commands

\* A request of a step is a command with a mode.
LEMMA RequestType ==
    \A s \in DOMAIN Request : Request[s].cmd \in Commands /\ Request[s].mode \in T!Modes
<1>1. \A s \in DOMAIN Request : Request[s].cmd \in Commands
  BY DEF Commands
<1>2. \A s \in DOMAIN Request : Request[s].mode \in T!Modes
  BY DEF Request, T!Modes
<1> QED BY <1>1, <1>2

\* The steps of the program in which it only looks at what a call returned, goes on
\* or stops.
Decides ==
    \/ CallFails \/ RequestTooLong \/ Ready \/ Reopened \/ NotReady
    \/ Initialized \/ FccQueried \/ FccChallenged \/ FccAnswered
    \/ ModeRequested \/ ModeReported \/ VersionRead
    \/ ApnConfigured \/ Attached \/ AttachReceived \/ AttachAllowed \/ AttachedAgain
    \/ IpQueried \/ DnsQueried \/ Configure \/ Configured
    \/ PsConnected \/ DatachannelOpened \/ SetUp

\* In them neither the transport nor the modem takes part.
LEMMA DecidesAlone == Decides => UNCHANGED <<rpcVars, modem>>
BY DEF Decides, CallFails, RequestTooLong, Ready, Reopened, NotReady, Initialized, FccQueried,
       FccChallenged, FccAnswered, ModeRequested, ModeReported, VersionRead, ApnConfigured,
       Attached, AttachedNow, AttachReceived, AttachAllowed, AttachedAgain, IpQueried,
       DnsQueried, Configure, Configured, PsConnected, DatachannelOpened, SetUp, GoTo, Stop

\* The steps of the program, apart from those, that start a call.
Starts == Probe \/ Initialize \/ Ask \/ ModeWaits \/ AttachWaits \/ ProbeTimesOut

\* There are no others but the work on a call.
LEMMA ProgramSteps == Program <=> CallProgress \/ Decides \/ Starts
BY DEF Program, Decides, Starts

\* The list is not overrun.
LEMMA InListStep == InList /\ [Next]_vars => InList'
<1> SUFFICES ASSUME InList, [Next]_vars PROVE InList'
  OBVIOUS
<1>1. CASE Initialized
  <2>1. nextInit' = nextInit \/ (nextInit < Len(InitCommands) /\ nextInit' = nextInit + 1)
    BY <1>1 DEF Initialized, Proceed
  <2> QED BY <2>1, InitCommandsType DEF InList
<1>2. CASE Program /\ ~Initialized
  <2>1. nextInit' = nextInit
    BY <1>2 DEF Program, CallProgress, CallFails, RequestTooLong, Probe, Ready, ProbeTimesOut,
           Reopened, NotReady, Initialize, Ask, FccQueried,
           FccChallenged, FccAnswered, ModeRequested, ModeWaits, ModeReported, VersionRead,
           ApnConfigured, Attached, AttachedNow, AttachWaits, AttachReceived, AttachAllowed,
           AttachedAgain, IpQueried, DnsQueried, Configure, Configured, PsConnected,
           DatachannelOpened, SetUp, GoTo, Stop, Call, Receive, clientVars
  <2> QED BY <2>1 DEF InList
<1>3. CASE Environment \/ Tick \/ UNCHANGED vars
  <2>1. nextInit' = nextInit
    BY <1>3 DEF Environment, ModemAnswers, ModemIgnores, ModemReportsMode, NetworkAllows,
           ModemOnItsOwn, Tick, vars, clientVars
  <2> QED BY <2>1 DEF InList
<1> QED BY <1>1, <1>2, <1>3 DEF Next

\* A call of the program is a call of the transport's client.
LEMMA StartsTransport == ASSUME InList, Starts PROVE T!Next
<1>1. ASSUME NEW cmd \in Commands, NEW mode \in T!Modes,
             NEW timeout \in {ProbeTimeout, ResponseTimeout}, Call(cmd, mode, timeout)
      PROVE  T!Client
  <2>1. T!Execute(cmd, mode, timeout) \/ T!ExecuteWriteFails
    BY <1>1 DEF Call
  <2> QED BY <2>1 DEF T!Client
<1>2. CASE Probe
  <2>1. "wait_ready" \notin DOMAIN Request /\ CSI_FCC_LOCK_QUERY_REQ \in Commands
        /\ "Async" \in T!Modes
    <3>1. Request["fcc_query"].cmd = CSI_FCC_LOCK_QUERY_REQ /\ "fcc_query" \in DOMAIN Request
      BY DEF Request
    <3> QED BY <3>1 DEF Commands, Request, T!Modes
  <2> QED BY <1>1, <1>2, <2>1 DEF Probe, T!Next
<1>3. CASE Initialize
  <2>1. InitCommands[nextInit] \in Commands /\ "Sync" \in T!Modes
    BY InitCommandsType DEF InList, T!Modes
  <2> QED BY <1>1, <1>3, <2>1 DEF Initialize, T!Next
<1>4. CASE Ask
  BY <1>1, <1>4, RequestType DEF Ask, T!Next
<1>5. CASE ModeWaits \/ AttachWaits
  BY <1>5 DEF ModeWaits, AttachWaits, Receive, T!Client, T!Next
<1>6. CASE ProbeTimesOut
  BY <1>6 DEF ProbeTimesOut, T!Client, T!Next
<1> QED BY <1>2, <1>3, <1>4, <1>5, <1>6 DEF Starts

\* What the modem does is what the transport's firmware may do.
LEMMA EnvironmentTransport == ASSUME Environment PROVE T!Firmware
<1>1. CASE ModemAnswers
  BY <1>1 DEF ModemAnswers, T!Firmware
<1>2. CASE ModemIgnores
  BY <1>2 DEF ModemIgnores, T!Firmware
<1>3. CASE ModemReportsMode
  <2>1. (IF modem.locked THEN 0 ELSE 1) \in Words
    BY DEF Words
  <2> QED BY <1>3, <2>1 DEF ModemReportsMode, T!Firmware
<1>4. CASE NetworkAllows
  <2>1. 1 \in Words
    BY DEF Words
  <2> QED BY <1>4, <2>1 DEF NetworkAllows, T!Firmware
<1>5. CASE ModemOnItsOwn
  <2>1. {0, 1, NoArg} \subseteq Words
    BY DEF Words
  <2> QED BY <1>5, <2>1 DEF ModemOnItsOwn, T!Firmware
<1> QED BY <1>1, <1>2, <1>3, <1>4, <1>5 DEF Environment

\* Every step of the bring-up is a step of the transport or leaves it alone.
LEMMA StepTransport == InList /\ [Next]_vars => [T!Next]_(T!vars)
<1> SUFFICES ASSUME InList, [Next]_vars PROVE [T!Next]_(T!vars)
  OBVIOUS
<1>1. CASE Environment
  BY <1>1, EnvironmentTransport DEF T!Next
<1>2. CASE CallProgress \/ Tick
  BY <1>2 DEF CallProgress, Tick, T!Next
<1>3. CASE Decides
  BY <1>3, DecidesAlone DEF rpcVars, T!vars
<1>4. CASE Starts
  BY <1>4, StartsTransport
<1>5. CASE UNCHANGED vars
  BY <1>5 DEF vars, rpcVars, T!vars
<1> QED BY <1>1, <1>2, <1>3, <1>4, <1>5, ProgramSteps DEF Next

\* So the command it is at is always one of the list.
LEMMA StaysInList == Spec => []InList
<1>1. Init => InList
  BY InitCommandsType DEF Init, InList
<1> QED BY <1>1, InListStep, PTL DEF Spec

\* The program of main.rs and modem.rs is a client of the transport as module Rpc
\* has it: whatever the modem does, the calls it makes and what it is returned are
\* a behaviour of Rpc.
THEOREM TransportImplemented == Spec => T!Spec
<1>1. Init => T!Init
  BY DEF Init
<1> QED BY <1>1, StaysInList, StepTransport, PTL DEF Spec, T!Spec

-----------------------------------------------------------------------------
(* What is proved of the transport holds here.                              *)

\* The bring-up starts as the transport does.
LEMMA SameInit == T!Init => P!Init
BY SameWords DEF T!Init, P!Init

\* A step of the one instance is a step of the other: of the firmware, ...
LEMMA SameFirmware == T!Firmware => P!Firmware
BY SameFirmwareAcks, SameFirmwareAnswers, SameFirmwareIgnores, SameFirmwareIndicates,
   SamePortRemoved DEF T!Firmware, P!Firmware

\* ... of a call in progress, ...
LEMMA SameProgress == T!Progress => P!Progress
BY SameReading, SameFailing, SameReopenCloses DEF T!Progress, P!Progress

\* ... and of the client.
LEMMA SameClient == T!Client => P!Client
<1>1. CASE \E cmd \in Commands, mode \in T!Modes, t \in {ProbeTimeout, ResponseTimeout} :
                T!Execute(cmd, mode, t)
  BY <1>1, SameExecute, SameWords DEF P!Client
<1>2. CASE T!ExecuteWriteFails \/ T!Recv \/ T!ReopenOpens \/ T!ReopenFails
  BY <1>2, SameExecuteWriteFails, SameRecv, SameReopenOpens, SameReopenFails DEF P!Client
<1> QED BY <1>1, <1>2 DEF T!Client

\* So every step is.
LEMMA SameNext == [T!Next]_(T!vars) => [P!Next]_(P!vars)
<1>1. UNCHANGED T!vars => UNCHANGED P!vars
  BY DEF T!vars, P!vars
<1> QED BY <1>1, SameFirmware, SameProgress, SameTick, SameClient DEF T!Next, P!Next

\* The behaviours of the bring-up are behaviours of the transport under either name.
LEMMA SameSpec == Spec => P!Spec
BY TransportImplemented, SameInit, SameNext, PTL DEF T!Spec, P!Spec

\* What the transport keeps, for any client.
TransportInv == P!OrderInv /\ P!ReturnInv

\* It holds of the bring-up: answers come in the order of the requests, each to its own,
\* and what a call returned is what the transport remembers.
LEMMA TransportHolds == Spec => []TransportInv
<1>1. ("open" = "open" /\ P!Spec) => []P!OrderInv
  BY TransportAssumption, P!OrderInvariant
<1>2. ("open" = "open" /\ P!Spec) => []P!ReturnInv
  BY TransportAssumption, P!ReturnsRemembered
<1>3. "open" = "open"
  OBVIOUS
<1> QED BY <1>1, <1>2, <1>3, SameSpec, PTL DEF TransportInv
=============================================================================
