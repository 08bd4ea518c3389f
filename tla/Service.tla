------------------------------- MODULE Service -------------------------------
(***************************************************************************)
(* The systemd unit of src/nix/module.nix around runs of the program:      *)
(* waiting for the port, the start timeout, restarts and their limit, and  *)
(* the commands run on resume.  systemd is external, the unit's settings   *)
(* are the repository's.  Of the program there is what takes time and what *)
(* decides on its exit code (src/src/main.rs, src/src/modem.rs); the rest  *)
(* is module Bringup.                                                      *)
(*                                                                         *)
(* A tick is 30 seconds, which divides every time below.                   *)
(***************************************************************************)
EXTENDS Naturals

CONSTANTS
    MaxSuspends,    \* bound: suspends in a behaviour
    MaxChanges      \* bound: changes of the modem and the network otherwise

ASSUME ServiceAssumption == MaxSuspends \in Nat /\ MaxChanges \in Nat

PreStart == 2               \* 60 rounds of `sleep 1`
TimeoutStartSec == 6
RestartSec == 1
\* Mutant: every failure is restarted.
RestartPreventNone == {}

RestartPreventExitStatus == {"2"}

StartLimitBurst == 3

\* Mutant: nine minutes, less than three starts that take all their time.
StartLimitIntervalShort == 18

StartLimitIntervalSec == 30

READY_TIMEOUT == 4
IP_WAIT == 4                \* the default of ip_wait

VARIABLES
    unit,       \* its state
    timer,      \* ticks in this state
    window,     \* the start limit: ticks since the first start counted, and
                \* the number of starts
    result,     \* how the last run ended
    stage,      \* of the program
    spent,      \* ticks in this stage
    modem,      \* "up" or "dead"; and what the network does
    network,
    port,       \* the RPC port is there
    connected,  \* no suspend has cut the connection the program made
    resuming,   \* the resume commands have not come to the unit yet
    fault,      \* what the last failed run failed for
    suspends, changes

unitVars == <<unit, timer, window, result>>
programVars == <<stage, spent, fault>>
world == <<modem, network, port, suspends, changes>>
vars == <<unitVars, programVars, world, connected, resuming>>

TypeOK ==
    /\ unit \in {"start_pre", "start", "active", "auto_restart", "failed"}
    /\ timer \in 0..TimeoutStartSec
    /\ window \in [age : 0..(StartLimitIntervalSec + 1), num : 1..StartLimitBurst]
    /\ result \in {"none", "0", "1", "2", "timeout"}
    /\ stage \in {"none", "ready", "attach", "attach_wait", "attach_again", "ip", "orphan"}
    /\ stage # "none" <=> unit = "start"
    /\ spent \in 0..TimeoutStartSec
    /\ modem \in {"up", "dead"} /\ network \in {"good", "refuses", "no_ip"}
    /\ {port, connected, resuming} \subseteq BOOLEAN
    /\ fault \in {"none", "modem", "network"}
    /\ suspends \in 0..MaxSuspends /\ changes \in 0..MaxChanges

\* The machine boots; multi-user.target wants the unit.
Init ==
    /\ unit = "start_pre" /\ timer = 0 /\ window = [age |-> 0, num |-> 1] /\ result = "none"
    /\ stage = "none" /\ spent = 0 /\ fault = "none"
    /\ modem \in {"up", "dead"} /\ network \in {"good", "refuses", "no_ip"} /\ port \in BOOLEAN
    /\ connected = FALSE /\ resuming = FALSE /\ suspends = 0 /\ changes = 0

-----------------------------------------------------------------------------
(* The unit. *)

Enter(state) == unit' = state /\ timer' = 0
NoProgram == stage' = "none" /\ spent' = 0

\* A start is refused when there were too many since the first one counted; the
\* count begins anew with a start after the interval.
TryStart ==
    LET expired == window.age > StartLimitIntervalSec
    IN IF expired \/ window.num < StartLimitBurst
       THEN /\ Enter("start_pre")
            /\ window' = IF expired THEN [age |-> 0, num |-> 1] ELSE [window EXCEPT !.num = @ + 1]
       ELSE Enter("failed") /\ window' = window

\* A process of the unit ended.
Ends(code) ==
    /\ result' = code /\ window' = window
    /\ Enter(IF code = "0" THEN "active"
             ELSE IF code \in RestartPreventExitStatus THEN "failed" ELSE "auto_restart")

PreStartFindsPort ==
    /\ unit = "start_pre" /\ port
    /\ Enter("start") /\ stage' = "ready" /\ spent' = 0
    /\ UNCHANGED <<window, result, fault, world, connected, resuming>>

PreStartGivesUp ==
    /\ unit = "start_pre" /\ ~port /\ timer = PreStart
    /\ Ends("1") /\ fault' = "modem"
    /\ UNCHANGED <<stage, spent, world, connected, resuming>>

\* The program is at the network's mercy once the modem has answered.
FaultNow ==
    IF modem = "up" /\ stage \in {"attach", "attach_wait", "attach_again", "ip"} /\ network # "good"
    THEN "network" ELSE "modem"

Kill ==
    /\ unit = "start" /\ timer = TimeoutStartSec
    /\ Ends("timeout") /\ NoProgram /\ fault' = FaultNow
    /\ UNCHANGED <<world, connected, resuming>>

Restart ==
    /\ unit = "auto_restart" /\ timer = RestartSec
    /\ TryStart
    /\ UNCHANGED <<result, programVars, world, connected, resuming>>

\* Mutant: on resume only the driver is reloaded.
NoTryRestart ==
    /\ resuming /\ resuming' = FALSE
    /\ UNCHANGED <<unitVars, programVars, world, connected>>

\* The last of the resume commands: a unit that is up or coming up is stopped
\* and started, which counts as a start.
TryRestart ==
    /\ resuming /\ resuming' = FALSE
    /\ IF unit = "failed" THEN UNCHANGED <<unitVars, programVars>>
       ELSE TryStart /\ NoProgram /\ UNCHANGED <<result, fault>>
    /\ UNCHANGED <<world, connected>>

-----------------------------------------------------------------------------
(* The program: see main.rs:42-87. *)

Exit(code) == Ends(code) /\ NoProgram /\ UNCHANGED <<world, resuming>>
To(next) ==
    /\ stage' = next /\ spent' = 0
    /\ UNCHANGED <<unitVars, fault, world, connected, resuming>>

\* wait_ready, and what follows up to the attach.
Ready == stage = "ready" /\ modem = "up" /\ To("attach")

\* attach: a refusal is waited out without a deadline, the second one counts.
Attached == stage \in {"attach", "attach_again"} /\ modem = "up" /\ network # "refuses" /\ To("ip")
Refused == stage = "attach" /\ modem = "up" /\ network = "refuses" /\ To("attach_wait")
Allowed == stage = "attach_wait" /\ modem = "up" /\ network # "refuses" /\ To("attach_again")
RefusedAgain ==
    /\ stage = "attach_again" /\ modem = "up" /\ network = "refuses"
    /\ Exit("2") /\ fault' = "network"
    /\ UNCHANGED connected

\* wait_for_ip, and what follows up to the data channel.
Connects ==
    /\ stage = "ip" /\ modem = "up" /\ network = "good"
    /\ Exit("0") /\ connected' = TRUE
    /\ UNCHANGED fault
NoAddress ==
    /\ stage = "ip" /\ modem = "up" /\ spent = IP_WAIT
    /\ Exit("2") /\ fault' = "network"
    /\ UNCHANGED connected

\* Anything else that goes wrong: a timeout, a codec or protocol error, a port
\* that has gone.
Fails ==
    /\ stage \notin {"none", "attach_wait"} \/ (stage = "attach_wait" /\ ~port)
    /\ Exit("1") /\ fault' = "modem"
    /\ UNCHANGED connected

-----------------------------------------------------------------------------
(* The world. *)

\* Suspend and the first resume commands: the modem was without power, and the
\* driver was taken away and loaded again, or that failed.  An open port is dead.
Suspend ==
    /\ suspends < MaxSuspends /\ suspends' = suspends + 1
    /\ modem' \in {"up", "dead"} /\ port' \in BOOLEAN
    /\ connected' = FALSE /\ resuming' = TRUE
    /\ stage' = (IF stage = "none" THEN "none" ELSE "orphan") /\ spent' = spent
    /\ UNCHANGED <<unitVars, network, fault, changes>>

Change ==
    /\ changes < MaxChanges /\ changes' = changes + 1
    /\ \/ modem' \in {"up", "dead"} /\ UNCHANGED <<network, port>>
       \/ network' \in {"good", "refuses", "no_ip"} /\ UNCHANGED <<modem, port>>
       \/ port' = TRUE /\ UNCHANGED <<modem, network>>
    /\ UNCHANGED <<unitVars, programVars, connected, resuming, suspends>>

\* Nothing that is due waits for the next tick: the program's deadlines, the
\* unit's, and what can be done at once.
Due ==
    \/ unit = "start_pre" /\ (port \/ timer = PreStart)
    \/ unit = "start" /\ timer = TimeoutStartSec
    \/ unit = "auto_restart" /\ timer = RestartSec
    \/ stage = "ready" /\ spent = READY_TIMEOUT
    \/ stage = "ip" /\ spent = IP_WAIT
    \/ stage \in {"attach", "attach_again", "orphan"} /\ spent = 1
    \/ resuming

\* Mutant: the clock of the start limit runs on.
UpToAny(n, limit) == n + 1

UpTo(n, limit) == IF n < limit THEN n + 1 ELSE n

Tick ==
    /\ ~Due
    /\ unit \in {"active", "failed"} => window.age <= StartLimitIntervalSec
    /\ window' = [window EXCEPT !.age = UpTo(@, StartLimitIntervalSec + 1)]
    /\ timer' = IF unit \in {"active", "failed"} THEN timer ELSE timer + 1
    /\ spent' = IF stage = "none" THEN 0 ELSE spent + 1
    /\ UNCHANGED <<unit, result, stage, fault, world, connected, resuming>>

System ==
    \/ PreStartFindsPort \/ PreStartGivesUp \/ Kill \/ Restart \/ TryRestart
    \/ Ready \/ Attached \/ Refused \/ Allowed \/ RefusedAgain \/ Connects \/ NoAddress \/ Fails
    \/ Tick
Next == System \/ Suspend \/ Change
Spec == Init /\ [][Next]_vars /\ WF_vars(System)

-----------------------------------------------------------------------------
\* After a resume the unit does not go on as active over the connection that the
\* suspend cut (module.nix:128-138), whatever it was doing when it came.
ActiveMeansConnected == unit = "active" /\ ~resuming => connected

\* The unit comes to rest: starts that take all the time they have, 180 seconds
\* and 30 to the next, still hit the limit of three in 15 minutes
\* (module.nix:166-178).
Settles == []<>(unit \in {"active", "failed"})

\* Exit code 2 ends it: no start of the unit's own accord, nor by a later resume
\* (module.nix:169-172).
ExitTwoIsFinal == [][result = "2" => unit' # "start_pre"]_vars

\* As the comment at module.nix:169 has it, a network that gives no service is
\* no reason to start over.
NetworkFaultIsFinal == [][unit = "auto_restart" /\ unit' = "start_pre" => fault # "network"]_vars
=============================================================================
