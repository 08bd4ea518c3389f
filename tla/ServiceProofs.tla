---------------------------- MODULE ServiceProofs ----------------------------
(***************************************************************************)
(* What TLAPS proves about module Service, for any number of suspends and  *)
(* of changes of the modem, the network and the port.                      *)
(***************************************************************************)
EXTENDS Service, TLAPS

\* Each state of the unit that ends by the clock ends in time, and the program's
\* stage is no older than its process.
Timely ==
    /\ unit = "start_pre" => timer <= PreStart
    /\ unit = "auto_restart" => timer <= RestartSec
    /\ unit = "start" => spent <= timer
    /\ unit # "start" => spent = 0

\* The result that ends it is only ever seen in a failed unit.
TwoIsFailed == result = "2" => unit = "failed"

ServiceInv == TypeOK /\ Timely /\ TwoIsFailed /\ ActiveMeansConnected

-----------------------------------------------------------------------------
\* A start leads to the pre-start or to a failed unit, and counts within the limit.
LEMMA TryStartProperties ==
    ASSUME TypeOK, TryStart
    PROVE  /\ unit' \in {"start_pre", "failed"} /\ timer' = 0
           /\ window' \in [age : 0..(StartLimitIntervalSec + 1), num : 1..StartLimitBurst]
BY DEF TypeOK, TryStart, Enter, StartLimitBurst, StartLimitIntervalSec

\* The end of a process decides on the unit: exit code 2 fails it for good.
LEMMA EndsProperties ==
    ASSUME TypeOK, NEW code \in {"0", "1", "2", "timeout"}, Ends(code)
    PROVE  /\ timer' = 0 /\ result' = code /\ window' = window
           /\ unit' \in {"active", "failed", "auto_restart"}
           /\ unit' = "active" => code = "0"
           /\ code = "2" => unit' = "failed"
BY DEF Ends, Enter, RestartPreventExitStatus

\* The invariant holds when the machine has just booted.
LEMMA InitService == Init => ServiceInv
<1> SUFFICES ASSUME Init PROVE ServiceInv
  OBVIOUS
<1>1. {port, connected, resuming} \subseteq BOOLEAN
  BY DEF Init
<1>2. window \in [age : 0..(StartLimitIntervalSec + 1), num : 1..StartLimitBurst]
  BY DEF Init, StartLimitIntervalSec, StartLimitBurst
<1>3. TypeOK
  BY ServiceAssumption, <1>1, <1>2 DEF Init, TypeOK, TimeoutStartSec
<1>4. Timely /\ TwoIsFailed /\ ActiveMeansConnected
  BY DEF Init, Timely, TwoIsFailed, ActiveMeansConnected, PreStart
<1> QED BY <1>3, <1>4 DEF ServiceInv

\* The invariant is kept by every step of the program.
LEMMA ProgramKeepsInv ==
    ASSUME ServiceInv,
           Ready \/ Attached \/ Refused \/ Allowed \/ RefusedAgain \/ Connects \/ NoAddress \/ Fails
    PROVE  ServiceInv'
<1> USE DEF ServiceInv
<1>1. CASE Ready \/ Attached \/ Refused \/ Allowed
  BY <1>1 DEF Ready, Attached, Refused, Allowed, To, unitVars, world, TypeOK, Timely, TwoIsFailed,
     ActiveMeansConnected, TimeoutStartSec
<1>2. ASSUME NEW code \in {"0", "1", "2"}, Exit(code), fault' \in {"none", "modem", "network"},
             IF code = "0" THEN connected' = TRUE ELSE connected' = connected
      PROVE  ServiceInv'
  <2>1. /\ timer' = 0 /\ result' = code /\ window' = window
        /\ unit' \in {"active", "failed", "auto_restart"}
        /\ unit' = "active" => code = "0"
        /\ code = "2" => unit' = "failed"
    BY <1>2, EndsProperties DEF Exit
  <2>2. stage' = "none" /\ spent' = 0 /\ UNCHANGED <<world, resuming>>
    BY <1>2 DEF Exit, NoProgram
  <2>b. {port, connected, resuming}' \subseteq BOOLEAN
    BY <1>2, <2>2 DEF TypeOK, world
  <2>3. TypeOK'
    BY <1>2, <2>1, <2>2, <2>b DEF TypeOK, world, TimeoutStartSec
  <2>4. Timely' /\ TwoIsFailed' /\ ActiveMeansConnected'
    BY <1>2, <2>1, <2>2 DEF Timely, TwoIsFailed, ActiveMeansConnected, RestartSec
  <2> QED BY <2>3, <2>4
<1>3. CASE RefusedAgain \/ NoAddress
  BY <1>2, <1>3 DEF RefusedAgain, NoAddress
<1>4. CASE Connects
  BY <1>2, <1>4 DEF Connects, TypeOK
<1>5. CASE Fails
  BY <1>2, <1>5 DEF Fails
<1> QED BY <1>1, <1>3, <1>4, <1>5

\* And by every step of the unit.
LEMMA UnitKeepsInv ==
    ASSUME ServiceInv, PreStartFindsPort \/ PreStartGivesUp \/ Kill \/ Restart \/ TryRestart
    PROVE  ServiceInv'
<1> USE DEF ServiceInv
<1>1. CASE PreStartFindsPort
  BY <1>1 DEF PreStartFindsPort, Enter, world, TypeOK, Timely, TwoIsFailed, ActiveMeansConnected,
     TimeoutStartSec
<1>2. ASSUME NEW code \in {"1", "timeout"}, Ends(code), NoProgram \/ (UNCHANGED <<stage, spent>> /\ stage = "none"),
             fault' \in {"modem", "network"}, UNCHANGED <<world, connected, resuming>>
      PROVE  ServiceInv'
  <2>1. /\ timer' = 0 /\ result' = code /\ window' = window
        /\ unit' \in {"failed", "auto_restart"}
    BY <1>2, EndsProperties
  <2>2. stage' = "none" /\ spent' = 0
    BY <1>2 DEF NoProgram, Timely, TypeOK
  <2>3. TypeOK'
    BY <1>2, <2>1, <2>2 DEF TypeOK, world, TimeoutStartSec
  <2>4. Timely' /\ TwoIsFailed' /\ ActiveMeansConnected'
    BY <1>2, <2>1, <2>2 DEF Timely, TwoIsFailed, ActiveMeansConnected, RestartSec
  <2> QED BY <2>3, <2>4
<1>3. CASE PreStartGivesUp
  BY <1>2, <1>3 DEF PreStartGivesUp, TypeOK
<1>4. CASE Kill
  BY <1>2, <1>4 DEF Kill, FaultNow
<1>5. ASSUME TryStart, UNCHANGED <<result, fault, world, connected>>, resuming' \in BOOLEAN,
             unit # "failed",
             NoProgram \/ (UNCHANGED <<stage, spent>> /\ stage = "none")
      PROVE  ServiceInv'
  <2>1. /\ unit' \in {"start_pre", "failed"} /\ timer' = 0
        /\ window' \in [age : 0..(StartLimitIntervalSec + 1), num : 1..StartLimitBurst]
    BY <1>5, TryStartProperties
  <2>2. stage' = "none" /\ spent' = 0
    BY <1>5 DEF NoProgram, Timely, TypeOK
  <2>3. TypeOK'
    BY <1>5, <2>1, <2>2 DEF TypeOK, world, TimeoutStartSec
  <2>4. Timely' /\ TwoIsFailed' /\ ActiveMeansConnected'
    BY <1>5, <2>1, <2>2 DEF Timely, TwoIsFailed, ActiveMeansConnected, PreStart
  <2> QED BY <2>3, <2>4
<1>6. CASE Restart
  BY <1>5, <1>6 DEF Restart, TypeOK, programVars
<1>7. CASE TryRestart
  <2>1. CASE unit = "failed"
    BY <1>7, <2>1 DEF TryRestart, unitVars, programVars, world, TypeOK, Timely, TwoIsFailed,
       ActiveMeansConnected
  <2>2. CASE unit # "failed"
    BY <1>5, <1>7, <2>2 DEF TryRestart
  <2> QED BY <2>1, <2>2
<1> QED BY <1>1, <1>3, <1>4, <1>6, <1>7

\* And by time and the world around.
LEMMA WorldKeepsInv ==
    ASSUME ServiceInv, Tick \/ Suspend \/ Change
    PROVE  ServiceInv'
<1> USE DEF ServiceInv
<1>1. CASE Tick
  <2>1. /\ UNCHANGED <<unit, result, stage, fault, world, connected, resuming>> /\ ~Due
        /\ window' = [window EXCEPT !.age = UpTo(@, StartLimitIntervalSec + 1)]
        /\ timer' = IF unit \in {"active", "failed"} THEN timer ELSE timer + 1
        /\ spent' = IF stage = "none" THEN 0 ELSE spent + 1
    BY <1>1 DEF Tick
  <2>2. window' \in [age : 0..(StartLimitIntervalSec + 1), num : 1..StartLimitBurst]
    BY <2>1 DEF TypeOK, UpTo, StartLimitIntervalSec, StartLimitBurst
  <2>3. /\ unit = "start_pre" => timer + 1 <= PreStart
        /\ unit = "auto_restart" => timer + 1 <= RestartSec
        /\ unit = "start" => timer + 1 <= TimeoutStartSec
    BY <2>1 DEF Due, Timely, TypeOK, PreStart, RestartSec, TimeoutStartSec
  <2>4. timer' \in 0..TimeoutStartSec /\ spent' \in 0..TimeoutStartSec
    BY <2>1, <2>3 DEF TypeOK, Timely, PreStart, RestartSec, TimeoutStartSec
  <2>5. TypeOK'
    BY <2>1, <2>2, <2>4 DEF TypeOK, world
  <2>6. Timely'
    BY <2>1, <2>3 DEF Timely, TypeOK, PreStart, RestartSec, TimeoutStartSec
  <2> QED BY <2>1, <2>5, <2>6 DEF TwoIsFailed, ActiveMeansConnected
<1>2. CASE Suspend
  <2>1. /\ UNCHANGED <<unit, timer, window, result, network, fault, changes, spent>>
        /\ suspends' \in 0..MaxSuspends /\ modem' \in {"up", "dead"}
        /\ resuming' = TRUE
        /\ stage' = IF stage = "none" THEN "none" ELSE "orphan"
    BY <1>2, ServiceAssumption DEF Suspend, unitVars, TypeOK
  <2>2. {port, connected, resuming}' \subseteq BOOLEAN
    BY <1>2 DEF Suspend
  <2>3. TypeOK'
    BY <2>1, <2>2 DEF TypeOK
  <2> QED BY <2>1, <2>3 DEF Timely, TwoIsFailed, ActiveMeansConnected
<1>3. CASE Change
  <2>1. /\ UNCHANGED <<unitVars, programVars, connected, resuming, suspends>>
        /\ changes' \in 0..MaxChanges
        /\ modem' \in {"up", "dead"} /\ network' \in {"good", "refuses", "no_ip"} /\ port' \in BOOLEAN
    <3>1. /\ UNCHANGED <<unitVars, programVars, connected, resuming, suspends>>
          /\ changes < MaxChanges /\ changes' = changes + 1
      BY <1>3 DEF Change
    <3>2. changes' \in 0..MaxChanges
      BY <3>1, ServiceAssumption DEF TypeOK
    <3>3. modem \in {"up", "dead"} /\ network \in {"good", "refuses", "no_ip"} /\ port \in BOOLEAN
      BY DEF TypeOK
    <3>4. modem' \in {"up", "dead"} /\ network' \in {"good", "refuses", "no_ip"} /\ port' \in BOOLEAN
      BY <1>3, <3>3 DEF Change
    <3> QED BY <3>1, <3>2, <3>4
  <2>2. {port, connected, resuming}' \subseteq BOOLEAN
    BY <2>1 DEF TypeOK
  <2>3. TypeOK'
    BY <2>1, <2>2 DEF unitVars, programVars, TypeOK
  <2> QED BY <2>1, <2>3 DEF unitVars, programVars, Timely, TwoIsFailed, ActiveMeansConnected
<1> QED BY <1>1, <1>2, <1>3

\* The invariant is inductive.
LEMMA NextService == ServiceInv /\ [Next]_vars => ServiceInv'
<1> SUFFICES ASSUME ServiceInv, [Next]_vars PROVE ServiceInv'
  OBVIOUS
<1>1. CASE Next
  BY <1>1, ProgramKeepsInv, UnitKeepsInv, WorldKeepsInv DEF Next, System
<1>2. CASE UNCHANGED vars
  BY <1>2 DEF vars, unitVars, programVars, world, ServiceInv, TypeOK, Timely, TwoIsFailed,
     ActiveMeansConnected
<1> QED BY <1>1, <1>2

\* Hence the invariant holds of every behaviour.
LEMMA ServiceInvAlways == Spec => []ServiceInv
<1>1. Init => ServiceInv
  BY InitService
<1>2. ServiceInv /\ [Next]_vars => ServiceInv'
  BY NextService
<1> QED BY <1>1, <1>2, PTL DEF Spec

-----------------------------------------------------------------------------
\* No timer of the unit runs over, and the program is there exactly while the
\* unit is starting (module.nix:145-178).
THEOREM ServiceTypeCorrect == Spec => []TypeOK
<1>1. ServiceInv => TypeOK
  BY DEF ServiceInv
<1> QED BY <1>1, ServiceInvAlways, PTL

\* However often and whenever the machine suspends, the unit does not stay active
\* over a connection that was cut (module.nix:133-138).
THEOREM ActiveAlwaysConnected == Spec => []ActiveMeansConnected
<1>1. ServiceInv => ActiveMeansConnected
  BY DEF ServiceInv
<1> QED BY <1>1, ServiceInvAlways, PTL

\* No step starts the unit after exit code 2 (module.nix:169-172).
THEOREM ExitTwoAlwaysFinal == Spec => ExitTwoIsFinal
<1>1. ServiceInv /\ [Next]_vars => [result = "2" => unit' # "start_pre"]_vars
  <2> SUFFICES ASSUME ServiceInv, Next, result = "2" PROVE unit' # "start_pre"
    OBVIOUS
  <2>1. unit = "failed" /\ stage = "none"
    BY DEF ServiceInv, TwoIsFailed, TypeOK
  <2>2. CASE System
    BY <2>1, <2>2 DEF System, PreStartFindsPort, PreStartGivesUp, Kill, Restart, TryRestart, Ready,
       Attached, Refused, Allowed, RefusedAgain, Connects, NoAddress, Fails, Tick, unitVars
  <2>3. CASE Suspend \/ Change
    BY <2>1, <2>3 DEF Suspend, Change, unitVars
  <2> QED BY <2>2, <2>3 DEF Next
<1> QED BY <1>1, ServiceInvAlways, PTL DEF Spec, ExitTwoIsFinal
=============================================================================
