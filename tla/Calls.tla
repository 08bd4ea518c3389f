------------------------------- MODULE Calls -------------------------------
(***************************************************************************)
(* What the transport promises whoever drives it, without saying how: one  *)
(* blocking call at a time, and every response it hands back answers a     *)
(* request that was written and is not settled yet.  A request is settled  *)
(* once its response was handed back, once the response to a later request *)
(* was, or once the port was reopened.  So no response is handed back      *)
(* twice, none out of order, and none from before a reopen.                *)
(*                                                                         *)
(* Nothing is promised about WHICH unsettled request a response answers:   *)
(* the code does not match responses to requests (see Rpc).                *)
(***************************************************************************)
EXTENDS Naturals

VARIABLES
    sent,       \* number of requests written; the last one's identity
    settled,    \* requests up to this one can get no response any more
    busy        \* a blocking call is in progress

vars == <<sent, settled, busy>>

TypeOK ==
    /\ sent \in Nat
    /\ settled \in 0..sent
    /\ busy \in BOOLEAN

Init ==
    /\ sent = 0
    /\ settled = 0
    /\ busy = FALSE

\* A call starts and writes a request.
Request ==
    /\ ~busy
    /\ sent' = sent + 1
    /\ busy' = TRUE
    /\ UNCHANGED settled

\* A call starts that writes nothing: it listens, or it reopens the port.
Listen ==
    /\ ~busy
    /\ busy' = TRUE
    /\ UNCHANGED <<sent, settled>>

\* The call ends with a response, which settles its request and every older one.
Answer ==
    /\ busy
    /\ busy' = FALSE
    /\ settled' \in (settled + 1)..sent
    /\ UNCHANGED sent

\* The call ends without one: an error, a timeout, an indication.
EndWithout ==
    /\ busy
    /\ busy' = FALSE
    /\ UNCHANGED <<sent, settled>>

\* The call ends having reopened the port: a clean slate.
CleanSlate ==
    /\ busy
    /\ busy' = FALSE
    /\ settled' = sent
    /\ UNCHANGED sent

Next == Request \/ Listen \/ Answer \/ EndWithout \/ CleanSlate

Spec == Init /\ [][Next]_vars
=============================================================================
