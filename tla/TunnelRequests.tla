-------------------------- MODULE TunnelRequests --------------------------
(***************************************************************************)
(* What KNXKernel.cpp promises to the callers of WriteGrpVal and           *)
(* ReadGrpVal: an accepted request is held until it ends, once and for     *)
(* good, as acknowledged or given up; only an accepted request is put on   *)
(* the bus, and within a connection to the interface only once.  A write   *)
(* may lose its data on the way: then it is not put on the bus any more,   *)
(* nor acknowledged, and taking it up again ends the process.  How often a *)
(* request is sent, which thread holds it and where is not said.           *)
(***************************************************************************)
CONSTANTS Requests, Writes

VARIABLES
  phase,  \* "new", "held" (accepted), "wiped", "done" (acknowledged), "dropped"
  bus,    \* requests put on the bus in this connection
  alive   \* the process runs

vars == <<phase, bus, alive>>

Init ==
  /\ phase = [r \in Requests |-> "new"]
  /\ bus = {}
  /\ alive = TRUE

Accept(r) ==
  /\ alive /\ phase[r] = "new"
  /\ phase' = [phase EXCEPT ![r] = "held"]
  /\ UNCHANGED <<bus, alive>>

\* Perhaps after the caller's side has given up, has taken another ack for
\* the one of this request, or has crashed.
Execute(r) ==
  /\ phase[r] \notin {"new", "wiped"} /\ r \notin bus
  /\ bus' = bus \cup {r}
  /\ UNCHANGED <<phase, alive>>

Acknowledge(r) ==
  /\ alive /\ phase[r] = "held"
  /\ phase' = [phase EXCEPT ![r] = "done"]
  /\ UNCHANGED <<bus, alive>>

Wipe(r) ==
  /\ alive /\ phase[r] = "held" /\ r \in Writes
  /\ phase' = [phase EXCEPT ![r] = "wiped"]
  /\ UNCHANGED <<bus, alive>>

\* One request whose sending failed, or the whole list at once.
GiveUp(S) ==
  /\ alive /\ \A r \in S : phase[r] \in {"held", "wiped"}
  /\ phase' = [r \in Requests |-> IF r \in S THEN "dropped" ELSE phase[r]]
  /\ UNCHANGED <<bus, alive>>

Reconnect == alive /\ bus' = {} /\ UNCHANGED <<phase, alive>>

Crash ==
  /\ alive /\ \E r \in Requests : phase[r] = "wiped"
  /\ alive' = FALSE
  /\ UNCHANGED <<phase, bus>>

Next ==
  \/ \E r \in Requests : Accept(r) \/ Execute(r) \/ Acknowledge(r) \/ Wipe(r)
  \/ \E S \in SUBSET Requests : GiveUp(S)
  \/ Reconnect
  \/ Crash

Spec == Init /\ [][Next]_vars
=============================================================================
