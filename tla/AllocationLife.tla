-------------------------- MODULE AllocationLife --------------------------
(***************************************************************************)
(* What pj/allocation.c promises about the life of a TURN allocation,      *)
(* whichever of the server's threads carries it out: it is opened with a   *)
(* relay socket, it is closed once, and only a closed allocation is taken  *)
(* from the server's table.  A closed allocation does not stay: it is gone *)
(* some time later, unless the process has stopped.                        *)
(***************************************************************************)
CONSTANT Allocs

VARIABLES
  phase,    \* "new" (not created), "open", "closed" (shutting down), "gone"
  running   \* the process has not been stopped by an assertion or a fault

vars == <<phase, running>>

Phases == {"new", "open", "closed", "gone"}

TypeOK == phase \in [Allocs -> Phases] /\ running \in BOOLEAN

Init ==
  /\ phase = [a \in Allocs |-> "new"]
  /\ running = TRUE

Becomes(a, from, to) ==
  /\ running
  /\ phase[a] = from
  /\ phase' = [phase EXCEPT ![a] = to]
  /\ UNCHANGED running

\* ALLOCATE succeeds.
Open(a) == Becomes(a, "new", "open")

\* ALLOCATE fails after the object was made.
Abandon(a) == Becomes(a, "new", "gone")

\* The relay socket is closed: no data passes from here on.
Close(a) == Becomes(a, "open", "closed")

\* The allocation leaves the table; its address can allocate again.
Remove(a) == Becomes(a, "closed", "gone")

Stop == running /\ running' = FALSE /\ UNCHANGED phase

Next == Stop \/ \E a \in Allocs : Open(a) \/ Abandon(a) \/ Close(a) \/ Remove(a)

Spec == Init /\ [][Next]_vars /\ \A a \in Allocs : WF_vars(Remove(a))
=============================================================================
