---------------------------- MODULE ReportFifo ----------------------------
(***************************************************************************)
(* What the report lists of the gateway promise to the threads that put    *)
(* reports into them: each report is dealt with once, one at a time, in    *)
(* the order of arrival and some time later; closing the list drops what   *)
(* is left, and nothing is taken from a closed one.                        *)
(***************************************************************************)
EXTENDS Sequences

CONSTANTS Reports, Nothing

VARIABLES
  queue,     \* the reports that wait
  dealing,   \* the one that is being dealt with, or Nothing
  open

vars == <<queue, dealing, open>>

Init == queue = <<>> /\ dealing = Nothing /\ open = TRUE

Put(r) ==
  /\ queue' = Append(queue, r)
  /\ UNCHANGED <<dealing, open>>

Take ==
  /\ open
  /\ dealing = Nothing
  /\ queue # <<>>
  /\ dealing' = Head(queue)
  /\ queue' = Tail(queue)
  /\ UNCHANGED open

Finish ==
  /\ dealing # Nothing
  /\ dealing' = Nothing
  /\ UNCHANGED <<queue, open>>

Close == open' = FALSE /\ UNCHANGED <<queue, dealing>>

Drop ==
  /\ ~open
  /\ queue' = <<>>
  /\ UNCHANGED <<dealing, open>>

Next == Take \/ Finish \/ Close \/ Drop \/ \E r \in Reports : Put(r)

Spec == Init /\ [][Next]_vars /\ WF_vars(Take) /\ WF_vars(Finish)
=============================================================================
