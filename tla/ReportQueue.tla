---------------------------- MODULE ReportQueue ----------------------------
(***************************************************************************)
(* The report lists of the gateway process: pjsip_mgr.c has one for what   *)
(* clients and server send, gateway_mgr.c the same one for the answers of  *)
(* the devices.  Threads of the network or of the devices put reports in,  *)
(* one thread takes them out, the main thread or the handler of SIGTERM    *)
(* stops it.                                                               *)
(*                                                                         *)
(* The code between LOCK_MUTEX and UNLOCK_MUTEX, or COND_WAIT, is a step.  *)
(* The flag that stops the thread is also tested outside the mutex.        *)
(* pthread_cond_wait may also return by itself, and stands in an if: the   *)
(* thread then takes from a list that may be empty.  What it takes is the  *)
(* list head; the memory behind it is dealt with and freed as a report.    *)
(* That is undefined, and what the process does afterwards not followed.   *)
(***************************************************************************)
EXTENDS Integers, Sequences

CONSTANTS
  Reports,     \* what the reports hold
  Nothing,     \* no report
  MaxWaiting   \* bound: reports in the list

ASSUME ReportsAssumption == Nothing \notin Reports /\ MaxWaiting \in Nat

VARIABLES
  list,       \* pjsip_report_list
  length,     \* length_pjsip
  pc,         \* where the report thread is
  report,     \* rlist, the report it deals with
  stopFlag,   \* stop_flag_pjsip
  destroyed   \* the list and the mutex were destroyed

vars == <<list, length, pc, report, stopFlag, destroyed>>

\* "test": at the while; "lock": before the mutex; "wait": in COND_WAIT;
\* "woken": signalled; "stray": COND_WAIT returned by itself; "deal": in
\* deal_with_pjsip_report; "ended": returned; "undefined": see above.
Places ==
  {"test", "lock", "wait", "woken", "stray", "deal", "ended", "undefined"}

TypeOK ==
  /\ list \in Seq(Reports)
  /\ length \in Nat
  /\ pc \in Places
  /\ report \in Reports \cup {Nothing}
  /\ stopFlag \in BOOLEAN
  /\ destroyed \in BOOLEAN

Init ==
  /\ list = <<>>
  /\ length = 0
  /\ pc = "test"
  /\ report = Nothing
  /\ stopFlag = FALSE
  /\ destroyed = FALSE

\* SIGNAL_COND wakes the thread if it waits, and is lost otherwise.
Signal == pc' = IF pc = "wait" THEN "woken" ELSE pc

\* Defect: list_add instead of list_add_tail.
PutFirst(r) ==
  /\ ~destroyed
  /\ Len(list) < MaxWaiting
  /\ list' = <<r>> \o list
  /\ length' = length + 1
  /\ Signal
  /\ UNCHANGED <<report, stopFlag, destroyed>>

\* Defect: the thread is not signalled.
PutSilently(r) ==
  /\ ~destroyed
  /\ Len(list) < MaxWaiting
  /\ list' = Append(list, r)
  /\ length' = length + 1
  /\ UNCHANGED <<pc, report, stopFlag, destroyed>>

\* recv_pjsip_buff_callback, recv_gateway_buff_callback.
Put(r) ==
  /\ ~destroyed
  /\ Len(list) < MaxWaiting
  /\ list' = Append(list, r)
  /\ length' = length + 1
  /\ Signal
  /\ UNCHANGED <<report, stopFlag, destroyed>>
-----------------------------------------------------------------------------
(* The report thread.                                                      *)

Test ==
  /\ pc = "test"
  /\ pc' = IF stopFlag THEN "ended" ELSE "lock"
  /\ UNCHANGED <<list, length, report, stopFlag, destroyed>>

\* Defect: an empty list is not waited for.
MustWaitNever == length < 0

MustWait == length <= 0

Wait ==
  /\ pc = "lock"
  /\ MustWait
  /\ pc' = "wait"
  /\ UNCHANGED <<list, length, report, stopFlag, destroyed>>

\* pthread_cond_wait may return without a signal.
Stray ==
  /\ pc = "wait"
  /\ pc' = "stray"
  /\ UNCHANGED <<list, length, report, stopFlag, destroyed>>

\* The mutex is held and the wait, if there was one, is over.
Holds == pc \in {"woken", "stray"} \/ (pc = "lock" /\ ~MustWait)

Leave ==
  /\ Holds
  /\ stopFlag
  /\ pc' = "ended"
  /\ UNCHANGED <<list, length, report, stopFlag, destroyed>>

\* Defect: the flag is not tested again after the wait.
TakeUnchecked ==
  /\ Holds
  /\ report' = IF list = <<>> THEN Nothing ELSE Head(list)
  /\ list' = IF list = <<>> THEN <<>> ELSE Tail(list)
  /\ length' = length - 1
  /\ pc' = "deal"
  /\ UNCHANGED <<stopFlag, destroyed>>

Take ==
  /\ Holds
  /\ ~stopFlag
  /\ list # <<>>
  /\ report' = Head(list)
  /\ list' = Tail(list)
  /\ length' = length - 1
  /\ pc' = "deal"
  /\ UNCHANGED <<stopFlag, destroyed>>

\* list_entry of an empty list is the list head itself, not a report.
TakeHead ==
  /\ Holds
  /\ ~stopFlag
  /\ list = <<>>
  /\ pc' = "undefined"
  /\ UNCHANGED <<list, length, report, stopFlag, destroyed>>

\* deal_with_pjsip_report, deal_with_gateway_report; the report is freed.
Deal ==
  /\ pc = "deal"
  /\ pc' = "test"
  /\ report' = Nothing
  /\ UNCHANGED <<list, length, stopFlag, destroyed>>
-----------------------------------------------------------------------------
(* stop_pjsip_report_handle_thread, stop_gateway_report_handle_thread.     *)

Stop ==
  /\ ~stopFlag
  /\ stopFlag' = TRUE
  /\ Signal
  /\ UNCHANGED <<list, length, report, destroyed>>

\* After sleep(0.5), which is sleep(0); length_pjsip keeps its value.  What
\* callbacks do with the destroyed mutex is not followed.
DestroyList ==
  /\ stopFlag
  /\ ~destroyed
  /\ list' = <<>>
  /\ destroyed' = TRUE
  /\ UNCHANGED <<length, pc, report, stopFlag>>

Handle == Test \/ Wait \/ Leave \/ Take \/ TakeHead \/ Deal

Next ==
  /\ pc # "undefined"
  /\ Handle \/ Stray \/ Stop \/ DestroyList \/ \E r \in Reports : Put(r)

Spec == Init /\ [][Next]_vars

\* The report thread is scheduled.
FairSpec == Spec /\ WF_vars(Handle) /\ WF_vars(DestroyList)
-----------------------------------------------------------------------------
(* What makes the list correct.                                            *)

\* The thread takes a report from an empty list only if its wait ended without a
\* signal, against which the if around COND_WAIT is no help: not because the
\* count and the list are two things, because signals and the stop come between
\* its steps, or because the list is destroyed while it is about to take.
TakesReports == [][pc' = "undefined" => pc = "stray" \/ pc = "undefined"]_vars

\* The thread never sleeps over a report, although a signal is lost while it is
\* awake and the count, by which it decides to sleep, outlives the list.
SleepsOnNothing == pc = "wait" => list = <<>>

Fifo == INSTANCE ReportFifo
          WITH queue <- list, dealing <- report,
               open <- ~stopFlag /\ pc # "undefined"

\* Every step is a step of the promised list or leaves it alone: no report is
\* lost, doubled or overtaken, although signals sent while the thread is
\* busy are lost.  A wait that ends by itself on an empty list closes the list,
\* in the worst way.
FifoSteps == Fifo!Init /\ [][Fifo!Next]_(Fifo!vars)

\* The list implements the promised one: besides, a report that waits is dealt
\* with, unless the list is stopped, so that no wake-up is missed.
FifoSpec == Fifo!Spec
=============================================================================
