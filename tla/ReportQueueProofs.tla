------------------------- MODULE ReportQueueProofs -------------------------
(* Theorems about ReportQueue, for all sets of reports and all bounds.     *)
EXTENDS ReportQueue, TLAPS

\* While the list exists the count is its length, the thread is woken only for
\* a report or to stop, and it holds a report only while it deals with it.
IInv ==
  /\ TypeOK
  /\ ~destroyed => length = Len(list)
  /\ destroyed => stopFlag /\ list = <<>>
  /\ pc = "woken" => stopFlag \/ list # <<>>
  /\ pc = "undefined" => ~stopFlag
  /\ SleepsOnNothing
  /\ IF pc = "deal" THEN report \in Reports ELSE report = Nothing

\* The thread finds a report, unless its wait ended by itself.
LEMMA ListHasReport ==
  ASSUME IInv, Holds, ~stopFlag, pc # "stray"
  PROVE  list # <<>>
<1>1. ~destroyed BY DEF IInv
<1>2. list \in Seq(Reports) /\ length = Len(list) BY <1>1 DEF IInv, TypeOK
<1>3. CASE pc = "woken" BY <1>3 DEF IInv
<1>4. CASE pc = "lock" /\ ~MustWait BY <1>2, <1>4 DEF MustWait
<1> QED BY <1>3, <1>4 DEF Holds

\* The count of a list from which a report is taken.
LEMMA TakeCounts ==
  ASSUME IInv, Take
  PROVE  ~destroyed /\ length > 0
<1>1. ~destroyed BY DEF Take, IInv
<1>2. list \in Seq(Reports) /\ length = Len(list) BY <1>1 DEF IInv, TypeOK
<1>3. list # <<>> BY DEF Take
<1>4. length > 0 BY <1>2, <1>3
<1> QED BY <1>1, <1>4

LEMMA InitInv == Init => IInv
<1>1. <<>> \in Seq(Reports) /\ Len(<<>>) = 0 OBVIOUS
<1>2. Init => list \in Seq(Reports) BY <1>1, Zenon DEF Init
<1>3. 0 \in Nat OBVIOUS
<1>4. Init => TypeOK BY <1>2, <1>3, Zenon DEF Init, TypeOK, Places
<1> QED BY <1>1, <1>4, Zenon DEF Init, IInv, SleepsOnNothing

LEMMA NextInv ==
  ASSUME IInv, [Next]_vars
  PROVE  IInv'
<1> USE DEF IInv, TypeOK, Places, SleepsOnNothing
<1>1. ASSUME NEW r \in Reports, Put(r) PROVE IInv'
  <2>1. /\ list' = Append(list, r) /\ list' \in Seq(Reports)
        /\ Len(list') = Len(list) + 1 /\ list' # <<>>
    BY <1>1 DEF Put
  <2>2. length' = length + 1 /\ length' \in Nat BY <1>1 DEF Put
  <2>3. pc' = IF pc = "wait" THEN "woken" ELSE pc BY <1>1 DEF Put, Signal
  <2>4. UNCHANGED <<report, stopFlag, destroyed>> /\ ~destroyed BY <1>1 DEF Put
  <2> QED BY <2>1, <2>2, <2>3, <2>4
<1>2. CASE Test BY <1>2 DEF Test
<1>3. CASE Wait
  <2>1. list = <<>>
    <3>1. CASE ~destroyed
      <4>1. Len(list) \in Nat /\ Len(list) <= 0 BY <1>3, <3>1 DEF Wait, MustWait
      <4> QED BY <4>1
    <3> QED BY <3>1
  <2> QED BY <1>3, <2>1 DEF Wait
<1>4. CASE Leave
  <2>1. pc # "deal" BY <1>4 DEF Leave, Holds
  <2> QED BY <1>4, <2>1 DEF Leave
<1>5. CASE Take
  <2>1. ~destroyed /\ length > 0
    BY <1>5, TakeCounts
  <2>2. list # <<>> /\ report' = Head(list) /\ list' = Tail(list)
    BY <1>5 DEF Take
  <2>3. /\ report' \in Reports /\ list' \in Seq(Reports)
        /\ Len(list') = Len(list) - 1
    BY <2>2
  <2>4. /\ length' = length - 1 /\ pc' = "deal" /\ ~stopFlag
        /\ UNCHANGED <<stopFlag, destroyed>>
    BY <1>5 DEF Take
  <2> QED BY <2>1, <2>3, <2>4
<1>6. CASE Deal BY <1>6 DEF Deal
<1>7. CASE pc # "undefined" /\ Stop BY <1>7 DEF Stop, Signal
<1>8. CASE DestroyList BY <1>8 DEF DestroyList
<1>9. CASE UNCHANGED vars BY <1>9 DEF vars
<1>10. CASE Stray BY <1>10 DEF Stray
<1>11. CASE TakeHead
  <2>1. pc # "deal" BY <1>11 DEF TakeHead, Holds
  <2> QED BY <1>11, <2>1 DEF TakeHead
<1> QED
  BY <1>1, <1>2, <1>3, <1>4, <1>5, <1>6, <1>7, <1>8, <1>9, <1>10, <1>11
     DEF Next, Handle

LEMMA Invariant == Spec => []IInv
BY InitInv, NextInv, PTL DEF Spec

\* The count of the list is never negative, and the list holds reports only.
THEOREM TypeCorrect == Spec => []TypeOK
<1>1. IInv => TypeOK BY DEF IInv
<1> QED BY Invariant, <1>1, PTL

\* The report thread finds a report whenever it takes one, whatever the threads
\* that put reports in and the one that stops it do, unless pthread_cond_wait
\* returned without a signal.
THEOREM TakesWhatWaits == Spec => TakesReports
<1>1. ASSUME IInv, [Next]_vars, pc' = "undefined"
      PROVE  pc = "stray" \/ pc = "undefined"
  <2>1. CASE TakeHead BY <1>1, <2>1, ListHasReport DEF TakeHead
  <2>2. CASE ~TakeHead
    BY <1>1, <2>2 DEF Next, Handle, Put, Signal, Test, Wait, Leave, Take, Deal,
                      Stray, Stop, DestroyList, vars
  <2> QED BY <2>1, <2>2
<1>2. IInv /\ [Next]_vars =>
        [pc' = "undefined" => pc = "stray" \/ pc = "undefined"]_vars
  BY <1>1
<1> QED BY Invariant, <1>2, PTL DEF Spec, TakesReports

\* pjsip_report_handle sleeps on an empty list only, however the signals of the
\* threads that put reports in fall between its steps.
THEOREM NoWakeUpMissed == Spec => []SleepsOnNothing
<1>1. IInv => SleepsOnNothing BY DEF IInv
<1> QED BY Invariant, <1>1, PTL

LEMMA StepRefines ==
  ASSUME IInv, [Next]_vars
  PROVE  [Fifo!Next]_(Fifo!vars)
<1>1. ASSUME NEW r \in Reports, Put(r), pc # "undefined" PROVE Fifo!Put(r)
  BY <1>1 DEF Put, Signal, Fifo!Put
<1>2. CASE Take
  <2>1. /\ list # <<>> /\ report' = Head(list) /\ list' = Tail(list)
        /\ ~stopFlag /\ stopFlag' = stopFlag
        /\ pc # "deal" /\ pc # "undefined" /\ pc' # "undefined"
    BY <1>2 DEF Take, Holds
  <2>2. report = Nothing BY <2>1 DEF IInv
  <2> QED BY <2>1, <2>2 DEF Fifo!Next, Fifo!Take
<1>3. CASE Deal
  <2>1. report \in Reports BY <1>3 DEF Deal, IInv
  <2>2. report # Nothing BY <2>1, ReportsAssumption
  <2> QED BY <1>3, <2>2 DEF Deal, Fifo!Next, Fifo!Finish
<1>4. CASE Stop BY <1>4 DEF Stop, Fifo!Next, Fifo!Close
<1>5. CASE DestroyList BY <1>5 DEF DestroyList, Fifo!Next, Fifo!Drop
<1>6. CASE Test \/ Wait \/ Leave \/ Stray
  BY <1>6 DEF Test, Wait, Leave, Stray, Holds, Fifo!vars
<1>7. CASE TakeHead BY <1>7 DEF TakeHead, Fifo!Next, Fifo!Close
<1>8. CASE UNCHANGED vars BY <1>8 DEF vars, Fifo!vars
<1> QED
  BY <1>1, <1>2, <1>3, <1>4, <1>5, <1>6, <1>7, <1>8
     DEF Next, Handle, Fifo!Next

\* Reports are dealt with one at a time, in the order of arrival, none twice and
\* none lost before the list is stopped, or taken from while it is empty.
THEOREM ImplementsFifo == Spec => FifoSteps
<1>1. Init => Fifo!Init BY DEF Init, Fifo!Init
<1> QED BY Invariant, <1>1, StepRefines, PTL DEF Spec, FifoSteps
=============================================================================
