----------------------- MODULE TurnAllocationProofs -----------------------
(***************************************************************************)
(* Proofs about TurnAllocation, for every set of clients, allocations and  *)
(* workers and any number of packets:                                      *)
(*                                                                         *)
(*   TypeCorrect          Spec => []TypeOK                                 *)
(*   ImplementsLife       Spec => LifeSteps                                *)
(*   NoneForgotten        Spec => []NeverForgotten                         *)
(*   LookUpsAreSafe       Spec => []LookUpsFindLive                        *)
(*                                                                         *)
(* The first two rest on the inductive invariant IInv.  What it adds to    *)
(* the types is what each thread may assume of the allocation it works on, *)
(* although it holds no lock: above all, that the relay socket is closed   *)
(* on the way to the destroy timer and from there to the table.  The other *)
(* two rest on IInv and DutyInv: a timer that is missing is owed by a      *)
(* thread, and what destroy_allocation works on is off the table.          *)
(***************************************************************************)
EXTENDS TurnAllocation, TLAPS

\* Inside destroy_relay.
RelayPCs == {"relay.test", "relay.cancel", "relay.clear", "relay.close"}

\* After destroy_relay on the way to the destroy timer, and from the destroy
\* timer to the end.
ClosedPCs == {"shutdown.mark", "shutdown.schedule", "timer.destroy",
              "destroy.unregister", "destroy.lock", "destroy.unlock",
              "destroy.free"}

\* What holds of a thread wherever the others stand.
ThreadInv(t) ==
  /\ thr[t].pc # "idle" => thr[t].on \in made
  /\ thr[t].locked # NoAlloc => thr[t].locked \in made
  /\ thr[t].ret # "none" <=> thr[t].pc \in RelayPCs
  /\ thr[t].pc \in ClosedPCs \/ thr[t].ret = "destroy.lock" => ~sock[thr[t].on]

\* What holds of the allocations.
AllocInv ==
  /\ \A c \in Clients : table[c] # NoAlloc => table[c] \in made
  /\ \A a \in Allocs : sock[a] => a \in made
  /\ \A a \in Allocs : timerId[a] = "destroy" => ~sock[a]

IInv ==
  /\ TypeOK
  /\ \A t \in Threads : ThreadInv(t)
  /\ AllocInv

\* Only thread t moves.
Alone(t) == \A u \in Threads \ {t} : thr'[u] = thr[u]

\* What no step takes back: objects are not unmade, sockets of made objects
\* are not opened again.
Monotone ==
  /\ made \subseteq made'
  /\ \A a \in made : sock'[a] => sock[a]
-----------------------------------------------------------------------------
(* How the control helpers move a thread.                                  *)

\* Goto changes the position and nothing else.
LEMMA GotoFields ==
  ASSUME thr \in [Threads -> ThreadStates], NEW t \in Threads, NEW pc \in PCs,
         Goto(t, pc)
  PROVE  /\ thr' \in [Threads -> ThreadStates]
         /\ Alone(t)
         /\ thr'[t].pc = pc
         /\ thr'[t].on = thr[t].on
         /\ thr'[t].locked = thr[t].locked
         /\ thr'[t].packet = thr[t].packet
         /\ thr'[t].ret = thr[t].ret
BY DEF Goto, ThreadStates, Alone

\* Return leads to the unlocking of the packet's allocation or to the loop.
LEMMA ReturnFields ==
  ASSUME thr \in [Threads -> ThreadStates], NEW t \in Threads, Return(t)
  PROVE  /\ thr' \in [Threads -> ThreadStates]
         /\ Alone(t)
         /\ thr'[t].pc \in {"idle", "rx.unlock"}
         /\ thr'[t].pc # "idle" => thr'[t].on = thr'[t].locked
                                   /\ thr'[t].locked # NoAlloc
         /\ thr'[t].locked = thr[t].locked
         /\ thr'[t].ret \in {"none", thr[t].ret}
<1>1. CASE thr[t].locked = NoAlloc
  <2>1. Idle \in ThreadStates BY DEF Idle, ThreadStates, PCs
  <2>2. thr' = [thr EXCEPT ![t] = Idle] BY <1>1 DEF Return
  <2>3. thr'[t] = Idle BY <2>2
  <2> QED BY <1>1, <2>1, <2>2, <2>3 DEF Idle, Alone
<1>2. CASE thr[t].locked # NoAlloc
  <2> DEFINE new == [thr[t] EXCEPT !.pc = "rx.unlock", !.on = thr[t].locked]
  <2>1. /\ new \in ThreadStates
        /\ new.pc = "rx.unlock"
        /\ new.on = thr[t].locked
        /\ new.locked = thr[t].locked
        /\ new.ret = thr[t].ret
    BY ZenonT(40) DEF ThreadStates, PCs
  <2>2. thr' = [thr EXCEPT ![t] = new] BY <1>2 DEF Return
  <2> HIDE DEF new
  <2>3. thr'[t] = new BY <2>2
  <2> QED BY <1>2, <2>1, <2>2, <2>3 DEF Alone
<1> QED BY <1>1, <1>2

\* Start sends a thread to work on an allocation.
LEMMA StartFields ==
  ASSUME thr \in [Threads -> ThreadStates], NEW t \in Threads, NEW pc \in PCs,
         NEW a \in Allocs, NEW p \in Packets \cup {"none"}, Start(t, pc, a, p)
  PROVE  /\ thr' \in [Threads -> ThreadStates]
         /\ Alone(t)
         /\ thr'[t].pc = pc
         /\ thr'[t].on = a
         /\ thr'[t].locked = NoAlloc
         /\ thr'[t].ret = "none"
BY ZenonT(40) DEF Start, Idle, ThreadStates, PCs, Alone

\* A thread that does not move keeps what it may assume.
LEMMA OthersKeep ==
  ASSUME IInv, NEW u \in Threads, thr'[u] = thr[u], Monotone
  PROVE  ThreadInv(u)'
BY DEF IInv, TypeOK, ThreadStates, ThreadInv, Monotone, RelayPCs, ClosedPCs

\* So a step of thread t is checked against t and the allocations.
LEMMA OneThread ==
  ASSUME IInv, NEW t \in Threads, Alone(t), Monotone,
         TypeOK', ThreadInv(t)', AllocInv'
  PROVE  IInv'
<1>1. ASSUME NEW u \in Threads PROVE ThreadInv(u)'
  <2>1. CASE u = t BY <2>1
  <2>2. CASE u # t BY <2>2, OthersKeep DEF Alone
  <2> QED BY <2>1, <2>2
<1> QED BY <1>1 DEF IInv

\* A step that only moves a thread from one position to another.
LEMMA OnlyMoves ==
  ASSUME IInv, NEW t \in Threads, NEW pc \in PCs, Goto(t, pc),
         thr[t].pc # "idle",
         thr[t].ret # "none" <=> pc \in RelayPCs,
         pc \in ClosedPCs => ~sock[thr[t].on],
         UNCHANGED <<table, made, freed, timerId, lifetime, sock, announced,
                     packets, status>>,
         heap' \subseteq made
  PROVE  IInv'
<1>1. thr \in [Threads -> ThreadStates] BY DEF IInv, TypeOK
<1>2. TypeOK' BY <1>1, GotoFields DEF IInv, TypeOK
<1>3. Alone(t) /\ Monotone BY <1>1, GotoFields DEF Monotone
<1>4. ThreadInv(t)' BY <1>1, GotoFields DEF IInv, ThreadInv
<1>5. AllocInv' BY DEF IInv, AllocInv
<1> QED BY <1>2, <1>3, <1>4, <1>5, OneThread

\* A step that only leaves a function.
LEMMA OnlyReturns ==
  ASSUME IInv, NEW t \in Threads, Return(t),
         thr[t].pc # "idle", thr[t].pc \notin RelayPCs,
         UNCHANGED <<table, made, timerId, lifetime, sock, announced,
                     packets, status>>,
         freed' \subseteq made, heap' \subseteq made
  PROVE  IInv'
<1>1. thr \in [Threads -> ThreadStates] BY DEF IInv, TypeOK
<1>2. TypeOK' BY <1>1, ReturnFields DEF IInv, TypeOK
<1>3. Alone(t) /\ Monotone BY <1>1, ReturnFields DEF Monotone
<1>4. thr[t].ret = "none" BY DEF IInv, ThreadInv
<1>5. ThreadInv(t)'
  BY <1>1, <1>4, ReturnFields DEF IInv, ThreadInv, RelayPCs, ClosedPCs
<1>6. AllocInv' BY DEF IInv, AllocInv
<1> QED BY <1>2, <1>3, <1>5, <1>6, OneThread

\* A cancel that stays inside or outside destroy_relay.
LEMMA CancelKeeps ==
  ASSUME IInv, NEW t \in Threads, NEW pc \in PCs, NEW next \in PCs,
         Cancel(t, pc, next), pc # "idle",
         pc \in RelayPCs <=> next \in RelayPCs, next \notin ClosedPCs
  PROVE  IInv'
<1>1. thr[t].pc = pc BY DEF Cancel, At
<1>2. thr[t].ret # "none" <=> next \in RelayPCs BY <1>1 DEF IInv, ThreadInv
<1>3. heap' \subseteq made BY DEF Cancel, IInv, TypeOK
<1> QED BY <1>1, <1>2, <1>3, OnlyMoves DEF Cancel

\* Setting timer.id: "destroy" only where the relay socket is closed.
LEMMA MarkKeeps ==
  ASSUME IInv, NEW t \in Threads, NEW pc \in PCs, NEW next \in PCs,
         NEW id \in {"none", "timeout", "destroy"},
         Mark(t, pc, id, next), pc # "idle",
         pc \in RelayPCs <=> next \in RelayPCs,
         next \in ClosedPCs \/ id = "destroy" => pc \in ClosedPCs
  PROVE  IInv'
<1>1. thr \in [Threads -> ThreadStates] BY DEF IInv, TypeOK
<1>2. Goto(t, next) /\ thr[t].pc = pc BY DEF Mark, At
<1>3. thr[t].on \in Allocs
  BY <1>2 DEF IInv, ThreadInv, TypeOK
<1>4. timerId' = [timerId EXCEPT ![thr[t].on] = id] BY DEF Mark, SetId, On
<1>5. TypeOK'
  <2>1. timerId' \in [Allocs -> {"none", "timeout", "destroy"}]
    BY <1>4 DEF IInv, TypeOK
  <2> QED BY <1>1, <1>2, <2>1, GotoFields DEF Mark, IInv, TypeOK
<1>6. Alone(t) /\ Monotone BY <1>1, <1>2, GotoFields DEF Mark, Monotone
<1>7. ThreadInv(t)' BY <1>1, <1>2, GotoFields DEF Mark, IInv, ThreadInv
<1>8. AllocInv'
  <2>1. id = "destroy" => ~sock[thr[t].on] BY <1>2 DEF IInv, ThreadInv
  <2> QED BY <1>3, <1>4, <2>1 DEF Mark, IInv, AllocInv, TypeOK
<1> QED BY <1>5, <1>6, <1>7, <1>8, OneThread

\* A failed assertion changes no table.
LEMMA AbortKeeps ==
  ASSUME IInv, NEW why \in Statuses, Abort(why)
  PROVE  IInv'
BY DEF Abort, IInv, TypeOK, ThreadInv, AllocInv
-----------------------------------------------------------------------------
(* One lemma for each group of steps.                                      *)

\* Handling a packet keeps the invariant.
LEMMA PacketSteps ==
  ASSUME IInv, NEW t \in Threads,
         \/ Lock(t) \/ Dispatch(t) \/ Deallocate(t) \/ Extend(t) \/ Handle(t)
         \/ Unlock(t)
  PROVE  IInv'
<1> USE DEF At, On
<1>1. thr \in [Threads -> ThreadStates] BY DEF IInv, TypeOK
<1>2. CASE Lock(t)
  <2>1. thr[t].on \in made /\ thr[t].pc = "rx.lock" BY <1>2 DEF Lock, IInv, ThreadInv
  <2> DEFINE pc == IF thr[t].packet = "peer" THEN "rx.unlock" ELSE "rx.dispatch"
             new == [thr[t] EXCEPT !.pc = pc, !.locked = thr[t].on]
  <2>2. thr' = [thr EXCEPT ![t] = new] BY <1>2 DEF Lock
  <2>3. /\ new \in ThreadStates
        /\ new.pc \in {"rx.unlock", "rx.dispatch"}
        /\ new.on = thr[t].on
        /\ new.locked = thr[t].on
        /\ new.ret = thr[t].ret
    BY ZenonT(40), <1>1, <2>1 DEF ThreadStates, PCs, IInv, TypeOK
  <2> HIDE DEF new
  <2>4. thr' \in [Threads -> ThreadStates] /\ thr'[t] = new /\ Alone(t)
    BY <1>1, <2>2, <2>3 DEF Alone
  <2>5. TypeOK' BY <1>2, <2>4 DEF Lock, IInv, TypeOK
  <2>6. Monotone BY <1>2 DEF Lock, Monotone
  <2>7. ThreadInv(t)'
    BY <1>2, <2>1, <2>3, <2>4 DEF Lock, IInv, ThreadInv, RelayPCs, ClosedPCs
  <2>8. AllocInv' BY <1>2 DEF Lock, IInv, AllocInv
  <2> QED BY <2>4, <2>5, <2>6, <2>7, <2>8, OneThread
<1>3. CASE Dispatch(t)
  <2>1. PICK pc \in {"rx.unlock", "rx.dealloc", "rx.extend"} : Goto(t, pc)
    BY <1>3 DEF Dispatch
  <2>2. thr[t].ret = "none" BY <1>3 DEF Dispatch, IInv, ThreadInv, RelayPCs
  <2> QED BY <1>3, <2>1, <2>2, OnlyMoves
          DEF Dispatch, IInv, TypeOK, PCs, RelayPCs, ClosedPCs
<1>4. CASE Deallocate(t)
  <2>1. thr[t].on \in Allocs BY <1>4 DEF Deallocate, IInv, ThreadInv, TypeOK
  <2>2. Goto(t, "shutdown.test") /\ "shutdown.test" \in PCs BY <1>4 DEF Deallocate, PCs
  <2>3. lifetime' \in [Allocs -> {0, 1}] BY <1>4, <2>1 DEF Deallocate, IInv, TypeOK
  <2>4. TypeOK' BY <1>1, <1>4, <2>2, <2>3, GotoFields DEF Deallocate, IInv, TypeOK
  <2>5. Alone(t) /\ Monotone BY <1>1, <1>4, <2>2, GotoFields DEF Deallocate, Monotone
  <2>6. ThreadInv(t)'
    BY <1>1, <1>4, <2>2, GotoFields
    DEF Deallocate, IInv, ThreadInv, RelayPCs, ClosedPCs
  <2>7. AllocInv' BY <1>4 DEF Deallocate, IInv, AllocInv
  <2> QED BY <2>4, <2>5, <2>6, <2>7, OneThread
<1>5. CASE Extend(t)
  <2>1. thr[t].on \in Allocs BY <1>5 DEF Extend, IInv, ThreadInv, TypeOK
  <2>2. PICK pc \in {"rx.unlock", "resched.test"} : Goto(t, pc) BY <1>5 DEF Extend
  <2>3. pc \in PCs BY DEF PCs
  <2>4. lifetime' \in [Allocs -> {0, 1}] BY <1>5, <2>1 DEF Extend, IInv, TypeOK
  <2>5. TypeOK' BY <1>1, <1>5, <2>2, <2>3, <2>4, GotoFields DEF Extend, IInv, TypeOK
  <2>6. Alone(t) /\ Monotone
    BY <1>1, <1>5, <2>2, <2>3, GotoFields DEF Extend, Monotone
  <2>7. ThreadInv(t)'
    BY <1>1, <1>5, <2>2, <2>3, GotoFields
    DEF Extend, IInv, ThreadInv, RelayPCs, ClosedPCs
  <2>8. AllocInv' BY <1>5 DEF Extend, IInv, AllocInv
  <2> QED BY <2>5, <2>6, <2>7, <2>8, OneThread
<1>6. CASE Handle(t)
  <2>1. announced' \subseteq Clients BY <1>6 DEF Handle, AddressOf, IInv, TypeOK
  <2> DEFINE Moved == /\ thr' \in [Threads -> ThreadStates]
                      /\ Alone(t)
                      /\ thr'[t].pc \in {"rx.unlock", "shutdown.test"}
                      /\ thr'[t].on \in made
                      /\ thr'[t].locked = thr[t].locked
                      /\ thr'[t].ret = thr[t].ret
  <2>2. Moved
    <3>1. CASE Goto(t, "rx.unlock")
      BY <1>1, <1>6, <3>1, GotoFields DEF Handle, IInv, ThreadInv, PCs
    <3>2. ASSUME NEW c \in announced, table[c] # NoAlloc,
                 thr' = [thr EXCEPT ![t].pc = "shutdown.test", ![t].on = table[c]]
          PROVE  Moved
      <4>1. table[c] \in made /\ table[c] \in Allocs
        BY <3>2 DEF IInv, AllocInv, TypeOK
      <4> DEFINE new == [thr[t] EXCEPT !.pc = "shutdown.test", !.on = table[c]]
      <4>2. thr' = [thr EXCEPT ![t] = new] BY <3>2
      <4>3. /\ new \in ThreadStates
            /\ new.pc = "shutdown.test"
            /\ new.on = table[c]
            /\ new.locked = thr[t].locked
            /\ new.ret = thr[t].ret
        BY ZenonT(40), <1>1, <4>1 DEF ThreadStates, PCs
      <4> HIDE DEF new
      <4> QED BY <1>1, <4>1, <4>2, <4>3 DEF Alone
    <3> QED BY <1>6, <3>1, <3>2 DEF Handle
  <2>3. TypeOK' BY <1>6, <2>1, <2>2 DEF Handle, IInv, TypeOK
  <2>4. Monotone BY <1>6 DEF Handle, Monotone
  <2>5. ThreadInv(t)'
    BY <1>6, <2>2 DEF Handle, IInv, ThreadInv, RelayPCs, ClosedPCs
  <2>6. AllocInv' BY <1>6 DEF Handle, IInv, AllocInv
  <2> QED BY <2>2, <2>3, <2>4, <2>5, <2>6, OneThread
<1>7. CASE Unlock(t)
  <2>1. Idle \in ThreadStates BY DEF Idle, ThreadStates, PCs
  <2>2. thr' \in [Threads -> ThreadStates] /\ thr'[t] = Idle /\ Alone(t)
    BY <1>1, <1>7, <2>1 DEF Unlock, Alone
  <2>3. TypeOK' BY <1>7, <2>2 DEF Unlock, IInv, TypeOK
  <2>4. Monotone BY <1>7 DEF Unlock, Monotone
  <2>5. ThreadInv(t)' BY <2>2 DEF Idle, ThreadInv, RelayPCs, ClosedPCs
  <2>6. AllocInv' BY <1>7 DEF Unlock, IInv, AllocInv
  <2> QED BY <2>2, <2>3, <2>4, <2>5, <2>6, OneThread
<1> QED BY <1>2, <1>3, <1>4, <1>5, <1>6, <1>7

\* resched_timeout keeps the invariant.
LEMMA RescheduleSteps ==
  ASSUME IInv, NEW t \in Threads,
         \/ RescheduleTest(t) \/ RescheduleCancel(t) \/ RescheduleClear(t)
         \/ RescheduleMark(t) \/ RescheduleSchedule(t) \/ ScheduleTwice(t)
  PROVE  IInv'
<1>1. CASE RescheduleTest(t)
  <2>1. CASE Abort("rescheduled while shutting down")
    BY <2>1, AbortKeeps DEF Statuses
  <2>2. ASSUME NEW pc \in {"resched.cancel", "resched.mark"}, Goto(t, pc),
               UNCHANGED <<table, made, freed, timerId, heap, lifetime, sock,
                           announced, packets, status>>
        PROVE  IInv'
    <3>1. thr[t].pc = "resched.test" BY <1>1 DEF RescheduleTest, At
    <3>2. thr[t].ret = "none" BY <3>1 DEF IInv, ThreadInv, RelayPCs
    <3> QED BY <2>2, <3>1, <3>2, OnlyMoves
            DEF IInv, TypeOK, PCs, RelayPCs, ClosedPCs
  <2> QED BY <1>1, <2>1, <2>2 DEF RescheduleTest
<1>2. CASE RescheduleCancel(t)
  BY <1>2, CancelKeeps DEF RescheduleCancel, PCs, RelayPCs, ClosedPCs
<1>3. CASE RescheduleClear(t)
  BY <1>3, MarkKeeps DEF RescheduleClear, PCs, RelayPCs, ClosedPCs
<1>4. CASE RescheduleMark(t)
  BY <1>4, MarkKeeps DEF RescheduleMark, PCs, RelayPCs, ClosedPCs
<1>5. CASE RescheduleSchedule(t)
  <2>1. PICK pc \in {"rx.handler", "rx.unlock"} : Goto(t, pc)
    BY <1>5 DEF RescheduleSchedule
  <2>2. thr[t].pc = "resched.schedule" BY <1>5 DEF RescheduleSchedule, Schedule, At
  <2>3. thr[t].ret = "none" /\ thr[t].on \in made
    BY <2>2 DEF IInv, ThreadInv, RelayPCs
  <2>4. heap' \subseteq made
    BY <1>5, <2>3 DEF RescheduleSchedule, Schedule, On, IInv, TypeOK
  <2> QED BY <1>5, <2>1, <2>2, <2>3, <2>4, OnlyMoves
          DEF RescheduleSchedule, Schedule, PCs, RelayPCs, ClosedPCs
<1>6. CASE ScheduleTwice(t)
  BY <1>6, AbortKeeps DEF ScheduleTwice, Statuses
<1> QED BY <1>1, <1>2, <1>3, <1>4, <1>5, <1>6

\* alloc_shutdown and destroy_relay keep the invariant: the relay is closed
\* when destroy_relay returns, so the destroy timer is only set after that.
LEMMA ShutdownSteps ==
  ASSUME IInv, NEW t \in Threads,
         \/ ShutdownTest(t) \/ ShutdownCancel(t) \/ ShutdownClear(t)
         \/ ShutdownAssert(t) \/ ShutdownMark(t) \/ ShutdownSchedule(t)
         \/ RelayTest(t) \/ RelayCancel(t) \/ RelayClear(t) \/ RelayClose(t)
  PROVE  IInv'
<1>t. thr \in [Threads -> ThreadStates] BY DEF IInv, TypeOK
<1>1. CASE ShutdownTest(t)
  <2>1. thr[t].pc = "shutdown.test" BY <1>1 DEF ShutdownTest, At
  <2>2. thr[t].on \in Allocs BY <2>1 DEF IInv, ThreadInv, TypeOK
  <2>3. thr[t].ret = "none" BY <2>1 DEF IInv, ThreadInv, RelayPCs
  <2>4. timerId[thr[t].on] \in {"none", "timeout", "destroy"}
    BY <2>2 DEF IInv, TypeOK
  <2>5. \/ Return(t)
        \/ \E pc \in {"shutdown.cancel", "shutdown.assert"} : Goto(t, pc)
    BY <1>1, <2>4 DEF ShutdownTest, On
  <2>6. CASE Return(t)
    BY <1>1, <2>1, <2>6, OnlyReturns DEF ShutdownTest, IInv, TypeOK, RelayPCs
  <2>7. ASSUME NEW pc \in {"shutdown.cancel", "shutdown.assert"}, Goto(t, pc)
        PROVE  IInv'
    BY <1>1, <2>1, <2>3, <2>7, OnlyMoves
    DEF ShutdownTest, IInv, TypeOK, PCs, RelayPCs, ClosedPCs
  <2> QED BY <2>5, <2>6, <2>7
<1>2. CASE ShutdownCancel(t)
  BY <1>2, CancelKeeps DEF ShutdownCancel, PCs, RelayPCs, ClosedPCs
<1>3. CASE ShutdownClear(t)
  BY <1>3, MarkKeeps DEF ShutdownClear, PCs, RelayPCs, ClosedPCs
<1>4. CASE ShutdownAssert(t)
  <2>1. CASE Abort("shut down twice") BY <2>1, AbortKeeps DEF Statuses
  <2>2. ASSUME ~Abort("shut down twice") PROVE IInv'
    <3> DEFINE new == [thr[t] EXCEPT !.pc = "relay.test", !.ret = "shutdown.mark"]
    <3>1. thr' = [thr EXCEPT ![t] = new] BY <1>4, <2>2 DEF ShutdownAssert
    <3>2. /\ new \in ThreadStates
          /\ new.pc = "relay.test"
          /\ new.on = thr[t].on
          /\ new.locked = thr[t].locked
          /\ new.ret = "shutdown.mark"
      BY ZenonT(40), <1>t DEF ThreadStates, PCs
    <3> HIDE DEF new
    <3>3. thr' \in [Threads -> ThreadStates] /\ thr'[t] = new /\ Alone(t)
      BY <1>t, <3>1, <3>2 DEF Alone
    <3>4. UNCHANGED <<table, made, freed, timerId, heap, lifetime, sock,
                      announced, packets, status>>
      BY <1>4, <2>2 DEF ShutdownAssert
    <3>5. thr[t].pc = "shutdown.assert" BY <1>4 DEF ShutdownAssert, At
    <3>6. TypeOK' BY <3>3, <3>4 DEF IInv, TypeOK
    <3>7. Monotone BY <3>4 DEF Monotone
    <3>8. ThreadInv(t)'
      BY <3>2, <3>3, <3>4, <3>5 DEF IInv, ThreadInv, RelayPCs, ClosedPCs
    <3>9. AllocInv' BY <3>4 DEF IInv, AllocInv
    <3> QED BY <3>3, <3>6, <3>7, <3>8, <3>9, OneThread
  <2> QED BY <2>1, <2>2
<1>5. CASE ShutdownMark(t)
  BY <1>5, MarkKeeps DEF ShutdownMark, PCs, RelayPCs, ClosedPCs
<1>6. CASE ShutdownSchedule(t)
  <2>1. thr[t].pc = "shutdown.schedule" BY <1>6 DEF ShutdownSchedule, Schedule, At
  <2>2. thr[t].on \in made BY <2>1 DEF IInv, ThreadInv
  <2>3. heap' \subseteq made
    BY <1>6, <2>2 DEF ShutdownSchedule, Schedule, On, IInv, TypeOK
  <2> QED BY <1>6, <2>1, <2>3, OnlyReturns
          DEF ShutdownSchedule, Schedule, IInv, TypeOK, RelayPCs
<1>7. CASE RelayTest(t)
  <2>1. PICK pc \in {"relay.cancel", "relay.close"} : Goto(t, pc)
    BY <1>7 DEF RelayTest
  <2>2. thr[t].pc = "relay.test" BY <1>7 DEF RelayTest, At
  <2>3. thr[t].ret # "none" BY <2>2 DEF IInv, ThreadInv, RelayPCs
  <2> QED BY <1>7, <2>1, <2>2, <2>3, OnlyMoves
          DEF RelayTest, IInv, TypeOK, PCs, RelayPCs, ClosedPCs
<1>8. CASE RelayCancel(t)
  BY <1>8, CancelKeeps DEF RelayCancel, PCs, RelayPCs, ClosedPCs
<1>9. CASE RelayClear(t)
  BY <1>9, MarkKeeps DEF RelayClear, PCs, RelayPCs, ClosedPCs
<1>10. CASE RelayClose(t)
  <2>1. thr[t].pc = "relay.close" BY <1>10 DEF RelayClose, At
  <2>2. thr[t].on \in made /\ thr[t].on \in Allocs
    BY <2>1 DEF IInv, ThreadInv, TypeOK
  <2>3. thr[t].ret \in {"shutdown.mark", "destroy.lock"}
    BY <1>t, <2>1 DEF IInv, ThreadInv, RelayPCs, ThreadStates
  <2> DEFINE new == [thr[t] EXCEPT !.pc = thr[t].ret, !.ret = "none"]
  <2>4. thr' = [thr EXCEPT ![t] = new] BY <1>10 DEF RelayClose
  <2>5. /\ new \in ThreadStates
        /\ new.pc \in {"shutdown.mark", "destroy.lock"}
        /\ new.on = thr[t].on
        /\ new.locked = thr[t].locked
        /\ new.ret = "none"
    BY <1>t, <2>3 DEF ThreadStates, PCs
  <2> HIDE DEF new
  <2>6. thr' \in [Threads -> ThreadStates] /\ thr'[t] = new /\ Alone(t)
    BY <1>t, <2>4, <2>5 DEF Alone
  <2>7. /\ sock' = [sock EXCEPT ![thr[t].on] = FALSE]
        /\ lifetime' = [lifetime EXCEPT ![thr[t].on] = 0]
        /\ UNCHANGED <<table, made, freed, timerId, heap, announced, packets,
                       status>>
    BY <1>10 DEF RelayClose, On
  <2>8. /\ sock' \in [Allocs -> BOOLEAN]
        /\ \A a \in Allocs : sock'[a] => sock[a]
        /\ sock'[thr[t].on] = FALSE
    BY <2>2, <2>7 DEF IInv, TypeOK
  <2>9. lifetime' \in [Allocs -> {0, 1}] BY <2>7 DEF IInv, TypeOK
  <2>10. TypeOK' BY <2>6, <2>7, <2>8, <2>9 DEF IInv, TypeOK
  <2>11. Monotone BY <2>7, <2>8 DEF Monotone, IInv, TypeOK
  <2>12. ThreadInv(t)'
    BY <2>2, <2>5, <2>6, <2>7, <2>8 DEF IInv, ThreadInv, RelayPCs, ClosedPCs
  <2>13. AllocInv' BY <2>7, <2>8 DEF IInv, AllocInv
  <2> QED BY <2>6, <2>10, <2>11, <2>12, <2>13, OneThread
<1> QED BY <1>1, <1>2, <1>3, <1>4, <1>5, <1>6, <1>7, <1>8, <1>9, <1>10

\* The timer callback and destroy_allocation keep the invariant.
LEMMA TimerSteps ==
  ASSUME IInv, NEW t \in Threads,
         \/ Callback(t) \/ CallbackTimeout(t) \/ CallbackDestroy(t)
         \/ Unregister(t) \/ DestroyLock(t) \/ DestroyUnlock(t)
         \/ DestroyFree(t) \/ DestroyNothing(t) \/ UseFreed(t) \/ NoSession(t)
  PROVE  IInv'
<1>t. thr \in [Threads -> ThreadStates] BY DEF IInv, TypeOK
<1>1. CASE Callback(t)
  <2>1. thr[t].pc = "timer.cb" BY <1>1 DEF Callback, At
  <2>2. thr[t].on \in Allocs BY <2>1 DEF IInv, ThreadInv, TypeOK
  <2>3. thr[t].ret = "none" BY <2>1 DEF IInv, ThreadInv, RelayPCs
  <2>4. timerId[thr[t].on] \in {"none", "timeout", "destroy"}
    BY <2>2 DEF IInv, TypeOK
  <2>5. \/ Return(t)
        \/ Goto(t, "timer.timeout")
        \/ timerId[thr[t].on] = "destroy" /\ Goto(t, "timer.destroy")
    BY <1>1, <2>4 DEF Callback, On
  <2>6. CASE Return(t)
    BY <1>1, <2>1, <2>6, OnlyReturns DEF Callback, IInv, TypeOK, RelayPCs
  <2>7. CASE Goto(t, "timer.timeout")
    BY <1>1, <2>1, <2>3, <2>7, OnlyMoves
    DEF Callback, IInv, TypeOK, PCs, RelayPCs, ClosedPCs
  <2>8. CASE timerId[thr[t].on] = "destroy" /\ Goto(t, "timer.destroy")
    <3>1. ~sock[thr[t].on] BY <2>2, <2>8 DEF IInv, AllocInv
    <3> QED BY <1>1, <2>1, <2>3, <2>8, <3>1, OnlyMoves
            DEF Callback, IInv, TypeOK, PCs, RelayPCs
  <2> QED BY <2>5, <2>6, <2>7, <2>8
<1>2. CASE CallbackTimeout(t)
  BY <1>2, MarkKeeps DEF CallbackTimeout, PCs, RelayPCs, ClosedPCs
<1>3. CASE CallbackDestroy(t)
  BY <1>3, MarkKeeps DEF CallbackDestroy, PCs, RelayPCs, ClosedPCs
<1>4. CASE Unregister(t)
  <2>1. thr[t].pc = "destroy.unregister" BY <1>4 DEF Unregister, At
  <2> DEFINE new == [thr[t] EXCEPT !.pc = "relay.test", !.ret = "destroy.lock"]
  <2>2. thr' = [thr EXCEPT ![t] = new] BY <1>4 DEF Unregister
  <2>3. /\ new \in ThreadStates
        /\ new.pc = "relay.test"
        /\ new.on = thr[t].on
        /\ new.locked = thr[t].locked
        /\ new.ret = "destroy.lock"
    BY ZenonT(40), <1>t DEF ThreadStates, PCs
  <2> HIDE DEF new
  <2>4. thr' \in [Threads -> ThreadStates] /\ thr'[t] = new /\ Alone(t)
    BY <1>t, <2>2, <2>3 DEF Alone
  <2>5. /\ table' \in [Clients -> Allocs \cup {NoAlloc}]
        /\ \A c \in Clients : table'[c] \in {NoAlloc, table[c]}
    BY <1>4 DEF Unregister, IInv, TypeOK
  <2>6. TypeOK' BY <1>4, <2>4, <2>5 DEF Unregister, IInv, TypeOK
  <2>7. Monotone BY <1>4 DEF Unregister, Monotone
  <2>8. ThreadInv(t)'
    BY <1>4, <2>1, <2>3, <2>4
    DEF Unregister, IInv, ThreadInv, RelayPCs, ClosedPCs
  <2>9. AllocInv' BY <1>4, <2>5 DEF Unregister, IInv, AllocInv
  <2> QED BY <2>4, <2>6, <2>7, <2>8, <2>9, OneThread
<1>5. CASE DestroyLock(t) \/ DestroyUnlock(t)
  <2>1. thr[t].pc \in {"destroy.lock", "destroy.unlock"}
    BY <1>5 DEF DestroyLock, DestroyUnlock, At
  <2>2. /\ thr[t].on \in made /\ thr[t].on \in Allocs
        /\ ~sock[thr[t].on]
        /\ thr[t].ret = "none"
    BY <2>1 DEF IInv, ThreadInv, TypeOK, ClosedPCs, RelayPCs
  <2>3. PICK pc \in {"destroy.unlock", "destroy.free"},
             lock \in {thr[t].on, NoAlloc} :
          thr' = [thr EXCEPT ![t].pc = pc, ![t].locked = lock]
    BY <1>5 DEF DestroyLock, DestroyUnlock, On
  <2> DEFINE new == [thr[t] EXCEPT !.pc = pc, !.locked = lock]
  <2>4. thr' = [thr EXCEPT ![t] = new] BY <2>3
  <2>5. /\ new \in ThreadStates
        /\ new.pc = pc
        /\ new.on = thr[t].on
        /\ new.locked = lock
        /\ new.ret = thr[t].ret
    BY ZenonT(40), <1>t, <2>2 DEF ThreadStates, PCs
  <2> HIDE DEF new
  <2>6. thr' \in [Threads -> ThreadStates] /\ thr'[t] = new /\ Alone(t)
    BY <1>t, <2>4, <2>5 DEF Alone
  <2>7. UNCHANGED <<table, made, freed, timerId, heap, lifetime, sock, announced,
                    packets, status>>
    BY <1>5 DEF DestroyLock, DestroyUnlock
  <2>8. TypeOK' BY <2>6, <2>7 DEF IInv, TypeOK
  <2>9. Monotone BY <2>7 DEF Monotone
  <2>10. ThreadInv(t)' BY <2>2, <2>5, <2>6, <2>7 DEF ThreadInv, RelayPCs
  <2>11. AllocInv' BY <2>7 DEF IInv, AllocInv
  <2> QED BY <2>6, <2>8, <2>9, <2>10, <2>11, OneThread
<1>6. CASE DestroyFree(t)
  <2>1. thr[t].pc = "destroy.free" BY <1>6 DEF DestroyFree, At
  <2>2. thr[t].on \in made BY <2>1 DEF IInv, ThreadInv
  <2>3. freed' \subseteq made BY <1>6, <2>2 DEF DestroyFree, On, IInv, TypeOK
  <2> QED BY <1>6, <2>1, <2>3, OnlyReturns DEF DestroyFree, IInv, TypeOK, RelayPCs
<1>7. CASE DestroyNothing(t)
  <2>1. Idle \in ThreadStates BY DEF Idle, ThreadStates, PCs
  <2>2. thr' \in [Threads -> ThreadStates] /\ thr'[t] = Idle /\ Alone(t)
    BY <1>t, <1>7, <2>1 DEF DestroyNothing, Alone
  <2>3. TypeOK' BY <1>7, <2>2 DEF DestroyNothing, IInv, TypeOK
  <2>4. Monotone BY <1>7 DEF DestroyNothing, Monotone
  <2>5. ThreadInv(t)' BY <2>2 DEF Idle, ThreadInv, RelayPCs, ClosedPCs
  <2>6. AllocInv' BY <1>7 DEF DestroyNothing, IInv, AllocInv
  <2> QED BY <2>2, <2>3, <2>4, <2>5, <2>6, OneThread
<1>8. CASE UseFreed(t)
  BY <1>8 DEF UseFreed, Statuses, IInv, TypeOK, ThreadInv, AllocInv
<1>9. CASE NoSession(t) BY <1>9, AbortKeeps DEF NoSession, Statuses
<1> QED BY <1>1, <1>2, <1>3, <1>4, <1>5, <1>6, <1>7, <1>8, <1>9

\* A thread that starts to work on a made allocation.
LEMMA StartKeeps ==
  ASSUME IInv, NEW t \in Threads, NEW pc \in PCs, NEW a \in made,
         NEW p \in Packets \cup {"none"}, Start(t, pc, a, p),
         pc \notin RelayPCs, pc \notin ClosedPCs,
         packets' \in 0 .. MaxPackets, heap' \subseteq made,
         announced' \subseteq Clients,
         UNCHANGED <<table, made, freed, timerId, lifetime, sock, status>>
  PROVE  IInv'
<1>1. thr \in [Threads -> ThreadStates] /\ a \in Allocs BY DEF IInv, TypeOK
<1>2. TypeOK' BY <1>1, StartFields DEF IInv, TypeOK
<1>3. Alone(t) /\ Monotone BY <1>1, StartFields DEF Monotone
<1>4. ThreadInv(t)' BY <1>1, StartFields DEF ThreadInv
<1>5. AllocInv' BY DEF IInv, AllocInv
<1> QED BY <1>2, <1>3, <1>4, <1>5, OneThread

\* A new object gets a socket of its own: no thread works on it yet.
LEMMA CreateKeeps ==
  ASSUME IInv, NEW w \in Workers, NEW c \in Clients, NEW a \in Allocs,
         Allocate(w, c, a) \/ AllocateFails(w, c, a)
  PROVE  IInv'
<1>1. a \notin made /\ made' = made \cup {a} BY DEF Allocate, AllocateFails
<1>2. TypeOK'
  <2>1. CASE Allocate(w, c, a) BY <2>1 DEF Allocate, IInv, TypeOK
  <2>2. CASE AllocateFails(w, c, a) BY <2>2 DEF AllocateFails, IInv, TypeOK
  <2> QED BY <2>1, <2>2
<1>3. Monotone BY <1>1 DEF Allocate, AllocateFails, Monotone, IInv, TypeOK
<1>4. ASSUME NEW t \in Threads PROVE ThreadInv(t)'
  BY <1>3, OthersKeep DEF Allocate, AllocateFails
<1>5. AllocInv'
  <2>1. CASE Allocate(w, c, a) BY <2>1 DEF Allocate, IInv, AllocInv, TypeOK
  <2>2. CASE AllocateFails(w, c, a) BY <2>2 DEF AllocateFails, IInv, AllocInv
  <2> QED BY <2>1, <2>2
<1> QED BY <1>2, <1>4, <1>5 DEF IInv

\* Packets keep the invariant on arrival.
LEMMA ArrivalSteps ==
  ASSUME IInv, NEW w \in Workers, Arrival(w)
  PROVE  IInv'
<1>1. ASSUME NEW c \in Clients, NEW a \in Allocs,
             Allocate(w, c, a) \/ AllocateFails(w, c, a)
      PROVE  IInv'
  BY <1>1, CreateKeeps
<1>2. ASSUME NEW c \in Clients, NEW p \in ClientPackets,
             ReceiveFromClient(w, c, p)
      PROVE  IInv'
  <2>1. w \in Threads /\ "rx.lock" \in PCs /\ p \in Packets
    BY DEF Threads, PCs, Packets
  <2>2. table[c] \in made BY <1>2 DEF ReceiveFromClient, IInv, AllocInv
  <2>3. packets' \in 0 .. MaxPackets
    BY <1>2, ThreadsAssumption DEF ReceiveFromClient, IInv, TypeOK
  <2> QED BY <1>2, <2>1, <2>2, <2>3, StartKeeps
          DEF ReceiveFromClient, IInv, TypeOK, RelayPCs, ClosedPCs
<1>3. ASSUME NEW a \in Allocs, ReceiveFromPeer(w, a) PROVE IInv'
  <2>1. w \in Threads /\ "rx.lock" \in PCs /\ "peer" \in Packets
    BY DEF Threads, PCs, Packets
  <2>2. a \in made BY <1>3 DEF ReceiveFromPeer, IInv, AllocInv
  <2> QED BY <1>3, <2>1, <2>2, StartKeeps
          DEF ReceiveFromPeer, IInv, TypeOK, RelayPCs, ClosedPCs
<1> QED BY <1>1, <1>2, <1>3 DEF Arrival

\* The timer heap and the logout thread keep the invariant.
LEMMA OtherStarts ==
  ASSUME IInv, LogoutUser \/ \E a \in Allocs : Fire(a)
  PROVE  IInv'
<1>1. CASE LogoutUser
  <2>1. PICK c \in announced :
          /\ table[c] # NoAlloc
          /\ Start(LogoutThread, "shutdown.test", table[c], "none")
          /\ announced' = announced \ {c}
    BY <1>1 DEF LogoutUser
  <2>2. LogoutThread \in Threads /\ "shutdown.test" \in PCs BY DEF Threads, PCs
  <2>3. table[c] \in made BY <2>1 DEF IInv, AllocInv, TypeOK
  <2> QED BY <1>1, <2>1, <2>2, <2>3, StartKeeps
          DEF LogoutUser, IInv, TypeOK, RelayPCs, ClosedPCs
<1>2. ASSUME NEW a \in Allocs, Fire(a) PROVE IInv'
  <2>1. PICK w \in Workers : Start(w, "timer.cb", a, "none") BY <1>2 DEF Fire
  <2>2. w \in Threads /\ "timer.cb" \in PCs BY DEF Threads, PCs
  <2>3. a \in made /\ heap' \subseteq made BY <1>2 DEF Fire, IInv, TypeOK
  <2> QED BY <1>2, <2>1, <2>2, <2>3, StartKeeps
          DEF Fire, IInv, TypeOK, RelayPCs, ClosedPCs
<1> QED BY <1>1, <1>2
-----------------------------------------------------------------------------
(* The invariant.                                                          *)

\* The invariant holds at the start.
LEMMA InitInv ==
  ASSUME Init
  PROVE  IInv
<1>1. Idle \in ThreadStates BY DEF Idle, ThreadStates, PCs
<1>2. TypeOK BY <1>1, ThreadsAssumption DEF Init, TypeOK, Statuses
<1>3. ASSUME NEW t \in Threads PROVE ThreadInv(t)
  BY DEF Init, ThreadInv, Idle, RelayPCs, ClosedPCs
<1>4. AllocInv BY DEF Init, AllocInv
<1> QED BY <1>2, <1>3, <1>4 DEF IInv

\* Every step keeps the invariant.
LEMMA NextInv ==
  ASSUME IInv, [Next]_vars
  PROVE  IInv'
<1>1. ASSUME NEW t \in Threads, Step(t) PROVE IInv'
  BY <1>1, PacketSteps, RescheduleSteps, ShutdownSteps, TimerSteps DEF Step
<1>2. ASSUME NEW w \in Workers, Arrival(w) PROVE IInv'
  BY <1>2, ArrivalSteps
<1>3. CASE UNCHANGED vars
  BY <1>3 DEF vars, IInv, TypeOK, ThreadInv, AllocInv
<1> QED BY <1>1, <1>2, <1>3, OtherStarts DEF Next

\* The inductive invariant holds in every reachable state.
THEOREM Invariant == Spec => []IInv
BY InitInv, NextInv, PTL DEF Spec

\* In every reachable state the variables have their types: a timer id is one
\* of three, an entry of the heap and a freed object were made, and a lifetime
\* is never negative.
THEOREM TypeCorrect == Spec => []TypeOK
<1>1. IInv => TypeOK BY DEF IInv
<1> QED BY <1>1, Invariant, PTL
-----------------------------------------------------------------------------
(* The refinement of AllocationLife.                                       *)

\* The phases of the allocations, as the refinement mapping reads them.
Phases == [a \in Allocs |-> Phase(a)]

\* A step that leaves the table, the sockets and the status alone is
\* invisible in the abstract life.
LEMMA Invisible ==
  ASSUME UNCHANGED <<table, made, sock, status>>
  PROVE  UNCHANGED Life!vars
<1>1. ASSUME NEW a \in Allocs PROVE Phase(a)' = Phase(a)
  BY DEF Phase, Registered
<1> QED BY <1>1 DEF Life!vars

\* A process that stops keeps the phases.
LEMMA Stops ==
  ASSUME status = "running", status' # "running",
         UNCHANGED <<table, made, sock>>
  PROVE  Life!Next
<1>1. ASSUME NEW a \in Allocs PROVE Phase(a)' = Phase(a)
  BY DEF Phase, Registered
<1> QED BY <1>1 DEF Life!Next, Life!Stop

\* An abstract step of one allocation, from the phases before and after it.
LEMMA OnePhase ==
  ASSUME NEW a \in Allocs, status = "running", UNCHANGED status,
         \A b \in Allocs \ {a} : Phase(b)' = Phase(b),
         <<Phase(a), Phase(a)'>> \in {<<"new", "open">>, <<"new", "gone">>,
                                      <<"open", "closed">>, <<"closed", "gone">>}
  PROVE  Life!Next
<1>1. Phases' = [Phases EXCEPT ![a] = Phase(a)'] BY DEF Phases
<1>2. Phases[a] = Phase(a) BY DEF Phases
<1>3. CASE Phase(a) = "new" /\ Phase(a)' = "open"
  BY <1>1, <1>2, <1>3 DEF Life!Next, Life!Open, Life!Becomes, Phases
<1>4. CASE Phase(a) = "new" /\ Phase(a)' = "gone"
  BY <1>1, <1>2, <1>4 DEF Life!Next, Life!Abandon, Life!Becomes, Phases
<1>5. CASE Phase(a) = "open" /\ Phase(a)' = "closed"
  BY <1>1, <1>2, <1>5 DEF Life!Next, Life!Close, Life!Becomes, Phases
<1>6. CASE Phase(a) = "closed" /\ Phase(a)' = "gone"
  BY <1>1, <1>2, <1>6 DEF Life!Next, Life!Remove, Life!Becomes, Phases
<1> QED BY <1>3, <1>4, <1>5, <1>6

\* ALLOCATE opens the new object or abandons it.
LEMMA CreateRefines ==
  ASSUME IInv, NEW w \in Workers, NEW c \in Clients, NEW a \in Allocs,
         Allocate(w, c, a) \/ AllocateFails(w, c, a)
  PROVE  Life!Next
<1>1. /\ a \notin made
      /\ made' = made \cup {a}
      /\ status = "running"
      /\ UNCHANGED status
      /\ table[c] = NoAlloc
  BY DEF Allocate, AllocateFails, ReadsPacket
<1>2. a \notin Registered BY <1>1 DEF Registered, IInv, AllocInv
<1>3. Phase(a) = "new" BY <1>1 DEF Phase
<1>4. CASE Allocate(w, c, a)
  <2>1. table' = [table EXCEPT ![c] = a] /\ sock' = [sock EXCEPT ![a] = TRUE]
    BY <1>4 DEF Allocate
  <2>2. Registered' = Registered \cup {a}
    <3>1. Registered' \subseteq Registered \cup {a}
      BY <2>1 DEF Registered, IInv, TypeOK
    <3>2. a \in Registered'
      BY <2>1, ThreadsAssumption DEF Registered, IInv, TypeOK
    <3>3. ASSUME NEW b \in Registered PROVE b \in Registered'
      <4>1. PICK d \in Clients : table[d] = b /\ b # NoAlloc BY DEF Registered
      <4>2. table'[d] = b BY <1>1, <2>1, <4>1 DEF IInv, TypeOK
      <4> QED BY <4>1, <4>2 DEF Registered
    <3> QED BY <3>1, <3>2, <3>3
  <2>3. Phase(a)' = "open" BY <1>1, <2>1, <2>2 DEF Phase, IInv, TypeOK
  <2>4. ASSUME NEW b \in Allocs \ {a} PROVE Phase(b)' = Phase(b)
    BY <1>1, <2>1, <2>2 DEF Phase, IInv, TypeOK
  <2> QED BY <1>1, <1>3, <2>3, <2>4, OnePhase
<1>5. CASE AllocateFails(w, c, a)
  <2>1. table' = table /\ sock' = sock BY <1>5 DEF AllocateFails
  <2>2. Registered' = Registered BY <2>1 DEF Registered
  <2>3. Phase(a)' = "gone" BY <1>1, <1>2, <2>2 DEF Phase
  <2>4. ASSUME NEW b \in Allocs \ {a} PROVE Phase(b)' = Phase(b)
    BY <1>1, <2>1, <2>2 DEF Phase
  <2> QED BY <1>1, <1>3, <2>3, <2>4, OnePhase
<1> QED BY <1>4, <1>5

\* destroy_relay closes the allocation, or finds it closed already.
LEMMA RelayCloseRefines ==
  ASSUME IInv, NEW t \in Threads, RelayClose(t)
  PROVE  Life!Next \/ UNCHANGED Life!vars
<1>1. thr[t].pc = "relay.close" /\ status = "running" BY DEF RelayClose, At
<1>2. PICK a \in Allocs : a = thr[t].on /\ a \in made
  BY <1>1 DEF IInv, ThreadInv, TypeOK
<1>3. /\ sock' = [sock EXCEPT ![a] = FALSE]
      /\ UNCHANGED <<table, made, status>>
  BY <1>2 DEF RelayClose, On
<1>4. Registered' = Registered BY <1>3 DEF Registered
<1>5. ASSUME NEW b \in Allocs \ {a} PROVE Phase(b)' = Phase(b)
  BY <1>3, <1>4 DEF Phase, IInv, TypeOK
<1>6. CASE a \in Registered /\ sock[a]
  <2>1. Phase(a) = "open" /\ Phase(a)' = "closed"
    BY <1>2, <1>3, <1>4, <1>6 DEF Phase, IInv, TypeOK
  <2> QED BY <1>1, <1>2, <1>3, <1>5, <2>1, OnePhase
<1>7. CASE ~(a \in Registered /\ sock[a])
  <2>1. Phase(a)' = Phase(a) BY <1>2, <1>3, <1>4, <1>7 DEF Phase, IInv, TypeOK
  <2> QED BY <1>3, <1>5, <2>1 DEF Life!vars
<1> QED BY <1>6, <1>7

\* destroy_allocation takes a closed allocation from the table, or finds it
\* gone already.
LEMMA UnregisterRefines ==
  ASSUME IInv, NEW t \in Threads, Unregister(t)
  PROVE  Life!Next \/ UNCHANGED Life!vars
<1>1. thr[t].pc = "destroy.unregister" /\ status = "running" BY DEF Unregister, At
<1>2. PICK a \in Allocs : a = thr[t].on /\ a \in made /\ ~sock[a]
  BY <1>1 DEF IInv, ThreadInv, TypeOK, ClosedPCs
<1>3. /\ table' = [c \in Clients |-> IF table[c] = a THEN NoAlloc ELSE table[c]]
      /\ UNCHANGED <<made, sock, status>>
  BY <1>2 DEF Unregister, On
<1>4. Registered' = Registered \ {a}
  <2>1. a \notin Registered' BY <1>2, <1>3, ThreadsAssumption DEF Registered
  <2>2. Registered' \subseteq Registered BY <1>3 DEF Registered
  <2>3. ASSUME NEW b \in Registered \ {a} PROVE b \in Registered'
    <3>1. PICK c \in Clients : table[c] = b /\ b # NoAlloc BY DEF Registered
    <3>2. table'[c] = b BY <1>3, <3>1
    <3> QED BY <3>1, <3>2 DEF Registered
  <2> QED BY <2>1, <2>2, <2>3
<1>5. ASSUME NEW b \in Allocs \ {a} PROVE Phase(b)' = Phase(b)
  BY <1>3, <1>4 DEF Phase
<1>6. CASE a \in Registered
  <2>1. Phase(a) = "closed" /\ Phase(a)' = "gone"
    BY <1>2, <1>3, <1>4, <1>6 DEF Phase
  <2> QED BY <1>1, <1>2, <1>3, <1>5, <2>1, OnePhase
<1>7. CASE a \notin Registered
  <2>1. Phase(a)' = Phase(a) BY <1>3, <1>4, <1>7 DEF Phase
  <2> QED BY <1>3, <1>5, <2>1 DEF Life!vars
<1> QED BY <1>6, <1>7

\* Every step of a thread is an abstract step or invisible.
LEMMA StepRefines ==
  ASSUME IInv, NEW t \in Threads, Step(t)
  PROVE  Life!Next \/ UNCHANGED Life!vars
<1>1. \/ UNCHANGED <<table, made, sock, status>>
      \/ RelayClose(t)
      \/ Unregister(t)
      \/ /\ status = "running" /\ status' # "running"
         /\ UNCHANGED <<table, made, sock>>
  <2>1. CASE \/ Lock(t) \/ Dispatch(t) \/ Deallocate(t) \/ Extend(t)
             \/ Handle(t) \/ Unlock(t)
    BY <2>1 DEF Lock, Dispatch, Deallocate, Extend, Handle, Unlock
  <2>2. CASE \/ RescheduleTest(t) \/ ScheduleTwice(t) \/ ShutdownAssert(t)
             \/ UseFreed(t) \/ NoSession(t)
    BY <2>2 DEF RescheduleTest, ScheduleTwice, ShutdownAssert, UseFreed, NoSession,
                Abort, At
  <2>3. CASE \/ RescheduleCancel(t) \/ ShutdownCancel(t) \/ RelayCancel(t)
    BY <2>3 DEF RescheduleCancel, ShutdownCancel, RelayCancel, Cancel
  <2>4. CASE \/ RescheduleClear(t) \/ RescheduleMark(t) \/ ShutdownClear(t)
             \/ ShutdownMark(t) \/ RelayClear(t) \/ CallbackTimeout(t)
             \/ CallbackDestroy(t)
    BY <2>4 DEF RescheduleClear, RescheduleMark, ShutdownClear, ShutdownMark,
                RelayClear, CallbackTimeout, CallbackDestroy, Mark
  <2>5. CASE \/ RescheduleSchedule(t) \/ ShutdownSchedule(t) \/ ShutdownTest(t)
             \/ RelayTest(t) \/ Callback(t) \/ DestroyLock(t)
             \/ DestroyUnlock(t) \/ DestroyFree(t) \/ DestroyNothing(t)
    BY <2>5 DEF RescheduleSchedule, ShutdownSchedule, Schedule, ShutdownTest,
                RelayTest, Callback, DestroyLock, DestroyUnlock, DestroyFree,
                DestroyNothing
  <2> QED BY <2>1, <2>2, <2>3, <2>4, <2>5 DEF Step
<1> QED BY <1>1, Invisible, Stops, RelayCloseRefines, UnregisterRefines

\* Every step of the system is an abstract step or invisible.
LEMMA NextRefines ==
  ASSUME IInv, [Next]_vars
  PROVE  [UNCHANGED Life!vars \/ Life!Next]_vars
<1>1. ASSUME NEW w \in Workers, Arrival(w)
      PROVE  Life!Next \/ UNCHANGED Life!vars
  BY <1>1, CreateRefines, Invisible
  DEF Arrival, ReceiveFromClient, ReceiveFromPeer
<1>2. CASE LogoutUser \/ \E a \in Allocs : Fire(a)
  BY <1>2, Invisible DEF LogoutUser, Fire
<1>3. CASE UNCHANGED vars
  BY <1>3, Invisible DEF vars
<1> QED BY <1>1, <1>2, <1>3, StepRefines DEF Next

\* The abstract life starts with the system.
LEMMA InitRefines ==
  ASSUME Init
  PROVE  Life!Init
BY DEF Init, Phase, Life!Init

\* Whatever the threads interleave, every step is a step of AllocationLife or
\* leaves it alone: a relay is closed once and not opened again, and an
\* allocation leaves the table only when its relay is closed.
THEOREM ImplementsLife == Spec => LifeSteps
BY Invariant, InitRefines, NextRefines, PTL DEF Spec, LifeSteps
-----------------------------------------------------------------------------
(* No allocation is forgotten.                                             *)

\* Positions from which a thread goes on to write timer.id or to unregister,
\* and those from which it goes on to schedule the timer or to unregister.
MarkPCs == {"resched.mark", "shutdown.assert", "shutdown.mark",
            "destroy.unregister"}
SchedulePCs == MarkPCs \cup
  {"resched.cancel", "resched.clear", "resched.schedule", "shutdown.cancel",
   "shutdown.clear", "shutdown.schedule", "timer.timeout", "timer.destroy"}

\* In the destroy_relay of alloc_shutdown.
InShutdown(t) == thr[t].pc \in RelayPCs /\ thr[t].ret = "shutdown.mark"

\* Thread t gives the timer of its allocation an id when it finds none, and
\* puts it back into the heap whatever the others do.
WillMark(t) ==
  \/ thr[t].pc \in MarkPCs
  \/ InShutdown(t)
  \/ thr[t].pc \in {"resched.test", "shutdown.test"}
WillSchedule(t) ==
  \/ thr[t].pc \in SchedulePCs
  \/ InShutdown(t)
  \/ thr[t].pc \in {"resched.test", "shutdown.test"} /\ timerId[thr[t].on] # "destroy"
  \/ thr[t].pc = "timer.cb" /\ timerId[thr[t].on] # "none"

\* Somebody has the duty to give the timer back what it lacks.
Covered(a) ==
  /\ timerId[a] = "none" => \E t \in Threads : thr[t].on = a /\ WillMark(t)
  /\ a \notin heap => \E t \in Threads : thr[t].on = a /\ WillSchedule(t)

Duty == status = "running" => \A a \in Registered : Covered(a)

\* In destroy_relay for destroy_allocation, or after it.
DestroyPCs == {"destroy.lock", "destroy.unlock", "destroy.free"}
InDestroy(t) == thr[t].ret = "destroy.lock" \/ thr[t].pc \in DestroyPCs

\* destroy_allocation has taken its allocation from the table for good.
Removed == \A t \in Threads : InDestroy(t) => thr[t].on \notin Registered

DutyInv == Duty /\ Removed

\* An allocation stays covered when thread t moves, unless t was the one that
\* covered it and gives that up.
LEMMA StillCovered ==
  ASSUME NEW a, NEW t \in Threads, Alone(t), Covered(a),
         timerId'[a] = timerId[a], a \in heap => a \in heap',
         thr[t].on = a /\ WillMark(t) =>
           \/ timerId[a] # "none"
           \/ thr'[t].on = a /\ WillMark(t)',
         thr[t].on = a /\ WillSchedule(t) =>
           \/ a \in heap'
           \/ thr'[t].on = a /\ WillSchedule(t)'
  PROVE  Covered(a)'
<1>1. ASSUME timerId'[a] = "none"
      PROVE  \E u \in Threads : thr'[u].on = a /\ WillMark(u)'
  <2>1. PICK u \in Threads : thr[u].on = a /\ WillMark(u) BY <1>1 DEF Covered
  <2>2. CASE u = t BY <1>1, <2>1, <2>2
  <2>3. CASE u # t
    BY <2>1, <2>3 DEF Alone, WillMark, InShutdown
  <2> QED BY <2>2, <2>3
<1>2. ASSUME a \notin heap'
      PROVE  \E u \in Threads : thr'[u].on = a /\ WillSchedule(u)'
  <2>1. PICK u \in Threads : thr[u].on = a /\ WillSchedule(u)
    BY <1>2 DEF Covered
  <2>2. CASE u = t BY <1>2, <2>1, <2>2
  <2>3. CASE u # t
    BY <2>1, <2>3 DEF Alone, WillSchedule, InShutdown
  <2> QED BY <2>2, <2>3
<1> QED BY <1>1, <1>2 DEF Covered

\* A step of thread t that touches the timer of its own allocation only.
LEMMA DutyOfOne ==
  ASSUME Duty, status = "running", NEW t \in Threads, Alone(t),
         NEW a, thr[t].on = a, Registered' \subseteq Registered,
         \A b : b # a => timerId'[b] = timerId[b] /\ (b \in heap => b \in heap'),
         a \in Registered' => Covered(a)'
  PROVE  Duty'
<1>1. ASSUME NEW b \in Registered', b # a PROVE Covered(b)'
  <2>1. Covered(b) BY <1>1 DEF Duty
  <2> QED BY <1>1, <2>1, StillCovered
<1> QED BY <1>1 DEF Duty

\* A thread that covered nothing is free to go anywhere.
LEMMA Unburdened ==
  ASSUME Duty, status = "running", NEW t \in Threads, Alone(t),
         timerId[thr[t].on] # "none" \/ ~WillMark(t), ~WillSchedule(t),
         UNCHANGED <<table, timerId, heap>>
  PROVE  Duty'
<1>1. Registered' = Registered BY DEF Registered
<1>2. ASSUME NEW b \in Registered PROVE Covered(b)'
  <2>1. Covered(b) BY DEF Duty
  <2> QED BY <2>1, StillCovered
<1> QED BY <1>1, <1>2 DEF Duty

\* A thread that keeps its duties.
LEMMA StaysOnDuty ==
  ASSUME Duty, status = "running", NEW t \in Threads, Alone(t),
         thr'[t].on = thr[t].on,
         timerId[thr[t].on] # "none" \/ (WillMark(t) => WillMark(t)'),
         WillSchedule(t) => WillSchedule(t)',
         UNCHANGED <<table, timerId, heap>>
  PROVE  Duty'
<1>1. Registered' = Registered BY DEF Registered
<1>2. ASSUME NEW b \in Registered PROVE Covered(b)'
  <2>1. Covered(b) BY DEF Duty
  <2> QED BY <2>1, StillCovered
<1> QED BY <1>1, <1>2 DEF Duty

\* What is removed stays removed: the table only gets new objects.
LEMMA RemovedOfOne ==
  ASSUME IInv, Removed, NEW t \in Threads, Alone(t), table' = table,
         InDestroy(t)' => InDestroy(t) /\ thr'[t].on = thr[t].on
  PROVE  Removed'
<1>1. Registered' = Registered BY DEF Registered
<1>2. ASSUME NEW u \in Threads, InDestroy(u)' PROVE thr'[u].on \notin Registered
  <2>1. CASE u = t BY <1>2, <2>1 DEF Removed
  <2>2. CASE u # t BY <1>2, <2>2 DEF Removed, Alone, InDestroy, DestroyPCs
  <2> QED BY <2>1, <2>2
<1> QED BY <1>1, <1>2 DEF Removed

\* Goto leaves duties with the thread, as its new position says.
LEMMA Moves ==
  ASSUME IInv, DutyInv, status = "running", NEW t \in Threads, NEW pc \in PCs,
         Goto(t, pc), pc \notin DestroyPCs,
         timerId[thr[t].on] # "none" \/ (WillMark(t) => WillMark(t)'),
         WillSchedule(t) => WillSchedule(t)',
         UNCHANGED <<table, timerId, heap>>
  PROVE  DutyInv'
<1>1. thr \in [Threads -> ThreadStates] BY DEF IInv, TypeOK
<1>2. Alone(t) /\ thr'[t].on = thr[t].on /\ thr'[t].ret = thr[t].ret
      /\ thr'[t].pc = pc
  BY <1>1, GotoFields
<1>3. Duty' BY <1>2, StaysOnDuty DEF DutyInv
<1>4. InDestroy(t)' => InDestroy(t) BY <1>2 DEF InDestroy, DestroyPCs
<1>5. Removed' BY <1>2, <1>4, RemovedOfOne DEF DutyInv
<1> QED BY <1>3, <1>5 DEF DutyInv

\* A thread that had no duty, and is not about to destroy.
LEMMA Leaves ==
  ASSUME IInv, DutyInv, status = "running", NEW t \in Threads, Alone(t),
         timerId[thr[t].on] # "none" \/ ~WillMark(t), ~WillSchedule(t),
         thr'[t].ret # "destroy.lock", thr'[t].pc \notin DestroyPCs,
         UNCHANGED <<table, timerId, heap>>
  PROVE  DutyInv'
<1>1. Duty' BY Unburdened DEF DutyInv
<1>2. Removed' BY RemovedOfOne DEF DutyInv, InDestroy, DestroyPCs
<1> QED BY <1>1, <1>2 DEF DutyInv

\* A process that has stopped owes nothing.
LEMMA StopsOnDuty ==
  ASSUME DutyInv, status' # "running", UNCHANGED <<thr, table>>
  PROVE  DutyInv'
BY DEF DutyInv, Duty, Removed, InDestroy, DestroyPCs, Registered

\* Taking the timer out of the heap is a promise to put it back, except for
\* an allocation that is removed.
LEMMA CancelDuty ==
  ASSUME IInv, DutyInv, NEW t \in Threads, NEW pc \in PCs, NEW next \in PCs,
         Cancel(t, pc, next),
         timerId[thr[t].on] # "none" \/ (WillMark(t) => WillMark(t)'),
         WillSchedule(t)' \/ InDestroy(t), next \notin DestroyPCs
  PROVE  DutyInv'
<1>1. thr \in [Threads -> ThreadStates] BY DEF IInv, TypeOK
<1>2. /\ status = "running"
      /\ heap' = heap \ {thr[t].on}
      /\ UNCHANGED <<table, timerId>>
      /\ Goto(t, next)
  BY DEF Cancel, At, On
<1>3. Alone(t) /\ thr'[t].on = thr[t].on /\ thr'[t].ret = thr[t].ret
      /\ thr'[t].pc = next
  BY <1>1, <1>2, GotoFields
<1>p. PICK a : thr[t].on = a OBVIOUS
<1>4. Registered' = Registered BY <1>2 DEF Registered
<1>5. ASSUME a \in Registered PROVE Covered(a)'
  <2>1. WillSchedule(t)' BY <1>5, <1>p DEF DutyInv, Removed
  <2>2. ASSUME timerId[a] = "none"
        PROVE  \E u \in Threads : thr'[u].on = a /\ WillMark(u)'
    <3>0. status = "running" /\ Covered(a) BY <1>2, <1>5 DEF DutyInv, Duty
    <3>1. PICK u \in Threads : thr[u].on = a /\ WillMark(u)
      BY <2>2, <3>0 DEF Covered
    <3>2. CASE u = t BY <1>3, <1>p, <2>2, <3>1, <3>2
    <3>3. CASE u # t BY <1>3, <3>1, <3>3 DEF Alone, WillMark, InShutdown
    <3> QED BY <3>2, <3>3
  <2> QED BY <1>2, <1>3, <1>p, <2>1, <2>2 DEF Covered
<1>6. Duty'
  <2>1. \A b : b # a => timerId'[b] = timerId[b] /\ (b \in heap => b \in heap')
    BY <1>2, <1>p
  <2> QED BY <1>2, <1>3, <1>4, <1>5, <1>p, <2>1, DutyOfOne DEF DutyInv
<1>7. InDestroy(t)' => InDestroy(t) BY <1>3 DEF InDestroy, DestroyPCs
<1>8. Removed' BY <1>2, <1>3, <1>7, RemovedOfOne DEF DutyInv
<1> QED BY <1>6, <1>8 DEF DutyInv

\* Whoever writes timer.id takes over every duty: it goes on to give an id
\* if it wrote "none", and to schedule.
LEMMA MarkDuty ==
  ASSUME IInv, DutyInv, NEW t \in Threads, NEW pc \in PCs, NEW next \in PCs,
         NEW id \in {"none", "timeout", "destroy"}, Mark(t, pc, id, next),
         InDestroy(t) \/ (WillSchedule(t)' /\ (id = "none" => WillMark(t)')),
         next \notin DestroyPCs, pc # "idle"
  PROVE  DutyInv'
<1>1. thr \in [Threads -> ThreadStates] BY DEF IInv, TypeOK
<1>2. /\ status = "running"
      /\ thr[t].pc = pc
      /\ timerId' = [timerId EXCEPT ![thr[t].on] = id]
      /\ UNCHANGED <<table, heap>>
      /\ Goto(t, next)
  BY DEF Mark, At, On, SetId
<1>3. Alone(t) /\ thr'[t].on = thr[t].on /\ thr'[t].ret = thr[t].ret
      /\ thr'[t].pc = next
  BY <1>1, <1>2, GotoFields
<1>4. Registered' = Registered BY <1>2 DEF Registered
<1>p. PICK a : thr[t].on = a OBVIOUS
<1>5. timerId'[a] = id /\ \A b : b # a => timerId'[b] = timerId[b]
  <2>1. a \in Allocs BY <1>2, <1>p DEF IInv, ThreadInv, TypeOK
  <2>2. timerId \in [Allocs -> {"none", "timeout", "destroy"}]
    BY DEF IInv, TypeOK
  <2>3. timerId'[a] = id BY <1>2, <1>p, <2>1, <2>2
  <2>4. ASSUME NEW b, b # a PROVE timerId'[b] = timerId[b]
    <3>1. CASE b \in Allocs BY <1>2, <1>p, <2>4, <2>2, <3>1
    <3>2. CASE b \notin Allocs BY <1>2, <1>p, <2>2, <2>4, <3>2
    <3> QED BY <3>1, <3>2
  <2> QED BY <2>3, <2>4
<1>6. ASSUME a \in Registered PROVE Covered(a)'
  <2>1. WillSchedule(t)' /\ (id = "none" => WillMark(t)')
    BY <1>6, <1>p DEF DutyInv, Removed
  <2> QED BY <1>3, <1>5, <1>p, <2>1 DEF Covered
<1>7. Duty'
  BY <1>2, <1>3, <1>4, <1>5, <1>6, <1>p, DutyOfOne DEF DutyInv
<1>8. InDestroy(t)' => InDestroy(t) BY <1>3 DEF InDestroy, DestroyPCs
<1>9. Removed' BY <1>2, <1>3, <1>8, RemovedOfOne DEF DutyInv
<1> QED BY <1>7, <1>9 DEF DutyInv

\* Scheduling discharges the one duty that a thread has there.
LEMMA ScheduleDuty ==
  ASSUME IInv, DutyInv, NEW t \in Threads, NEW pc \in PCs, Schedule(t, pc),
         Alone(t), ~WillMark(t),
         thr'[t].ret # "destroy.lock", thr'[t].pc \notin DestroyPCs
  PROVE  DutyInv'
<1>1. /\ status = "running"
      /\ heap' = heap \cup {thr[t].on}
      /\ UNCHANGED <<table, timerId>>
  BY DEF Schedule, At, On
<1>2. Registered' = Registered BY <1>1 DEF Registered
<1>3. ASSUME NEW b \in Registered PROVE Covered(b)'
  <2>1. Covered(b) BY <1>1 DEF DutyInv, Duty
  <2> QED BY <1>1, <2>1, StillCovered
<1>4. Duty' BY <1>2, <1>3 DEF Duty
<1>5. Removed' BY <1>1, RemovedOfOne DEF DutyInv, InDestroy, DestroyPCs
<1> QED BY <1>4, <1>5 DEF DutyInv

\* Outside resched_timeout, alloc_shutdown and the callback there is no duty.
LEMMA OffDuty ==
  ASSUME IInv, NEW t \in Threads,
         thr[t].pc \in {"idle", "rx.lock", "rx.dispatch", "rx.dealloc",
                        "rx.extend", "rx.handler", "rx.unlock"}
  PROVE  ~WillMark(t) /\ ~WillSchedule(t) /\ thr[t].ret = "none"
BY DEF IInv, ThreadInv, WillMark, WillSchedule, InShutdown, MarkPCs, SchedulePCs,
       RelayPCs

\* Handling a packet: no duty before the step.
LEMMA PacketDuty ==
  ASSUME IInv, DutyInv, NEW t \in Threads,
         \/ Lock(t) \/ Dispatch(t) \/ Deallocate(t) \/ Extend(t) \/ Handle(t)
         \/ Unlock(t)
  PROVE  DutyInv'
<1> USE DEF DestroyPCs
<1>1. thr \in [Threads -> ThreadStates] BY DEF IInv, TypeOK
<1>2. /\ status = "running"
      /\ thr[t].pc \in {"rx.lock", "rx.dispatch", "rx.dealloc", "rx.extend",
                        "rx.handler", "rx.unlock"}
      /\ UNCHANGED <<table, timerId, heap>>
  BY DEF Lock, Dispatch, Deallocate, Extend, Handle, Unlock, At
<1>3. ~WillMark(t) /\ ~WillSchedule(t) /\ thr[t].ret = "none" BY <1>2, OffDuty
<1>4. SUFFICES Alone(t) /\ thr'[t].ret = "none" /\ thr'[t].pc \notin DestroyPCs
  BY <1>2, <1>3, Leaves
<1>5. ASSUME NEW pc \in PCs, Goto(t, pc), pc \notin DestroyPCs
      PROVE  Alone(t) /\ thr'[t].ret = "none" /\ thr'[t].pc \notin DestroyPCs
  BY <1>1, <1>3, <1>5, GotoFields
<1>6. CASE Lock(t)
  <2> DEFINE pc == IF thr[t].packet = "peer" THEN "rx.unlock" ELSE "rx.dispatch"
  <2>1. thr' = [thr EXCEPT ![t].pc = pc, ![t].locked = thr[t].on]
    BY <1>6 DEF Lock, On
  <2> DEFINE new == [thr[t] EXCEPT !.pc = pc, !.locked = thr[t].on]
  <2>2. thr' = [thr EXCEPT ![t] = new] BY <2>1
  <2>3. new.ret = "none" /\ new.pc \in {"rx.unlock", "rx.dispatch"}
    BY <1>1, <1>3 DEF ThreadStates
  <2> HIDE DEF new
  <2>4. thr'[t] = new /\ Alone(t) BY <1>1, <2>2 DEF Alone
  <2> QED BY <2>3, <2>4
<1>7. CASE Dispatch(t) \/ Deallocate(t) \/ Extend(t)
  <2>1. \E pc \in {"rx.unlock", "rx.dealloc", "rx.extend", "shutdown.test",
                   "resched.test"} : Goto(t, pc)
    BY <1>7 DEF Dispatch, Deallocate, Extend
  <2> QED BY <1>5, <2>1 DEF PCs
<1>8. CASE Handle(t)
  <2>1. CASE Goto(t, "rx.unlock") BY <1>5, <2>1 DEF PCs
  <2>2. ASSUME NEW a, thr' = [thr EXCEPT ![t].pc = "shutdown.test", ![t].on = a]
        PROVE  Alone(t) /\ thr'[t].ret = "none" /\ thr'[t].pc \notin DestroyPCs
    <3> DEFINE new == [thr[t] EXCEPT !.pc = "shutdown.test", !.on = a]
    <3>1. thr' = [thr EXCEPT ![t] = new] BY <2>2
    <3>2. new.ret = "none" /\ new.pc = "shutdown.test"
      BY <1>1, <1>3 DEF ThreadStates
    <3> HIDE DEF new
    <3>3. thr'[t] = new /\ Alone(t) BY <1>1, <3>1 DEF Alone
    <3> QED BY <3>2, <3>3
  <2> QED BY <1>8, <2>1, <2>2 DEF Handle
<1>9. CASE Unlock(t)
  <2>1. thr'[t] = Idle /\ Alone(t) BY <1>1, <1>9 DEF Unlock, Alone
  <2> QED BY <2>1 DEF Idle
<1> QED BY <1>6, <1>7, <1>8, <1>9

\* resched_timeout takes the timer out of the heap and puts it back.
LEMMA RescheduleDuty ==
  ASSUME IInv, DutyInv, NEW t \in Threads,
         \/ RescheduleTest(t) \/ RescheduleCancel(t) \/ RescheduleClear(t)
         \/ RescheduleMark(t) \/ RescheduleSchedule(t) \/ ScheduleTwice(t)
  PROVE  DutyInv'
<1> USE DEF DestroyPCs
<1> USE DEF On
<1>t. thr \in [Threads -> ThreadStates] BY DEF IInv, TypeOK
<1>g. ASSUME NEW pc \in PCs, Goto(t, pc) PROVE thr'[t].pc = pc
  BY <1>t, <1>g, GotoFields
<1>1. CASE RescheduleTest(t)
  <2>1. CASE Abort("rescheduled while shutting down")
    BY <2>1, StopsOnDuty DEF Abort
  <2>2. CASE \E pc \in {"resched.cancel", "resched.mark"} :
               /\ Goto(t, pc)
               /\ timerId[thr[t].on] = "none" => pc = "resched.mark"
               /\ UNCHANGED <<table, timerId, heap>>
    <3>1. PICK pc \in {"resched.cancel", "resched.mark"} :
            /\ Goto(t, pc)
            /\ pc \in PCs
            /\ timerId[thr[t].on] = "none" => pc = "resched.mark"
            /\ UNCHANGED <<table, timerId, heap>>
      BY <2>2 DEF PCs
    <3>2. timerId[thr[t].on] # "none" \/ WillMark(t)'
      BY <1>g, <3>1 DEF WillMark, MarkPCs
    <3>3. WillSchedule(t)' BY <1>g, <3>1 DEF WillSchedule, SchedulePCs, MarkPCs
    <3>4. status = "running" BY <1>1 DEF RescheduleTest, At
    <3> QED BY <3>1, <3>2, <3>3, <3>4, Moves
  <2> QED BY <1>1, <2>1, <2>2 DEF RescheduleTest
<1>2. CASE RescheduleCancel(t)
  <2>1. Cancel(t, "resched.cancel", "resched.clear") /\ thr[t].pc = "resched.cancel"
    BY <1>2 DEF RescheduleCancel, Cancel, At
  <2>2. "resched.cancel" \in PCs /\ "resched.clear" \in PCs BY DEF PCs
  <2>3. thr'[t].pc = "resched.clear" BY <1>g, <2>1, <2>2 DEF Cancel
  <2>4. ~WillMark(t)
    BY <2>1 DEF WillMark, InShutdown, MarkPCs, RelayPCs
  <2>5. WillSchedule(t)' BY <2>3 DEF WillSchedule, SchedulePCs
  <2> QED BY <2>1, <2>2, <2>4, <2>5, CancelDuty
<1>3. CASE RescheduleClear(t)
  <2>1. Mark(t, "resched.clear", "none", "resched.mark")
    BY <1>3 DEF RescheduleClear
  <2>2. "resched.clear" \in PCs /\ "resched.mark" \in PCs BY DEF PCs
  <2>3. thr'[t].pc = "resched.mark" BY <1>g, <2>1, <2>2 DEF Mark
  <2>4. WillSchedule(t)' /\ WillMark(t)'
    BY <2>3 DEF WillSchedule, WillMark, SchedulePCs, MarkPCs
  <2> QED BY <2>1, <2>2, <2>4, MarkDuty
<1>4. CASE RescheduleMark(t)
  <2>1. Mark(t, "resched.mark", "timeout", "resched.schedule")
    BY <1>4 DEF RescheduleMark
  <2>2. "resched.mark" \in PCs /\ "resched.schedule" \in PCs BY DEF PCs
  <2>3. thr'[t].pc = "resched.schedule" BY <1>g, <2>1, <2>2 DEF Mark
  <2>4. WillSchedule(t)' BY <2>3 DEF WillSchedule, SchedulePCs
  <2> QED BY <2>1, <2>2, <2>4, MarkDuty
<1>5. CASE RescheduleSchedule(t)
  <2>1. PICK pc \in {"rx.handler", "rx.unlock"} : Goto(t, pc)
    BY <1>5 DEF RescheduleSchedule
  <2>2. Schedule(t, "resched.schedule") /\ thr[t].pc = "resched.schedule"
    BY <1>5 DEF RescheduleSchedule, Schedule, At
  <2>3. thr[t].ret = "none" /\ ~WillMark(t)
    BY <2>2 DEF IInv, ThreadInv, RelayPCs, WillMark, InShutdown, MarkPCs
  <2>4. Alone(t) /\ thr'[t].ret = "none" /\ thr'[t].pc = pc
    BY <1>t, <2>1, <2>3, GotoFields DEF PCs
  <2> QED BY <2>2, <2>3, <2>4, ScheduleDuty DEF PCs
<1>6. CASE ScheduleTwice(t)
  BY <1>6, StopsOnDuty DEF ScheduleTwice, Abort
<1> QED BY <1>1, <1>2, <1>3, <1>4, <1>5, <1>6

\* alloc_shutdown does so as well, with destroy_relay in between; when that
\* runs for destroy_allocation the allocation is off the table.
LEMMA ShutdownDuty ==
  ASSUME IInv, DutyInv, NEW t \in Threads,
         \/ ShutdownTest(t) \/ ShutdownCancel(t) \/ ShutdownClear(t)
         \/ ShutdownAssert(t) \/ ShutdownMark(t) \/ ShutdownSchedule(t)
         \/ RelayTest(t) \/ RelayCancel(t) \/ RelayClear(t) \/ RelayClose(t)
  PROVE  DutyInv'
<1> USE DEF DestroyPCs
<1> USE DEF On
<1>t. thr \in [Threads -> ThreadStates] BY DEF IInv, TypeOK
<1>g. ASSUME NEW pc \in PCs, Goto(t, pc)
      PROVE  thr'[t].pc = pc /\ thr'[t].ret = thr[t].ret
  BY <1>t, <1>g, GotoFields
<1>r. thr[t].pc \in RelayPCs => InShutdown(t) \/ InDestroy(t)
  BY <1>t DEF IInv, ThreadInv, ThreadStates, InShutdown, InDestroy, DestroyPCs
<1>1. CASE ShutdownTest(t)
  <2>1. status = "running" /\ thr[t].pc = "shutdown.test"
        /\ UNCHANGED <<table, timerId, heap>>
    BY <1>1 DEF ShutdownTest, At
  <2>2. thr[t].on \in Allocs /\ thr[t].ret = "none"
    BY <2>1 DEF IInv, ThreadInv, TypeOK, RelayPCs
  <2>3. timerId[thr[t].on] \in {"none", "timeout", "destroy"}
    BY <2>2 DEF IInv, TypeOK
  <2>4. CASE timerId[thr[t].on] = "destroy"
    <3>1. Return(t) BY <1>1, <2>4 DEF ShutdownTest
    <3>2. ~WillSchedule(t)
      BY <2>1, <2>4 DEF WillSchedule, InShutdown, SchedulePCs, MarkPCs, RelayPCs
    <3>3. Alone(t) /\ thr'[t].ret # "destroy.lock" /\ thr'[t].pc \notin DestroyPCs
      BY <1>t, <2>2, <3>1, ReturnFields
    <3> QED BY <2>1, <2>4, <3>2, <3>3, Leaves
  <2>5. CASE timerId[thr[t].on] = "timeout"
    <3>1. Goto(t, "shutdown.cancel") /\ "shutdown.cancel" \in PCs
      BY <1>1, <2>5 DEF ShutdownTest, PCs
    <3>2. WillSchedule(t)' BY <1>g, <3>1 DEF WillSchedule, SchedulePCs
    <3> QED BY <2>1, <2>5, <3>1, <3>2, Moves
  <2>6. CASE timerId[thr[t].on] = "none"
    <3>1. Goto(t, "shutdown.assert") /\ "shutdown.assert" \in PCs
      BY <1>1, <2>6 DEF ShutdownTest, PCs
    <3>2. WillSchedule(t)' /\ WillMark(t)'
      BY <1>g, <3>1 DEF WillSchedule, WillMark, SchedulePCs, MarkPCs
    <3> QED BY <2>1, <3>1, <3>2, Moves
  <2> QED BY <2>3, <2>4, <2>5, <2>6
<1>2. CASE ShutdownCancel(t)
  <2>1. /\ Cancel(t, "shutdown.cancel", "shutdown.clear")
        /\ thr[t].pc = "shutdown.cancel"
    BY <1>2 DEF ShutdownCancel, Cancel, At
  <2>2. "shutdown.cancel" \in PCs /\ "shutdown.clear" \in PCs BY DEF PCs
  <2>3. thr'[t].pc = "shutdown.clear" BY <1>g, <2>1, <2>2 DEF Cancel
  <2>4. ~WillMark(t) BY <2>1 DEF WillMark, InShutdown, MarkPCs, RelayPCs
  <2>5. WillSchedule(t)' BY <2>3 DEF WillSchedule, SchedulePCs
  <2> QED BY <2>1, <2>2, <2>4, <2>5, CancelDuty
<1>3. CASE ShutdownClear(t)
  <2>1. Mark(t, "shutdown.clear", "none", "shutdown.assert")
    BY <1>3 DEF ShutdownClear
  <2>2. "shutdown.clear" \in PCs /\ "shutdown.assert" \in PCs BY DEF PCs
  <2>3. thr'[t].pc = "shutdown.assert" BY <1>g, <2>1, <2>2 DEF Mark
  <2>4. WillSchedule(t)' /\ WillMark(t)'
    BY <2>3 DEF WillSchedule, WillMark, SchedulePCs, MarkPCs
  <2> QED BY <2>1, <2>2, <2>4, MarkDuty
<1>4. CASE ShutdownAssert(t)
  <2>1. CASE Abort("shut down twice") BY <2>1, StopsOnDuty DEF Abort
  <2>2. CASE /\ thr' = [thr EXCEPT ![t].pc = "relay.test",
                                   ![t].ret = "shutdown.mark"]
             /\ UNCHANGED <<table, timerId, heap>>
    <3> DEFINE new == [thr[t] EXCEPT !.pc = "relay.test", !.ret = "shutdown.mark"]
    <3>1. thr' = [thr EXCEPT ![t] = new] BY <2>2
    <3>2. new.pc = "relay.test" /\ new.ret = "shutdown.mark" /\ new.on = thr[t].on
      BY <1>t DEF ThreadStates
    <3> HIDE DEF new
    <3>3. thr'[t] = new /\ Alone(t) BY <1>t, <3>1 DEF Alone
    <3>4. WillMark(t)' /\ WillSchedule(t)' /\ ~InDestroy(t)'
      BY <3>2, <3>3 DEF WillMark, WillSchedule, InShutdown, InDestroy, DestroyPCs, RelayPCs
    <3>5. status = "running" BY <1>4 DEF ShutdownAssert, At
    <3>6. Duty' BY <2>2, <3>2, <3>3, <3>4, <3>5, StaysOnDuty DEF DutyInv
    <3>7. Removed' BY <2>2, <3>3, <3>4, RemovedOfOne DEF DutyInv
    <3> QED BY <3>6, <3>7 DEF DutyInv
  <2> QED BY <1>4, <2>1, <2>2 DEF ShutdownAssert
<1>5. CASE ShutdownMark(t)
  <2>1. Mark(t, "shutdown.mark", "destroy", "shutdown.schedule")
    BY <1>5 DEF ShutdownMark
  <2>2. "shutdown.mark" \in PCs /\ "shutdown.schedule" \in PCs BY DEF PCs
  <2>3. thr'[t].pc = "shutdown.schedule" BY <1>g, <2>1, <2>2 DEF Mark
  <2>4. WillSchedule(t)' BY <2>3 DEF WillSchedule, SchedulePCs
  <2> QED BY <2>1, <2>2, <2>4, MarkDuty
<1>6. CASE ShutdownSchedule(t)
  <2>1. Schedule(t, "shutdown.schedule") /\ thr[t].pc = "shutdown.schedule"
    BY <1>6 DEF ShutdownSchedule, Schedule, At
  <2>2. thr[t].ret = "none" /\ ~WillMark(t)
    BY <2>1 DEF IInv, ThreadInv, RelayPCs, WillMark, InShutdown, MarkPCs
  <2>3. Alone(t) /\ thr'[t].ret # "destroy.lock" /\ thr'[t].pc \notin DestroyPCs
    BY <1>t, <1>6, <2>2, ReturnFields DEF ShutdownSchedule
  <2> QED BY <2>1, <2>2, <2>3, ScheduleDuty DEF PCs
<1>7. CASE RelayTest(t)
  <2>1. PICK pc \in {"relay.cancel", "relay.close"} : Goto(t, pc) /\ pc \in PCs
    BY <1>7 DEF RelayTest, PCs
  <2>2. thr[t].pc = "relay.test" /\ status = "running"
        /\ UNCHANGED <<table, timerId, heap>>
    BY <1>7 DEF RelayTest, At
  <2>3. /\ WillMark(t) => WillMark(t)'
        /\ WillSchedule(t) => WillSchedule(t)'
    BY <1>g, <2>1, <2>2
    DEF WillMark, WillSchedule, InShutdown, MarkPCs, SchedulePCs, RelayPCs
  <2> QED BY <2>1, <2>2, <2>3, Moves
<1>8. CASE RelayCancel(t)
  <2>1. Cancel(t, "relay.cancel", "relay.clear") /\ thr[t].pc = "relay.cancel"
    BY <1>8 DEF RelayCancel, Cancel, At
  <2>2. "relay.cancel" \in PCs /\ "relay.clear" \in PCs BY DEF PCs
  <2>3. thr'[t].pc = "relay.clear" /\ thr'[t].ret = thr[t].ret
    BY <1>g, <2>1, <2>2 DEF Cancel
  <2>4. /\ WillMark(t) => WillMark(t)'
        /\ WillSchedule(t)' \/ InDestroy(t)
    BY <1>r, <2>1, <2>3
    DEF WillMark, WillSchedule, InShutdown, MarkPCs, SchedulePCs, RelayPCs
  <2> QED BY <2>1, <2>2, <2>4, CancelDuty
<1>9. CASE RelayClear(t)
  <2>1. Mark(t, "relay.clear", "none", "relay.close") /\ thr[t].pc = "relay.clear"
    BY <1>9 DEF RelayClear, Mark, At
  <2>2. "relay.clear" \in PCs /\ "relay.close" \in PCs BY DEF PCs
  <2>3. thr'[t].pc = "relay.close" /\ thr'[t].ret = thr[t].ret
    BY <1>g, <2>1, <2>2 DEF Mark
  <2>4. (WillSchedule(t)' /\ WillMark(t)') \/ InDestroy(t)
    BY <1>r, <2>1, <2>3
    DEF WillMark, WillSchedule, InShutdown, MarkPCs, SchedulePCs, RelayPCs
  <2> QED BY <2>1, <2>2, <2>4, MarkDuty
<1>10. CASE RelayClose(t)
  <2>1. thr[t].pc = "relay.close" /\ status = "running"
        /\ UNCHANGED <<table, timerId, heap>>
    BY <1>10 DEF RelayClose, At
  <2> DEFINE new == [thr[t] EXCEPT !.pc = thr[t].ret, !.ret = "none"]
  <2>2. thr' = [thr EXCEPT ![t] = new] BY <1>10 DEF RelayClose
  <2>3. new.pc = thr[t].ret /\ new.ret = "none" /\ new.on = thr[t].on
    BY <1>t DEF ThreadStates
  <2> HIDE DEF new
  <2>4. thr'[t] = new /\ Alone(t) BY <1>t, <2>2 DEF Alone
  <2>r. thr[t].ret \in {"shutdown.mark", "destroy.lock"}
    BY <1>t, <2>1 DEF IInv, ThreadInv, RelayPCs, ThreadStates
  <2>5. /\ WillMark(t) => WillMark(t)'
        /\ WillSchedule(t) => WillSchedule(t)'
        /\ InDestroy(t)' => InDestroy(t)
    BY <2>1, <2>3, <2>4, <2>r
    DEF WillMark, WillSchedule, InShutdown, InDestroy, DestroyPCs, MarkPCs,
        SchedulePCs, RelayPCs
  <2>6. Duty' BY <2>1, <2>3, <2>4, <2>5, StaysOnDuty DEF DutyInv
  <2>7. Removed' BY <2>1, <2>3, <2>4, <2>5, RemovedOfOne DEF DutyInv
  <2> QED BY <2>6, <2>7 DEF DutyInv
<1> QED BY <1>1, <1>2, <1>3, <1>4, <1>5, <1>6, <1>7, <1>8, <1>9, <1>10

\* The callback takes over the duty of the timer that fired; the destroy
\* callback ends it by taking the allocation from the table.
LEMMA TimerDuty ==
  ASSUME IInv, DutyInv, NEW t \in Threads,
         \/ Callback(t) \/ CallbackTimeout(t) \/ CallbackDestroy(t)
         \/ Unregister(t) \/ DestroyLock(t) \/ DestroyUnlock(t)
         \/ DestroyFree(t) \/ DestroyNothing(t) \/ UseFreed(t) \/ NoSession(t)
  PROVE  DutyInv'
<1> USE DEF DestroyPCs
<1> USE DEF On
<1>t. thr \in [Threads -> ThreadStates] BY DEF IInv, TypeOK
<1>g. ASSUME NEW pc \in PCs, Goto(t, pc) PROVE thr'[t].pc = pc
  BY <1>t, <1>g, GotoFields
<1>1. CASE Callback(t)
  <2>1. status = "running" /\ thr[t].pc = "timer.cb"
        /\ UNCHANGED <<table, timerId, heap>>
    BY <1>1 DEF Callback, At
  <2>2. thr[t].on \in Allocs /\ thr[t].ret = "none"
    BY <2>1 DEF IInv, ThreadInv, TypeOK, RelayPCs
  <2>3. timerId[thr[t].on] \in {"none", "timeout", "destroy"}
    BY <2>2 DEF IInv, TypeOK
  <2>4. ~WillMark(t) BY <2>1 DEF WillMark, InShutdown, MarkPCs, RelayPCs
  <2>5. CASE timerId[thr[t].on] = "none"
    <3>1. Return(t) BY <1>1, <2>5 DEF Callback
    <3>2. ~WillSchedule(t)
      BY <2>1, <2>5 DEF WillSchedule, InShutdown, SchedulePCs, MarkPCs, RelayPCs
    <3>3. Alone(t) /\ thr'[t].ret # "destroy.lock" /\ thr'[t].pc \notin DestroyPCs
      BY <1>t, <2>2, <3>1, ReturnFields
    <3> QED BY <2>1, <2>4, <3>2, <3>3, Leaves
  <2>6. CASE timerId[thr[t].on] # "none"
    <3>1. PICK pc \in {"timer.timeout", "timer.destroy"} : Goto(t, pc) /\ pc \in PCs
      BY <1>1, <2>3, <2>6 DEF Callback, PCs
    <3>2. WillSchedule(t)' BY <1>g, <3>1 DEF WillSchedule, SchedulePCs
    <3> QED BY <2>1, <2>6, <3>1, <3>2, Moves
  <2> QED BY <2>5, <2>6
<1>2. CASE CallbackTimeout(t)
  <2>1. Mark(t, "timer.timeout", "none", "shutdown.test") /\ thr[t].pc = "timer.timeout"
    BY <1>2 DEF CallbackTimeout, Mark, At
  <2>2. "timer.timeout" \in PCs /\ "shutdown.test" \in PCs BY DEF PCs
  <2>3. thr'[t].pc = "shutdown.test" /\ thr'[t].on = thr[t].on
    BY <1>t, <2>1, <2>2, GotoFields DEF Mark
  <2>4. timerId'[thr[t].on] # "destroy"
    <3>1. thr[t].on \in Allocs BY <2>1 DEF IInv, ThreadInv, TypeOK
    <3> QED BY <2>1, <3>1 DEF Mark, SetId, IInv, TypeOK
  <2>5. WillSchedule(t)' /\ WillMark(t)'
    BY <2>3, <2>4 DEF WillSchedule, WillMark
  <2> QED BY <2>1, <2>2, <2>5, MarkDuty
<1>3. CASE CallbackDestroy(t)
  <2>1. Mark(t, "timer.destroy", "none", "destroy.unregister")
    BY <1>3 DEF CallbackDestroy
  <2>2. "timer.destroy" \in PCs /\ "destroy.unregister" \in PCs BY DEF PCs
  <2>3. thr'[t].pc = "destroy.unregister" BY <1>g, <2>1, <2>2 DEF Mark
  <2>4. WillSchedule(t)' /\ WillMark(t)'
    BY <2>3 DEF WillSchedule, WillMark, SchedulePCs, MarkPCs
  <2> QED BY <2>1, <2>2, <2>4, MarkDuty
<1>4. CASE Unregister(t)
  <2>1. PICK a : thr[t].on = a OBVIOUS
  <2>2. /\ status = "running"
        /\ thr[t].pc = "destroy.unregister"
        /\ table' = [c \in Clients |-> IF table[c] = a THEN NoAlloc ELSE table[c]]
        /\ UNCHANGED <<timerId, heap>>
    BY <1>4, <2>1 DEF Unregister, At
  <2>3. Registered' \subseteq Registered /\ a \notin Registered'
    <3>1. a \in Allocs BY <2>1, <2>2 DEF IInv, ThreadInv, TypeOK
    <3> QED BY <2>2, <3>1, ThreadsAssumption DEF Registered
  <2> DEFINE new == [thr[t] EXCEPT !.pc = "relay.test", !.ret = "destroy.lock"]
  <2>4. thr' = [thr EXCEPT ![t] = new] BY <1>4 DEF Unregister
  <2>5. new.on = a BY <1>t, <2>1 DEF ThreadStates
  <2> HIDE DEF new
  <2>6. thr'[t] = new /\ Alone(t) BY <1>t, <2>4 DEF Alone
  <2>7. Duty' BY <2>1, <2>2, <2>3, <2>6, DutyOfOne DEF DutyInv
  <2>8. ASSUME NEW u \in Threads, InDestroy(u)' PROVE thr'[u].on \notin Registered'
    <3>1. CASE u = t BY <2>3, <2>5, <2>6, <3>1
    <3>2. CASE u # t
      BY <2>3, <2>6, <2>8, <3>2 DEF Alone, InDestroy, DestroyPCs, DutyInv, Removed
    <3> QED BY <3>1, <3>2
  <2> QED BY <2>7, <2>8 DEF DutyInv, Removed
<1>5. CASE DestroyLock(t) \/ DestroyUnlock(t)
  <2>1. /\ status = "running" /\ thr[t].pc \in {"destroy.lock", "destroy.unlock"}
        /\ UNCHANGED <<table, timerId, heap>>
    BY <1>5 DEF DestroyLock, DestroyUnlock, At
  <2>2. ~WillMark(t) /\ ~WillSchedule(t)
    BY <2>1 DEF WillMark, WillSchedule, InShutdown, MarkPCs, SchedulePCs, RelayPCs
  <2>3. PICK pc, lock : thr' = [thr EXCEPT ![t].pc = pc, ![t].locked = lock]
    BY <1>5 DEF DestroyLock, DestroyUnlock
  <2> DEFINE new == [thr[t] EXCEPT !.pc = pc, !.locked = lock]
  <2>4. thr' = [thr EXCEPT ![t] = new] BY <2>3
  <2>5. new.on = thr[t].on BY <1>t DEF ThreadStates
  <2> HIDE DEF new
  <2>6. thr'[t] = new /\ Alone(t) BY <1>t, <2>4 DEF Alone
  <2>7. InDestroy(t) BY <2>1 DEF InDestroy, DestroyPCs
  <2>8. Duty' BY <2>1, <2>2, <2>6, Unburdened DEF DutyInv
  <2>9. Removed' BY <2>1, <2>5, <2>6, <2>7, RemovedOfOne DEF DutyInv
  <2> QED BY <2>8, <2>9 DEF DutyInv
<1>6. CASE DestroyFree(t) \/ DestroyNothing(t)
  <2>1. /\ status = "running"
        /\ thr[t].pc \in DestroyPCs
        /\ UNCHANGED <<table, timerId, heap>>
    BY <1>6 DEF DestroyFree, DestroyNothing, At
  <2>2. thr[t].ret = "none" /\ ~WillMark(t) /\ ~WillSchedule(t)
    BY <2>1 DEF IInv, ThreadInv, RelayPCs, WillMark, WillSchedule, InShutdown,
                MarkPCs, SchedulePCs
  <2>3. Alone(t) /\ thr'[t].ret # "destroy.lock" /\ thr'[t].pc \notin DestroyPCs
    <3>1. CASE Return(t) BY <1>t, <2>2, <3>1, ReturnFields
    <3>2. CASE DestroyNothing(t)
      <4>1. thr'[t] = Idle /\ Alone(t) BY <1>t, <3>2 DEF DestroyNothing, Alone
      <4> QED BY <4>1 DEF Idle
    <3> QED BY <1>6, <3>1, <3>2 DEF DestroyFree
  <2> QED BY <2>1, <2>2, <2>3, Leaves
<1>7. CASE UseFreed(t) BY <1>7, StopsOnDuty DEF UseFreed
<1>8. CASE NoSession(t) BY <1>8, StopsOnDuty DEF NoSession, Abort
<1> QED BY <1>1, <1>2, <1>3, <1>4, <1>5, <1>6, <1>7, <1>8

\* A thread that starts to work takes no duty from anybody.
LEMMA StartDuty ==
  ASSUME IInv, DutyInv, status = "running", NEW t \in Threads,
         thr[t].pc = "idle", NEW pc \in PCs, NEW a \in Allocs,
         NEW p \in Packets \cup {"none"}, Start(t, pc, a, p),
         pc \notin DestroyPCs, UNCHANGED <<table, timerId, heap>>
  PROVE  DutyInv'
<1>1. thr \in [Threads -> ThreadStates] BY DEF IInv, TypeOK
<1>2. Alone(t) /\ thr'[t].pc = pc /\ thr'[t].ret = "none"
  BY <1>1, StartFields
<1>3. ~WillMark(t) /\ ~WillSchedule(t) BY OffDuty
<1> QED BY <1>2, <1>3, Leaves

\* A new allocation has its timer.
LEMMA ArrivalDuty ==
  ASSUME IInv, DutyInv, NEW w \in Workers, Arrival(w)
  PROVE  DutyInv'
<1> USE DEF DestroyPCs
<1>w. w \in Threads BY DEF Threads
<1>1. ASSUME NEW c \in Clients, NEW a \in Allocs, Allocate(w, c, a)
      PROVE  DutyInv'
  <2>1. /\ status = "running" /\ a \notin made /\ UNCHANGED thr
        /\ table' = [table EXCEPT ![c] = a]
        /\ timerId' = [timerId EXCEPT ![a] = "timeout"]
        /\ heap' = heap \cup {a}
    BY <1>1 DEF Allocate, ReadsPacket
  <2>2. Registered' \subseteq Registered \cup {a}
    BY <2>1 DEF Registered, IInv, TypeOK
  <2>3. a \notin Registered BY <2>1 DEF Registered, IInv, AllocInv
  <2>4. ASSUME NEW b \in Registered' PROVE Covered(b)'
    <3>1. CASE b = a
      <4>1. timerId'[a] = "timeout" /\ a \in heap' BY <2>1 DEF IInv, TypeOK
      <4> QED BY <3>1, <4>1 DEF Covered
    <3>2. CASE b # a
      <4>1. Covered(b) BY <2>1, <2>2, <3>2 DEF DutyInv, Duty
      <4>2. Alone(w) /\ thr' = thr BY <2>1 DEF Alone
      <4>3. timerId'[b] = timerId[b]
        <5>1. b \in Allocs BY <2>2, <3>2 DEF Registered, IInv, TypeOK
        <5> QED BY <2>1, <3>2, <5>1 DEF IInv, TypeOK
      <4>4. /\ thr[w].on = b /\ WillMark(w) => thr'[w].on = b /\ WillMark(w)'
            /\ thr[w].on = b /\ WillSchedule(w) => thr'[w].on = b /\ WillSchedule(w)'
        BY <4>2, <4>3 DEF WillMark, WillSchedule, InShutdown
      <4>5. b \in heap => b \in heap' BY <2>1
      <4> QED BY <1>w, <4>1, <4>2, <4>3, <4>4, <4>5, StillCovered
    <3> QED BY <3>1, <3>2
  <2>5. ASSUME NEW u \in Threads, InDestroy(u) PROVE thr[u].on \notin Registered'
    <3>1. thr[u].pc # "idle" BY <2>5 DEF InDestroy, DestroyPCs, IInv, ThreadInv, RelayPCs
    <3>2. thr[u].on \in made BY <3>1 DEF IInv, ThreadInv
    <3>3. thr[u].on \notin Registered BY <2>5 DEF DutyInv, Removed
    <3> QED BY <2>1, <2>2, <3>2, <3>3
  <2>6. Removed' BY <2>1, <2>5 DEF Removed, InDestroy, DestroyPCs
  <2> QED BY <2>4, <2>6 DEF DutyInv, Duty
<1>2. ASSUME NEW c \in Clients, NEW a \in Allocs, AllocateFails(w, c, a)
      PROVE  DutyInv'
  <2>1. /\ status = "running" /\ UNCHANGED <<table, timerId, thr, status>>
        /\ heap \subseteq heap'
    BY <1>2 DEF AllocateFails, ReadsPacket
  <2>2. Registered' = Registered BY <2>1 DEF Registered
  <2>3. ASSUME NEW b \in Registered PROVE Covered(b)'
    <3>1. Covered(b) BY <2>1 DEF DutyInv, Duty
    <3> QED BY <2>1, <3>1 DEF Covered, WillMark, WillSchedule, InShutdown
  <2>4. Removed' BY <2>1, <2>2 DEF DutyInv, Removed, InDestroy, DestroyPCs
  <2> QED BY <2>2, <2>3, <2>4 DEF DutyInv, Duty
<1>3. ASSUME NEW c \in Clients, NEW p \in ClientPackets,
             ReceiveFromClient(w, c, p)
      PROVE  DutyInv'
  <2>1. table[c] \in Allocs BY <1>3 DEF ReceiveFromClient, IInv, TypeOK
  <2>2. "rx.lock" \in PCs /\ p \in Packets BY DEF PCs, Packets
  <2> QED BY <1>w, <1>3, <2>1, <2>2, StartDuty DEF ReceiveFromClient, ReadsPacket
<1>4. ASSUME NEW a \in Allocs, ReceiveFromPeer(w, a) PROVE DutyInv'
  <2>1. "rx.lock" \in PCs /\ "peer" \in Packets BY DEF PCs, Packets
  <2> QED BY <1>w, <1>4, <2>1, StartDuty DEF ReceiveFromPeer
<1> QED BY <1>1, <1>2, <1>3, <1>4 DEF Arrival

\* The worker that takes a timer out of the heap takes the duty over; if the
\* timer has no id, some other thread has it already.
LEMMA OtherDuty ==
  ASSUME IInv, DutyInv, LogoutUser \/ \E a \in Allocs : Fire(a)
  PROVE  DutyInv'
<1> USE DEF DestroyPCs
<1>1. CASE LogoutUser
  <2>1. PICK c \in announced :
          table[c] # NoAlloc /\ Start(LogoutThread, "shutdown.test", table[c], "none")
    BY <1>1 DEF LogoutUser
  <2>2. LogoutThread \in Threads /\ "shutdown.test" \in PCs BY DEF Threads, PCs
  <2>3. table[c] \in Allocs BY <2>1 DEF IInv, TypeOK
  <2> QED BY <1>1, <2>1, <2>2, <2>3, StartDuty DEF LogoutUser
<1>2. ASSUME NEW a \in Allocs, Fire(a) PROVE DutyInv'
  <2>1. PICK w \in Workers : thr[w].pc = "idle" /\ Start(w, "timer.cb", a, "none")
    BY <1>2 DEF Fire
  <2>2. w \in Threads /\ "timer.cb" \in PCs BY DEF Threads, PCs
  <2>3. thr \in [Threads -> ThreadStates] BY DEF IInv, TypeOK
  <2>4. /\ Alone(w)
        /\ thr'[w].pc = "timer.cb"
        /\ thr'[w].on = a
        /\ thr'[w].ret = "none"
    BY <2>1, <2>2, <2>3, StartFields
  <2>5. ~WillMark(w) /\ ~WillSchedule(w) BY <2>1, <2>2, OffDuty
  <2>6. /\ status = "running" /\ heap' = heap \ {a}
        /\ UNCHANGED <<table, timerId, status>>
    BY <1>2 DEF Fire
  <2>7. Registered' = Registered BY <2>6 DEF Registered
  <2>8. ASSUME NEW b \in Registered PROVE Covered(b)'
    <3>1. Covered(b) BY <2>6 DEF DutyInv, Duty
    <3>2. CASE b # a
      <4>1. b \in heap => b \in heap' BY <2>6, <3>2
      <4> QED BY <2>2, <2>4, <2>5, <2>6, <3>1, <4>1, StillCovered
    <3>3. CASE b = a /\ timerId[a] # "none"
      <4>1. WillSchedule(w)' BY <2>4, <2>6, <3>3 DEF WillSchedule
      <4> QED BY <2>2, <2>4, <2>6, <3>3, <4>1 DEF Covered
    <3>4. CASE b = a /\ timerId[a] = "none"
      <4>1. PICK u \in Threads : thr[u].on = a /\ WillMark(u)
        BY <3>1, <3>4 DEF Covered
      <4>2. thr'[u] = thr[u] BY <2>4, <2>5, <4>1 DEF Alone
      <4>3. WillMark(u)' BY <4>1, <4>2 DEF WillMark, InShutdown
      <4>4. WillSchedule(u)'
        BY <2>6, <3>4, <4>1, <4>2
        DEF WillMark, WillSchedule, SchedulePCs, InShutdown
      <4> QED BY <3>4, <4>1, <4>2, <4>3, <4>4 DEF Covered
    <3> QED BY <3>2, <3>3, <3>4
  <2>9. Duty' BY <2>7, <2>8 DEF Duty
  <2>10. Removed' BY <2>2, <2>4, <2>6, RemovedOfOne DEF DutyInv, InDestroy, DestroyPCs
  <2> QED BY <2>9, <2>10 DEF DutyInv
<1> QED BY <1>1, <1>2

\* Every step keeps the duties.
LEMMA NextDuty ==
  ASSUME IInv, DutyInv, [Next]_vars
  PROVE  DutyInv'
<1>1. ASSUME NEW t \in Threads, Step(t) PROVE DutyInv'
  BY <1>1, PacketDuty, RescheduleDuty, ShutdownDuty, TimerDuty DEF Step
<1>2. CASE UNCHANGED vars
  BY <1>2 DEF vars, DutyInv, Duty, Removed, Registered, Covered, InDestroy, DestroyPCs,
              WillMark, WillSchedule, InShutdown
<1> QED BY <1>1, <1>2, ArrivalDuty, OtherDuty DEF Next

\* No allocation is forgotten: one that is on the table and that no thread
\* works on has its timer in the heap, with an id, and if that is "destroy",
\* its relay is closed -- although resched_timeout, alloc_shutdown and the
\* callback take the timer away and give it back without a common lock.  The
\* argument is the duty: whoever clears the id or takes the timer from the
\* heap is on the way to give it back.
THEOREM NoneForgotten == Spec => []NeverForgotten
<1>1. Init => DutyInv
  BY DEF Init, DutyInv, Duty, Removed, Registered, InDestroy, DestroyPCs,
         Idle
<1>2. IInv /\ DutyInv /\ [Next]_vars => DutyInv' BY NextDuty
<1>3. IInv /\ DutyInv => NeverForgotten
  <2> SUFFICES ASSUME IInv, DutyInv, status = "running",
                      NEW a \in Registered, ~Working(a)
               PROVE  /\ a \in heap
                      /\ timerId[a] # "none"
                      /\ timerId[a] = "destroy" => ~sock[a]
    BY DEF NeverForgotten
  <2>1. Covered(a) BY DEF DutyInv, Duty
  <2>2. \A t \in Threads : thr[t].on # a BY DEF Working
  <2>3. a \in Allocs BY DEF Registered, IInv, TypeOK
  <2> QED BY <2>1, <2>2, <2>3 DEF Covered, IInv, AllocInv
<1> QED BY <1>1, <1>2, <1>3, Invariant, PTL DEF Spec
-----------------------------------------------------------------------------
(* What a look-up finds.                                                   *)

\* A step that frees nothing, registers nothing and opens nothing.
LEMMA FreesNothing ==
  ASSUME LookUpsFindLive, freed' = freed, Registered' \subseteq Registered,
         \A a \in freed : sock'[a] => sock[a]
  PROVE  LookUpsFindLive'
BY DEF LookUpsFindLive

\* The steps of a thread: destroy_allocation frees what is off the table and
\* has its relay closed.
LEMMA StepLookUps ==
  ASSUME IInv, DutyInv, LookUpsFindLive, NEW t \in Threads, Step(t)
  PROVE  LookUpsFindLive'
<1>1. CASE DestroyFree(t)
  <2>1. /\ thr[t].pc = "destroy.free"
        /\ freed' = freed \cup {thr[t].on}
        /\ UNCHANGED <<table, sock>>
    BY <1>1 DEF DestroyFree, At, On
  <2>2. thr[t].on \notin Registered
    BY <2>1 DEF DutyInv, Removed, InDestroy, DestroyPCs
  <2>3. ~sock[thr[t].on] BY <2>1 DEF IInv, ThreadInv, ClosedPCs
  <2>4. Registered' = Registered BY <2>1 DEF Registered
  <2> QED BY <2>1, <2>2, <2>3, <2>4 DEF LookUpsFindLive
<1>2. CASE Unregister(t)
  <2>1. /\ table' = [c \in Clients |-> IF table[c] = thr[t].on THEN NoAlloc
                                                               ELSE table[c]]
        /\ UNCHANGED <<freed, sock>>
    BY <1>2 DEF Unregister, On
  <2>2. Registered' \subseteq Registered BY <2>1 DEF Registered
  <2> QED BY <2>1, <2>2, FreesNothing
<1>3. CASE RelayClose(t)
  <2>1. thr[t].on \in Allocs BY <1>3 DEF RelayClose, At, IInv, ThreadInv, TypeOK
  <2>2. sock' = [sock EXCEPT ![thr[t].on] = FALSE] /\ UNCHANGED <<table, freed>>
    BY <1>3 DEF RelayClose, On
  <2>3. \A a \in freed : sock'[a] => sock[a] BY <2>1, <2>2 DEF IInv, TypeOK
  <2>4. Registered' = Registered BY <2>2 DEF Registered
  <2> QED BY <2>2, <2>3, <2>4, FreesNothing
<1>4. CASE ~DestroyFree(t) /\ ~Unregister(t) /\ ~RelayClose(t)
  <2>1. UNCHANGED <<table, freed, sock>>
    <3>1. CASE \/ Lock(t) \/ Dispatch(t) \/ NoSession(t) \/ Deallocate(t)
               \/ Extend(t) \/ Handle(t) \/ Unlock(t)
      BY <3>1 DEF Lock, Dispatch, NoSession, Deallocate, Extend, Handle, Unlock,
                  Abort
    <3>2. CASE \/ RescheduleTest(t) \/ RescheduleCancel(t) \/ RescheduleClear(t)
               \/ RescheduleMark(t) \/ RescheduleSchedule(t) \/ ScheduleTwice(t)
      BY <3>2
      DEF RescheduleTest, RescheduleCancel, RescheduleClear, RescheduleMark,
          RescheduleSchedule, ScheduleTwice, Cancel, Mark, Schedule, Abort
    <3>3. CASE \/ ShutdownTest(t) \/ ShutdownCancel(t) \/ ShutdownClear(t)
               \/ ShutdownAssert(t) \/ ShutdownMark(t) \/ ShutdownSchedule(t)
      BY <3>3
      DEF ShutdownTest, ShutdownCancel, ShutdownClear, ShutdownAssert,
          ShutdownMark, ShutdownSchedule, Cancel, Mark, Schedule, Abort
    <3>4. CASE \/ RelayTest(t) \/ RelayCancel(t) \/ RelayClear(t)
               \/ Callback(t) \/ CallbackTimeout(t) \/ CallbackDestroy(t)
      BY <3>4
      DEF RelayTest, RelayCancel, RelayClear, Callback, CallbackTimeout,
          CallbackDestroy, Cancel, Mark
    <3>5. CASE \/ DestroyLock(t) \/ DestroyUnlock(t) \/ DestroyNothing(t)
               \/ UseFreed(t)
      BY <3>5 DEF DestroyLock, DestroyUnlock, DestroyNothing, UseFreed
    <3> QED BY <1>4, <3>1, <3>2, <3>3, <3>4, <3>5 DEF Step
  <2>2. Registered' = Registered BY <2>1 DEF Registered
  <2> QED BY <2>1, <2>2, FreesNothing
<1> QED BY <1>1, <1>2, <1>3, <1>4

\* ALLOCATE: a new object is not yet freed, and one that is abandoned was
\* never registered and has no socket.
LEMMA CreateLookUps ==
  ASSUME IInv, LookUpsFindLive, NEW w \in Workers, NEW c \in Clients,
         NEW a \in Allocs, Allocate(w, c, a) \/ AllocateFails(w, c, a)
  PROVE  LookUpsFindLive'
<1>1. a \notin made BY DEF Allocate, AllocateFails
<1>2. a \notin Registered /\ a \notin freed /\ ~sock[a]
  BY <1>1 DEF Registered, IInv, TypeOK, AllocInv
<1>3. CASE Allocate(w, c, a)
  <2>1. /\ table' = [table EXCEPT ![c] = a]
        /\ sock' = [sock EXCEPT ![a] = TRUE]
        /\ freed' = freed
    BY <1>3 DEF Allocate
  <2>2. Registered' \subseteq Registered \cup {a}
    BY <2>1 DEF Registered, IInv, TypeOK
  <2>3. \A b \in freed : sock'[b] = sock[b] BY <1>2, <2>1 DEF IInv, TypeOK
  <2> QED BY <1>2, <2>1, <2>2, <2>3 DEF LookUpsFindLive
<1>4. CASE AllocateFails(w, c, a)
  <2>1. UNCHANGED <<table, sock>> /\ freed' = freed \cup {a}
    BY <1>4 DEF AllocateFails
  <2>2. Registered' = Registered BY <2>1 DEF Registered
  <2> QED BY <1>2, <2>1, <2>2 DEF LookUpsFindLive
<1> QED BY <1>3, <1>4

\* Nobody who looks an allocation up, in the table or by the key of its relay
\* socket, finds a freed one, although destroy_allocation gives the lock back
\* before it frees: it has closed the relay and taken the allocation from the
\* table before that, and no thread opens or registers it again.
THEOREM LookUpsAreSafe == Spec => []LookUpsFindLive
<1>1. Init => DutyInv /\ LookUpsFindLive
  BY DEF Init, DutyInv, Duty, Removed, Registered, InDestroy, DestroyPCs, Idle,
         LookUpsFindLive
<1>2. IInv /\ DutyInv /\ LookUpsFindLive /\ [Next]_vars
        => DutyInv' /\ LookUpsFindLive'
  <2> SUFFICES ASSUME IInv, DutyInv, LookUpsFindLive, [Next]_vars
               PROVE  LookUpsFindLive'
    BY NextDuty
  <2>1. CASE \/ UNCHANGED vars \/ LogoutUser \/ \E a \in Allocs : Fire(a)
             \/ \E w \in Workers, c \in Clients, p \in ClientPackets :
                  ReceiveFromClient(w, c, p)
             \/ \E w \in Workers, a \in Allocs : ReceiveFromPeer(w, a)
    <3>1. UNCHANGED <<table, freed, sock>>
      BY <2>1 DEF vars, LogoutUser, Fire, ReceiveFromClient, ReceiveFromPeer
    <3>2. Registered' = Registered BY <3>1 DEF Registered
    <3> QED BY <3>1, <3>2, FreesNothing
  <2> QED BY <2>1, StepLookUps, CreateLookUps DEF Next, Arrival
<1> QED BY <1>1, <1>2, Invariant, PTL DEF Spec
=============================================================================
