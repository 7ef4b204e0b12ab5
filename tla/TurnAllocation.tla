-------------------------- MODULE TurnAllocation --------------------------
(***************************************************************************)
(* The life of the TURN allocations of the P2P server, pj/allocation.c:    *)
(* the timer of an allocation, its lifetime and its relay socket, and the  *)
(* threads that work on them at the same time.                             *)
(*                                                                         *)
(* Two worker threads (server.c) alternate between the timer heap and the  *)
(* ioqueue.  Packets of clients are read one at a time, since the UDP      *)
(* listener has one read operation; packets of peers are read one at a     *)
(* time per relay socket.  The logout thread of tsp_hander.c shuts the     *)
(* allocations of a user down.  Packets take alloc->lock, and              *)
(* destroy_allocation does for a moment; everything else that a timer      *)
(* callback or the logout thread does runs without it.                     *)
(*                                                                         *)
(* A step of a thread is the code between two accesses to what the threads *)
(* share: timer.id, lifetime, the timer heap, the table, alloc->lock.      *)
(* Permissions, channels and the contents of packets are not in this       *)
(* module, nor is time: a scheduled timer may be due at any moment.        *)
(***************************************************************************)
EXTENDS Naturals

CONSTANTS
  Clients,       \* transport addresses of clients, the keys of tables.alloc
  Allocs,        \* bound: pj_turn_allocation objects, in all
  MaxPackets,    \* bound: packets of clients to allocations, in all
  Workers,       \* MAX_THREADS worker threads
  LogoutThread,  \* the thread of logoutUserProc
  NoAlloc        \* NULL

ASSUME ThreadsAssumption ==
  /\ LogoutThread \notin Workers
  /\ NoAlloc \notin Allocs
  /\ MaxPackets \in Nat

Threads == Workers \cup {LogoutThread}

\* "refresh" and "dealloc" are REFRESH requests with a lifetime and with
\* lifetime 0, "command" is a REFRESH with a DATA attribute for the registry,
\* "answer" a REFRESH response and "result" one with DATA; "peer" is a packet
\* on the relay socket.
ClientPackets == {"refresh", "command", "dealloc", "answer", "result"}
Packets == ClientPackets \cup {"peer"}

VARIABLES
  table,     \* srv->tables.alloc: the registered allocation of an address
  made,      \* objects that were created
  freed,     \* objects whose pool was released
  timerId,   \* relay.timer.id: "none", "timeout", "destroy"
  heap,      \* allocations whose entry is in the timer heap
  lifetime,  \* relay.lifetime: 0, or 1 for any positive value
  sock,      \* the relay socket is open and registered
  announced, \* addresses in the SDP slots of logged-in users (registry)
  packets,   \* packets that clients sent to allocations
  thr,       \* where each thread stands
  status     \* "running", or why the process stopped

vars == <<table, made, freed, timerId, heap, lifetime, sock, announced,
          packets, thr, status>>

\* Positions of a thread; the part before the dot is the function.
PCs == {"idle", "rx.lock", "rx.dispatch", "rx.dealloc", "rx.extend",
        "rx.handler", "rx.unlock",
        "resched.test", "resched.cancel", "resched.clear", "resched.mark",
        "resched.schedule",
        "shutdown.test", "shutdown.cancel", "shutdown.clear",
        "shutdown.assert", "shutdown.mark", "shutdown.schedule",
        "relay.test", "relay.cancel", "relay.clear", "relay.close",
        "timer.cb", "timer.timeout", "timer.destroy",
        "destroy.unregister", "destroy.lock", "destroy.unlock", "destroy.free"}

ThreadStates ==
  [pc : PCs,
   on : Allocs \cup {NoAlloc},       \* the allocation it works on
   locked : Allocs \cup {NoAlloc},   \* whose lock it holds
   packet : Packets \cup {"none"},
   ret : {"shutdown.mark", "destroy.lock", "none"}]  \* after destroy_relay

Statuses == {"running", "undefined", "rescheduled while shutting down",
             "shut down twice", "scheduled twice", "no session"}

TypeOK ==
  /\ table \in [Clients -> Allocs \cup {NoAlloc}]
  /\ made \subseteq Allocs
  /\ freed \subseteq made
  /\ timerId \in [Allocs -> {"none", "timeout", "destroy"}]
  /\ heap \subseteq made
  /\ lifetime \in [Allocs -> {0, 1}]
  /\ sock \in [Allocs -> BOOLEAN]
  /\ announced \subseteq Clients
  /\ packets \in 0 .. MaxPackets
  /\ thr \in [Threads -> ThreadStates]
  /\ status \in Statuses

Idle == [pc |-> "idle", on |-> NoAlloc, locked |-> NoAlloc,
         packet |-> "none", ret |-> "none"]

Init ==
  /\ table = [c \in Clients |-> NoAlloc]
  /\ made = {}
  /\ freed = {}
  /\ timerId = [a \in Allocs |-> "none"]
  /\ heap = {}
  /\ lifetime = [a \in Allocs |-> 0]
  /\ sock = [a \in Allocs |-> FALSE]
  /\ announced = {}
  /\ packets = 0
  /\ thr = [t \in Threads |-> Idle]
  /\ status = "running"

Registered == {table[c] : c \in Clients} \ {NoAlloc}

AddressOf(a) == {c \in Clients : table[c] = a}

Locked(a) == \E t \in Threads : thr[t].locked = a

\* destroy_allocation has dropped the STUN session and the transport; from then
\* until the pool is released, the thread that did so is still in it.
SessionGone(a) ==
  \E t \in Threads : thr[t].on = a /\ thr[t].pc \in {"destroy.unlock", "destroy.free"}

\* The object that thread t is about to touch has been freed.
Dangling(t) == thr[t].on \in freed

\* Thread t is about to execute the step pc; "on" is the allocation.
At(t, pc) ==
  /\ status = "running"
  /\ thr[t].pc = pc
  /\ ~Dangling(t)

On(t) == thr[t].on

Goto(t, pc) == thr' = [thr EXCEPT ![t].pc = pc]

\* Control flow returns to the packet whose lock is held, or to the loop of
\* the thread.
Return(t) ==
  thr' = [thr EXCEPT ![t] = IF thr[t].locked = NoAlloc
                            THEN Idle
                            ELSE [thr[t] EXCEPT !.pc = "rx.unlock",
                                                !.on = thr[t].locked]]

Start(t, pc, a, packet) ==
  thr' = [thr EXCEPT ![t] = [Idle EXCEPT !.pc = pc, !.on = a,
                                         !.packet = packet]]

\* A failed pj_assert.
Abort(why) ==
  /\ status' = why
  /\ UNCHANGED <<table, made, freed, timerId, heap, lifetime, sock, announced,
                 packets, thr>>

SetId(a, id) == timerId' = [timerId EXCEPT ![a] = id]
-----------------------------------------------------------------------------
(* Packets.                                                                *)

\* A worker between two polls that reads the packet of a client.
ReadsPacket(w) ==
  /\ status = "running"
  /\ thr[w].pc = "idle"
  /\ \A t \in Threads : thr[t].packet \notin ClientPackets

\* pj_turn_allocation_create: nobody else knows the object before it is
\* registered, and its timer is at least MIN_LIFETIME away.
Allocate(w, c, a) ==
  /\ ReadsPacket(w)
  /\ table[c] = NoAlloc
  /\ a \notin made
  /\ made' = made \cup {a}
  /\ timerId' = [timerId EXCEPT ![a] = "timeout"]
  /\ heap' = heap \cup {a}
  /\ lifetime' = [lifetime EXCEPT ![a] = 1]
  /\ sock' = [sock EXCEPT ![a] = TRUE]
  /\ table' = [table EXCEPT ![c] = a]
  /\ UNCHANGED <<freed, announced, packets, thr, status>>

\* create_relay fails, and on_error destroys the object.  Without a socket it
\* has cleared the structure that holds the scheduled timer, so destroy_relay
\* finds nothing to cancel; after the other errors the timer is cancelled.
AllocateFails(w, c, a) ==
  /\ ReadsPacket(w)
  /\ table[c] = NoAlloc
  /\ a \notin made
  /\ made' = made \cup {a}
  /\ freed' = freed \cup {a}
  /\ \/ heap' = heap \cup {a}
     \/ UNCHANGED heap
  /\ UNCHANGED <<table, timerId, lifetime, sock, announced, packets, thr,
                 status>>

\* pj_turn_srv_on_rx_pkt: the allocation is looked up under the server's lock
\* and used after it.
ReceiveFromClient(w, c, packet) ==
  /\ ReadsPacket(w)
  /\ table[c] # NoAlloc
  /\ packets < MaxPackets
  /\ packets' = packets + 1
  /\ Start(w, "rx.lock", table[c], packet)
  /\ UNCHANGED <<table, made, freed, timerId, heap, lifetime, sock, announced,
                 status>>

\* on_rx_from_peer, called by the ioqueue without the lock of the key.
ReceiveFromPeer(w, a) ==
  /\ status = "running"
  /\ thr[w].pc = "idle"
  /\ sock[a]
  /\ \A t \in Threads : ~(thr[t].packet = "peer" /\ On(t) = a)
  /\ Start(w, "rx.lock", a, "peer")
  /\ UNCHANGED <<table, made, freed, timerId, heap, lifetime, sock, announced,
                 packets, status>>

Lock(t) ==
  /\ At(t, "rx.lock")
  /\ ~Locked(On(t))
  /\ thr' = [thr EXCEPT
               ![t].pc = IF thr[t].packet = "peer" THEN "rx.unlock"
                                                   ELSE "rx.dispatch",
               ![t].locked = On(t)]
  /\ UNCHANGED <<table, made, freed, timerId, heap, lifetime, sock, announced,
                 packets, status>>

\* stun_on_rx_request and stun_on_rx_response: "Refuse to serve any request
\* if we've been shutdown".
Dispatch(t) ==
  /\ At(t, "rx.dispatch")
  /\ ~SessionGone(On(t))
  /\ Goto(t, IF lifetime[On(t)] = 0 THEN "rx.unlock"
             ELSE IF thr[t].packet = "dealloc" THEN "rx.dealloc"
             ELSE "rx.extend")
  /\ UNCHANGED <<table, made, freed, timerId, heap, lifetime, sock, announced,
                 packets, status>>

\* A thread that waited for the lock while destroy_allocation had it finds the
\* session gone: pj_stun_session_on_rx_pkt asserts that there is one.  Data of
\* a peer needs it, or the transport, only if there is a permission.
NoSession(t) ==
  /\ \/ At(t, "rx.dispatch")
     \/ At(t, "rx.lock") /\ thr[t].packet = "peer" /\ ~Locked(On(t))
  /\ SessionGone(On(t))
  /\ Abort("no session")

\* Defect: the lifetime is counted down instead of cleared.
DeallocateCountsDown(t) ==
  /\ At(t, "rx.dealloc")
  /\ lifetime' = [lifetime EXCEPT ![On(t)] = @ - 1]
  /\ Goto(t, "shutdown.test")
  /\ UNCHANGED <<table, made, freed, timerId, heap, sock, announced, packets,
                 status>>

\* handle_destroy and the reply follow before alloc_shutdown.
Deallocate(t) ==
  /\ At(t, "rx.dealloc")
  /\ lifetime' = [lifetime EXCEPT ![On(t)] = 0]
  /\ Goto(t, "shutdown.test")
  /\ UNCHANGED <<table, made, freed, timerId, heap, sock, announced, packets,
                 status>>

\* A request has a LIFETIME other than 0, or none; a response may have any,
\* and only the one with DATA reschedules.
Extend(t) ==
  LET response == thr[t].packet \in {"answer", "result"} IN
  /\ At(t, "rx.extend")
  /\ \E life \in {1, lifetime[On(t)]} \cup (IF response THEN {0} ELSE {}) :
       lifetime' = [lifetime EXCEPT ![On(t)] = life]
  /\ Goto(t, IF thr[t].packet = "answer" THEN "rx.unlock" ELSE "resched.test")
  /\ UNCHANGED <<table, made, freed, timerId, heap, sock, announced, packets,
                 status>>

\* handle_request: an announcement (SDPH, SDPL) enters this address into a
\* slot, and shuts the allocation of the address that was there down: without
\* its lock, and it may be this one.
Handle(t) ==
  /\ At(t, "rx.handler")
  /\ \/ Goto(t, "rx.unlock") /\ UNCHANGED announced
     \/ /\ Goto(t, "rx.unlock")
        /\ announced' = announced \cup AddressOf(On(t))
     \/ \E c \in announced :
          /\ table[c] # NoAlloc
          /\ thr' = [thr EXCEPT ![t].pc = "shutdown.test", ![t].on = table[c]]
          /\ announced' = (announced \ {c}) \cup AddressOf(On(t))
  /\ UNCHANGED <<table, made, freed, timerId, heap, lifetime, sock, packets,
                 status>>

Unlock(t) ==
  /\ At(t, "rx.unlock")
  /\ thr' = [thr EXCEPT ![t] = Idle]
  /\ UNCHANGED <<table, made, freed, timerId, heap, lifetime, sock, announced,
                 packets, status>>
-----------------------------------------------------------------------------
(* resched_timeout.                                                        *)

RescheduleTest(t) ==
  /\ At(t, "resched.test")
  /\ \/ /\ timerId[On(t)] = "destroy"
        /\ Abort("rescheduled while shutting down")
     \/ /\ timerId[On(t)] # "destroy"
        /\ Goto(t, IF timerId[On(t)] = "timeout" THEN "resched.cancel"
                   ELSE "resched.mark")
        /\ UNCHANGED <<table, made, freed, timerId, heap, lifetime, sock,
                       announced, packets, status>>

\* pj_timer_heap_cancel: nothing happens to an entry that is not in the heap.
Cancel(t, pc, next) ==
  /\ At(t, pc)
  /\ heap' = heap \ {On(t)}
  /\ Goto(t, next)
  /\ UNCHANGED <<table, made, freed, timerId, lifetime, sock, announced,
                 packets, status>>

\* timer.id = id
Mark(t, pc, id, next) ==
  /\ At(t, pc)
  /\ SetId(On(t), id)
  /\ Goto(t, next)
  /\ UNCHANGED <<table, made, freed, heap, lifetime, sock, announced, packets,
                 status>>

\* pj_timer_heap_schedule asserts that the entry is not in the heap.
Schedule(t, pc) ==
  /\ At(t, pc)
  /\ On(t) \notin heap
  /\ heap' = heap \cup {On(t)}
  /\ UNCHANGED <<table, made, freed, timerId, lifetime, sock, announced,
                 packets, status>>

ScheduleTwice(t) ==
  /\ At(t, "resched.schedule") \/ At(t, "shutdown.schedule")
  /\ On(t) \in heap
  /\ Abort("scheduled twice")

RescheduleCancel(t) == Cancel(t, "resched.cancel", "resched.clear")
RescheduleClear(t) == Mark(t, "resched.clear", "none", "resched.mark")
RescheduleMark(t) == Mark(t, "resched.mark", "timeout", "resched.schedule")

RescheduleSchedule(t) ==
  /\ Schedule(t, "resched.schedule")
  /\ Goto(t, IF thr[t].packet = "command" THEN "rx.handler" ELSE "rx.unlock")
-----------------------------------------------------------------------------
(* alloc_shutdown, and the destroy_relay that it shares with               *)
(* destroy_allocation.                                                     *)

\* Defect: nothing is scheduled, so there seems to be nothing to shut down.
ShutdownTestReturnsOnNone(t) ==
  /\ At(t, "shutdown.test")
  /\ IF timerId[On(t)] = "timeout" THEN Goto(t, "shutdown.cancel") ELSE Return(t)
  /\ UNCHANGED <<table, made, freed, timerId, heap, lifetime, sock, announced,
                 packets, status>>

ShutdownTest(t) ==
  /\ At(t, "shutdown.test")
  /\ CASE timerId[On(t)] = "timeout" -> Goto(t, "shutdown.cancel")
       [] timerId[On(t)] = "destroy" -> Return(t)
       [] timerId[On(t)] = "none" -> Goto(t, "shutdown.assert")
  /\ UNCHANGED <<table, made, freed, timerId, heap, lifetime, sock, announced,
                 packets, status>>

ShutdownCancel(t) == Cancel(t, "shutdown.cancel", "shutdown.clear")
ShutdownClear(t) == Mark(t, "shutdown.clear", "none", "shutdown.assert")

ShutdownAssert(t) ==
  /\ At(t, "shutdown.assert")
  /\ \/ /\ timerId[On(t)] # "none"
        /\ Abort("shut down twice")
     \/ /\ timerId[On(t)] = "none"
        /\ thr' = [thr EXCEPT ![t].pc = "relay.test",
                              ![t].ret = "shutdown.mark"]
        /\ UNCHANGED <<table, made, freed, timerId, heap, lifetime, sock,
                       announced, packets, status>>

RelayTest(t) ==
  /\ At(t, "relay.test")
  /\ Goto(t, IF timerId[On(t)] # "none" THEN "relay.cancel"
             ELSE "relay.close")
  /\ UNCHANGED <<table, made, freed, timerId, heap, lifetime, sock, announced,
                 packets, status>>

RelayCancel(t) == Cancel(t, "relay.cancel", "relay.clear")
RelayClear(t) == Mark(t, "relay.clear", "none", "relay.close")

RelayClose(t) ==
  /\ At(t, "relay.close")
  /\ sock' = [sock EXCEPT ![On(t)] = FALSE]
  /\ lifetime' = [lifetime EXCEPT ![On(t)] = 0]
  /\ thr' = [thr EXCEPT ![t].pc = thr[t].ret, ![t].ret = "none"]
  /\ UNCHANGED <<table, made, freed, timerId, heap, announced, packets, status>>

ShutdownMark(t) == Mark(t, "shutdown.mark", "destroy", "shutdown.schedule")

\* Defect: the destroy timer is not started.
ShutdownWithoutSchedule(t) ==
  /\ At(t, "shutdown.schedule")
  /\ Return(t)
  /\ UNCHANGED <<table, made, freed, timerId, heap, lifetime, sock, announced,
                 packets, status>>

ShutdownSchedule(t) == Schedule(t, "shutdown.schedule") /\ Return(t)

\* do_when_logout takes the user and its slots off the tables;
\* pj_turn_allocation_destroy_by_user, for one of the addresses, finds the
\* allocation without the lock of the table.
LogoutUser ==
  /\ status = "running"
  /\ thr[LogoutThread].pc = "idle"
  /\ \E c \in announced :
       /\ table[c] # NoAlloc
       /\ Start(LogoutThread, "shutdown.test", table[c], "none")
       /\ announced' = announced \ {c}
  /\ UNCHANGED <<table, made, freed, timerId, heap, lifetime, sock, packets,
                 status>>
-----------------------------------------------------------------------------
(* The timer heap: pj_timer_heap_poll takes the entry out and calls        *)
(* relay_timeout_cb without the heap's lock.                               *)

Fire(a) ==
  /\ status = "running"
  /\ a \in heap
  /\ \E w \in Workers :
       /\ thr[w].pc = "idle"
       /\ Start(w, "timer.cb", a, "none")
  /\ heap' = heap \ {a}
  /\ UNCHANGED <<table, made, freed, timerId, lifetime, sock, announced,
                 packets, status>>

Callback(t) ==
  /\ At(t, "timer.cb")
  /\ CASE timerId[On(t)] = "timeout" -> Goto(t, "timer.timeout")
       [] timerId[On(t)] = "destroy" -> Goto(t, "timer.destroy")
       [] timerId[On(t)] = "none" -> Return(t)
  /\ UNCHANGED <<table, made, freed, timerId, heap, lifetime, sock, announced,
                 packets, status>>

\* Defect: an expired allocation is destroyed at once.
TimeoutDestroys(t) == Mark(t, "timer.timeout", "none", "destroy.unregister")

CallbackTimeout(t) == Mark(t, "timer.timeout", "none", "shutdown.test")
CallbackDestroy(t) == Mark(t, "timer.destroy", "none", "destroy.unregister")

\* Defect: the allocation stays in the table.
UnregisterNothing(t) ==
  /\ At(t, "destroy.unregister")
  /\ thr' = [thr EXCEPT ![t].pc = "relay.test", ![t].ret = "destroy.lock"]
  /\ UNCHANGED <<table, made, freed, timerId, heap, lifetime, sock, announced,
                 packets, status>>

\* destroy_allocation
Unregister(t) ==
  /\ At(t, "destroy.unregister")
  /\ table' = [c \in Clients |-> IF table[c] = On(t) THEN NoAlloc
                                                     ELSE table[c]]
  /\ thr' = [thr EXCEPT ![t].pc = "relay.test", ![t].ret = "destroy.lock"]
  /\ UNCHANGED <<made, freed, timerId, heap, lifetime, sock, announced, packets,
                 status>>

\* The lock is taken to drop the transport and the session, and given back:
\* whoever waits for it may get it now.
DestroyLock(t) ==
  /\ At(t, "destroy.lock")
  /\ ~Locked(On(t))
  /\ thr' = [thr EXCEPT ![t].pc = "destroy.unlock", ![t].locked = On(t)]
  /\ UNCHANGED <<table, made, freed, timerId, heap, lifetime, sock, announced,
                 packets, status>>

DestroyUnlock(t) ==
  /\ At(t, "destroy.unlock")
  /\ thr' = [thr EXCEPT ![t].pc = "destroy.free", ![t].locked = NoAlloc]
  /\ UNCHANGED <<table, made, freed, timerId, heap, lifetime, sock, announced,
                 packets, status>>

\* The lock and the pool are gone, whoever has the one or uses the other.
DestroyFree(t) ==
  /\ At(t, "destroy.free")
  /\ freed' = freed \cup {On(t)}
  /\ Return(t)
  /\ UNCHANGED <<table, made, timerId, heap, lifetime, sock, announced, packets,
                 status>>

\* A second thread in destroy_allocation that finds alloc->lock and alloc->pool
\* set to NULL by the first, which is about to release the pool.
DestroyNothing(t) ==
  /\ At(t, "destroy.lock") \/ At(t, "destroy.unlock")
  /\ \E u \in Threads \ {t} : thr[u].on = On(t) /\ thr[u].pc = "destroy.free"
  /\ thr' = [thr EXCEPT ![t] = Idle]
  /\ UNCHANGED <<table, made, freed, timerId, heap, lifetime, sock, announced,
                 packets, status>>

\* Whatever the thread does with a freed object is undefined.
UseFreed(t) ==
  /\ status = "running"
  /\ Dangling(t)
  /\ status' = "undefined"
  /\ UNCHANGED <<table, made, freed, timerId, heap, lifetime, sock, announced,
                 packets, thr>>
-----------------------------------------------------------------------------
\* The steps of a thread that is in the middle of something.
Step(t) ==
  \/ Lock(t) \/ Dispatch(t) \/ NoSession(t) \/ Deallocate(t) \/ Extend(t)
  \/ Handle(t) \/ Unlock(t)
  \/ RescheduleTest(t) \/ RescheduleCancel(t) \/ RescheduleClear(t)
  \/ RescheduleMark(t) \/ RescheduleSchedule(t) \/ ScheduleTwice(t)
  \/ ShutdownTest(t) \/ ShutdownCancel(t) \/ ShutdownClear(t)
  \/ ShutdownAssert(t) \/ ShutdownMark(t) \/ ShutdownSchedule(t)
  \/ RelayTest(t) \/ RelayCancel(t) \/ RelayClear(t) \/ RelayClose(t)
  \/ Callback(t) \/ CallbackTimeout(t) \/ CallbackDestroy(t)
  \/ Unregister(t) \/ DestroyLock(t) \/ DestroyUnlock(t) \/ DestroyFree(t)
  \/ DestroyNothing(t) \/ UseFreed(t)

Arrival(w) ==
  \/ \E c \in Clients, a \in Allocs : Allocate(w, c, a) \/ AllocateFails(w, c, a)
  \/ \E c \in Clients, p \in ClientPackets : ReceiveFromClient(w, c, p)
  \/ \E a \in Allocs : ReceiveFromPeer(w, a)

Next ==
  \/ \E t \in Threads : Step(t)
  \/ \E w \in Workers : Arrival(w)
  \/ \E a \in Allocs : Fire(a)
  \/ LogoutUser

Spec == Init /\ [][Next]_vars

\* Threads are scheduled, and a worker polls the timer heap between any two
\* polls of the ioqueue, so an entry that stays in the heap is fired even
\* when packets keep the workers busy.
Fairness ==
  /\ \A t \in Threads : WF_vars(Step(t))
  /\ \A a \in Allocs : SF_vars(Fire(a))

FairSpec == Spec /\ Fairness
-----------------------------------------------------------------------------
(* What makes the life of an allocation correct.                           *)

Working(a) == \E t \in Threads : thr[t].on = a \/ thr[t].locked = a

\* No allocation is forgotten: a registered allocation that no thread works
\* on has its timer in the heap, with an id, so that the callback will act on
\* it; and the id is "destroy" only if the relay socket is closed, so that the
\* callback never takes an open allocation from its client.  Timer callback,
\* REFRESH, shutdown by another client and logout all take the timer away and
\* give it back, in steps of their own.
NeverForgotten ==
  status = "running" =>
    \A a \in Registered : ~Working(a) =>
      /\ a \in heap
      /\ timerId[a] # "none"
      /\ timerId[a] = "destroy" => ~sock[a]

\* "Don't unregister from hash table because we still need to handle REFRESH
\* retransmission" (alloc_shutdown): the packet of a client finds its
\* allocation in memory, for as long as it takes to answer.
RetransmissionServed ==
  status = "running" =>
    \A t \in Threads : thr[t].packet \in ClientPackets => ~Dangling(t)

\* Nobody finds a freed allocation by looking it up: the table, read under the
\* lock of the server, never holds one, and the key of its relay socket, which
\* leads on_rx_from_peer to it, is unregistered before its pool is released.
\* Only a thread that found it earlier, or an entry that create_relay left in
\* the timer heap, can reach it then; the allocation's own lock is no help,
\* since destroy_allocation gives it back before it destroys it.
LookUpsFindLive ==
  /\ Registered \cap freed = {}
  /\ \A a \in freed : ~sock[a]

\* The abstract life of an allocation.
Phase(a) ==
  IF a \notin made THEN "new"
  ELSE IF a \notin Registered THEN "gone"
  ELSE IF sock[a] THEN "open"
  ELSE "closed"

Life == INSTANCE AllocationLife
          WITH phase <- [a \in Allocs |-> Phase(a)],
               running <- status = "running"

\* Every step of a thread is a step of the abstract life or leaves it alone:
\* an allocation is closed once, its relay is never opened again, and it
\* leaves the table only when it is closed, although the callback, the logout
\* thread and a packet may be in alloc_shutdown and destroy_allocation at once.
LifeSteps == Life!Init /\ [][UNCHANGED Life!vars \/ Life!Next]_vars

\* The threads together implement the abstract life: besides, a closed
\* allocation leaves the table, unless the process stops.
LifeSpec == Life!Spec
=============================================================================
