----------------------------- MODULE KnxTunnel -----------------------------
(***************************************************************************)
(* The tunnel of one CKNXKernel of the gateway host to a KNX/IP interface  *)
(* (dev_ctrl/GatewayManager/KNXKernel.cpp): the send list that every       *)
(* caller of WriteGrpVal and ReadGrpVal appends to, the send thread that   *)
(* takes requests from it, transmits each one at most twice and waits for  *)
(* a TUNNELLING_ACK, the receiving thread that handles the ack, and the    *)
(* two ways back after a failure: the send thread itself reconnects        *)
(* (ToDisconnect, Disconnection, UDPSocketInit), and KnxThread of the      *)
(* gateway manager retries while the tunnel is down.                       *)
(*                                                                         *)
(* The interface (Gw...) is what the KNXnet/IP protocol makes of it and is *)
(* external, as is the network, which loses and delays frames but does not *)
(* reorder them.  A connection has sockets on ports of its own, so nothing *)
(* of an earlier connection arrives in the next one.  Closing the sockets  *)
(* and taking m_bConnectLock is one step.  Not modelled: a close by the    *)
(* heartbeat or by the interface's own DISCONNECT_REQ, the mutexes that    *)
(* Reset unlocks although another thread may hold them, and the answer to  *)
(* the requester, which says E_NO_ERROR whatever became of its write.      *)
(***************************************************************************)
EXTENDS Naturals, Sequences

CONSTANTS Requests,    \* group reads and writes, each asked for once
          Writes,      \* the writes among them
          None,        \* no request
          MaxList,     \* more than so many queued requests make a caller wait
          ClearCount,  \* m_nKnxClearCount: failed reconnections that empty the list
          Width,       \* values of the counter octet of a frame
          MaxLosses,   \* frames lost, answers late, attempts that fail, at most
          Spurious     \* a wait on a condition may end without a signal

ASSUME KnxAssumption ==
  /\ None \notin Requests
  /\ MaxList \in Nat /\ ClearCount \in Nat \ {0} /\ MaxLosses \in Nat
  /\ Width \in Nat \ {0, 1}
  /\ Writes \subseteq Requests /\ Spurious \in BOOLEAN

VARIABLES
  sendList,    \* m_sendList
  wiped,       \* writes whose KNX_GroupData was zeroed before they came back
  sender,      \* where the send thread is, "none" when there is none
  hand,        \* the request that the send thread has taken
  head,        \* the connection header of the frame it has built for it
  tries,       \* nTimeoutCount of GroupValueRequest
  waiting,     \* m_bWaitObject[TIMER_TUNNEL]
  outCounter,  \* m_nOutCounter, the octet of it that a frame carries
  channel,     \* m_nChannelId is the one that the interface has assigned
  handle,      \* m_hSendThread is not 0
  connecting,  \* m_bConnectLock
  reconnCount, \* m_nReconnCount
  leaving,     \* the request of a send thread that is reconnecting
  failed,      \* requests of send threads that have failed to: Reset is next
  back,        \* requests of send threads about to put them back at the head
  running,     \* the process has not crashed
  frames,      \* TUNNELLING_REQUEST frames on their way to the interface
  acks,        \* counters of the TUNNELLING_ACK frames on their way back
  losses,      \* failures so far, up to MaxLosses
  expected,    \* the counter that the interface expects
  executed,    \* requests the interface has put on the bus, this connection
  everExecuted,\* ... in any connection
  done,        \* requests for which GroupValueRequest got its ack
  dropped,     \* requests given up: a failed send, or an emptied list
  clean        \* in this connection all answers came in time, every retry
               \* was sent, and no wait ended and no Reset came out of turn

list    == <<sendList, wiped>>
thread  == <<sender, hand, head, tries>>
link    == <<waiting, outCounter, channel, handle>>
reconn  == <<connecting, reconnCount, leaving, failed, back, running>>
network == <<frames, acks, losses>>
gateway == <<expected, executed, everExecuted>>
ghosts  == <<done, dropped, clean>>
vars == <<list, thread, link, reconn, network, gateway, ghosts>>

Header == [counter : 0..Width-1, channel : BOOLEAN]
Frame == [head : Header, request : Requests]
(* Defect: the counter is not kept to its octet. *)
Next1Unbounded(n) == n + 1

(* The octet counts modulo its width. *)
Next1(n) == (n + 1) % Width

Elems(s) == {s[i] : i \in 1..Len(s)}
Distinct(s) == \A i, j \in 1..Len(s) : s[i] = s[j] => i = j

(* The places a request can be in between WriteGrpVal and its end. *)
Queued == Elems(sendList)
Held == Queued \cup {hand, leaving} \cup failed \cup back
Known == Held \cup done \cup dropped

(* The tunnel is up: the data endpoint runs and there is a send thread. *)
Up == sender # "none"

(* After UDPSocketInit has succeeded for the first time. *)
Init ==
  /\ sendList = <<>> /\ wiped = {}
  /\ sender = "idle" /\ hand = None /\ tries = 0
  /\ head = [counter |-> 0, channel |-> TRUE]
  /\ waiting = FALSE /\ outCounter = 0 /\ channel = TRUE /\ handle = TRUE
  /\ connecting = FALSE /\ reconnCount = 0 /\ running = TRUE
  /\ leaving = None /\ failed = {} /\ back = {}
  /\ frames = <<>> /\ acks = <<>> /\ losses = 0
  /\ expected = 0 /\ executed = <<>> /\ everExecuted = {}
  /\ done = {} /\ dropped = {} /\ clean = TRUE

(* One of the failures that a behaviour has. *)
Failure == losses < MaxLosses /\ losses' = losses + 1

(***************************************************************************)
(* A caller of WriteGrpVal or ReadGrpVal.  It gets an exception when there *)
(* is no send thread that the kernel knows of, or the list stays too long; *)
(* that changes nothing.                                                   *)
(***************************************************************************)
Write(r) ==
  /\ running /\ r \notin Known
  /\ Up /\ handle /\ Len(sendList) <= MaxList
  /\ sendList' = Append(sendList, r)
  /\ UNCHANGED <<wiped, thread, link, reconn, network, gateway, ghosts>>

(***************************************************************************)
(* The send thread: KnxSendListProcess and GroupValueRequest.  The frame   *)
(* is built when the request is taken.                                     *)
(***************************************************************************)
(* Defect: the thread looks at the head and leaves it in the list. *)
TakeKept ==
  /\ running /\ sender = "idle" /\ sendList # <<>> /\ Head(sendList) \notin wiped
  /\ hand' = Head(sendList)
  /\ head' = [counter |-> outCounter, channel |-> channel]
  /\ sender' = "send" /\ tries' = 0
  /\ UNCHANGED <<list, link, reconn, network, gateway, ghosts>>

Take ==
  /\ running /\ sender = "idle" /\ sendList # <<>> /\ Head(sendList) \notin wiped
  /\ hand' = Head(sendList)
  /\ sendList' = Tail(sendList)
  /\ head' = [counter |-> outCounter, channel |-> channel]
  /\ sender' = "send" /\ tries' = 0
  /\ UNCHANGED <<wiped, link, reconn, network, gateway, ghosts>>

(* A zeroed write has no data type: GenerateWriteValueMsg throws, and the  *)
(* handler of the exception reads the node that it has just deleted,       *)
(* through a pointer it has set to 0.  The process crashes.                *)
TakeWiped ==
  /\ running /\ sender = "idle" /\ sendList # <<>> /\ Head(sendList) \in wiped
  /\ running' = FALSE
  /\ UNCHANGED <<list, thread, link, connecting, reconnCount, leaving,
                 failed, back, network, gateway, ghosts>>

(* The frame of a retry is the one that was sent first. *)
Transmit ==
  /\ running /\ sender = "send"
  /\ frames' = Append(frames, [head |-> head, request |-> hand])
  /\ waiting' = TRUE
  /\ sender' = "wait"
  /\ UNCHANGED <<list, hand, head, tries, outCounter, channel, handle,
                 reconn, acks, losses, gateway, ghosts>>

(* sendto fails three times: GroupValueRequest returns -1 and the thread   *)
(* deletes the request, whose first frame may have arrived.                *)
SendFails ==
  /\ running /\ sender = "send"
  /\ Failure
  /\ dropped' = dropped \cup {hand}
  /\ clean' = (clean /\ tries = 0)
  /\ hand' = None
  /\ sender' = "idle"
  /\ UNCHANGED <<list, head, tries, link, reconn, frames, acks, gateway, done>>

(* pthread_cond_timedwait returns 0. *)
Woken ==
  /\ running /\ sender = "woken"
  /\ waiting' = FALSE
  /\ outCounter' = Next1(outCounter)
  /\ done' = done \cup {hand}
  /\ hand' = None
  /\ sender' = "idle"
  /\ UNCHANGED <<list, head, tries, channel, handle, reconn, network,
                 gateway, dropped, clean>>

(* ... and POSIX allows that without a signal. *)
Stray ==
  /\ running /\ Spurious /\ sender = "wait"
  /\ Failure
  /\ sender' = "woken"
  /\ clean' = FALSE
  /\ UNCHANGED <<list, hand, head, tries, link, reconn, frames, acks, gateway,
                 done, dropped>>

(* The second is over; the thread still has to get the mutex back, and an  *)
(* ack handled before that signals nobody.                                 *)
Expire ==
  /\ running /\ sender = "wait"
  /\ IF frames = <<>> /\ acks = <<>> THEN UNCHANGED <<losses, clean>>
                                     ELSE Failure /\ clean' = FALSE
  /\ sender' = "expired"
  /\ UNCHANGED <<list, hand, head, tries, link, reconn, frames, acks, gateway,
                 done, dropped>>

(* Defect: every transmission has a counter of its own. *)
TimedOutCounting ==
  /\ running /\ sender = "expired"
  /\ waiting' = FALSE
  /\ tries' = tries + 1
  /\ sender' = IF tries' < 2 THEN "send" ELSE "leave"
  /\ outCounter' = Next1(outCounter)
  /\ head' = [head EXCEPT !.counter = outCounter']
  /\ UNCHANGED <<list, hand, channel, handle, reconn, network, gateway, ghosts>>

TimedOut ==
  /\ running /\ sender = "expired"
  /\ waiting' = FALSE
  /\ tries' = tries + 1
  /\ sender' = IF tries' < 2 THEN "send" ELSE "leave"
  /\ UNCHANGED <<list, hand, head, outCounter, channel, handle, reconn,
                 network, gateway, ghosts>>

(***************************************************************************)
(* Reconnection.  IncrementReconnCount empties the list at the ClearCount- *)
(* th attempt (and only at that one); success starts a new send thread and *)
(* sets the count back.                                                    *)
(***************************************************************************)
Attempt ==
  /\ connecting' = TRUE
  /\ reconnCount' = IF reconnCount > ClearCount THEN reconnCount
                                                ELSE reconnCount + 1
  /\ IF reconnCount' = ClearCount
       THEN dropped' = dropped \cup Queued /\ sendList' = <<>>
       ELSE UNCHANGED <<dropped, sendList>>

(* Defect: Reset does not start the counter again. *)
LeaveCounterKept ==
  /\ running /\ sender = "leave"
  /\ Attempt
  /\ leaving' = hand
  /\ sender' = "none" /\ hand' = None /\ tries' = 0
  /\ waiting' = FALSE /\ channel' = FALSE /\ handle' = FALSE
  /\ frames' = <<>> /\ acks' = <<>> /\ clean' = TRUE
  /\ UNCHANGED <<wiped, head, outCounter, failed, back, running, losses,
                 gateway, done>>

(* The send thread after two timeouts: ToDisconnect, Disconnection and the *)
(* first half of UDPSocketInit, whose Reset clears the kernel.             *)
Leave ==
  /\ running /\ sender = "leave"
  /\ Attempt
  /\ leaving' = hand
  /\ sender' = "none" /\ hand' = None /\ tries' = 0
  /\ waiting' = FALSE /\ outCounter' = 0 /\ channel' = FALSE /\ handle' = FALSE
  /\ frames' = <<>> /\ acks' = <<>> /\ clean' = TRUE
  /\ UNCHANGED <<wiped, head, failed, back, running, losses, gateway, done>>

(* KnxThread finds the tunnel down; m_bConnectLock turns it away while the *)
(* send thread is connecting.                                              *)
Retry ==
  /\ running /\ ~Up /\ ~connecting
  /\ Attempt
  /\ UNCHANGED <<wiped, thread, link, leaving, failed, back, running,
                 network, gateway, done, clean>>

(* UDPSocketInit succeeds, which is the end of Disconnection for a send    *)
(* thread that was reconnecting.                                           *)
Connected ==
  /\ running /\ connecting
  /\ connecting' = FALSE /\ reconnCount' = 0
  /\ leaving' = None
  /\ back' = back \cup ({leaving} \ {None})
  /\ sender' = "idle" /\ handle' = TRUE /\ channel' = TRUE
  /\ expected' = 0 /\ executed' = <<>>
  /\ UNCHANGED <<list, hand, head, tries, waiting, outCounter, failed, running,
                 network, everExecuted, ghosts>>

(* UDPSocketInit gives m_bConnectLock back and throws. *)
ConnectFails ==
  /\ running /\ connecting
  /\ Failure
  /\ connecting' = FALSE
  /\ leaving' = None
  /\ failed' = failed \cup ({leaving} \ {None})
  /\ UNCHANGED <<list, thread, link, reconnCount, back, running, frames, acks,
                 gateway, ghosts>>

(* The last thing that Disconnection does after a failure, when m_notify   *)
(* has told KnxThread and the lock is free: another Reset, of a kernel     *)
(* that may be connected again by now.  What it clears is the new          *)
(* connection's; the channel is lost unless the interface has called it 0. *)
LateReset(r) ==
  /\ running /\ r \in failed
  /\ failed' = failed \ {r}
  /\ back' = back \cup {r}
  /\ waiting' = FALSE /\ outCounter' = 0 /\ handle' = FALSE
  /\ channel' \in {channel, FALSE}
  /\ clean' = (clean /\ ~Up)
  /\ UNCHANGED <<list, thread, connecting, reconnCount, leaving, running,
                 network, gateway, done, dropped>>

(* Defect: the thread exits without putting its request back. *)
PutBackNot(r) ==
  /\ running /\ r \in back
  /\ back' = back \ {r}
  /\ UNCHANGED <<list, thread, link, connecting, reconnCount, leaving, failed,
                 running, network, gateway, ghosts>>

(* The old send thread puts its request back and exits, perhaps after the  *)
(* new one has begun to take requests.  Before that it has zeroed the data *)
(* of a write, as it does after every write (KNXKernel.cpp:302-314): what  *)
(* comes back is an empty node.                                            *)
PutBack(r) ==
  /\ running /\ r \in back
  /\ back' = back \ {r}
  /\ sendList' = <<r>> \o sendList
  /\ wiped' = wiped \cup ({r} \cap Writes)
  /\ UNCHANGED <<thread, link, connecting, reconnCount, leaving, failed,
                 running, network, gateway, ghosts>>

(***************************************************************************)
(* The receiving thread: HandleTunnelAck.  It does not look at the counter *)
(* of the ack.                                                             *)
(***************************************************************************)
HandleTunnelAck ==
  /\ running /\ acks # <<>>
  /\ acks' = Tail(acks)
  /\ waiting' = FALSE
  /\ sender' = IF waiting /\ sender = "wait" THEN "woken" ELSE sender
  /\ UNCHANGED <<list, hand, head, tries, outCounter, channel, handle,
                 reconn, frames, losses, gateway, ghosts>>

(***************************************************************************)
(* The interface and the network.  A frame of its channel with the         *)
(* expected counter is executed and acknowledged, one with the counter     *)
(* before that is acknowledged again, any other is ignored.                *)
(***************************************************************************)
GwReceive ==
  /\ frames # <<>>
  /\ frames' = Tail(frames)
  /\ LET f == Head(frames)
         new == f.head.channel /\ f.head.counter = expected
         again == f.head.channel /\ Next1(f.head.counter) = expected
     IN /\ acks' = IF new \/ again THEN Append(acks, f.head.counter) ELSE acks
        /\ IF new
             THEN /\ expected' = Next1(expected)
                  /\ executed' = Append(executed, f.request)
                  /\ everExecuted' = everExecuted \cup {f.request}
             ELSE UNCHANGED gateway
  /\ UNCHANGED <<list, thread, link, reconn, losses, ghosts>>

Lose ==
  /\ Failure
  /\ \/ frames # <<>> /\ frames' = Tail(frames) /\ UNCHANGED acks
     \/ acks # <<>> /\ acks' = Tail(acks) /\ UNCHANGED frames
  /\ UNCHANGED <<list, thread, link, reconn, gateway, ghosts>>

Sender == Take \/ TakeWiped \/ Transmit \/ Woken \/ TimedOut \/ Leave
Leaver == \E r \in Requests : LateReset(r) \/ PutBack(r)

Next ==
  \/ \E r \in Requests : Write(r)
  \/ Sender \/ SendFails \/ Stray \/ Expire
  \/ Retry \/ Connected \/ ConnectFails
  \/ Leaver
  \/ HandleTunnelAck
  \/ GwReceive \/ Lose

Spec == Init /\ [][Next]_vars

(* Threads run, a wait ends, KnxThread wakes every five seconds while the  *)
(* tunnel is down, the interface answers, and an attempt comes to an end,  *)
(* until the process crashes.                                              *)
FairSpec ==
  /\ Spec
  /\ WF_vars(Sender) /\ WF_vars(Expire) /\ WF_vars(Leaver)
  /\ WF_vars(HandleTunnelAck) /\ WF_vars(GwReceive)
  /\ WF_vars(Retry) /\ WF_vars(Connected)

(***************************************************************************)
(* Properties                                                              *)
(***************************************************************************)

(* The state has the shape of the code's variables, the send thread holds  *)
(* a request exactly while it works on one, only a tunnel that is down is  *)
(* being connected, and only then is a send thread reconnecting.           *)
KernelOK ==
  /\ sendList \in Seq(Requests) /\ wiped \subseteq Writes
  /\ sender \in {"idle", "send", "wait", "woken", "expired", "leave", "none"}
  /\ hand \in Requests \cup {None} /\ (hand = None <=> sender \in {"idle", "none"})
  /\ head \in Header
  /\ tries \in 0..2 /\ (sender \in {"send", "wait", "woken", "expired"} => tries < 2)
  /\ waiting \in BOOLEAN /\ outCounter \in 0..Width-1
  /\ channel \in BOOLEAN /\ handle \in BOOLEAN
ReconnOK ==
  /\ connecting \in BOOLEAN /\ (connecting => sender = "none")
  /\ reconnCount \in 0..ClearCount+1
  /\ leaving \in Requests \cup {None} /\ (leaving # None => connecting)
  /\ failed \subseteq Requests /\ back \subseteq Requests
  /\ running \in BOOLEAN
NetworkOK ==
  /\ frames \in Seq(Frame) /\ acks \in Seq(0..Width-1) /\ losses \in 0..MaxLosses
GatewayOK ==
  /\ expected \in 0..Width-1 /\ executed \in Seq(Requests)
  /\ everExecuted \subseteq Requests
GhostsOK ==
  /\ done \subseteq Requests /\ dropped \subseteq Requests /\ clean \in BOOLEAN
TypeOK == KernelOK /\ ReconnOK /\ NetworkOK /\ GatewayOK /\ GhostsOK

(* A request is never in two places: not twice in the list, nor in it      *)
(* while a send thread holds it or after it has ended.  A thread puts its  *)
(* request back (KNXKernel.cpp:324-326) long after another thread has      *)
(* taken over the list, or emptied it.  An empty node stays in the list    *)
(* until that is emptied.                                                  *)
OnePlace ==
  /\ Distinct(sendList)
  /\ Queued \cap ({hand, leaving} \cup failed \cup back \cup done \cup dropped) = {}
  /\ {hand} \cap ({leaving} \cup failed \cup back \cup done \cup dropped) \subseteq {None}
  /\ leaving \notin failed \cup back \cup done \cup dropped
  /\ failed \cap (back \cup done \cup dropped) = {}
  /\ back \cap (done \cup dropped) = {} /\ done \cap dropped = {}
  /\ wiped \subseteq Queued \cup dropped

(* Within a connection the interface puts a request on the bus once,       *)
(* however often the frame is sent: a retry has the counter of the first   *)
(* transmission ("resend with the same counter as the front frame",        *)
(* KNXKernel.cpp:1971).                                                    *)
ExecutedOnce == Distinct(executed)

(* A request that the kernel takes as acknowledged has been executed: the  *)
(* ack waited for is "the response to (m_nCurGroup, m_nCurAction)"         *)
(* (KNXKernel.cpp:1905).                                                   *)
DoneIsExecuted == done \subseteq everExecuted

(* In a connection in which no answer came late, every retry was sent, no  *)
(* wait ended without a signal and no Reset of an earlier attempt came in, *)
(* that is so, with any number of frames and acks lost: HandleTunnelAck,   *)
(* which does not compare counters (KNXKernel.cpp:2317), then has no other *)
(* ack to take for the right one, and both sides count from 0 again.       *)
CleanAckIsExecuted == clean /\ sender = "woken" => hand \in everExecuted

(* The refinement: what became of each request, and what the interface has *)
(* put on the bus since the connection stands.                             *)
phase == [r \in Requests |-> IF r \in done THEN "done"
                           ELSE IF r \in dropped THEN "dropped"
                           ELSE IF r \in wiped THEN "wiped"
                           ELSE IF r \in Held THEN "held" ELSE "new"]
bus == Elems(executed)
alive == running
Promise == INSTANCE TunnelRequests

(* Every step is a step of TunnelRequests or invisible in it: an accepted  *)
(* request stays with the list or a send thread until it ends and never    *)
(* comes back after its end, although the threads that hold it exit        *)
(* (KNXKernel.cpp:324-333) and the list is emptied under them (1709), only *)
(* accepted requests reach the bus, and only a write that came back empty  *)
(* can crash the process.                                                  *)
RequestSteps == Promise!Init /\ [][Promise!Next]_(Promise!vars)

(* Every accepted request comes to an end: it is acknowledged, or given up *)
(* after a failed send or with the list, or the process crashes.  In       *)
(* particular no request stays with a thread that has exited, and a tunnel *)
(* that is down comes back.                                                *)
RequestsEnd ==
  \A r \in Requests : (r \in Held) ~> (r \in done \cup dropped \/ ~running)

=============================================================================
