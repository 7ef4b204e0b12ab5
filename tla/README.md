# Verification of the TSHOME P2P server and home gateway

TLA+ models, TLC runs and TLAPS proofs for the two programs that carry the
repository's own logic: the P2P server in `tshome-p2p-server-standalone`, and
the home gateway in `tshome-host/tshome-i386.enocean`.  Paths of the server are
relative to `tshome-p2p-server-standalone/src`; of the gateway, files without a
directory are in `p2p/pjnath/src/tshome-host` (`ice_strans.c` beside it in
`pjnath`) or, if they end in `.cpp`, in `dev_ctrl/GatewayManager`.

## 1. The system

A home has a gateway (the *host*, `tshome-host`) behind a NAT.  Phones (the
*terminals*) reach it through the P2P server: a TURN server derived from pjnath
with an application protocol on top.  Every client opens TURN allocations and
sends its application datagrams in the DATA attribute of REFRESH requests.

| Component | State | Operations | Talks to |
|---|---|---|---|
| Session and pairing registry: `server/tsp_hander.c`, `server/udb_mgr.c` | `tempUserMap`, `hostUserMap`, `mobileUserMap`, `sessionHomeMap`, `sessionId` | SDPH, SDPL, PASS_SECRET_KEY, LOGIN, HEARTBEAT, UPDATE_QUERY, DEVICE_OPERATION, STOP_CONNECTION, LOGOUT, end of an allocation | called by the allocations under their lock; shuts allocations down; SQL through the pool |
| Life detection: `LifeDetectionTimer.cpp`, `logoutUserProc` | `logoutQueue`, two timers, one thread | queue expired users, log them out, warn the others with a HEARTBEAT | reads the registry's tables, shuts allocations down |
| TURN allocations: `pj/allocation.c` | per allocation: timer id, lifetime, relay socket, permissions, channels; the server's hash tables | ALLOCATE, REFRESH, REFRESH 0, ChannelBind, CreatePermission, Send, expiry, shutdown, destruction | two worker threads, the registry's handlers |
| TURN core: `pj/server.c`, `pj/listener_*.c`, `pj/auth.c`, `pj/snd_rcv.c` | hash tables, port counter, listeners | dispatch of packets, port choice, credentials, datagrams to clients | allocations |
| MySQL pool: `server/mysqlpool.c`, `EasyMysqlConn.h` | ten connections | borrow, give back | every SQL statement |
| IPC with the web servers: `IpcServer/`, `datagram/` | peers, message queues | encode, decode, forward | registry, web servers |
| Telecom gateway: `SmartHomeTelcom/` | an HTTP connection | keep-alive, report on/off, control | host table |
| Start-up, configuration, crypto, push | configuration | - | - |
| `SmartPorts` | socket agents, serial lines, web sessions, SMS queue | - | devices, web |
| Gateway, report lists: `pjsip_mgr.c`, `gateway_mgr.c` | a list, its count, a condition variable, a stop flag | put, take, deal, stop, destroy | network threads and devices put, one thread takes |
| Gateway, connections: `snd_rcv.c`, `ice_strans.c` | `icedemo[k].icest` and the ICE transport behind it, `sdp_info` | create, initialise, announce, restart; relay up or lost, SDP received, negotiation ended | P2P server over connection 0, a terminal over each other one |
| Gateway, login: `operation_server_mgr.c`, `codec_mgr.c` | keys, session, relogin count | ask for and pass keys, log in, handle GE_NO_LOGIN, look for updates | the registry's handlers, the report list, the web thread |
| Gateway, terminals: `term_conn_mgr.c`, `operation_term_mgr.c` | list of connected terminals | login of terminals, forwarding to devices | report list, device control |
| Gateway, KNX tunnel: `KNXKernel.cpp`, `GatewayManager.cpp`, `NodeList.cpp` | send list, wait objects, counters, connection state | read and write a group, send thread, acks, reconnection, heartbeat | KNXnet/IP interface, report list |
| Gateway, the rest: other devices, scenes, SQLite, update, watchdogs, web server | - | - | - |
| pjproject, GoAhead (vendored, with local changes) | - | - | - |
| `code/appmodule/GeneralAgent`, `src/netio` | an earlier copy of the agents; experiments | - | - |

What makes the server hard to test:

* one user has up to three copies of its row (`tempUserMap`, the login table,
  the handler's local one), and each handler decides which copy wins;
* a row is found by user name, by session id or by home, and the logout needs
  all three;
* an allocation ends by request, by expiry, by being replaced and by the logout
  thread, each on another path through the registry;
* two worker threads, two timers and the logout thread run at once, under three
  mutexes that guard handlers, one that guards single table writes, and a lock
  per allocation that the timer path does not take;
* clients lose answers and repeat requests, restart, and come back from other
  addresses.

What makes the gateway hard to test:

* callbacks of a connection's worker thread destroy what the main thread polls,
  without a common lock, and the number of a connection is set after its
  callbacks may run;
* one kind of answer of the server is handled by the thread that receives it,
  the others by the report thread, on the same keys and session;
* a send thread that gives up reconnects, which starts its successor, and goes
  on with the request it holds; acks carry a counter that nobody compares.

Correct means, for the server: a session id belongs to one user and dies with the login; slots
offered to terminals hold an SDP, are taken by one terminal of the same home
and come back; an allocation that was replaced or shut down goes away; the tables
of permissions and channels are one relation; a silent user is logged out.  For
the gateway: reports are dealt with once and in order; a lost connection is
restarted and a lost server ends the process; the login converges; a request to a
device ends, is acknowledged only if it was executed, and is executed once.

## 2. Modules

| Module | Models | Form |
|---|---|---|
| `SessionRegistry` | the registry, the timers and the logout thread | state machine |
| `MCSessionRegistry` | instances of it | TLC |
| `SessionRegistryProofs`, `SessionRegistrySlotProofs` | theorems about it; those about slots, pairs and endings | TLAPS |
| `AllocationLife` | what `allocation.c` promises about the life of an allocation | abstract specification |
| `TurnAllocation` | timer, lifetime, relay socket, shutdown and destruction of allocations, step by step in each thread | state machine, refines `AllocationLife` |
| `MCTurnAllocation` | instances of it | TLC |
| `TurnAllocationProofs` | theorems about it, the safety part of the refinement among them | TLAPS |
| `TurnPermissions` | permissions and channels of one allocation | state machine |
| `MCTurnPermissions` | instances of it | TLC |
| `TurnPermissionsProofs` | theorems about it | TLAPS |
| `ReportFifo` | what the report lists of the gateway promise | abstract specification |
| `ReportQueue` | the list, its condition variable and its thread | state machine, refines `ReportFifo` |
| `MCReportQueue`, `ReportQueueProofs` | instances; theorems, the safety part of the refinement among them | TLC; TLAPS |
| `HostConnections` | the gateway's connections: main thread and workers | state machine |
| `MCHostConnections`, `HostConnectionsProofs` | instances; theorems | TLC; TLAPS |
| `HostLogin` | the gateway's login, with the server's side of it | state machine, composition of host and server |
| `MCHostLogin`, `HostLoginProofs` | instances; theorems | TLC; TLAPS |
| `TunnelRequests` | what the tunnel promises about each request | abstract specification |
| `KnxTunnel` | the send list and the tunnel to a KNX interface | state machine, refines `TunnelRequests` |
| `MCKnxTunnel`, `KnxTunnelProofs` | instances; theorems, the refinement among them | TLC; TLAPS |

`SessionRegistry` and `TurnAllocation` meet at the end of an allocation: the
first has `Destroy` as one step with all its effects on the users, the second
takes that step apart and keeps of the registry only the set `announced` of
addresses that stand in the slots of users, from which shutdowns may come.
`HostLogin` puts the gateway's threads and the handlers of the registry that
answer them into one module, with the datagrams between them; its `queue` is the
report list, which `ReportQueue` shows to be a queue.

### SessionRegistry

`tempUserMap` and `sessionHome` are the maps of `ts_udb_mgr`.  `loginUser` holds
`hostUserMap` and `mobileUserMap`: both are lists per home that `save_host` and
`save_mobile` keep free of duplicate names, so a map from the user name is the
same thing; the host list of a home is `loginUser` on the home's host ("at
present, one home just have one host", an assumption of the module).  A row is
`[session, reference, sdpVec, fresh]`.  An SDP is a pair of the client's address
and a generation, the text that the client produced there; `fresh` says that
`liveTime` is younger than the timeout.  Session ids are the handed-out numbers
counted from `BEGIN_SESSION_ID`.  `alloc` maps the client address of a live
allocation to its user and to the connection number with which it is announced;
`client` is what the client programs remember, and makes the model send only
requests that such a client can send.

Each request is one action that takes the whole handler: `Sdph`, `SdphTooMany`,
`SdplNew`, `SdplAgain`, `PassSecretKey`, `Login`, `Heartbeat`,
`DeviceOperation`, `UpdateQuery`, `Logout`; `Crash` is the NULL dereference of
the handlers that do not check `find_user`, followed by the restart with empty
tables.  `Destroy` is the end of an allocation (expiry, or REFRESH with lifetime
0) with the registry's part of it.  `do_when_logout` is the operator
`DoWhenLogout`, built from `LogoutLogin` and `LogoutSession`, because SDPL
applies it to the tables before it stores its own copy.

Atomicity: a handler is a step.  All requests run under
`g_mutexTspHandlerRequest`, but the destroy and logout paths have mutexes of
their own, so two handlers of different kinds may interleave in the program.
Those interleavings are not in this module (section 6).

Not modelled: requests with a wrong password or session and unknown users, which
change nothing; ASK_SECRET_KEY, which only reads a key; contents of datagrams;
`stop_host_sender`; a `LOGIN` whose decrypted name differs from the name of the
TURN credential.

### TurnAllocation

A thread is a record: its position `pc`, named after the function it is in, the
allocation it works on, the lock it holds, the packet it handles, and where
`destroy_relay` returns to.  Each action is the code between two accesses to
what the threads share: `timer.id`, `lifetime`, the timer heap, the hash table,
`alloc->lock`.  So `alloc_shutdown` is `ShutdownTest`, `ShutdownCancel`,
`ShutdownClear`, `ShutdownAssert`, the four steps of `destroy_relay`,
`ShutdownMark` and `ShutdownSchedule`; `resched_timeout` is the `Reschedule`
steps; `relay_timeout_cb` is `Callback` and its two branches;
`destroy_allocation` is `Unregister`, `destroy_relay`, `DestroyLock`, `DestroyUnlock`
and `DestroyFree`.

Two worker threads poll the timer heap and the ioqueue.  A packet of a client is
read by one worker at a time (the UDP listener has one read operation and reads
again after the handler), a packet of a peer by one worker per relay socket, and
both take `alloc->lock`.  The timer callback, the logout thread, and an
announcement that replaces another client's address shut an allocation down
without its lock.  A failed assertion and the use of a freed object stop the
process, with the reason in `status`: the assertions are compiled into the
server, since no build file defines `NDEBUG`.

The lock of an allocation does not protect it from its end: `destroy_allocation`
gives it back (510) before it destroys it and releases the pool, so a thread that
waited for it (1137, 1331) gets it, finds the session gone and stops the process
(`NoSession`) or works on what is then freed (`UseFreed`, `alloc_retransmit`).  A second
thread in `destroy_allocation` may find that nothing is left to do (`DestroyNothing`).
`LookUpsFindLive` says what does hold: neither the table nor the relay socket leads to a
freed allocation, so that only a thread that found it earlier is exposed.

The hash table is read under the server's lock in one step and used after it.
`announced` stands for the addresses in the slots of the users; the end of an
allocation does not take its address out, so it holds at least the addresses that
the registry would name.  A logout that names several addresses is several steps.
The timer heap is the library's (`pj_timer_heap_*`): an entry is in it or not;
polling takes it out before the callback; cancelling an entry that is not in it
does nothing; scheduling one that is in it fails an assertion.

Not modelled here: time (a timer in the heap may be due at any moment),
permissions and channels (the next module), the relayed data, the TCP listener, which is never
created, the shutdown of the server, and a walk of the table by the logout thread
while a worker changes it.

### TurnPermissions

`tables` is `peer_table`, keyed by the IP address alone, and `ch_table`; `perm`
are the permission objects, with the address (IP and port) they were created for,
their channel, and `valid`: `expiry` is later than now.  An expired permission
stays in the tables until a look-up finds it, so every look-up is a new pair of
tables (`Checked`, `ByAddress`, `ByChannel`).  CreatePermission for several
addresses is several steps.

The packets of the client are handled one at a time, data of a peer under the same
`alloc->lock`.  `restore_allocation` empties the tables when the user paired with this
one ends, in that user's request or in the timer of its allocation (`relay_timeout_cb`,
737-739), without the lock of this one, so it may fall anywhere into the packets of this
client and its peers.  One restore runs at a time; it removes one entry per step.
ChannelBind is two steps, look-up and entry, because a restore can make a difference
only between them; the other packets look up once and are undivided.

A ChannelBind that a restore overlaps leaves an entry in one table only, or gives a peer
a second channel, against the comment at 1689.  `torn` records the address and the
channel of such a request, and those that are bound to either of them later; the three
properties hold for all others, which is to say that the damage does not spread.

What a change of a hash table does to a walk of it at the same moment (the two
threads share no lock) is undefined and left out, beyond the order of removals;
so is the reserved channel number 0xFFFF, which the code takes for "no channel"
and does not refuse.

### ReportQueue

`pjsip_mgr.c` and `gateway_mgr.c` have the same list.  A step is what the code
does between taking and giving back the mutex; the test of the stop flag in the
`while`, which is outside it, is a step of its own.  `length` is the count that
the thread tests, `list` what it takes from: they differ after `DestroyList`,
which empties the list and leaves the count.  `Deal` is the handling of a report,
here without what it does.  `pthread_cond_wait` may return without a signal (`Stray`),
and the wait stands in an `if` (`pjsip_mgr.c` 216, `gateway_mgr.c` 113): unless a report
was put in meanwhile, the thread then takes the head of an empty list for a report, deals
with what stands there, frees it and counts -1.  That is `TakeHead`, after which
behaviours are not followed.  `TakesReports` says that nothing else leads there.

### HostConnections

`icest[k]` says that the pointer of connection k is not NULL, `strans[k]` is the
object that was made for it.  They are two variables because the pointer is stored
at the end of the creation and cleared by whichever instance names k.  The main
thread (`console`) has a position per two reads of what the workers change: the
waits for READY and SESS_READY read the pointer (`Look`) and then the state
through it (`Read`).  A callback of a worker is one step.  `RelayUp`, `RelayLost`,
`Negotiated`, `NegotiationFails` are the outcomes of pjnath's state machines, in any
order; `Start` has the three outcomes of a negotiation that is started.
A callback may come as soon as there is an instance: the worker runs while the main
thread is still in `pj_ice_strans_create`, and a TURN session that fails at once
(`turn_sock.c` 406-411) calls back inside it.  Two things go wrong there, and the
properties say that nothing else does:

* Until `tshome_set_peer_id` (`snd_rcv.c` 570) an instance has number 0.  If it fails
  before, it clears the pointer of the server's connection, and the next thing that the
  main thread does is to use the freed instance (`undefined`, not followed).
  `PointersFollowObjects` excepts connection 0 in that moment only.
* The socket of an inner connection is on a fixed port, and a terminal in the house sends
  its SDPIL when it likes.  One that reaches an instance under restart, for a connection
  that has had a description before, takes READY away for good (`Overtaken`), and the
  main thread polls for it (1654-1665) for ever: it neither restarts another connection
  nor sees the loss of the server (`PollsInVain`).  This is against the comments at 1750
  and 1759; `AwaitedComes`, `ServerGoneExits` and `DestroyedIsRestarted` except it.

Not modelled: two threads at once in `sess_init_update`, of which the later one sets
READY again, and the contents of a description.

### HostLogin

The report thread deals with an answer in the steps between which the worker
thread can handle a GE_NO_LOGIN: `MakeRsaKey`, `MakeAesKey`, `PassKey` for the
answer to ASK_SECRET_KEY, `SaveSession`, `LoginAction` for the one to
PASS_SECRET_KEY, `LoginHandle` for the one to LOGIN.  Keys are numbered as they are
made; a LOGIN under another key than the row's decrypts to nobody.  The server's
four handlers are single steps, as in `SessionRegistry`.  The scope is the life of
one row of `tempUserMap`: the row is there from the start, no datagram is lost (no
timer of the host would repeat it), the host has its telecom device.  `Reorder`
lets datagrams overtake each other.  `stopped` and `crashed` end the process; the
watchdog that starts it again is not modelled.

### KnxTunnel

A request is in the list, in the send thread's hand, with a send thread that is
reconnecting (`leaving`), with one whose attempt has failed (`failed`), with one that is
about to put it back (`back`), or has ended (`done`, `dropped`).  `Take` to `TimedOut`
are `KnxSendListProcess` and `GroupValueRequest`; `Leave` is the way from the second
timeout into `UDPSocketInit`, `Connected` and `ConnectFails` are its end; `Retry` is
`KnxThread`, which tries while the tunnel is down; `Attempt` counts and empties the list.
`head` is the connection header of the frame, with the counter octet and the channel of
the moment in which it was built; a retry has the same.  `woken` is a send thread whose
wait has ended well, by an ack or, as POSIX allows, by nothing (`Stray`); `expired` is one
whose second is over and that has not got the mutex back, so that an ack handled then has
no effect.  The interface is external: it executes a frame of its channel with the
expected counter, acknowledges that and the one before, and ignores others.

Three things of the code that make the tunnel what it is:

* After every write the send thread zeroes the node's group data and reports success
  (302-314), then looks whether there were two timeouts (316) and puts the node back at
  the head (324-326).  The write that comes back is an empty node (`wiped`): when it is
  taken again `GenerateWriteValueMsg` throws (1159-1160), and the handler deletes the
  node, sets the pointer to 0 and reads through it (332-361), which ends the process
  (`TakeWiped`).  A read is put back whole.
* A failed `Disconnection` resets the kernel (770) after `UDPSocketInit` has released
  `m_bConnectLock` and `m_notify` (755) has told `KnxThread`: the tunnel may be connected
  again by then (`LateReset`).  The Reset zeroes the counter, the wait object, the channel
  and the handle of the new send thread, so that frames are ignored or acknowledged as
  repetitions of others, and new writes are refused although the tunnel is up.
* `HandleTunnelAck` takes any ack for the one waited for.

For the refinement of `TunnelRequests` (`phase`, `bus`, `alive`) a request in any of the
five places is held unless it is wiped, and the bus has what the interface executed since
the connection stands.  `clean` is a history variable: in this connection all answers came
in time, every retry was sent, no wait ended without a signal and no Reset came late.
`CleanAckIsExecuted` says that then, and with any number of frames and acks lost, an ack
is that of a request that was executed; without the condition it is false (`knx_ack`, and
section 4).

Limits: closing the sockets and taking `m_bConnectLock` is one step, so the refusal of an
attempt because `KnxThread` holds the lock, another way to the same late Reset, is not a
step of its own; a Reset that spoils an attempt under way is an attempt that fails; the
mutexes that Reset unlocks, a close by the heartbeat or by the interface, a network that
reorders frames and what the requester is told are left out.

## 3. Runs

All runs but `perm_tables` set `CHECK_DEADLOCK FALSE`: when the clients have opened
the last of `MaxOpened` allocations and all of them ended, nothing has to happen any
more; a process that was stopped by an assertion, by the server or by itself does
nothing; and every report, request or answer of a bounded number has been dealt with
in the end.

| Run | Instance | What it shows |
|---|---|---|
| `registry_safety` | 2 hosts in 2 homes, 2 terminals in one of them, 2 slots, serials 0-2, 3 addresses, 4 allocations, 2 sessions | five invariants and three action properties hold |
| `registry_timers` | 1 host, 1 terminal, timers on, queue of 2 | queued and silent users are logged out |
| `alloc_safety` | 1 client, 2 allocations, 2 packets of clients, 2 workers and the logout thread | no allocation is forgotten; no look-up finds a freed one; every step is one of `AllocationLife` |
| `alloc_life` | 1 client, 1 allocation, 2 packets, fairness | the code implements `AllocationLife`, its liveness included |
| `alloc_retransmit` | 1 client, 1 allocation, 3 packets | violation: a packet is handled with a freed allocation |
| `perm_tables` | 2 IPs with 2 ports, 2 channels, 3 permissions in use, restores at any moment | but for what a restore tore: the two tables are one relation; no two channels for one peer; no permission is lost before its time |
| `report_queue` | 3 reports, 3 waiting, a stop and unsignalled wake-ups anywhere, fairness | an empty list is taken from only after such a wake-up; the thread sleeps on an empty list only; the list implements `ReportFifo`, its liveness included |
| `host_connections` | 3 connections, 2 of them outer, 2 descriptions, callbacks during creation, fairness | with the two exceptions of section 2: pointers follow objects; descriptions are the last; what the main thread polls for comes; a lost server ends the process; a lost connection comes back |
| `host_login` | 2 UPDATE_QUERYs, datagrams reordered, fairness | when all is quiet, host and server agree; the handshakes end |
| `host_mismatch` | 1 UPDATE_QUERY, datagrams in order | violation: a host with the right password is stopped |
| `knx_tunnel` | 3 requests, one a write, list of 1, list emptied at the 2nd attempt, counter of 3 values, 4 failures, unsignalled wake-ups, fairness | one place per request, executed once, acknowledged only if executed while the connection is undisturbed; every step is one of `TunnelRequests`; every request ends, or the process |
| `knx_ack` | the same with 1 failure, no unsignalled wake-ups | violation: a late ack is taken for the answer to the next request |

Bounds.  Two slots are the smallest vector with the server's slot and one for
terminals; serial 2 is out of range.  A re-announced host needs two addresses
for one connection, with a terminal beside it a third; four allocations let one
of the three addresses be used again.  Two sessions allow a re-login and two
users that are logged in at once, which is where ids could be mixed up.  Two
hosts in different homes and two terminals that compete for the slot are what
`PairedInHome` and the pairing race need.  Terminals and addresses are
interchangeable, so `registry_safety` uses symmetry; the temporal run does not.

Bounds of the allocations.  One client with two allocations is the address that
allocates again while threads still hold the old allocation.  Packets of peers are
not bounded.  One packet announces the address and the second is the REFRESH,
command or deallocation that races with the timer and the logout thread.  The
number of threads is the server's.  The runs have no second client, whose
announcement would shut the allocation of the first down: TLC sees that path when
an address is announced again and shuts its own allocation down, and the logout
thread is the one that shuts an allocation down without holding its lock.  The
same run with two clients also passes (2.1 million distinct states), but takes
twice as long.  The four theorems about `TurnAllocation` hold for any number of
clients.

Bounds of the permissions.  Two IPs tell the right peer from the wrong one, two
ports of an IP share its entry, two channels let one peer ask for a second.
`Perms` bounds the objects in use at once; two IPs and one ChannelBind under way
need three.  An object that is in no table is used again, as if new.  All four sets
are interchangeable, hence the symmetry.

Bounds of the gateway.  Three reports are one in the thread's hand and two that
could change places.  Of three connections one is the server's, one outer and one
inner, which is all the kinds there are; two descriptions tell the last one from
the one before.  One UPDATE_QUERY starts a second handshake, two start a third that
meets the other two; five failed logins, one after the other, end the process.  In the
tunnel a request is in the hand, one is being put back and one is in the list; a
counter of three values is the fewest that tells the expected one, the one before
and another.  `MaxLosses` counts frames and acks lost, answers that come after the wait,
sends and attempts that fail and unsignalled wake-ups; four of them are two timeouts,
which bring the tunnel down, and two attempts, which empty the list, or one attempt, its
late Reset and a disturbance of the next connection.

Fairness (`FairSpec` of the registry).  Weak fairness of `LogoutUser`: `logoutUserProc` is a
thread that waits on a semaphore posted once per entry.  Strong fairness of
`TimerProc`: the timers are periodic threads and never stop; they are disabled
only while the bound `MaxQueue` of the model holds them back, which the code
does not have.  Clients, their networks and the passing of time get no fairness.

Fairness of the allocations.  Weak fairness of the steps of each thread: threads
are scheduled, and no lock is kept for ever.  Strong fairness of `Fire` for each
allocation: a worker polls the heap between two polls of the ioqueue, and a
poll of the ioqueue ends after `MAX_NET_EVENTS` events (`server.c` 259-270), so
packets only hold a due timer back for a while.  Left out is a socket that never
runs dry, whose read loop (`allocation.c` 1333-1350, `listener_udp.c` 234-266)
would keep one worker for itself.  Clients get no fairness and send finitely many
packets: without an end of them, REFRESHes that race with each shutdown could
put the timer off again and again.

Fairness of the gateway.  Weak fairness of the report thread, of the main thread and
of the threads of the tunnel: they are scheduled and wait only for what the guards
say.  A request for a TURN allocation is answered or given up by the retransmission
timer of its STUN transaction, hence weak fairness of `Relay` while it is pending;
the relay and the terminals get none afterwards.  Datagrams of the login arrive
(`Server`, `Worker`); the web thread gets no fairness and asks finitely often.  A
wait for an ack ends (`Expire`); `KnxThread` wakes every five seconds while the
tunnel is down (`Retry`); the interface answers and a connection attempt succeeds
in the end (`GwReceive`, `Connected`), because failures are bounded by `MaxLosses`; a
thread that is about to reset or to put back goes on (`Leaver`):
with an interface that never comes back the requests in the list would wait
for it, which is what the code does.

What the properties say is stated above each of them in the module.  The least
obvious:

* `SessionOwned` survives although SDPL stores back a row with the session id of
  the logout it just did, and although LOGIN can leave an entry without a
  mapping: ids are never handed out twice, and every copy of one stays under the
  name of the user that got it.
* `DeregistrationEndsSession`: the logout removes entries by session, SDPL and
  PASS_SECRET_KEY change sessions, yet an entry never leaves the login table
  without its mapping.
* `LogoutFreesSlot` is the part of the slot bookkeeping that the code keeps: one
  slot is freed.  That all are, as the comment on `restore_host_sdp` says, is false
  of a terminal that repeated its SDPL.
* `QuietIsAgreed`: a GE_NO_LOGIN may destroy keys that were made for a handshake in
  progress; whatever the order, the last handshake wins at both ends or another one
  is under way.
* `NeverForgotten` says of every registered allocation that no thread works on: it has its
  timer, and an allocation that is not closed has one that shuts it down first.  It does
  not say that such an allocation has a lifetime left: a REFRESH with lifetime 0 sets it
  to 0 (`allocation.c` 1418-1421) before the timer is set again.
* `OnePlace`: a request is put back by a thread that no longer belongs to the tunnel,
  after its successor may have emptied the list and started anew.
* `RequestSteps`: the thread that reconnects exits with its request put back into a
  list that may be emptied meanwhile, or that its successor works on; yet no accepted
  request is forgotten, none ends twice, and none that was given up comes back.  A write
  may come back empty, and only such a one may crash the process.
* `AwaitedComes`: the loops of the main thread look at one state and do not end by
  themselves; the loss of a relay clears the pointer and ends them, and a description
  leaves them waiting only at an inner instance.
* `SilentIsLoggedOut` is about a user whose session in both tables is the same;
  after a second PASS_SECRET_KEY the old entry of the login table can stay
  forever, since the logout looks for the new id.

## 4. Findings

Shown by a run:

* `alloc_retransmit` - `allocation.c:660` keeps a closed allocation in the table
  for retransmissions of REFRESH; a packet that finds it there may use it after
  the destroy timer has freed it.
* `host_mismatch` - `login_server_handle` returns -1 when the session of an answer is
  not the host's, and `pjsip_mgr.c:616` takes that for "login failed, stop host"; a
  GE_NO_LOGIN handled between a LOGIN and its answer zeroes the session, and a host
  with the right password stops.
* `knx_ack` - `KNXKernel.cpp:1905` says that the event waited for is the response to
  the current request; `HandleTunnelAck` takes any ack (the comparison of the counter
  is commented out, 2317), so the second ack of a request that was sent twice
  acknowledges the next one, executed or not.

Divergences met while modelling, which no run shows:

* `udb_mgr.c:208` says that a row of `tempUserMap` is destroyed when the allocations
  are; the reference that would tell is decremented in a copy (`tsp_hander.c:1458`).
* The pair flag (`include/tshome_typedef.h:82`) is reset by every save of the host's
  temporary row, so that a slot in use is offered as single (`tsp_hander.c:432`).
* `restore_host_sdp` frees one slot of a terminal that took two by repeating its SDPL.
* `allocation.c:631` says that packets are rejected once an allocation is marked as
  shutting down; a REFRESH that passed the test of the lifetime just before goes on
  to `resched_timeout` and fails its assertion (`status` in `TurnAllocation`).
* `allocation.c:1689` says that a peer gets one channel; a restore by the timer of the
  paired allocation between look-up and entry lets it get two, and leaves entries in one
  table that the other does not have (`torn` in `TurnPermissions`).
* `allocation.c:492-520` releases the lock of an allocation before it destroys the lock
  and frees the pool; a thread that waited for it goes on with a session that is NULL
  (`status` "no session" in `TurnAllocation`).
* `pjsip_mgr.c:216` and `gateway_mgr.c:113` wait in an `if`: a wait that POSIX ends
  without a signal takes the head of an empty list for a report (`TakeHead` in
  `ReportQueue`).
* `snd_rcv.c:1750-1751` and `1759-1760` say that the process ends when the server's
  connection is lost and that other connections are restarted; a description that reaches
  an inner instance under restart keeps the main thread polling it for ever (`PollsInVain`
  in `HostConnections`).
* An instance that fails before `snd_rcv.c:570` clears the pointer of the server's
  connection and is then used although it was freed (`DestroyedUnnamed`).
* `allocation.c:1667` compares a ChannelBind refresh with the peer of the channel; that
  one was bound on the permission of another port of its IP address, so that the
  refresh of an accepted binding is answered with 400.
* `ice_strans.c:755` does not report the loss of a relay in state INIT once a
  negotiation could not be started, so an outer connection stays without one
  (`RelayLost` in `HostConnections`).
* `pjsip_mgr.c:766` signals the stop without waiting for the thread; if that falls
  between its test of the flag and its wait, it never ends.
* A request of the KNX tunnel whose second `sendto` fails is deleted after its first
  frame was executed, and the counter stays: the next request is taken for a repetition.
  The Reset of a failed reconnection (`KNXKernel.cpp:770`) does the same to a connection
  that another thread has made meanwhile, and makes it refuse writes (`clean` and
  `LateReset` in `KnxTunnel`).
* `KNXKernel.cpp:325` puts a request back that could not be sent; the data of a write was
  zeroed and its success reported before (302-314), and taking it again ends in a read
  through a NULL pointer (339) in the handler of the exception that 1160 throws
  (`TakeWiped`).
* `KNXKernel.cpp:2392` says that a frame with the counter before the expected one is
  acknowledged and discarded; the expected counter is overwritten by that of the frame
  first (2400), so every repetition is accepted.

`PROJECT.json` has the findings with their lines, and the list of hazards.

## 5. Proofs

`SessionRegistryProofs` proves, for every value of the constants that satisfies
`UsersAssumption`, `BoundsAssumption` and `SdpAssumption`:

* `TypeCorrect`: `Spec => []TypeOK`.  `TypeOK` is inductive; the work is in the
  slot vectors, whose length has to be kept by the announcements, the restore,
  the shift of `WithoutSdpAt` and the copies between the tables.
* `SessionsAreOwned`: `Spec => []SessionOwned`.  Inductive together with
  `TypeOK`: every action either copies a row within one user or hands out
  `sessionId + 1`, which no table holds.
* `SessionEndsWithLogin`: `Spec => DeregistrationEndsSession`.  No invariant is needed:
  the rows that a logout erases from `loginUser` are those with the session of the
  user's temporary row, which the same step unmaps, and one lemma per action says so.

`SessionRegistrySlotProofs` proves the rest of `registry_safety` from the same
assumptions, so that every property of that run is a theorem:

* `OffersHoldSdps` (`[]SingleHasSdp`) and `PairsStayInHome` (`[]PairedInHome`).  Neither
  is inductive, because rows are copied from the temporary table to the other one and
  back.  `SlotInv` says of both tables that a slot that is single *or has a client*
  holds an SDP and that a terminal in it is of the host's home; the second disjunct is
  what `restore_host_sdp` relies on when it makes a client's slot single again.
* `ReferencesAreBacked` (`[]ReferenceWithinSdps`), `ReplacedAreShutDown`
  (`ReplacedAllocationGone`) from type correctness, one lemma per action.
* `LogoutsFreeSlots` (`LogoutFreesSlot`).  It takes `SessionOwned` and `PairedInHome`: the
  logout looks for the terminal in the hosts of the home to which its session is mapped,
  which is its own, and the slot it gives back is the first one, whose existence is the
  least-element theorem of the naturals.

`TurnAllocationProofs` proves, for any sets of clients, allocations and workers
and any number of packets, from `ThreadsAssumption`:

* `TypeCorrect`: `Spec => []TypeOK`.
* `ImplementsLife`: `Spec => LifeSteps`, the safety part of the refinement: every
  step of every thread is a step of `AllocationLife` or invisible in it.
* `NoneForgotten`: `Spec => []NeverForgotten`.
* `LookUpsAreSafe`: `Spec => []LookUpsFindLive`.

The first two come from the inductive invariant `IInv`.  Types alone do not carry the
refinement: `Unregister` is a `Remove` only if the relay is closed, and the thread
that unregisters holds no lock.  `IInv` says therefore, of each thread, that the
relay of its allocation is closed at every position from the end of
`destroy_relay` to the destroy timer and from the callback of that timer to the
end (`ThreadInv`), and of the allocations, that the id "destroy" implies a closed
relay (`AllocInv`), which is how the one thread hands it to the other.  It is
preserved because no step opens the relay of a made object.  The proof has a
lemma for each way a thread moves (`GotoFields`, `ReturnFields`, `StartFields`),
one that reduces a step to the moving thread (`OneThread`), one for each group of
actions, and then the same for the refinement (`Invisible`, `Stops`, `OnePhase`).

`NeverForgotten` speaks of allocations that no thread works on, and says nothing of
the others; its strengthening `Duty` does.  Every registered allocation is `Covered`
while the process runs: if its timer has no id, a thread at work on it is at a position
from which it writes one or unregisters it (`WillMark`), and if its timer is not in the
heap, one from which it schedules it or unregisters it (`WillSchedule`).  Two threads
may work on one allocation, and the one may take away what the other has just given
back; it is then itself the one with the duty (`StillCovered`).  `Removed` says that
`destroy_allocation` works on an allocation that is no longer in the table, so that
what it frees there is not registered, and `ThreadInv` that its relay is closed:
`LookUpsFindLive` follows by induction, since nothing registers a made object again or
opens its relay.

`TurnPermissionsProofs`, from `PermissionsAssumption`:

* `TypeCorrect`: `Spec => []TypeOK`.
* `TablesAreOneRelation` (`[]TablesAgree`) and `ChannelsHaveTheirPeer`
  (`[]OneChannelPerPeer`), wherever restores fall.  `TablesAgree` says nothing while a
  ChannelBind or a restore is at work, so it is not inductive.  `IInv` says of every entry
  of either table that it is torn, or agrees with the other table and shares no address
  and no channel with what is torn; while a restore is at work, that it is still before it
  (`Agreed`).  The permission of a ChannelBind at work has no channel, its channel leads
  nowhere, and it is torn or still reached (`Binding`); two channels lead to one address
  only if it is torn (`Apart`).  The lemmas are about look-ups and grants on any two
  tables (`CheckedAgrees`, `GrantAgrees`).
* `OnlyRestoreTakesValid`: `Spec => ValidStays`, from the same `IInv`: a look-up takes an
  entry from one table through the other only if they agree or it is torn, and in the
  first case it takes that of the expired permission.

`ReportQueueProofs`, from `ReportsAssumption`: `TypeCorrect`, `TakesWhatWaits`
(`Spec => TakesReports`), `NoWakeUpMissed` (`Spec => []SleepsOnNothing`) and
`ImplementsFifo` (`Spec => FifoSteps`).  The invariant relates the count to the list: they
are equal until the list is destroyed, which is after the stop, and a thread that was
woken by a signal has something to take or a stop to see.

`HostConnectionsProofs`, from `ClientsAssumption` and `NoneAssumption` (an object is not
the absence of one), with callbacks at any moment of a creation: `TypeCorrect`,
`LastDescription` (`Spec => []TalksToTheLast`), `PointersAreRight`
(`[]PointersFollowObjects`) and `PollsForWhatComes` (`[]AwaitedComes`).  For the second the
strengthening `AssignedFresh` says that an instance that has not got its pointer yet talks
to nobody, so that storing the pointer brings nobody in who talks to an older
description.  For the third `AllFollow` says that an instance carries number 0 while it is
made and its own afterwards, by which a failure finds the pointer to clear, and that
only connection 0 loses a pointer to another's failure.  `AwaitedComes` is about four
positions of the main thread; `InStage` says for each position between the creation of an
instance and its announcement which states the instance can be in, an overtaken one
included, and needs `AllFollow` for the failures that end an instance on the way.

`HostLoginProofs`, from `LoginAssumption`, for any number of queries and both values of
`Reorder`: `TypeCorrect` and `QuietHostIsLoggedIn` (`Spec => []QuietIsAgreed`).  The
invariant `IInv` says what holds while answers are outstanding:

* `ThreadInv`: a key that the report thread will miss was destroyed by a GE_NO_LOGIN, so
  another ASK_SECRET_KEY is ahead of it; a session that it stored is still the one of the
  answer in its hands, unless the keys are gone.
* `SessionInv`: an answer to PASS_SECRET_KEY carries a session that no other such answer,
  no LOGIN under way and no granted login has.
* `AgreementInv`: when no handshake is under way, a LOGIN with the host's session has the
  host's key, a grant with it is the agreement itself, and if there is neither, the two
  sides agree already.

The three need each other: storing a session (`LoginAction`) keeps the third only because
by the second nothing older carries it, and the answer of GE_NO_LOGIN, which takes the
keys away in the middle of a handshake, is covered by the first.

`KnxTunnelProofs`, from `KnxAssumption`:

* `TypeCorrect`, `RequestsInOnePlace` (`Spec => []OnePlace`) and `NoRequestTwice`
  (`Spec => []ExecutedOnce`).  `OnePlace` is inductive with `TypeOK`.  `ExecutedOnce` is
  not: its strengthening `Sound` says that the frames of a request are alike and next to
  each other, those of the request in hand last and with its header (`FrameOrder`), that a
  request still in the list was not sent in this connection (`Fresh`), and that a frame of
  an executed request has the counter before the expected one, with only its like in front
  of it (`Repeats`).  A late Reset changes the counter of the next request and not the
  header of the one in hand, so it keeps all three.
* `ImplementsRequests`: `Spec => RequestSteps`, the refinement of `TunnelRequests`.  It
  needs `OnePlace`, by which a request that ends in one place is not held in another, and
  `Sound`, by which what the interface executes is new to the bus and was not wiped.
* `CleanDoneIsExecuted`: `Spec => []CleanAckIsExecuted`.  The invariant is `Calm`: in a
  clean connection at most one frame or ack is under way, and only while the send thread
  waits for it (`AtMostOne`); the counters of the two sides are in step, or the interface
  is one ahead and has executed the request in hand (`InStep`).  Each of the four things
  that end a clean connection breaks one of the two.

Every safety property of a passing run is thus a theorem.  Only model-checked are the
liveness properties, which are beyond the prover: `QueuedIsLoggedOut`,
`SilentIsLoggedOut`, `ServerGoneExits`, `DestroyedIsRestarted`, `LoginEnds`,
`RequestsEnd`, and the fairness of `AllocationLife` in `LifeSpec` and of `ReportFifo` in
`FifoSpec`, whose steps are proved (`ImplementsLife`, `ImplementsFifo`).

## 6. Not modelled, and what may follow

Not modelled:

* Vendored and generated code, which is most of the repository's lines: pjproject
  (`p2p/`, except the changes to `ice_strans.c` and `allocation.c`), the three copies of
  the GoAhead web server, one function per column of the SQLite tables
  (`ts_db_*`).  The share of the lines that the modules stand for is therefore about
  one in a hundred, however much of the own logic is covered.
* Pure I/O and encoding: MySQL, IPC with the web servers, the telecom platform, crypto,
  push notification, encoders of the device protocols.
* The interleavings of handlers under different mutexes in the registry
  (`get_hosts` and `set_hosts`, hazards at `udb_mgr.c:519`).
* STOP_CONNECTION and COMMON_DEVICE_CONTROL, which forward a request to the host.
* The gateway's list of terminals, its scenes and watchdogs; the heartbeat, the
  DISCONNECT_REQ and the inbound requests of the KNX tunnel.
* `SmartPorts`, `code/appmodule`, `src/netio`: other products and earlier copies.

What would add most next:

1. Registry races: `get_hosts` and `set_hosts` as steps of their own under the
   three mutexes; an abstract registry that the serial handlers implement.
2. The close of the KNX tunnel by the receive thread and by the heartbeat, while the
   send thread is reconnecting.
3. The terminals of the gateway and the forwarding of their requests.
4. Proofs about the modules above, as they come; refinements of an abstract registry
   and of an abstract login, as the allocations, the lists and the tunnel have them.
