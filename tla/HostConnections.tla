-------------------------- MODULE HostConnections --------------------------
(***************************************************************************)
(* The connections of the gateway process tshome-host, snd_rcv.c, on the   *)
(* ICE stream transport of pjnath, ice_strans.c.  Connection 0 serves the  *)
(* P2P server; the other outer ones, with a TURN relay, and the inner ones *)
(* (no relay) serve one terminal each.                                     *)
(*                                                                         *)
(* The main thread (icedemo_console) creates the instances, then restarts  *)
(* those whose pointer is NULL.  Each instance has a worker thread, which  *)
(* runs the callbacks: the relay is up or lost, an SDP arrives, an ICE     *)
(* negotiation ends.  A callback is one step, with the destruction that a  *)
(* failure ends in, and may come as soon as there is the instance, before  *)
(* the pointer to it is stored and before it is told its number.  No lock  *)
(* is shared by the main thread and the workers, so a step of the main     *)
(* thread is what lies between two reads of what they share.  What follows *)
(* the use of a NULL or freed instance is undefined and not modelled.      *)
(***************************************************************************)
EXTENDS Naturals

CONSTANTS
  Clients,       \* number of connections: clients of icedemo.c
  OuterClients,  \* clients/2+1, the outer ones
  Sdps,          \* session descriptions of terminals
  None           \* no instance, no description

ASSUME ClientsAssumption ==
  /\ Clients \in Nat /\ OuterClients \in 1..Clients
  /\ None \notin Sdps

Ks == 0..(Clients - 1)
Outer == 0..(OuterClients - 1)

VARIABLES
  icest,     \* icest[k]: icedemo[k].icest is not NULL
  strans,    \* strans[k]: the pj_ice_strans object made for k, or None
  sdpInfo,   \* sdp_info[k]: the last SDPL or SDPIL
  console,   \* the main thread: position, connection, in the first round
  stopFlag   \* pjsip_stop_flag

vars == <<icest, strans, sdpInfo, console, stopFlag>>

\* state: INIT, READY, SESS_READY, NEGO, RUNNING; relay: TURN allocation;
\* called: cb_called; remote: with whom it negotiates; id: peer_id.
Objects == [state : {"init", "ready", "sess", "nego", "running"},
            relay : {"pending", "up", "none"}, called : BOOLEAN,
            remote : Sdps \cup {None}, id : Ks]

ASSUME NoneAssumption == None \notin Objects

Places == {"create", "assign", "identify", "lookReady", "readReady", "init",
           "lookSess", "readSess", "announce", "loop", "visit",
           "exited", "undefined"}

TypeOK ==
  /\ icest \in [Ks -> BOOLEAN]
  /\ strans \in [Ks -> Objects \cup {None}]
  /\ sdpInfo \in [Ks -> Sdps \cup {None}]
  /\ console \in [pc : Places, k : Ks, startup : BOOLEAN]
  /\ stopFlag \in BOOLEAN

\* The first round goes through the inner connections, then the outer ones.
Init ==
  /\ icest = [k \in Ks |-> FALSE]
  /\ strans = [k \in Ks |-> None]
  /\ sdpInfo = [k \in Ks |-> None]
  /\ console = [pc |-> "create", startup |-> TRUE,
                k |-> IF OuterClients = Clients THEN 0 ELSE OuterClients]
  /\ stopFlag = FALSE

Over == console.pc \in {"exited", "undefined"}

Live(k) == strans[k] # None

HasSess(k) == Live(k) /\ strans[k].state \in {"sess", "nego", "running"}

\* The main thread makes the instance of k.
Creating(k) ==
  console.k = k /\ console.pc \notin {"loop", "visit", "exited", "undefined"}
-----------------------------------------------------------------------------
(* The main thread.                                                        *)

At(p) == console.pc = p

Goto(p) == console' = [console EXCEPT !.pc = p]

\* Defect: k++ without k % clients.
SuccessorUnbounded(k) == k + 1

Successor(k) == IF k + 1 = Clients THEN 0 ELSE k + 1

\* The next connection, of the first round or of the loop.
Proceed ==
  LET k == Successor(console.k) IN
  console' = IF console.startup /\ console.k # OuterClients - 1
             THEN [pc |-> "create", k |-> k, startup |-> TRUE]
             ELSE [pc |-> "loop", k |-> IF console.startup THEN 0 ELSE k,
                   startup |-> FALSE]

\* icedemo_create_instance, which fails if there is an instance.  An inner one
\* has no candidate to wait for.
Create ==
  /\ At("create")
  /\ IF icest[console.k] THEN UNCHANGED strans /\ Goto("exited")
     ELSE /\ strans' = [strans EXCEPT ![console.k] =
                          [state |-> "init", called |-> FALSE, remote |-> None,
                           id |-> 0, relay |-> IF console.k \in Outer
                                               THEN "pending" ELSE "none"]]
          /\ Goto("assign")
  /\ UNCHANGED <<icest, sdpInfo, stopFlag>>

\* sess_init_update without pending candidates.
Gathered(o) ==
  IF o.called \/ o.relay = "pending" THEN o
  ELSE [o EXCEPT !.called = TRUE, !.state = "ready"]

\* Defect: an inner connection, for which no event will come, is not told that
\* it is complete.
AssignOnly ==
  /\ At("assign")
  /\ IF Live(console.k)
     THEN icest' = [icest EXCEPT ![console.k] = TRUE] /\ Goto("identify")
     ELSE UNCHANGED icest /\ Goto("undefined")
  /\ UNCHANGED <<strans, sdpInfo, stopFlag>>

\* The end of pj_ice_strans_create, which looks at the candidates and stores the
\* pointer.
Assign ==
  /\ At("assign")
  /\ IF Live(console.k)
     THEN /\ icest' = [icest EXCEPT ![console.k] = TRUE]
          /\ strans' = [strans EXCEPT ![console.k] = Gathered(@)]
          /\ Goto("identify")
     ELSE UNCHANGED <<icest, strans>> /\ Goto("undefined")
  /\ UNCHANGED <<sdpInfo, stopFlag>>

\* Defect: the instance keeps peer_id 0.
IdentifyNot ==
  /\ At("identify")
  /\ Goto("lookReady")
  /\ UNCHANGED <<icest, strans, sdpInfo, stopFlag>>

\* tshome_set_peer_id.
Identify ==
  /\ At("identify")
  /\ IF icest[console.k] /\ Live(console.k)
     THEN /\ strans' = [strans EXCEPT ![console.k].id = console.k]
          /\ Goto("lookReady")
     ELSE UNCHANGED strans /\ Goto("undefined")
  /\ UNCHANGED <<icest, sdpInfo, stopFlag>>

\* A loop that waits for a state reads the pointer, which leads to on_error if
\* it is NULL, and then the state through it.
Look(look, read) ==
  /\ At(look)
  /\ Goto(IF icest[console.k] THEN read ELSE "exited")
  /\ UNCHANGED <<icest, strans, sdpInfo, stopFlag>>

Read(look, read, state, next) ==
  /\ At(read)
  /\ Goto(CASE ~(icest[console.k] /\ Live(console.k)) -> "undefined"
            [] strans[console.k].state = state -> next
            [] OTHER -> look)
  /\ UNCHANGED <<icest, strans, sdpInfo, stopFlag>>

WaitReady ==
  \/ Look("lookReady", "readReady")
  \/ Read("lookReady", "readReady", "ready", "init")

WaitSession ==
  \/ Look("lookSess", "readSess")
  \/ Read("lookSess", "readSess", "sess", "announce")

\* icedemo_init_session, which fails if there is no instance or if it has a
\* session.  An inner connection is complete with it.
InitSession ==
  /\ At("init")
  /\ IF icest[console.k] /\ Live(console.k) /\ ~HasSess(console.k)
     THEN /\ strans' = [strans EXCEPT ![console.k].state = "sess"]
          /\ IF console.k \in Outer THEN Goto("lookSess") ELSE Proceed
     ELSE /\ UNCHANGED strans
          /\ Goto(IF icest[console.k] => Live(console.k) THEN "exited"
                                                        ELSE "undefined")
  /\ UNCHANGED <<icest, sdpInfo, stopFlag>>

\* The SDP goes to the server.
Announce ==
  /\ At("announce")
  /\ IF icest[console.k] THEN Proceed ELSE Goto("exited")
  /\ UNCHANGED <<icest, strans, sdpInfo, stopFlag>>

\* pj_ice_strans_create or the sending fails.
ConsoleError ==
  /\ At("create") \/ At("announce")
  /\ Goto("exited")
  /\ UNCHANGED <<icest, strans, sdpInfo, stopFlag>>

\* Defect: the server's connection is not looked at.
LoopStopOnly ==
  /\ At("loop")
  /\ Goto(IF stopFlag THEN "exited" ELSE "visit")
  /\ UNCHANGED <<icest, strans, sdpInfo, stopFlag>>

Loop ==
  /\ At("loop")
  /\ Goto(IF ~icest[0] \/ stopFlag THEN "exited" ELSE "visit")
  /\ UNCHANGED <<icest, strans, sdpInfo, stopFlag>>

\* Defect: inner connections are not restarted.
VisitOuter ==
  /\ At("visit")
  /\ IF icest[console.k] \/ console.k = 0 \/ console.k \notin Outer
     THEN Proceed ELSE Goto("create")
  /\ UNCHANGED <<icest, strans, sdpInfo, stopFlag>>

Visit ==
  /\ At("visit")
  /\ IF icest[console.k] \/ console.k = 0 THEN Proceed ELSE Goto("create")
  /\ UNCHANGED <<icest, strans, sdpInfo, stopFlag>>

Console ==
  \/ Create \/ Assign \/ Identify \/ WaitReady \/ InitSession \/ WaitSession
  \/ Announce \/ Loop \/ Visit
-----------------------------------------------------------------------------
(* The worker thread of k.                                                 *)

\* cb_on_ice_complete with a failure: the object is destroyed and the pointer
\* of the connection that it names is cleared, of connection 0 if it was not yet
\* told its number.
Fail(k) ==
  /\ icest' = [icest EXCEPT ![strans[k].id] = FALSE]
  /\ strans' = [strans EXCEPT ![k] = None]

\* The thread runs from the moment the sockets of the instance are made, while
\* the main thread is still in pj_ice_strans_create.
Works(k) == ~Over /\ Live(k)

RelayUp(k) ==
  /\ Works(k)
  /\ strans[k].relay = "pending"
  /\ strans' = [strans EXCEPT ![k] = Gathered([@ EXCEPT !.relay = "up"])]
  /\ UNCHANGED <<icest, sdpInfo, console, stopFlag>>

\* turn_on_state: sess_fail is silent in state INIT once cb_called is set.  The
\* main thread itself calls it when the allocation fails at once.
RelayLost(k) ==
  /\ Works(k)
  /\ strans[k].relay # "none"
  /\ IF strans[k].state = "init" /\ strans[k].called
     THEN strans' = [strans EXCEPT ![k].relay = "none"] /\ UNCHANGED icest
     ELSE Fail(k)
  /\ UNCHANGED <<sdpInfo, console, stopFlag>>

\* pj_ice_strans_start_ice: the negotiation starts, or there is no check list,
\* or stop_ice follows since a permission or the first check fails.
Start(o, s) == {[o EXCEPT !.state = "nego", !.remote = s],
                [o EXCEPT !.state = "sess", !.remote = None],
                [o EXCEPT !.state = "init", !.remote = None]}

\* The server sends an SDPL once the SDP of the connection was announced; a
\* terminal in the house sends an SDPIL to a port that is always the same, at
\* any time.
Reachable(k) == k \in Outer => strans[k].relay = "up" /\ ~Creating(k)

\* Defect: the session of the last SDP is not stopped; init_session fails.
SdpNoStop(k, s) ==
  LET j == strans[k].id IN
  /\ Works(k) /\ k # 0 /\ Reachable(k)
  /\ s # sdpInfo[j]
  /\ sdpInfo' = [sdpInfo EXCEPT ![j] = s]
  /\ IF icest[j] /\ HasSess(j) /\ sdpInfo[j] = None
     THEN \E o \in Start(strans[j], s) : strans' = [strans EXCEPT ![j] = o]
     ELSE UNCHANGED strans
  /\ UNCHANGED <<icest, console, stopFlag>>

\* cb_on_rx_data with SDPL or SDPIL, for the connection that the instance names.
\* A description that differs from the last one is stored; if there was one the
\* session is stopped and made anew, else the session that there is, if there
\* is one, is started.
Sdp(k, s) ==
  LET j == strans[k].id IN
  /\ Works(k) /\ k # 0 /\ Reachable(k)
  /\ s # sdpInfo[j]
  /\ sdpInfo' = [sdpInfo EXCEPT ![j] = s]
  /\ IF icest[j] /\ Live(j) /\ (HasSess(j) \/ sdpInfo[j] # None)
     THEN \E o \in Start(strans[j], s) : strans' = [strans EXCEPT ![j] = o]
     ELSE UNCHANGED strans
  /\ IF icest[j] => Live(j) THEN UNCHANGED console ELSE Goto("undefined")
  /\ UNCHANGED <<icest, stopFlag>>

Negotiated(k) ==
  /\ Works(k)
  /\ strans[k].state = "nego"
  /\ strans' = [strans EXCEPT ![k].state = "running"]
  /\ UNCHANGED <<icest, sdpInfo, console, stopFlag>>

NegotiationFails(k) ==
  /\ Works(k)
  /\ strans[k].state = "nego"
  /\ Fail(k)
  /\ UNCHANGED <<sdpInfo, console, stopFlag>>

\* The report thread: the server refuses the gateway for good.
StopHost ==
  /\ ~Over
  /\ ~stopFlag
  /\ stopFlag' = TRUE
  /\ UNCHANGED <<icest, strans, sdpInfo, console>>

Relay(k) == RelayUp(k) \/ RelayLost(k)

Worker(k) ==
  \/ Relay(k) \/ Negotiated(k) \/ NegotiationFails(k)
  \/ \E s \in Sdps : Sdp(k, s)

Next == Console \/ ConsoleError \/ StopHost \/ \E k \in Ks : Worker(k)

Spec == Init /\ [][Next]_vars

\* The main thread is scheduled; a TURN allocation is granted or given up by
\* the retransmission timer of its request.
FairSpec ==
  /\ Spec
  /\ WF_vars(Console)
  /\ \A k \in Outer : WF_vars(Relay(k) /\ strans[k].relay = "pending")
-----------------------------------------------------------------------------
(* What makes the connections correct.                                     *)

\* The instance that the main thread makes was destroyed before it was told its
\* number: it took the pointer of connection 0 with it, and the next thing that
\* the main thread does is to use it.
DestroyedUnnamed ==
  console.pc \in {"assign", "identify"} /\ ~Live(console.k)

\* The pointer that tells the main thread whether to restart a connection
\* agrees with the object, whichever callback destroyed it and when: a failure
\* clears the pointer of its own connection (cb_on_ice_complete).  Only an
\* instance that fails before it is told its number (icedemo_create_instance)
\* clears another one, that of the server, and the main thread does not get to
\* act on that.
PointersFollowObjects ==
  \A k \in Ks : ~Over /\ ~Creating(k) =>
    /\ icest[k] => Live(k)
    /\ Live(k) => icest[k] \/ (k = 0 /\ DestroyedUnnamed)

\* "When flag == 1, we first destroy the old session, then start new session"
\* (cb_on_rx_data): who negotiates or talks does so with the description that
\* came last, however often the instance was destroyed and created.
TalksToTheLast ==
  \A k \in Ks :
    icest[k] /\ Live(k) /\ strans[k].state \in {"nego", "running"} =>
      strans[k].remote = sdpInfo[k] /\ sdpInfo[k] # None

\* A description, which is not the first that the connection got, has started or
\* stopped the session of an inner instance that was READY.
Overtaken(k) ==
  /\ k \notin Outer /\ sdpInfo[k] # None
  /\ HasSess(k) \/ (strans[k].state = "init" /\ strans[k].called)

\* The main thread polls for a state without looking at anything else, the
\* server's connection included (icedemo_console): what it polls for is there or
\* will come with the relay, and neither a lost relay nor a description takes
\* it away without clearing the pointer, which ends the loop.  The one exception
\* is an inner instance, whose socket terminals reach before its session is made:
\* a description takes READY away and it does not come back.
AwaitedComes ==
  LET o == strans[console.k] IN
  icest[console.k] /\ Live(console.k) =>
    /\ At("lookReady") \/ At("readReady") =>
         \/ o.state = "ready"
         \/ o.state = "init" /\ o.relay = "pending" /\ ~o.called
         \/ Overtaken(console.k)
    /\ At("lookSess") \/ At("readSess") => o.state = "sess"

\* The main thread polls for the READY of an instance that was overtaken.
PollsInVain ==
  console.pc \in {"lookReady", "readReady"} /\ Live(console.k) /\ Overtaken(console.k)

\* "if the first connection between server and host is destroyed, we will exit
\* this function" (icedemo_console): the process ends, to be restarted by its
\* monitor, also when it is at work on another connection, or has used a freed
\* instance; nothing but an overtaken inner instance keeps it from that.
ServerGoneExits ==
  ~console.startup /\ (~icest[0] \/ stopFlag) ~> Over \/ PollsInVain

\* "if other connection between server and host is destroyed, we will restart
\* them" (icedemo_console), with the same exception.
DestroyedIsRestarted ==
  \A k \in Ks \ {0} :
    ~console.startup /\ ~icest[k] ~> HasSess(k) \/ Over \/ PollsInVain
=============================================================================
