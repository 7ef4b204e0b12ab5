----------------------- MODULE HostConnectionsProofs -----------------------
(* Proofs about HostConnections, for every number of connections and of    *)
(* session descriptions, with callbacks at any time of the creation.       *)
EXTENDS HostConnections, TLAPS

\* The pointer is stored only after pj_ice_strans_create made its object anew,
\* and until then nobody can have started a negotiation on it.
AssignedFresh ==
  console.pc = "assign" =>
    /\ ~icest[console.k]
    /\ Live(console.k) => strans[console.k].state \in {"init", "ready"}

IInv == TypeOK /\ TalksToTheLast /\ AssignedFresh

\* Moves of the main thread within a round, and the records they make.
LEMMA GotoType ==
  ASSUME TypeOK, NEW p \in Places, Goto(p)
  PROVE  /\ console' \in [pc : Places, k : Ks, startup : BOOLEAN]
         /\ console'.pc = p /\ console'.k = console.k
BY DEF TypeOK, Goto

LEMMA ProceedType ==
  ASSUME TypeOK, Proceed
  PROVE  /\ console' \in [pc : Places, k : Ks, startup : BOOLEAN]
         /\ console'.pc # "assign"
<1>1. 0 \in Ks /\ Successor(console.k) \in Ks
  BY ClientsAssumption DEF TypeOK, Ks, Successor
<1>2. console.startup \in BOOLEAN
  BY DEF TypeOK
<1>. QED BY <1>1, <1>2 DEF Proceed, Places

LEMMA GatheredType ==
  ASSUME NEW o \in Objects
  PROVE  /\ Gathered(o) \in Objects
         /\ Gathered(o).remote = o.remote
         /\ Gathered(o).state \in {o.state, "ready"}
BY DEF Gathered, Objects

LEMMA StartType ==
  ASSUME NEW o \in Objects, NEW s \in Sdps, NEW p \in Start(o, s)
  PROVE  /\ p \in Objects
         /\ p.state \in {"nego", "running"} => p.remote = s
BY DEF Start, Objects

\* A change of one object that neither starts a negotiation nor, while one is
\* on, changes with whom keeps the invariant on the objects.
LEMMA ObjectChanged ==
  ASSUME IInv, NEW k \in Ks, NEW o \in Objects,
         strans' = [strans EXCEPT ![k] = o],
         UNCHANGED <<icest, sdpInfo>>,
         o.state \in {"nego", "running"} =>
           /\ Live(k) /\ strans[k].state \in {"nego", "running"}
           /\ strans[k].remote = o.remote
  PROVE  /\ strans' \in [Ks -> Objects \cup {None}]
         /\ TalksToTheLast'
<1>1. strans' \in [Ks -> Objects \cup {None}]
  BY DEF IInv, TypeOK
<1>2. TalksToTheLast'
  BY DEF IInv, TypeOK, TalksToTheLast, Live
<1>. QED BY <1>1, <1>2

\* Destroying an object and clearing a pointer.
LEMMA FailKeeps ==
  ASSUME IInv, NEW k \in Ks, Live(k), Fail(k), UNCHANGED <<sdpInfo, console>>
  PROVE  /\ icest' \in [Ks -> BOOLEAN]
         /\ strans' \in [Ks -> Objects \cup {None}]
         /\ TalksToTheLast' /\ AssignedFresh'
<1>1. strans[k].id \in Ks
  BY DEF IInv, TypeOK, Live, Objects
<1>2. /\ icest' \in [Ks -> BOOLEAN]
      /\ strans' \in [Ks -> Objects \cup {None}]
      /\ \A j \in Ks : icest'[j] => icest[j]
      /\ \A j \in Ks : strans'[j] # None => strans'[j] = strans[j]
  BY <1>1 DEF IInv, TypeOK, Fail
<1>3. TalksToTheLast'
  BY <1>2 DEF IInv, TalksToTheLast, Live
<1>4. AssignedFresh'
  BY <1>2 DEF IInv, TypeOK, AssignedFresh, Live
<1>. QED BY <1>2, <1>3, <1>4

LEMMA InitIInv == Init => IInv
<1>. SUFFICES ASSUME Init PROVE IInv
  OBVIOUS
<1>1. 0 \in Ks /\ OuterClients \in Nat /\ Clients \in Nat
  BY ClientsAssumption DEF Ks
<1>2. console.k \in Ks
  BY <1>1, ClientsAssumption DEF Init, Ks
<1>3. TypeOK
  BY <1>2 DEF Init, TypeOK, Places
<1>. QED BY <1>3 DEF IInv, Init, TalksToTheLast, AssignedFresh
-----------------------------------------------------------------------------
(* The main thread keeps the invariant.                                    *)

LEMMA CreateKeeps == IInv /\ Create => IInv'
<1>. SUFFICES ASSUME IInv, Create PROVE IInv'
  OBVIOUS
<1>0. console.k \in Ks
  BY DEF IInv, TypeOK
<1>1. CASE icest[console.k]
  <2>1. Goto("exited") /\ UNCHANGED <<icest, strans, sdpInfo, stopFlag>>
    BY <1>1 DEF Create
  <2>2. console' \in [pc : Places, k : Ks, startup : BOOLEAN]
        /\ console'.pc = "exited"
    BY <2>1, GotoType DEF IInv, Places
  <2>. QED BY <2>1, <2>2 DEF IInv, TypeOK, TalksToTheLast, AssignedFresh, Live
<1>2. CASE ~icest[console.k]
  <2>. DEFINE o == [state |-> "init", called |-> FALSE, remote |-> None,
                    id |-> 0, relay |-> IF console.k \in Outer
                                        THEN "pending" ELSE "none"]
  <2>1. /\ strans' = [strans EXCEPT ![console.k] = o]
        /\ Goto("assign") /\ UNCHANGED <<icest, sdpInfo, stopFlag>>
    BY <1>2 DEF Create
  <2>2. 0 \in Ks
    BY ClientsAssumption DEF Ks
  <2>3. o \in Objects /\ o.state = "init"
    BY <2>2 DEF Objects
  <2>. HIDE DEF o
  <2>4. console' \in [pc : Places, k : Ks, startup : BOOLEAN]
        /\ console'.k = console.k
    BY <2>1, GotoType DEF IInv, Places
  <2>5. strans' \in [Ks -> Objects \cup {None}] /\ TalksToTheLast'
    BY <1>0, <2>1, <2>3, ObjectChanged
  <2>6. TypeOK'
    BY <2>1, <2>4, <2>5 DEF IInv, TypeOK
  <2>7. strans'[console.k] = o
    BY <1>0, <2>1 DEF IInv, TypeOK
  <2>8. AssignedFresh'
    BY <1>2, <2>1, <2>3, <2>4, <2>7 DEF AssignedFresh, Live
  <2>. QED BY <2>5, <2>6, <2>8 DEF IInv
<1>. QED BY <1>1, <1>2

LEMMA AssignKeeps == IInv /\ Assign => IInv'
<1>. SUFFICES ASSUME IInv, Assign PROVE IInv'
  OBVIOUS
<1>0. PICK c \in Ks : c = console.k
  BY DEF IInv, TypeOK
<1>a. CASE ~Live(c)
  <2>1. Goto("undefined") /\ UNCHANGED <<icest, strans, sdpInfo, stopFlag>>
    BY <1>0, <1>a DEF Assign
  <2>2. console' \in [pc : Places, k : Ks, startup : BOOLEAN]
        /\ console'.pc = "undefined"
    BY <2>1, GotoType DEF IInv, Places
  <2>. QED BY <2>1, <2>2 DEF IInv, TypeOK, TalksToTheLast, AssignedFresh, Live
<1>b. SUFFICES ASSUME Live(c) PROVE IInv'
  BY <1>a
<1>1. /\ icest' = [icest EXCEPT ![c] = TRUE]
      /\ strans' = [strans EXCEPT ![c] = Gathered(strans[c])]
      /\ Goto("identify") /\ UNCHANGED <<sdpInfo, stopFlag>>
  BY <1>0, <1>b DEF Assign
<1>2. console' \in [pc : Places, k : Ks, startup : BOOLEAN]
      /\ console'.pc = "identify"
  BY <1>1, GotoType DEF IInv, Places
<1>3. strans[c] \in Objects /\ strans[c].state \in {"init", "ready"}
  BY <1>0, <1>b DEF IInv, TypeOK, AssignedFresh, Assign, At, Live
<1>4. /\ Gathered(strans[c]) \in Objects
      /\ Gathered(strans[c]).state \in {"init", "ready"}
  BY <1>3, GatheredType
<1>5. TypeOK'
  BY <1>1, <1>2, <1>4 DEF IInv, TypeOK, Live
<1>6. ASSUME NEW j \in Ks, icest'[j], strans'[j] # None,
             strans'[j].state \in {"nego", "running"}
      PROVE  strans'[j].remote = sdpInfo'[j] /\ sdpInfo'[j] # None
  <2>1. CASE j = c
    BY <1>1, <1>4, <1>6, <2>1 DEF IInv, TypeOK, Live
  <2>2. CASE j # c
    BY <1>1, <1>6, <2>2 DEF IInv, TypeOK, TalksToTheLast, Live
  <2>. QED BY <2>1, <2>2
<1>7. TalksToTheLast'
  BY <1>6 DEF TalksToTheLast, Live
<1>. QED BY <1>2, <1>5, <1>7 DEF IInv, AssignedFresh

LEMMA IdentifyKeeps == IInv /\ Identify => IInv'
<1>. SUFFICES ASSUME IInv, Identify PROVE IInv'
  OBVIOUS
<1>0. PICK c \in Ks : c = console.k
  BY DEF IInv, TypeOK
<1>1. CASE icest[c] /\ Live(c)
  <2>. DEFINE o == [strans[c] EXCEPT !.id = c]
  <2>1. /\ strans' = [strans EXCEPT ![c] = o]
        /\ Goto("lookReady") /\ UNCHANGED <<icest, sdpInfo, stopFlag>>
    BY <1>0, <1>1 DEF Identify
  <2>2. /\ o \in Objects
        /\ o.state = strans[c].state /\ o.remote = strans[c].remote
    BY <1>1 DEF IInv, TypeOK, Live, Objects
  <2>. HIDE DEF o
  <2>3. console' \in [pc : Places, k : Ks, startup : BOOLEAN]
        /\ console'.pc = "lookReady"
    BY <2>1, GotoType DEF IInv, Places
  <2>4. strans' \in [Ks -> Objects \cup {None}] /\ TalksToTheLast'
    BY <1>1, <2>1, <2>2, ObjectChanged
  <2>. QED BY <2>1, <2>3, <2>4 DEF IInv, TypeOK, AssignedFresh
<1>2. CASE ~(icest[c] /\ Live(c))
  <2>1. Goto("undefined") /\ UNCHANGED <<icest, strans, sdpInfo, stopFlag>>
    BY <1>0, <1>2 DEF Identify
  <2>2. console' \in [pc : Places, k : Ks, startup : BOOLEAN]
        /\ console'.pc = "undefined"
    BY <2>1, GotoType DEF IInv, Places
  <2>. QED BY <2>1, <2>2 DEF IInv, TypeOK, TalksToTheLast, AssignedFresh, Live
<1>. QED BY <1>1, <1>2

LEMMA InitSessionKeeps == IInv /\ InitSession => IInv'
<1>. SUFFICES ASSUME IInv, InitSession PROVE IInv'
  OBVIOUS
<1>0. PICK c \in Ks : c = console.k
  BY DEF IInv, TypeOK
<1>1. CASE icest[c] /\ Live(c) /\ ~HasSess(c)
  <2>1. /\ strans' = [strans EXCEPT ![c].state = "sess"]
        /\ UNCHANGED <<icest, sdpInfo, stopFlag>>
        /\ Goto("lookSess") \/ Proceed
    BY <1>0, <1>1 DEF InitSession
  <2>2. console' \in [pc : Places, k : Ks, startup : BOOLEAN]
        /\ console'.pc # "assign"
    <3>1. CASE Goto("lookSess")
      BY <3>1, GotoType DEF IInv, Places
    <3>2. CASE Proceed
      BY <3>2, ProceedType DEF IInv
    <3>. QED BY <2>1, <3>1, <3>2
  <2>. DEFINE o == [strans[c] EXCEPT !.state = "sess"]
  <2>3. o \in Objects /\ o.state = "sess"
    BY <1>1 DEF IInv, TypeOK, Live, Objects
  <2>4. strans' = [strans EXCEPT ![c] = o]
    BY <2>1
  <2>. HIDE DEF o
  <2>5. strans' \in [Ks -> Objects \cup {None}] /\ TalksToTheLast'
    BY <2>1, <2>3, <2>4, ObjectChanged
  <2>. QED BY <2>1, <2>2, <2>5 DEF IInv, TypeOK, AssignedFresh
<1>2. CASE ~(icest[c] /\ Live(c) /\ ~HasSess(c))
  <2>1. /\ UNCHANGED <<icest, strans, sdpInfo, stopFlag>>
        /\ Goto("exited") \/ Goto("undefined")
    BY <1>0, <1>2 DEF InitSession
  <2>2. console' \in [pc : Places, k : Ks, startup : BOOLEAN]
        /\ console'.pc # "assign"
    <3>1. CASE Goto("exited")
      BY <3>1, GotoType DEF IInv, Places
    <3>2. CASE Goto("undefined")
      BY <3>2, GotoType DEF IInv, Places
    <3>. QED BY <2>1, <3>1, <3>2
  <2>. QED BY <2>1, <2>2 DEF IInv, TypeOK, TalksToTheLast, AssignedFresh, Live
<1>. QED BY <1>1, <1>2

\* The steps that only move: Look, Read, Loop, Visit, Announce, the errors.
LEMMA MoveKeeps ==
  ASSUME IInv, UNCHANGED <<icest, strans, sdpInfo, stopFlag>>,
         Proceed \/ \E p \in Places \ {"assign"} : Goto(p)
  PROVE  IInv'
<1>1. console' \in [pc : Places, k : Ks, startup : BOOLEAN]
      /\ console'.pc # "assign"
  <2>1. CASE Proceed
    BY <2>1, ProceedType DEF IInv
  <2>2. ASSUME NEW p \in Places \ {"assign"}, Goto(p)
        PROVE  console' \in [pc : Places, k : Ks, startup : BOOLEAN]
               /\ console'.pc # "assign"
    BY <2>2, GotoType DEF IInv
  <2>. QED BY <2>1, <2>2
<1>. QED BY <1>1 DEF IInv, TypeOK, TalksToTheLast, AssignedFresh, Live

LEMMA MovesMove ==
  ASSUME IInv,
         WaitReady \/ WaitSession \/ Announce \/ Loop \/ Visit \/ ConsoleError
  PROVE  /\ UNCHANGED <<icest, strans, sdpInfo, stopFlag>>
         /\ Proceed \/ \E p \in Places \ {"assign"} : Goto(p)
<1>1. ASSUME NEW a \in {"lookReady", "lookSess"}, NEW b \in Places \ {"assign"},
             Look(a, b)
      PROVE  \E p \in Places \ {"assign"} : Goto(p)
  BY <1>1 DEF Look, Places
<1>2. ASSUME NEW a \in {"lookReady", "lookSess"}, NEW b \in {"readReady", "readSess"},
             NEW st, NEW d \in {"init", "announce"}, Read(a, b, st, d)
      PROVE  \E p \in Places \ {"assign"} : Goto(p)
  <2>1. \/ Goto("undefined") \/ Goto(d) \/ Goto(a)
    BY <1>2 DEF Read
  <2>. QED BY <2>1 DEF Places
<1>3. CASE WaitReady
  <2>1. \/ Look("lookReady", "readReady")
        \/ Read("lookReady", "readReady", "ready", "init")
    BY <1>3 DEF WaitReady
  <2>2. \E p \in Places \ {"assign"} : Goto(p)
    BY <1>1, <1>2, <2>1 DEF Places
  <2>. QED BY <2>1, <2>2 DEF Look, Read
<1>4. CASE WaitSession
  <2>1. \/ Look("lookSess", "readSess")
        \/ Read("lookSess", "readSess", "sess", "announce")
    BY <1>4 DEF WaitSession
  <2>2. \E p \in Places \ {"assign"} : Goto(p)
    BY <1>1, <1>2, <2>1 DEF Places
  <2>. QED BY <2>1, <2>2 DEF Look, Read
<1>5. CASE Announce
  BY <1>5 DEF Announce, Places
<1>6. CASE Loop
  BY <1>6 DEF Loop, Places
<1>7. CASE Visit
  BY <1>7 DEF Visit, Places
<1>8. CASE ConsoleError
  BY <1>8 DEF ConsoleError, Places
<1>. QED BY <1>3, <1>4, <1>5, <1>6, <1>7, <1>8

LEMMA ConsoleKeeps == IInv /\ (Console \/ ConsoleError) => IInv'
<1>. SUFFICES ASSUME IInv, Console \/ ConsoleError PROVE IInv'
  OBVIOUS
<1>1. CASE WaitReady \/ WaitSession \/ Announce \/ Loop \/ Visit \/ ConsoleError
  BY <1>1, MovesMove, MoveKeeps
<1>. QED BY <1>1, CreateKeeps, AssignKeeps, IdentifyKeeps, InitSessionKeeps
         DEF Console
-----------------------------------------------------------------------------
(* The worker threads keep the invariant.                                  *)

LEMMA RelayKeeps ==
  ASSUME IInv, NEW k \in Ks, Relay(k)
  PROVE  IInv'
<1>0. Works(k) /\ Live(k) /\ strans[k] \in Objects
  BY DEF Relay, RelayUp, RelayLost, Works, Live, IInv, TypeOK
<1>1. ASSUME NEW o \in Objects,
             strans' = [strans EXCEPT ![k] = o],
             UNCHANGED <<icest, sdpInfo, console, stopFlag>>,
             o.state \in {strans[k].state, "ready"},
             o.remote = strans[k].remote
      PROVE  IInv'
  <2>1. strans' \in [Ks -> Objects \cup {None}] /\ TalksToTheLast'
    BY <1>0, <1>1, ObjectChanged DEF Objects
  <2>2. AssignedFresh'
    BY <1>0, <1>1 DEF IInv, TypeOK, AssignedFresh, Live
  <2>. QED BY <1>1, <2>1, <2>2 DEF IInv, TypeOK
<1>2. CASE RelayUp(k)
  <2>. DEFINE q == [strans[k] EXCEPT !.relay = "up"]
  <2>1. q \in Objects /\ q.state = strans[k].state /\ q.remote = strans[k].remote
    BY <1>0 DEF Objects
  <2>2. /\ strans' = [strans EXCEPT ![k] = Gathered(q)]
        /\ UNCHANGED <<icest, sdpInfo, console, stopFlag>>
    BY <1>2 DEF RelayUp
  <2>. HIDE DEF q
  <2>3. /\ Gathered(q) \in Objects
        /\ Gathered(q).state \in {strans[k].state, "ready"}
        /\ Gathered(q).remote = strans[k].remote
    BY <2>1, GatheredType
  <2>. QED BY <1>1, <2>2, <2>3
<1>3. CASE RelayLost(k)
  <2>1. CASE strans[k].state = "init" /\ strans[k].called
    <3>. DEFINE o == [strans[k] EXCEPT !.relay = "none"]
    <3>1. o \in Objects /\ o.state = strans[k].state /\ o.remote = strans[k].remote
      BY <1>0 DEF Objects
    <3>2. /\ strans' = [strans EXCEPT ![k] = o]
          /\ UNCHANGED <<icest, sdpInfo, console, stopFlag>>
      BY <1>3, <2>1 DEF RelayLost
    <3>. HIDE DEF o
    <3>. QED BY <1>1, <3>1, <3>2
  <2>2. CASE ~(strans[k].state = "init" /\ strans[k].called)
    <3>1. Fail(k) /\ UNCHANGED <<sdpInfo, console, stopFlag>>
      BY <1>3, <2>2 DEF RelayLost
    <3>. QED BY <1>0, <3>1, FailKeeps DEF IInv, TypeOK
  <2>. QED BY <2>1, <2>2
<1>. QED BY <1>2, <1>3 DEF Relay

LEMMA SdpKeeps ==
  ASSUME IInv, NEW k \in Ks, NEW s \in Sdps, Sdp(k, s)
  PROVE  IInv'
<1>1. PICK j \in Ks : j = strans[k].id
  BY DEF Sdp, Works, Live, IInv, TypeOK, Objects
<1>2. /\ sdpInfo' = [sdpInfo EXCEPT ![j] = s]
      /\ UNCHANGED <<icest, stopFlag>>
  BY <1>1 DEF Sdp
<1>3. s # None
  BY ClientsAssumption
<1>4. sdpInfo' \in [Ks -> Sdps \cup {None}] /\ sdpInfo'[j] = s
  BY <1>2 DEF IInv, TypeOK
<1>5. /\ console' \in [pc : Places, k : Ks, startup : BOOLEAN]
      /\ console'.pc = "assign" => console' = console
  <2>1. CASE UNCHANGED console
    BY <2>1 DEF IInv, TypeOK
  <2>2. CASE Goto("undefined")
    BY <2>2, GotoType DEF IInv, Places
  <2>. QED BY <1>1, <2>1, <2>2 DEF Sdp
<1>6. CASE icest[j] /\ Live(j) /\ (HasSess(j) \/ sdpInfo[j] # None)
  <2>1. PICK o \in Start(strans[j], s) : strans' = [strans EXCEPT ![j] = o]
    BY <1>1, <1>6 DEF Sdp
  <2>2. strans[j] \in Objects
    BY <1>6 DEF IInv, TypeOK, Live
  <2>3. o \in Objects /\ (o.state \in {"nego", "running"} => o.remote = s)
    BY <2>1, <2>2, StartType
  <2>4. strans' \in [Ks -> Objects \cup {None}] /\ strans'[j] = o
    BY <2>1, <2>3 DEF IInv, TypeOK
  <2>5. TypeOK'
    BY <1>2, <1>4, <1>5, <2>4 DEF IInv, TypeOK
  <2>6. ASSUME NEW i \in Ks, icest'[i], strans'[i] # None,
               strans'[i].state \in {"nego", "running"}
        PROVE  strans'[i].remote = sdpInfo'[i] /\ sdpInfo'[i] # None
    <3>1. CASE i = j
      BY <1>3, <1>4, <2>3, <2>4, <2>6, <3>1
    <3>2. CASE i # j
      BY <1>2, <2>1, <2>6, <3>2 DEF IInv, TypeOK, TalksToTheLast, Live
    <3>. QED BY <3>1, <3>2
  <2>7. TalksToTheLast'
    BY <2>6 DEF TalksToTheLast, Live
  <2>8. AssignedFresh'
    BY <1>2, <1>5, <1>6, <2>1 DEF IInv, TypeOK, AssignedFresh, Live
  <2>. QED BY <2>5, <2>7, <2>8 DEF IInv
<1>7. CASE ~(icest[j] /\ Live(j) /\ (HasSess(j) \/ sdpInfo[j] # None))
  <2>1. UNCHANGED strans
    BY <1>1, <1>7 DEF Sdp
  <2>2. TypeOK'
    BY <1>2, <1>4, <1>5, <2>1 DEF IInv, TypeOK
  <2>3. TalksToTheLast'
    BY <1>2, <1>7, <2>1 DEF IInv, TypeOK, TalksToTheLast, HasSess, Live
  <2>4. AssignedFresh'
    BY <1>2, <1>5, <2>1 DEF IInv, AssignedFresh, Live
  <2>. QED BY <2>2, <2>3, <2>4 DEF IInv
<1>. QED BY <1>6, <1>7

LEMMA WorkerKeeps ==
  ASSUME IInv, NEW k \in Ks, Worker(k)
  PROVE  IInv'
<1>1. CASE Relay(k)
  BY <1>1, RelayKeeps
<1>2. CASE \E s \in Sdps : Sdp(k, s)
  BY <1>2, SdpKeeps
<1>3. CASE Negotiated(k)
  <2>. DEFINE o == [strans[k] EXCEPT !.state = "running"]
  <2>1. Live(k) /\ strans[k] \in Objects /\ strans[k].state = "nego"
    BY <1>3 DEF Negotiated, Works, Live, IInv, TypeOK
  <2>2. o \in Objects /\ o.state = "running" /\ o.remote = strans[k].remote
    BY <2>1 DEF Objects
  <2>3. /\ strans' = [strans EXCEPT ![k] = o]
        /\ UNCHANGED <<icest, sdpInfo, console, stopFlag>>
    BY <1>3 DEF Negotiated
  <2>. HIDE DEF o
  <2>4. strans' \in [Ks -> Objects \cup {None}] /\ TalksToTheLast'
    BY <2>1, <2>2, <2>3, ObjectChanged
  <2>5. AssignedFresh'
    BY <2>1, <2>3 DEF IInv, TypeOK, AssignedFresh, Live
  <2>. QED BY <2>3, <2>4, <2>5 DEF IInv, TypeOK
<1>4. CASE NegotiationFails(k)
  <2>1. Live(k) /\ Fail(k) /\ UNCHANGED <<sdpInfo, console, stopFlag>>
    BY <1>4 DEF NegotiationFails, Works
  <2>. QED BY <2>1, FailKeeps DEF IInv, TypeOK
<1>. QED BY <1>1, <1>2, <1>3, <1>4 DEF Worker

LEMMA NextKeeps == IInv /\ [Next]_vars => IInv'
<1>. SUFFICES ASSUME IInv, [Next]_vars PROVE IInv'
  OBVIOUS
<1>1. CASE Console \/ ConsoleError
  BY <1>1, ConsoleKeeps
<1>2. CASE StopHost
  BY <1>2 DEF StopHost, IInv, TypeOK, TalksToTheLast, AssignedFresh, Live
<1>3. CASE \E k \in Ks : Worker(k)
  BY <1>3, WorkerKeeps
<1>4. CASE UNCHANGED vars
  BY <1>4 DEF vars, IInv, TypeOK, TalksToTheLast, AssignedFresh, Live
<1>. QED BY <1>1, <1>2, <1>3, <1>4 DEF Next

\* The conjunction holds in every behaviour.
LEMMA SpecIInv == Spec => []IInv
BY InitIInv, NextKeeps, PTL DEF Spec
-----------------------------------------------------------------------------

\* The main thread stays within the connections there are, and the records of
\* the instances are of their types, in every behaviour (icedemo_console,
\* cb_on_rx_data, cb_on_ice_complete).
THEOREM TypeCorrect == Spec => []TypeOK
<1>1. IInv => TypeOK
  BY DEF IInv
<1>. QED BY <1>1, SpecIInv, PTL

\* cb_on_rx_data: whatever callbacks run while instances are destroyed and
\* made anew, who negotiates does so with the description that came last.
THEOREM LastDescription == Spec => []TalksToTheLast
<1>1. IInv => TalksToTheLast
  BY DEF IInv
<1>. QED BY <1>1, SpecIInv, PTL
-----------------------------------------------------------------------------
(* Pointers.                                                               *)

Making(k) == console.k = k /\ console.pc \in {"assign", "identify"}

\* The pointer follows the object but for the time between the creation and the
\* assignment, and but for connection 0 when the instance that is made fails; an
\* instance names connection 0 while it is made, then itself.
Follows(k) ==
  /\ console.k = k /\ console.pc = "assign" => ~icest[k]
  /\ console.k = k /\ console.pc = "identify" /\ Live(k) => icest[k]
  /\ ~Making(k) /\ icest[k] => Live(k)
  /\ ~Making(k) /\ Live(k) => icest[k] \/ (k = 0 /\ DestroyedUnnamed)
  /\ Live(k) => strans[k].id = IF Making(k) THEN 0 ELSE k

AllFollow == ~Over => \A k \in Ks : Follows(k)

Calm == {"create", "lookReady", "readReady", "init", "lookSess", "readSess",
         "announce", "loop", "visit"}

\* Nothing is said of a process that is over.
LEMMA FollowsOver ==
  ASSUME console'.pc \in {"exited", "undefined"}
  PROVE  AllFollow'
BY DEF AllFollow, Over

\* Moves of the main thread outside the creation.
LEMMA FollowsMove ==
  ASSUME AllFollow, console.pc \in Calm, UNCHANGED <<icest, strans>>,
         console'.pc \in Calm \cup {"exited", "undefined"}
  PROVE  AllFollow'
<1>1. ~Over
  BY DEF Over, Calm
<1>2. ASSUME NEW k \in Ks PROVE Follows(k)'
  <2>1. Follows(k)
    BY <1>1 DEF AllFollow
  <2>2. CASE console'.pc \in Calm
    BY <2>1, <2>2 DEF Follows, Making, Live, DestroyedUnnamed, Calm
  <2>3. CASE console'.pc \in {"exited", "undefined"}
    BY <2>1, <2>3 DEF Follows, Making, Live, DestroyedUnnamed, Calm
  <2>. QED BY <2>2, <2>3
<1>. QED BY <1>2 DEF AllFollow

\* A change of an object that keeps the number it carries.
LEMMA FollowsChange ==
  ASSUME TypeOK, AllFollow, ~Over, NEW k \in Ks, Live(k), NEW o \in Objects,
         strans' = [strans EXCEPT ![k] = o], o.id = strans[k].id,
         UNCHANGED icest,
         \/ UNCHANGED console
         \/ console.pc \in Calm /\ console'.pc \in Calm
  PROVE  AllFollow'
<1>1. strans'[k] = o /\ o # None /\ \A j \in Ks : j # k => strans'[j] = strans[j]
  BY NoneAssumption DEF TypeOK
<1>2. \A j \in Ks : Live(j)' <=> Live(j)
  BY <1>1 DEF Live
<1>3. \A j \in Ks : Live(j) => strans'[j].id = strans[j].id
  BY <1>1
<1>4. console.k \in Ks
  BY DEF TypeOK
<1>5. ASSUME NEW j \in Ks PROVE Follows(j)'
  <2>1. Follows(j)
    BY DEF AllFollow
  <2>2. CASE UNCHANGED console
    <3>1. (DestroyedUnnamed' <=> DestroyedUnnamed) /\ (Making(j)' <=> Making(j))
      BY <1>2, <1>4, <2>2 DEF DestroyedUnnamed, Making
    <3>. QED BY <1>2, <1>3, <2>1, <2>2, <3>1 DEF Follows
  <2>3. CASE console.pc \in Calm /\ console'.pc \in Calm
    <3>1. ~DestroyedUnnamed /\ ~Making(j) /\ ~Making(j)'
      BY <2>3 DEF DestroyedUnnamed, Making, Calm
    <3>. QED BY <1>2, <1>3, <2>1, <2>3, <3>1 DEF Follows, Calm
  <2>. QED BY <2>2, <2>3
<1>. QED BY <1>5 DEF AllFollow

\* A failure clears its own pointer, or that of connection 0.
LEMMA FollowsFail ==
  ASSUME TypeOK, AllFollow, ~Over, NEW k \in Ks, Live(k), Fail(k), UNCHANGED console
  PROVE  AllFollow'
<1>0. 0 \in Ks /\ console.k \in Ks
  BY ClientsAssumption DEF Ks, TypeOK
<1>1. strans[k].id = IF Making(k) THEN 0 ELSE k
  BY DEF AllFollow, Follows
<1>2. PICK i \in Ks : i = IF Making(k) THEN 0 ELSE k
  BY <1>0
<1>3. /\ icest' = [icest EXCEPT ![i] = FALSE]
      /\ strans' = [strans EXCEPT ![k] = None]
  BY <1>1, <1>2 DEF Fail
<1>4. /\ ~icest'[i] /\ \A j \in Ks : j # i => icest'[j] = icest[j]
      /\ strans'[k] = None /\ \A j \in Ks : j # k => strans'[j] = strans[j]
  BY <1>3 DEF TypeOK
<1>5. /\ ~Live(k)' /\ \A j \in Ks : j # k => (Live(j)' <=> Live(j))
      /\ \A j \in Ks : Making(j)' <=> Making(j)
      /\ DestroyedUnnamed => DestroyedUnnamed'
      /\ Making(k) => DestroyedUnnamed'
  BY <1>0, <1>4 DEF Live, Making, DestroyedUnnamed
<1>6. ASSUME NEW j \in Ks
      PROVE  Follows(j)'
  <2>1. Follows(j)
    BY DEF AllFollow
  <2>2. CASE j = k
    <3>1. ~Making(k) => ~icest'[k]
      BY <1>2, <1>4
    <3>2. icest'[k] => icest[k]
      BY <1>4
    <3>. QED BY <1>5, <2>1, <2>2, <3>1, <3>2 DEF Follows
  <2>3. CASE j # k
    <3>1. CASE j = i
      <4>1. Making(k) /\ j = 0 /\ ~Making(j)
        BY <1>2, <2>3, <3>1 DEF Making
      <4>. QED BY <1>4, <1>5, <2>1, <2>3, <3>1, <4>1 DEF Follows, Making
    <3>2. CASE j # i
      BY <1>4, <1>5, <2>1, <2>3, <3>2 DEF Follows
    <3>. QED BY <3>1, <3>2
  <2>. QED BY <2>2, <2>3
<1>. QED BY <1>6 DEF AllFollow

LEMMA FollowsCreate ==
  ASSUME TypeOK, AllFollow, Create
  PROVE  AllFollow'
<1>0. PICK c \in Ks : c = console.k
  BY DEF TypeOK
<1>a. console.pc = "create" /\ ~Over
  BY DEF Create, At, Over
<1>1. CASE icest[c]
  <2>1. console'.pc = "exited"
    BY <1>0, <1>1 DEF Create, Goto, TypeOK
  <2>. QED BY <2>1, FollowsOver
<1>2. CASE ~icest[c]
  <2>. DEFINE o == [state |-> "init", called |-> FALSE, remote |-> None,
                    id |-> 0, relay |-> IF c \in Outer THEN "pending" ELSE "none"]
  <2>1. /\ strans' = [strans EXCEPT ![c] = o]
        /\ Goto("assign") /\ UNCHANGED icest
    BY <1>0, <1>2 DEF Create
  <2>2. o # None /\ o.id = 0
    <3>1. 0 \in Ks
      BY ClientsAssumption DEF Ks
    <3>2. o \in Objects
      BY <3>1 DEF Objects
    <3>. QED BY <3>2, NoneAssumption
  <2>. HIDE DEF o
  <2>3. /\ strans'[c] = o /\ \A j \in Ks : j # c => strans'[j] = strans[j]
        /\ console'.pc = "assign" /\ console'.k = c
    BY <1>0, <2>1 DEF TypeOK, Goto
  <2>4. ASSUME NEW j \in Ks PROVE Follows(j)'
    <3>1. Follows(j) /\ ~Making(j) /\ ~DestroyedUnnamed
      BY <1>a DEF AllFollow, Making, DestroyedUnnamed
    <3>2. CASE j = c
      BY <1>2, <2>1, <2>2, <2>3, <3>2 DEF Follows, Making, Live
    <3>3. CASE j # c
      BY <2>1, <2>3, <3>1, <3>3 DEF Follows, Making, Live
    <3>. QED BY <3>2, <3>3
  <2>. QED BY <2>4 DEF AllFollow
<1>. QED BY <1>1, <1>2

LEMMA FollowsAssign ==
  ASSUME TypeOK, AllFollow, Assign
  PROVE  AllFollow'
<1>0. PICK c \in Ks : c = console.k
  BY DEF TypeOK
<1>a. console.pc = "assign" /\ ~Over
  BY DEF Assign, At, Over
<1>1. CASE ~Live(c)
  <2>1. console'.pc = "undefined"
    BY <1>0, <1>1 DEF Assign, Goto, TypeOK
  <2>. QED BY <2>1, FollowsOver
<1>2. CASE Live(c)
  <2>1. strans[c] \in Objects /\ strans[c].id = 0
    BY <1>0, <1>2, <1>a DEF AllFollow, Follows, Making, TypeOK, Live
  <2>2. Gathered(strans[c]) \in Objects /\ Gathered(strans[c]).id = 0
    BY <2>1 DEF Gathered, Objects
  <2>3. /\ icest' = [icest EXCEPT ![c] = TRUE]
        /\ strans' = [strans EXCEPT ![c] = Gathered(strans[c])]
        /\ console'.pc = "identify" /\ console'.k = c
    BY <1>0, <1>2 DEF Assign, Goto, TypeOK
  <2>4. /\ icest'[c] /\ strans'[c] = Gathered(strans[c]) /\ strans'[c] # None
        /\ \A j \in Ks : j # c => icest'[j] = icest[j] /\ strans'[j] = strans[j]
    BY <2>2, <2>3, NoneAssumption DEF TypeOK
  <2>5. ~DestroyedUnnamed
    BY <1>0, <1>2 DEF DestroyedUnnamed
  <2>6. ASSUME NEW j \in Ks
        PROVE  Follows(j)'
    <3>1. Follows(j)
      BY <1>a DEF AllFollow
    <3>2. CASE j = c
      BY <2>2, <2>3, <2>4, <3>2 DEF Follows, Making, Live
    <3>3. CASE j # c
      BY <1>0, <1>a, <2>3, <2>4, <2>5, <3>1, <3>3 DEF Follows, Making, Live
    <3>. QED BY <3>2, <3>3
  <2>. QED BY <2>6 DEF AllFollow
<1>. QED BY <1>1, <1>2

LEMMA FollowsIdentify ==
  ASSUME TypeOK, AllFollow, Identify
  PROVE  AllFollow'
<1>0. PICK c \in Ks : c = console.k
  BY DEF TypeOK
<1>a. console.pc = "identify" /\ ~Over
  BY DEF Identify, At, Over
<1>1. CASE ~(icest[c] /\ Live(c))
  <2>1. console'.pc = "undefined"
    BY <1>0, <1>1 DEF Identify, Goto, TypeOK
  <2>. QED BY <2>1, FollowsOver
<1>2. CASE icest[c] /\ Live(c)
  <2>. DEFINE o == [strans[c] EXCEPT !.id = c]
  <2>1. o \in Objects /\ o.id = c
    BY <1>2 DEF Objects, TypeOK, Live
  <2>2. strans' = [strans EXCEPT ![c] = o] /\ Goto("lookReady") /\ UNCHANGED icest
    BY <1>0, <1>2 DEF Identify
  <2>. HIDE DEF o
  <2>3. /\ strans'[c] = o /\ o # None /\ \A j \in Ks : j # c => strans'[j] = strans[j]
        /\ console'.pc = "lookReady" /\ console'.k = c
    BY <1>0, <2>1, <2>2, NoneAssumption DEF TypeOK, Goto
  <2>4. ~DestroyedUnnamed
    BY <1>0, <1>2 DEF DestroyedUnnamed
  <2>5. ASSUME NEW j \in Ks
        PROVE  Follows(j)'
    <3>1. Follows(j)
      BY <1>a DEF AllFollow
    <3>2. CASE j = c
      BY <1>2, <2>1, <2>2, <2>3, <3>2 DEF Follows, Making, Live
    <3>3. CASE j # c
      BY <1>0, <1>a, <2>2, <2>3, <2>4, <3>1, <3>3 DEF Follows, Making, Live
    <3>. QED BY <3>2, <3>3
  <2>. QED BY <2>5 DEF AllFollow
<1>. QED BY <1>1, <1>2

\* After a round the main thread is about to create or in the loop.
LEMMA ProceedPlace ==
  ASSUME Proceed
  PROVE  console'.pc \in {"create", "loop"}
BY DEF Proceed

LEMMA FollowsInitSession ==
  ASSUME TypeOK, AllFollow, InitSession
  PROVE  AllFollow'
<1>0. PICK c \in Ks : c = console.k
  BY DEF TypeOK
<1>1. console.pc = "init" /\ console.pc \in Calm /\ ~Over /\ UNCHANGED icest
  BY DEF InitSession, At, Calm, Over
<1>2. CASE icest[c] /\ Live(c) /\ ~HasSess(c)
  <2>1. /\ strans' = [strans EXCEPT ![c].state = "sess"]
        /\ Goto("lookSess") \/ Proceed
    BY <1>0, <1>2 DEF InitSession
  <2>2. console'.pc \in Calm
    BY <2>1, ProceedPlace DEF Goto, TypeOK, Calm
  <2>. DEFINE o == [strans[c] EXCEPT !.state = "sess"]
  <2>3. o \in Objects /\ o.id = strans[c].id /\ strans' = [strans EXCEPT ![c] = o]
    BY <1>2, <2>1 DEF TypeOK, Live, Objects
  <2>. HIDE DEF o
  <2>. QED BY <1>1, <1>2, <2>2, <2>3, FollowsChange
<1>3. CASE ~(icest[c] /\ Live(c) /\ ~HasSess(c))
  <2>1. Goto("exited") \/ Goto("undefined")
    BY <1>0, <1>3 DEF InitSession
  <2>. QED BY <2>1, FollowsOver DEF Goto, TypeOK
<1>. QED BY <1>2, <1>3

LEMMA FollowsConsole ==
  ASSUME TypeOK, AllFollow, Console \/ ConsoleError
  PROVE  AllFollow'
<1>1. CASE WaitReady \/ WaitSession \/ Announce \/ Loop \/ Visit \/ ConsoleError
  <2>1. console.pc \in Calm /\ UNCHANGED <<icest, strans>>
    BY <1>1 DEF WaitReady, WaitSession, Announce, Loop, Visit, ConsoleError, Look, Read, At,
                Calm
  <2>2. console'.pc \in Calm \cup {"exited", "undefined"}
    BY <1>1, ProceedPlace
       DEF WaitReady, WaitSession, Announce, Loop, Visit, ConsoleError, Look, Read, Goto,
           TypeOK, Calm
  <2>. QED BY <2>1, <2>2, FollowsMove
<1>. QED BY <1>1, FollowsCreate, FollowsAssign, FollowsIdentify, FollowsInitSession
         DEF Console

LEMMA FollowsWorker ==
  ASSUME TypeOK, AllFollow, NEW k \in Ks, Worker(k)
  PROVE  AllFollow'
<1>1. Live(k) /\ ~Over /\ strans[k] \in Objects
  BY DEF Worker, Relay, RelayUp, RelayLost, Negotiated, NegotiationFails, Sdp, Works,
         TypeOK, Live
<1>2. ASSUME Fail(k), UNCHANGED console
      PROVE  AllFollow'
  BY <1>1, <1>2, FollowsFail
<1>3. ASSUME NEW j \in Ks, Live(j), NEW o \in Objects, o.id = strans[j].id,
             strans' = [strans EXCEPT ![j] = o], UNCHANGED <<icest, console>>
      PROVE  AllFollow'
  BY <1>1, <1>3, FollowsChange
<1>4. CASE RelayUp(k)
  <2>. DEFINE q == [strans[k] EXCEPT !.relay = "up"]
  <2>1. q \in Objects /\ q.id = strans[k].id
    BY <1>1 DEF Objects
  <2>2. strans' = [strans EXCEPT ![k] = Gathered(q)] /\ UNCHANGED <<icest, console>>
    BY <1>4 DEF RelayUp
  <2>. HIDE DEF q
  <2>3. Gathered(q) \in Objects /\ Gathered(q).id = strans[k].id
    BY <2>1 DEF Gathered, Objects
  <2>. QED BY <1>1, <1>3, <2>2, <2>3
<1>5. CASE RelayLost(k)
  <2>. DEFINE o == [strans[k] EXCEPT !.relay = "none"]
  <2>1. o \in Objects /\ o.id = strans[k].id
    BY <1>1 DEF Objects
  <2>2. \/ strans' = [strans EXCEPT ![k] = o] /\ UNCHANGED <<icest, console>>
        \/ Fail(k) /\ UNCHANGED console
    BY <1>5 DEF RelayLost
  <2>. HIDE DEF o
  <2>. QED BY <1>1, <1>2, <1>3, <2>1, <2>2
<1>6. CASE Negotiated(k)
  <2>. DEFINE o == [strans[k] EXCEPT !.state = "running"]
  <2>1. o \in Objects /\ o.id = strans[k].id
    BY <1>1 DEF Objects
  <2>2. strans' = [strans EXCEPT ![k] = o] /\ UNCHANGED <<icest, console>>
    BY <1>6 DEF Negotiated
  <2>. HIDE DEF o
  <2>. QED BY <1>1, <1>3, <2>1, <2>2
<1>7. CASE NegotiationFails(k)
  BY <1>2, <1>7 DEF NegotiationFails
<1>8. ASSUME NEW s \in Sdps, Sdp(k, s)
      PROVE  AllFollow'
  <2>1. PICK j \in Ks : j = strans[k].id
    BY <1>1 DEF Objects
  <2>2. UNCHANGED icest /\ (UNCHANGED console \/ Goto("undefined"))
    BY <1>8 DEF Sdp
  <2>3. CASE Goto("undefined")
    BY <2>3, FollowsOver DEF Goto, TypeOK
  <2>4. CASE UNCHANGED console /\ UNCHANGED strans
    BY <2>2, <2>4 DEF AllFollow, Follows, Making, Live, DestroyedUnnamed, Over
  <2>5. CASE /\ UNCHANGED console /\ Live(j)
             /\ \E o \in Start(strans[j], s) : strans' = [strans EXCEPT ![j] = o]
    <3>1. PICK o \in Start(strans[j], s) : strans' = [strans EXCEPT ![j] = o]
      BY <2>5
    <3>2. strans[j] \in Objects
      BY <2>5 DEF TypeOK, Live
    <3>3. o \in Objects
      BY <3>1, <3>2, StartType
    <3>4. o.id = strans[j].id
      BY <3>1, <3>2 DEF Start, Objects
    <3>. QED BY <1>3, <2>2, <2>5, <3>1, <3>3, <3>4
  <2>6. \/ UNCHANGED strans
        \/ Live(j) /\ \E o \in Start(strans[j], s) : strans' = [strans EXCEPT ![j] = o]
    BY <1>8, <2>1 DEF Sdp
  <2>. QED BY <2>2, <2>3, <2>4, <2>5, <2>6
<1>. QED BY <1>4, <1>5, <1>6, <1>7, <1>8 DEF Worker, Relay

LEMMA FollowsNext == TypeOK /\ AllFollow /\ [Next]_vars => AllFollow'
<1>. SUFFICES ASSUME TypeOK, AllFollow, [Next]_vars PROVE AllFollow'
  OBVIOUS
<1>1. CASE Console \/ ConsoleError
  BY <1>1, FollowsConsole
<1>2. CASE \E k \in Ks : Worker(k)
  BY <1>2, FollowsWorker
<1>3. CASE StopHost \/ UNCHANGED vars
  BY <1>3 DEF StopHost, vars, AllFollow, Follows, Making, Live, DestroyedUnnamed, Over
<1>. QED BY <1>1, <1>2, <1>3 DEF Next

\* cb_on_ice_complete, icedemo_create_instance and icedemo_console: the pointer
\* that decides on a restart agrees with the object, for any number of
\* connections, whichever of them fail and whenever; but for the pointer of the
\* server's connection, between the failure of an instance that was not yet told
\* its number and the next step of the main thread.
THEOREM PointersAreRight == Spec => []PointersFollowObjects
<1>1. Init => AllFollow
  BY DEF Init, AllFollow, Follows, Making, Live
<1>2. TypeOK /\ AllFollow /\ [Next]_vars => AllFollow'
  BY FollowsNext
<1>3. TypeOK /\ AllFollow => PointersFollowObjects
  BY DEF AllFollow, Follows, Making, PointersFollowObjects, Creating
<1>. QED BY <1>1, <1>2, <1>3, TypeCorrect, PTL DEF Spec
-----------------------------------------------------------------------------
(* What the main thread polls for.                                         *)

\* The instance waits for its relay, or is complete without one to come.
Gathering(o) == o.state = "init" /\ o.relay = "pending" /\ ~o.called

Complete(o) == o.state = "ready" /\ o.relay # "pending" /\ o.called

\* What the main thread has reached with the instance of k that it makes.  That no
\* relay is pending keeps the callback of a late one from setting the state back.
Stage(p, k) ==
  LET o == strans[k] IN
  /\ k \notin Outer => o.relay = "none" /\ (p = "assign" \/ o.called)
  /\ p = "assign" =>
       Complete(o) \/ (o.state = "init" /\ ~o.called /\ o.relay # "up")
  /\ p = "identify" => Gathering(o) \/ Complete(o)
  /\ p \in {"lookReady", "readReady"} => Gathering(o) \/ Complete(o) \/ Overtaken(k)
  /\ p = "init" => Complete(o) \/ Overtaken(k)
  /\ p \in {"lookSess", "readSess"} =>
       k \in Outer /\ o.state = "sess" /\ o.relay # "pending"

Stages == {"assign", "identify", "lookReady", "readReady", "init", "lookSess",
           "readSess"}

InStage ==
  /\ console.pc \in Stages
  /\ icest[console.k] \/ At("assign")
  /\ Live(console.k)
  => Stage(console.pc, console.k)

LEMMA StageFree ==
  ASSUME console'.pc \notin Stages
  PROVE  InStage'
BY DEF InStage

\* The main thread goes on to a place for which the object is as it has to be.
LEMMA StageMove ==
  ASSUME TypeOK, NEW c \in Ks, c = console.k, NEW p, Goto(p),
         UNCHANGED <<icest, strans, sdpInfo>>, p # "assign",
         icest[c] /\ Live(c) => Stage(p, c)
  PROVE  InStage'
<1>1. console'.pc = p /\ console'.k = c
  BY DEF Goto, TypeOK
<1>2. Stage(p, c)' <=> Stage(p, c)
  BY DEF Stage, Overtaken, HasSess, Live
<1>. QED BY <1>1, <1>2 DEF InStage, Live, At

LEMMA StageCreate ==
  ASSUME TypeOK, Create
  PROVE  InStage'
<1>0. PICK c \in Ks : c = console.k
  BY DEF TypeOK
<1>1. CASE icest[c]
  BY <1>0, <1>1, StageFree DEF Create, Goto, TypeOK, Stages
<1>2. CASE ~icest[c]
  <2>1. /\ strans'[c].state = "init" /\ ~strans'[c].called /\ strans'[c].relay # "up"
        /\ c \notin Outer => strans'[c].relay = "none"
        /\ console'.pc = "assign" /\ console'.k = c
    BY <1>0, <1>2 DEF Create, Goto, TypeOK
  <2>. QED BY <2>1 DEF InStage, Stage
<1>. QED BY <1>1, <1>2

LEMMA StageAssign ==
  ASSUME TypeOK, InStage, Assign
  PROVE  InStage'
<1>0. PICK c \in Ks : c = console.k
  BY DEF TypeOK
<1>1. CASE ~Live(c)
  BY <1>0, <1>1, StageFree DEF Assign, Goto, TypeOK, Stages
<1>2. CASE Live(c)
  <2>1. console.pc = "assign" /\ Stage("assign", c) /\ strans[c] \in Objects
    BY <1>0, <1>2 DEF InStage, Assign, At, Stages, TypeOK, Live
  <2>2. PICK o \in Objects : o = strans[c]
    BY <2>1
  <2>3. Complete(o) \/ (o.state = "init" /\ ~o.called /\ o.relay \in {"pending", "none"})
    BY <2>1, <2>2 DEF Stage, Objects
  <2>4. /\ Gathering(Gathered(o)) \/ Complete(Gathered(o))
        /\ Gathered(o).relay = o.relay
    BY <2>2, <2>3 DEF Gathering, Complete, Gathered, Objects
  <2>5. c \notin Outer => Gathered(o).relay = "none" /\ Gathered(o).called
    BY <2>1, <2>2, <2>4 DEF Stage, Gathering, Complete
  <2>6. /\ strans' = [strans EXCEPT ![c] = Gathered(o)]
        /\ console'.pc = "identify" /\ console'.k = c
    BY <1>0, <1>2, <2>2 DEF Assign, Goto, TypeOK
  <2>7. strans'[c] = Gathered(o)
    BY <2>6 DEF TypeOK
  <2>. QED BY <2>4, <2>5, <2>6, <2>7 DEF InStage, Stage
<1>. QED BY <1>1, <1>2

LEMMA StageIdentify ==
  ASSUME TypeOK, InStage, Identify
  PROVE  InStage'
<1>0. PICK c \in Ks : c = console.k
  BY DEF TypeOK
<1>1. CASE ~(icest[c] /\ Live(c))
  BY <1>0, <1>1, StageFree DEF Identify, Goto, TypeOK, Stages
<1>2. CASE icest[c] /\ Live(c)
  <2>1. console.pc = "identify" /\ Stage("identify", c) /\ strans[c] \in Objects
    BY <1>0, <1>2 DEF InStage, Identify, At, Stages, TypeOK, Live
  <2>2. PICK o \in Objects : o = strans[c]
    BY <2>1
  <2>. DEFINE q == [o EXCEPT !.id = c]
  <2>3. /\ strans' = [strans EXCEPT ![c] = q]
        /\ console'.pc = "lookReady" /\ console'.k = c
    BY <1>0, <1>2, <2>2 DEF Identify, Goto, TypeOK
  <2>4. strans'[c] = q
    BY <2>3 DEF TypeOK
  <2>5. q.state = o.state /\ q.relay = o.relay /\ q.called = o.called
    BY <2>2 DEF Objects
  <2>. HIDE DEF q
  <2>6. /\ Gathering(q) \/ Complete(q)
        /\ c \notin Outer => q.relay = "none" /\ q.called
    BY <2>1, <2>2, <2>5 DEF Stage, Gathering, Complete
  <2>. QED BY <2>3, <2>4, <2>6 DEF InStage, Stage
<1>. QED BY <1>1, <1>2

LEMMA StageWaitReady ==
  ASSUME TypeOK, InStage, WaitReady
  PROVE  InStage'
<1>0. PICK c \in Ks : c = console.k
  BY DEF TypeOK
<1>1. UNCHANGED <<icest, strans, sdpInfo>> /\ console.pc \in {"lookReady", "readReady"}
  BY DEF WaitReady, Look, Read, At
<1>2. icest[c] /\ Live(c) => Stage("lookReady", c)
  BY <1>0, <1>1 DEF InStage, Stage, Stages
<1>3. \/ Goto("exited") \/ Goto("undefined") \/ Goto("readReady") \/ Goto("lookReady")
      \/ Goto("init") /\ strans[c].state = "ready"
  BY <1>0 DEF WaitReady, Look, Read
<1>4. CASE Goto("exited") \/ Goto("undefined")
  BY <1>4, StageFree DEF Goto, TypeOK, Stages
<1>5. ASSUME NEW p \in {"lookReady", "readReady"}, Goto(p) PROVE InStage'
  <2>1. icest[c] /\ Live(c) => Stage(p, c)
    BY <1>2 DEF Stage
  <2>. QED BY <1>0, <1>1, <1>5, <2>1, StageMove
<1>6. CASE Goto("init") /\ strans[c].state = "ready"
  <2>1. icest[c] /\ Live(c) => Stage("init", c)
    BY <1>2, <1>6 DEF Stage, Gathering
  <2>. QED BY <1>0, <1>1, <1>6, <2>1, StageMove
<1>. QED BY <1>3, <1>4, <1>5, <1>6

LEMMA StageInitSession ==
  ASSUME TypeOK, InStage, InitSession
  PROVE  InStage'
<1>0. PICK c \in Ks : c = console.k
  BY DEF TypeOK
<1>1. CASE icest[c] /\ Live(c) /\ ~HasSess(c) /\ c \in Outer
  <2>1. /\ strans' = [strans EXCEPT ![c].state = "sess"]
        /\ console'.pc = "lookSess" /\ console'.k = c
    BY <1>0, <1>1 DEF InitSession, Goto, TypeOK
  <2>2. Stage("init", c) /\ strans[c] \in Objects
    BY <1>0, <1>1 DEF InStage, InitSession, At, Stages, TypeOK, Live
  <2>3. strans[c].relay # "pending"
    BY <1>1, <2>2 DEF Stage, Complete, Overtaken
  <2>4. strans'[c].state = "sess" /\ strans'[c].relay # "pending"
    BY <2>1, <2>2, <2>3 DEF TypeOK, Objects
  <2>. QED BY <1>1, <2>1, <2>4 DEF InStage, Stage
<1>2. CASE ~(icest[c] /\ Live(c) /\ ~HasSess(c) /\ c \in Outer)
  <2>1. Proceed \/ Goto("exited") \/ Goto("undefined")
    BY <1>0, <1>2 DEF InitSession
  <2>2. console'.pc \notin Stages
    BY <2>1, ProceedPlace DEF Goto, TypeOK, Stages
  <2>. QED BY <2>2, StageFree
<1>. QED BY <1>1, <1>2

LEMMA StageWaitSession ==
  ASSUME TypeOK, InStage, WaitSession
  PROVE  InStage'
<1>0. PICK c \in Ks : c = console.k
  BY DEF TypeOK
<1>1. UNCHANGED <<icest, strans, sdpInfo>> /\ console.pc \in {"lookSess", "readSess"}
  BY DEF WaitSession, Look, Read, At
<1>2. icest[c] /\ Live(c) => Stage("lookSess", c)
  BY <1>0, <1>1 DEF InStage, Stage, Stages
<1>3. \/ Goto("exited") \/ Goto("undefined") \/ Goto("announce")
      \/ Goto("readSess") \/ Goto("lookSess")
  BY <1>0 DEF WaitSession, Look, Read
<1>4. CASE Goto("exited") \/ Goto("undefined") \/ Goto("announce")
  BY <1>4, StageFree DEF Goto, TypeOK, Stages
<1>5. ASSUME NEW p \in {"readSess", "lookSess"}, Goto(p) PROVE InStage'
  <2>1. icest[c] /\ Live(c) => Stage(p, c)
    BY <1>2 DEF Stage
  <2>. QED BY <1>0, <1>1, <1>5, <2>1, StageMove
<1>. QED BY <1>3, <1>4, <1>5

LEMMA StageConsole ==
  ASSUME TypeOK, InStage, Console \/ ConsoleError
  PROVE  InStage'
<1>1. CASE Announce \/ Loop \/ Visit \/ ConsoleError
  <2>1. console'.pc \notin Stages
    BY <1>1, ProceedPlace
       DEF Announce, Loop, Visit, ConsoleError, Goto, TypeOK, Stages
  <2>. QED BY <2>1, StageFree
<1>. QED BY <1>1, StageCreate, StageAssign, StageIdentify, StageWaitReady,
            StageInitSession, StageWaitSession DEF Console

\* The callbacks of other instances do not touch the one that is made.
LEMMA StageOthers ==
  ASSUME TypeOK, InStage, UNCHANGED console,
         icest'[console.k] => icest[console.k],
         strans'[console.k] = strans[console.k],
         sdpInfo[console.k] # None => sdpInfo'[console.k] # None
  PROVE  InStage'
<1>1. PICK c \in Ks : c = console.k
  BY DEF TypeOK
<1>2. /\ strans'[c] = strans[c] /\ (icest'[c] => icest[c])
      /\ console'.k = c /\ console'.pc = console.pc
      /\ Overtaken(c) => Overtaken(c)'
  BY <1>1 DEF Overtaken, HasSess, Live
<1>3. Stage(console.pc, c) => Stage(console.pc, c)'
  BY <1>1, <1>2 DEF Stage
<1>. QED BY <1>1, <1>2, <1>3 DEF InStage, Live, At

\* A relay completes the instance that is made.
LEMMA StageRelayUp ==
  ASSUME TypeOK, InStage, NEW k \in Ks, k = console.k, RelayUp(k)
  PROVE  InStage'
<1>1. /\ Live(k) /\ strans[k] \in Objects /\ strans[k].relay = "pending"
      /\ UNCHANGED <<icest, sdpInfo, console>>
  BY DEF RelayUp, Works, Live, TypeOK
<1>2. PICK o \in Objects : o = strans[k]
  BY <1>1
<1>. DEFINE q == [o EXCEPT !.relay = "up"]
<1>3. /\ q \in Objects /\ q.relay = "up" /\ q.called = o.called /\ q.state = o.state
      /\ strans' = [strans EXCEPT ![k] = Gathered(q)]
  BY <1>2 DEF RelayUp, Objects
<1>. HIDE DEF q
<1>4. strans'[k] = Gathered(q)
  BY <1>3 DEF TypeOK
<1>5. ASSUME console.pc \in Stages, icest[k] \/ At("assign")
      PROVE  Stage(console.pc, k)'
  <2>1. Stage(console.pc, k)
    BY <1>1, <1>5 DEF InStage
  <2>2. k \in Outer /\ Gathering(o)
        /\ console.pc \in {"assign", "identify", "lookReady", "readReady"}
    BY <1>1, <1>2, <1>5, <2>1 DEF Stage, Gathering, Complete, Overtaken, Stages, Objects
  <2>3. Complete(Gathered(q))
    BY <1>3, <2>2 DEF Complete, Gathered, Gathering, Objects
  <2>. QED BY <1>1, <1>4, <2>2, <2>3 DEF Stage
<1>. QED BY <1>1, <1>5 DEF InStage, At

\* An instance that fails is not there to be polled: its pointer is cleared, or
\* the main thread uses it at once.
LEMMA StageFail ==
  ASSUME TypeOK, NEW k \in Ks, k = console.k, Fail(k), UNCHANGED console
  PROVE  InStage'
<1>1. ~Live(k)'
  BY DEF Fail, TypeOK, Live
<1>. QED BY <1>1 DEF InStage

LEMMA StageRelayLost ==
  ASSUME TypeOK, InStage, AllFollow, NEW k \in Ks, k = console.k, RelayLost(k)
  PROVE  InStage'
<1>1. /\ Live(k) /\ ~Over /\ strans[k].relay # "none" /\ strans[k] \in Objects
      /\ UNCHANGED <<sdpInfo, console>>
  BY DEF RelayLost, Works, TypeOK, Live
<1>2. CASE Fail(k)
  BY <1>1, <1>2, StageFail
<1>3. CASE ~Fail(k)
  <2>1. strans[k].state = "init" /\ strans[k].called /\ UNCHANGED icest
    BY <1>3 DEF RelayLost
  <2>2. ~(console.pc \in Stages /\ (icest[k] \/ At("assign")))
    <3>1. SUFFICES ASSUME console.pc \in Stages, icest[k] \/ At("assign")
                   PROVE  FALSE
      OBVIOUS
    <3>2. Stage(console.pc, k)
      BY <1>1, <3>1 DEF InStage
    <3>. QED BY <1>1, <2>1, <3>1, <3>2
             DEF Stage, Gathering, Complete, Overtaken, Stages
  <2>. QED BY <1>1, <2>1, <2>2 DEF InStage, At
<1>. QED BY <1>2, <1>3

\* Only an inner instance that was overtaken negotiates while it is made.
LEMMA StageNegotiated ==
  ASSUME TypeOK, InStage, NEW k \in Ks, k = console.k, Negotiated(k)
  PROVE  InStage'
<1>1. /\ Live(k) /\ strans[k].state = "nego" /\ strans[k] \in Objects
      /\ UNCHANGED <<icest, sdpInfo, console>>
  BY DEF Negotiated, Works, TypeOK, Live
<1>2. PICK o \in Objects : o = strans[k]
  BY <1>1
<1>. DEFINE q == [o EXCEPT !.state = "running"]
<1>3. /\ q \in Objects /\ q.relay = o.relay /\ q.called = o.called /\ q.state = "running"
      /\ strans' = [strans EXCEPT ![k] = q]
  BY <1>2 DEF Negotiated, Objects
<1>. HIDE DEF q
<1>4. strans'[k] = q /\ q # None
  BY <1>3, NoneAssumption DEF TypeOK
<1>5. ASSUME console.pc \in Stages, icest[k] \/ At("assign")
      PROVE  Stage(console.pc, k)'
  <2>1. Stage(console.pc, k)
    BY <1>1, <1>5 DEF InStage
  <2>2. /\ Overtaken(k) /\ o.relay = "none" /\ o.called
        /\ console.pc \in {"lookReady", "readReady", "init"}
    BY <1>1, <1>2, <1>5, <2>1 DEF Stage, Gathering, Complete, Overtaken, Stages
  <2>3. Overtaken(k)'
    BY <1>1, <1>3, <1>4, <2>2 DEF Overtaken, HasSess, Live
  <2>. QED BY <1>1, <1>3, <1>4, <2>2, <2>3 DEF Stage
<1>. QED BY <1>1, <1>5 DEF InStage, At

\* A description for the instance that is made: if it was told its number, it is an
\* inner one, and overtaken.
LEMMA StageSdp ==
  ASSUME TypeOK, InStage, AllFollow, NEW k \in Ks, k = console.k, NEW s \in Sdps, Sdp(k, s)
  PROVE  InStage'
<1>1. /\ Live(k) /\ ~Over /\ k # 0 /\ Reachable(k) /\ s # None /\ UNCHANGED icest
      /\ UNCHANGED console \/ Goto("undefined")
  BY ClientsAssumption DEF Sdp, Works
<1>2. CASE Goto("undefined")
  BY <1>2, StageFree DEF Goto, TypeOK, Stages
<1>3. CASE UNCHANGED console /\ console.pc \notin Stages
  BY <1>3, StageFree
<1>4. CASE UNCHANGED console /\ console.pc \in {"assign", "identify"}
  <2>1. strans[k].id = 0 /\ 0 \in Ks
    BY <1>1, <1>4, ClientsAssumption DEF AllFollow, Follows, Making, Ks
  <2>2. UNCHANGED strans \/ \E o : strans' = [strans EXCEPT ![0] = o]
    BY <2>1 DEF Sdp
  <2>3. strans'[k] = strans[k]
    BY <1>1, <2>1, <2>2 DEF TypeOK
  <2>4. sdpInfo'[k] = sdpInfo[k]
    BY <1>1, <2>1 DEF Sdp, TypeOK
  <2>. QED BY <1>1, <1>4, <2>3, <2>4, StageOthers
<1>5. CASE UNCHANGED console /\ console.pc \in Stages \ {"assign", "identify"}
  <2>1. Creating(k) /\ ~Making(k)
    BY <1>5 DEF Creating, Making, Stages
  <2>2. k \notin Outer /\ strans[k].id = k
    BY <1>1, <2>1 DEF Reachable, AllFollow, Follows
  <2>3. sdpInfo'[k] = s
    BY <2>2 DEF Sdp, TypeOK
  <2>4. CASE UNCHANGED strans
    BY <1>1, <1>5, <2>3, <2>4, StageOthers
  <2>5. CASE \E o \in Start(strans[k], s) : strans' = [strans EXCEPT ![k] = o]
    <3>1. PICK o \in Start(strans[k], s) : strans' = [strans EXCEPT ![k] = o]
      BY <2>5
    <3>2. strans[k] \in Objects
      BY <1>1 DEF TypeOK, Live
    <3>3. o \in Objects
      BY <3>1, <3>2, StartType
    <3>4. /\ o.state \in {"sess", "nego", "init"}
          /\ o.called = strans[k].called /\ o.relay = strans[k].relay
      BY <3>1, <3>2 DEF Start, Objects
    <3>5. strans'[k] = o /\ o # None
      BY <3>1, <3>3, NoneAssumption DEF TypeOK
    <3>6. ASSUME icest[k]
          PROVE  Stage(console.pc, k)'
      <4>1. Stage(console.pc, k)
        BY <1>1, <1>5, <3>6 DEF InStage
      <4>2. /\ strans[k].relay = "none" /\ strans[k].called
            /\ console.pc \in {"lookReady", "readReady", "init"}
        BY <1>5, <2>2, <4>1 DEF Stage, Stages
      <4>3. Overtaken(k)'
        BY <1>1, <2>2, <2>3, <3>4, <3>5, <4>2 DEF Overtaken, HasSess, Live
      <4>. QED BY <1>5, <2>2, <3>4, <3>5, <4>2, <4>3 DEF Stage
    <3>. QED BY <1>1, <1>5, <3>6 DEF InStage, At
  <2>. QED BY <2>2, <2>4, <2>5 DEF Sdp
<1>. QED BY <1>1, <1>2, <1>3, <1>4, <1>5

LEMMA StageWorker ==
  ASSUME TypeOK, InStage, AllFollow, NEW k \in Ks, Worker(k)
  PROVE  InStage'
<1>1. Live(k) /\ ~Over
  BY DEF Worker, Relay, RelayUp, RelayLost, Negotiated, NegotiationFails, Sdp, Works
<1>2. CASE k = console.k
  <2>1. CASE NegotiationFails(k)
    BY <1>2, <2>1, StageFail DEF NegotiationFails
  <2>. QED BY <1>2, <2>1, StageRelayUp, StageRelayLost, StageNegotiated, StageSdp
           DEF Worker, Relay
<1>3. CASE k # console.k
  <2>1. strans[k].id = k /\ console.k \in Ks
    BY <1>1, <1>3 DEF AllFollow, Follows, Making, TypeOK
  <2>2. icest' = icest \/ icest' = [icest EXCEPT ![k] = FALSE]
    BY <2>1 DEF Worker, Relay, RelayUp, RelayLost, Negotiated, NegotiationFails, Sdp, Fail
  <2>3. strans' = strans \/ \E o : strans' = [strans EXCEPT ![k] = o]
    BY <2>1 DEF Worker, Relay, RelayUp, RelayLost, Negotiated, NegotiationFails, Sdp, Fail
  <2>4. sdpInfo' = sdpInfo \/ \E s : sdpInfo' = [sdpInfo EXCEPT ![k] = s]
    BY <2>1 DEF Worker, Relay, RelayUp, RelayLost, Negotiated, NegotiationFails, Sdp
  <2>5. UNCHANGED console
    BY <1>1, <2>1
       DEF Worker, Relay, RelayUp, RelayLost, Negotiated, NegotiationFails, Sdp
  <2>. QED BY <1>3, <2>1, <2>2, <2>3, <2>4, <2>5, StageOthers DEF TypeOK
<1>. QED BY <1>2, <1>3

LEMMA StageNext == TypeOK /\ AllFollow /\ InStage /\ [Next]_vars => InStage'
<1>. SUFFICES ASSUME TypeOK, AllFollow, InStage, [Next]_vars PROVE InStage'
  OBVIOUS
<1>1. CASE Console \/ ConsoleError
  BY <1>1, StageConsole
<1>2. CASE \E k \in Ks : Worker(k)
  BY <1>2, StageWorker
<1>3. CASE StopHost \/ UNCHANGED vars
  BY <1>3, StageOthers DEF StopHost, vars
<1>. QED BY <1>1, <1>2, <1>3 DEF Next

\* icedemo_console, sess_init_update, turn_on_state, cb_on_rx_data: the state that
\* the main thread polls for is there or comes with the relay, and a relay that
\* is lost ends the poll, for any number of connections, however often they are
\* destroyed and made anew and whatever callbacks run while they are made; but
\* for an inner instance whose session a description has started or stopped.
THEOREM PollsForWhatComes == Spec => []AwaitedComes
<1>1. Init => AllFollow /\ InStage
  <2>1. Init => AllFollow
    BY DEF Init, AllFollow, Follows, Making, Live
  <2>2. Init => console.pc = "create"
    BY DEF Init
  <2>. QED BY <2>1, <2>2 DEF InStage, Stages
<1>2. TypeOK /\ AllFollow /\ InStage /\ [Next]_vars => (AllFollow /\ InStage)'
  BY FollowsNext, StageNext
<1>3. InStage => AwaitedComes
  BY DEF InStage, Stage, Stages, Gathering, Complete, AwaitedComes, At
<1>. QED BY <1>1, <1>2, <1>3, TypeCorrect, PTL DEF Spec
=============================================================================
