-------------------------- MODULE SessionRegistry --------------------------
(***************************************************************************)
(* The in-memory session and pairing registry of the TSHOME P2P server:    *)
(* the four maps of ts_udb_mgr (include/tshome_typedef.h), the request     *)
(* handlers of server/tsp_hander.c that read and write them, and the       *)
(* life-detection timers that log silent users out.                        *)
(*                                                                         *)
(* A host (the gateway of a home) opens one relay allocation per           *)
(* connection it can serve and announces each of them with an "SDPH:k"     *)
(* datagram.  A terminal (a phone) announces its own allocation with       *)
(* "SDPL:", and the server hands it the first free announcement of the     *)
(* home's host and marks that slot as paired.  Both then obtain a session  *)
(* id (PASS_SECRET_KEY) and log in (LOGIN).                                *)
(*                                                                         *)
(* Each handler is one step: handle_remote_request is one critical section *)
(* of g_mutexTspHandlerRequest and do_when_logout one of                   *)
(* g_mutexTspHandlerLogout.                                                *)
(***************************************************************************)
EXTENDS Integers, Sequences, FiniteSets

CONSTANTS
  Hosts,         \* user names of gateways: they send SDPH and log in as HOST_S
  Terminals,     \* user names of phones: they send SDPL and log in as CLIENT
  Homes,         \* rows of t_home
  HomeOf,        \* t_user.home
  NSlots,        \* maxUsers/2 + 1, the length of a host's sdpVec
  Serials,       \* connection numbers that gateways are configured with
  Addrs,         \* client transport addresses (ip, port) seen by the server
  Gens,          \* distinct SDP texts a client may produce at one address
  NoSdp,         \* an init_sdp: port 0, empty text
  MaxOpened,     \* bound: allocations that clients open, in all
  MaxSession,    \* bound: session ids handed out, counted from BEGIN_SESSION_ID
  MaxQueue,      \* bound: entries of logoutQueue
  LifeDetection  \* configured periods are positive: the timers are started

Users == Hosts \cup Terminals

\* "at present, one home just have one host"
ASSUME UsersAssumption ==
  /\ IsFiniteSet(Users)
  /\ Hosts \cap Terminals = {}
  /\ HomeOf \in [Users -> Homes]
  /\ \A g, h \in Hosts : HomeOf[g] = HomeOf[h] => g = h
  /\ Users \cap {"server", ""} = {}

ASSUME BoundsAssumption ==
  /\ NSlots \in Nat \ {0}
  /\ Serials \subseteq Nat
  /\ MaxOpened \in Nat
  /\ MaxSession \in Nat
  /\ MaxQueue \in Nat
  /\ LifeDetection \in BOOLEAN

Sdps == Addrs \X Gens

ASSUME SdpAssumption == NoSdp \notin Sdps

Sessions == 1 .. MaxSession

VARIABLES
  tempUserMap,   \* username -> ts_user, from the first SDP on
  loginUser,     \* hostUserMap and mobileUserMap, indexed by user name
  sessionHome,   \* sessionHomeMap: session id -> home id
  sessionId,     \* last session id generated, 0 stands for BEGIN_SESSION_ID
  alloc,         \* client address -> [user, serial] of a live relay allocation
  opened,        \* number of allocations opened so far
  logoutQueue,   \* logoutQueue: copies of expired users
  client         \* what each client program knows: its session id, whether its
                 \* LOGIN succeeded, and (terminals) the host SDP it was given

vars == <<tempUserMap, loginUser, sessionHome, sessionId, alloc, opened, logoutQueue, client>>

-----------------------------------------------------------------------------
(* Maps.  std::map::operator[] and erase.                                  *)

Put(f, k, v) == [x \in DOMAIN f \cup {k} |-> IF x = k THEN v ELSE f[x]]

Erase(f, S) == [x \in DOMAIN f \ S |-> f[x]]

EmptyMap == [x \in {} |-> x]

(* user_sdp and ts_user.  The flag of a slot is 'x' (never used), 's'      *)
(* (single: free) or 'p' (paired); fresh says that liveTime is younger     *)
(* than the timeout of LifeDetectionTimer.                                 *)

Slot == [sdp: Sdps \cup {NoSdp}, flag: {"x", "s", "p"}, client: Users \cup {"server", ""}]

InitSlot == [sdp |-> NoSdp, flag |-> "x", client |-> ""]

UserRec == [session: 0 .. MaxSession, reference: Int, sdpVec: Seq(Slot), fresh: BOOLEAN]

\* A row just read by select_user: the constructor of ts_user, and n slots.
NewUser(n) == [session |-> 0, reference |-> 0,
               sdpVec |-> [i \in 1 .. n |-> InitSlot], fresh |-> TRUE]

\* The relay allocations left when those at the client addresses S shut down.
ShutDown(S) == Erase(alloc, S)

SdpAddrs(vec) == {vec[i].sdp[1] : i \in {j \in DOMAIN vec : vec[j].sdp # NoSdp}}

-----------------------------------------------------------------------------
(* do_when_logout, on given values of the tables, which it returns.        *)

\* remove_host and remove_mobile: the entry of home h with session s.
RemoveBySession(login, h, s) ==
  Erase(login, {u \in DOMAIN login : HomeOf[u] = h /\ login[u].session = s})

\* restore_host_sdp on a host's slots: the first one paired with u is free again.
RestoreSlots(vec, u) ==
  [i \in DOMAIN vec |->
     IF vec[i].client = u /\ \A j \in 1 .. i - 1 : vec[j].client # u
       THEN [vec[i] EXCEPT !.flag = "s", !.client = ""]
       ELSE vec[i]]

RestoreHostSdp(login, h, u) ==
  [v \in DOMAIN login |->
     IF v \in Hosts /\ HomeOf[v] = h
       THEN [login[v] EXCEPT !.sdpVec = RestoreSlots(@, u)]
       ELSE login[v]]

\* Variant: only the home of the session is searched, so that a terminal that
\* never logged in gives no slot back.
LogoutLoginBySession(u) ==
  LET s == tempUserMap[u].session
  IN  IF s \in DOMAIN sessionHome
        THEN RestoreHostSdp(RemoveBySession(loginUser, sessionHome[s], s), sessionHome[s], u)
        ELSE loginUser

\* The home that is searched: that of the session, else that of the user.
LogoutLogin(u) ==
  LET s == tempUserMap[u].session
      h == IF s \in DOMAIN sessionHome THEN sessionHome[s] ELSE HomeOf[u]
  IN  RestoreHostSdp(IF s \in DOMAIN sessionHome
                       THEN RemoveBySession(loginUser, h, s)
                       ELSE loginUser, h, u)

\* Variant: remove_mapping is forgotten.
LogoutSessionKept(u) == sessionHome

LogoutSession(u) == Erase(sessionHome, {tempUserMap[u].session})

DoWhenLogout(u) ==
  IF u \in DOMAIN tempUserMap
    THEN /\ loginUser' = LogoutLogin(u)
         /\ tempUserMap' = Erase(tempUserMap, {u})
         /\ sessionHome' = LogoutSession(u)
    ELSE UNCHANGED <<loginUser, tempUserMap, sessionHome>>

-----------------------------------------------------------------------------
(* Registering SDPs.                                                       *)

\* SDPH:k.  The user as found in tempUserMap, or as selected with NSlots slots.
HostUser(u) == IF u \in DOMAIN tempUserMap THEN tempUserMap[u] ELSE NewUser(NSlots)

\* Slot 0 is the connection with the server, the others wait for a terminal.
HostSlot(k, x) ==
  [sdp |-> x, flag |-> IF k = 0 THEN "p" ELSE "s", client |-> IF k = 0 THEN "server" ELSE ""]

\* Variant: reference counts announcements, also those that replace an SDP.
HostReferenceCounting(user, k) == (IF k = 0 THEN 0 ELSE user.reference) + 1

\* reference after slot k of the user takes a new SDP.
HostReference(user, k) ==
  LET base == IF k = 0 THEN 0 ELSE user.reference
  IN  IF user.sdpVec[k + 1].sdp = NoSdp THEN base + 1 ELSE base

WithHostSdp(user, k, x) ==
  [user EXCEPT !.reference = HostReference(user, k), !.sdpVec[k + 1] = HostSlot(k, x)]

\* Variant: only a paired slot's allocation is shut down.
ReplacedPaired(vec, i) == IF vec[i].flag = "p" THEN {vec[i].sdp[1]} ELSE {}

\* The addresses whose allocation a new SDP in slot i of vec replaces.
Replaced(vec, i) == IF vec[i].sdp = NoSdp THEN {} ELSE {vec[i].sdp[1]}

\* The terminal that sent an "SDPL:" takes the first single slot of vec.
FreeSlots(vec) == {i \in DOMAIN vec : vec[i].flag = "s"}

IsFirstFree(vec, i) == i \in FreeSlots(vec) /\ \A j \in FreeSlots(vec) : i <= j

PairSlot(vec, i, u) == [vec EXCEPT ![i].flag = "p", ![i].client = u]

\* Variant: any host will do, of whatever home.
PairTerminalAnywhere(u, login) ==
  \E h \in DOMAIN login \cap Hosts : \E i \in DOMAIN login[h].sdpVec :
     /\ IsFirstFree(login[h].sdpVec, i)
     /\ loginUser' = [login EXCEPT ![h].sdpVec = PairSlot(@, i, u)]
     /\ client' = [client EXCEPT ![u].peer = login[h].sdpVec[i].sdp]

\* pair_user and the search for a slot, on the login table that is left after
\* an old registration of u was logged out.  Nothing is taken when the home
\* has no host on line (GE_NO_HOST_CONNECT) or the host no single slot
\* (GE_OVER_MAX_CONNECT_COUNT).
PairTerminal(u, login) ==
  \/ \E h \in DOMAIN login \cap Hosts :
       /\ HomeOf[h] = HomeOf[u]
       /\ \E i \in DOMAIN login[h].sdpVec :
            /\ IsFirstFree(login[h].sdpVec, i)
            /\ loginUser' = [login EXCEPT ![h].sdpVec = PairSlot(@, i, u)]
            /\ client' = [client EXCEPT ![u].peer = login[h].sdpVec[i].sdp]
  \/ /\ \A h \in DOMAIN login \cap Hosts :
          HomeOf[h] = HomeOf[u] => FreeSlots(login[h].sdpVec) = {}
     /\ loginUser' = login
     /\ client' = [client EXCEPT ![u].peer = NoSdp]

-----------------------------------------------------------------------------
(* Actions.                                                                *)

NewClient == [session |-> 0, online |-> FALSE, peer |-> NoSdp]

Init ==
  /\ tempUserMap = EmptyMap
  /\ loginUser = EmptyMap
  /\ sessionHome = EmptyMap
  /\ sessionId = 0
  /\ alloc = EmptyMap
  /\ opened = 0
  /\ logoutQueue = <<>>
  /\ client = [u \in Users |-> NewClient]

\* A client obtains a relay allocation (pj_turn_allocation_create).  A terminal
\* has one connection, number 0; a host numbers its connections, and may be
\* configured with more of them than the home's maxUsers allows.  A client that
\* opens its connection with the server starts over.
Allocate(u, a, k) ==
  /\ a \notin DOMAIN alloc
  /\ opened < MaxOpened
  /\ opened' = opened + 1
  /\ u \in Terminals => k = 0
  /\ alloc' = Put(alloc, a, [user |-> u, serial |-> k])
  /\ client' = IF k = 0 THEN [client EXCEPT ![u] = NewClient] ELSE client
  /\ UNCHANGED <<tempUserMap, loginUser, sessionHome, sessionId, logoutQueue>>

\* "SDPH:k": a serial beyond the slots leaves behind the empty row that
\* select_user stored.
SdphTooMany(a) ==
  /\ a \in DOMAIN alloc /\ alloc[a].user \in Hosts
  /\ LET u == alloc[a].user
     IN  /\ alloc[a].serial >= Len(HostUser(u).sdpVec)
         /\ tempUserMap' = IF u \in DOMAIN tempUserMap THEN tempUserMap
                                                      ELSE Put(tempUserMap, u, NewUser(0))
  /\ UNCHANGED <<loginUser, sessionHome, sessionId, alloc, opened, logoutQueue, client>>

\* "SDPH:k" with an SDP that slot k does not hold yet: the allocation the slot
\* held is shut down, the tables of temporary and of logged-in users are saved.
\* (A repeated SDP changes nothing.)
Sdph(a, g) ==
  /\ a \in DOMAIN alloc /\ alloc[a].user \in Hosts
  /\ LET u == alloc[a].user
         k == alloc[a].serial
         user == HostUser(u)
     IN  /\ k < Len(user.sdpVec)
         /\ user.sdpVec[k + 1].sdp # <<a, g>>
         /\ tempUserMap' = Put(tempUserMap, u, WithHostSdp(user, k, <<a, g>>))
         /\ loginUser' = IF user.session \in DOMAIN sessionHome
                           THEN Put(loginUser, u, WithHostSdp(user, k, <<a, g>>))
                           ELSE loginUser
         /\ alloc' = ShutDown(Replaced(user.sdpVec, k + 1))
  /\ UNCHANGED <<sessionHome, sessionId, opened, logoutQueue, client>>

TerminalUser(u) == IF u \in DOMAIN tempUserMap THEN tempUserMap[u] ELSE NewUser(1)

WithTerminalSdp(user, x) ==
  [user EXCEPT !.reference = 1,
               !.sdpVec[1] = [sdp |-> x, flag |-> "s", client |-> ""]]

\* "SDPL:" with a new SDP.  An SDP registered before is logged out and its
\* allocation shut down; then the copy of the user taken before that is stored
\* with the new SDP, and the terminal is paired.
SdplNew(a, g) ==
  /\ a \in DOMAIN alloc /\ alloc[a].user \in Terminals
  /\ LET u == alloc[a].user
         user == TerminalUser(u)
         old == Replaced(user.sdpVec, 1)
     IN  /\ user.sdpVec[1].sdp # <<a, g>>
         /\ tempUserMap' = Put(tempUserMap, u, WithTerminalSdp(user, <<a, g>>))
         /\ sessionHome' = IF old = {} THEN sessionHome ELSE LogoutSession(u)
         /\ PairTerminal(u, IF old = {} THEN loginUser ELSE LogoutLogin(u))
         /\ alloc' = ShutDown(old)
  /\ UNCHANGED <<sessionId, opened, logoutQueue>>

\* "SDPL:" repeated with the SDP that is registered: the terminal is paired
\* again, with another slot.
SdplAgain(a, g) ==
  /\ a \in DOMAIN alloc /\ alloc[a].user \in DOMAIN tempUserMap \cap Terminals
  /\ tempUserMap[alloc[a].user].sdpVec[1].sdp = <<a, g>>
  /\ PairTerminal(alloc[a].user, loginUser)
  /\ UNCHANGED <<tempUserMap, sessionHome, sessionId, alloc, opened, logoutQueue>>

-----------------------------------------------------------------------------
(* Sessions.  These requests travel on connection 0 of the client.         *)

OnServerLink(u) == \E a \in DOMAIN alloc : alloc[a].user = u /\ alloc[a].serial = 0

\* Variant: the id is read and the counter not advanced.
PassSecretKeySameId(u) ==
  /\ OnServerLink(u) /\ u \in DOMAIN tempUserMap
  /\ sessionId < MaxSession
  /\ tempUserMap' = [tempUserMap EXCEPT ![u].session = sessionId + 1]
  /\ client' = [client EXCEPT ![u].session = sessionId + 1]
  /\ UNCHANGED <<loginUser, sessionHome, sessionId, alloc, opened, logoutQueue>>

\* PASS_SECRET_KEY: a new session id is generated and kept in tempUserMap.
PassSecretKey(u) ==
  /\ OnServerLink(u) /\ u \in DOMAIN tempUserMap
  /\ sessionId < MaxSession
  /\ sessionId' = sessionId + 1
  /\ tempUserMap' = [tempUserMap EXCEPT ![u].session = sessionId + 1]
  /\ client' = [client EXCEPT ![u].session = sessionId + 1]
  /\ UNCHANGED <<loginUser, sessionHome, alloc, opened, logoutQueue>>

\* LOGIN with the right password and the session of tempUserMap.  When the
\* telecom device of a host's home cannot be found (device = FALSE), the
\* handler leaves before the session is mapped and the reply is filled in.
Login(u, device) ==
  /\ OnServerLink(u) /\ u \in DOMAIN tempUserMap
  /\ client[u].session > 0 /\ client[u].session = tempUserMap[u].session
  /\ u \in Terminals => device
  /\ loginUser' = Put(loginUser, u, [tempUserMap[u] EXCEPT !.fresh = TRUE])
  /\ IF device
       THEN /\ sessionHome' = Put(sessionHome, client[u].session, HomeOf[u])
            /\ client' = [client EXCEPT ![u].online = TRUE]
       ELSE UNCHANGED <<sessionHome, client>>
  /\ UNCHANGED <<tempUserMap, sessionId, alloc, opened, logoutQueue>>

\* HEARTBEAT, request or response: refreshes the entry with that session.
Heartbeat(u) ==
  /\ OnServerLink(u) /\ u \in DOMAIN loginUser
  /\ client[u].session = loginUser[u].session
  /\ client[u].session \in DOMAIN sessionHome
  /\ loginUser' = [loginUser EXCEPT ![u].fresh = TRUE]
  /\ UNCHANGED <<tempUserMap, sessionHome, sessionId, alloc, opened, logoutQueue, client>>

\* DEVICE_OPERATION, from a client that is on line by its own knowledge:
\* refreshUserAliveTime saves the copy of tempUserMap in the login table.
DeviceOperation(u) ==
  /\ OnServerLink(u) /\ client[u].online
  /\ u \in DOMAIN tempUserMap
  /\ loginUser' = Put(loginUser, u, [tempUserMap[u] EXCEPT !.fresh = TRUE])
  /\ UNCHANGED <<tempUserMap, sessionHome, sessionId, alloc, opened, logoutQueue, client>>

\* UPDATE_QUERY does the same after a check that the session is logged in.
UpdateQuery(u) ==
  /\ client[u].session \in DOMAIN sessionHome
  /\ DeviceOperation(u)

\* For a user that is no longer in tempUserMap, find_user returns NULL and
\* refreshUserAliveTime dereferences it: the process dies and is started again.
Crash(u) ==
  /\ OnServerLink(u) /\ client[u].online
  /\ u \notin DOMAIN tempUserMap
  /\ tempUserMap' = EmptyMap
  /\ loginUser' = EmptyMap
  /\ sessionHome' = EmptyMap
  /\ sessionId' = 0
  /\ alloc' = EmptyMap
  /\ logoutQueue' = <<>>
  /\ UNCHANGED <<opened, client>>

\* LOGOUT, if the session is logged in (else GE_NO_LOGIN).
Logout(u) ==
  /\ OnServerLink(u)
  /\ client[u].session \in DOMAIN sessionHome
  /\ DoWhenLogout(u)
  /\ client' = [client EXCEPT ![u] = NewClient]
  /\ UNCHANGED <<sessionId, alloc, opened, logoutQueue>>

-----------------------------------------------------------------------------
(* Endings.                                                                *)

\* Variants: the slot is emptied in place and offered; the row is not refilled.
EmptiedSdpAt(vec, a) ==
  [i \in DOMAIN vec |-> IF vec[i].sdp # NoSdp /\ vec[i].sdp[1] = a
                          THEN [InitSlot EXCEPT !.flag = "s"] ELSE vec[i]]

ShortenedSdpAt(vec, a) == SelectSeq(vec, LAMBDA slot : slot.sdp = NoSdp \/ slot.sdp[1] # a)

\* handle_remote_destroy and handle_remote_timeout: the allocation at address
\* a ended, by a REFRESH with lifetime 0 or by expiry.  The decremented
\* reference and the erased slot stay in the handler's copy, which reaches
\* the login table only.
WithoutSdpAt(vec, a) ==
  LET gone == {i \in DOMAIN vec : vec[i].sdp # NoSdp /\ vec[i].sdp[1] = a}
  IN  IF gone = {} THEN vec
      ELSE LET p == CHOOSE i \in gone : \A j \in gone : i <= j
           IN  [i \in DOMAIN vec |-> IF i < p THEN vec[i]
                                     ELSE IF i < Len(vec) THEN vec[i + 1] ELSE InitSlot]

HandleDestroy(u, a) ==
  IF u \in DOMAIN tempUserMap /\ tempUserMap[u].reference - 1 > 0
    THEN /\ loginUser' =
              IF /\ tempUserMap[u].session \in DOMAIN sessionHome
                 /\ a \in SdpAddrs(tempUserMap[u].sdpVec)
                THEN Put(loginUser, u,
                         [tempUserMap[u] EXCEPT !.reference = @ - 1,
                                                !.sdpVec = WithoutSdpAt(@, a)])
                ELSE loginUser
         /\ UNCHANGED <<tempUserMap, sessionHome>>
    ELSE DoWhenLogout(u)

Destroy(a) ==
  /\ a \in DOMAIN alloc
  /\ HandleDestroy(alloc[a].user, a)
  /\ alloc' = ShutDown({a})
  /\ UNCHANGED <<sessionId, opened, logoutQueue, client>>

\* Time passes without a refresh of user u: the copy in tempUserMap is at
\* least as old as the one in the login table.
Elapse(u) ==
  /\ LifeDetection
  /\ tempUserMap' = [v \in DOMAIN tempUserMap |->
                       IF v = u THEN [tempUserMap[v] EXCEPT !.fresh = FALSE] ELSE tempUserMap[v]]
  /\ \/ UNCHANGED loginUser
     \/ loginUser' = [v \in DOMAIN loginUser |->
                        IF v = u THEN [loginUser[v] EXCEPT !.fresh = FALSE] ELSE loginUser[v]]
  /\ UNCHANGED <<sessionHome, sessionId, alloc, opened, logoutQueue, client>>

\* Variant: only users whose allocations are all gone count as expired.
ExpiredUnreachable(role) ==
  {u \in DOMAIN loginUser \cap role : ~loginUser[u].fresh /\ ~OnServerLink(u)}

\* TimerProcHost and TimerProcTerm: a copy of every expired user of the table
\* is queued.  A younger user that is about to expire is only sent a HEARTBEAT.
Expired(role) == {u \in DOMAIN loginUser \cap role : ~loginUser[u].fresh}

Orders(S) == {f \in [1 .. Cardinality(S) -> S] : \A u \in S : \E i \in DOMAIN f : f[i] = u}

TimerProc(role) ==
  /\ LifeDetection
  /\ Expired(role) # {}
  /\ Len(logoutQueue) + Cardinality(Expired(role)) <= MaxQueue
  /\ \E f \in Orders(Expired(role)) :
       logoutQueue' = logoutQueue
         \o [i \in DOMAIN f |-> [user |-> f[i], sdpVec |-> loginUser[f[i]].sdpVec]]
  /\ UNCHANGED <<tempUserMap, loginUser, sessionHome, sessionId, alloc, opened, client>>

\* Variant: the entry is read but stays at the front of the queue.
LogoutUserFront ==
  /\ logoutQueue # <<>>
  /\ alloc' = ShutDown(SdpAddrs(Head(logoutQueue).sdpVec))
  /\ DoWhenLogout(Head(logoutQueue).user)
  /\ UNCHANGED <<sessionId, opened, logoutQueue, client>>

\* logoutUserProc: the allocations named by the copy are shut down, and the
\* user of that name is logged out.
LogoutUser ==
  /\ logoutQueue # <<>>
  /\ logoutQueue' = Tail(logoutQueue)
  /\ alloc' = ShutDown(SdpAddrs(Head(logoutQueue).sdpVec))
  /\ DoWhenLogout(Head(logoutQueue).user)
  /\ UNCHANGED <<sessionId, opened, client>>

-----------------------------------------------------------------------------
Next ==
  \/ \E u \in Users, a \in Addrs, k \in Serials \cup {0} : Allocate(u, a, k)
  \/ \E a \in Addrs : SdphTooMany(a) \/ Destroy(a)
  \/ \E a \in Addrs, g \in Gens : Sdph(a, g) \/ SdplNew(a, g) \/ SdplAgain(a, g)
  \/ \E u \in Users : PassSecretKey(u) \/ Heartbeat(u) \/ DeviceOperation(u)
                        \/ UpdateQuery(u) \/ Crash(u) \/ Logout(u) \/ Elapse(u)
  \/ \E u \in Users, device \in BOOLEAN : Login(u, device)
  \/ \E role \in {Hosts, Terminals} : TimerProc(role)
  \/ LogoutUser

Spec == Init /\ [][Next]_vars

\* The timer threads and the logout thread never stop.  Strong fairness for the
\* timers: they are only held back by the bound on the queue, which the code
\* does not have.
FairSpec ==
  /\ Spec
  /\ WF_vars(LogoutUser)
  /\ SF_vars(TimerProc(Hosts))
  /\ SF_vars(TimerProc(Terminals))

-----------------------------------------------------------------------------
(* Properties.                                                             *)

\* A home's host has a row of NSlots slots, or none when only serials out of
\* range were announced; a terminal has one slot.
SlotCounts(u) == IF u \in Hosts THEN {0, NSlots} ELSE {1}

RecOK(u, user) == user \in UserRec /\ Len(user.sdpVec) \in SlotCounts(u)

TableOK(f) == DOMAIN f \subseteq Users /\ \A u \in DOMAIN f : RecOK(u, f[u])

MappingOK(f) == DOMAIN f \subseteq Sessions /\ \A s \in DOMAIN f : f[s] \in Homes

AllocOK(f) ==
  DOMAIN f \subseteq Addrs /\ \A a \in DOMAIN f : f[a] \in [user: Users, serial: Serials \cup {0}]

ClientRec == [session: 0 .. MaxSession, online: BOOLEAN, peer: Sdps \cup {NoSdp}]

QueueEntry == [user: Users, sdpVec: Seq(Slot)]

\* The type invariant: every table holds what its readers index, in particular
\* vectors of the length that SDPH and SDPL set up (handle_remote_destroy
\* refills what it erases).
TypeOK ==
  /\ TableOK(tempUserMap)
  /\ TableOK(loginUser)
  /\ MappingOK(sessionHome)
  /\ sessionId \in 0 .. MaxSession
  /\ AllocOK(alloc)
  /\ opened \in 0 .. MaxOpened
  /\ logoutQueue \in Seq(QueueEntry)
  /\ client \in [Users -> ClientRec]

\* The session ids the server holds for user u, in either table.
HeldIn(f, u) == {s \in Sessions : u \in DOMAIN f /\ f[u].session = s}

Held(u) == HeldIn(tempUserMap, u) \cup HeldIn(loginUser, u)

\* A session id belongs to one user: no two users hold the same id, whatever
\* the order of PASS_SECRET_KEY, re-login, logout and time-out, although stale
\* copies of a user are stored back (SDPL) and entries outlive their logout;
\* and where it is mapped, it is mapped to the home of its holder, so that
\* remove_host, remove_mobile and HEARTBEAT look in the right list.
SessionOwned ==
  /\ \A u, v \in Users : u # v => Held(u) \cap Held(v) = {}
  /\ \A u \in Users : \A s \in Held(u) :
        s <= sessionId /\ (s \in DOMAIN sessionHome => sessionHome[s] = HomeOf[u])
  /\ \A s \in DOMAIN sessionHome : s <= sessionId

\* The slots a host's row offers to terminals hold an SDP: what SDPL finds
\* single can be handed out.  (An empty slot flagged 's' would make every SDPL
\* of the home end in GE_OVER_MAX_CONNECT_COUNT while real slots are free.)
SingleHasSdp ==
  \A u \in DOMAIN loginUser : \A i \in FreeSlots(loginUser[u].sdpVec) :
     loginUser[u].sdpVec[i].sdp # NoSdp

\* reference never runs ahead of the SDPs in the row, through re-registrations
\* of a connection, of connection 0 and endings: handle_remote_destroy would
\* otherwise wait for allocations that nobody announced.
ReferenceWithinSdps ==
  \A u \in DOMAIN tempUserMap :
    LET user == tempUserMap[u]
    IN  user.reference \in
          0 .. Cardinality({i \in DOMAIN user.sdpVec : user.sdpVec[i].sdp # NoSdp})

\* A slot is paired with a terminal of the host's own home: pair_user and
\* restore_host_sdp meet on the same row.
PairedInHome ==
  \A h \in DOMAIN loginUser \cap Hosts : \A i \in DOMAIN loginUser[h].sdpVec :
    \A t \in Terminals : loginUser[h].sdpVec[i].client = t => HomeOf[t] = HomeOf[h]

\* Whoever leaves the tables of logged-in users (by LOGOUT, SDPL again,
\* time-out or the end of the last allocation) loses the session with it:
\* no request with that id passes has_login afterwards.
EndsSession ==
  \A u \in DOMAIN loginUser :
    u \notin DOMAIN loginUser' => loginUser[u].session \notin DOMAIN sessionHome'

DeregistrationEndsSession == [][EndsSession]_vars

\* A connection that is announced anew gives up its old allocation: an SDP
\* that a registered user's row drops has no allocation left.
ReplacedAllocationGone ==
  [][\A u \in DOMAIN tempUserMap \cap DOMAIN tempUserMap' :
       \A a \in SdpAddrs(tempUserMap[u].sdpVec) \ SdpAddrs(tempUserMap'[u].sdpVec) :
         a \notin DOMAIN alloc']_vars

SlotsOf(t, login) ==
  UNION {{h} \X {i \in DOMAIN login[h].sdpVec : login[h].sdpVec[i].client = t} :
           h \in DOMAIN login \cap Hosts}

\* A terminal that is logged out, for whatever reason and whether or not it had
\* logged in, gives a host slot back if it held one.
LogoutFreesSlot ==
  [][\A t \in Terminals \cap (DOMAIN tempUserMap \ DOMAIN tempUserMap') :
       SlotsOf(t, loginUser) # {} =>
         Cardinality(SlotsOf(t, loginUser')) < Cardinality(SlotsOf(t, loginUser))]_vars

Queued(u) == \E i \in DOMAIN logoutQueue : logoutQueue[i].user = u

\* A user that a timer queued is logged out in the end.
QueuedIsLoggedOut == \A u \in Users : Queued(u) ~> u \notin DOMAIN tempUserMap

\* Logged in as u, with the session that PASS_SECRET_KEY gave last.
Current(u, s) ==
  /\ u \in DOMAIN loginUser /\ loginUser[u].session = s /\ s \in DOMAIN sessionHome
  /\ u \in DOMAIN tempUserMap /\ tempUserMap[u].session = s

\* A silent user does not stay: once its liveTime has expired, it is taken from
\* the table of logged-in users, unless it is heard from or changes its session.
SilentIsLoggedOut ==
  \A u \in Users : \A s \in Sessions :
    (Current(u, s) /\ ~loginUser[u].fresh) ~> (Current(u, s) => loginUser[u].fresh)
=============================================================================
