---------------------- MODULE SessionRegistrySlotProofs ----------------------
(***************************************************************************)
(* Proofs about the slots of the rows of SessionRegistry, for every set of *)
(* hosts, terminals, homes and addresses and every bound: what a host      *)
(* offers holds an SDP, a paired slot stays in the home, and reference     *)
(* never runs ahead of the SDPs of the row.                                *)
(***************************************************************************)
EXTENDS SessionRegistryProofs, WellFoundedInduction

\* The strengthening.  A slot that is single or has a client holds an SDP: it is
\* the client that restore_host_sdp looks for, and it makes the slot single.
\* It speaks of both tables, since rows are copied from one to the other.
SlotOK(u, slot) ==
  /\ slot.flag = "s" \/ slot.client # "" => slot.sdp # NoSdp
  /\ u \in Hosts => \A t \in Terminals : slot.client = t => HomeOf[t] = HomeOf[u]

SlotsOK(u, vec) == \A i \in DOMAIN vec : SlotOK(u, vec[i])

SlotTable(f) == \A u \in DOMAIN f : SlotsOK(u, f[u].sdpVec)

SlotInv == SlotTable(tempUserMap) /\ SlotTable(loginUser)

-----------------------------------------------------------------------------
(* Tables and slots.                                                       *)

LEMMA PutSlots ==
  ASSUME NEW f, SlotTable(f), NEW u, NEW user, SlotsOK(u, user.sdpVec)
  PROVE  SlotTable(Put(f, u, user))
<1>1. ASSUME NEW x \in DOMAIN Put(f, u, user)
      PROVE  SlotsOK(x, Put(f, u, user)[x].sdpVec)
  <2>1. CASE x = u
    BY <1>1, <2>1 DEF Put
  <2>2. CASE x # u
    <3>1. x \in DOMAIN f /\ Put(f, u, user)[x] = f[x]
      BY <1>1, <2>2 DEF Put
    <3> QED
      BY <3>1 DEF SlotTable
  <2> QED
    BY <2>1, <2>2
<1> QED
  BY <1>1 DEF SlotTable

LEMMA EraseSlots ==
  ASSUME NEW f, SlotTable(f), NEW S
  PROVE  SlotTable(Erase(f, S))
  BY DEF SlotTable, Erase

\* "" and "server" are the names of no terminal.
LEMMA InitSlotOK ==
  ASSUME NEW u
  PROVE  SlotOK(u, InitSlot)
<1>1. "" \notin Terminals
  BY UsersAssumption DEF Users
<1> QED
  BY <1>1 DEF SlotOK, InitSlot

LEMMA NewUserSlots ==
  ASSUME NEW u, NEW n \in Nat
  PROVE  SlotsOK(u, NewUser(n).sdpVec)
  BY InitSlotOK DEF SlotsOK, NewUser

LEMMA HostUserSlots ==
  ASSUME SlotInv, NEW u
  PROVE  SlotsOK(u, HostUser(u).sdpVec)
<1>1. NSlots \in Nat
  BY BoundsAssumption
<1> QED
  BY <1>1, NewUserSlots DEF HostUser, SlotInv, SlotTable

\* SDPH: the slot takes a new SDP, and the server or nobody as its client.
LEMMA WithHostSdpSlots ==
  ASSUME NEW u, NEW user, RecOK(u, user), SlotsOK(u, user.sdpVec), NEW k, NEW x \in Sdps
  PROVE  SlotsOK(u, WithHostSdp(user, k, x).sdpVec)
<1>1. SlotOK(u, HostSlot(k, x))
  <2>1. "" \notin Terminals /\ "server" \notin Terminals /\ x # NoSdp
    BY UsersAssumption, SdpAssumption DEF Users
  <2> QED
    BY <2>1 DEF SlotOK, HostSlot
<1>2. WithHostSdp(user, k, x).sdpVec = [user.sdpVec EXCEPT ![k + 1] = HostSlot(k, x)]
  BY DEF WithHostSdp, RecOK, UserRec
<1> QED
  BY <1>1, <1>2 DEF SlotsOK

\* SDPL: the terminal's only slot is single, and holds the SDP.
LEMMA WithTerminalSdpSlots ==
  ASSUME NEW u \in Terminals, NEW user, RecOK(u, user), NEW x \in Sdps
  PROVE  SlotsOK(u, WithTerminalSdp(user, x).sdpVec)
<1> DEFINE slot == [sdp |-> x, flag |-> "s", client |-> ""]
<1>1. SlotOK(u, slot)
  <2>1. "" \notin Terminals /\ x # NoSdp
    BY UsersAssumption, SdpAssumption DEF Users
  <2> QED
    BY <2>1 DEF SlotOK
<1>2. WithTerminalSdp(user, x).sdpVec = [user.sdpVec EXCEPT ![1] = slot]
  BY DEF WithTerminalSdp, RecOK, UserRec
<1>3. user.sdpVec \in Seq(Slot) /\ Len(user.sdpVec) = 1
  BY UsersAssumption DEF RecOK, UserRec, SlotCounts
<1> HIDE DEF slot
<1> QED
  BY <1>1, <1>2, <1>3 DEF SlotsOK

\* A terminal takes a single slot of a host of its home.
LEMMA PairSlotSlots ==
  ASSUME NEW h \in Hosts, NEW vec \in Seq(Slot), SlotsOK(h, vec), NEW i \in FreeSlots(vec),
         NEW u \in Terminals, HomeOf[u] = HomeOf[h]
  PROVE  SlotsOK(h, PairSlot(vec, i, u))
<1>1. i \in DOMAIN vec /\ vec[i] \in Slot /\ vec[i].flag = "s"
  BY ElementOfSeq, LenProperties DEF FreeSlots
<1> DEFINE slot == [vec[i] EXCEPT !.flag = "p", !.client = u]
<1>2. SlotOK(h, slot)
  <2>1. slot.sdp = vec[i].sdp /\ slot.flag = "p" /\ slot.client = u
    BY <1>1 DEF Slot
  <2>2. vec[i].sdp # NoSdp
    BY <1>1 DEF SlotsOK, SlotOK
  <2> HIDE DEF slot
  <2> QED
    BY <2>1, <2>2 DEF SlotOK
<1>3. PairSlot(vec, i, u) = [vec EXCEPT ![i] = slot]
  BY <1>1 DEF PairSlot, Slot
<1> HIDE DEF slot
<1> QED
  BY <1>2, <1>3 DEF SlotsOK

\* restore_host_sdp makes a slot single that had a client, hence an SDP.
LEMMA RestoreSlotsSlots ==
  ASSUME NEW h, NEW vec \in Seq(Slot), SlotsOK(h, vec), NEW u \in Users
  PROVE  SlotsOK(h, RestoreSlots(vec, u))
<1>1. u # "" /\ "" \notin Terminals
  BY UsersAssumption DEF Users
<1>2. DOMAIN RestoreSlots(vec, u) = DOMAIN vec
  BY DEF RestoreSlots
<1>3. ASSUME NEW i \in DOMAIN vec
      PROVE  SlotOK(h, RestoreSlots(vec, u)[i])
  <2>1. vec[i] \in Slot /\ SlotOK(h, vec[i])
    BY <1>3, ElementOfSeq, LenProperties DEF SlotsOK
  <2>2. CASE RestoreSlots(vec, u)[i] = vec[i]
    BY <2>1, <2>2
  <2> DEFINE slot == [vec[i] EXCEPT !.flag = "s", !.client = ""]
  <2>3. CASE vec[i].client = u /\ RestoreSlots(vec, u)[i] = slot
    <3>1. slot.sdp = vec[i].sdp /\ slot.client = ""
      BY <2>1 DEF Slot
    <3>2. vec[i].sdp # NoSdp
      BY <1>1, <2>1, <2>3 DEF SlotOK
    <3> HIDE DEF slot
    <3> QED
      BY <1>1, <2>3, <3>1, <3>2 DEF SlotOK
  <2> QED
    BY <1>3, <2>2, <2>3 DEF RestoreSlots
<1> QED
  BY <1>2, <1>3 DEF SlotsOK

\* handle_remote_destroy moves slots up and refills with an empty one.
LEMMA WithoutSdpAtSlots ==
  ASSUME NEW u, NEW vec \in Seq(Slot), SlotsOK(u, vec), NEW a
  PROVE  SlotsOK(u, WithoutSdpAt(vec, a))
<1> DEFINE gone == {i \in DOMAIN vec : vec[i].sdp # NoSdp /\ vec[i].sdp[1] = a}
           p == CHOOSE i \in gone : \A j \in gone : i <= j
           rest == [i \in DOMAIN vec |-> IF i < p THEN vec[i]
                                         ELSE IF i < Len(vec) THEN vec[i + 1] ELSE InitSlot]
<1>1. Len(vec) \in Nat /\ DOMAIN vec = 1 .. Len(vec)
  BY LenProperties
<1>2. ASSUME NEW i \in DOMAIN vec
      PROVE  SlotOK(u, vec[i]) /\ (i < Len(vec) => SlotOK(u, vec[i + 1]))
  BY <1>1, <1>2 DEF SlotsOK
<1> HIDE DEF p
<1>3. ASSUME NEW i \in DOMAIN rest
      PROVE  SlotOK(u, rest[i])
  BY <1>2, <1>3, InitSlotOK
<1>4. SlotsOK(u, rest)
  BY <1>3 DEF SlotsOK
<1> QED
  BY <1>4 DEF WithoutSdpAt, p

-----------------------------------------------------------------------------
(* The steps that several actions share.                                   *)

LEMMA RestoreHostSdpSlots ==
  ASSUME NEW f, TableOK(f), SlotTable(f), NEW h, NEW u \in Users
  PROVE  SlotTable(RestoreHostSdp(f, h, u))
<1>1. DOMAIN RestoreHostSdp(f, h, u) = DOMAIN f
  BY DEF RestoreHostSdp
<1>2. ASSUME NEW v \in DOMAIN f
      PROVE  SlotsOK(v, RestoreHostSdp(f, h, u)[v].sdpVec)
  <2>1. f[v] \in UserRec /\ f[v].sdpVec \in Seq(Slot) /\ SlotsOK(v, f[v].sdpVec)
    BY <1>2 DEF TableOK, SlotTable, RecOK, UserRec
  <2>2. SlotsOK(v, RestoreSlots(f[v].sdpVec, u))
    BY <2>1, RestoreSlotsSlots
  <2>3. RestoreHostSdp(f, h, u)[v].sdpVec \in {f[v].sdpVec, RestoreSlots(f[v].sdpVec, u)}
    BY <1>2, <2>1 DEF RestoreHostSdp, UserRec
  <2> QED
    BY <2>1, <2>2, <2>3
<1> QED
  BY <1>1, <1>2 DEF SlotTable

LEMMA LogoutLoginSlots ==
  ASSUME TypeOK, SlotInv, NEW u \in Users
  PROVE  SlotTable(LogoutLogin(u))
<1> DEFINE s == tempUserMap[u].session
           h == IF s \in DOMAIN sessionHome THEN sessionHome[s] ELSE HomeOf[u]
           rest == IF s \in DOMAIN sessionHome THEN RemoveBySession(loginUser, h, s)
                                               ELSE loginUser
<1>1. TableOK(loginUser) /\ SlotTable(loginUser)
  BY DEF TypeOK, SlotInv
<1>2. TableOK(rest) /\ SlotTable(rest)
  BY <1>1, EraseTable, EraseSlots DEF RemoveBySession
<1>3. LogoutLogin(u) = RestoreHostSdp(rest, h, u)
  BY DEF LogoutLogin
<1> HIDE DEF rest, h
<1> QED
  BY <1>2, <1>3, RestoreHostSdpSlots

LEMMA DoWhenLogoutSlots ==
  ASSUME TypeOK, SlotInv, NEW u, DoWhenLogout(u)
  PROVE  SlotInv'
<1>1. CASE u \in DOMAIN tempUserMap
  <2>1. u \in Users
    BY <1>1 DEF TypeOK, TableOK
  <2>2. SlotTable(LogoutLogin(u)) /\ SlotTable(Erase(tempUserMap, {u}))
    BY <2>1, LogoutLoginSlots, EraseSlots DEF SlotInv
  <2> QED
    BY <1>1, <2>2 DEF DoWhenLogout, SlotInv
<1>2. CASE u \notin DOMAIN tempUserMap
  BY <1>2 DEF DoWhenLogout, SlotInv
<1> QED
  BY <1>1, <1>2

LEMMA PairTerminalSlots ==
  ASSUME NEW u \in Terminals, NEW login, TableOK(login), SlotTable(login),
         PairTerminal(u, login)
  PROVE  SlotTable(loginUser')
<1>1. ASSUME NEW h \in DOMAIN login \cap Hosts, HomeOf[h] = HomeOf[u],
             NEW i \in DOMAIN login[h].sdpVec, IsFirstFree(login[h].sdpVec, i),
             loginUser' = [login EXCEPT ![h].sdpVec = PairSlot(@, i, u)]
      PROVE  SlotTable(loginUser')
  <2>1. login[h] \in UserRec /\ login[h].sdpVec \in Seq(Slot) /\ SlotsOK(h, login[h].sdpVec)
    BY DEF TableOK, SlotTable, RecOK, UserRec
  <2>2. SlotsOK(h, PairSlot(login[h].sdpVec, i, u))
    BY <1>1, <2>1, PairSlotSlots DEF IsFirstFree
  <2>3. DOMAIN loginUser' = DOMAIN login
    BY <1>1
  <2>4. ASSUME NEW v \in DOMAIN login
        PROVE  SlotsOK(v, loginUser'[v].sdpVec)
    <3>1. CASE v = h
      <4>1. loginUser'[v].sdpVec = PairSlot(login[h].sdpVec, i, u)
        BY <1>1, <2>1, <3>1 DEF UserRec
      <4> QED
        BY <2>2, <3>1, <4>1
    <3>2. CASE v # h
      BY <1>1, <2>4, <3>2 DEF SlotTable
    <3> QED
      BY <3>1, <3>2
  <2> QED
    BY <2>3, <2>4 DEF SlotTable
<1>2. CASE loginUser' = login
  BY <1>2
<1> QED
  BY <1>1, <1>2 DEF PairTerminal

\* Steps that change no vector: liveTime and the session of rows.
LEMMA SameSlots ==
  ASSUME NEW f, NEW f2, SlotTable(f), DOMAIN f2 = DOMAIN f,
         \A v \in DOMAIN f : f2[v].sdpVec = f[v].sdpVec
  PROVE  SlotTable(f2)
  BY DEF SlotTable

LEMMA FreshnessSlots ==
  ASSUME NEW f, TableOK(f), SlotTable(f), NEW u, NEW b
  PROVE  SlotTable([v \in DOMAIN f |-> IF v = u THEN [f[v] EXCEPT !.fresh = b] ELSE f[v]])
<1> DEFINE f2 == [v \in DOMAIN f |-> IF v = u THEN [f[v] EXCEPT !.fresh = b] ELSE f[v]]
<1>1. \A v \in DOMAIN f : f2[v].sdpVec = f[v].sdpVec
  BY DEF TableOK, RecOK, UserRec
<1> QED
  BY <1>1, SameSlots

LEMMA FreshCopySlots ==
  ASSUME TypeOK, SlotInv, NEW u \in DOMAIN tempUserMap
  PROVE  SlotTable(Put(loginUser, u, [tempUserMap[u] EXCEPT !.fresh = TRUE]))
<1>1. tempUserMap[u] \in UserRec /\ SlotsOK(u, tempUserMap[u].sdpVec)
  BY DEF TypeOK, TableOK, RecOK, SlotInv, SlotTable
<1>2. [tempUserMap[u] EXCEPT !.fresh = TRUE].sdpVec = tempUserMap[u].sdpVec
  BY <1>1 DEF UserRec
<1> QED
  BY <1>1, <1>2, PutSlots DEF SlotInv

-----------------------------------------------------------------------------
(* The steps.                                                              *)

LEMMA SlotsSdphTooMany ==
  ASSUME SlotInv, NEW a \in Addrs, SdphTooMany(a)
  PROVE  SlotInv'
<1> DEFINE u == alloc[a].user
<1>1. SlotTable(Put(tempUserMap, u, NewUser(0)))
  BY NewUserSlots, PutSlots, 0 \in Nat DEF SlotInv
<1> QED
  BY <1>1 DEF SdphTooMany, SlotInv

LEMMA SlotsSdph ==
  ASSUME TypeOK, SlotInv, NEW a \in Addrs, NEW g \in Gens, Sdph(a, g)
  PROVE  SlotInv'
<1> DEFINE u == alloc[a].user
           k == alloc[a].serial
           row == WithHostSdp(HostUser(u), k, <<a, g>>)
<1>1. /\ u \in Hosts
      /\ tempUserMap' = Put(tempUserMap, u, row)
      /\ loginUser' = Put(loginUser, u, row) \/ loginUser' = loginUser
  BY DEF Sdph
<1>2. <<a, g>> \in Sdps
  BY DEF Sdps
<1> HIDE DEF u, k
<1>3. SlotsOK(u, row.sdpVec)
  BY <1>1, <1>2, HostUserOK, HostUserSlots, WithHostSdpSlots
<1> HIDE DEF row
<1> QED
  BY <1>1, <1>3, PutSlots DEF SlotInv

LEMMA SlotsSdplNew ==
  ASSUME TypeOK, SlotInv, NEW a \in Addrs, NEW g \in Gens, SdplNew(a, g)
  PROVE  SlotInv'
<1> DEFINE u == alloc[a].user
           row == WithTerminalSdp(TerminalUser(u), <<a, g>>)
           login == IF Replaced(TerminalUser(u).sdpVec, 1) = {} THEN loginUser
                                                               ELSE LogoutLogin(u)
<1>1. /\ u \in Terminals /\ u \in Users
      /\ tempUserMap' = Put(tempUserMap, u, row)
      /\ PairTerminal(u, login)
  BY DEF SdplNew, Users
<1>2. <<a, g>> \in Sdps
  BY DEF Sdps
<1> HIDE DEF u
<1>3. TableOK(login) /\ SlotTable(login)
  BY <1>1, LogoutLoginOK, LogoutLoginSlots DEF TypeOK, SlotInv
<1>4. SlotsOK(u, row.sdpVec)
  BY <1>1, <1>2, TerminalUserOK, WithTerminalSdpSlots
<1> HIDE DEF row, login
<1>5. SlotTable(tempUserMap')
  BY <1>1, <1>4, PutSlots DEF SlotInv
<1>6. SlotTable(loginUser')
  BY <1>1, <1>3, PairTerminalSlots
<1> QED
  BY <1>5, <1>6 DEF SlotInv

LEMMA SlotsSdplAgain ==
  ASSUME TypeOK, SlotInv, NEW a \in Addrs, NEW g \in Gens, SdplAgain(a, g)
  PROVE  SlotInv'
<1> DEFINE u == alloc[a].user
<1>1. u \in Terminals /\ PairTerminal(u, loginUser) /\ tempUserMap' = tempUserMap
  BY DEF SdplAgain
<1> HIDE DEF u
<1>2. SlotTable(loginUser')
  BY <1>1, PairTerminalSlots DEF TypeOK, SlotInv
<1> QED
  BY <1>1, <1>2 DEF SlotInv

LEMMA SlotsPassSecretKey ==
  ASSUME TypeOK, SlotInv, NEW u \in Users, PassSecretKey(u)
  PROVE  SlotInv'
<1>1. \A v \in DOMAIN tempUserMap : tempUserMap'[v].sdpVec = tempUserMap[v].sdpVec
  BY DEF PassSecretKey, TypeOK, TableOK, RecOK, UserRec
<1>2. DOMAIN tempUserMap' = DOMAIN tempUserMap /\ loginUser' = loginUser
  BY DEF PassSecretKey
<1> QED
  BY <1>1, <1>2, SameSlots DEF SlotInv

LEMMA SlotsHeartbeat ==
  ASSUME TypeOK, SlotInv, NEW u \in Users, Heartbeat(u)
  PROVE  SlotInv'
<1>1. /\ tempUserMap' = tempUserMap
      /\ loginUser' = [v \in DOMAIN loginUser |->
                         IF v = u THEN [loginUser[v] EXCEPT !.fresh = TRUE] ELSE loginUser[v]]
  BY DEF Heartbeat
<1>2. SlotTable(loginUser')
  BY <1>1, FreshnessSlots DEF TypeOK, SlotInv
<1> QED
  BY <1>1, <1>2 DEF SlotInv

LEMMA SlotsElapse ==
  ASSUME TypeOK, SlotInv, NEW u \in Users, Elapse(u)
  PROVE  SlotInv'
<1>1. SlotTable(tempUserMap')
  <2>1. tempUserMap' =
          [v \in DOMAIN tempUserMap |->
             IF v = u THEN [tempUserMap[v] EXCEPT !.fresh = FALSE] ELSE tempUserMap[v]]
    BY DEF Elapse
  <2> QED
    BY <2>1, FreshnessSlots DEF TypeOK, SlotInv
<1>2. CASE loginUser' = loginUser
  BY <1>1, <1>2 DEF SlotInv
<1>3. CASE loginUser' = [v \in DOMAIN loginUser |->
             IF v = u THEN [loginUser[v] EXCEPT !.fresh = FALSE] ELSE loginUser[v]]
  <2>1. SlotTable(loginUser')
    BY <1>3, FreshnessSlots DEF TypeOK, SlotInv
  <2> QED
    BY <1>1, <2>1 DEF SlotInv
<1> QED
  BY <1>2, <1>3 DEF Elapse

\* DEVICE_OPERATION, UPDATE_QUERY and LOGIN copy the row of tempUserMap.
LEMMA SlotsFreshCopy ==
  ASSUME TypeOK, SlotInv, NEW u \in Users,
         \/ DeviceOperation(u)
         \/ \E device \in BOOLEAN : Login(u, device)
  PROVE  SlotInv'
<1>1. /\ u \in DOMAIN tempUserMap /\ tempUserMap' = tempUserMap
      /\ loginUser' = Put(loginUser, u, [tempUserMap[u] EXCEPT !.fresh = TRUE])
  BY DEF DeviceOperation, Login
<1> QED
  BY <1>1, FreshCopySlots DEF SlotInv

LEMMA SlotsDestroy ==
  ASSUME TypeOK, SlotInv, NEW u, NEW a, HandleDestroy(u, a)
  PROVE  SlotInv'
<1>1. CASE DoWhenLogout(u)
  BY <1>1, DoWhenLogoutSlots
<1>2. CASE UNCHANGED <<tempUserMap, loginUser>>
  BY <1>2 DEF SlotInv
<1> DEFINE vec == WithoutSdpAt(tempUserMap[u].sdpVec, a)
           row == [tempUserMap[u] EXCEPT !.reference = @ - 1, !.sdpVec = vec]
<1>3. CASE /\ u \in DOMAIN tempUserMap /\ tempUserMap' = tempUserMap
           /\ loginUser' = Put(loginUser, u, row)
  <2>1. tempUserMap[u] \in UserRec /\ SlotsOK(u, tempUserMap[u].sdpVec)
    BY <1>3 DEF TypeOK, TableOK, RecOK, SlotInv, SlotTable
  <2>2. SlotsOK(u, vec)
    BY <2>1, WithoutSdpAtSlots DEF UserRec
  <2> HIDE DEF vec
  <2>3. row.sdpVec = vec
    BY <2>1 DEF UserRec
  <2> HIDE DEF row
  <2>4. SlotTable(Put(loginUser, u, row))
    BY <2>2, <2>3, PutSlots DEF SlotInv
  <2> QED
    BY <1>3, <2>4 DEF SlotInv
<1> QED
  BY <1>1, <1>2, <1>3 DEF HandleDestroy

LEMMA SlotsNext == TypeOK /\ SlotInv /\ [Next]_vars => SlotInv'
<1> SUFFICES ASSUME TypeOK, SlotInv, [Next]_vars PROVE SlotInv'
  OBVIOUS
<1>1. CASE \E u \in Users, a \in Addrs, k \in Serials \cup {0} : Allocate(u, a, k)
  BY <1>1 DEF Allocate, SlotInv
<1>2. CASE \E a \in Addrs : SdphTooMany(a)
  BY <1>2, SlotsSdphTooMany
<1>3. CASE \E a \in Addrs : Destroy(a)
  BY <1>3, SlotsDestroy DEF Destroy
<1>4. CASE \E a \in Addrs, g \in Gens : Sdph(a, g)
  BY <1>4, SlotsSdph
<1>5. CASE \E a \in Addrs, g \in Gens : SdplNew(a, g)
  BY <1>5, SlotsSdplNew
<1>6. CASE \E a \in Addrs, g \in Gens : SdplAgain(a, g)
  BY <1>6, SlotsSdplAgain
<1>7. CASE \E u \in Users : PassSecretKey(u)
  BY <1>7, SlotsPassSecretKey
<1>8. CASE \E u \in Users : Heartbeat(u)
  BY <1>8, SlotsHeartbeat
<1>9. CASE \E u \in Users : DeviceOperation(u) \/ UpdateQuery(u)
  BY <1>9, SlotsFreshCopy DEF UpdateQuery
<1>10. CASE \E u \in Users : Crash(u)
  BY <1>10 DEF Crash, SlotInv, SlotTable, EmptyMap
<1>11. CASE \E u \in Users : Logout(u)
  BY <1>11, DoWhenLogoutSlots DEF Logout
<1>12. CASE \E u \in Users : Elapse(u)
  BY <1>12, SlotsElapse
<1>13. CASE \E u \in Users, device \in BOOLEAN : Login(u, device)
  BY <1>13, SlotsFreshCopy
<1>14. CASE \E role \in {Hosts, Terminals} : TimerProc(role)
  BY <1>14 DEF TimerProc, SlotInv
<1>15. CASE LogoutUser
  BY <1>15, DoWhenLogoutSlots DEF LogoutUser
<1>16. CASE UNCHANGED vars
  BY <1>16 DEF vars, SlotInv
<1> QED
  BY <1>1, <1>2, <1>3, <1>4, <1>5, <1>6, <1>7, <1>8, <1>9, <1>10, <1>11, <1>12,
     <1>13, <1>14, <1>15, <1>16 DEF Next

LEMMA SlotsInit == Init => SlotInv
  BY DEF Init, SlotInv, SlotTable, EmptyMap

\* Whatever a row of a logged-in user offers to terminals holds an SDP, in every
\* reachable state: through endings that move slots, and logouts that free them.
THEOREM OffersHoldSdps == Spec => []SingleHasSdp
<1>1. SlotInv => SingleHasSdp
  BY DEF SlotInv, SlotTable, SlotsOK, SlotOK, SingleHasSdp, FreeSlots
<1> QED
  BY <1>1, TypeCorrect, SlotsInit, SlotsNext, PTL DEF Spec

\* A terminal is the client of slots of hosts of its own home only, with any
\* number of homes and of terminals in each.
THEOREM PairsStayInHome == Spec => []PairedInHome
<1>1. SlotInv => PairedInHome
  BY DEF SlotInv, SlotTable, SlotsOK, SlotOK, PairedInHome
<1> QED
  BY <1>1, TypeCorrect, SlotsInit, SlotsNext, PTL DEF Spec

-----------------------------------------------------------------------------
(* reference.  The row of tempUserMap is changed by SDPH and SDPL only: an *)
(* ending decrements the copy that goes to the login table.                *)

Filled(vec) == {i \in DOMAIN vec : vec[i].sdp # NoSdp}

RefOK(user) == user.reference \in 0 .. Cardinality(Filled(user.sdpVec))

LEMMA FilledCount ==
  ASSUME NEW vec \in Seq(Slot)
  PROVE  IsFiniteSet(Filled(vec)) /\ Cardinality(Filled(vec)) \in Nat
<1>1. Len(vec) \in Nat /\ DOMAIN vec = 1 .. Len(vec)
  BY LenProperties
<1>2. IsFiniteSet(1 .. Len(vec))
  BY <1>1, FS_Interval
<1>3. Filled(vec) \subseteq 1 .. Len(vec)
  BY <1>1 DEF Filled
<1> QED
  BY <1>2, <1>3, FS_Subset, FS_CardinalityType

\* A row just read holds no SDP, and its reference is 0.
LEMMA NewUserRef ==
  ASSUME NEW n \in Nat
  PROVE  RefOK(NewUser(n))
<1>1. Filled(NewUser(n).sdpVec) = {}
  BY DEF Filled, NewUser, InitSlot
<1>2. NewUser(n).reference = 0
  BY DEF NewUser
<1> QED
  BY <1>1, <1>2, FS_EmptySet DEF RefOK

LEMMA HostUserRef ==
  ASSUME ReferenceWithinSdps, NEW u
  PROVE  RefOK(HostUser(u))
<1>1. CASE u \in DOMAIN tempUserMap
  BY <1>1 DEF HostUser, ReferenceWithinSdps, RefOK, Filled
<1>2. CASE u \notin DOMAIN tempUserMap
  BY <1>2, BoundsAssumption, NewUserRef DEF HostUser
<1> QED
  BY <1>1, <1>2

\* SDPH counts an SDP when the slot was empty; connection 0 starts over.
LEMMA WithHostSdpRef ==
  ASSUME NEW u, NEW user, RecOK(u, user), RefOK(user),
         NEW k \in Nat, k < Len(user.sdpVec), NEW x \in Sdps
  PROVE  RefOK(WithHostSdp(user, k, x))
<1> DEFINE vec == user.sdpVec
           vec2 == [vec EXCEPT ![k + 1] = HostSlot(k, x)]
<1>1. /\ user.reference \in Int /\ vec \in Seq(Slot)
      /\ DOMAIN vec = 1 .. Len(vec) /\ Len(vec) \in Nat
  BY LenProperties DEF RecOK, UserRec
<1>2. k + 1 \in DOMAIN vec
  BY <1>1
<1>3. Filled(vec2) = Filled(vec) \cup {k + 1}
  <2>1. HostSlot(k, x).sdp # NoSdp
    BY SdpAssumption DEF HostSlot
  <2> QED
    BY <1>2, <2>1 DEF Filled
<1>4. WithHostSdp(user, k, x).sdpVec = vec2
      /\ WithHostSdp(user, k, x).reference = HostReference(user, k)
  BY DEF WithHostSdp, RecOK, UserRec
<1>5. IsFiniteSet(Filled(vec)) /\ Cardinality(Filled(vec)) \in Nat
  BY <1>1, FilledCount
<1> DEFINE base == IF k = 0 THEN 0 ELSE user.reference
<1>6. base \in 0 .. Cardinality(Filled(vec))
  BY <1>1, <1>5 DEF RefOK
<1>7. HostReference(user, k) \in 0 .. Cardinality(Filled(vec2))
  <2>1. CASE vec[k + 1].sdp = NoSdp
    <3>1. HostReference(user, k) = base + 1
      BY <2>1 DEF HostReference
    <3>2. k + 1 \notin Filled(vec)
      BY <2>1 DEF Filled
    <3>3. Cardinality(Filled(vec2)) = Cardinality(Filled(vec)) + 1
      BY <1>3, <1>5, <3>2, FS_AddElement
    <3> HIDE DEF base, vec, vec2
    <3> QED
      BY <1>5, <1>6, <3>1, <3>3
  <2>2. CASE vec[k + 1].sdp # NoSdp
    <3>1. HostReference(user, k) = base
      BY <2>2 DEF HostReference
    <3>2. Filled(vec2) = Filled(vec)
      BY <1>2, <1>3, <2>2 DEF Filled
    <3> QED
      BY <1>6, <3>1, <3>2
  <2> QED
    BY <2>1, <2>2
<1> QED
  BY <1>4, <1>7 DEF RefOK

\* SDPL: one slot, one SDP, reference 1.
LEMMA WithTerminalSdpRef ==
  ASSUME NEW u \in Terminals, NEW user, RecOK(u, user), NEW x \in Sdps
  PROVE  RefOK(WithTerminalSdp(user, x))
<1> DEFINE slot == [sdp |-> x, flag |-> "s", client |-> ""]
           vec == [user.sdpVec EXCEPT ![1] = slot]
<1>1. user.sdpVec \in Seq(Slot) /\ Len(user.sdpVec) = 1
  BY UsersAssumption DEF RecOK, UserRec, SlotCounts
<1>2. DOMAIN user.sdpVec = 1 .. 1
  BY <1>1, LenProperties
<1>3. x # NoSdp
  BY SdpAssumption
<1>4. Filled(vec) = {1}
  BY <1>2, <1>3 DEF Filled
<1>5. WithTerminalSdp(user, x).sdpVec = vec /\ WithTerminalSdp(user, x).reference = 1
  BY DEF WithTerminalSdp, RecOK, UserRec
<1> DEFINE n == Cardinality(Filled(WithTerminalSdp(user, x).sdpVec))
<1>6. n = 1
  BY <1>4, <1>5, FS_Singleton
<1> HIDE DEF n, vec
<1>7. WithTerminalSdp(user, x).reference \in 0 .. n
  BY <1>5, <1>6
<1> QED
  BY <1>7 DEF RefOK, n

LEMMA PutRef ==
  ASSUME ReferenceWithinSdps, NEW u, NEW user, RefOK(user),
         tempUserMap' = Put(tempUserMap, u, user)
  PROVE  ReferenceWithinSdps'
<1>1. ASSUME NEW v \in DOMAIN tempUserMap'
      PROVE  RefOK(tempUserMap'[v])
  <2>1. CASE v = u
    <3>1. tempUserMap'[v] = user
      BY <1>1, <2>1 DEF Put
    <3> QED
      BY <3>1
  <2>2. CASE v # u
    <3>1. v \in DOMAIN tempUserMap /\ tempUserMap'[v] = tempUserMap[v]
      BY <1>1, <2>2 DEF Put
    <3>2. RefOK(tempUserMap[v])
      BY <3>1 DEF ReferenceWithinSdps, RefOK, Filled
    <3> QED
      BY <3>1, <3>2
  <2> QED
    BY <2>1, <2>2
<1> QED
  BY <1>1 DEF ReferenceWithinSdps, RefOK, Filled

\* Steps that erase rows, or change a session or liveTime.
LEMMA KeptRef ==
  ASSUME ReferenceWithinSdps, DOMAIN tempUserMap' \subseteq DOMAIN tempUserMap,
         \A v \in DOMAIN tempUserMap' :
            /\ tempUserMap'[v].reference = tempUserMap[v].reference
            /\ tempUserMap'[v].sdpVec = tempUserMap[v].sdpVec
  PROVE  ReferenceWithinSdps'
  BY DEF ReferenceWithinSdps

LEMMA LogoutRef ==
  ASSUME ReferenceWithinSdps, NEW u, DoWhenLogout(u)
  PROVE  ReferenceWithinSdps'
  BY KeptRef DEF DoWhenLogout, Erase

LEMMA RefSdph ==
  ASSUME TypeOK, ReferenceWithinSdps, NEW a \in Addrs, NEW g \in Gens, Sdph(a, g)
  PROVE  ReferenceWithinSdps'
<1> DEFINE u == alloc[a].user
           k == alloc[a].serial
<1>1. /\ a \in DOMAIN alloc /\ u \in Hosts
      /\ k < Len(HostUser(u).sdpVec)
      /\ tempUserMap' = Put(tempUserMap, u, WithHostSdp(HostUser(u), k, <<a, g>>))
  BY DEF Sdph
<1>2. k \in Nat
  <2>1. alloc[a] \in [user : Users, serial : Serials \cup {0}]
    BY <1>1 DEF TypeOK, AllocOK
  <2>2. k \in Serials \cup {0}
    BY <2>1
  <2> HIDE DEF k
  <2> QED
    BY <2>2, BoundsAssumption
<1>3. <<a, g>> \in Sdps
  BY DEF Sdps
<1> HIDE DEF u, k
<1>4. RefOK(WithHostSdp(HostUser(u), k, <<a, g>>))
  BY <1>1, <1>2, <1>3, HostUserOK, HostUserRef, WithHostSdpRef
<1> QED
  BY <1>1, <1>4, PutRef

LEMMA RefSdplNew ==
  ASSUME TypeOK, ReferenceWithinSdps, NEW a \in Addrs, NEW g \in Gens, SdplNew(a, g)
  PROVE  ReferenceWithinSdps'
<1> DEFINE u == alloc[a].user
<1>1. /\ u \in Terminals
      /\ tempUserMap' = Put(tempUserMap, u, WithTerminalSdp(TerminalUser(u), <<a, g>>))
  BY DEF SdplNew
<1>2. <<a, g>> \in Sdps
  BY DEF Sdps
<1> HIDE DEF u
<1>3. RefOK(WithTerminalSdp(TerminalUser(u), <<a, g>>))
  BY <1>1, <1>2, TerminalUserOK, WithTerminalSdpRef
<1> QED
  BY <1>1, <1>3, PutRef

LEMMA RefNext == TypeOK /\ ReferenceWithinSdps /\ [Next]_vars => ReferenceWithinSdps'
<1> SUFFICES ASSUME TypeOK, ReferenceWithinSdps, [Next]_vars PROVE ReferenceWithinSdps'
  OBVIOUS
<1>1. CASE tempUserMap' = tempUserMap
  BY <1>1 DEF ReferenceWithinSdps
<1>2. CASE \E a \in Addrs : SdphTooMany(a)
  <2>1. PICK a \in Addrs : SdphTooMany(a)
    BY <1>2
  <2>2. CASE tempUserMap' = Put(tempUserMap, alloc[a].user, NewUser(0))
    BY <2>2, NewUserRef, PutRef, 0 \in Nat
  <2> QED
    BY <1>1, <2>1, <2>2 DEF SdphTooMany
<1>3. CASE \E a \in Addrs : Destroy(a)
  BY <1>1, <1>3, LogoutRef DEF Destroy, HandleDestroy
<1>4. CASE \E a \in Addrs, g \in Gens : Sdph(a, g)
  BY <1>4, RefSdph
<1>5. CASE \E a \in Addrs, g \in Gens : SdplNew(a, g)
  BY <1>5, RefSdplNew
<1>6. CASE \E u \in Users : PassSecretKey(u)
  BY <1>6, KeptRef DEF PassSecretKey, TypeOK, TableOK, RecOK, UserRec
<1>7. CASE \E u \in Users : Elapse(u)
  BY <1>7, KeptRef DEF Elapse, TypeOK, TableOK, RecOK, UserRec
<1>8. CASE \E u \in Users : Crash(u)
  BY <1>8 DEF Crash, ReferenceWithinSdps, EmptyMap
<1>9. CASE (\E u \in Users : Logout(u)) \/ LogoutUser
  BY <1>9, LogoutRef DEF Logout, LogoutUser
<1> QED
  BY <1>1, <1>2, <1>3, <1>4, <1>5, <1>6, <1>7, <1>8, <1>9
     DEF Next, Allocate, SdplAgain, Heartbeat, DeviceOperation, UpdateQuery, Login,
         TimerProc, vars

\* reference never runs ahead of the SDPs of the row, for any number of slots
\* and any order of announcements and endings.
THEOREM ReferencesAreBacked == Spec => []ReferenceWithinSdps
<1>1. Init => ReferenceWithinSdps
  BY DEF Init, ReferenceWithinSdps, EmptyMap
<1> QED
  BY <1>1, TypeCorrect, RefNext, PTL DEF Spec

-----------------------------------------------------------------------------
(* Announcements that replace an SDP.                                      *)

DroppedGone ==
  \A u \in DOMAIN tempUserMap \cap DOMAIN tempUserMap' :
    \A a \in SdpAddrs(tempUserMap[u].sdpVec) \ SdpAddrs(tempUserMap'[u].sdpVec) :
      a \notin DOMAIN alloc'

\* Storing x in slot i drops no address but the one that slot i had.
LEMMA DroppedAt ==
  ASSUME NEW vec \in Seq(Slot), NEW i \in DOMAIN vec, NEW slot,
         NEW a \in SdpAddrs(vec) \ SdpAddrs([vec EXCEPT ![i] = slot])
  PROVE  a \in Replaced(vec, i)
<1> DEFINE vec2 == [vec EXCEPT ![i] = slot]
<1>1. PICK j \in DOMAIN vec : vec[j].sdp # NoSdp /\ a = vec[j].sdp[1]
  BY DEF SdpAddrs
<1>2. CASE j # i
  <2>1. j \in DOMAIN vec2 /\ vec2[j] = vec[j]
    BY <1>1, <1>2
  <2> HIDE DEF vec2
  <2>2. a \in SdpAddrs(vec2)
    BY <1>1, <2>1 DEF SdpAddrs
  <2> QED
    BY <2>2 DEF vec2
<1>3. CASE j = i
  BY <1>1, <1>3 DEF Replaced
<1> QED
  BY <1>2, <1>3

LEMMA KeptGone ==
  ASSUME \A v \in DOMAIN tempUserMap \cap DOMAIN tempUserMap' :
            tempUserMap'[v].sdpVec = tempUserMap[v].sdpVec
  PROVE  DroppedGone
  BY DEF DroppedGone

LEMMA LogoutGone ==
  ASSUME NEW u, DoWhenLogout(u)
  PROVE  DroppedGone
  BY KeptGone DEF DoWhenLogout, Erase

\* A step that stores a row of u and shuts down what its slot i had.
LEMMA PutGone ==
  ASSUME TypeOK, NEW u \in Users, NEW user, RecOK(u, user),
         u \in DOMAIN tempUserMap => user = tempUserMap[u],
         NEW i \in DOMAIN user.sdpVec, NEW slot, NEW row,
         row.sdpVec = [user.sdpVec EXCEPT ![i] = slot],
         tempUserMap' = Put(tempUserMap, u, row),
         alloc' = ShutDown(Replaced(user.sdpVec, i))
  PROVE  DroppedGone
<1>1. ASSUME NEW v \in DOMAIN tempUserMap,
             NEW a \in SdpAddrs(tempUserMap[v].sdpVec) \ SdpAddrs(tempUserMap'[v].sdpVec)
      PROVE  a \notin DOMAIN alloc'
  <2>1. CASE v # u
    <3>1. tempUserMap'[v] = tempUserMap[v]
      BY <1>1, <2>1 DEF Put
    <3> QED
      BY <1>1, <3>1
  <2>2. CASE v = u
    <3>1. tempUserMap'[u] = row /\ tempUserMap[u] = user
      BY <1>1, <2>2 DEF Put
    <3>2. user.sdpVec \in Seq(Slot)
      BY DEF RecOK, UserRec
    <3>3. a \in SdpAddrs(user.sdpVec) \ SdpAddrs([user.sdpVec EXCEPT ![i] = slot])
      BY <1>1, <2>2, <3>1
    <3>4. a \in Replaced(user.sdpVec, i)
      BY <3>2, <3>3, DroppedAt
    <3> QED
      BY <3>4 DEF ShutDown, Erase
  <2> QED
    BY <2>1, <2>2
<1> QED
  BY <1>1 DEF DroppedGone

LEMMA GoneSdph ==
  ASSUME TypeOK, NEW a \in Addrs, NEW g \in Gens, Sdph(a, g)
  PROVE  DroppedGone
<1> DEFINE u == alloc[a].user
           k == alloc[a].serial
           user == HostUser(u)
           row == WithHostSdp(user, k, <<a, g>>)
<1>1. /\ a \in DOMAIN alloc /\ u \in Hosts /\ u \in Users /\ k < Len(user.sdpVec)
      /\ tempUserMap' = Put(tempUserMap, u, row)
      /\ alloc' = ShutDown(Replaced(user.sdpVec, k + 1))
  BY DEF Sdph, Users
<1>2. k \in Nat
  <2>1. alloc[a] \in [user : Users, serial : Serials \cup {0}]
    BY <1>1 DEF TypeOK, AllocOK
  <2>2. k \in Serials \cup {0}
    BY <2>1
  <2> HIDE DEF k
  <2> QED
    BY <2>2, BoundsAssumption
<1>3. u \in DOMAIN tempUserMap => user = tempUserMap[u]
  BY DEF HostUser
<1> HIDE DEF u, k
<1>4. RecOK(u, user)
  BY <1>1, HostUserOK
<1> HIDE DEF user
<1>5. user.sdpVec \in Seq(Slot) /\ row.sdpVec = [user.sdpVec EXCEPT ![k + 1] = HostSlot(k, <<a, g>>)]
  BY <1>4 DEF WithHostSdp, RecOK, UserRec
<1>6. k + 1 \in DOMAIN user.sdpVec
  BY <1>1, <1>2, <1>5, LenProperties
<1> HIDE DEF row
<1> QED
  BY <1>1, <1>3, <1>4, <1>5, <1>6, PutGone

LEMMA GoneSdplNew ==
  ASSUME TypeOK, NEW a \in Addrs, NEW g \in Gens, SdplNew(a, g)
  PROVE  DroppedGone
<1> DEFINE u == alloc[a].user
           user == TerminalUser(u)
           row == WithTerminalSdp(user, <<a, g>>)
           slot == [sdp |-> <<a, g>>, flag |-> "s", client |-> ""]
<1>1. /\ u \in Terminals /\ u \in Users
      /\ tempUserMap' = Put(tempUserMap, u, row)
      /\ alloc' = ShutDown(Replaced(user.sdpVec, 1))
  BY DEF SdplNew, Users
<1>2. u \in DOMAIN tempUserMap => user = tempUserMap[u]
  BY DEF TerminalUser
<1> HIDE DEF u
<1>3. RecOK(u, user)
  BY <1>1, TerminalUserOK
<1> HIDE DEF user
<1>4. row.sdpVec = [user.sdpVec EXCEPT ![1] = slot]
  BY <1>3 DEF WithTerminalSdp, RecOK, UserRec
<1>5. 1 \in DOMAIN user.sdpVec
  <2>1. user.sdpVec \in Seq(Slot) /\ Len(user.sdpVec) = 1
    BY <1>1, <1>3, UsersAssumption DEF RecOK, UserRec, SlotCounts
  <2> QED
    BY <2>1, LenProperties
<1> HIDE DEF row, slot
<1> QED
  BY <1>1, <1>2, <1>3, <1>4, <1>5, PutGone

LEMMA GoneNext == TypeOK /\ [Next]_vars => DroppedGone
<1> SUFFICES ASSUME TypeOK, [Next]_vars PROVE DroppedGone
  OBVIOUS
<1>1. CASE tempUserMap' = tempUserMap
  BY <1>1 DEF DroppedGone
<1>2. CASE \E a \in Addrs : SdphTooMany(a)
  <2>1. \A v \in DOMAIN tempUserMap : tempUserMap'[v] = tempUserMap[v]
    BY <1>2 DEF SdphTooMany, Put
  <2> QED
    BY <2>1, KeptGone
<1>3. CASE \E a \in Addrs : Destroy(a)
  BY <1>1, <1>3, LogoutGone DEF Destroy, HandleDestroy
<1>4. CASE \E a \in Addrs, g \in Gens : Sdph(a, g)
  BY <1>4, GoneSdph
<1>5. CASE \E a \in Addrs, g \in Gens : SdplNew(a, g)
  BY <1>5, GoneSdplNew
<1>6. CASE \E u \in Users : PassSecretKey(u)
  BY <1>6, KeptGone DEF PassSecretKey, TypeOK, TableOK, RecOK, UserRec
<1>7. CASE \E u \in Users : Elapse(u)
  BY <1>7, KeptGone DEF Elapse, TypeOK, TableOK, RecOK, UserRec
<1>8. CASE \E u \in Users : Crash(u)
  BY <1>8 DEF Crash, DroppedGone, EmptyMap
<1>9. CASE (\E u \in Users : Logout(u)) \/ LogoutUser
  BY <1>9, LogoutGone DEF Logout, LogoutUser
<1> QED
  BY <1>1, <1>2, <1>3, <1>4, <1>5, <1>6, <1>7, <1>8, <1>9
     DEF Next, Allocate, SdplAgain, Heartbeat, DeviceOperation, UpdateQuery, Login,
         TimerProc, vars

\* An SDP that a registered user's row drops has no allocation left, for any
\* number of connections and addresses.
THEOREM ReplacedAreShutDown == Spec => ReplacedAllocationGone
<1>1. TypeOK /\ [Next]_vars => [DroppedGone]_vars
  BY GoneNext
<1> QED
  BY <1>1, TypeCorrect, PTL DEF Spec, ReplacedAllocationGone, DroppedGone

-----------------------------------------------------------------------------
(* Logouts of terminals.                                                   *)

LEMMA LeastElement ==
  ASSUME NEW S, S \subseteq Nat, S # {}
  PROVE  \E m \in S : \A n \in S : m <= n
<1> DEFINE R == OpToRel(<, Nat)
<1>1. \A n, m \in Nat : <<n, m>> \in R <=> n < m
  BY DEF OpToRel
<1>2. IsWellFoundedOn(R, Nat)
  BY NatLessThanWellFounded
<1> HIDE DEF R
<1>3. PICK m \in S : \A n \in S : ~ (<<n, m>> \in R)
  BY <1>2, WFMin
<1>4. ASSUME NEW n \in S
      PROVE  m <= n
  <2>1. m \in Nat /\ n \in Nat
    BY <1>3, <1>4
  <2>2. ~ (n < m)
    BY <1>1, <1>3, <2>1
  <2> QED
    BY <2>1, <2>2
<1> QED
  BY <1>4

\* The first index of a set of indices.
LEMMA FirstIndex ==
  ASSUME NEW n \in Nat, NEW S, S \subseteq 1 .. n, S # {}
  PROVE  \E j \in S : \A m \in 1 .. j - 1 : m \in 1 .. n /\ m \notin S
<1>1. S \subseteq Nat
  OBVIOUS
<1>2. PICK j \in S : \A m \in S : j <= m
  BY <1>1, LeastElement
<1>3. ASSUME NEW m \in 1 .. j - 1
      PROVE  m \in 1 .. n /\ m \notin S
  <2>1. j \in 1 .. n
    BY <1>2
  <2>2. m \in 1 .. n /\ ~ (j <= m)
    BY <1>3, <2>1
  <2> QED
    BY <1>2, <2>2
<1> QED
  BY <1>3

\* restore_host_sdp pairs no slot, and the first one of u is u's no longer.
LEMMA RestoreFrees ==
  ASSUME NEW vec \in Seq(Slot), NEW u \in Users, NEW i \in DOMAIN vec,
         RestoreSlots(vec, u)[i].client = u
  PROVE  vec[i].client = u
<1> u # ""
  BY UsersAssumption
<1>1. vec[i] \in Slot
  BY ElementOfSeq, LenProperties
<1>2. \/ RestoreSlots(vec, u)[i] = vec[i]
      \/ RestoreSlots(vec, u)[i] = [vec[i] EXCEPT !.flag = "s", !.client = ""]
  BY DEF RestoreSlots
<1> QED
  BY <1>1, <1>2 DEF Slot

LEMMA FirstIsFreed ==
  ASSUME NEW vec \in Seq(Slot), NEW u \in Users, NEW i \in DOMAIN vec, vec[i].client = u
  PROVE  \E j \in DOMAIN vec : vec[j].client = u /\ RestoreSlots(vec, u)[j].client # u
<1> DEFINE S == {j \in DOMAIN vec : vec[j].client = u}
<1> u # ""
  BY UsersAssumption
<1>1. Len(vec) \in Nat /\ DOMAIN vec = 1 .. Len(vec)
  BY LenProperties
<1>2. S \subseteq 1 .. Len(vec) /\ i \in S
  BY <1>1
<1> HIDE DEF S
<1>3. PICK j \in S : \A m \in 1 .. j - 1 : m \in 1 .. Len(vec) /\ m \notin S
  BY <1>1, <1>2, FirstIndex
<1>4. j \in DOMAIN vec /\ vec[j].client = u /\ vec[j] \in Slot
  <2>1. j \in S
    BY <1>3
  <2>2. j \in DOMAIN vec /\ vec[j].client = u
    BY <2>1 DEF S
  <2>3. vec[j] \in Slot
    BY <2>2, ElementOfSeq, LenProperties
  <2> QED
    BY <2>2, <2>3
<1>5. \A m \in 1 .. j - 1 : vec[m].client # u
  BY <1>1, <1>3 DEF S
<1>6. RestoreSlots(vec, u)[j] = [vec[j] EXCEPT !.flag = "s", !.client = ""]
  BY <1>4, <1>5 DEF RestoreSlots
<1>7. RestoreSlots(vec, u)[j].client = ""
  BY <1>4, <1>6 DEF Slot
<1> QED
  BY <1>1, <1>4, <1>7

\* The slots of a terminal are finitely many.
LEMMA SlotsFinite ==
  ASSUME TypeOK, NEW t
  PROVE  IsFiniteSet(SlotsOf(t, loginUser))
<1>1. IsFiniteSet(Users \X (1 .. NSlots))
  <2>1. IsFiniteSet(1 .. NSlots)
    BY BoundsAssumption, FS_Interval
  <2> QED
    BY <2>1, UsersAssumption, FS_Product
<1>2. ASSUME NEW h \in DOMAIN loginUser \cap Hosts, NEW i \in DOMAIN loginUser[h].sdpVec
      PROVE  h \in Users /\ i \in 1 .. NSlots
  <2>1. h \in Users /\ loginUser[h].sdpVec \in Seq(Slot)
        /\ Len(loginUser[h].sdpVec) \in {0, NSlots}
    BY DEF TypeOK, TableOK, RecOK, UserRec, SlotCounts
  <2>2. i \in 1 .. Len(loginUser[h].sdpVec)
    BY <1>2, <2>1, LenProperties
  <2> QED
    BY <2>1, <2>2, BoundsAssumption
<1>3. SlotsOf(t, loginUser) \subseteq Users \X (1 .. NSlots)
  BY <1>2 DEF SlotsOf
<1> QED
  BY <1>1, <1>3, FS_Subset

LEMMA FewerSlots ==
  ASSUME NEW S, IsFiniteSet(S), NEW T, T \subseteq S, T # S
  PROVE  Cardinality(T) < Cardinality(S)
<1>1. Cardinality(T) <= Cardinality(S) /\ Cardinality(S) # Cardinality(T)
  BY FS_Subset
<1>2. Cardinality(T) \in Nat /\ Cardinality(S) \in Nat
  BY FS_Subset, FS_CardinalityType
<1> QED
  BY <1>1, <1>2

\* The home that is searched is the terminal's, where its slots are.
LEMMA LogoutFrees ==
  ASSUME TypeOK, SessionOwned, PairedInHome,
         NEW t \in Terminals, t \in DOMAIN tempUserMap, SlotsOf(t, loginUser) # {}
  PROVE  Cardinality(SlotsOf(t, LogoutLogin(t))) < Cardinality(SlotsOf(t, loginUser))
<1> DEFINE s == tempUserMap[t].session
           rest == IF s \in DOMAIN sessionHome THEN RemoveBySession(loginUser, HomeOf[t], s)
                                               ELSE loginUser
<1>1. t \in Users /\ TableOK(loginUser)
  BY DEF Users, TypeOK
<1>2. s \in DOMAIN sessionHome => sessionHome[s] = HomeOf[t]
  BY <1>1 DEF TypeOK, MappingOK, SessionOwned, Held, HeldIn
<1>3. LogoutLogin(t) = RestoreHostSdp(rest, HomeOf[t], t)
  BY <1>2 DEF LogoutLogin
<1>4. DOMAIN rest \subseteq DOMAIN loginUser /\ \A v \in DOMAIN rest : rest[v] = loginUser[v]
  BY DEF RemoveBySession, Erase
<1> HIDE DEF rest, s
<1>5. ASSUME NEW h \in DOMAIN loginUser \cap Hosts
      PROVE  loginUser[h] \in UserRec /\ loginUser[h].sdpVec \in Seq(Slot)
  BY <1>1 DEF TableOK, RecOK, UserRec
<1>6. ASSUME NEW h \in DOMAIN rest \cap Hosts
      PROVE  LogoutLogin(t)[h].sdpVec =
               IF HomeOf[h] = HomeOf[t] THEN RestoreSlots(loginUser[h].sdpVec, t)
                                        ELSE loginUser[h].sdpVec
  BY <1>3, <1>4, <1>5, <1>6 DEF RestoreHostSdp, UserRec
<1>7. DOMAIN LogoutLogin(t) = DOMAIN rest
  BY <1>3 DEF RestoreHostSdp
<1> DEFINE S == SlotsOf(t, loginUser)
           T == SlotsOf(t, LogoutLogin(t))
<1>8. T \subseteq S
  <2> SUFFICES ASSUME NEW h \in DOMAIN rest \cap Hosts,
                      NEW i \in DOMAIN LogoutLogin(t)[h].sdpVec,
                      LogoutLogin(t)[h].sdpVec[i].client = t
               PROVE  i \in DOMAIN loginUser[h].sdpVec /\ loginUser[h].sdpVec[i].client = t
    BY <1>4, <1>7 DEF SlotsOf
  <2>1. CASE HomeOf[h] = HomeOf[t]
    <3>1. LogoutLogin(t)[h].sdpVec = RestoreSlots(loginUser[h].sdpVec, t)
      BY <1>6, <2>1
    <3>2. i \in DOMAIN loginUser[h].sdpVec
      BY <3>1 DEF RestoreSlots
    <3> QED
      BY <1>1, <1>4, <1>5, <3>1, <3>2, RestoreFrees
  <2>2. CASE HomeOf[h] # HomeOf[t]
    BY <1>6, <2>2
  <2> QED
    BY <2>1, <2>2
<1>9. T # S
  <2>1. PICK h \in DOMAIN loginUser \cap Hosts :
           \E i \in DOMAIN loginUser[h].sdpVec : loginUser[h].sdpVec[i].client = t
    BY DEF SlotsOf
  <2>2. HomeOf[h] = HomeOf[t]
    BY <2>1 DEF PairedInHome
  <2>3. PICK j \in DOMAIN loginUser[h].sdpVec :
           /\ loginUser[h].sdpVec[j].client = t
           /\ RestoreSlots(loginUser[h].sdpVec, t)[j].client # t
    BY <1>1, <1>5, <2>1, FirstIsFreed
  <2>4. <<h, j>> \in S
    BY <2>3 DEF SlotsOf
  <2>5. <<h, j>> \notin T
    BY <1>6, <1>7, <2>2, <2>3 DEF SlotsOf
  <2> QED
    BY <2>4, <2>5
<1> HIDE DEF S, T
<1>10. Cardinality(T) < Cardinality(S)
  BY <1>8, <1>9, SlotsFinite, FewerSlots DEF S
<1> QED
  BY <1>10 DEF S, T

FreesSlot ==
  \A t \in Terminals \cap (DOMAIN tempUserMap \ DOMAIN tempUserMap') :
    SlotsOf(t, loginUser) # {} =>
      Cardinality(SlotsOf(t, loginUser')) < Cardinality(SlotsOf(t, loginUser))

LEMMA FreesWhenLogout ==
  ASSUME TypeOK, SessionOwned, PairedInHome, NEW u, DoWhenLogout(u)
  PROVE  FreesSlot
<1>1. ASSUME NEW t \in Terminals \cap (DOMAIN tempUserMap \ DOMAIN tempUserMap')
      PROVE  t \in DOMAIN tempUserMap /\ loginUser' = LogoutLogin(t)
  BY <1>1 DEF DoWhenLogout, Erase
<1> QED
  BY <1>1, LogoutFrees DEF FreesSlot

\* No other step but the end of the process takes a row from tempUserMap.
LEMMA FreesNext == TypeOK /\ SessionOwned /\ PairedInHome /\ [Next]_vars => FreesSlot
<1> SUFFICES ASSUME TypeOK, SessionOwned, PairedInHome, [Next]_vars PROVE FreesSlot
  OBVIOUS
<1>1. CASE DOMAIN tempUserMap \subseteq DOMAIN tempUserMap'
  BY <1>1 DEF FreesSlot
<1>2. CASE \E a \in Addrs : SdphTooMany(a) \/ \E g \in Gens : Sdph(a, g) \/ SdplNew(a, g)
  BY <1>1, <1>2 DEF SdphTooMany, Sdph, SdplNew, Put
<1>3. CASE \E a \in Addrs : Destroy(a)
  BY <1>1, <1>3, FreesWhenLogout DEF Destroy, HandleDestroy
<1>4. CASE \E u \in Users : PassSecretKey(u) \/ Elapse(u)
  BY <1>1, <1>4 DEF PassSecretKey, Elapse
<1>5. CASE \E u \in Users : Crash(u)
  <2>1. \A t : SlotsOf(t, loginUser') = {}
    BY <1>5 DEF Crash, SlotsOf, EmptyMap
  <2>2. ASSUME NEW t, SlotsOf(t, loginUser) # {}
        PROVE  Cardinality(SlotsOf(t, loginUser')) < Cardinality(SlotsOf(t, loginUser))
    BY <2>1, <2>2, SlotsFinite, FewerSlots
  <2> QED
    BY <2>2 DEF FreesSlot
<1>6. CASE (\E u \in Users : Logout(u)) \/ LogoutUser
  BY <1>6, FreesWhenLogout DEF Logout, LogoutUser
<1> QED
  BY <1>1, <1>2, <1>3, <1>4, <1>5, <1>6
     DEF Next, Allocate, SdplAgain, Heartbeat, DeviceOperation, UpdateQuery, Login,
         TimerProc, vars

\* A terminal that is logged out gives back a slot if it held one, whichever of
\* the endings it was and whether or not it had logged in.
THEOREM LogoutsFreeSlots == Spec => LogoutFreesSlot
<1>1. SlotInv => PairedInHome
  BY DEF SlotInv, SlotTable, SlotsOK, SlotOK, PairedInHome
<1>2. TypeOK /\ SessionOwned /\ SlotInv /\ [Next]_vars => [FreesSlot]_vars
  BY <1>1, FreesNext
<1> QED
  BY <1>2, TypeCorrect, SessionsAreOwned, SlotsInit, SlotsNext, PTL
     DEF Spec, LogoutFreesSlot, FreesSlot
=============================================================================
