----------------------- MODULE SessionRegistryProofs -----------------------
(***************************************************************************)
(* Proofs about SessionRegistry, for every set of hosts, terminals, homes  *)
(* and addresses and every bound: type correctness, and that a session id  *)
(* belongs to one user.                                                    *)
(***************************************************************************)
EXTENDS SessionRegistry, SequenceTheorems, FiniteSetTheorems, TLAPS

-----------------------------------------------------------------------------
(* Maps, slots and rows.                                                   *)

\* A vector of n slots is a function on 1 .. n.
LEMMA FunctionIsSeq ==
  ASSUME NEW S, NEW n \in Nat, NEW f \in [1 .. n -> S]
  PROVE  f \in Seq(S) /\ Len(f) = n
  OBVIOUS

\* Storing a well-formed row keeps a table well-formed, and so does erasing.
LEMMA PutTable ==
  ASSUME NEW f, NEW u \in Users, NEW user, TableOK(f), RecOK(u, user)
  PROVE  TableOK(Put(f, u, user))
<1>1. DOMAIN Put(f, u, user) = DOMAIN f \cup {u}
  BY DEF Put
<1>2. ASSUME NEW x \in DOMAIN Put(f, u, user)
      PROVE  x \in Users /\ RecOK(x, Put(f, u, user)[x])
  <2>1. CASE x = u
    BY <1>1, <2>1 DEF Put
  <2>2. CASE x # u
    <3>1. x \in DOMAIN f
      BY <1>1, <1>2, <2>2
    <3>2. Put(f, u, user)[x] = f[x]
      BY <1>1, <2>2, <3>1 DEF Put
    <3> QED
      BY <3>1, <3>2 DEF TableOK
  <2> QED
    BY <2>1, <2>2
<1> QED
  BY <1>2 DEF TableOK

LEMMA EraseTable ==
  ASSUME NEW f, NEW S, TableOK(f)
  PROVE  TableOK(Erase(f, S))
<1>1. DOMAIN Erase(f, S) = DOMAIN f \ S
  BY DEF Erase
<1>2. ASSUME NEW x \in DOMAIN f \ S
      PROVE  x \in Users /\ RecOK(x, Erase(f, S)[x])
  <2>1. Erase(f, S)[x] = f[x]
    BY <1>2 DEF Erase
  <2> QED
    BY <2>1 DEF TableOK
<1> QED
  BY <1>1, <1>2 DEF TableOK

\* A row keeps its form when its reference or its liveTime changes, and when
\* its vector is replaced by one of the same length.
LEMMA RowFresh ==
  ASSUME NEW u, NEW user, RecOK(u, user), NEW b \in BOOLEAN
  PROVE  RecOK(u, [user EXCEPT !.fresh = b])
  BY DEF RecOK, UserRec

LEMMA RowVec ==
  ASSUME NEW u, NEW user, RecOK(u, user),
         NEW vec \in Seq(Slot), Len(vec) = Len(user.sdpVec)
  PROVE  RecOK(u, [user EXCEPT !.sdpVec = vec])
  BY DEF RecOK, UserRec

LEMMA RowReferenceVec ==
  ASSUME NEW u, NEW user, RecOK(u, user), NEW n \in Int,
         NEW vec \in Seq(Slot), Len(vec) = Len(user.sdpVec)
  PROVE  RecOK(u, [user EXCEPT !.reference = n, !.sdpVec = vec])
  BY DEF RecOK, UserRec

LEMMA SlotFacts ==
  /\ InitSlot \in Slot
  /\ \A k, x : x \in Sdps => HostSlot(k, x) \in Slot
  BY DEF Slot, InitSlot, HostSlot

\* A row as select_user returns it, after the handler added its slots.
LEMMA NewUserOK ==
  ASSUME NEW u \in Users, NEW n \in SlotCounts(u)
  PROVE  RecOK(u, NewUser(n))
<1> DEFINE vec == [i \in 1 .. n |-> InitSlot]
<1>1. n \in Nat
  BY BoundsAssumption DEF SlotCounts
<1>2. vec \in [1 .. n -> Slot]
  BY SlotFacts
<1>3. NewUser(n) = [session |-> 0, reference |-> 0, sdpVec |-> vec, fresh |-> TRUE]
  BY DEF NewUser
<1> HIDE DEF vec
<1>4. vec \in Seq(Slot) /\ Len(vec) = n
  BY <1>1, <1>2, FunctionIsSeq
<1>5. 0 \in 0 .. MaxSession
  BY BoundsAssumption
<1> QED
  BY <1>3, <1>4, <1>5 DEF RecOK, UserRec

LEMMA HostUserOK ==
  ASSUME TypeOK, NEW u \in Hosts
  PROVE  RecOK(u, HostUser(u))
<1>1. u \in Users /\ NSlots \in SlotCounts(u)
  BY DEF Users, SlotCounts
<1>2. CASE u \in DOMAIN tempUserMap
  BY <1>2 DEF HostUser, TypeOK, TableOK
<1>3. CASE u \notin DOMAIN tempUserMap
  BY <1>1, <1>3, NewUserOK DEF HostUser
<1> QED
  BY <1>2, <1>3

LEMMA TerminalUserOK ==
  ASSUME TypeOK, NEW u \in Terminals
  PROVE  RecOK(u, TerminalUser(u))
<1>1. u \in Users /\ 1 \in SlotCounts(u)
  BY UsersAssumption DEF Users, SlotCounts
<1>2. CASE u \in DOMAIN tempUserMap
  BY <1>2 DEF TerminalUser, TypeOK, TableOK
<1>3. CASE u \notin DOMAIN tempUserMap
  BY <1>1, <1>3, NewUserOK DEF TerminalUser
<1> QED
  BY <1>2, <1>3

\* SDPH: user.sdpVec[serial] = sdp4vec, and the reference.
LEMMA WithHostSdpOK ==
  ASSUME NEW u, NEW user, RecOK(u, user),
         NEW k \in Nat, k < Len(user.sdpVec), NEW x \in Sdps
  PROVE  RecOK(u, WithHostSdp(user, k, x))
<1> DEFINE vec == [user.sdpVec EXCEPT ![k + 1] = HostSlot(k, x)]
<1>1. user.sdpVec \in Seq(Slot) /\ user.reference \in Int
  BY DEF RecOK, UserRec
<1>2. k + 1 \in 1 .. Len(user.sdpVec)
  BY <1>1
<1>3. HostSlot(k, x) \in Slot
  BY SlotFacts
<1>4. vec \in Seq(Slot) /\ Len(vec) = Len(user.sdpVec)
  BY <1>1, <1>2, <1>3, ExceptSeq
<1>5. HostReference(user, k) \in Int
  BY <1>1 DEF HostReference
<1>6. WithHostSdp(user, k, x) = [user EXCEPT !.reference = HostReference(user, k), !.sdpVec = vec]
  BY DEF WithHostSdp, RecOK, UserRec
<1> HIDE DEF vec
<1>7. RecOK(u, [user EXCEPT !.reference = HostReference(user, k), !.sdpVec = vec])
  BY <1>4, <1>5, RowReferenceVec
<1> QED
  BY <1>6, <1>7

\* SDPL: user.sdpVec[0] = sdp4vec, reference = 1.
LEMMA WithTerminalSdpOK ==
  ASSUME NEW u \in Terminals, NEW user, RecOK(u, user), NEW x \in Sdps
  PROVE  RecOK(u, WithTerminalSdp(user, x))
<1> DEFINE slot == [sdp |-> x, flag |-> "s", client |-> ""]
           vec == [user.sdpVec EXCEPT ![1] = slot]
<1>1. user.sdpVec \in Seq(Slot)
  BY DEF RecOK, UserRec
<1>2. Len(user.sdpVec) = 1
  BY UsersAssumption DEF RecOK, SlotCounts
<1>3. slot \in Slot
  BY DEF Slot
<1>4. 1 \in 1 .. Len(user.sdpVec)
  BY <1>2
<1>5. WithTerminalSdp(user, x) = [user EXCEPT !.reference = 1, !.sdpVec = vec]
  BY DEF WithTerminalSdp, RecOK, UserRec
<1> HIDE DEF slot
<1>6. vec \in Seq(Slot) /\ Len(vec) = Len(user.sdpVec)
  BY <1>1, <1>3, <1>4, ExceptSeq
<1> HIDE DEF vec
<1>7. RecOK(u, [user EXCEPT !.reference = 1, !.sdpVec = vec])
  BY <1>6, 1 \in Int, RowReferenceVec
<1> QED
  BY <1>5, <1>7

\* SDPL takes slot i of a host for terminal u.
LEMMA PairSlotOK ==
  ASSUME NEW vec \in Seq(Slot), NEW i \in DOMAIN vec, NEW u \in Users
  PROVE  PairSlot(vec, i, u) \in Seq(Slot) /\ Len(PairSlot(vec, i, u)) = Len(vec)
<1>1. i \in 1 .. Len(vec) /\ vec[i] \in Slot
  BY ElementOfSeq, LenProperties
<1> DEFINE slot == [[vec[i] EXCEPT !.flag = "p"] EXCEPT !.client = u]
<1>2. slot \in Slot
  BY <1>1 DEF Slot
<1>3. PairSlot(vec, i, u) = [vec EXCEPT ![i] = slot]
  BY <1>1 DEF PairSlot, Slot
<1> QED
  BY <1>1, <1>2, <1>3, ExceptSeq

\* restore_host_sdp keeps the slots of a host.
LEMMA RestoreSlotsOK ==
  ASSUME NEW vec \in Seq(Slot), NEW u
  PROVE  RestoreSlots(vec, u) \in Seq(Slot) /\ Len(RestoreSlots(vec, u)) = Len(vec)
<1>1. Len(vec) \in Nat /\ DOMAIN vec = 1 .. Len(vec)
  BY LenProperties
<1>2. ASSUME NEW i \in 1 .. Len(vec)
      PROVE  vec[i] \in Slot /\ [vec[i] EXCEPT !.flag = "s", !.client = ""] \in Slot
  <2>1. vec[i] \in Slot
    BY <1>2, ElementOfSeq
  <2> QED
    BY <2>1 DEF Slot
<1>3. RestoreSlots(vec, u) \in [1 .. Len(vec) -> Slot]
  BY <1>1, <1>2 DEF RestoreSlots
<1> QED
  BY <1>1, <1>3, FunctionIsSeq

\* handle_remote_destroy erases one slot and refills the vector.
LEMMA WithoutSdpAtOK ==
  ASSUME NEW vec \in Seq(Slot), NEW a
  PROVE  WithoutSdpAt(vec, a) \in Seq(Slot) /\ Len(WithoutSdpAt(vec, a)) = Len(vec)
<1> DEFINE gone == {i \in DOMAIN vec : vec[i].sdp # NoSdp /\ vec[i].sdp[1] = a}
           p == CHOOSE i \in gone : \A j \in gone : i <= j
           rest == [i \in DOMAIN vec |-> IF i < p THEN vec[i]
                                         ELSE IF i < Len(vec) THEN vec[i + 1] ELSE InitSlot]
<1>1. Len(vec) \in Nat /\ DOMAIN vec = 1 .. Len(vec)
  BY LenProperties
<1>2. ASSUME NEW i \in 1 .. Len(vec)
      PROVE  vec[i] \in Slot /\ (i < Len(vec) => vec[i + 1] \in Slot)
  BY <1>1, <1>2, ElementOfSeq
<1> HIDE DEF p
<1>3. rest \in [1 .. Len(vec) -> Slot]
  BY <1>1, <1>2, SlotFacts
<1>4. rest \in Seq(Slot) /\ Len(rest) = Len(vec)
  BY <1>1, <1>3, FunctionIsSeq
<1> QED
  BY <1>4 DEF WithoutSdpAt, p

-----------------------------------------------------------------------------
(* What the steps shared by several actions keep.                          *)

LEMMA RestoreHostSdpOK ==
  ASSUME NEW f, TableOK(f), NEW h, NEW u
  PROVE  TableOK(RestoreHostSdp(f, h, u))
<1>1. DOMAIN RestoreHostSdp(f, h, u) = DOMAIN f
  BY DEF RestoreHostSdp
<1>2. ASSUME NEW v \in DOMAIN f
      PROVE  v \in Users /\ RecOK(v, RestoreHostSdp(f, h, u)[v])
  <2>1. v \in Users /\ RecOK(v, f[v])
    BY <1>2 DEF TableOK
  <2>2. CASE v \in Hosts /\ HomeOf[v] = h
    <3> DEFINE vec == RestoreSlots(f[v].sdpVec, u)
    <3>1. RestoreHostSdp(f, h, u)[v] = [f[v] EXCEPT !.sdpVec = vec]
      BY <1>2, <2>2 DEF RestoreHostSdp
    <3>2. f[v].sdpVec \in Seq(Slot)
      BY <2>1 DEF RecOK, UserRec
    <3>3. vec \in Seq(Slot) /\ Len(vec) = Len(f[v].sdpVec)
      BY <3>2, RestoreSlotsOK
    <3> HIDE DEF vec
    <3>4. RecOK(v, [f[v] EXCEPT !.sdpVec = vec])
      BY <2>1, <3>3, RowVec
    <3> QED
      BY <2>1, <3>1, <3>4
  <2>3. CASE ~(v \in Hosts /\ HomeOf[v] = h)
    <3>1. RestoreHostSdp(f, h, u)[v] = f[v]
      BY <1>2, <2>3 DEF RestoreHostSdp
    <3> QED
      BY <2>1, <3>1
  <2> QED
    BY <2>2, <2>3
<1> QED
  BY <1>1, <1>2 DEF TableOK

LEMMA LogoutLoginOK ==
  ASSUME TypeOK, NEW u
  PROVE  TableOK(LogoutLogin(u))
<1> DEFINE s == tempUserMap[u].session
           h == IF s \in DOMAIN sessionHome THEN sessionHome[s] ELSE HomeOf[u]
           rest == IF s \in DOMAIN sessionHome THEN RemoveBySession(loginUser, h, s)
                                               ELSE loginUser
<1>1. TableOK(loginUser)
  BY DEF TypeOK
<1>2. TableOK(RemoveBySession(loginUser, h, s))
  BY <1>1, EraseTable DEF RemoveBySession
<1>3. TableOK(rest)
  BY <1>1, <1>2
<1>4. LogoutLogin(u) = RestoreHostSdp(rest, h, u)
  BY DEF LogoutLogin
<1> HIDE DEF rest, h
<1> QED
  BY <1>3, <1>4, RestoreHostSdpOK

LEMMA EraseMapping ==
  ASSUME NEW f, NEW S, MappingOK(f)
  PROVE  MappingOK(Erase(f, S))
  BY DEF MappingOK, Erase

LEMMA ShutDownOK ==
  ASSUME TypeOK, NEW S
  PROVE  AllocOK(ShutDown(S))
<1>1. AllocOK(alloc)
  BY DEF TypeOK
<1> QED
  BY <1>1 DEF AllocOK, ShutDown, Erase

LEMMA DoWhenLogoutOK ==
  ASSUME TypeOK, NEW u, DoWhenLogout(u)
  PROVE  TableOK(tempUserMap') /\ TableOK(loginUser') /\ MappingOK(sessionHome')
<1>1. TableOK(tempUserMap) /\ TableOK(loginUser) /\ MappingOK(sessionHome)
  BY DEF TypeOK
<1>2. CASE u \in DOMAIN tempUserMap
  <2>1. loginUser' = LogoutLogin(u) /\ tempUserMap' = Erase(tempUserMap, {u})
        /\ sessionHome' = Erase(sessionHome, {tempUserMap[u].session})
    BY <1>2 DEF DoWhenLogout, LogoutSession
  <2> QED
    BY <1>1, <2>1, LogoutLoginOK, EraseTable, EraseMapping
<1>3. CASE u \notin DOMAIN tempUserMap
  BY <1>1, <1>3 DEF DoWhenLogout
<1> QED
  BY <1>2, <1>3

\* Pairing changes one slot of one host, and what the terminal was given.
LEMMA PairTerminalOK ==
  ASSUME TypeOK, NEW u \in Terminals, NEW login, TableOK(login), PairTerminal(u, login)
  PROVE  TableOK(loginUser') /\ client' \in [Users -> ClientRec]
<1>1. u \in Users /\ client \in [Users -> ClientRec]
  BY DEF Users, TypeOK
<1>2. ASSUME NEW h \in DOMAIN login \cap Hosts, NEW i \in DOMAIN login[h].sdpVec,
             loginUser' = [login EXCEPT ![h].sdpVec = PairSlot(@, i, u)],
             client' = [client EXCEPT ![u].peer = login[h].sdpVec[i].sdp]
      PROVE  TableOK(loginUser') /\ client' \in [Users -> ClientRec]
  <2> DEFINE vec == PairSlot(login[h].sdpVec, i, u)
             row == [login[h] EXCEPT !.sdpVec = vec]
  <2>1. h \in Users /\ RecOK(h, login[h])
    BY DEF TableOK
  <2>2. login[h].sdpVec \in Seq(Slot)
    BY <2>1 DEF RecOK, UserRec
  <2>3. vec \in Seq(Slot) /\ Len(vec) = Len(login[h].sdpVec)
    BY <1>1, <1>2, <2>2, PairSlotOK
  <2>4. loginUser' = [login EXCEPT ![h] = row]
    BY <1>2
  <2>5. login[h].sdpVec[i].sdp \in Sdps \cup {NoSdp}
    <3>1. login[h].sdpVec[i] \in Slot
      BY <1>2, <2>2, ElementOfSeq, LenProperties
    <3> QED
      BY <3>1 DEF Slot
  <2> HIDE DEF vec
  <2>6. RecOK(h, row)
    BY <2>1, <2>3, RowVec
  <2> HIDE DEF row
  <2>7. TableOK(loginUser')
    <3>1. DOMAIN loginUser' = DOMAIN login
      BY <2>4
    <3>2. ASSUME NEW v \in DOMAIN login
          PROVE  v \in Users /\ RecOK(v, loginUser'[v])
      <4>1. CASE v = h
        BY <2>1, <2>4, <2>6, <3>2, <4>1
      <4>2. CASE v # h
        <5>1. loginUser'[v] = login[v]
          BY <2>4, <3>2, <4>2
        <5> QED
          BY <3>2, <5>1 DEF TableOK
      <4> QED
        BY <4>1, <4>2
    <3> QED
      BY <3>1, <3>2 DEF TableOK
  <2>8. client' \in [Users -> ClientRec]
    BY <1>1, <1>2, <2>5 DEF ClientRec
  <2> QED
    BY <2>7, <2>8
<1>3. CASE loginUser' = login /\ client' = [client EXCEPT ![u].peer = NoSdp]
  BY <1>1, <1>3 DEF ClientRec
<1> QED
  BY <1>2, <1>3 DEF PairTerminal

-----------------------------------------------------------------------------
(* Type correctness: a lemma for every action that does more than store.   *)

LEMMA TypeAllocate ==
  ASSUME TypeOK, NEW u \in Users, NEW a \in Addrs, NEW k \in Serials \cup {0},
         Allocate(u, a, k)
  PROVE  TypeOK'
<1>1. AllocOK(alloc')
  BY DEF TypeOK, Allocate, AllocOK, Put
<1>2. opened' \in 0 .. MaxOpened
  BY BoundsAssumption DEF TypeOK, Allocate
<1>3. client' \in [Users -> ClientRec]
  <2>1. NewClient \in ClientRec
    BY BoundsAssumption DEF NewClient, ClientRec
  <2> QED
    BY <2>1 DEF TypeOK, Allocate
<1> QED
  BY <1>1, <1>2, <1>3 DEF TypeOK, Allocate

LEMMA TypeSdphTooMany ==
  ASSUME TypeOK, NEW a \in Addrs, SdphTooMany(a)
  PROVE  TypeOK'
<1> DEFINE u == alloc[a].user
<1>1. u \in Users /\ u \in Hosts /\ TableOK(tempUserMap)
  BY DEF SdphTooMany, Users, TypeOK
<1>2. RecOK(u, NewUser(0))
  BY <1>1, NewUserOK DEF SlotCounts
<1>3. \/ tempUserMap' = tempUserMap
      \/ tempUserMap' = Put(tempUserMap, u, NewUser(0))
  BY DEF SdphTooMany
<1> HIDE DEF u
<1>4. TableOK(tempUserMap')
  BY <1>1, <1>2, <1>3, PutTable
<1> QED
  BY <1>4 DEF TypeOK, SdphTooMany

LEMMA TypeSdph ==
  ASSUME TypeOK, NEW a \in Addrs, NEW g \in Gens, Sdph(a, g)
  PROVE  TypeOK'
<1> DEFINE u == alloc[a].user
           k == alloc[a].serial
           user == HostUser(u)
           row == WithHostSdp(user, k, <<a, g>>)
<1>1. u \in Users /\ u \in Hosts /\ TableOK(tempUserMap) /\ TableOK(loginUser)
  BY DEF Sdph, Users, TypeOK
<1>2. k \in Nat
  <2>1. a \in DOMAIN alloc /\ AllocOK(alloc)
    BY DEF Sdph, TypeOK
  <2>2. alloc[a] \in [user : Users, serial : Serials \cup {0}]
    BY <2>1 DEF AllocOK
  <2>3. k \in Serials \cup {0}
    BY <2>2
  <2>4. Serials \subseteq Nat /\ 0 \in Nat
    BY BoundsAssumption
  <2> HIDE DEF k
  <2> QED
    BY <2>3, <2>4
<1>3. /\ k < Len(user.sdpVec)
      /\ tempUserMap' = Put(tempUserMap, u, row)
      /\ loginUser' = Put(loginUser, u, row) \/ loginUser' = loginUser
      /\ alloc' = ShutDown(Replaced(user.sdpVec, k + 1))
  BY DEF Sdph
<1>4. <<a, g>> \in Sdps
  BY DEF Sdps
<1>5. RecOK(u, user)
  BY <1>1, HostUserOK
<1>6. AllocOK(alloc')
  BY <1>3, ShutDownOK
<1> HIDE DEF u, k, user
<1>7. RecOK(u, row)
  BY <1>2, <1>3, <1>4, <1>5, WithHostSdpOK
<1> HIDE DEF row
<1>8. TableOK(tempUserMap') /\ TableOK(loginUser')
  BY <1>1, <1>3, <1>7, PutTable
<1> QED
  BY <1>6, <1>8 DEF TypeOK, Sdph

LEMMA TypeSdplNew ==
  ASSUME TypeOK, NEW a \in Addrs, NEW g \in Gens, SdplNew(a, g)
  PROVE  TypeOK'
<1> DEFINE u == alloc[a].user
           user == TerminalUser(u)
           old == Replaced(user.sdpVec, 1)
           row == WithTerminalSdp(user, <<a, g>>)
           login == IF old = {} THEN loginUser ELSE LogoutLogin(u)
<1>1. u \in Users /\ u \in Terminals /\ TableOK(tempUserMap) /\ TableOK(loginUser)
      /\ MappingOK(sessionHome)
  BY DEF SdplNew, Users, TypeOK
<1>2. /\ tempUserMap' = Put(tempUserMap, u, row)
      /\ sessionHome' = sessionHome \/ sessionHome' = LogoutSession(u)
      /\ PairTerminal(u, login)
      /\ alloc' = ShutDown(old)
  BY DEF SdplNew
<1>3. RecOK(u, user)
  BY <1>1, TerminalUserOK
<1>4. <<a, g>> \in Sdps
  BY DEF Sdps
<1>5. TableOK(login)
  BY <1>1, LogoutLoginOK
<1>6. AllocOK(alloc')
  BY <1>2, ShutDownOK
<1>7. MappingOK(sessionHome')
  BY <1>1, <1>2, EraseMapping DEF LogoutSession
<1> HIDE DEF u, user, old, login
<1>8. RecOK(u, row)
  BY <1>1, <1>3, <1>4, WithTerminalSdpOK
<1> HIDE DEF row
<1>9. TableOK(tempUserMap')
  BY <1>1, <1>2, <1>8, PutTable
<1>10. TableOK(loginUser') /\ client' \in [Users -> ClientRec]
  BY <1>1, <1>2, <1>5, PairTerminalOK
<1> QED
  BY <1>6, <1>7, <1>9, <1>10 DEF TypeOK, SdplNew

LEMMA TypeSdplAgain ==
  ASSUME TypeOK, NEW a \in Addrs, NEW g \in Gens, SdplAgain(a, g)
  PROVE  TypeOK'
<1>1. alloc[a].user \in Terminals /\ PairTerminal(alloc[a].user, loginUser)
  BY DEF SdplAgain
<1>2. TableOK(loginUser') /\ client' \in [Users -> ClientRec]
  BY <1>1, PairTerminalOK DEF TypeOK
<1> QED
  BY <1>2 DEF TypeOK, SdplAgain

LEMMA TypeSession ==
  ASSUME TypeOK, NEW u \in Users, PassSecretKey(u)
  PROVE  TypeOK'
<1> DEFINE row == [tempUserMap[u] EXCEPT !.session = sessionId + 1]
<1>1. /\ u \in DOMAIN tempUserMap /\ TableOK(tempUserMap)
      /\ sessionId + 1 \in 0 .. MaxSession
      /\ tempUserMap' = [tempUserMap EXCEPT ![u] = row]
  BY BoundsAssumption DEF PassSecretKey, TypeOK
<1>2. RecOK(u, row)
  <2>1. RecOK(u, tempUserMap[u])
    BY <1>1 DEF TableOK
  <2> QED
    BY <1>1, <2>1 DEF RecOK, UserRec
<1> HIDE DEF row
<1>3. TableOK(tempUserMap')
  <2>1. DOMAIN tempUserMap' = DOMAIN tempUserMap
    BY <1>1
  <2>2. ASSUME NEW v \in DOMAIN tempUserMap
        PROVE  v \in Users /\ RecOK(v, tempUserMap'[v])
    <3>1. CASE v = u
      BY <1>1, <1>2, <2>2, <3>1
    <3>2. CASE v # u
      <4>1. tempUserMap'[v] = tempUserMap[v]
        BY <1>1, <2>2, <3>2
      <4> QED
        BY <1>1, <2>2, <4>1 DEF TableOK
    <3> QED
      BY <3>1, <3>2
  <2>3. \A v \in DOMAIN tempUserMap' : v \in Users /\ RecOK(v, tempUserMap'[v])
    BY <2>1, <2>2
  <2> QED
    BY <2>3 DEF TableOK
<1>4. client' \in [Users -> ClientRec]
  BY ZenonT(40), <1>1 DEF TypeOK, PassSecretKey, ClientRec
<1>5. sessionId' \in 0 .. MaxSession
  BY <1>1 DEF PassSecretKey
<1> QED
  BY <1>3, <1>4, <1>5 DEF TypeOK, PassSecretKey

\* LOGIN and refreshUserAliveTime store a fresh copy of the row of tempUserMap.
LEMMA FreshCopyOK ==
  ASSUME TypeOK, NEW u \in DOMAIN tempUserMap
  PROVE  TableOK(Put(loginUser, u, [tempUserMap[u] EXCEPT !.fresh = TRUE]))
<1> DEFINE row == [tempUserMap[u] EXCEPT !.fresh = TRUE]
<1>1. u \in Users /\ RecOK(u, tempUserMap[u]) /\ TableOK(loginUser)
  BY DEF TypeOK, TableOK
<1>2. RecOK(u, row)
  BY <1>1, RowFresh
<1> HIDE DEF row
<1>3. TableOK(Put(loginUser, u, row))
  BY <1>1, <1>2, PutTable
<1> QED
  BY <1>3 DEF row

LEMMA TypeLogin ==
  ASSUME TypeOK, NEW u \in Users, NEW device \in BOOLEAN, Login(u, device)
  PROVE  TypeOK'
<1>1. TableOK(loginUser')
  BY FreshCopyOK DEF Login
<1>2. MappingOK(sessionHome')
  <2>1. client[u].session \in Sessions
    BY BoundsAssumption DEF Login, TypeOK, ClientRec, Sessions
  <2>. HomeOf[u] \in Homes
    BY UsersAssumption
  <2>2. CASE sessionHome' = sessionHome
    BY <2>2 DEF TypeOK
  <2>3. CASE sessionHome' = Put(sessionHome, client[u].session, HomeOf[u])
    BY <2>1, <2>3 DEF TypeOK, MappingOK, Put
  <2> QED
    BY <2>2, <2>3 DEF Login
<1>3. client' \in [Users -> ClientRec]
  <2>1. CASE client' = client
    BY <2>1 DEF TypeOK
  <2>2. CASE client' = [client EXCEPT ![u].online = TRUE]
    BY <2>2 DEF TypeOK, ClientRec
  <2> QED
    BY <2>1, <2>2 DEF Login
<1> QED
  BY <1>1, <1>2, <1>3 DEF TypeOK, Login

\* HEARTBEAT and the passage of time change liveTime of rows that stay.
LEMMA FreshnessOK ==
  ASSUME NEW f, TableOK(f), NEW u, NEW b \in BOOLEAN
  PROVE  TableOK([v \in DOMAIN f |-> IF v = u THEN [f[v] EXCEPT !.fresh = b] ELSE f[v]])
<1> DEFINE f2 == [v \in DOMAIN f |-> IF v = u THEN [f[v] EXCEPT !.fresh = b] ELSE f[v]]
<1>1. ASSUME NEW v \in DOMAIN f
      PROVE  v \in Users /\ RecOK(v, f2[v])
  <2>1. v \in Users /\ RecOK(v, f[v]) /\ RecOK(v, [f[v] EXCEPT !.fresh = b])
    BY <1>1, RowFresh DEF TableOK
  <2>2. f2[v] = f[v] \/ f2[v] = [f[v] EXCEPT !.fresh = b]
    BY <1>1
  <2> HIDE DEF f2
  <2> QED
    BY <2>1, <2>2
<1>2. DOMAIN f2 = DOMAIN f
  OBVIOUS
<1> HIDE DEF f2
<1>3. TableOK(f2)
  BY <1>1, <1>2 DEF TableOK
<1> QED
  BY <1>3 DEF f2

LEMMA TypeHeartbeat ==
  ASSUME TypeOK, NEW u \in Users, Heartbeat(u)
  PROVE  TypeOK'
<1>1. TableOK(loginUser)
  BY DEF TypeOK
<1>2. loginUser' = [v \in DOMAIN loginUser |->
                      IF v = u THEN [loginUser[v] EXCEPT !.fresh = TRUE] ELSE loginUser[v]]
  BY DEF Heartbeat
<1>3. TableOK(loginUser')
  BY <1>1, <1>2, FreshnessOK
<1> QED
  BY <1>3 DEF TypeOK, Heartbeat

LEMMA TypeElapse ==
  ASSUME TypeOK, NEW u \in Users, Elapse(u)
  PROVE  TypeOK'
<1>1. TableOK(tempUserMap) /\ TableOK(loginUser)
  BY DEF TypeOK
<1>2. TableOK(tempUserMap')
  BY <1>1, FreshnessOK DEF Elapse
<1>3. TableOK(loginUser')
  <2>1. CASE loginUser' = loginUser
    BY <1>1, <2>1
  <2>2. CASE loginUser' = [v \in DOMAIN loginUser |->
               IF v = u THEN [loginUser[v] EXCEPT !.fresh = FALSE] ELSE loginUser[v]]
    BY <1>1, <2>2, FreshnessOK
  <2> QED
    BY <2>1, <2>2 DEF Elapse
<1> QED
  BY <1>2, <1>3 DEF TypeOK, Elapse

LEMMA TypeDeviceOperation ==
  ASSUME TypeOK, NEW u \in Users, DeviceOperation(u)
  PROVE  TypeOK'
<1>1. TableOK(loginUser')
  BY FreshCopyOK DEF DeviceOperation
<1> QED
  BY <1>1 DEF TypeOK, DeviceOperation

LEMMA EmptyOK ==
  TableOK(EmptyMap) /\ MappingOK(EmptyMap) /\ AllocOK(EmptyMap)
  BY DEF TableOK, MappingOK, AllocOK, EmptyMap

LEMMA TypeCrash ==
  ASSUME TypeOK, NEW u \in Users, Crash(u)
  PROVE  TypeOK'
<1>1. <<>> \in Seq(QueueEntry) /\ 0 \in 0 .. MaxSession
  BY BoundsAssumption
<1> QED
  BY <1>1, EmptyOK DEF TypeOK, Crash

LEMMA TypeLogout ==
  ASSUME TypeOK, NEW u \in Users, Logout(u)
  PROVE  TypeOK'
<1>1. TableOK(tempUserMap') /\ TableOK(loginUser') /\ MappingOK(sessionHome')
  BY DoWhenLogoutOK DEF Logout
<1>2. client' \in [Users -> ClientRec]
  <2>1. NewClient \in ClientRec
    BY BoundsAssumption DEF NewClient, ClientRec
  <2> QED
    BY <2>1 DEF TypeOK, Logout
<1> QED
  BY <1>1, <1>2 DEF TypeOK, Logout

\* The end of an allocation.
LEMMA HandleDestroyOK ==
  ASSUME TypeOK, NEW u, NEW a, HandleDestroy(u, a)
  PROVE  TableOK(tempUserMap') /\ TableOK(loginUser') /\ MappingOK(sessionHome')
<1>1. CASE DoWhenLogout(u)
  BY <1>1, DoWhenLogoutOK
<1>2. CASE /\ u \in DOMAIN tempUserMap
           /\ loginUser' = loginUser
           /\ UNCHANGED <<tempUserMap, sessionHome>>
  BY <1>2 DEF TypeOK
<1> DEFINE vec == WithoutSdpAt(tempUserMap[u].sdpVec, a)
           n == tempUserMap[u].reference - 1
           row == [tempUserMap[u] EXCEPT !.reference = n, !.sdpVec = vec]
<1>3. CASE /\ u \in DOMAIN tempUserMap
           /\ loginUser' = Put(loginUser, u, row)
           /\ UNCHANGED <<tempUserMap, sessionHome>>
  <2>1. u \in Users /\ RecOK(u, tempUserMap[u]) /\ TableOK(loginUser)
    BY <1>3 DEF TypeOK, TableOK
  <2>2. tempUserMap[u].sdpVec \in Seq(Slot) /\ n \in Int
    BY <2>1 DEF RecOK, UserRec
  <2>3. vec \in Seq(Slot) /\ Len(vec) = Len(tempUserMap[u].sdpVec)
    BY <2>2, WithoutSdpAtOK
  <2> HIDE DEF vec, n
  <2>4. RecOK(u, row)
    BY <2>1, <2>2, <2>3, RowReferenceVec
  <2> HIDE DEF row
  <2>5. TableOK(Put(loginUser, u, row))
    BY <2>1, <2>4, PutTable
  <2> QED
    BY <1>3, <2>5 DEF TypeOK
<1> QED
  BY <1>1, <1>2, <1>3 DEF HandleDestroy

LEMMA TypeDestroy ==
  ASSUME TypeOK, NEW a \in Addrs, Destroy(a)
  PROVE  TypeOK'
<1>1. TableOK(tempUserMap') /\ TableOK(loginUser') /\ MappingOK(sessionHome')
  BY HandleDestroyOK DEF Destroy
<1>2. AllocOK(alloc')
  BY ShutDownOK DEF Destroy
<1> QED
  BY <1>1, <1>2 DEF TypeOK, Destroy

LEMMA TypeTimerProc ==
  ASSUME TypeOK, NEW role, TimerProc(role)
  PROVE  TypeOK'
<1> DEFINE S == Expired(role)
<1>1. PICK f \in Orders(S) : logoutQueue' = logoutQueue \o
             [i \in DOMAIN f |-> [user |-> f[i], sdpVec |-> loginUser[f[i]].sdpVec]]
  BY DEF TimerProc
<1> DEFINE more == [i \in DOMAIN f |-> [user |-> f[i], sdpVec |-> loginUser[f[i]].sdpVec]]
<1>2. S \subseteq DOMAIN loginUser /\ TableOK(loginUser)
  BY DEF Expired, TypeOK
<1>3. Cardinality(S) \in Nat
  <2>1. IsFiniteSet(S)
    BY <1>2, UsersAssumption, FS_Subset DEF TableOK
  <2> QED
    BY <2>1, FS_CardinalityType
<1>4. f \in [1 .. Cardinality(S) -> S]
  BY DEF Orders
<1>5. ASSUME NEW i \in 1 .. Cardinality(S)
      PROVE  [user |-> f[i], sdpVec |-> loginUser[f[i]].sdpVec] \in QueueEntry
  <2>1. f[i] \in DOMAIN loginUser
    BY <1>2, <1>4, <1>5
  <2>2. f[i] \in Users /\ RecOK(f[i], loginUser[f[i]])
    BY <1>2, <2>1 DEF TableOK
  <2> QED
    BY <2>2 DEF QueueEntry, RecOK, UserRec
<1> HIDE DEF S
<1>6. more \in [1 .. Cardinality(S) -> QueueEntry]
  BY <1>4, <1>5
<1>7. logoutQueue' = logoutQueue \o more
  BY <1>1
<1> HIDE DEF more
<1>8. more \in Seq(QueueEntry)
  BY <1>3, <1>6, FunctionIsSeq
<1>9. logoutQueue' \in Seq(QueueEntry)
  BY <1>7, <1>8, ConcatProperties DEF TypeOK
<1> QED
  BY <1>9 DEF TypeOK, TimerProc

LEMMA TypeLogoutUser ==
  ASSUME TypeOK, LogoutUser
  PROVE  TypeOK'
<1>1. TableOK(tempUserMap') /\ TableOK(loginUser') /\ MappingOK(sessionHome')
  BY DoWhenLogoutOK DEF LogoutUser
<1>2. AllocOK(alloc')
  BY ShutDownOK DEF LogoutUser
<1>3. logoutQueue' \in Seq(QueueEntry)
  BY HeadTailProperties DEF LogoutUser, TypeOK
<1> QED
  BY <1>1, <1>2, <1>3 DEF TypeOK, LogoutUser

-----------------------------------------------------------------------------
LEMMA TypeInit == Init => TypeOK
<1> SUFFICES ASSUME Init PROVE TypeOK
  OBVIOUS
<1>1. /\ TableOK(tempUserMap) /\ TableOK(loginUser)
      /\ MappingOK(sessionHome) /\ AllocOK(alloc)
  BY EmptyOK DEF Init
<1>2. sessionId \in 0 .. MaxSession /\ opened \in 0 .. MaxOpened /\ NewClient \in ClientRec
  BY BoundsAssumption DEF Init, NewClient, ClientRec
<1> QED
  BY <1>1, <1>2 DEF TypeOK, Init

LEMMA TypeNext == TypeOK /\ [Next]_vars => TypeOK'
<1> SUFFICES ASSUME TypeOK, [Next]_vars PROVE TypeOK'
  OBVIOUS
<1>1. CASE \E u \in Users, a \in Addrs, k \in Serials \cup {0} : Allocate(u, a, k)
  BY <1>1, TypeAllocate
<1>2. CASE \E a \in Addrs : SdphTooMany(a)
  BY <1>2, TypeSdphTooMany
<1>3. CASE \E a \in Addrs : Destroy(a)
  BY <1>3, TypeDestroy
<1>4. CASE \E a \in Addrs, g \in Gens : Sdph(a, g)
  BY <1>4, TypeSdph
<1>5. CASE \E a \in Addrs, g \in Gens : SdplNew(a, g)
  BY <1>5, TypeSdplNew
<1>6. CASE \E a \in Addrs, g \in Gens : SdplAgain(a, g)
  BY <1>6, TypeSdplAgain
<1>7. CASE \E u \in Users : PassSecretKey(u)
  BY <1>7, TypeSession
<1>8. CASE \E u \in Users : Heartbeat(u)
  BY <1>8, TypeHeartbeat
<1>9. CASE \E u \in Users : DeviceOperation(u) \/ UpdateQuery(u)
  BY <1>9, TypeDeviceOperation DEF UpdateQuery
<1>10. CASE \E u \in Users : Crash(u)
  BY <1>10, TypeCrash
<1>11. CASE \E u \in Users : Logout(u)
  BY <1>11, TypeLogout
<1>12. CASE \E u \in Users : Elapse(u)
  BY <1>12, TypeElapse
<1>13. CASE \E u \in Users, device \in BOOLEAN : Login(u, device)
  BY <1>13, TypeLogin
<1>14. CASE \E role \in {Hosts, Terminals} : TimerProc(role)
  BY <1>14, TypeTimerProc
<1>15. CASE LogoutUser
  BY <1>15, TypeLogoutUser
<1>16. CASE UNCHANGED vars
  BY <1>16 DEF vars, TypeOK
<1> QED
  BY <1>1, <1>2, <1>3, <1>4, <1>5, <1>6, <1>7, <1>8, <1>9, <1>10, <1>11, <1>12,
     <1>13, <1>14, <1>15, <1>16 DEF Next

\* The tables always hold what their readers index: every reachable state of
\* the registry satisfies the type invariant.
THEOREM TypeCorrect == Spec => []TypeOK
  BY TypeInit, TypeNext, PTL DEF Spec

-----------------------------------------------------------------------------
(* Sessions.  Most steps only move rows about: the ids a user holds become *)
(* fewer and so do the mapped ones.  PASS_SECRET_KEY brings in an id above *)
(* all the others, and LOGIN maps an id that its user holds already.       *)

Narrowed ==
  /\ \A v \in Users : Held(v)' \subseteq Held(v)
  /\ sessionId' = sessionId
  /\ DOMAIN sessionHome' \subseteq DOMAIN sessionHome
  /\ \A s \in DOMAIN sessionHome' : sessionHome'[s] = sessionHome[s]

LEMMA NarrowedOwned ==
  ASSUME SessionOwned, Narrowed
  PROVE  SessionOwned'
<1>1. \A u, v \in Users : u # v => Held(u)' \cap Held(v)' = {}
  BY DEF SessionOwned, Narrowed
<1>2. \A u \in Users : \A s \in Held(u)' :
         s <= sessionId' /\ (s \in DOMAIN sessionHome' => sessionHome'[s] = HomeOf[u])
  BY DEF SessionOwned, Narrowed
<1>3. \A s \in DOMAIN sessionHome' : s <= sessionId'
  BY DEF SessionOwned, Narrowed
<1> QED
  BY <1>1, <1>2, <1>3 DEF SessionOwned

LEMMA HeldPut ==
  ASSUME NEW f, NEW u, NEW row, NEW v
  PROVE  HeldIn(Put(f, u, row), v) =
           IF v = u THEN {s \in Sessions : row.session = s} ELSE HeldIn(f, v)
<1>1. CASE v = u
  BY <1>1 DEF HeldIn, Put
<1>2. CASE v # u
  BY <1>2 DEF HeldIn, Put
<1> QED
  BY <1>1, <1>2

LEMMA HeldErase ==
  ASSUME NEW f, NEW S, NEW v
  PROVE  HeldIn(Erase(f, S), v) \subseteq HeldIn(f, v)
  BY DEF HeldIn, Erase

\* Replacing the slots of rows leaves their sessions alone.
LEMMA HeldRestore ==
  ASSUME NEW f, TableOK(f), NEW h, NEW u, NEW v
  PROVE  HeldIn(RestoreHostSdp(f, h, u), v) = HeldIn(f, v)
<1>1. DOMAIN RestoreHostSdp(f, h, u) = DOMAIN f
  BY DEF RestoreHostSdp
<1>2. ASSUME v \in DOMAIN f
      PROVE  RestoreHostSdp(f, h, u)[v].session = f[v].session
  <2>1. f[v] \in UserRec
    BY <1>2 DEF TableOK, RecOK
  <2> QED
    BY <1>2, <2>1 DEF RestoreHostSdp, UserRec
<1> QED
  BY <1>1, <1>2 DEF HeldIn

LEMMA HeldLogout ==
  ASSUME TypeOK, NEW u, NEW v
  PROVE  HeldIn(LogoutLogin(u), v) \subseteq HeldIn(loginUser, v)
<1> DEFINE s == tempUserMap[u].session
           h == IF s \in DOMAIN sessionHome THEN sessionHome[s] ELSE HomeOf[u]
           rest == IF s \in DOMAIN sessionHome THEN RemoveBySession(loginUser, h, s)
                                               ELSE loginUser
<1>1. TableOK(loginUser)
  BY DEF TypeOK
<1>2. /\ TableOK(RemoveBySession(loginUser, h, s))
      /\ HeldIn(RemoveBySession(loginUser, h, s), v) \subseteq HeldIn(loginUser, v)
  BY <1>1, EraseTable, HeldErase DEF RemoveBySession
<1>3. TableOK(rest) /\ HeldIn(rest, v) \subseteq HeldIn(loginUser, v)
  BY <1>1, <1>2
<1>4. LogoutLogin(u) = RestoreHostSdp(rest, h, u)
  BY DEF LogoutLogin
<1> HIDE DEF rest, h
<1> QED
  BY <1>3, <1>4, HeldRestore

LEMMA HeldPair ==
  ASSUME TypeOK, NEW u, NEW login, TableOK(login), PairTerminal(u, login), NEW v
  PROVE  HeldIn(loginUser', v) = HeldIn(login, v)
<1>1. CASE loginUser' = login
  BY <1>1
<1>2. ASSUME NEW h \in DOMAIN login, NEW vec,
             loginUser' = [login EXCEPT ![h] = [login[h] EXCEPT !.sdpVec = vec]]
      PROVE  HeldIn(loginUser', v) = HeldIn(login, v)
  <2>1. DOMAIN loginUser' = DOMAIN login
    BY <1>2
  <2>2. ASSUME v \in DOMAIN login
        PROVE  loginUser'[v].session = login[v].session
    <3>1. login[v] \in UserRec
      BY <2>2 DEF TableOK, RecOK
    <3> QED
      BY <1>2, <2>2, <3>1 DEF UserRec
  <2> QED
    BY <2>1, <2>2 DEF HeldIn
<1>3. ASSUME NEW h \in DOMAIN login \cap Hosts, NEW i \in DOMAIN login[h].sdpVec,
             loginUser' = [login EXCEPT ![h].sdpVec = PairSlot(@, i, u)]
      PROVE  HeldIn(loginUser', v) = HeldIn(login, v)
  <2>1. loginUser' = [login EXCEPT ![h] =
                        [login[h] EXCEPT !.sdpVec = PairSlot(login[h].sdpVec, i, u)]]
    BY <1>3
  <2> QED
    BY <1>2, <2>1
<1> QED
  BY <1>1, <1>3 DEF PairTerminal

LEMMA NarrowedLogout ==
  ASSUME TypeOK, NEW u, DoWhenLogout(u), sessionId' = sessionId
  PROVE  Narrowed
<1>1. CASE u \in DOMAIN tempUserMap
  <2>1. /\ loginUser' = LogoutLogin(u)
        /\ tempUserMap' = Erase(tempUserMap, {u})
        /\ sessionHome' = Erase(sessionHome, {tempUserMap[u].session})
    BY <1>1 DEF DoWhenLogout, LogoutSession
  <2>2. ASSUME NEW v \in Users
        PROVE  Held(v)' \subseteq Held(v)
    <3>1. HeldIn(loginUser', v) \subseteq HeldIn(loginUser, v)
      BY <2>1, HeldLogout
    <3>2. HeldIn(tempUserMap', v) \subseteq HeldIn(tempUserMap, v)
      BY <2>1, HeldErase
    <3>3. Held(v)' = HeldIn(tempUserMap', v) \cup HeldIn(loginUser', v)
      BY DEF Held, HeldIn
    <3> QED
      BY <3>1, <3>2, <3>3 DEF Held
  <2> QED
    BY <2>1, <2>2 DEF Narrowed, Erase
<1>2. CASE u \notin DOMAIN tempUserMap
  BY <1>2 DEF DoWhenLogout, Narrowed, Held, HeldIn
<1> QED
  BY <1>1, <1>2

\* A row of user u with the session of tempUserMap, or with none, is stored.
LEMMA HeldRow ==
  ASSUME TypeOK, NEW u \in Users, NEW v, NEW row,
         \/ u \in DOMAIN tempUserMap /\ row.session = tempUserMap[u].session
         \/ row.session = 0
  PROVE  /\ HeldIn(Put(tempUserMap, u, row), v) \subseteq Held(v)
         /\ HeldIn(Put(loginUser, u, row), v) \subseteq Held(v)
<1>1. 0 \notin Sessions
  BY DEF Sessions
<1>2. v = u => {s \in Sessions : row.session = s} \subseteq Held(v)
  BY <1>1 DEF Held, HeldIn
<1>3. HeldIn(tempUserMap, v) \subseteq Held(v) /\ HeldIn(loginUser, v) \subseteq Held(v)
  BY DEF Held
<1> QED
  BY <1>2, <1>3, HeldPut

LEMMA HeldPrime ==
  ASSUME NEW v
  PROVE  Held(v)' = HeldIn(tempUserMap', v) \cup HeldIn(loginUser', v)
  BY DEF Held, HeldIn

LEMMA HostUserSession ==
  ASSUME TypeOK, NEW u \in Hosts, NEW k, NEW x
  PROVE  \/ u \in DOMAIN tempUserMap
            /\ WithHostSdp(HostUser(u), k, x).session = tempUserMap[u].session
         \/ WithHostSdp(HostUser(u), k, x).session = 0
<1>1. WithHostSdp(HostUser(u), k, x).session = HostUser(u).session
  <2>1. HostUser(u) \in UserRec
    BY HostUserOK DEF RecOK
  <2> QED
    BY <2>1 DEF WithHostSdp, UserRec
<1> QED
  BY <1>1 DEF HostUser, NewUser

LEMMA TerminalUserSession ==
  ASSUME TypeOK, NEW u \in Terminals, NEW x
  PROVE  \/ u \in DOMAIN tempUserMap
            /\ WithTerminalSdp(TerminalUser(u), x).session = tempUserMap[u].session
         \/ WithTerminalSdp(TerminalUser(u), x).session = 0
<1>1. WithTerminalSdp(TerminalUser(u), x).session = TerminalUser(u).session
  <2>1. TerminalUser(u) \in UserRec
    BY TerminalUserOK DEF RecOK
  <2> QED
    BY <2>1 DEF WithTerminalSdp, UserRec
<1> QED
  BY <1>1 DEF TerminalUser, NewUser

LEMMA NarrowedSdphTooMany ==
  ASSUME TypeOK, NEW a \in Addrs, SdphTooMany(a)
  PROVE  Narrowed
<1> DEFINE u == alloc[a].user
<1>1. u \in Users
  BY DEF SdphTooMany, Users
<1>2. tempUserMap' = tempUserMap \/ tempUserMap' = Put(tempUserMap, u, NewUser(0))
  BY DEF SdphTooMany
<1>3. NewUser(0).session = 0
  BY DEF NewUser
<1>4. ASSUME NEW v \in Users
      PROVE  HeldIn(tempUserMap', v) \subseteq Held(v)
  <2>1. CASE tempUserMap' = tempUserMap
    BY <2>1 DEF Held
  <2>2. CASE tempUserMap' = Put(tempUserMap, u, NewUser(0))
    BY <1>1, <1>3, <2>2, HeldRow
  <2> QED
    BY <1>2, <2>1, <2>2
<1> QED
  BY <1>4, HeldPrime DEF SdphTooMany, Narrowed, Held

LEMMA NarrowedRegistration ==
  ASSUME TypeOK, NEW a \in Addrs, NEW g \in Gens,
         Sdph(a, g) \/ SdplNew(a, g) \/ SdplAgain(a, g)
  PROVE  Narrowed
<1> DEFINE u == alloc[a].user
<1>1. CASE Sdph(a, g)
  <2> DEFINE row == WithHostSdp(HostUser(u), alloc[a].serial, <<a, g>>)
  <2>1. u \in Users /\ u \in Hosts
    BY <1>1 DEF Sdph, Users
  <2>2. /\ tempUserMap' = Put(tempUserMap, u, row)
        /\ loginUser' = Put(loginUser, u, row) \/ loginUser' = loginUser
    BY <1>1 DEF Sdph
  <2>3. \/ u \in DOMAIN tempUserMap /\ row.session = tempUserMap[u].session
        \/ row.session = 0
    BY <2>1, HostUserSession
  <2> HIDE DEF row
  <2>4. ASSUME NEW v \in Users
        PROVE  HeldIn(tempUserMap', v) \subseteq Held(v) /\ HeldIn(loginUser', v) \subseteq Held(v)
    BY <2>1, <2>2, <2>3, HeldRow DEF Held
  <2> QED
    BY <1>1, <2>4, HeldPrime DEF Sdph, Narrowed
<1>2. CASE SdplNew(a, g)
  <2> DEFINE row == WithTerminalSdp(TerminalUser(u), <<a, g>>)
             old == Replaced(TerminalUser(u).sdpVec, 1)
             login == IF old = {} THEN loginUser ELSE LogoutLogin(u)
  <2>1. u \in Users /\ u \in Terminals
    BY <1>2 DEF SdplNew, Users
  <2>2. /\ tempUserMap' = Put(tempUserMap, u, row)
        /\ sessionHome' = sessionHome \/ sessionHome' = LogoutSession(u)
        /\ PairTerminal(u, login)
    BY <1>2 DEF SdplNew
  <2>3. \/ u \in DOMAIN tempUserMap /\ row.session = tempUserMap[u].session
        \/ row.session = 0
    BY <2>1, TerminalUserSession
  <2>4. TableOK(login) /\ \A v \in Users : HeldIn(login, v) \subseteq HeldIn(loginUser, v)
    BY LogoutLoginOK, HeldLogout DEF TypeOK
  <2> HIDE DEF row, old, login
  <2>5. ASSUME NEW v \in Users
        PROVE  HeldIn(tempUserMap', v) \subseteq Held(v) /\ HeldIn(loginUser', v) \subseteq Held(v)
    <3>1. HeldIn(tempUserMap', v) \subseteq Held(v)
      BY <2>1, <2>2, <2>3, HeldRow
    <3>2. HeldIn(loginUser', v) = HeldIn(login, v)
      BY <2>2, <2>4, HeldPair
    <3> QED
      BY <2>4, <3>1, <3>2 DEF Held
  <2>6. /\ DOMAIN sessionHome' \subseteq DOMAIN sessionHome
        /\ \A s \in DOMAIN sessionHome' : sessionHome'[s] = sessionHome[s]
    BY <2>2 DEF LogoutSession, Erase
  <2> QED
    BY <1>2, <2>5, <2>6, HeldPrime DEF SdplNew, Narrowed
<1>3. CASE SdplAgain(a, g)
  <2>1. ASSUME NEW v \in Users
        PROVE  HeldIn(loginUser', v) = HeldIn(loginUser, v)
    BY <1>3, HeldPair DEF SdplAgain, TypeOK
  <2> QED
    BY <1>3, <2>1, HeldPrime DEF SdplAgain, Narrowed, Held
<1> QED
  BY <1>1, <1>2, <1>3

LEMMA NarrowedFreshness ==
  ASSUME TypeOK, NEW u \in Users,
         DeviceOperation(u) \/ Heartbeat(u) \/ Elapse(u)
  PROVE  Narrowed
<1>0. ASSUME NEW f, TableOK(f), NEW b, NEW v
      PROVE  HeldIn([w \in DOMAIN f |-> IF w = u THEN [f[w] EXCEPT !.fresh = b] ELSE f[w]], v)
               = HeldIn(f, v)
  <2> DEFINE f2 == [w \in DOMAIN f |-> IF w = u THEN [f[w] EXCEPT !.fresh = b] ELSE f[w]]
  <2>1. DOMAIN f2 = DOMAIN f
    OBVIOUS
  <2>2. ASSUME v \in DOMAIN f
        PROVE  f2[v].session = f[v].session
    <3>1. f[v] \in UserRec
      BY <1>0, <2>2 DEF TableOK, RecOK
    <3> QED
      BY <2>2, <3>1 DEF UserRec
  <2> QED
    BY <2>1, <2>2 DEF HeldIn
<1>1. CASE DeviceOperation(u)
  <2> DEFINE row == [tempUserMap[u] EXCEPT !.fresh = TRUE]
  <2>1. u \in DOMAIN tempUserMap /\ loginUser' = Put(loginUser, u, row)
    BY <1>1 DEF DeviceOperation
  <2>2. row.session = tempUserMap[u].session
    BY <2>1 DEF TypeOK, TableOK, RecOK, UserRec
  <2> HIDE DEF row
  <2>3. \A v \in Users : HeldIn(loginUser', v) \subseteq Held(v)
    BY <2>1, <2>2, HeldRow
  <2> QED
    BY <1>1, <2>3, HeldPrime DEF DeviceOperation, Narrowed, Held
<1>2. CASE Heartbeat(u)
  <2>1. loginUser' = [w \in DOMAIN loginUser |->
                        IF w = u THEN [loginUser[w] EXCEPT !.fresh = TRUE] ELSE loginUser[w]]
    BY <1>2 DEF Heartbeat
  <2>2. \A v \in Users : HeldIn(loginUser', v) = HeldIn(loginUser, v)
    BY <1>0, <2>1 DEF TypeOK
  <2> QED
    BY <1>2, <2>2, HeldPrime DEF Heartbeat, Narrowed, Held
<1>3. CASE Elapse(u)
  <2>0. tempUserMap' = [w \in DOMAIN tempUserMap |->
                 IF w = u THEN [tempUserMap[w] EXCEPT !.fresh = FALSE] ELSE tempUserMap[w]]
    BY <1>3 DEF Elapse
  <2>1. \A v \in Users : HeldIn(tempUserMap', v) = HeldIn(tempUserMap, v)
    BY <1>0, <2>0 DEF TypeOK
  <2>2. \A v \in Users : HeldIn(loginUser', v) = HeldIn(loginUser, v)
    <3>1. CASE loginUser' = loginUser
      BY <3>1
    <3>2. CASE loginUser' = [w \in DOMAIN loginUser |->
                 IF w = u THEN [loginUser[w] EXCEPT !.fresh = FALSE] ELSE loginUser[w]]
      BY <1>0, <3>2 DEF TypeOK
    <3> QED
      BY <1>3, <3>1, <3>2 DEF Elapse
  <2> QED
    BY <1>3, <2>1, <2>2, HeldPrime DEF Elapse, Narrowed, Held
<1> QED
  BY <1>1, <1>2, <1>3

LEMMA NarrowedDestroy ==
  ASSUME TypeOK, NEW u, NEW a, HandleDestroy(u, a), sessionId' = sessionId
  PROVE  Narrowed
<1>1. CASE DoWhenLogout(u)
  BY <1>1, NarrowedLogout
<1>2. CASE loginUser' = loginUser /\ UNCHANGED <<tempUserMap, sessionHome>>
  BY <1>2 DEF Narrowed, Held, HeldIn
<1> DEFINE vec == WithoutSdpAt(tempUserMap[u].sdpVec, a)
           row == [tempUserMap[u] EXCEPT !.reference = @ - 1, !.sdpVec = vec]
<1>3. CASE /\ u \in DOMAIN tempUserMap
           /\ loginUser' = Put(loginUser, u, row)
           /\ UNCHANGED <<tempUserMap, sessionHome>>
  <2>1. u \in Users /\ tempUserMap[u] \in UserRec
    BY <1>3 DEF TypeOK, TableOK, RecOK
  <2>2. row.session = tempUserMap[u].session
    BY <2>1 DEF UserRec
  <2> HIDE DEF row
  <2>3. \A v \in Users : HeldIn(loginUser', v) \subseteq Held(v)
    BY <1>3, <2>1, <2>2, HeldRow
  <2> QED
    BY <1>3, <2>3, HeldPrime DEF Narrowed, Held
<1> QED
  BY <1>1, <1>2, <1>3 DEF HandleDestroy

LEMMA SessionPassSecretKey ==
  ASSUME TypeOK, SessionOwned, NEW u \in Users, PassSecretKey(u)
  PROVE  SessionOwned'
<1> DEFINE new == sessionId + 1
<1>1. /\ u \in DOMAIN tempUserMap /\ sessionId \in Nat /\ sessionId' = new
      /\ tempUserMap' = [tempUserMap EXCEPT ![u].session = new]
      /\ UNCHANGED <<loginUser, sessionHome>>
  BY BoundsAssumption DEF PassSecretKey, TypeOK
<1>2. ASSUME NEW v \in Users
      PROVE  /\ v # u => Held(v)' = Held(v)
             /\ v = u => Held(v)' \subseteq Held(v) \cup {new}
  <2>1. v \in DOMAIN tempUserMap => tempUserMap[v] \in UserRec
    BY DEF TypeOK, TableOK, RecOK
  <2> QED
    BY <1>1, <2>1 DEF Held, HeldIn, UserRec
<1>3. \A v \in Users : \A s \in Held(v) : s <= sessionId /\ s \in Int
  BY DEF SessionOwned, Held, HeldIn, Sessions
<1>4. \A s \in DOMAIN sessionHome : s <= sessionId /\ s \in Int
  BY DEF SessionOwned, TypeOK, MappingOK, Sessions
<1>5. \A v \in Users : new \notin Held(v)
  BY <1>1, <1>3
<1>6. \A v, w \in Users : v # w => Held(v)' \cap Held(w)' = {}
  BY <1>2, <1>5 DEF SessionOwned
<1>7. ASSUME NEW v \in Users, NEW s \in Held(v)'
      PROVE  s <= sessionId' /\ (s \in DOMAIN sessionHome' => sessionHome'[s] = HomeOf[v])
  <2>1. CASE s \in Held(v)
    BY <1>1, <1>3, <2>1 DEF SessionOwned
  <2>2. CASE s = new
    BY <1>1, <1>4, <2>2
  <2> QED
    BY <1>2, <1>7, <2>1, <2>2
<1>8. \A s \in DOMAIN sessionHome' : s <= sessionId'
  BY <1>1, <1>4
<1> QED
  BY <1>6, <1>7, <1>8 DEF SessionOwned

LEMMA SessionLogin ==
  ASSUME TypeOK, SessionOwned, NEW u \in Users, NEW device, Login(u, device)
  PROVE  SessionOwned'
<1> DEFINE s0 == client[u].session
           row == [tempUserMap[u] EXCEPT !.fresh = TRUE]
<1>1. /\ u \in DOMAIN tempUserMap /\ s0 = tempUserMap[u].session /\ s0 > 0
      /\ loginUser' = Put(loginUser, u, row)
      /\ tempUserMap' = tempUserMap /\ sessionId' = sessionId
      /\ sessionHome' = Put(sessionHome, s0, HomeOf[u]) \/ sessionHome' = sessionHome
  BY DEF Login
<1>2. s0 \in Held(u)
  BY <1>1, BoundsAssumption DEF Held, HeldIn, TypeOK, TableOK, RecOK, UserRec, Sessions
<1>3. row.session = tempUserMap[u].session
  BY <1>1 DEF TypeOK, TableOK, RecOK, UserRec
<1> HIDE DEF row
<1>4. \A v \in Users : Held(v)' \subseteq Held(v)
  <2>1. \A v \in Users : HeldIn(loginUser', v) \subseteq Held(v)
    BY <1>1, <1>3, HeldRow
  <2> QED
    BY <1>1, <2>1, HeldPrime DEF Held
<1> HIDE DEF s0
<1>5. \A v, w \in Users : v # w => Held(v)' \cap Held(w)' = {}
  BY <1>4 DEF SessionOwned
<1>6. ASSUME NEW v \in Users, NEW s \in Held(v)'
      PROVE  s <= sessionId' /\ (s \in DOMAIN sessionHome' => sessionHome'[s] = HomeOf[v])
  <2>1. s \in Held(v)
    BY <1>4
  <2>2. s <= sessionId /\ (s \in DOMAIN sessionHome => sessionHome[s] = HomeOf[v])
    BY <2>1 DEF SessionOwned
  <2>3. s = s0 => v = u
    BY <1>2, <2>1 DEF SessionOwned
  <2> QED
    BY <1>1, <2>2, <2>3 DEF Put
<1>7. \A s \in DOMAIN sessionHome' : s <= sessionId'
  <2>1. s0 <= sessionId
    BY <1>2 DEF SessionOwned
  <2> QED
    BY <1>1, <2>1 DEF SessionOwned, Put
<1> QED
  BY <1>5, <1>6, <1>7 DEF SessionOwned

LEMMA SessionNext == TypeOK /\ SessionOwned /\ [Next]_vars => SessionOwned'
<1> SUFFICES ASSUME TypeOK, SessionOwned, [Next]_vars PROVE SessionOwned'
  OBVIOUS
<1>1. CASE \E u \in Users, a \in Addrs, k \in Serials \cup {0} : Allocate(u, a, k)
  BY <1>1, NarrowedOwned DEF Allocate, Narrowed, Held, HeldIn
<1>2. CASE \E a \in Addrs : SdphTooMany(a)
  BY <1>2, NarrowedSdphTooMany, NarrowedOwned
<1>3. CASE \E a \in Addrs : Destroy(a)
  BY <1>3, NarrowedDestroy, NarrowedOwned DEF Destroy
<1>4. CASE \E a \in Addrs, g \in Gens : Sdph(a, g) \/ SdplNew(a, g) \/ SdplAgain(a, g)
  BY <1>4, NarrowedRegistration, NarrowedOwned
<1>5. CASE \E u \in Users : PassSecretKey(u)
  BY <1>5, SessionPassSecretKey
<1>6. CASE \E u \in Users : Heartbeat(u) \/ DeviceOperation(u) \/ UpdateQuery(u) \/ Elapse(u)
  BY <1>6, NarrowedFreshness, NarrowedOwned DEF UpdateQuery
<1>7. CASE \E u \in Users : Crash(u)
  BY <1>7 DEF Crash, SessionOwned, Held, HeldIn, EmptyMap
<1>8. CASE \E u \in Users : Logout(u)
  BY <1>8, NarrowedLogout, NarrowedOwned DEF Logout
<1>9. CASE \E u \in Users, device \in BOOLEAN : Login(u, device)
  BY <1>9, SessionLogin
<1>10. CASE \E role \in {Hosts, Terminals} : TimerProc(role)
  BY <1>10, NarrowedOwned DEF TimerProc, Narrowed, Held, HeldIn
<1>11. CASE LogoutUser
  BY <1>11, NarrowedLogout, NarrowedOwned DEF LogoutUser
<1>12. CASE UNCHANGED vars
  BY <1>12 DEF vars, SessionOwned, Held, HeldIn
<1> QED
  BY <1>1, <1>2, <1>3, <1>4, <1>5, <1>6, <1>7, <1>8, <1>9, <1>10, <1>11, <1>12 DEF Next

\* A session id belongs to one user and is mapped to the home of that user, in
\* every reachable state and for any number of hosts, terminals and homes.
THEOREM SessionsAreOwned == Spec => []SessionOwned
<1>1. Init => SessionOwned
  BY DEF Init, SessionOwned, Held, HeldIn, EmptyMap
<1> QED
  BY <1>1, TypeCorrect, SessionNext, PTL DEF Spec

-----------------------------------------------------------------------------
(* Leaving the tables of logged-in users.  Rows are erased in LogoutLogin  *)
(* only, by the session that LogoutSession unmaps in the same step.        *)

LEMMA LogoutEnds ==
  ASSUME NEW u, NEW v \in DOMAIN loginUser, v \notin DOMAIN LogoutLogin(u)
  PROVE  loginUser[v].session \notin DOMAIN LogoutSession(u)
<1> DEFINE s == tempUserMap[u].session
<1>1. s \in DOMAIN sessionHome /\ v \notin DOMAIN RemoveBySession(loginUser, sessionHome[s], s)
  BY DEF LogoutLogin, RestoreHostSdp
<1>2. loginUser[v].session = s
  BY <1>1 DEF RemoveBySession, Erase
<1> QED
  BY <1>2 DEF LogoutSession, Erase

LEMMA EndsWhenLogout ==
  ASSUME NEW u, DoWhenLogout(u)
  PROVE  EndsSession
<1>1. CASE u \in DOMAIN tempUserMap
  BY <1>1, LogoutEnds DEF DoWhenLogout, EndsSession
<1>2. CASE u \notin DOMAIN tempUserMap
  BY <1>2 DEF DoWhenLogout, EndsSession
<1> QED
  BY <1>1, <1>2

LEMMA EndsSdplNew ==
  ASSUME NEW a, NEW g, SdplNew(a, g)
  PROVE  EndsSession
<1> DEFINE u == alloc[a].user
           old == Replaced(TerminalUser(u).sdpVec, 1)
           login == IF old = {} THEN loginUser ELSE LogoutLogin(u)
<1>1. /\ PairTerminal(u, login)
      /\ sessionHome' = IF old = {} THEN sessionHome ELSE LogoutSession(u)
  BY DEF SdplNew
<1>2. DOMAIN loginUser' = DOMAIN login
  <2> HIDE DEF login
  <2> QED
    BY <1>1 DEF PairTerminal
<1>3. CASE old = {}
  BY <1>2, <1>3 DEF EndsSession
<1>4. CASE old # {}
  <2>1. login = LogoutLogin(u) /\ sessionHome' = LogoutSession(u)
    BY <1>1, <1>4
  <2> HIDE DEF login, u
  <2> QED
    BY <1>2, <2>1, LogoutEnds DEF EndsSession
<1> QED
  BY <1>3, <1>4

\* Every other step keeps all the rows, or is the end of the process.
LEMMA EndsNext == [Next]_vars => EndsSession
<1> SUFFICES ASSUME [Next]_vars PROVE EndsSession
  OBVIOUS
<1>1. CASE \E u \in Users, a \in Addrs, k \in Serials \cup {0} : Allocate(u, a, k)
  BY <1>1 DEF Allocate, EndsSession
<1>2. CASE \E a \in Addrs : SdphTooMany(a)
  BY <1>2 DEF SdphTooMany, EndsSession
<1>3. CASE \E a \in Addrs : Destroy(a)
  BY <1>3, EndsWhenLogout DEF Destroy, HandleDestroy, EndsSession, Put
<1>4. CASE \E a \in Addrs, g \in Gens : Sdph(a, g)
  BY <1>4 DEF Sdph, EndsSession, Put
<1>5. CASE \E a \in Addrs, g \in Gens : SdplNew(a, g)
  BY <1>5, EndsSdplNew
<1>6. CASE \E a \in Addrs, g \in Gens : SdplAgain(a, g)
  BY <1>6 DEF SdplAgain, PairTerminal, EndsSession
<1>7. CASE \E u \in Users : PassSecretKey(u)
  BY <1>7 DEF PassSecretKey, EndsSession
<1>8. CASE \E u \in Users : Heartbeat(u)
  BY <1>8 DEF Heartbeat, EndsSession
<1>9. CASE \E u \in Users : DeviceOperation(u) \/ UpdateQuery(u)
  BY <1>9 DEF UpdateQuery, DeviceOperation, EndsSession, Put
<1>10. CASE \E u \in Users : Crash(u)
  BY <1>10 DEF Crash, EndsSession, EmptyMap
<1>11. CASE \E u \in Users : Logout(u)
  BY <1>11, EndsWhenLogout DEF Logout
<1>12. CASE \E u \in Users : Elapse(u)
  BY <1>12 DEF Elapse, EndsSession
<1>13. CASE \E u \in Users, device \in BOOLEAN : Login(u, device)
  BY <1>13 DEF Login, EndsSession, Put
<1>14. CASE \E role \in {Hosts, Terminals} : TimerProc(role)
  BY <1>14 DEF TimerProc, EndsSession
<1>15. CASE LogoutUser
  BY <1>15, EndsWhenLogout DEF LogoutUser
<1>16. CASE UNCHANGED vars
  BY <1>16 DEF vars, EndsSession
<1> QED
  BY <1>1, <1>2, <1>3, <1>4, <1>5, <1>6, <1>7, <1>8, <1>9, <1>10, <1>11, <1>12,
     <1>13, <1>14, <1>15, <1>16 DEF Next

\* Whoever leaves the tables of logged-in users loses the session in the same
\* step, whichever of the endings it was.
THEOREM SessionEndsWithLogin == Spec => DeregistrationEndsSession
<1>1. [Next]_vars => [EndsSession]_vars
  BY EndsNext
<1> QED
  BY <1>1, PTL DEF Spec, DeregistrationEndsSession

=============================================================================
