----------------------- MODULE TurnPermissionsProofs -----------------------
(***************************************************************************)
(* Proofs about TurnPermissions, for any peers, channels and permissions,  *)
(* with restores that may fall into any packet.  The invariant says how    *)
(* far the damage of such a restore goes:                                  *)
(*   - an entry of either table is torn (its address and its channel are   *)
(*     in the history), or it agrees with the other table as long as no    *)
(*     restore is at work, and otherwise is still to be visited (Agreed);  *)
(*   - the permission of a ChannelBind at work has no channel yet, and it  *)
(*     is torn or still reached by its address (Binding);                  *)
(*   - two channels lead to one address only if it is torn (Apart).        *)
(* What is torn shares no address and no channel with what is not.  From   *)
(* the same comes what a valid permission survives.                        *)
(***************************************************************************)
EXTENDS TurnPermissions, TLAPS

IpIn(tn, i) == \E n \in Channels : <<i, n>> \in tn
ChannelIn(tn, n) == \E i \in Ips : <<i, n>> \in tn

\* Entries that agree, but for what is torn: tb are the tables, pm the
\* permissions, tn the history and rs the restore.
Agreed(tb, pm, tn, rs) ==
  /\ \A i \in Ips : tb.peer[i] # None => Ip(pm[tb.peer[i]].addr) = i
  /\ \A n \in Channels : tb.ch[n] # None =>
       /\ pm[tb.ch[n]].channel = n
       /\ \/ <<Ip(pm[tb.ch[n]].addr), n>> \in tn
          \/ /\ ~ChannelIn(tn, n)
             /\ rs.loop = "none" =>
                  /\ ~IpIn(tn, Ip(pm[tb.ch[n]].addr))
                  /\ tb.peer[Ip(pm[tb.ch[n]].addr)] = tb.ch[n]
             /\ rs.loop = "ch" => n \in rs.channels
  /\ \A i \in Ips : tb.peer[i] # None /\ pm[tb.peer[i]].channel # None =>
       \/ <<i, pm[tb.peer[i]].channel>> \in tn
       \/ /\ ~IpIn(tn, i)
          /\ tb.ch[pm[tb.peer[i]].channel] = tb.peer[i]
          /\ rs.loop # "ch"
          /\ rs.loop = "peer" => i \in rs.ips

Agree == Agreed(tables, perm, torn, restore)

\* Channels that lead to one address, if it is torn only.
Apart ==
  \A m, n \in Channels :
    /\ m # n /\ tables.ch[m] # None /\ tables.ch[n] # None
    /\ Ip(perm[tables.ch[m]].addr) = Ip(perm[tables.ch[n]].addr)
    => IpIn(torn, Ip(perm[tables.ch[m]].addr))

Binding ==
  bind # None =>
    /\ perm[bind.p].channel = None
    /\ tables.ch[bind.channel] = None
    /\ \/ <<Ip(perm[bind.p].addr), bind.channel>> \in torn
       \/ /\ restore.loop = "none"
          /\ ~IpIn(torn, Ip(perm[bind.p].addr))
          /\ ~ChannelIn(torn, bind.channel)
          /\ tables.peer[Ip(perm[bind.p].addr)] = bind.p

IInv == TypeOK /\ Agree /\ Apart /\ Binding

\* Tables that have no entry that the others have not.
Within(tc, tb) ==
  /\ \A i \in Ips : tc.peer[i] \in {tb.peer[i], None}
  /\ \A n \in Channels : tc.ch[n] \in {tb.ch[n], None}
-----------------------------------------------------------------------------
LEMMA IpType == ASSUME NEW x \in Peers PROVE Ip(x) \in Ips
  BY DEF Peers, Ip

LEMMA FoundType ==
  ASSUME TypeOK, NEW p \in Perms \cup {None}
  PROVE  /\ Found(p) \in Perms \cup {None}
         /\ Found(p) # None => Found(p) = p /\ p \in Perms
  BY PermissionsAssumption DEF Found

\* A look-up keeps the type of the tables and only takes entries away.
LEMMA CheckedType ==
  ASSUME TypeOK, NEW tb \in Tables, NEW p \in Perms \cup {None}
  PROVE  Checked(tb, p) \in Tables /\ Within(Checked(tb, p), tb)
<1>1. CASE p = None \/ Found(p) # None
  <2>1. Checked(tb, p) = tb
    BY <1>1 DEF Checked
  <2> QED
    BY <2>1 DEF Within
<1>2. CASE ~(p = None \/ Found(p) # None)
  <2>1. Checked(tb, p) =
          [peer |-> [tb.peer EXCEPT ![Ip(perm[p].addr)] = None],
           ch |-> [n \in Channels |-> IF n = perm[p].channel THEN None
                                                            ELSE tb.ch[n]]]
    BY <1>2 DEF Checked
  <2> DEFINE ip == Ip(perm[p].addr)
             cn == perm[p].channel
             pe == [tb.peer EXCEPT ![ip] = None]
             ch == [n \in Channels |-> IF n = cn THEN None ELSE tb.ch[n]]
  <2>2. /\ tb.peer \in [Ips -> Perms \cup {None}]
        /\ tb.ch \in [Channels -> Perms \cup {None}]
    BY DEF Tables
  <2> HIDE DEF ip, cn
  <2>3. pe \in [Ips -> Perms \cup {None}]
        /\ \A i \in Ips : pe[i] \in {tb.peer[i], None}
    BY <2>2
  <2>4. ch \in [Channels -> Perms \cup {None}]
        /\ \A n \in Channels : ch[n] \in {tb.ch[n], None}
    BY <2>2
  <2>5. Checked(tb, p) = [peer |-> pe, ch |-> ch]
    BY <2>1 DEF ip, cn
  <2> HIDE DEF pe, ch
  <2> QED
    BY <2>3, <2>4, <2>5 DEF Within, Tables
<1> QED
  BY <1>1, <1>2

\* A look-up of an entry of tables that agree leaves tables that agree, where
\* an entry that was over is no more.
LEMMA CheckedAgrees ==
  ASSUME TypeOK, NEW tb \in Tables, NEW p \in Perms \cup {None},
         Agreed(tb, perm, torn, restore),
         \/ \E i \in Ips : p = tb.peer[i]
         \/ \E n \in Channels : p = tb.ch[n]
  PROVE  /\ Agreed(Checked(tb, p), perm, torn, restore)
         /\ Found(p) = None => /\ \A i \in Ips : tb.peer[i] = p =>
                                    Checked(tb, p).peer[i] = None
                               /\ \A n \in Channels : tb.ch[n] = p =>
                                    Checked(tb, p).ch[n] = None
<1>1. CASE p = None \/ Found(p) # None
  <2>1. Checked(tb, p) = tb
    BY <1>1 DEF Checked
  <2> QED
    BY <2>1, <1>1
<1>2. CASE ~(p = None \/ Found(p) # None)
  <2> DEFINE ip == Ip(perm[p].addr)
             cn == perm[p].channel
             tc == Checked(tb, p)
  <2>0. p \in Perms /\ p # None
    BY <1>2
  <2>1. tc = [peer |-> [tb.peer EXCEPT ![ip] = None],
              ch |-> [n \in Channels |-> IF n = cn THEN None ELSE tb.ch[n]]]
    BY <1>2 DEF Checked
  <2>1a. tb.peer \in [Ips -> Perms \cup {None}]
    BY DEF Tables
  <2>1b. /\ \A i \in Ips : tb.peer[i] \in Perms \cup {None}
         /\ \A n \in Channels : tb.ch[n] \in Perms \cup {None}
    BY DEF Tables
  <2>2. \A i \in Ips : tc.peer[i] = IF i = ip THEN None ELSE tb.peer[i]
    <3>1. tc.peer = [tb.peer EXCEPT ![ip] = None]
      BY <2>1
    <3> HIDE DEF ip, tc
    <3> QED
      BY <3>1, <2>1a
  <2>3. \A n \in Channels : tc.ch[n] = IF n = cn THEN None ELSE tb.ch[n]
    <3>1. tc.ch = [n \in Channels |-> IF n = cn THEN None ELSE tb.ch[n]]
      BY <2>1
    <3> HIDE DEF tc
    <3> QED
      BY <3>1
  <2>4. /\ ip \in Ips
        /\ \A q \in Perms : Ip(perm[q].addr) \in Ips
    BY <2>0, IpType DEF TypeOK, Records
  <2>5. \A i \in Ips : tb.peer[i] # None => Ip(perm[tb.peer[i]].addr) = i
    BY DEF Agreed
  <2>6. \A n \in Channels : tb.ch[n] # None =>
          /\ perm[tb.ch[n]].channel = n
          /\ \/ <<Ip(perm[tb.ch[n]].addr), n>> \in torn
             \/ /\ ~ChannelIn(torn, n)
                /\ restore.loop = "none" =>
                     /\ ~IpIn(torn, Ip(perm[tb.ch[n]].addr))
                     /\ tb.peer[Ip(perm[tb.ch[n]].addr)] = tb.ch[n]
                /\ restore.loop = "ch" => n \in restore.channels
    BY DEF Agreed
  <2>7. \A i \in Ips : tb.peer[i] # None /\ perm[tb.peer[i]].channel # None =>
          \/ <<i, perm[tb.peer[i]].channel>> \in torn
          \/ /\ ~IpIn(torn, i)
             /\ tb.ch[perm[tb.peer[i]].channel] = tb.peer[i]
             /\ restore.loop # "ch"
             /\ restore.loop = "peer" => i \in restore.ips
    BY DEF Agreed
  \* The entry that is over: it has its address, or it is torn, or a restore
  \* is at work.
  <2>8. \/ tb.peer[ip] = p
        \/ /\ cn \in Channels
           /\ tb.ch[cn] = p
           /\ <<ip, cn>> \in torn \/ restore.loop # "none"
    <3>1. ASSUME NEW i \in Ips, p = tb.peer[i] PROVE tb.peer[ip] = p
      BY <3>1, <2>0, <2>5
    <3>2. ASSUME NEW n \in Channels, p = tb.ch[n]
          PROVE  \/ tb.peer[ip] = p
                 \/ /\ cn \in Channels
                    /\ tb.ch[cn] = p
                    /\ <<ip, cn>> \in torn \/ restore.loop # "none"
      BY <3>2, <2>0, <2>6
    <3> QED
      BY <3>1, <3>2
  <2>9. \A n \in Channels : tb.ch[n] = p => cn = n
    BY <2>0, <2>6
  <2>10. \A i \in Ips : tb.peer[i] = p => ip = i
    BY <2>0, <2>5
  <2>11. /\ \A i \in Ips, n \in Channels : <<i, n>> \in torn =>
              IpIn(torn, i) /\ ChannelIn(torn, n)
    BY DEF IpIn, ChannelIn
  <2>12. cn \in Channels \cup {None}
    BY <2>0 DEF TypeOK, Records
  <2> HIDE DEF ip, cn, tc
  <2>13. \A i \in Ips : tc.peer[i] # None => Ip(perm[tc.peer[i]].addr) = i
    BY <2>2, <2>5
  <2>14. ASSUME NEW n \in Channels, tc.ch[n] # None
         PROVE  /\ perm[tc.ch[n]].channel = n
                /\ \/ <<Ip(perm[tc.ch[n]].addr), n>> \in torn
                   \/ /\ ~ChannelIn(torn, n)
                      /\ restore.loop = "none" =>
                           /\ ~IpIn(torn, Ip(perm[tc.ch[n]].addr))
                           /\ tc.peer[Ip(perm[tc.ch[n]].addr)] = tc.ch[n]
                      /\ restore.loop = "ch" => n \in restore.channels
    <3>1. tc.ch[n] = tb.ch[n] /\ n # cn
      BY <2>3, <2>14
    <3> DEFINE q == tb.ch[n]
               iq == Ip(perm[q].addr)
    <3>2. q \in Perms /\ iq \in Ips /\ q # None
      BY <3>1, <2>14, <2>1b, <2>4
    <3>3. q # p
      BY <3>1, <2>9
    <3>4. CASE restore.loop = "none" /\ ~IpIn(torn, iq) /\ tb.peer[iq] = q
      <4>1. iq # ip
        BY <3>3, <3>4, <2>4, <2>8, <2>11
      <4> QED
        BY ZenonT(60), <3>1, <3>2, <3>4, <4>1, <2>2, <2>6
    <3>5. CASE ~(restore.loop = "none" /\ ~IpIn(torn, iq) /\ tb.peer[iq] = q)
      BY <3>1, <3>2, <3>5, <2>6
    <3> QED
      BY <3>4, <3>5
  <2>15. ASSUME NEW i \in Ips, tc.peer[i] # None,
                perm[tc.peer[i]].channel # None
         PROVE  \/ <<i, perm[tc.peer[i]].channel>> \in torn
                \/ /\ ~IpIn(torn, i)
                   /\ tc.ch[perm[tc.peer[i]].channel] = tc.peer[i]
                   /\ restore.loop # "ch"
                   /\ restore.loop = "peer" => i \in restore.ips
    <3>1. i # ip /\ tc.peer[i] = tb.peer[i]
      BY <2>2, <2>15
    <3> DEFINE q == tb.peer[i]
               m == perm[q].channel
    <3>2. q \in Perms /\ m \in Channels /\ m # None /\ q # p /\ q # None
      BY <3>1, <2>15, <2>1b, <2>10 DEF TypeOK, Records
    <3>3. SUFFICES ASSUME <<i, m>> \notin torn PROVE m # cn
      BY <3>1, <3>2, <2>3, <2>7
    <3>4. tb.ch[m] = q
      BY <3>1, <3>2, <3>3, <2>7
    <3>5. ~ChannelIn(torn, m)
      BY <3>2, <3>3, <3>4, <2>5, <2>6
    <3>6. SUFFICES ASSUME m = cn PROVE FALSE
      OBVIOUS
    <3>7. tb.ch[cn] # p
      BY <3>2, <3>4, <3>6
    <3>8. tb.peer[ip] = p
      BY <3>7, <2>8
    <3>9. <<ip, cn>> \in torn
      BY <3>2, <3>6, <3>7, <3>8, <2>0, <2>4, <2>7 DEF cn
    <3> QED
      BY <3>2, <3>5, <3>6, <3>9, <2>4, <2>11
  <2>16. Agreed(tc, perm, torn, restore)
    BY <2>13, <2>14, <2>15 DEF Agreed
  <2>17. \A i \in Ips : tb.peer[i] = p => tc.peer[i] = None
    BY <2>2, <2>10
  <2>18. \A n \in Channels : tb.ch[n] = p => tc.ch[n] = None
    BY <2>3, <2>9
  <2> QED
    BY <2>16, <2>17, <2>18 DEF tc
<1> QED
  BY <1>1, <1>2

LEMMA LookUp ==
  ASSUME TypeOK
  PROVE  /\ \A tb \in Tables : \A x \in Peers :
              ByAddress(tb, x) \in Tables /\ Within(ByAddress(tb, x), tb)
         /\ \A tb \in Tables : \A n \in Channels :
              ByChannel(tb, n) \in Tables /\ Within(ByChannel(tb, n), tb)
<1>1. ASSUME NEW tb \in Tables, NEW x \in Peers
      PROVE  ByAddress(tb, x) \in Tables /\ Within(ByAddress(tb, x), tb)
  <2>1. tb.peer[Ip(x)] \in Perms \cup {None}
    BY IpType DEF Tables
  <2> QED
    BY <2>1, CheckedType DEF ByAddress
<1>2. ASSUME NEW tb \in Tables, NEW n \in Channels
      PROVE  ByChannel(tb, n) \in Tables /\ Within(ByChannel(tb, n), tb)
  <2>1. tb.ch[n] \in Perms \cup {None}
    BY DEF Tables
  <2> QED
    BY <2>1, CheckedType DEF ByChannel
<1> QED
  BY <1>1, <1>2

LEMMA LookUpAgrees ==
  ASSUME TypeOK, NEW tb \in Tables, Agreed(tb, perm, torn, restore)
  PROVE  /\ \A x \in Peers :
              /\ Agreed(ByAddress(tb, x), perm, torn, restore)
              /\ Found(tb.peer[Ip(x)]) = None =>
                   ByAddress(tb, x).peer[Ip(x)] = None
         /\ \A n \in Channels :
              /\ Agreed(ByChannel(tb, n), perm, torn, restore)
              /\ Found(tb.ch[n]) = None => ByChannel(tb, n).ch[n] = None
<1>1. ASSUME NEW x \in Peers
      PROVE  /\ Agreed(ByAddress(tb, x), perm, torn, restore)
             /\ Found(tb.peer[Ip(x)]) = None =>
                  ByAddress(tb, x).peer[Ip(x)] = None
  <2>1. Ip(x) \in Ips /\ tb.peer[Ip(x)] \in Perms \cup {None}
    BY IpType DEF Tables
  <2> QED
    BY <2>1, CheckedAgrees DEF ByAddress
<1>2. ASSUME NEW n \in Channels
      PROVE  /\ Agreed(ByChannel(tb, n), perm, torn, restore)
             /\ Found(tb.ch[n]) = None => ByChannel(tb, n).ch[n] = None
  <2>1. tb.ch[n] \in Perms \cup {None}
    BY DEF Tables
  <2> QED
    BY <2>1, CheckedAgrees DEF ByChannel
<1> QED
  BY <1>1, <1>2
-----------------------------------------------------------------------------
LEMMA GrantType ==
  ASSUME TypeOK, NEW tb \in Tables, NEW x \in Peers, NEW p \in Perms,
         Grant(tb, x, p)
  PROVE  tables' \in Tables /\ perm' \in [Perms -> Records]
<1>1. CASE tables' = tb /\ UNCHANGED perm
  BY <1>1 DEF TypeOK
<1>2. CASE /\ tables' = [ByAddress(tb, x) EXCEPT !.peer[Ip(x)] = p]
           /\ perm' = [perm EXCEPT ![p] =
                         [addr |-> x, channel |-> None, valid |-> TRUE]]
  <2>1. PICK tc \in Tables : tc = ByAddress(tb, x)
    BY LookUp
  <2>2. tables' = [tc EXCEPT !.peer[Ip(x)] = p]
    BY <1>2, <2>1
  <2>3. tables' \in Tables
    BY <2>2, IpType DEF Tables
  <2>4. perm' \in [Perms -> Records]
    BY <1>2 DEF TypeOK, Records
  <2> QED
    BY <2>3, <2>4
<1> QED
  BY <1>1, <1>2 DEF Grant

\* A permission that is granted leaves tables that agree, leads from its
\* address, and leaves the other channels as they are.
LEMMA GrantAgrees ==
  ASSUME TypeOK, NEW tb \in Tables, NEW x \in Peers, NEW p \in Perms,
         Grant(tb, x, p), Agreed(tb, perm, torn, restore), Within(tb, tables)
  PROVE  /\ Agreed(tables', perm', torn, restore)
         /\ tables'.peer[Ip(x)] = p
         /\ Ip(perm'[p].addr) = Ip(x)
         /\ \A n \in Channels :
              /\ tables'.ch[n] \in {tb.ch[n], None}
              /\ tables'.ch[n] # None =>
                   perm'[tables'.ch[n]].addr = perm[tables'.ch[n]].addr
<1>0. Ip(x) \in Ips /\ tb.peer[Ip(x)] \in Perms \cup {None}
  BY IpType DEF Tables
<1>1. CASE p = Found(tb.peer[Ip(x)]) /\ tables' = tb /\ UNCHANGED perm
  <2>1. p = tb.peer[Ip(x)] /\ p # None
    BY <1>0, <1>1, FoundType, PermissionsAssumption
  <2> QED
    BY <2>1, <1>0, <1>1 DEF Agreed
<1>2. CASE /\ Found(tb.peer[Ip(x)]) = None
           /\ p \notin InUse
           /\ tables' = [ByAddress(tb, x) EXCEPT !.peer[Ip(x)] = p]
           /\ perm' = [perm EXCEPT ![p] =
                         [addr |-> x, channel |-> None, valid |-> TRUE]]
  <2>1. PICK tc \in Tables : tc = ByAddress(tb, x)
    BY LookUp
  <2>2. Agreed(tc, perm, torn, restore) /\ tc.peer[Ip(x)] = None
    BY <2>1, <1>2, LookUpAgrees
  <2>2a. \A i \in Ips : tc.peer[i] # None => Ip(perm[tc.peer[i]].addr) = i
    BY <2>2 DEF Agreed
  <2>2b. \A i \in Ips : tc.peer[i] # None /\ perm[tc.peer[i]].channel # None =>
           \/ <<i, perm[tc.peer[i]].channel>> \in torn
           \/ /\ ~IpIn(torn, i)
              /\ tc.ch[perm[tc.peer[i]].channel] = tc.peer[i]
              /\ restore.loop # "ch"
              /\ restore.loop = "peer" => i \in restore.ips
    BY <2>2 DEF Agreed
  <2>3. Within(tc, tb)
    BY <2>1, LookUp
  <2>4. /\ tc.peer \in [Ips -> Perms \cup {None}]
        /\ tc.ch \in [Channels -> Perms \cup {None}]
        /\ p # None
    BY PermissionsAssumption DEF Tables
  <2>5. /\ \A i \in Ips : tc.peer[i] # p
        /\ \A n \in Channels : tc.ch[n] # p
    BY <2>3, <2>4, <1>2 DEF Within, InUse
  <2>6. tables'.ch = tc.ch
        /\ tables'.peer = [tc.peer EXCEPT ![Ip(x)] = p]
    BY <2>1, <1>2 DEF Tables
  <2>7. \A i \in Ips : tables'.peer[i] = IF i = Ip(x) THEN p ELSE tc.peer[i]
    BY <2>6, <2>4
  <2>8. /\ perm'[p] = [addr |-> x, channel |-> None, valid |-> TRUE]
        /\ \A q \in Perms : q # p => perm'[q] = perm[q]
    BY <1>2 DEF TypeOK
  <2>8a. perm'[p].addr = x /\ perm'[p].channel = None
    BY <2>8
  <2>9. ASSUME NEW i \in Ips, tables'.peer[i] # None
        PROVE  Ip(perm'[tables'.peer[i]].addr) = i
    <3>1. CASE i = Ip(x)
      BY <3>1, <2>7, <2>8a
    <3>2. CASE i # Ip(x)
      <4>1. tables'.peer[i] = tc.peer[i] /\ tc.peer[i] \in Perms
        BY <3>2, <2>7, <2>9, <2>4
      <4>2. perm'[tc.peer[i]] = perm[tc.peer[i]]
        BY <4>1, <2>5, <2>8
      <4> QED
        BY <4>1, <4>2, <2>9, <2>2a
    <3> QED
      BY <3>1, <3>2
  <2>9a. \A n \in Channels : tc.ch[n] # None =>
           perm'[tc.ch[n]] = perm[tc.ch[n]]
    BY <2>4, <2>5, <2>8
  <2>10. ASSUME NEW n \in Channels, tables'.ch[n] # None
         PROVE  /\ perm'[tables'.ch[n]].channel = n
                /\ \/ <<Ip(perm'[tables'.ch[n]].addr), n>> \in torn
                   \/ /\ ~ChannelIn(torn, n)
                      /\ restore.loop = "none" =>
                           /\ ~IpIn(torn, Ip(perm'[tables'.ch[n]].addr))
                           /\ tables'.peer[Ip(perm'[tables'.ch[n]].addr)]
                                = tables'.ch[n]
                      /\ restore.loop = "ch" => n \in restore.channels
    <3> DEFINE q == tc.ch[n]
               iq == Ip(perm[q].addr)
    <3>1. q \in Perms /\ tables'.ch[n] = q /\ q # None
      BY <2>10, <2>6, <2>4
    <3>2. perm'[q] = perm[q]
      BY <3>1, <2>9a
    <3>3. /\ perm[q].channel = n
          /\ \/ <<iq, n>> \in torn
             \/ /\ ~ChannelIn(torn, n)
                /\ restore.loop = "none" =>
                     ~IpIn(torn, iq) /\ tc.peer[iq] = q
                /\ restore.loop = "ch" => n \in restore.channels
      BY <3>1, <2>2 DEF Agreed
    <3>4. iq \in Ips
      BY <3>1, IpType DEF TypeOK, Records
    <3>5. tc.peer[iq] = q => tables'.peer[iq] = q
      BY <3>1, <3>4, <2>2, <2>7
    <3> QED
      BY <3>1, <3>2, <3>3, <3>5
  <2>11. ASSUME NEW i \in Ips, tables'.peer[i] # None,
                perm'[tables'.peer[i]].channel # None
         PROVE  \/ <<i, perm'[tables'.peer[i]].channel>> \in torn
                \/ /\ ~IpIn(torn, i)
                   /\ tables'.ch[perm'[tables'.peer[i]].channel] = tables'.peer[i]
                   /\ restore.loop # "ch"
                   /\ restore.loop = "peer" => i \in restore.ips
    <3>1. i # Ip(x)
      BY <2>11, <2>7, <2>8a
    <3>2. tables'.peer[i] = tc.peer[i] /\ tc.peer[i] \in Perms
      BY <3>1, <2>7, <2>11, <2>4
    <3>3. perm'[tc.peer[i]] = perm[tc.peer[i]]
      BY <3>2, <2>5, <2>8
    <3>4. \/ <<i, perm[tc.peer[i]].channel>> \in torn
          \/ /\ ~IpIn(torn, i)
             /\ tc.ch[perm[tc.peer[i]].channel] = tc.peer[i]
             /\ restore.loop # "ch"
             /\ restore.loop = "peer" => i \in restore.ips
      BY <3>2, <3>3, <2>11, <2>2b
    <3> QED
      BY <3>2, <3>3, <3>4, <2>6
  <2>12. Agreed(tables', perm', torn, restore)
    BY <2>9, <2>10, <2>11 DEF Agreed
  <2>13. \A n \in Channels :
           /\ tables'.ch[n] \in {tb.ch[n], None}
           /\ tables'.ch[n] # None =>
                perm'[tables'.ch[n]].addr = perm[tables'.ch[n]].addr
    BY <2>6, <2>3, <2>9a DEF Within
  <2> QED
    BY <2>7, <2>8a, <2>12, <2>13, <1>0
<1> QED
  BY <1>1, <1>2 DEF Grant
-----------------------------------------------------------------------------
LEMMA TypeInit == Init => TypeOK
<1> SUFFICES ASSUME Init PROVE TypeOK
  OBVIOUS
<1>1. tables \in Tables
  BY DEF Init, Tables
<1>2. perm \in [Perms -> Records]
  BY DEF Init, Records
<1>3. bind \in Binds \cup {None}
  BY DEF Init
<1>4. restore \in [loop : {"none", "peer", "ch"}, ips : SUBSET Ips,
                   channels : SUBSET Channels]
  BY DEF Init, Idle
<1>5. torn \subseteq Ips \X Channels
  BY DEF Init
<1> QED
  BY <1>1, <1>2, <1>3, <1>4, <1>5 DEF TypeOK

LEMMA TypeNext == TypeOK /\ [Next]_vars => TypeOK'
<1> SUFFICES ASSUME TypeOK, [Next]_vars PROVE TypeOK'
  OBVIOUS
<1> USE DEF TypeOK
<1>1. ASSUME NEW x \in Peers, CreatePermission(x) PROVE TypeOK'
  BY <1>1, GrantType DEF CreatePermission
<1>2. ASSUME NEW x \in Peers, Send(x) PROVE TypeOK'
  BY <1>1, <1>2 DEF Send
<1>3. ASSUME NEW x \in Peers, PeerData(x) PROVE TypeOK'
  BY <1>3, LookUp DEF PeerData
<1>4. ASSUME NEW n \in Channels, ChannelData(n) PROVE TypeOK'
  BY <1>4, LookUp DEF ChannelData
<1>5. ASSUME NEW n \in Channels, BindAgain(n) PROVE TypeOK'
  BY <1>5 DEF BindAgain
<1>6. ASSUME NEW n \in Channels, NEW x \in Peers, BindRefused(n, x)
      PROVE  TypeOK'
  BY <1>6, LookUp DEF BindRefused
<1>7. ASSUME NEW n \in Channels, NEW x \in Peers, BindLookup(n, x)
      PROVE  TypeOK'
  <2>1. PICK p \in Perms : /\ Grant(ByChannel(tables, n), x, p)
                           /\ bind' = [p |-> p, channel |-> n]
    BY <1>7 DEF BindLookup
  <2>2. tables' \in Tables /\ perm' \in [Perms -> Records]
    BY <2>1, LookUp, GrantType
  <2>3. restore' = restore /\ torn' = Bound(Ip(x), n)
    BY <1>7 DEF BindLookup
  <2>4. torn' \subseteq Ips \X Channels
    BY <2>3, IpType DEF Bound
  <2> QED
    BY <2>1, <2>2, <2>3, <2>4 DEF Binds
<1>8. CASE BindEnter
  <2>0. bind \in Binds
    BY <1>8 DEF BindEnter
  <2>1. tables' \in Tables
    BY <1>8, <2>0 DEF BindEnter, Tables, Binds
  <2>2. perm' \in [Perms -> Records]
    <3>1. PICK q \in Records : q = [perm[bind.p] EXCEPT !.channel = bind.channel,
                                                        !.valid = TRUE]
      BY ZenonT(40), <2>0 DEF Records, Binds
    <3>2. perm' = [perm EXCEPT ![bind.p] = q]
      BY <1>8, <3>1, <2>0 DEF BindEnter, Binds, Records
    <3> QED
      BY <3>2
  <2> QED
    BY <1>8, <2>1, <2>2 DEF BindEnter
<1>9. ASSUME NEW p \in Perms, Expire(p) PROVE TypeOK'
  <2>1. perm' \in [Perms -> Records]
    BY <1>9 DEF Expire, Records
  <2> QED
    BY <1>9, <2>1 DEF Expire
<1>10. CASE RestoreStart
  <2>1. bind # None => /\ Ip(perm[bind.p].addr) \in Ips
                       /\ bind.channel \in Channels
    BY IpType DEF Binds, Records
  <2>2. torn' \subseteq Ips \X Channels
    BY <1>10, <2>1 DEF RestoreStart
  <2> QED
    BY <1>10, <2>2 DEF RestoreStart
<1>11. ASSUME NEW i \in Ips, RestorePeer(i) PROVE TypeOK'
  BY <1>11 DEF RestorePeer, Tables
<1>12. CASE RestoreNext
  BY <1>12 DEF RestoreNext
<1>13. ASSUME NEW n \in Channels, RestoreChannel(n) PROVE TypeOK'
  BY <1>13 DEF RestoreChannel, Tables
<1>14. CASE RestoreEnd
  BY <1>14 DEF RestoreEnd, Idle
<1>15. CASE UNCHANGED vars
  BY <1>15 DEF vars
<1> QED
  BY <1>1, <1>2, <1>3, <1>4, <1>5, <1>6, <1>7, <1>8, <1>9, <1>10, <1>11,
     <1>12, <1>13, <1>14, <1>15 DEF Next, Packet, Restore

\* The tables, the permissions, the ChannelBind at work and the restore keep
\* their types (create_permission, restore_allocation), also when a restore
\* overlaps the client's packets.
THEOREM TypeCorrect == Spec => []TypeOK
<1>1. Init => TypeOK
  BY TypeInit
<1>2. TypeOK /\ [Next]_vars => TypeOK'
  BY TypeNext
<1> QED
  BY <1>1, <1>2, PTL DEF Spec
-----------------------------------------------------------------------------
(* How far a restore reaches that falls into a ChannelBind.                *)

LEMMA AgreeInit == Init => IInv
<1> SUFFICES ASSUME Init PROVE IInv
  OBVIOUS
<1>1. TypeOK
  BY TypeInit
<1>2. Agree /\ Apart
  BY DEF Init, Agree, Agreed, Apart
<1>3. Binding
  BY DEF Init, Binding
<1> QED
  BY <1>1, <1>2, <1>3 DEF IInv

\* A step that keeps the permissions' addresses and channels.
LEMMA AgreedSame ==
  ASSUME NEW tb \in Tables, NEW pm, NEW qm, NEW tn, NEW rs,
         Agreed(tb, pm, tn, rs),
         \A p \in Perms : qm[p].addr = pm[p].addr /\ qm[p].channel = pm[p].channel
  PROVE  Agreed(tb, qm, tn, rs)
<1>1. /\ \A i \in Ips : tb.peer[i] \in Perms \cup {None}
      /\ \A n \in Channels : tb.ch[n] \in Perms \cup {None}
  BY DEF Tables
<1>2. \A i \in Ips : tb.peer[i] # None =>
        /\ qm[tb.peer[i]].addr = pm[tb.peer[i]].addr
        /\ qm[tb.peer[i]].channel = pm[tb.peer[i]].channel
  BY <1>1
<1>3. \A n \in Channels : tb.ch[n] # None =>
        /\ qm[tb.ch[n]].addr = pm[tb.ch[n]].addr
        /\ qm[tb.ch[n]].channel = pm[tb.ch[n]].channel
  BY <1>1
<1> QED
  BY <1>2, <1>3 DEF Agreed

\* A channel and an address that lead to no other may be torn: what is not torn
\* shares neither.
LEMMA AgreedTorn ==
  ASSUME TypeOK, NEW tb \in Tables, NEW pm, NEW tn \in SUBSET (Ips \X Channels),
         NEW rs, Agreed(tb, pm, tn, rs), NEW i \in Ips, NEW n \in Channels,
         tb.ch[n] = None, tb.peer[i] # None => pm[tb.peer[i]].channel = None
  PROVE  Agreed(tb, pm, tn \cup {<<i, n>>}, rs)
<1> DEFINE to == tn \cup {<<i, n>>}
<1>1. /\ \A j \in Ips : IpIn(to, j) => j = i \/ IpIn(tn, j)
      /\ \A m \in Channels : ChannelIn(to, m) => m = n \/ ChannelIn(tn, m)
  BY DEF IpIn, ChannelIn
<1>2. \A j \in Ips, m \in Channels : <<j, m>> \in tn => <<j, m>> \in to
  OBVIOUS
<1>2a. \A j, m : <<j, m>> \in tn => <<j, m>> \in to
  OBVIOUS
<1>3. \A j \in Ips : tb.peer[j] # None => Ip(pm[tb.peer[j]].addr) = j
  BY DEF Agreed
<1> HIDE DEF to
<1>4. ASSUME NEW m \in Channels, tb.ch[m] # None
      PROVE  /\ pm[tb.ch[m]].channel = m
             /\ \/ <<Ip(pm[tb.ch[m]].addr), m>> \in to
                \/ /\ ~ChannelIn(to, m)
                   /\ rs.loop = "none" =>
                        /\ ~IpIn(to, Ip(pm[tb.ch[m]].addr))
                        /\ tb.peer[Ip(pm[tb.ch[m]].addr)] = tb.ch[m]
                   /\ rs.loop = "ch" => m \in rs.channels
  <2> DEFINE j == Ip(pm[tb.ch[m]].addr)
  <2>1. /\ pm[tb.ch[m]].channel = m
        /\ \/ <<j, m>> \in tn
           \/ /\ ~ChannelIn(tn, m)
              /\ rs.loop = "none" => ~IpIn(tn, j) /\ tb.peer[j] = tb.ch[m]
              /\ rs.loop = "ch" => m \in rs.channels
    BY <1>4 DEF Agreed
  <2>2. tb.peer[j] = tb.ch[m] => j # i
    BY <2>1, <1>4, PermissionsAssumption
  <2>3. IpIn(to, j) => j = i \/ IpIn(tn, j)
    BY DEF IpIn, to
  <2> HIDE DEF j
  <2>4. ~ChannelIn(tn, m) => ~ChannelIn(to, m)
    BY <1>1, <1>4
  <2>5. CASE <<j, m>> \in tn
    BY <2>1, <2>5, <1>2a DEF j
  <2>6. CASE <<j, m>> \notin tn
    BY <2>1, <2>2, <2>3, <2>4, <2>6 DEF j
  <2> QED
    BY <2>5, <2>6
<1>5. ASSUME NEW j \in Ips, tb.peer[j] # None, pm[tb.peer[j]].channel # None
      PROVE  \/ <<j, pm[tb.peer[j]].channel>> \in to
             \/ /\ ~IpIn(to, j)
                /\ tb.ch[pm[tb.peer[j]].channel] = tb.peer[j]
                /\ rs.loop # "ch"
                /\ rs.loop = "peer" => j \in rs.ips
  <2>1. j # i
    BY <1>5
  <2>2. \/ <<j, pm[tb.peer[j]].channel>> \in tn
        \/ /\ ~IpIn(tn, j)
           /\ tb.ch[pm[tb.peer[j]].channel] = tb.peer[j]
           /\ rs.loop # "ch"
           /\ rs.loop = "peer" => j \in rs.ips
    BY <1>5 DEF Agreed
  <2> QED
    BY <2>1, <2>2, <1>1, <1>2a
<1>6. Agreed(tb, pm, to, rs)
  BY <1>3, <1>4, <1>5 DEF Agreed
<1> QED
  BY <1>6 DEF to

\* Channels that lead where they led, or nowhere, stay apart.
LEMMA ApartKept ==
  ASSUME Apart, torn \subseteq torn',
         \A n \in Channels :
           /\ tables'.ch[n] \in {tables.ch[n], None}
           /\ tables'.ch[n] # None =>
                perm'[tables'.ch[n]].addr = perm[tables'.ch[n]].addr
  PROVE  Apart'
<1>1. \A i : IpIn(torn, i) => IpIn(torn', i)
  BY DEF IpIn
<1> QED
  BY <1>1 DEF Apart

\* A packet that leaves no ChannelBind at work, or has none and leaves it alone.
LEMMA PacketDone ==
  ASSUME IInv, TypeOK', bind' = None,
         Agreed(tables', perm', torn, restore), torn' = torn, restore' = restore,
         \A n \in Channels :
           /\ tables'.ch[n] \in {tables.ch[n], None}
           /\ tables'.ch[n] # None =>
                perm'[tables'.ch[n]].addr = perm[tables'.ch[n]].addr
  PROVE  IInv'
<1>1. Apart'
  BY ApartKept DEF IInv
<1>2. Agree'
  BY DEF Agree
<1> QED
  BY <1>1, <1>2 DEF IInv, Binding

LEMMA BindLookupAgrees ==
  ASSUME IInv, TypeOK', NEW n \in Channels, NEW x \in Peers, BindLookup(n, x)
  PROVE  IInv'
<1>0. TypeOK /\ tables \in Tables /\ Agreed(tables, perm, torn, restore)
  BY DEF IInv, TypeOK, Agree
<1>1. PICK p \in Perms : /\ Grant(ByChannel(tables, n), x, p)
                         /\ perm'[p].channel = None
                         /\ bind' = [p |-> p, channel |-> n]
  BY DEF BindLookup
<1>2. /\ ByChannel(tables, n) \in Tables
      /\ Within(ByChannel(tables, n), tables)
  BY <1>0, LookUp
<1>3. /\ Agreed(ByChannel(tables, n), perm, torn, restore)
      /\ ByChannel(tables, n).ch[n] = None
  BY <1>0, LookUpAgrees DEF BindLookup
<1>4. /\ Agreed(tables', perm', torn, restore)
      /\ tables'.peer[Ip(x)] = p
      /\ Ip(perm'[p].addr) = Ip(x)
      /\ tables'.ch[n] = None
  BY <1>0, <1>1, <1>2, <1>3, GrantAgrees
<1>5. \A m \in Channels :
        /\ tables'.ch[m] \in {tables.ch[m], None}
        /\ tables'.ch[m] # None =>
             perm'[tables'.ch[m]].addr = perm[tables'.ch[m]].addr
  BY <1>0, <1>1, <1>2, <1>3, GrantAgrees DEF Within
<1>6. restore' = restore /\ torn' = Bound(Ip(x), n)
  BY DEF BindLookup
<1>7. bind'.p = p /\ bind'.channel = n
  BY <1>1
<1>8. CASE Restoring \/ TornIp(Ip(x)) \/ TornChannel(n)
  <2>1. torn' = torn \cup {<<Ip(x), n>>}
    BY <1>6, <1>8 DEF Bound
  <2>2. tables' \in Tables /\ torn \in SUBSET (Ips \X Channels) /\ Ip(x) \in Ips
    BY <1>0, IpType DEF TypeOK
  <2>3. Agreed(tables', perm', torn', restore)
    BY <2>1, <2>2, <1>0, <1>1, <1>4, AgreedTorn
  <2>4. Agree'
    BY <2>3, <1>6 DEF Agree
  <2>5. Binding'
    BY <2>1, <1>1, <1>4, <1>7 DEF Binding
  <2>6. Apart'
    BY <2>1, <1>5, ApartKept DEF IInv
  <2> QED
    BY <2>4, <2>5, <2>6 DEF IInv
<1>9. CASE ~(Restoring \/ TornIp(Ip(x)) \/ TornChannel(n))
  <2>1. torn' = torn
    BY <1>6, <1>9 DEF Bound
  <2>2. restore.loop = "none" /\ ~IpIn(torn, Ip(x)) /\ ~ChannelIn(torn, n)
    BY <1>9 DEF Restoring, TornIp, TornChannel, IpIn, ChannelIn
  <2>3. Agree'
    BY <2>1, <1>4, <1>6 DEF Agree
  <2>4. Binding'
    BY <2>1, <2>2, <1>1, <1>4, <1>6, <1>7 DEF Binding
  <2>5. Apart'
    BY <2>1, <1>5, ApartKept DEF IInv
  <2> QED
    BY <2>3, <2>4, <2>5 DEF IInv
<1> QED
  BY <1>8, <1>9

LEMMA BindEnterAgrees ==
  ASSUME IInv, TypeOK', BindEnter
  PROVE  IInv'
<1> DEFINE p == bind.p
           n == bind.channel
           ip == Ip(perm[p].addr)
<1>0. TypeOK
  BY DEF IInv
<1>1. bind \in Binds /\ bind # None
  BY <1>0 DEF BindEnter, TypeOK
<1>2. p \in Perms /\ n \in Channels /\ p # None
  BY <1>1, PermissionsAssumption DEF Binds
<1>3. /\ perm[p].channel = None
      /\ tables.ch[n] = None
      /\ \/ <<ip, n>> \in torn
         \/ /\ restore.loop = "none"
            /\ ~IpIn(torn, ip)
            /\ ~ChannelIn(torn, n)
            /\ tables.peer[ip] = p
  BY <1>1 DEF IInv, Binding
<1>4. Agreed(tables, perm, torn, restore) /\ Apart
  BY DEF IInv, Agree
<1>4a. \A i \in Ips : tables.peer[i] # None /\ perm[tables.peer[i]].channel # None =>
         \/ <<i, perm[tables.peer[i]].channel>> \in torn
         \/ /\ ~IpIn(torn, i)
            /\ tables.ch[perm[tables.peer[i]].channel] = tables.peer[i]
            /\ restore.loop # "ch"
            /\ restore.loop = "peer" => i \in restore.ips
  BY <1>4 DEF Agreed
<1>5. /\ tables'.peer = tables.peer
      /\ tables'.ch = [tables.ch EXCEPT ![n] = p]
  BY <1>0, <1>2 DEF BindEnter, TypeOK, Tables
<1>6. perm'[p].addr = perm[p].addr /\ perm'[p].channel = n
  BY <1>0, <1>2 DEF BindEnter, TypeOK, Records
<1>7. \A q \in Perms : q # p => perm'[q] = perm[q]
  BY <1>0, <1>2 DEF BindEnter, TypeOK
<1>8. /\ \A i \in Ips : tables.peer[i] \in Perms \cup {None}
      /\ \A m \in Channels : tables.ch[m] \in Perms \cup {None}
      /\ tables.ch \in [Channels -> Perms \cup {None}]
  BY <1>0 DEF TypeOK, Tables
<1>8a. bind' = None /\ restore' = restore /\ torn' = torn
  BY DEF BindEnter
<1>8b. ip \in Ips
  BY <1>0, <1>2, IpType DEF TypeOK, Records
<1>8c. Ip(perm'[p].addr) = ip
  BY <1>6
<1> HIDE DEF p, n, ip
<1>8d. \A q \in Perms : Ip(perm'[q].addr) = Ip(perm[q].addr)
  BY <1>6, <1>7
<1>8e. \A m \in Channels : tables'.ch[m] = IF m = n THEN p ELSE tables.ch[m]
  BY <1>5, <1>8
<1>8f. ASSUME NEW m \in Channels, tables.ch[m] = p PROVE FALSE
  <2>1. perm[tables.ch[m]].channel = m
    BY <1>2, <1>4, <1>8f DEF Agreed
  <2> QED
    BY <2>1, <1>3, <1>8f, PermissionsAssumption
<1>9. \A i \in Ips : tables'.peer[i] # None =>
        Ip(perm'[tables'.peer[i]].addr) = i
  BY <1>4, <1>5, <1>8, <1>8d DEF Agreed
<1>10. ASSUME NEW m \in Channels, tables'.ch[m] # None
       PROVE  /\ perm'[tables'.ch[m]].channel = m
              /\ \/ <<Ip(perm'[tables'.ch[m]].addr), m>> \in torn
                 \/ /\ ~ChannelIn(torn, m)
                    /\ restore.loop = "none" =>
                         /\ ~IpIn(torn, Ip(perm'[tables'.ch[m]].addr))
                         /\ tables'.peer[Ip(perm'[tables'.ch[m]].addr)]
                              = tables'.ch[m]
                    /\ restore.loop = "ch" => m \in restore.channels
  <2>1. CASE m = n
    <3>1. tables'.ch[m] = p
      BY <2>1, <1>2, <1>8e
    <3> QED
      BY <3>1, <2>1, <1>3, <1>5, <1>6, <1>8c
  <2>2. CASE m # n
    <3> DEFINE q == tables.ch[m]
               iq == Ip(perm[q].addr)
    <3>1. tables'.ch[m] = q /\ q \in Perms /\ q # None /\ q # p
      BY <2>2, <1>8, <1>8e, <1>8f, <1>10
    <3>2. /\ perm[q].channel = m
          /\ \/ <<iq, m>> \in torn
             \/ /\ ~ChannelIn(torn, m)
                /\ restore.loop = "none" =>
                     ~IpIn(torn, iq) /\ tables.peer[iq] = q
                /\ restore.loop = "ch" => m \in restore.channels
      BY <3>1, <1>4 DEF Agreed
    <3>3. perm'[q] = perm[q]
      BY <3>1, <1>7
    <3> QED
      BY <3>1, <3>2, <3>3, <1>5
  <2> QED
    BY <2>1, <2>2
<1>11. ASSUME NEW i \in Ips, tables'.peer[i] # None,
              perm'[tables'.peer[i]].channel # None
       PROVE  \/ <<i, perm'[tables'.peer[i]].channel>> \in torn
              \/ /\ ~IpIn(torn, i)
                 /\ tables'.ch[perm'[tables'.peer[i]].channel] = tables'.peer[i]
                 /\ restore.loop # "ch"
                 /\ restore.loop = "peer" => i \in restore.ips
  <2>1. tables'.peer[i] = tables.peer[i] /\ tables.peer[i] \in Perms
    BY <1>5, <1>8, <1>11
  <2>2. CASE tables.peer[i] = p
    <3>1. i = ip
      BY <2>1, <2>2, <1>2, <1>4 DEF Agreed, ip
    <3> QED
      BY <3>1, <2>1, <2>2, <1>2, <1>3, <1>6, <1>8e
  <2>3. CASE tables.peer[i] # p
    <3>1. perm'[tables.peer[i]] = perm[tables.peer[i]]
      BY <2>1, <2>3, <1>7
    <3>2. \/ <<i, perm[tables.peer[i]].channel>> \in torn
          \/ /\ ~IpIn(torn, i)
             /\ tables.ch[perm[tables.peer[i]].channel] = tables.peer[i]
             /\ restore.loop # "ch"
             /\ restore.loop = "peer" => i \in restore.ips
      BY <2>1, <3>1, <1>11, <1>4a
    <3>3. perm[tables.peer[i]].channel \in Channels
      BY <2>1, <3>1, <1>11, <1>0 DEF TypeOK, Records
    <3>4. tables.ch[perm[tables.peer[i]].channel] = tables.peer[i] =>
            perm[tables.peer[i]].channel # n
      BY <1>3, <2>1, <1>11
    <3> QED
      BY <2>1, <3>1, <3>2, <3>3, <3>4, <1>8e
  <2> QED
    BY <2>2, <2>3
<1>12. Agree'
  BY <1>9, <1>10, <1>11, <1>8a DEF Agreed, Agree
<1>13. ASSUME NEW m \in Channels, m # n, tables.ch[m] # None,
              Ip(perm[tables.ch[m]].addr) = ip, ~IpIn(torn, ip)
       PROVE  FALSE
  <2>1. \A k \in Channels : <<ip, k>> \notin torn
    BY <1>13 DEF IpIn
  <2>2. restore.loop = "none" /\ tables.peer[ip] = p
    BY <2>1, <1>2, <1>3
  <2>3. tables.peer[ip] = tables.ch[m]
    BY <2>1, <2>2, <1>4, <1>13 DEF Agreed
  <2> QED
    BY <2>2, <2>3, <1>8f, <1>13
<1>14. Apart'
  <2> SUFFICES ASSUME NEW k \in Channels, NEW m \in Channels, k # m,
                      tables'.ch[k] # None, tables'.ch[m] # None,
                      Ip(perm'[tables'.ch[k]].addr) =
                        Ip(perm'[tables'.ch[m]].addr)
               PROVE  IpIn(torn, Ip(perm'[tables'.ch[k]].addr))
    BY <1>8a DEF Apart
  <2>1. CASE k = n
    <3>1. tables'.ch[k] = p /\ tables'.ch[m] = tables.ch[m]
      BY <2>1, <1>8e
    <3> QED
      BY <3>1, <2>1, <1>8, <1>8c, <1>8d, <1>13
  <2>2. CASE m = n
    <3>1. tables'.ch[m] = p /\ tables'.ch[k] = tables.ch[k]
      BY <2>2, <1>8e
    <3> QED
      BY <3>1, <2>2, <1>8, <1>8c, <1>8d, <1>13
  <2>3. CASE k # n /\ m # n
    <3>1. tables'.ch[m] = tables.ch[m] /\ tables'.ch[k] = tables.ch[k]
      BY <2>3, <1>8e
    <3>2. /\ Ip(perm'[tables.ch[m]].addr) = Ip(perm[tables.ch[m]].addr)
          /\ Ip(perm'[tables.ch[k]].addr) = Ip(perm[tables.ch[k]].addr)
      BY <3>1, <1>8, <1>8d
    <3> QED
      BY <3>1, <3>2, <1>4 DEF Apart
  <2> QED
    BY <2>1, <2>2, <2>3
<1> QED
  BY <1>8a, <1>12, <1>14 DEF IInv, Binding

LEMMA AgreeNext == IInv /\ [Next]_vars => IInv'
<1> SUFFICES ASSUME IInv, [Next]_vars PROVE IInv'
  OBVIOUS
<1>0. /\ TypeOK
      /\ TypeOK'
      /\ tables \in Tables
      /\ Agreed(tables, perm, torn, restore)
      /\ \A n \in Channels : tables.ch[n] \in Perms \cup {None}
  BY TypeNext DEF IInv, TypeOK, Agree, Tables
<1>1. ASSUME NEW x \in Peers, CreatePermission(x) PROVE IInv'
  <2>1. PICK p \in Perms : Grant(tables, x, p)
    BY <1>1 DEF CreatePermission
  <2>2. Within(tables, tables)
    BY DEF Within
  <2>3. /\ bind' = None /\ torn' = torn /\ restore' = restore
    BY <1>1 DEF CreatePermission, Ready
  <2> QED
    BY <1>0, <2>1, <2>2, <2>3, GrantAgrees, PacketDone
<1>2. ASSUME NEW x \in Peers, Send(x) PROVE IInv'
  BY <1>1, <1>2 DEF Send
<1>3. ASSUME NEW x \in Peers, PeerData(x) PROVE IInv'
  <2>1. /\ tables' = ByAddress(tables, x) /\ perm' = perm
        /\ bind' = None /\ torn' = torn /\ restore' = restore
    BY <1>3 DEF PeerData
  <2> QED
    BY <1>0, <2>1, LookUp, LookUpAgrees, PacketDone DEF Within
<1>4. ASSUME NEW n \in Channels, ChannelData(n) PROVE IInv'
  <2>1. /\ tables' = ByChannel(tables, n) /\ perm' = perm
        /\ bind' = None /\ torn' = torn /\ restore' = restore
    BY <1>4 DEF ChannelData, Ready
  <2> QED
    BY <1>0, <2>1, LookUp, LookUpAgrees, PacketDone DEF Within
<1>5. ASSUME NEW n \in Channels, BindAgain(n) PROVE IInv'
  BY <1>5 DEF BindAgain, IInv, TypeOK, Agree, Apart, Binding
<1>6. ASSUME NEW n \in Channels, NEW x \in Peers, BindRefused(n, x)
      PROVE  IInv'
  <2>1. /\ tables' = ByChannel(tables, n) /\ perm' = perm
        /\ bind' = None /\ torn' = torn /\ restore' = restore
    BY <1>6 DEF BindRefused, Ready
  <2> QED
    BY <1>0, <2>1, LookUp, LookUpAgrees, PacketDone DEF Within
<1>7. ASSUME NEW n \in Channels, NEW x \in Peers, BindLookup(n, x)
      PROVE  IInv'
  BY <1>0, <1>7, BindLookupAgrees
<1>8. CASE BindEnter
  BY <1>0, <1>8, BindEnterAgrees
<1>9. ASSUME NEW p \in Perms, Expire(p) PROVE IInv'
  <2>1. \A q \in Perms : /\ perm'[q].addr = perm[q].addr
                         /\ perm'[q].channel = perm[q].channel
    BY <1>0, <1>9 DEF Expire, TypeOK, Records
  <2>2. UNCHANGED <<tables, bind, restore, torn>>
    BY <1>9 DEF Expire
  <2>3. Agree'
    BY <1>0, <2>1, <2>2, AgreedSame DEF Agree
  <2>4. Binding'
    <3>1. bind # None => bind.p \in Perms
      BY <1>0 DEF TypeOK, Binds
    <3> QED
      BY <3>1, <2>1, <2>2 DEF IInv, Binding
  <2>5. Apart'
    BY <1>0, <2>1, <2>2, ApartKept DEF IInv
  <2> QED
    BY <1>0, <2>3, <2>4, <2>5 DEF IInv
<1>10. CASE RestoreStart
  <2>0. /\ restore.loop = "none"
        /\ restore'.loop = "peer"
        /\ \A i \in Ips : tables.peer[i] # None => i \in restore'.ips
        /\ UNCHANGED <<tables, perm, bind>>
    BY <1>10 DEF RestoreStart, Restoring
  \* What is not torn before agrees, so that it is all before the restore.
  <2>1. ASSUME NEW tn, Agreed(tables, perm, tn, restore)
        PROVE  Agreed(tables, perm, tn, restore')
    BY <2>0, <2>1 DEF Agreed
  <2>2. CASE bind = None
    <3>1. torn' = torn
      BY <1>10, <2>2 DEF RestoreStart
    <3>2. Agree'
      BY <1>0, <2>0, <2>1, <3>1 DEF Agree
    <3>3. Apart'
      BY <2>0, <3>1 DEF IInv, Apart
    <3> QED
      BY <1>0, <2>0, <2>2, <3>2, <3>3 DEF IInv, Binding
  <2>3. CASE bind # None
    <3> DEFINE ip == Ip(perm[bind.p].addr)
               n == bind.channel
    <3>1. bind.p \in Perms /\ n \in Channels /\ ip \in Ips
      BY <1>0, <2>3, IpType DEF TypeOK, Binds, Records
    <3>2. torn' = torn \cup {<<ip, n>>}
      BY <1>10, <2>3 DEF RestoreStart
    <3>3. /\ perm[bind.p].channel = None
          /\ tables.ch[n] = None
          /\ \/ <<ip, n>> \in torn
             \/ tables.peer[ip] = bind.p
      BY <2>3 DEF IInv, Binding
    <3>4. Agreed(tables, perm, torn', restore)
      <4>1. CASE <<ip, n>> \in torn
        <5>1. torn' = torn
          BY <3>2, <4>1
        <5> QED
          BY <5>1, <1>0
      <4>2. CASE tables.peer[ip] = bind.p
        <5>1. torn \in SUBSET (Ips \X Channels)
          BY <1>0 DEF TypeOK
        <5> HIDE DEF ip, n
        <5> QED
          BY <5>1, <4>2, <1>0, <3>1, <3>2, <3>3, AgreedTorn
      <4> QED
        BY <3>3, <4>1, <4>2
    <3>5. Agree'
      BY <2>0, <2>1, <3>4 DEF Agree
    <3>6. Apart'
      <4>1. torn \subseteq torn'
        BY <3>2
      <4> QED
        BY <4>1, <2>0, ApartKept DEF IInv
    <3>7. Binding'
      BY <2>0, <3>2, <3>3 DEF Binding
    <3> QED
      BY <1>0, <3>5, <3>6, <3>7 DEF IInv
  <2> QED
    BY <2>2, <2>3
<1>11. ASSUME NEW i \in Ips, RestorePeer(i) PROVE IInv'
  <2>1. /\ \A j \in Ips : tables'.peer[j] = IF j = i THEN None
                                                     ELSE tables.peer[j]
        /\ tables'.ch = tables.ch
    BY <1>0, <1>11 DEF RestorePeer, Tables
  <2>2. restore' = [restore EXCEPT !.ips = @ \ {i}]
        /\ restore.loop = "peer"
        /\ UNCHANGED <<perm, bind, torn>>
    BY <1>11 DEF RestorePeer
  <2>3. restore'.loop = "peer" /\ restore'.ips = restore.ips \ {i}
    BY <1>0, <2>2 DEF TypeOK
  <2>4. Agree'
    BY <1>0, <2>1, <2>2, <2>3 DEF Agree, Agreed
  <2>5. Apart'
    BY <2>1, <2>2, ApartKept DEF IInv
  <2>6. Binding'
    BY <2>1, <2>2 DEF IInv, Binding
  <2> QED
    BY <1>0, <2>4, <2>5, <2>6 DEF IInv
<1>12. CASE RestoreNext
  <2>1. /\ restore.loop = "peer" /\ restore.ips = {}
        /\ restore'.loop = "ch"
        /\ \A n \in Channels : tables.ch[n] # None => n \in restore'.channels
        /\ UNCHANGED <<tables, perm, bind, torn>>
    BY <1>12 DEF RestoreNext
  <2>2. Agree'
    BY <1>0, <2>1 DEF Agree, Agreed
  <2>3. Apart' /\ Binding'
    BY <2>1 DEF IInv, Apart, Binding
  <2> QED
    BY <1>0, <2>2, <2>3 DEF IInv
<1>13. ASSUME NEW n \in Channels, RestoreChannel(n) PROVE IInv'
  <2>1. /\ tables'.peer = tables.peer
        /\ \A m \in Channels : tables'.ch[m] = IF m = n THEN None
                                                       ELSE tables.ch[m]
    BY <1>0, <1>13 DEF RestoreChannel, Tables
  <2>2. restore' = [restore EXCEPT !.channels = @ \ {n}]
        /\ restore.loop = "ch"
        /\ UNCHANGED <<perm, bind, torn>>
    BY <1>13 DEF RestoreChannel
  <2>3. restore'.loop = "ch" /\ restore'.channels = restore.channels \ {n}
    BY <1>0, <2>2 DEF TypeOK
  <2>4. Agree'
    BY <1>0, <2>1, <2>2, <2>3 DEF Agree, Agreed
  <2>5. Apart'
    BY <2>1, <2>2, ApartKept DEF IInv
  <2>6. Binding'
    <3>1. bind # None => bind.channel \in Channels
      BY <1>0 DEF TypeOK, Binds
    <3> QED
      BY <3>1, <2>1, <2>2 DEF IInv, Binding
  <2> QED
    BY <1>0, <2>4, <2>5, <2>6 DEF IInv
<1>14. CASE RestoreEnd
  <2>1. /\ restore.loop = "ch" /\ restore.channels = {}
        /\ restore'.loop = "none"
        /\ UNCHANGED <<tables, perm, bind, torn>>
    BY <1>14 DEF RestoreEnd, Idle
  <2>2. Agree'
    BY <1>0, <2>1 DEF Agree, Agreed
  <2>3. Apart' /\ Binding'
    BY <2>1 DEF IInv, Apart, Binding
  <2> QED
    BY <1>0, <2>2, <2>3 DEF IInv
<1>15. CASE UNCHANGED vars
  BY <1>15 DEF vars, IInv, TypeOK, Agree, Apart, Binding
<1> QED
  BY <1>1, <1>2, <1>3, <1>4, <1>5, <1>6, <1>7, <1>8, <1>9, <1>10, <1>11,
     <1>12, <1>13, <1>14, <1>15 DEF Next, Packet, Restore

LEMMA Always == Spec => []IInv
<1>1. Init => IInv
  BY AgreeInit
<1>2. IInv /\ [Next]_vars => IInv'
  BY AgreeNext
<1> QED
  BY <1>1, <1>2, PTL DEF Spec

\* The tables of channels and of addresses are one relation whenever no
\* ChannelBind and no restore is at work (lookup_permission_by_chnum and
\* _by_addr, the ChannelBind request), but for the addresses and channels of
\* ChannelBinds that the restore of another thread fell into.
THEOREM TablesAreOneRelation == Spec => []TablesAgree
<1>1. IInv => TablesAgree
  <2> SUFFICES ASSUME IInv, ~Restoring PROVE TablesAgree
    BY DEF TablesAgree
  <2>1. /\ restore.loop = "none"
        /\ Agreed(tables, perm, torn, restore)
        /\ \A p \in Perms : /\ Ip(perm[p].addr) \in Ips
                            /\ perm[p].channel \in Channels \cup {None}
        /\ \A i \in Ips : tables.peer[i] \in Perms \cup {None}
        /\ \A n \in Channels : tables.ch[n] \in Perms \cup {None}
    BY IpType DEF IInv, TypeOK, Agree, Restoring, Records, Tables
  <2>2. /\ \A i \in Ips, n \in Channels : <<i, n>> \in torn =>
             TornIp(i) /\ TornChannel(n)
    BY DEF TornIp, TornChannel
  <2>3. ASSUME NEW n \in Channels, tables.ch[n] # None, ~TornChannel(n)
        PROVE  /\ perm[tables.ch[n]].channel = n
               /\ tables.peer[Ip(perm[tables.ch[n]].addr)] = tables.ch[n]
    <3>1. /\ tables.ch[n] \in Perms
          /\ <<Ip(perm[tables.ch[n]].addr), n>> \notin torn
      BY <2>1, <2>2, <2>3
    <3> QED
      BY <3>1, <2>1, <2>3 DEF Agreed
  <2>4. ASSUME NEW i \in Ips, tables.peer[i] # None,
               perm[tables.peer[i]].channel # None, ~TornIp(i)
        PROVE  tables.ch[perm[tables.peer[i]].channel] = tables.peer[i]
    <3>1. <<i, perm[tables.peer[i]].channel>> \notin torn
      BY <2>1, <2>2, <2>4
    <3> QED
      BY <3>1, <2>1, <2>4 DEF Agreed
  <2> QED
    BY <2>3, <2>4 DEF TablesAgree
<1> QED
  BY <1>1, Always, PTL

\* Two channels of an allocation lead to one address (the check of ChannelBind)
\* only if a restore fell into a ChannelBind of that address, or of a channel
\* that such a request had.
THEOREM ChannelsHaveTheirPeer == Spec => []OneChannelPerPeer
<1>1. ASSUME Apart PROVE OneChannelPerPeer
  BY <1>1 DEF Apart, OneChannelPerPeer, Found, IpIn, TornIp
<1>2. IInv => OneChannelPerPeer
  BY <1>1 DEF IInv
<1> QED
  BY <1>2, Always, PTL
-----------------------------------------------------------------------------
(* What a valid permission survives.                                       *)

\* Tables tc still have every valid permission that tables tb have, but for
\* what is torn.
KeepsValid(tb, tc) ==
  \A i \in Ips : tb.peer[i] # None /\ perm[tb.peer[i]].valid =>
                   tc.peer[i] = tb.peer[i] \/ TornIp(i)

\* A look-up that meets an expired permission clears the entry of that
\* permission's address: it is its own entry, or torn.
LEMMA CheckedKeepsValid ==
  ASSUME TypeOK, NEW tb \in Tables, NEW q \in Perms \cup {None},
         Agreed(tb, perm, torn, restore), restore.loop = "none",
         \/ \E i \in Ips : q = tb.peer[i]
         \/ \E n \in Channels : q = tb.ch[n]
  PROVE  KeepsValid(tb, Checked(tb, q))
<1>1. CASE q = None \/ Found(q) # None
  BY <1>1 DEF Checked, KeepsValid
<1>2. CASE ~(q = None \/ Found(q) # None)
  <2>1. q \in Perms /\ q # None /\ ~perm[q].valid
    BY <1>2 DEF Found
  <2>2. PICK k \in Ips : k = Ip(perm[q].addr)
    BY <2>1, IpType DEF TypeOK, Records
  <2>3. tb.peer[k] = q \/ TornIp(k)
    BY <2>1, <2>2 DEF Agreed, TornIp
  <2>4. Checked(tb, q).peer = [tb.peer EXCEPT ![k] = None]
    BY <1>2, <2>2 DEF Checked
  <2>5. tb.peer \in [Ips -> Perms \cup {None}]
    BY DEF Tables
  <2> QED
    BY <2>1, <2>3, <2>4, <2>5 DEF KeepsValid
<1> QED
  BY <1>1, <1>2

LEMMA LookUpKeepsValid ==
  ASSUME TypeOK, NEW tb \in Tables, Agreed(tb, perm, torn, restore),
         restore.loop = "none"
  PROVE  /\ \A x \in Peers : KeepsValid(tb, ByAddress(tb, x))
         /\ \A n \in Channels : KeepsValid(tb, ByChannel(tb, n))
<1>1. ASSUME NEW x \in Peers PROVE KeepsValid(tb, ByAddress(tb, x))
  <2>1. Ip(x) \in Ips /\ tb.peer[Ip(x)] \in Perms \cup {None}
    BY IpType DEF Tables
  <2> QED
    BY <2>1, CheckedKeepsValid DEF ByAddress
<1>2. ASSUME NEW n \in Channels PROVE KeepsValid(tb, ByChannel(tb, n))
  <2>1. tb.ch[n] \in Perms \cup {None}
    BY DEF Tables
  <2> QED
    BY <2>1, CheckedKeepsValid DEF ByChannel
<1> QED
  BY <1>1, <1>2

\* A new permission takes the entry of an address that has no valid one.
LEMMA GrantKeepsValid ==
  ASSUME TypeOK, NEW tb \in Tables, NEW x \in Peers, NEW p \in Perms,
         Grant(tb, x, p), Agreed(tb, perm, torn, restore), restore.loop = "none"
  PROVE  KeepsValid(tb, tables')
<1>1. CASE tables' = tb
  BY <1>1 DEF KeepsValid
<1>2. CASE /\ Found(tb.peer[Ip(x)]) = None
           /\ tables' = [ByAddress(tb, x) EXCEPT !.peer[Ip(x)] = p]
  <2>1. PICK tc \in Tables : tc = ByAddress(tb, x)
    BY LookUp
  <2>2. KeepsValid(tb, tc)
    BY <2>1, LookUpKeepsValid
  <2>3. tables'.peer = [tc.peer EXCEPT ![Ip(x)] = p]
        /\ tc.peer \in [Ips -> Perms \cup {None}]
    BY <1>2, <2>1 DEF Tables
  <2>4. ~(tb.peer[Ip(x)] # None /\ perm[tb.peer[Ip(x)]].valid)
    BY <1>2 DEF Found
  <2> QED
    BY <2>2, <2>3, <2>4 DEF KeepsValid
<1> QED
  BY <1>1, <1>2 DEF Grant

\* Two look-ups in a row.
LEMMA KeepsValidTwice ==
  ASSUME NEW tb, NEW tc, NEW td, KeepsValid(tb, tc), KeepsValid(tc, td)
  PROVE  KeepsValid(tb, td)
BY DEF KeepsValid

LEMMA ValidStaysNext ==
  ASSUME IInv, ~Restoring, [Next]_vars
  PROVE  KeepsValid(tables, tables')
<1>0. /\ TypeOK /\ tables \in Tables
      /\ Agreed(tables, perm, torn, restore)
      /\ restore.loop = "none"
  BY DEF IInv, TypeOK, Agree, Restoring
<1>1. ASSUME NEW x \in Peers, CreatePermission(x) \/ Send(x)
      PROVE  KeepsValid(tables, tables')
  BY <1>0, <1>1, GrantKeepsValid DEF CreatePermission, Send
<1>2. ASSUME NEW x \in Peers, PeerData(x) PROVE KeepsValid(tables, tables')
  BY <1>0, <1>2, LookUpKeepsValid DEF PeerData
<1>3. ASSUME NEW n \in Channels, ChannelData(n)
      PROVE  KeepsValid(tables, tables')
  BY <1>0, <1>3, LookUpKeepsValid DEF ChannelData
<1>4. ASSUME NEW n \in Channels, NEW x \in Peers, BindRefused(n, x)
      PROVE  KeepsValid(tables, tables')
  BY <1>0, <1>4, LookUpKeepsValid DEF BindRefused
<1>5. ASSUME NEW n \in Channels, NEW x \in Peers, BindLookup(n, x)
      PROVE  KeepsValid(tables, tables')
  <2>1. PICK p \in Perms : Grant(ByChannel(tables, n), x, p)
    BY <1>5 DEF BindLookup
  <2>2. /\ ByChannel(tables, n) \in Tables
        /\ Agreed(ByChannel(tables, n), perm, torn, restore)
        /\ KeepsValid(tables, ByChannel(tables, n))
    BY <1>0, LookUp, LookUpAgrees, LookUpKeepsValid
  <2>3. KeepsValid(ByChannel(tables, n), tables')
    BY <1>0, <2>1, <2>2, GrantKeepsValid
  <2> QED
    BY <2>2, <2>3, KeepsValidTwice
<1>6. CASE BindEnter
  <2>1. tables'.peer = tables.peer
    BY <1>0, <1>6 DEF BindEnter, Tables
  <2> QED
    BY <2>1 DEF KeepsValid
<1>7. CASE Restore
  <2>1. tables' = tables
    BY <1>7 DEF Restore, RestoreStart, RestoreNext, RestoreEnd, RestorePeer,
                RestoreChannel, Restoring
  <2> QED
    BY <2>1 DEF KeepsValid
<1>8. CASE \/ \E n \in Channels : BindAgain(n)
           \/ \E p \in Perms : Expire(p)
           \/ UNCHANGED vars
  <2>1. tables' = tables
    BY <1>8 DEF BindAgain, Expire, vars
  <2> QED
    BY <2>1 DEF KeepsValid
<1> QED
  BY <1>1, <1>2, <1>3, <1>4, <1>5, <1>6, <1>7, <1>8 DEF Next, Packet

\* A permission that is not over is lost by a restore and by nothing else
\* (create_permission, check_permission_expiry): no request for its address
\* replaces it, and the look-up of another permission that is over clears its
\* entry only if a restore tore an earlier channel of the address from it.
THEOREM OnlyRestoreTakesValid == Spec => ValidStays
<1> DEFINE Kept == \A i \in Ips :
                     LET p == tables.peer[i] IN
                     p # None /\ perm[p].valid =>
                       tables'.peer[i] = p \/ Restoring \/ TornIp(i)
<1>1. IInv /\ [Next]_vars => Kept
  BY ValidStaysNext DEF KeepsValid
<1>2. IInv /\ [Next]_vars => [Kept]_vars
  BY <1>1
<1>3. Spec => []IInv
  BY Always
<1> QED
  BY <1>2, <1>3, PTL DEF Spec, ValidStays
=============================================================================
