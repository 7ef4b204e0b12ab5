-------------------------- MODULE TurnPermissions --------------------------
(***************************************************************************)
(* The permissions and channels of one TURN allocation, pj/allocation.c:   *)
(* peer_table by the IP address of the peer, ch_table by channel number.   *)
(*                                                                         *)
(* The packets of the client and of peers hold alloc->lock, one at a time. *)
(* restore_allocation empties both tables when the registry releases the   *)
(* connection of a paired user.  The request of the paired user that calls *)
(* it comes after or before those of this client, but data of peers may    *)
(* overlap it; the timer of the paired user's allocation also overlaps the *)
(* packets of this client, since it holds no lock of this allocation.      *)
(* One restore runs at a time; what two threads in one hash table at once  *)
(* may do to its chains is not modelled.                                   *)
(*                                                                         *)
(* A packet is one step, except ChannelBind, which looks a permission up   *)
(* and later enters it under a channel: a restore only takes entries away, *)
(* so only that gap can be told from an undivided step.  Expiry is checked *)
(* when a permission is looked up; time is only whether it is over.        *)
(***************************************************************************)
EXTENDS Naturals

CONSTANTS
  Ips, Ports,       \* of peers
  Channels,         \* channel numbers that the client uses
  Perms,            \* pj_turn_permission objects; bound: those in use at once
  None              \* NULL, PJ_TURN_INVALID_CHANNEL

ASSUME PermissionsAssumption == None \notin Perms \cup Channels

Peers == Ips \X Ports

Ip(x) == x[1]

VARIABLES
  tables,   \* peer: peer_table; ch: ch_table
  perm,     \* the permission objects
  bind,     \* the ChannelBind between its look-up and its entry, or None
  restore,  \* the loop of restore_allocation: entries that it has to visit
  torn      \* history: the addresses and channels of ChannelBinds that a
            \* restore overlapped, and of those that met what these left

vars == <<tables, perm, bind, restore, torn>>

Records == [addr : Peers, channel : Channels \cup {None}, valid : BOOLEAN]

Tables == [peer : [Ips -> Perms \cup {None}],
           ch : [Channels -> Perms \cup {None}]]

Binds == [p : Perms, channel : Channels]

Idle == [loop |-> "none", ips |-> {}, channels |-> {}]

TypeOK ==
  /\ tables \in Tables
  /\ perm \in [Perms -> Records]
  /\ bind \in Binds \cup {None}
  /\ restore \in [loop : {"none", "peer", "ch"}, ips : SUBSET Ips,
                  channels : SUBSET Channels]
  /\ torn \subseteq Ips \X Channels

Init ==
  /\ tables = [peer |-> [i \in Ips |-> None], ch |-> [n \in Channels |-> None]]
  /\ \E x \in Peers :
       perm = [p \in Perms |-> [addr |-> x, channel |-> None, valid |-> FALSE]]
  /\ bind = None
  /\ restore = Idle
  /\ torn = {}

Restoring == restore.loop # "none"

\* alloc->lock is free for a packet; a restore does not take it.
Ready == bind = None

TornIp(i) == \E n \in Channels : <<i, n>> \in torn
TornChannel(n) == \E i \in Ips : <<i, n>> \in torn

\* The history of a ChannelBind of channel n to address i.
Bound(i, n) ==
  torn \cup (IF Restoring \/ TornIp(i) \/ TornChannel(n) THEN {<<i, n>>} ELSE {})

InUse == {tables.peer[i] : i \in Ips} \cup {tables.ch[n] : n \in Channels}
           \cup (IF bind = None THEN {} ELSE {bind.p})
-----------------------------------------------------------------------------
(* Look-ups.                                                               *)

\* check_permission_expiry: what the caller of a look-up gets ...
Found(p) == IF p # None /\ perm[p].valid THEN p ELSE None

\* Defect: an expired permission stays in ch_table.
CheckedPeerOnly(tb, p) ==
  IF p = None \/ Found(p) # None THEN tb
  ELSE [tb EXCEPT !.peer[Ip(perm[p].addr)] = None]

\* ... and the tables it leaves: an expired permission leaves both.
Checked(tb, p) ==
  IF p = None \/ Found(p) # None THEN tb
  ELSE [peer |-> [tb.peer EXCEPT ![Ip(perm[p].addr)] = None],
        ch |-> [n \in Channels |-> IF n = perm[p].channel THEN None
                                                          ELSE tb.ch[n]]]

ByChannel(tb, n) == Checked(tb, tb.ch[n])
ByAddress(tb, x) == Checked(tb, tb.peer[Ip(x)])

\* Defect: a new permission without a look-up.
GrantNew(tb, x, p) ==
  /\ p \notin InUse
  /\ tables' = [tb EXCEPT !.peer[Ip(x)] = p]
  /\ perm' = [perm EXCEPT ![p] = [addr |-> x, channel |-> None, valid |-> TRUE]]

\* create_permission, or the permission that the address has already; tb are
\* the tables when it is looked up.
Grant(tb, x, p) ==
  \/ /\ p = Found(tb.peer[Ip(x)])
     /\ p # None
     /\ tables' = tb
     /\ UNCHANGED perm
  \/ /\ Found(tb.peer[Ip(x)]) = None
     /\ p \notin InUse
     /\ tables' = [ByAddress(tb, x) EXCEPT !.peer[Ip(x)] = p]
     /\ perm' = [perm EXCEPT ![p] =
                   [addr |-> x, channel |-> None, valid |-> TRUE]]

-----------------------------------------------------------------------------
(* Packets.                                                                *)

\* An address in a CreatePermission request.
CreatePermission(x) ==
  /\ Ready
  /\ \E p \in Perms : Grant(tables, x, p)
  /\ UNCHANGED <<bind, restore, torn>>

\* A Send indication makes or refreshes the permission of its peer.
Send(x) == CreatePermission(x)

\* ChannelData from the client; a permission that is found is refreshed, which
\* leaves it valid.
ChannelData(n) ==
  /\ Ready
  /\ tables' = ByChannel(tables, n)
  /\ UNCHANGED <<perm, bind, restore, torn>>

\* handle_peer_pkt: data from a peer refreshes nothing.  The worker that reads
\* the relay socket is not the one that reads the clients' packets.
PeerData(x) ==
  /\ bind = None
  /\ tables' = ByAddress(tables, x)
  /\ UNCHANGED <<perm, bind, restore, torn>>

\* ChannelBind for a channel that has a permission: a refresh of the binding,
\* which is valid already, or error 400 if the peer's address is another one.
BindAgain(n) ==
  /\ Ready
  /\ Found(tables.ch[n]) # None
  /\ UNCHANGED <<tables, perm, bind, restore, torn>>

\* Error 400: the address of the peer has a channel.
BindRefused(n, x) ==
  LET tb == ByChannel(tables, n)
      p == Found(tb.peer[Ip(x)])
  IN
  /\ Ready
  /\ Found(tables.ch[n]) = None
  /\ p # None
  /\ perm[p].channel # None
  /\ tables' = tb
  /\ UNCHANGED <<perm, bind, restore, torn>>

\* Defect: the permission of a peer without one is not created.
BindLookupOnly(n, x) ==
  LET tb == ByChannel(tables, n) IN
  /\ Ready
  /\ Found(tables.ch[n]) = None
  /\ tables' = tb
  /\ bind' = [p |-> Found(tb.peer[Ip(x)]), channel |-> n]
  /\ torn' = Bound(Ip(x), n)
  /\ UNCHANGED <<perm, restore>>

\* Defect: the permission may have a channel.
BindLookupAny(n, x) ==
  /\ Ready
  /\ Found(tables.ch[n]) = None
  /\ \E p \in Perms :
       /\ Grant(ByChannel(tables, n), x, p)
       /\ bind' = [p |-> p, channel |-> n]
  /\ torn' = Bound(Ip(x), n)
  /\ UNCHANGED restore

\* A channel without a permission: the peer's permission is looked up, or
\* created, and must not have a channel.
BindLookup(n, x) ==
  /\ Ready
  /\ Found(tables.ch[n]) = None
  /\ \E p \in Perms :
       /\ Grant(ByChannel(tables, n), x, p)
       /\ perm'[p].channel = None
       /\ bind' = [p |-> p, channel |-> n]
  /\ torn' = Bound(Ip(x), n)
  /\ UNCHANGED restore

\* The channel is entered and the request answered.
BindEnter ==
  /\ bind # None
  /\ perm' = [perm EXCEPT ![bind.p].channel = bind.channel,
                          ![bind.p].valid = TRUE]
  /\ tables' = [tables EXCEPT !.ch[bind.channel] = bind.p]
  /\ bind' = None
  /\ UNCHANGED <<restore, torn>>

\* The time of a permission is over.
Expire(p) ==
  /\ p \in InUse
  /\ perm[p].valid
  /\ perm' = [perm EXCEPT ![p].valid = FALSE]
  /\ UNCHANGED <<tables, bind, restore, torn>>
-----------------------------------------------------------------------------
(* restore_allocation: two loops that visit at least the entries that were *)
(* there when they started.                                                *)

RestoreStart ==
  /\ ~Restoring
  /\ restore' = [loop |-> "peer",
                 ips |-> {i \in Ips : tables.peer[i] # None}, channels |-> {}]
  /\ torn' = IF bind = None THEN torn
             ELSE torn \cup {<<Ip(perm[bind.p].addr), bind.channel>>}
  /\ UNCHANGED <<tables, perm, bind>>

RestorePeer(i) ==
  /\ restore.loop = "peer"
  /\ tables.peer[i] # None \/ i \in restore.ips
  /\ tables' = [tables EXCEPT !.peer[i] = None]
  /\ restore' = [restore EXCEPT !.ips = @ \ {i}]
  /\ UNCHANGED <<perm, bind, torn>>

RestoreNext ==
  /\ restore.loop = "peer"
  /\ restore.ips = {}
  /\ restore' = [loop |-> "ch", ips |-> {},
                 channels |-> {n \in Channels : tables.ch[n] # None}]
  /\ UNCHANGED <<tables, perm, bind, torn>>

RestoreChannel(n) ==
  /\ restore.loop = "ch"
  /\ tables.ch[n] # None \/ n \in restore.channels
  /\ tables' = [tables EXCEPT !.ch[n] = None]
  /\ restore' = [restore EXCEPT !.channels = @ \ {n}]
  /\ UNCHANGED <<perm, bind, torn>>

RestoreEnd ==
  /\ restore.loop = "ch"
  /\ restore.channels = {}
  /\ restore' = Idle
  /\ UNCHANGED <<tables, perm, bind, torn>>
-----------------------------------------------------------------------------
Packet ==
  \/ \E x \in Peers : CreatePermission(x) \/ Send(x) \/ PeerData(x)
  \/ \E n \in Channels : ChannelData(n) \/ BindAgain(n)
  \/ \E n \in Channels, x \in Peers :
       BindRefused(n, x) \/ BindLookup(n, x)
  \/ BindEnter

Restore ==
  \/ RestoreStart \/ RestoreNext \/ RestoreEnd
  \/ \E i \in Ips : RestorePeer(i)
  \/ \E n \in Channels : RestoreChannel(n)

Next == Packet \/ Restore \/ \E p \in Perms : Expire(p)

Spec == Init /\ [][Next]_vars
-----------------------------------------------------------------------------
(* What makes the tables correct.  A restore that falls into a ChannelBind *)
(* breaks it for the address and the channel of that request, and for what *)
(* is bound to either later; the properties say that it breaks no more.    *)

\* The two tables are one relation: whoever is reached by a channel is the
\* permission of its IP address and carries that channel, and a permission
\* that carries a channel is reached by it.  So what the client sends on a
\* channel and what it receives on it belong to one peer, although entries
\* leave lazily, through either table, or by a restore.  Excepted are the
\* addresses and channels of ChannelBinds that a restore overlapped:
\* relay_timeout_cb restores the allocation of the paired user without a lock.
TablesAgree ==
  bind = None /\ ~Restoring =>
    /\ \A n \in Channels :
         LET p == tables.ch[n] IN
         p # None /\ ~TornChannel(n) =>
           /\ perm[p].channel = n
           /\ tables.peer[Ip(perm[p].addr)] = p
    /\ \A i \in Ips :
         LET p == tables.peer[i] IN
         p # None /\ perm[p].channel # None /\ ~TornIp(i) =>
           tables.ch[perm[p].channel] = p

\* A permission that is not over is lost by a restore and by nothing else: not
\* by another request for its address, nor by the expiry of another one, except
\* that of an old permission of its address, whose channel a restore left behind
\* because it fell into the ChannelBind.
ValidStays ==
  [][\A i \in Ips :
       LET p == tables.peer[i] IN
       p # None /\ perm[p].valid =>
         tables'.peer[i] = p \/ Restoring \/ TornIp(i)]_vars

\* "Make sure the peer has not alreadyy assigned with a channel number"
\* (ChannelBind): the channels of the allocation lead to different peers, also
\* when the permission of an address or of a channel was over and made anew.
\* The check does not keep this up when a restore takes the peer's entry while
\* its channel is bound: only such an address may have two channels.
OneChannelPerPeer ==
  \A m, n \in Channels :
    LET p == Found(tables.ch[m])
        q == Found(tables.ch[n])
    IN  m # n /\ p # None /\ q # None /\ ~TornIp(Ip(perm[p].addr)) =>
          Ip(perm[p].addr) # Ip(perm[q].addr)
=============================================================================
