-------------------------- MODULE KnxTunnelProofs --------------------------
(***************************************************************************)
(* The tunnel, for every number of requests, every limit of the list and   *)
(* of the reconnections, and every width of the counter: the state keeps   *)
(* its shape, no request is ever in two places, none is executed twice in  *)
(* a connection, and in a connection in which nothing came out of turn an  *)
(* acknowledged request has been executed.  Every step is a step of        *)
(* TunnelRequests or invisible in it.                                      *)
(*                                                                         *)
(* TypeOK is inductive by itself.  OnePlace is inductive together with it: *)
(* TypeOK says that the send thread holds no request when it takes one and *)
(* that no thread is reconnecting while another leaves.  ExecutedOnce      *)
(* needs Sound: what the frames under way carry, and which counter the     *)
(* interface expects, tell a retry from a new request.  CleanAckIsExecuted *)
(* needs Calm: one frame or ack under way at most, and both sides in step. *)
(***************************************************************************)
EXTENDS KnxTunnel, TLAPS

(* What the three changes of a list do to its elements. *)
LEMMA AppendElems ==
  ASSUME NEW S, NEW s \in Seq(S), NEW e \in S
  PROVE  /\ Append(s, e) \in Seq(S)
         /\ Elems(Append(s, e)) = Elems(s) \cup {e}
         /\ Distinct(s) /\ e \notin Elems(s) => Distinct(Append(s, e))
<1>1. /\ Append(s, e) \in Seq(S)
      /\ Len(Append(s, e)) = Len(s) + 1
      /\ \A i \in 1..Len(s) : Append(s, e)[i] = s[i]
      /\ Append(s, e)[Len(s) + 1] = e
      /\ Len(s) \in Nat
  OBVIOUS
<1>2. 1..Len(s) + 1 = (1..Len(s)) \cup {Len(s) + 1}
  BY <1>1
<1>3. Elems(Append(s, e)) = Elems(s) \cup {e}
  BY <1>1, <1>2 DEF Elems
<1>4. ASSUME Distinct(s), e \notin Elems(s) PROVE Distinct(Append(s, e))
  <2>1. SUFFICES ASSUME NEW i \in 1..Len(s) + 1, NEW j \in 1..Len(s) + 1,
                        Append(s, e)[i] = Append(s, e)[j]
                 PROVE  i = j
    BY <1>1 DEF Distinct
  <2>2. CASE i \in 1..Len(s) /\ j \in 1..Len(s)
    BY <1>1, <1>4, <2>1, <2>2 DEF Distinct
  <2>3. CASE i = Len(s) + 1 /\ j = Len(s) + 1
    BY <2>3
  <2>4. CASE i \in 1..Len(s) /\ j = Len(s) + 1
    BY <1>1, <1>4, <2>1, <2>4 DEF Elems
  <2>5. CASE i = Len(s) + 1 /\ j \in 1..Len(s)
    BY <1>1, <1>4, <2>1, <2>5 DEF Elems
  <2> QED
    BY <1>2, <2>1, <2>2, <2>3, <2>4, <2>5
<1> QED
  BY <1>1, <1>3, <1>4

LEMMA TailElems ==
  ASSUME NEW S, NEW s \in Seq(S), s # <<>>
  PROVE  /\ Head(s) \in S /\ Tail(s) \in Seq(S)
         /\ Head(s) \in Elems(s) /\ Elems(Tail(s)) \subseteq Elems(s)
         /\ Distinct(s) => Distinct(Tail(s)) /\ Head(s) \notin Elems(Tail(s))
<1>1. /\ Head(s) \in S /\ Tail(s) \in Seq(S)
      /\ Head(s) = s[1]
      /\ Len(s) \in Nat /\ Len(s) >= 1
      /\ Len(Tail(s)) = Len(s) - 1
      /\ \A i \in 1..Len(s) - 1 : Tail(s)[i] = s[i + 1]
  OBVIOUS
<1>2. Head(s) \in Elems(s) /\ Elems(Tail(s)) \subseteq Elems(s)
  BY <1>1 DEF Elems
<1>3. Distinct(s) => Distinct(Tail(s)) /\ Head(s) \notin Elems(Tail(s))
  BY <1>1 DEF Distinct, Elems
<1> QED
  BY <1>1, <1>2, <1>3

LEMMA ConsElems ==
  ASSUME NEW S, NEW s \in Seq(S), NEW e \in S
  PROVE  /\ <<e>> \o s \in Seq(S)
         /\ Elems(<<e>> \o s) = Elems(s) \cup {e}
         /\ Distinct(s) /\ e \notin Elems(s) => Distinct(<<e>> \o s)
<1> DEFINE t == <<e>> \o s
<1>1. /\ t \in Seq(S)
      /\ Len(s) \in Nat /\ Len(t) = Len(s) + 1
      /\ t[1] = e
      /\ \A i \in 1..Len(s) : t[i + 1] = s[i]
      /\ \A i \in 2..Len(s) + 1 : t[i] = s[i - 1]
  OBVIOUS
<1> HIDE DEF t
<1>2. Elems(t) = Elems(s) \cup {e}
  <2>1. Elems(t) \subseteq Elems(s) \cup {e}
    BY <1>1 DEF Elems
  <2>2. Elems(s) \cup {e} \subseteq Elems(t)
    BY <1>1 DEF Elems
  <2> QED
    BY <2>1, <2>2
<1>3. ASSUME Distinct(s), e \notin Elems(s) PROVE Distinct(t)
  <2>1. SUFFICES ASSUME NEW i \in 1..Len(s) + 1, NEW j \in 1..Len(s) + 1,
                        t[i] = t[j]
                 PROVE  i = j
    BY <1>1 DEF Distinct
  <2>2. \A k \in 2..Len(s) + 1 : k - 1 \in 1..Len(s) /\ t[k] \in Elems(s)
    BY <1>1 DEF Elems
  <2>3. CASE i = 1 \/ j = 1
    BY <1>1, <1>3, <2>1, <2>2, <2>3
  <2>4. CASE i \in 2..Len(s) + 1 /\ j \in 2..Len(s) + 1
    <3>1. s[i - 1] = s[j - 1]
      BY <1>1, <2>1, <2>4
    <3>2. i - 1 = j - 1
      BY <1>3, <2>2, <2>4, <3>1 DEF Distinct
    <3> QED
      BY <2>4, <3>2
  <2> QED
    BY <1>1, <2>3, <2>4
<1> QED
  BY <1>1, <1>2, <1>3 DEF t

LEMMA TailAt ==
  ASSUME NEW S, NEW s \in Seq(S), s # <<>>
  PROVE  /\ Len(s) \in Nat /\ 1 \in 1..Len(s) /\ Head(s) = s[1]
         /\ Len(Tail(s)) = Len(s) - 1
         /\ \A i \in 1..Len(Tail(s)) : i + 1 \in 1..Len(s) /\ Tail(s)[i] = s[i + 1]
  OBVIOUS

LEMMA HeadAndTail ==
  ASSUME NEW S, NEW s \in Seq(S), s # <<>>
  PROVE  Elems(s) = {Head(s)} \cup Elems(Tail(s))
<1>1. Elems(s) \subseteq {Head(s)} \cup Elems(Tail(s))
  <2>1. SUFFICES ASSUME NEW i \in 1..Len(s), i # 1
                 PROVE  s[i] \in Elems(Tail(s))
    BY TailAt DEF Elems
  <2>2. Len(s) \in Nat /\ Len(Tail(s)) = Len(s) - 1
    BY TailAt
  <2>3. i - 1 \in 1..Len(Tail(s))
    BY <2>1, <2>2
  <2>4. Tail(s)[i - 1] = s[(i - 1) + 1] /\ (i - 1) + 1 = i
    BY <2>3, TailAt
  <2> QED
    BY <2>3, <2>4 DEF Elems
<1> QED
  BY <1>1, TailElems

(***************************************************************************)
(* Type correctness.                                                       *)
(***************************************************************************)

LEMMA Next1Type == ASSUME NEW n \in 0..Width-1 PROVE Next1(n) \in 0..Width-1
  BY KnxAssumption DEF Next1

LEMMA InitTypeOK == Init => TypeOK
<1> SUFFICES ASSUME Init PROVE TypeOK
  OBVIOUS
<1>1. KernelOK
  <2>1. sendList \in Seq(Requests) /\ outCounter \in 0..Width-1 /\ tries \in 0..1
    BY KnxAssumption DEF Init
  <2>2. head \in Header
    BY KnxAssumption DEF Init, Header
  <2>3. /\ sender = "idle" /\ hand = None /\ wiped = {}
        /\ waiting \in BOOLEAN /\ channel \in BOOLEAN /\ handle \in BOOLEAN
    BY DEF Init
  <2> QED
    BY <2>1, <2>2, <2>3 DEF KernelOK
<1>2. ReconnOK
  <2>1. reconnCount \in 0..ClearCount+1 /\ leaving = None /\ failed = {} /\ back = {}
    BY KnxAssumption DEF Init
  <2>2. connecting = FALSE /\ running = TRUE
    BY DEF Init
  <2> QED
    BY <2>1, <2>2 DEF ReconnOK
<1>3. NetworkOK /\ GatewayOK /\ GhostsOK
  BY KnxAssumption DEF Init, NetworkOK, GatewayOK, GhostsOK
<1> QED
  BY <1>1, <1>2, <1>3 DEF TypeOK

LEMMA TypeOKStep == TypeOK /\ [Next]_vars => TypeOK'
<1> SUFFICES ASSUME TypeOK, [Next]_vars PROVE TypeOK'
  OBVIOUS
<1>0. KernelOK /\ ReconnOK /\ NetworkOK /\ GatewayOK /\ GhostsOK
  BY DEF TypeOK
<1>1. ASSUME NEW r \in Requests, Write(r) PROVE TypeOK'
  <2>1. KernelOK'
    BY <1>0, <1>1, KnxAssumption DEF Write, KernelOK, thread, link
  <2>2. ReconnOK'
    BY <1>0, <1>1, KnxAssumption DEF Write, ReconnOK, reconn, thread, KernelOK, Up
  <2>3. NetworkOK'
    BY <1>0, <1>1, KnxAssumption DEF Write, NetworkOK, network
  <2>4. GatewayOK'
    BY <1>0, <1>1, KnxAssumption DEF Write, GatewayOK, gateway
  <2>5. GhostsOK'
    BY <1>0, <1>1, KnxAssumption DEF Write, GhostsOK, ghosts, KernelOK
  <2> QED
    BY <2>1, <2>2, <2>3, <2>4, <2>5 DEF TypeOK
<1>2. CASE Take
  <2>1. KernelOK'
    <3>1. /\ Head(sendList) \in Requests /\ Tail(sendList) \in Seq(Requests)
          /\ [counter |-> outCounter, channel |-> channel] \in Header
      BY <1>0, <1>2, TailElems DEF Take, KernelOK, Header
    <3> QED
      BY <1>0, <1>2, <3>1, KnxAssumption DEF Take, KernelOK, list, link
  <2>2. ReconnOK'
    BY <1>0, <1>2, KnxAssumption DEF Take, ReconnOK, reconn, KernelOK
  <2>3. NetworkOK'
    BY <1>0, <1>2, KnxAssumption DEF Take, NetworkOK, network
  <2>4. GatewayOK'
    BY <1>0, <1>2, KnxAssumption DEF Take, GatewayOK, gateway
  <2>5. GhostsOK'
    BY <1>0, <1>2, KnxAssumption DEF Take, GhostsOK, ghosts, KernelOK
  <2> QED
    BY <2>1, <2>2, <2>3, <2>4, <2>5 DEF TypeOK
<1>3. CASE TakeWiped
  <2>1. KernelOK'
    BY <1>0, <1>3, KnxAssumption DEF TakeWiped, KernelOK, list, thread, link
  <2>2. ReconnOK'
    BY <1>0, <1>3, KnxAssumption DEF TakeWiped, ReconnOK, thread, KernelOK
  <2>3. NetworkOK'
    BY <1>0, <1>3, KnxAssumption DEF TakeWiped, NetworkOK, network
  <2>4. GatewayOK'
    BY <1>0, <1>3, KnxAssumption DEF TakeWiped, GatewayOK, gateway
  <2>5. GhostsOK'
    BY <1>0, <1>3, KnxAssumption DEF TakeWiped, GhostsOK, ghosts, KernelOK
  <2> QED
    BY <2>1, <2>2, <2>3, <2>4, <2>5 DEF TypeOK
<1>4. CASE Transmit
  <2>1. KernelOK'
    BY <1>0, <1>4, KnxAssumption DEF Transmit, KernelOK, list
  <2>2. ReconnOK'
    BY <1>0, <1>4, KnxAssumption DEF Transmit, ReconnOK, reconn, KernelOK
  <2>3. NetworkOK'
    <3>1. [head |-> head, request |-> hand] \in Frame
      BY <1>0, <1>4 DEF Transmit, KernelOK, Frame
    <3> QED
      BY <1>0, <1>4, <3>1 DEF Transmit, NetworkOK
  <2>4. GatewayOK'
    BY <1>0, <1>4, KnxAssumption DEF Transmit, GatewayOK, gateway
  <2>5. GhostsOK'
    BY <1>0, <1>4, KnxAssumption DEF Transmit, GhostsOK, ghosts, KernelOK
  <2> QED
    BY <2>1, <2>2, <2>3, <2>4, <2>5 DEF TypeOK
<1>5. CASE Woken
  <2>1. KernelOK'
    BY <1>0, <1>5, KnxAssumption, Next1Type DEF Woken, KernelOK, list
  <2>2. ReconnOK'
    BY <1>0, <1>5, KnxAssumption DEF Woken, ReconnOK, reconn, KernelOK
  <2>3. NetworkOK'
    BY <1>0, <1>5, KnxAssumption DEF Woken, NetworkOK, network
  <2>4. GatewayOK'
    BY <1>0, <1>5, KnxAssumption DEF Woken, GatewayOK, gateway
  <2>5. GhostsOK'
    BY <1>0, <1>5, KnxAssumption DEF Woken, GhostsOK, KernelOK
  <2> QED
    BY <2>1, <2>2, <2>3, <2>4, <2>5 DEF TypeOK
<1>6. CASE TimedOut
  <2>1. KernelOK'
    <3>1. tries \in 0..1 /\ tries' = tries + 1 /\ hand # None
      BY <1>0, <1>6 DEF TimedOut, KernelOK
    <3>2. sender' = "leave" \/ (sender' = "send" /\ tries' < 2)
      BY <1>6 DEF TimedOut
    <3>3. /\ UNCHANGED <<sendList, wiped, hand, head, outCounter, channel, handle>>
          /\ waiting' \in BOOLEAN
      BY <1>6 DEF TimedOut, list
    <3>4. tries' \in 0..2
      BY <3>1
    <3> QED
      BY <1>0, <3>1, <3>2, <3>3, <3>4 DEF KernelOK
  <2>2. ReconnOK'
    BY <1>0, <1>6, KnxAssumption DEF TimedOut, ReconnOK, reconn, KernelOK
  <2>3. NetworkOK'
    BY <1>0, <1>6, KnxAssumption DEF TimedOut, NetworkOK, network
  <2>4. GatewayOK'
    BY <1>0, <1>6, KnxAssumption DEF TimedOut, GatewayOK, gateway
  <2>5. GhostsOK'
    BY <1>0, <1>6, KnxAssumption DEF TimedOut, GhostsOK, ghosts, KernelOK
  <2> QED
    BY <2>1, <2>2, <2>3, <2>4, <2>5 DEF TypeOK
<1>7. CASE Leave
  <2>1. KernelOK'
    <3>1. sendList' \in Seq(Requests)
      <4>1. sendList' = <<>> \/ sendList' = sendList
        BY <1>7 DEF Leave, Attempt
      <4>2. <<>> \in Seq(Requests)
        OBVIOUS
      <4> QED
        BY <1>0, <4>1, <4>2 DEF KernelOK
    <3>2. /\ hand' = None /\ sender' = "none" /\ head' = head /\ wiped' = wiped
          /\ tries' = 0 /\ outCounter' = 0 /\ waiting' \in BOOLEAN
          /\ channel' \in BOOLEAN /\ handle' \in BOOLEAN
      BY <1>7 DEF Leave
    <3> QED
      BY <1>0, <3>1, <3>2, KnxAssumption DEF KernelOK
  <2>2. ReconnOK'
    BY <1>0, <1>7, KnxAssumption DEF Leave, Attempt, ReconnOK, KernelOK
  <2>3. NetworkOK'
    BY <1>0, <1>7, KnxAssumption DEF Leave, Attempt, NetworkOK
  <2>4. GatewayOK'
    BY <1>0, <1>7, KnxAssumption DEF Leave, GatewayOK, gateway
  <2>5. GhostsOK'
    BY <1>0, <1>7, KnxAssumption DEF Leave, Attempt, GhostsOK, KernelOK, Queued, Elems
  <2> QED
    BY <2>1, <2>2, <2>3, <2>4, <2>5 DEF TypeOK
<1>8. CASE SendFails
  <2>1. KernelOK'
    BY <1>0, <1>8, KnxAssumption DEF SendFails, Failure, KernelOK, list, link
  <2>2. ReconnOK'
    BY <1>0, <1>8, KnxAssumption DEF SendFails, Failure, ReconnOK, reconn, KernelOK
  <2>3. NetworkOK'
    BY <1>0, <1>8, KnxAssumption DEF SendFails, Failure, NetworkOK
  <2>4. GatewayOK'
    BY <1>0, <1>8, KnxAssumption DEF SendFails, GatewayOK, gateway
  <2>5. GhostsOK'
    BY <1>0, <1>8, KnxAssumption DEF SendFails, Failure, GhostsOK, KernelOK
  <2> QED
    BY <2>1, <2>2, <2>3, <2>4, <2>5 DEF TypeOK
<1>9. CASE Stray
  <2>1. KernelOK'
    BY <1>0, <1>9, KnxAssumption DEF Stray, Failure, KernelOK, list, link
  <2>2. ReconnOK'
    BY <1>0, <1>9, KnxAssumption DEF Stray, Failure, ReconnOK, reconn, KernelOK
  <2>3. NetworkOK'
    BY <1>0, <1>9, KnxAssumption DEF Stray, Failure, NetworkOK
  <2>4. GatewayOK'
    BY <1>0, <1>9, KnxAssumption DEF Stray, GatewayOK, gateway
  <2>5. GhostsOK'
    BY <1>0, <1>9, KnxAssumption DEF Stray, Failure, GhostsOK, KernelOK
  <2> QED
    BY <2>1, <2>2, <2>3, <2>4, <2>5 DEF TypeOK
<1>10. CASE Expire
  <2>1. KernelOK'
    BY <1>0, <1>10, KnxAssumption DEF Expire, Failure, KernelOK, list, link
  <2>2. ReconnOK'
    BY <1>0, <1>10, KnxAssumption DEF Expire, Failure, ReconnOK, reconn, KernelOK
  <2>3. NetworkOK'
    BY <1>0, <1>10, KnxAssumption DEF Expire, Failure, NetworkOK
  <2>4. GatewayOK'
    BY <1>0, <1>10, KnxAssumption DEF Expire, GatewayOK, gateway
  <2>5. GhostsOK'
    BY <1>0, <1>10, KnxAssumption DEF Expire, Failure, GhostsOK, KernelOK
  <2> QED
    BY <2>1, <2>2, <2>3, <2>4, <2>5 DEF TypeOK
<1>11. CASE Retry
  <2>1. KernelOK'
    <3>1. sendList' \in Seq(Requests)
      <4>1. sendList' = <<>> \/ sendList' = sendList
        BY <1>11 DEF Retry, Attempt
      <4>2. <<>> \in Seq(Requests)
        OBVIOUS
      <4> QED
        BY <1>0, <4>1, <4>2 DEF KernelOK
    <3> QED
      BY <1>0, <1>11, <3>1, KnxAssumption DEF Retry, KernelOK, thread, link
  <2>2. ReconnOK'
    BY <1>0, <1>11, KnxAssumption DEF Retry, Attempt, ReconnOK, thread, KernelOK, Up
  <2>3. NetworkOK'
    BY <1>0, <1>11, KnxAssumption DEF Retry, Attempt, NetworkOK, network
  <2>4. GatewayOK'
    BY <1>0, <1>11, KnxAssumption DEF Retry, GatewayOK, gateway
  <2>5. GhostsOK'
    BY <1>0, <1>11, KnxAssumption DEF Retry, Attempt, GhostsOK, KernelOK, Queued, Elems
  <2> QED
    BY <2>1, <2>2, <2>3, <2>4, <2>5 DEF TypeOK
<1>12. CASE Connected
  <2>1. KernelOK'
    BY <1>0, <1>12, KnxAssumption DEF Connected, KernelOK, list, ReconnOK
  <2>2. ReconnOK'
    <3>1. /\ connecting' = FALSE /\ leaving' = None /\ reconnCount' = 0
          /\ back' \subseteq Requests /\ UNCHANGED <<failed, running>>
      BY <1>0, <1>12 DEF Connected, ReconnOK
    <3>2. reconnCount' \in 0..ClearCount+1
      BY <3>1, KnxAssumption
    <3> QED
      BY <1>0, <3>1, <3>2 DEF ReconnOK
  <2>3. NetworkOK'
    BY <1>0, <1>12, KnxAssumption DEF Connected, NetworkOK, network
  <2>4. GatewayOK'
    BY <1>0, <1>12, KnxAssumption DEF Connected, GatewayOK
  <2>5. GhostsOK'
    BY <1>0, <1>12, KnxAssumption DEF Connected, GhostsOK, ghosts, KernelOK
  <2> QED
    BY <2>1, <2>2, <2>3, <2>4, <2>5 DEF TypeOK
<1>13. CASE ConnectFails
  <2>1. KernelOK'
    BY <1>0, <1>13, KnxAssumption DEF ConnectFails, Failure, KernelOK, list, thread, link, ReconnOK
  <2>2. ReconnOK'
    BY <1>0, <1>13, KnxAssumption DEF ConnectFails, Failure, ReconnOK, thread, KernelOK
  <2>3. NetworkOK'
    BY <1>0, <1>13, KnxAssumption DEF ConnectFails, Failure, NetworkOK
  <2>4. GatewayOK'
    BY <1>0, <1>13, KnxAssumption DEF ConnectFails, GatewayOK, gateway
  <2>5. GhostsOK'
    BY <1>0, <1>13, KnxAssumption DEF ConnectFails, Failure, GhostsOK, ghosts, KernelOK
  <2> QED
    BY <2>1, <2>2, <2>3, <2>4, <2>5 DEF TypeOK
<1>14. ASSUME NEW r \in Requests, LateReset(r) PROVE TypeOK'
  <2>1. KernelOK'
    <3>1. waiting' \in BOOLEAN /\ handle' \in BOOLEAN /\ outCounter' \in 0..Width-1
      <4>1. waiting' = FALSE /\ outCounter' = 0 /\ handle' = FALSE
        BY <1>14, Zenon DEF LateReset
      <4>2. waiting' \in BOOLEAN /\ handle' \in BOOLEAN
        BY <4>1, Zenon
      <4>3. outCounter' \in 0..Width-1
        BY <4>1, KnxAssumption
      <4> QED
        BY <4>2, <4>3
    <3>2. channel' \in BOOLEAN
      <4>1. channel' \in {channel, FALSE} /\ channel \in BOOLEAN
        BY <1>0, <1>14 DEF LateReset, KernelOK
      <4> QED
        BY <4>1, Zenon
    <3> QED
      BY <1>0, <1>14, <3>1, <3>2 DEF LateReset, KernelOK, list, thread
  <2>2. ReconnOK'
    BY <1>0, <1>14, KnxAssumption DEF LateReset, ReconnOK, thread, KernelOK, Up
  <2>3. NetworkOK'
    BY <1>0, <1>14, KnxAssumption DEF LateReset, NetworkOK, network
  <2>4. GatewayOK'
    BY <1>0, <1>14, KnxAssumption DEF LateReset, GatewayOK, gateway
  <2>5. GhostsOK'
    BY <1>0, <1>14, KnxAssumption DEF LateReset, GhostsOK, KernelOK
  <2> QED
    BY <2>1, <2>2, <2>3, <2>4, <2>5 DEF TypeOK
<1>15. ASSUME NEW r \in Requests, PutBack(r) PROVE TypeOK'
  <2>1. KernelOK'
    BY <1>0, <1>15, KnxAssumption, ConsElems DEF PutBack, KernelOK, thread, link
  <2>2. ReconnOK'
    BY <1>0, <1>15, KnxAssumption DEF PutBack, ReconnOK, thread, KernelOK
  <2>3. NetworkOK'
    BY <1>0, <1>15, KnxAssumption DEF PutBack, NetworkOK, network
  <2>4. GatewayOK'
    BY <1>0, <1>15, KnxAssumption DEF PutBack, GatewayOK, gateway
  <2>5. GhostsOK'
    BY <1>0, <1>15, KnxAssumption DEF PutBack, GhostsOK, ghosts, KernelOK
  <2> QED
    BY <2>1, <2>2, <2>3, <2>4, <2>5 DEF TypeOK
<1>16. CASE HandleTunnelAck
  <2>1. KernelOK'
    BY <1>0, <1>16, KnxAssumption DEF HandleTunnelAck, KernelOK, list
  <2>2. ReconnOK'
    BY <1>0, <1>16, KnxAssumption DEF HandleTunnelAck, ReconnOK, reconn, KernelOK
  <2>3. NetworkOK'
    BY <1>0, <1>16, KnxAssumption DEF HandleTunnelAck, NetworkOK
  <2>4. GatewayOK'
    BY <1>0, <1>16, KnxAssumption DEF HandleTunnelAck, GatewayOK, gateway
  <2>5. GhostsOK'
    BY <1>0, <1>16, KnxAssumption DEF HandleTunnelAck, GhostsOK, ghosts, KernelOK
  <2> QED
    BY <2>1, <2>2, <2>3, <2>4, <2>5 DEF TypeOK
<1>17. CASE GwReceive
  <2>1. KernelOK'
    BY <1>0, <1>17, KnxAssumption DEF GwReceive, KernelOK, list, thread, link
  <2>2. ReconnOK'
    BY <1>0, <1>17, KnxAssumption DEF GwReceive, ReconnOK, reconn, thread, KernelOK
  <2>3. NetworkOK'
    <3>1. /\ Tail(frames) \in Seq(Frame)
          /\ Append(acks, Head(frames).head.counter) \in Seq(0..Width-1)
      <4>1. Head(frames) \in Frame /\ Tail(frames) \in Seq(Frame)
        BY <1>0, <1>17, TailElems DEF GwReceive, NetworkOK
      <4>2. Head(frames).head.counter \in 0..Width-1
        BY <4>1 DEF Frame, Header
      <4> QED
        BY <1>0, <4>1, <4>2 DEF NetworkOK
    <3>2. frames' = Tail(frames) /\ losses' = losses
          /\ acks' \in {acks, Append(acks, Head(frames).head.counter)}
      BY <1>17 DEF GwReceive
    <3> QED
      BY <1>0, <3>1, <3>2 DEF NetworkOK
  <2>4. GatewayOK'
    <3>1. Head(frames).request \in Requests
      <4>1. Head(frames) \in Frame
        BY <1>0, <1>17, TailElems DEF GwReceive, NetworkOK
      <4> QED
        BY <4>1 DEF Frame
    <3>2. \/ /\ expected' = Next1(expected)
             /\ executed' = Append(executed, Head(frames).request)
             /\ everExecuted' = everExecuted \cup {Head(frames).request}
          \/ UNCHANGED gateway
      BY <1>17 DEF GwReceive
    <3>3. Next1(expected) \in 0..Width-1 /\ Append(executed, Head(frames).request) \in Seq(Requests)
      BY <1>0, <3>1, Next1Type, AppendElems DEF GatewayOK
    <3> QED
      BY <1>0, <3>1, <3>2, <3>3 DEF GatewayOK, gateway
  <2>5. GhostsOK'
    BY <1>0, <1>17, KnxAssumption DEF GwReceive, GhostsOK, ghosts, KernelOK
  <2> QED
    BY <2>1, <2>2, <2>3, <2>4, <2>5 DEF TypeOK
<1>18. CASE Lose
  <2>1. KernelOK'
    BY <1>0, <1>18, KnxAssumption DEF Lose, Failure, KernelOK, list, thread, link
  <2>2. ReconnOK'
    BY <1>0, <1>18, KnxAssumption DEF Lose, Failure, ReconnOK, reconn, thread, KernelOK
  <2>3. NetworkOK'
    <3>1. losses' \in 0..MaxLosses
      BY <1>0, <1>18, KnxAssumption DEF Lose, Failure, NetworkOK
    <3>2. frames' \in Seq(Frame)
      BY <1>0, <1>18, TailElems DEF Lose, NetworkOK
    <3>3. acks' \in Seq(0..Width-1)
      <4>1. acks \in Seq(0..Width-1)
        BY <1>0 DEF NetworkOK
      <4>2. CASE acks # <<>> /\ acks' = Tail(acks)
        BY <4>1, <4>2, TailElems
      <4>3. CASE acks' = acks
        BY <4>1, <4>3
      <4> QED
        BY <1>18, <4>2, <4>3 DEF Lose
    <3> QED
      BY <3>1, <3>2, <3>3 DEF NetworkOK
  <2>4. GatewayOK'
    BY <1>0, <1>18, KnxAssumption DEF Lose, GatewayOK, gateway
  <2>5. GhostsOK'
    BY <1>0, <1>18, KnxAssumption DEF Lose, Failure, GhostsOK, ghosts, KernelOK
  <2> QED
    BY <2>1, <2>2, <2>3, <2>4, <2>5 DEF TypeOK
<1>19. CASE UNCHANGED vars
  BY <1>0, <1>19 DEF vars, list, thread, link, reconn, network, gateway, ghosts, TypeOK, KernelOK,
                      ReconnOK, NetworkOK, GatewayOK, GhostsOK
<1> QED
  BY <1>1, <1>2, <1>3, <1>4, <1>5, <1>6, <1>7, <1>8, <1>9, <1>10, <1>11, <1>12, <1>13, <1>14, <1>15, <1>16, <1>17, <1>18, <1>19
     DEF Next, Sender, Leaver

(* The state has the shape of the code's variables throughout.             *)
THEOREM TypeCorrect == Spec => []TypeOK
<1>1. Init => TypeOK
  BY InitTypeOK
<1>2. TypeOK /\ [Next]_vars => TypeOK'
  BY TypeOKStep
<1> QED
  BY <1>1, <1>2, PTL DEF Spec

(***************************************************************************)
(* One place for each request.                                             *)
(***************************************************************************)

(* An attempt to connect moves the whole list to dropped, or nothing.      *)
LEMMA AttemptLists ==
  ASSUME TypeOK, OnePlace, Attempt
  PROVE  /\ Distinct(sendList')
         /\ Elems(sendList') \subseteq Queued
         /\ dropped' \subseteq dropped \cup Queued
         /\ Elems(sendList') \cap dropped' = {}
         /\ Queued \cup dropped \subseteq Elems(sendList') \cup dropped'
<1>1. CASE dropped' = dropped \cup Queued /\ sendList' = <<>>
  <2>1. Elems(<<>>) = {} /\ Distinct(<<>>)
    BY DEF Elems, Distinct
  <2> QED
    BY <1>1, <2>1
<1>2. CASE UNCHANGED <<dropped, sendList>>
  BY <1>2 DEF OnePlace, Queued
<1> QED
  BY <1>1, <1>2 DEF Attempt

LEMMA OnePlaceStep == TypeOK /\ OnePlace /\ [Next]_vars => OnePlace'
<1> SUFFICES ASSUME TypeOK, OnePlace, [Next]_vars PROVE OnePlace'
  OBVIOUS
<1>0. /\ sendList \in Seq(Requests) /\ Queued \subseteq Requests
      /\ failed \subseteq Requests /\ back \subseteq Requests
      /\ done \subseteq Requests /\ dropped \subseteq Requests
      /\ hand \in Requests \cup {None} /\ leaving \in Requests \cup {None}
      /\ None \notin Requests
      /\ (hand = None <=> sender \in {"idle", "none"})
  <2>1. Queued \subseteq Requests
    BY DEF TypeOK, KernelOK, Queued, Elems
  <2> QED
    BY <2>1, KnxAssumption DEF TypeOK, KernelOK, ReconnOK, GhostsOK
<1>1. ASSUME NEW r \in Requests, Write(r) PROVE OnePlace'
  <2>1. Queued' = Queued \cup {r} /\ Distinct(sendList')
    BY <1>0, <1>1, AppendElems DEF Write, Known, Held, Queued, OnePlace
  <2>2. UNCHANGED <<wiped, hand, leaving, failed, back, done, dropped>>
    BY <1>1 DEF Write, thread, reconn, ghosts
  <2> QED
    BY <1>0, <1>1, <2>1, <2>2 DEF Write, Known, Held, OnePlace
<1>2. CASE Take
  <2>1. /\ hand' \in Queued \ wiped /\ Queued \subseteq Queued' \cup {hand'}
        /\ Queued' \subseteq Queued /\ Distinct(sendList') /\ hand' \notin Queued'
    BY <1>0, <1>2, TailElems, HeadAndTail DEF Take, Queued, OnePlace
  <2>2. UNCHANGED <<wiped, leaving, failed, back, done, dropped>>
    BY <1>2 DEF Take, reconn, ghosts
  <2> QED
    BY <1>0, <2>1, <2>2 DEF OnePlace
<1>3. CASE Woken
  <2>1. /\ done' = done \cup {hand} /\ hand' = None /\ hand # None
        /\ UNCHANGED <<sendList, wiped, leaving, failed, back, dropped>>
    BY <1>0, <1>3 DEF Woken, list, reconn
  <2> QED
    BY <1>0, <2>1 DEF OnePlace, Queued
<1>4. CASE SendFails
  <2>1. /\ dropped' = dropped \cup {hand} /\ hand' = None /\ hand # None
        /\ UNCHANGED <<sendList, wiped, leaving, failed, back, done>>
    BY <1>0, <1>4 DEF SendFails, list, reconn
  <2> QED
    BY <1>0, <2>1 DEF OnePlace, Queued
<1>5. CASE Leave
  <2>1. leaving = None /\ hand # None
    BY <1>0, <1>5 DEF Leave, TypeOK, ReconnOK
  <2>2. /\ leaving' = hand /\ hand' = None
        /\ UNCHANGED <<wiped, failed, back, done>> /\ Attempt
    BY <1>5 DEF Leave
  <2> QED
    BY <1>0, <2>1, <2>2, AttemptLists DEF OnePlace, Queued
<1>6. CASE Retry
  <2>1. UNCHANGED <<wiped, hand, leaving, failed, back, done>> /\ Attempt
    BY <1>6 DEF Retry, thread
  <2> QED
    BY <1>0, <2>1, AttemptLists DEF OnePlace, Queued
<1>7. CASE Connected
  <2>1. /\ back' = back \cup ({leaving} \ {None}) /\ leaving' = None
        /\ UNCHANGED <<sendList, wiped, hand, failed, done, dropped>>
    BY <1>7 DEF Connected, list, ghosts
  <2> QED
    BY <1>0, <2>1 DEF OnePlace, Queued
<1>8. CASE ConnectFails
  <2>1. /\ failed' = failed \cup ({leaving} \ {None}) /\ leaving' = None
        /\ UNCHANGED <<sendList, wiped, hand, back, done, dropped>>
    BY <1>8 DEF ConnectFails, list, thread, ghosts
  <2> QED
    BY <1>0, <2>1 DEF OnePlace, Queued
<1>9. ASSUME NEW r \in Requests, LateReset(r) PROVE OnePlace'
  <2>1. /\ r \in failed /\ failed' = failed \ {r} /\ back' = back \cup {r}
        /\ UNCHANGED <<sendList, wiped, hand, leaving, done, dropped>>
    BY <1>9 DEF LateReset, list, thread
  <2> QED
    BY <1>0, <2>1 DEF OnePlace, Queued
<1>10. ASSUME NEW r \in Requests, PutBack(r) PROVE OnePlace'
  <2>1. Queued' = Queued \cup {r} /\ Distinct(sendList')
    BY <1>0, <1>10, ConsElems DEF PutBack, Queued, OnePlace
  <2>2. /\ r \in back /\ back' = back \ {r} /\ wiped' \subseteq wiped \cup {r}
        /\ UNCHANGED <<hand, leaving, failed, done, dropped>>
    BY <1>10 DEF PutBack, thread, ghosts
  <2> QED
    BY <1>0, <2>1, <2>2 DEF OnePlace
<1>11. CASE UNCHANGED <<sendList, wiped, hand, leaving, failed, back, done, dropped>>
  BY <1>11 DEF OnePlace, Queued
<1>12. TakeWiped \/ Transmit \/ TimedOut \/ Stray \/ Expire \/ HandleTunnelAck
         \/ GwReceive \/ Lose \/ UNCHANGED vars
       => UNCHANGED <<sendList, wiped, hand, leaving, failed, back, done, dropped>>
  BY DEF TakeWiped, Transmit, TimedOut, Stray, Expire, HandleTunnelAck, GwReceive,
         Lose, vars, list, thread, reconn, ghosts
<1> QED
  BY <1>1, <1>2, <1>3, <1>4, <1>5, <1>6, <1>7, <1>8, <1>9, <1>10, <1>11, <1>12
     DEF Next, Sender, Leaver

(* Whatever is lost or late, and however reconnections and the old send    *)
(* threads overlap, no request is in two places.                           *)
THEOREM RequestsInOnePlace == Spec => []OnePlace
<1>1. Init => TypeOK /\ OnePlace
  <2>1. ASSUME Init PROVE OnePlace
    <3>1. Queued = {} /\ Distinct(sendList)
      BY <2>1 DEF Init, Queued, Elems, Distinct
    <3> QED
      BY <2>1, <3>1 DEF Init, OnePlace
  <2> QED
    BY <2>1, InitTypeOK
<1>2. TypeOK /\ OnePlace /\ [Next]_vars => (TypeOK /\ OnePlace)'
  BY TypeOKStep, OnePlaceStep
<1>3. Spec => [](TypeOK /\ OnePlace)
  BY <1>1, <1>2, PTL DEF Spec
<1> QED
  BY <1>3, PTL

(***************************************************************************)
(* Executed once in a connection.  A repeated frame is harmless because    *)
(* nothing but its own repetitions comes between it and the first one: the *)
(* counter that the interface expects is then the next one.                *)
(***************************************************************************)
Frames == 1..Len(frames)

(* Frames of one request are alike and next to each other, those of the    *)
(* request in hand at the end.                                             *)
FrameOrder ==
  /\ \A i, j \in Frames : frames[i].request = frames[j].request
                          => frames[i].head = frames[j].head
  /\ \A i, j, k \in Frames :
       i < j /\ j < k /\ frames[i].request = frames[k].request
         => frames[j].request = frames[k].request
  /\ \A i \in Frames : frames[i].request = hand => frames[i].head = head
  /\ \A i, j \in Frames : i < j /\ frames[i].request = hand => frames[j].request = hand

(* A request that is still in the list has not been sent in this           *)
(* connection.                                                             *)
Fresh ==
  /\ sender = "none" => frames = <<>>
  /\ sender # "none" =>
       /\ Elems(executed) \subseteq done \cup dropped \cup {hand}
       /\ \A i \in Frames : frames[i].request \in done \cup dropped \cup {hand}

(* A frame of an executed request has the counter before the expected one, *)
(* and no frame of another request is in front of it.                      *)
Repeats ==
  /\ \A i \in Frames : frames[i].request \in Elems(executed)
       => /\ Next1(frames[i].head.counter) = expected
          /\ \A j \in Frames : j < i => frames[j].request = frames[i].request
  /\ hand \in Elems(executed)
       => /\ Next1(head.counter) = expected
          /\ \A i \in Frames : frames[i].request = hand

Sound == TypeOK /\ OnePlace /\ ExecutedOnce /\ FrameOrder /\ Fresh /\ Repeats

LEMMA AppendAt ==
  ASSUME NEW S, NEW s \in Seq(S), NEW e \in S
  PROVE  /\ Len(s) \in Nat
         /\ 1..Len(Append(s, e)) = (1..Len(s)) \cup {Len(s) + 1}
         /\ \A i \in 1..Len(s) : Append(s, e)[i] = s[i]
         /\ Append(s, e)[Len(s) + 1] = e
  OBVIOUS

(* Steps that neither send nor receive a frame nor change what is in hand. *)
LEMMA Untouched ==
  ASSUME Sound, UNCHANGED <<frames, hand, head, executed, expected>>,
         sender' = "none" <=> sender = "none",
         done \subseteq done', dropped \subseteq dropped'
  PROVE  ExecutedOnce' /\ FrameOrder' /\ Fresh' /\ Repeats'
<1>1. ExecutedOnce' /\ FrameOrder' /\ Repeats'
  BY DEF Sound, ExecutedOnce, FrameOrder, Repeats, Frames
<1>2. Fresh'
  BY DEF Sound, Fresh, Frames
<1> QED
  BY <1>1, <1>2

LEMMA SoundTypes ==
  ASSUME Sound
  PROVE  /\ frames \in Seq(Frame) /\ executed \in Seq(Requests)
         /\ expected \in 0..Width-1 /\ head \in Header
         /\ hand \in Requests \cup {None} /\ None \notin Requests
         /\ hand = None <=> sender \in {"idle", "none"}
         /\ \A i \in Frames : frames[i] \in Frame /\ frames[i].request \in Requests
                              /\ frames[i].head \in Header
                              /\ frames[i].head.counter \in 0..Width-1
         /\ Elems(executed) \subseteq Requests
<1>1. /\ frames \in Seq(Frame) /\ executed \in Seq(Requests)
      /\ expected \in 0..Width-1 /\ head \in Header
      /\ hand \in Requests \cup {None} /\ None \notin Requests
      /\ hand = None <=> sender \in {"idle", "none"}
  BY KnxAssumption DEF Sound, TypeOK, KernelOK, NetworkOK, GatewayOK
<1>2. \A i \in Frames : frames[i] \in Frame
  BY <1>1 DEF Frames
<1>3. \A i \in Frames : /\ frames[i].request \in Requests /\ frames[i].head \in Header
                         /\ frames[i].head.counter \in 0..Width-1
  BY <1>2 DEF Frame, Header
<1>4. Elems(executed) \subseteq Requests
  BY <1>1 DEF Elems
<1> QED
  BY <1>1, <1>2, <1>3, <1>4

LEMMA Next1Differs == ASSUME NEW n \in 0..Width-1 PROVE Next1(n) # n
  BY KnxAssumption DEF Next1

LEMMA TakeSound == Sound /\ Take => ExecutedOnce' /\ FrameOrder' /\ Fresh' /\ Repeats'
<1> SUFFICES ASSUME Sound, Take PROVE ExecutedOnce' /\ FrameOrder' /\ Fresh' /\ Repeats'
  OBVIOUS
<1>1. /\ UNCHANGED <<frames, executed, expected, done, dropped>>
      /\ sender = "idle" /\ sender' = "send" /\ hand = None
  BY SoundTypes DEF Take, network, gateway, ghosts
<1>2. hand' \in Queued /\ hand' \notin done \cup dropped
  BY TailElems DEF Take, Queued, Sound, TypeOK, KernelOK, OnePlace
<1>3. hand' \notin Elems(executed) /\ \A i \in Frames : frames[i].request # hand'
  <2>1. hand' \in Requests
    BY <1>2 DEF Sound, TypeOK, KernelOK, Queued, Elems
  <2>2. /\ Elems(executed) \subseteq done \cup dropped \cup {None}
        /\ \A i \in Frames : frames[i].request \in done \cup dropped \cup {None}
    BY <1>1 DEF Sound, Fresh
  <2> QED
    BY <1>2, <2>1, <2>2, KnxAssumption
<1>4. ExecutedOnce'
  BY <1>1 DEF Sound, ExecutedOnce
<1>5. FrameOrder'
  BY <1>1, <1>3 DEF Sound, FrameOrder, Frames
<1>6. Fresh'
  BY <1>1, SoundTypes DEF Sound, Fresh, Frames
<1>7. Repeats'
  BY <1>1, <1>3 DEF Sound, Repeats, Frames
<1> QED
  BY <1>4, <1>5, <1>6, <1>7

LEMMA TransmitSound ==
  Sound /\ Transmit => ExecutedOnce' /\ FrameOrder' /\ Fresh' /\ Repeats'
<1> SUFFICES ASSUME Sound, Transmit PROVE ExecutedOnce' /\ FrameOrder' /\ Fresh' /\ Repeats'
  OBVIOUS
<1> DEFINE n == Len(frames) + 1
           f == [head |-> head, request |-> hand]
<1>1. /\ UNCHANGED <<hand, head, executed, expected, done, dropped>>
      /\ sender' = "wait" /\ sender = "send" /\ frames' = Append(frames, f)
  BY DEF Transmit, gateway, ghosts
<1>2. f \in Frame /\ f.head = head /\ f.request = hand
  BY <1>1, SoundTypes DEF Frame
<1> HIDE DEF f
<1>3. /\ Len(frames) \in Nat /\ Frames' = Frames \cup {n}
      /\ \A i \in Frames : frames'[i] = frames[i]
      /\ frames'[n] = f
  BY <1>1, <1>2, SoundTypes, AppendAt DEF Frames
<1>4. \A i \in Frames : i < n
  BY <1>3 DEF Frames
<1> HIDE DEF n
<1>5. ExecutedOnce'
  BY <1>1 DEF Sound, ExecutedOnce
<1>6. FrameOrder'
  <2>1. \A i, j \in Frames' : frames'[i].request = frames'[j].request
                            => frames'[i].head = frames'[j].head
    BY <1>2, <1>3 DEF Sound, FrameOrder
  <2>2. \A i \in Frames' : frames'[i].request = hand => frames'[i].head = head
    BY <1>2, <1>3 DEF Sound, FrameOrder
  <2>3. \A i, j \in Frames' : i < j /\ frames'[i].request = hand => frames'[j].request = hand
    BY <1>2, <1>3, <1>4 DEF Sound, FrameOrder, Frames
  <2>4. ASSUME NEW i \in Frames', NEW j \in Frames', NEW k \in Frames',
               i < j, j < k, frames'[i].request = frames'[k].request
        PROVE  frames'[j].request = frames'[k].request
    <3>1. i \in Frames /\ j \in Frames
      BY <1>3, <1>4, <2>4 DEF Frames, n
    <3>2. CASE k \in Frames
      BY <1>3, <2>4, <3>1, <3>2 DEF Sound, FrameOrder
    <3>3. CASE k = n
      BY <1>2, <1>3, <2>4, <3>1, <3>3 DEF Sound, FrameOrder
    <3> QED
      BY <1>3, <3>2, <3>3
  <2>5. \A i, j, k \in Frames' :
          i < j /\ j < k /\ frames'[i].request = frames'[k].request
            => frames'[j].request = frames'[k].request
    BY <2>4
  <2>6. hand' = hand /\ head' = head
    BY <1>1
  <2> QED
    BY <2>1, <2>2, <2>3, <2>5, <2>6 DEF FrameOrder
<1>7. Fresh'
  BY <1>1, <1>2, <1>3 DEF Sound, Fresh
<1>8. Repeats'
  <2>1. ASSUME NEW i \in Frames', frames'[i].request \in Elems(executed)
        PROVE  /\ Next1(frames'[i].head.counter) = expected
               /\ \A j \in Frames' : j < i => frames'[j].request = frames'[i].request
    <3>1. CASE i \in Frames
      <4>1. \A j \in Frames' : j < i => j \in Frames
        BY <1>3, <1>4, <3>1 DEF Frames, n
      <4> QED
        BY <1>3, <2>1, <3>1, <4>1 DEF Sound, Repeats
    <3>2. CASE i = n
      BY <1>2, <1>3, <2>1, <3>2 DEF Sound, Repeats
    <3> QED
      BY <1>3, <3>1, <3>2
  <2>2. hand \in Elems(executed)
          => Next1(head.counter) = expected /\ \A i \in Frames' : frames'[i].request = hand
    BY <1>2, <1>3 DEF Sound, Repeats
  <2> QED
    BY <1>1, <2>1, <2>2 DEF Repeats
<1> QED
  BY <1>5, <1>6, <1>7, <1>8

(* The request in hand comes to its end, acknowledged or given up.         *)
LEMMA EndSound ==
  ASSUME Sound, hand \in Requests, hand' = None, sender' = "idle", sender # "none",
         hand \in done' \cup dropped', done \subseteq done', dropped \subseteq dropped',
         UNCHANGED <<frames, executed, expected>>
  PROVE  ExecutedOnce' /\ FrameOrder' /\ Fresh' /\ Repeats'
<1>1. None \notin Elems(executed) /\ \A i \in Frames : frames[i].request # None
  BY SoundTypes
<1>2. ExecutedOnce' /\ FrameOrder'
  BY <1>1 DEF Sound, ExecutedOnce, FrameOrder, Frames
<1>3. Fresh'
  BY DEF Sound, Fresh, Frames
<1>4. Repeats'
  BY <1>1 DEF Sound, Repeats, Frames
<1> QED
  BY <1>2, <1>3, <1>4

(* No frame is on its way once the sockets are closed.                     *)
LEMMA EmptySound ==
  ASSUME Sound, frames' = <<>>, hand' = None,
         \/ sender' = "none" /\ executed' = executed
         \/ sender' = "idle" /\ executed' = <<>>
  PROVE  ExecutedOnce' /\ FrameOrder' /\ Fresh' /\ Repeats'
<1>1. Frames' = {}
  BY DEF Frames
<1>2. None \notin Elems(executed') /\ Distinct(executed')
      /\ (sender' = "idle" => Elems(executed') = {})
  <2>1. Elems(<<>>) = {} /\ Distinct(<<>>)
    BY DEF Elems, Distinct
  <2> QED
    BY <2>1, SoundTypes DEF Sound, ExecutedOnce
<1>3. ExecutedOnce' /\ FrameOrder' /\ Repeats'
  BY <1>1, <1>2 DEF ExecutedOnce, FrameOrder, Repeats
<1>4. Fresh'
  BY <1>1, <1>2 DEF Fresh
<1> QED
  BY <1>3, <1>4

(* The first frame leaves, received or lost.                               *)
LEMMA TailSound ==
  ASSUME Sound, frames # <<>>, frames' = Tail(frames),
         UNCHANGED <<sender, hand, head, done, dropped>>
  PROVE  /\ FrameOrder'
         /\ \A i \in Frames' : i + 1 \in Frames /\ frames'[i] = frames[i + 1]
         /\ 1 \in Frames /\ Head(frames) = frames[1] /\ sender # "none"
<1>1. /\ \A i \in Frames' : i \in Nat /\ i + 1 \in Frames /\ frames'[i] = frames[i + 1]
      /\ 1 \in Frames /\ Head(frames) = frames[1]
  BY SoundTypes, TailAt DEF Frames
<1>2. FrameOrder'
  <2>0. FrameOrder /\ UNCHANGED <<hand, head>>
    BY DEF Sound
  <2>1. ASSUME NEW i \in Frames', NEW j \in Frames', frames'[i].request = frames'[j].request
        PROVE  frames'[i].head = frames'[j].head
    <3>1. /\ i + 1 \in Frames /\ frames'[i] = frames[i + 1]
          /\ j + 1 \in Frames /\ frames'[j] = frames[j + 1]
      BY <1>1
    <3>2. frames[i + 1].request = frames[j + 1].request
      BY <2>1, <3>1
    <3>3. \A m, n \in Frames : frames[m].request = frames[n].request
                              => frames[m].head = frames[n].head
      BY <2>0 DEF FrameOrder
    <3>4. frames[i + 1].head = frames[j + 1].head
      BY <3>1, <3>2, <3>3
    <3> QED
      BY <3>1, <3>4
  <2>2. ASSUME NEW i \in Frames', frames'[i].request = hand
        PROVE  frames'[i].head = head
    <3>1. i + 1 \in Frames /\ frames'[i] = frames[i + 1]
      BY <1>1
    <3>2. frames[i + 1].request = hand
      BY <2>2, <3>1
    <3>3. frames[i + 1].head = head
      BY <2>0, <3>1, <3>2 DEF FrameOrder
    <3> QED
      BY <3>1, <3>3
  <2>3. ASSUME NEW i \in Frames', NEW j \in Frames', i < j, frames'[i].request = hand
        PROVE  frames'[j].request = hand
    <3>1. /\ i + 1 \in Frames /\ frames'[i] = frames[i + 1]
          /\ j + 1 \in Frames /\ frames'[j] = frames[j + 1]
      BY <1>1
    <3>2. i + 1 < j + 1
      BY <1>1, <2>3
    <3> QED
      BY <2>0, <2>3, <3>1, <3>2 DEF FrameOrder
  <2>4. ASSUME NEW i \in Frames', NEW j \in Frames', NEW k \in Frames',
               i < j, j < k, frames'[i].request = frames'[k].request
        PROVE  frames'[j].request = frames'[k].request
    <3>0. \A m \in Frames' : m + 1 \in Frames /\ frames'[m] = frames[m + 1]
      BY <1>1
    <3>1. /\ i + 1 \in Frames /\ frames'[i] = frames[i + 1]
          /\ j + 1 \in Frames /\ frames'[j] = frames[j + 1]
          /\ k + 1 \in Frames /\ frames'[k] = frames[k + 1]
      BY <3>0, <2>4
    <3>2. i + 1 < j + 1 /\ j + 1 < k + 1
      BY <1>1, <2>4
    <3>3. frames[i + 1].request = frames[k + 1].request
      BY <2>4, <3>1
    <3>4. frames[j + 1].request = frames[k + 1].request
      BY <2>0, <3>1, <3>2, <3>3 DEF FrameOrder
    <3> QED
      BY <3>1, <3>4
  <2>5. \A i, j, k \in Frames' :
          i < j /\ j < k /\ frames'[i].request = frames'[k].request
            => frames'[j].request = frames'[k].request
    BY <2>4
  <2>6. \A i, j \in Frames' : frames'[i].request = frames'[j].request
                            => frames'[i].head = frames'[j].head
    BY <2>1
  <2>7. /\ \A i \in Frames' : frames'[i].request = hand' => frames'[i].head = head'
        /\ \A i, j \in Frames' : i < j /\ frames'[i].request = hand' => frames'[j].request = hand'
    BY <2>0, <2>2, <2>3
  <2> QED
    BY <2>5, <2>6, <2>7 DEF FrameOrder
<1> QED
  BY <1>1, <1>2 DEF Sound, Fresh

LEMMA LoseSound == Sound /\ Lose => ExecutedOnce' /\ FrameOrder' /\ Fresh' /\ Repeats'
<1> SUFFICES ASSUME Sound, Lose PROVE ExecutedOnce' /\ FrameOrder' /\ Fresh' /\ Repeats'
  OBVIOUS
<1>1. UNCHANGED <<sender, hand, head, done, dropped, executed, expected>>
  BY DEF Lose, thread, gateway, ghosts
<1>2. CASE UNCHANGED frames
  BY <1>1, <1>2, Untouched
<1>3. CASE frames # <<>> /\ frames' = Tail(frames)
  <2>1. /\ FrameOrder'
        /\ \A i \in Frames' : i + 1 \in Frames /\ frames'[i] = frames[i + 1]
        /\ \A i \in Frames' : i \in Nat
        /\ sender # "none"
    BY <1>1, <1>3, TailSound DEF Frames
  <2>2. ExecutedOnce' /\ Fresh'
    BY <1>1, <2>1 DEF Sound, ExecutedOnce, Fresh
  <2>3. Repeats'
    <3>1. ASSUME NEW i \in Frames', frames'[i].request \in Elems(executed)
          PROVE  /\ Next1(frames'[i].head.counter) = expected
                 /\ \A j \in Frames' : j < i => frames'[j].request = frames'[i].request
      <4>1. \A j \in Frames' : j < i => j + 1 < i + 1
        BY <2>1
      <4> QED
        BY <2>1, <3>1, <4>1 DEF Sound, Repeats
    <3> QED
      BY <1>1, <2>1, <3>1 DEF Sound, Repeats
  <2> QED
    BY <2>1, <2>2, <2>3
<1> QED
  BY <1>2, <1>3 DEF Lose

LEMMA ReceiveSound ==
  Sound /\ GwReceive => ExecutedOnce' /\ FrameOrder' /\ Fresh' /\ Repeats'
<1> SUFFICES ASSUME Sound, GwReceive PROVE ExecutedOnce' /\ FrameOrder' /\ Fresh' /\ Repeats'
  OBVIOUS
<1> DEFINE f == Head(frames)
<1>1. /\ UNCHANGED <<sender, hand, head, done, dropped>>
      /\ frames # <<>> /\ frames' = Tail(frames)
  BY DEF GwReceive, thread, ghosts
<1>2. /\ FrameOrder'
      /\ \A i \in Frames' : i + 1 \in Frames /\ frames'[i] = frames[i + 1]
      /\ \A i \in Frames' : i \in Nat /\ i >= 1
      /\ 1 \in Frames /\ f = frames[1] /\ sender # "none"
  BY <1>1, TailSound DEF Frames
<1>3. /\ f.request \in Requests /\ f.head.counter \in 0..Width-1
      /\ f.request \in done \cup dropped \cup {hand}
  BY <1>2, SoundTypes DEF Sound, Fresh
<1>4. CASE ~(f.head.channel /\ f.head.counter = expected)
  <2>1. UNCHANGED <<executed, expected>>
    BY <1>4 DEF GwReceive, gateway
  <2>2. ExecutedOnce' /\ Fresh'
    BY <1>1, <1>2, <2>1 DEF Sound, ExecutedOnce, Fresh
  <2>3. Repeats'
    <3>1. ASSUME NEW i \in Frames', frames'[i].request \in Elems(executed)
          PROVE  /\ Next1(frames'[i].head.counter) = expected
                 /\ \A j \in Frames' : j < i => frames'[j].request = frames'[i].request
      <4>1. \A j \in Frames' : j < i => j + 1 < i + 1
        BY <1>2
      <4> QED
        BY <1>2, <3>1, <4>1 DEF Sound, Repeats
    <3>2. hand \in Elems(executed) =>
            /\ Next1(head.counter) = expected
            /\ \A i \in Frames' : frames'[i].request = hand
      BY <1>2 DEF Sound, Repeats
    <3> QED
      BY <1>1, <2>1, <3>1, <3>2 DEF Repeats
  <2> QED
    BY <1>2, <2>2, <2>3
<1>5. CASE f.head.channel /\ f.head.counter = expected
  <2>1. executed' = Append(executed, f.request) /\ expected' = Next1(f.head.counter)
    BY <1>5 DEF GwReceive
  <2>2. Next1(f.head.counter) # f.head.counter
    BY <1>3, Next1Differs
  <2>3. f.request \notin Elems(executed)
    BY <1>2, <1>5, <2>2 DEF Sound, Repeats
  <2>4. Elems(executed') = Elems(executed) \cup {f.request} /\ ExecutedOnce'
    BY <1>3, <2>1, <2>3, SoundTypes, AppendElems DEF Sound, ExecutedOnce
  <2>5. Fresh'
    BY <1>1, <1>2, <1>3, <2>4 DEF Sound, Fresh
  <2>6. ASSUME NEW i \in Frames', frames'[i].request \in Elems(executed')
        PROVE  /\ frames'[i].request = f.request /\ frames'[i].head = f.head
               /\ \A j \in Frames' : j < i => frames'[j].request = f.request
    <3>1. i + 1 \in Frames /\ frames'[i] = frames[i + 1] /\ 1 < i + 1
      BY <1>2
    <3>2. frames[i + 1].request = f.request
      <4>1. SUFFICES ASSUME frames[i + 1].request \in Elems(executed)
                     PROVE  frames[i + 1].request = f.request
        BY <2>4, <2>6, <3>1
      <4> QED
        BY <1>2, <3>1, <4>1 DEF Sound, Repeats
    <3>3. frames[i + 1].head = f.head
      BY <1>2, <3>1, <3>2 DEF Sound, FrameOrder
    <3>4. ASSUME NEW j \in Frames', j < i PROVE frames'[j].request = f.request
      <4>1. j + 1 \in Frames /\ frames'[j] = frames[j + 1] /\ 1 < j + 1 /\ j + 1 < i + 1
        BY <1>2, <3>4
      <4> QED
        BY <1>2, <3>1, <3>2, <4>1 DEF Sound, FrameOrder
    <3> QED
      BY <3>1, <3>2, <3>3, <3>4
  <2>7. ASSUME hand \in Elems(executed')
        PROVE  head = f.head /\ \A i \in Frames' : frames'[i].request = hand
    <3>1. hand = f.request
      BY <1>2, <2>3, <2>4, <2>7 DEF Sound, Repeats
    <3>2. head = f.head
      BY <1>2, <3>1 DEF Sound, FrameOrder
    <3>3. ASSUME NEW i \in Frames' PROVE frames'[i].request = hand
      <4>1. i + 1 \in Frames /\ frames'[i] = frames[i + 1] /\ 1 < i + 1
        BY <1>2
      <4> QED
        BY <1>2, <3>1, <4>1 DEF Sound, FrameOrder
    <3> QED
      BY <3>2, <3>3
  <2>8. Repeats'
    BY <1>1, <2>1, <2>6, <2>7 DEF Repeats
  <2> QED
    BY <1>2, <2>4, <2>5, <2>8
<1> QED
  BY <1>4, <1>5

LEMMA SoundStep == Sound /\ [Next]_vars => Sound'
<1> SUFFICES ASSUME Sound, [Next]_vars PROVE Sound'
  OBVIOUS
<1>0. TypeOK' /\ OnePlace'
  BY TypeOKStep, OnePlaceStep DEF Sound
<1> SUFFICES ExecutedOnce' /\ FrameOrder' /\ Fresh' /\ Repeats'
  BY <1>0 DEF Sound
<1>1. CASE \/ \E r \in Requests : Write(r) \/ LateReset(r) \/ PutBack(r)
           \/ TakeWiped \/ Stray \/ Expire \/ TimedOut \/ HandleTunnelAck
           \/ Retry \/ ConnectFails \/ UNCHANGED vars
  <2>1. UNCHANGED <<frames, hand, head, executed, expected>>
    BY <1>1 DEF Write, LateReset, PutBack, TakeWiped, Stray, Expire, TimedOut,
                HandleTunnelAck, Retry, ConnectFails, vars, thread, network, gateway
  <2>2. sender' = "none" <=> sender = "none"
    BY <1>1 DEF Write, LateReset, PutBack, TakeWiped, Stray, Expire, TimedOut,
                HandleTunnelAck, Retry, ConnectFails, vars, thread
  <2>3. done \subseteq done' /\ dropped \subseteq dropped'
    BY <1>1 DEF Write, LateReset, PutBack, TakeWiped, Stray, Expire, TimedOut,
                HandleTunnelAck, Retry, ConnectFails, Attempt, vars, ghosts
  <2> QED
    BY <2>1, <2>2, <2>3, Untouched
<1>2. CASE Take
  BY <1>2, TakeSound
<1>3. CASE Transmit
  BY <1>3, TransmitSound
<1>4. CASE Woken
  <2>1. /\ hand \in Requests /\ hand' = None /\ sender' = "idle" /\ sender # "none"
        /\ done' = done \cup {hand} /\ dropped' = dropped
        /\ UNCHANGED <<frames, executed, expected>>
    BY <1>4, SoundTypes DEF Woken, network, gateway
  <2> QED
    BY <2>1, EndSound
<1>5. CASE SendFails
  <2>1. /\ hand \in Requests /\ hand' = None /\ sender' = "idle" /\ sender # "none"
        /\ dropped' = dropped \cup {hand} /\ done' = done
        /\ UNCHANGED <<frames, executed, expected>>
    BY <1>5, SoundTypes DEF SendFails, gateway
  <2> QED
    BY <2>1, EndSound
<1>6. CASE Leave
  <2>1. frames' = <<>> /\ hand' = None /\ sender' = "none" /\ executed' = executed
    BY <1>6 DEF Leave, gateway
  <2> QED
    BY <2>1, EmptySound
<1>7. CASE Connected
  <2>1. sender = "none"
    BY <1>7 DEF Connected, Sound, TypeOK, ReconnOK
  <2>2. frames' = <<>> /\ hand' = None /\ sender' = "idle" /\ executed' = <<>>
    BY <1>7, <2>1, SoundTypes DEF Connected, network, Sound, Fresh
  <2> QED
    BY <2>2, EmptySound
<1>8. CASE GwReceive
  BY <1>8, ReceiveSound
<1>9. CASE Lose
  BY <1>9, LoseSound
<1> QED
  BY <1>1, <1>2, <1>3, <1>4, <1>5, <1>6, <1>7, <1>8, <1>9 DEF Next, Sender, Leaver

LEMMA InitSound == Init => Sound
<1>1. ASSUME Init PROVE Sound
  <2>1. TypeOK
    BY <1>1, InitTypeOK
  <2>2. /\ frames = <<>> /\ executed = <<>> /\ sendList = <<>> /\ sender = "idle"
        /\ hand = None /\ leaving = None /\ failed = {} /\ back = {}
        /\ wiped = {} /\ done = {} /\ dropped = {}
    BY <1>1 DEF Init
  <2>3. Elems(<<>>) = {} /\ Distinct(<<>>) /\ Frames = {}
    BY <2>2 DEF Elems, Distinct, Frames
  <2>4. OnePlace /\ ExecutedOnce
    BY <2>2, <2>3 DEF OnePlace, ExecutedOnce, Queued
  <2>5. FrameOrder /\ Fresh /\ Repeats
    BY <2>2, <2>3 DEF FrameOrder, Fresh, Repeats
  <2> QED
    BY <2>1, <2>4, <2>5 DEF Sound
<1> QED
  BY <1>1

(* Within a connection no request is executed twice, with any number of    *)
(* retries, lost frames and late acks, for every width of the counter.     *)
THEOREM NoRequestTwice == Spec => []ExecutedOnce
<1>1. Init => Sound
  BY InitSound
<1>2. Sound /\ [Next]_vars => Sound'
  BY SoundStep
<1>3. Sound => ExecutedOnce
  BY DEF Sound
<1> QED
  BY <1>1, <1>2, <1>3, PTL DEF Spec

(***************************************************************************)
(* Acknowledged means executed, in a clean connection.  Then at most one   *)
(* frame or ack is under way, and it belongs to the request in hand:       *)
(* HandleTunnelAck, which never looks at the counter of an ack, cannot     *)
(* take it for another.  The counters show why a retry that is not sent    *)
(* and a late Reset must be excluded too: both leave an executed request   *)
(* whose counter the next request takes over.                              *)
(***************************************************************************)
Answer == [head |-> head, request |-> hand]

AtMostOne ==
  \/ frames = <<>> /\ acks = <<>>
  \/ /\ sender = "wait" /\ waiting
     /\ \/ frames = <<Answer>> /\ acks = <<>>
        \/ frames = <<>> /\ acks = <<head.counter>>

(* The interface is one counter ahead, with the request in hand.           *)
Ahead == Next1(head.counter) = expected /\ hand \in everExecuted

(* The interface expects the counter of the next new request, or is ahead  *)
(* by the one that is being retried; it is when it has sent an ack.        *)
InStep ==
  /\ sender = "none" => outCounter = 0
  /\ sender = "idle" => outCounter = expected
  /\ sender = "send" /\ tries = 0 => head.counter = expected
  /\ sender \notin {"none", "idle"} => /\ head.counter = outCounter
                                       /\ head.counter = expected \/ Ahead
  /\ acks # <<>> \/ sender = "woken" => Ahead

Calm == TypeOK /\ (clean => AtMostOne /\ InStep)

(* The properties only depend on some of the variables.                    *)
LEMMA CalmUntouched ==
  ASSUME Calm, TypeOK', clean' => clean,
         UNCHANGED <<sender, hand, head, tries, waiting, outCounter,
                     frames, acks, expected, everExecuted>>
  PROVE  Calm'
BY DEF Calm, AtMostOne, Answer, InStep, Ahead

LEMMA TakeCalm ==
  ASSUME Calm, TypeOK', Take, clean PROVE AtMostOne' /\ InStep'
<1>1. /\ sender = "idle" /\ sender' = "send" /\ tries' = 0
      /\ head'.counter = outCounter
      /\ UNCHANGED <<waiting, outCounter, frames, acks, expected, everExecuted>>
  BY DEF Take, link, network, gateway
<1>2. frames = <<>> /\ acks = <<>>
  BY <1>1 DEF Calm, AtMostOne
<1>3. outCounter = expected
  BY <1>1 DEF Calm, InStep
<1> QED
  BY <1>1, <1>2, <1>3 DEF AtMostOne, InStep

LEMMA TransmitCalm ==
  ASSUME Calm, TypeOK', Transmit, clean PROVE AtMostOne' /\ InStep'
<1>1. /\ sender = "send" /\ sender' = "wait" /\ waiting' = TRUE
      /\ frames' = Append(frames, Answer)
      /\ UNCHANGED <<hand, head, tries, outCounter, acks, expected, everExecuted>>
  BY DEF Transmit, gateway, Answer
<1>2. frames = <<>> /\ acks = <<>>
  BY <1>1 DEF Calm, AtMostOne
<1>3. frames' = <<Answer>> /\ Answer' = Answer
  BY <1>1, <1>2 DEF Answer
<1>4. AtMostOne'
  BY <1>1, <1>2, <1>3 DEF AtMostOne
<1>5. InStep'
  BY <1>1, <1>2 DEF Calm, InStep, Ahead
<1> QED
  BY <1>4, <1>5

(* Giving a request up is harmless as long as it was never transmitted.    *)
LEMMA SendFailsCalm ==
  ASSUME Calm, TypeOK', SendFails, clean, clean' PROVE AtMostOne' /\ InStep'
<1>1. /\ sender = "send" /\ tries = 0 /\ sender' = "idle"
      /\ UNCHANGED <<head, outCounter, frames, acks, expected, everExecuted>>
  BY DEF SendFails, link, gateway
<1>2. frames = <<>> /\ acks = <<>> /\ outCounter = expected
  BY <1>1 DEF Calm, AtMostOne, InStep
<1> QED
  BY <1>1, <1>2 DEF AtMostOne, InStep

(* The one place where a request becomes acknowledged.                     *)
LEMMA WokenCalm ==
  ASSUME Calm, TypeOK', Woken, clean PROVE AtMostOne' /\ InStep'
<1>1. /\ sender = "woken" /\ sender' = "idle" /\ outCounter' = Next1(outCounter)
      /\ UNCHANGED <<head, frames, acks, expected, everExecuted>>
  BY DEF Woken, network, gateway
<1>2. frames = <<>> /\ acks = <<>> /\ Ahead /\ head.counter = outCounter
  BY <1>1 DEF Calm, AtMostOne, InStep
<1> QED
  BY <1>1, <1>2 DEF AtMostOne, InStep, Ahead

LEMMA ExpireCalm ==
  ASSUME Calm, TypeOK', Expire, clean, clean' PROVE AtMostOne' /\ InStep'
<1>1. /\ sender = "wait" /\ sender' = "expired" /\ frames = <<>> /\ acks = <<>>
      /\ UNCHANGED <<hand, head, tries, outCounter, frames, acks, expected, everExecuted>>
  BY DEF Expire, link, gateway
<1> QED
  BY <1>1 DEF Calm, AtMostOne, InStep, Ahead

LEMMA TimedOutCalm ==
  ASSUME Calm, TypeOK', TimedOut, clean PROVE AtMostOne' /\ InStep'
<1>1. /\ sender = "expired" /\ tries' = tries + 1 /\ sender' \in {"send", "leave"}
      /\ UNCHANGED <<hand, head, outCounter, frames, acks, expected, everExecuted>>
  BY DEF TimedOut, network, gateway
<1>2. frames = <<>> /\ acks = <<>> /\ tries' # 0
  BY <1>1 DEF Calm, AtMostOne, TypeOK, KernelOK
<1> QED
  BY <1>1, <1>2 DEF Calm, AtMostOne, InStep, Ahead

(* Whatever the connection was like, the next one starts clean.            *)
LEMMA LeaveCalm ==
  ASSUME Leave PROVE AtMostOne' /\ InStep'
BY DEF Leave, AtMostOne, InStep

(* A new connection starts with both counters at 0 and nothing under way.  *)
LEMMA ConnectedCalm ==
  ASSUME Calm, TypeOK', Connected, clean PROVE AtMostOne' /\ InStep'
<1>1. /\ connecting /\ sender' = "idle" /\ expected' = 0
      /\ UNCHANGED <<outCounter, frames, acks, everExecuted>>
  BY DEF Connected, network
<1>2. sender = "none"
  BY <1>1 DEF Calm, TypeOK, ReconnOK
<1>3. frames = <<>> /\ acks = <<>> /\ outCounter = 0
  BY <1>2 DEF Calm, AtMostOne, InStep
<1> QED
  BY <1>1, <1>3 DEF AtMostOne, InStep

(* A Reset that finds the tunnel down finds the counter at 0.              *)
LEMMA LateResetCalm ==
  ASSUME Calm, TypeOK', NEW r \in Requests, LateReset(r), clean, clean'
  PROVE  AtMostOne' /\ InStep'
<1>1. /\ sender = "none" /\ sender' = "none" /\ outCounter' = 0
      /\ UNCHANGED <<frames, acks>>
  BY DEF LateReset, Up, thread, network
<1>2. frames = <<>> /\ acks = <<>>
  BY <1>1 DEF Calm, AtMostOne
<1> QED
  BY <1>1, <1>2 DEF AtMostOne, InStep

LEMMA HandleTunnelAckCalm ==
  ASSUME Calm, TypeOK', HandleTunnelAck, clean PROVE AtMostOne' /\ InStep'
<1>1. /\ acks # <<>> /\ acks' = Tail(acks)
      /\ sender' = IF waiting /\ sender = "wait" THEN "woken" ELSE sender
      /\ UNCHANGED <<hand, head, tries, outCounter, frames, expected, everExecuted>>
  BY DEF HandleTunnelAck, gateway
<1>2. /\ frames = <<>> /\ acks = <<head.counter>> /\ sender = "wait" /\ waiting
      /\ Ahead /\ head.counter = outCounter
  BY <1>1 DEF Calm, AtMostOne, InStep
<1>3. acks' = <<>> /\ sender' = "woken"
  <2>1. acks' = <<>>
    BY <1>1, <1>2
  <2> QED
    BY <1>1, <1>2, <2>1
<1> QED
  BY <1>1, <1>2, <1>3 DEF AtMostOne, InStep, Ahead

(* The interface acknowledges a frame that it executes, or has executed.   *)
LEMMA GwReceiveCalm ==
  ASSUME Calm, TypeOK', GwReceive, clean PROVE AtMostOne' /\ InStep'
<1>1. /\ frames # <<>> /\ frames' = Tail(frames)
      /\ UNCHANGED <<sender, hand, head, tries, waiting, outCounter>>
  BY DEF GwReceive, thread, link
<1>2. /\ frames = <<Answer>> /\ acks = <<>> /\ sender = "wait" /\ waiting
      /\ head.counter = outCounter
      /\ head.counter = expected \/ Ahead
  BY <1>1 DEF Calm, AtMostOne, InStep
<1>3. /\ frames' = <<>> /\ Head(frames) = Answer
      /\ Answer.head = head /\ Answer.request = hand
  BY <1>1, <1>2 DEF Answer
<1>4. Append(acks, head.counter) = <<head.counter>>
  BY <1>2
<1>5. CASE head.channel /\ head.counter = expected
  <2>1. /\ acks' = <<head.counter>> /\ expected' = Next1(expected)
        /\ everExecuted' = everExecuted \cup {hand}
    BY <1>3, <1>4, <1>5 DEF GwReceive
  <2>2. AtMostOne'
    BY <1>1, <1>2, <1>3, <2>1 DEF AtMostOne
  <2>3. Ahead'
    BY <1>1, <1>5, <2>1 DEF Ahead, Next1
  <2>4. InStep'
    BY <1>1, <1>2, <2>3 DEF InStep
  <2> QED
    BY <2>2, <2>4
<1>6. CASE ~(head.channel /\ head.counter = expected)
  <2>1. UNCHANGED <<expected, everExecuted>>
    BY <1>3, <1>6 DEF GwReceive, gateway
  <2>2. CASE head.channel
    <3>1. Ahead /\ acks' = <<head.counter>>
      BY <1>2, <1>3, <1>4, <1>6, <2>2 DEF GwReceive, Ahead
    <3> QED
      BY <1>1, <1>2, <1>3, <2>1, <3>1 DEF AtMostOne, InStep, Ahead
  <2>3. CASE ~head.channel
    <3>1. acks' = <<>>
      BY <1>2, <1>3, <2>3 DEF GwReceive
    <3> QED
      BY <1>1, <1>2, <1>3, <2>1, <3>1 DEF AtMostOne, InStep, Ahead
  <2> QED
    BY <2>2, <2>3
<1> QED
  BY <1>5, <1>6

LEMMA LoseCalm ==
  ASSUME Calm, TypeOK', Lose, clean PROVE AtMostOne' /\ InStep'
<1>1. /\ UNCHANGED <<sender, hand, head, tries, waiting, outCounter, expected, everExecuted>>
      /\ \/ frames # <<>> /\ frames' = Tail(frames) /\ acks' = acks
         \/ acks # <<>> /\ acks' = Tail(acks) /\ frames' = frames
  BY DEF Lose, thread, link, gateway
<1>2. /\ sender = "wait" /\ waiting
      /\ \/ frames = <<Answer>> /\ acks = <<>>
         \/ frames = <<>> /\ acks = <<head.counter>>
  BY <1>1 DEF Calm, AtMostOne
<1>3. frames' = <<>> /\ acks' = <<>>
  <2>1. \A e : <<e>> # <<>> /\ Tail(<<e>>) = <<>>
    OBVIOUS
  <2>2. CASE frames = <<Answer>> /\ acks = <<>>
    <3>1. frames' = Tail(frames) /\ acks' = acks
      BY <1>1, <2>2
    <3> QED
      BY <2>1, <2>2, <3>1
  <2>3. CASE frames = <<>> /\ acks = <<head.counter>>
    <3>1. acks' = Tail(acks) /\ frames' = frames
      BY <1>1, <2>3
    <3> QED
      BY <2>1, <2>3, <3>1
  <2> QED
    BY <1>2, <2>2, <2>3
<1> QED
  BY <1>1, <1>2, <1>3 DEF Calm, AtMostOne, InStep, Ahead

LEMMA CalmStep == Calm /\ [Next]_vars => Calm'
<1> SUFFICES ASSUME Calm, [Next]_vars PROVE Calm'
  OBVIOUS
<1>1. TypeOK'
  BY TypeOKStep DEF Calm
<1>2. CASE \/ \E r \in Requests : Write(r) \/ PutBack(r)
           \/ TakeWiped \/ Retry \/ ConnectFails \/ UNCHANGED vars
  <2>1. UNCHANGED <<sender, hand, head, tries, waiting, outCounter, frames, acks,
                    expected, everExecuted, clean>>
    BY <1>2 DEF Write, PutBack, TakeWiped, Retry, Attempt, ConnectFails,
                vars, thread, link, network, gateway, ghosts
  <2> QED
    BY <1>1, <2>1, CalmUntouched
<1>3. CASE Leave
  BY <1>1, <1>3, LeaveCalm DEF Calm
<1>4. CASE Stray
  <2>1. clean' = FALSE
    BY <1>4 DEF Stray
  <2> QED
    BY <1>1, <2>1 DEF Calm
<1>5. CASE \/ Take \/ Transmit \/ Woken \/ TimedOut \/ SendFails \/ Expire
           \/ Connected \/ HandleTunnelAck \/ GwReceive \/ Lose
           \/ \E r \in Requests : LateReset(r)
  <2>1. clean' => clean
    BY <1>5 DEF Take, Transmit, Woken, TimedOut, SendFails, Expire, Connected,
                HandleTunnelAck, GwReceive, Lose, LateReset, ghosts
  <2>2. ASSUME clean' PROVE AtMostOne' /\ InStep'
    BY <1>1, <1>5, <2>1, <2>2, TakeCalm, TransmitCalm, WokenCalm, TimedOutCalm,
       SendFailsCalm, ExpireCalm, ConnectedCalm, HandleTunnelAckCalm, GwReceiveCalm,
       LoseCalm, LateResetCalm
  <2> QED
    BY <1>1, <2>2 DEF Calm
<1> QED
  BY <1>2, <1>3, <1>4, <1>5 DEF Next, Sender, Leaver

(* A request that GroupValueRequest takes as acknowledged has been         *)
(* executed by the interface, if in this connection every answer arrived   *)
(* within the second that the thread waits, every retransmission was sent, *)
(* and no wait ended and no Reset came out of turn -- with any number of   *)
(* lost frames, lost acks and reconnections before.                        *)
THEOREM CleanDoneIsExecuted == Spec => []CleanAckIsExecuted
<1>1. Init => Calm
  <2>1. ASSUME Init PROVE AtMostOne /\ InStep
    BY <2>1 DEF Init, AtMostOne, InStep
  <2> QED
    BY <2>1, InitTypeOK DEF Calm
<1>2. Calm /\ [Next]_vars => Calm'
  BY CalmStep
<1>3. Calm => CleanAckIsExecuted
  BY DEF Calm, InStep, Ahead, CleanAckIsExecuted
<1> QED
  BY <1>1, <1>2, <1>3, PTL DEF Spec

(***************************************************************************)
(* The refinement of TunnelRequests.                                       *)
(***************************************************************************)
LEMMA PhaseAt ==
  ASSUME NEW r \in Requests
  PROVE  phase[r] = IF r \in done THEN "done"
                    ELSE IF r \in dropped THEN "dropped"
                    ELSE IF r \in wiped THEN "wiped"
                    ELSE IF r \in Held THEN "held" ELSE "new"
BY DEF phase

LEMMA HeldAt ==
  ASSUME OnePlace, NEW r \in Requests, r \in Held
  PROVE  /\ phase[r] = IF r \in wiped THEN "wiped" ELSE "held"
         /\ r \notin done /\ r \notin dropped
<1>1. r # None
  BY KnxAssumption
<1>2. r \notin done /\ r \notin dropped
  BY <1>1 DEF OnePlace, Held
<1> QED
  BY <1>2, PhaseAt

LEMMA SamePhase ==
  ASSUME UNCHANGED <<wiped, done, dropped>>,
         \A r \in Requests : r \in Held' <=> r \in Held
  PROVE  phase' = phase
BY DEF phase

(* A step of one request: it is held before, or after, or both. *)
LEMMA PhaseOfOne ==
  ASSUME NEW r \in Requests, NEW v,
         \A q \in Requests \ {r} : /\ q \in Held' <=> q \in Held
                                   /\ q \in done' <=> q \in done
                                   /\ q \in dropped' <=> q \in dropped
                                   /\ q \in wiped' <=> q \in wiped,
         v = IF r \in done' THEN "done"
             ELSE IF r \in dropped' THEN "dropped"
             ELSE IF r \in wiped' THEN "wiped"
             ELSE IF r \in Held' THEN "held" ELSE "new"
  PROVE  phase' = [phase EXCEPT ![r] = v]
BY DEF phase

(* Several requests are given up. *)
LEMMA PhaseOfMany ==
  ASSUME OnePlace, NEW S \in SUBSET Requests, S \subseteq Held,
         done' = done, dropped' = dropped \cup S, wiped' = wiped,
         \A q \in Requests \ S : q \in Held' <=> q \in Held,
         bus' = bus, alive, alive' = alive
  PROVE  Promise!Next
<1>1. \A r \in S : phase[r] \in {"held", "wiped"} /\ r \notin done
  BY HeldAt
<1>2. phase' = [r \in Requests |-> IF r \in S THEN "dropped" ELSE phase[r]]
  BY <1>1 DEF phase
<1>3. Promise!GiveUp(S)
  BY <1>1, <1>2 DEF Promise!GiveUp
<1> QED
  BY <1>3 DEF Promise!Next

(* An attempt to connect gives up what is queued, or nothing.              *)
LEMMA AttemptGivesUp ==
  ASSUME TypeOK, OnePlace, Attempt, running, UNCHANGED <<wiped, running, executed, done>>,
         {hand', leaving', None} \cup failed' \cup back'
           = {hand, leaving, None} \cup failed \cup back
  PROVE  Promise!Next \/ UNCHANGED Promise!vars
<1>0. None \notin Requests /\ Queued \subseteq Requests
  BY KnxAssumption DEF TypeOK, KernelOK, Queued, Elems
<1>1. bus' = bus /\ alive /\ alive' = alive
  BY DEF bus, alive
<1>2. CASE dropped' = dropped \cup Queued /\ sendList' = <<>>
  <2>1. PICK S \in SUBSET Requests : S = Queued
    BY <1>0
  <2>2. Queued' = {}
    BY <1>2 DEF Queued, Elems
  <2>3. S \subseteq Held
    BY <2>1 DEF Held
  <2>4. dropped' = dropped \cup S
    BY <1>2, <2>1
  <2>5. \A q \in Requests \ S : q \in Held' <=> q \in Held
    BY <1>0, <2>1, <2>2 DEF Held
  <2> QED
    BY <1>1, <2>3, <2>4, <2>5, PhaseOfMany
<1>3. CASE UNCHANGED <<dropped, sendList>>
  <2>1. Queued' = Queued
    BY <1>3 DEF Queued
  <2>2. \A q \in Requests : q \in Held' <=> q \in Held
    BY <1>0, <2>1 DEF Held
  <2>3. phase' = phase
    BY <1>3, <2>2, SamePhase
  <2> QED
    BY <1>1, <2>3 DEF Promise!vars
<1> QED
  BY <1>2, <1>3 DEF Attempt

(* A frame that is executed carries a request that was accepted, has not   *)
(* lost its data and is not on the bus yet: Fresh says the first, OnePlace *)
(* the second, the distinctness of the longer list the third.              *)
LEMMA ReceivePromise ==
  ASSUME Sound, ExecutedOnce', GwReceive
  PROVE  Promise!Next \/ UNCHANGED Promise!vars
<1>0. /\ UNCHANGED <<sendList, wiped, hand, leaving, failed, back, running, done, dropped>>
      /\ frames # <<>>
  BY DEF GwReceive, list, thread, reconn, ghosts
<1>1. phase' = phase /\ alive' = alive
  BY <1>0 DEF phase, Held, Queued, alive
<1>2. CASE executed' = executed
  BY <1>1, <1>2 DEF Promise!vars, bus
<1>3. CASE executed' = Append(executed, Head(frames).request)
  <2>1. /\ executed \in Seq(Requests) /\ frames \in Seq(Frame)
        /\ 1 \in Frames /\ Head(frames) = frames[1]
    BY <1>0, SoundTypes, TailAt DEF Frames
  <2>2. PICK r \in Requests : r = Head(frames).request
    BY <2>1, SoundTypes
  <2>3. bus' = bus \cup {r}
    BY <1>3, <2>1, <2>2, AppendElems DEF bus
  <2>4. r \notin bus
    <3>1. /\ Len(executed) \in Nat
          /\ 1..Len(executed') = (1..Len(executed)) \cup {Len(executed) + 1}
          /\ \A i \in 1..Len(executed) : executed'[i] = executed[i]
          /\ executed'[Len(executed) + 1] = r
      BY <1>3, <2>1, <2>2, AppendAt
    <3>2. \A i \in 1..Len(executed) : i # Len(executed) + 1
      BY <3>1
    <3>3. \A i \in 1..Len(executed) : executed[i] # r
      BY <3>1, <3>2 DEF ExecutedOnce, Distinct
    <3> QED
      BY <3>3 DEF bus, Elems
  <2>5. phase[r] \notin {"new", "wiped"}
    <3>1. r \in done \cup dropped \cup {hand}
      BY <1>0, <2>1, <2>2 DEF Sound, Fresh
    <3>2. r = hand => r \notin wiped
      BY KnxAssumption DEF Sound, OnePlace
    <3> QED
      BY <3>1, <3>2, PhaseAt DEF Held
  <2>6. Promise!Execute(r)
    BY <1>1, <2>3, <2>4, <2>5 DEF Promise!Execute
  <2> QED
    BY <2>6 DEF Promise!Next
<1> QED
  BY <1>2, <1>3 DEF GwReceive, gateway

LEMMA PromiseStep ==
  ASSUME Sound, Sound', [Next]_vars
  PROVE  [Promise!Next]_(Promise!vars)
<1> SUFFICES Promise!Next \/ UNCHANGED Promise!vars
  OBVIOUS
<1>0. /\ TypeOK /\ OnePlace /\ OnePlace' /\ None \notin Requests
      /\ sendList \in Seq(Requests)
      /\ hand \in Requests \cup {None} /\ (hand = None <=> sender \in {"idle", "none"})
      /\ leaving \in Requests \cup {None} /\ (leaving # None => connecting)
      /\ (connecting => sender = "none")
  BY KnxAssumption DEF Sound, TypeOK, KernelOK, ReconnOK
<1>1. ASSUME NEW r \in Requests, Write(r) PROVE Promise!Next
  <2>1. Queued' = Queued \cup {r}
    BY <1>0, <1>1, AppendElems DEF Write, Queued
  <2>2. running /\ UNCHANGED <<wiped, hand, leaving, failed, back, running, done, dropped, executed>>
    BY <1>1 DEF Write, thread, reconn, ghosts, gateway
  <2>3. /\ Held' = Held \cup {r} /\ r \notin Held /\ r \notin done /\ r \notin dropped
        /\ r \notin wiped
    BY <1>0, <1>1, <2>1, <2>2 DEF Held, Write, Known, OnePlace
  <2>4. phase[r] = "new"
    BY <2>3, PhaseAt
  <2>5. phase' = [phase EXCEPT ![r] = "held"]
    BY <2>2, <2>3, PhaseOfOne
  <2>6. Promise!Accept(r)
    BY <2>2, <2>4, <2>5 DEF Promise!Accept, bus, alive
  <2> QED
    BY <2>6 DEF Promise!Next
<1>2. CASE Take
  <2>1. /\ hand = None /\ Queued = {hand'} \cup Queued'
        /\ UNCHANGED <<wiped, leaving, failed, back, running, done, dropped, executed>>
    BY <1>0, <1>2, HeadAndTail DEF Take, Queued, reconn, ghosts, gateway
  <2>2. \A q \in Requests : q \in Held' <=> q \in Held
    BY <1>0, <2>1 DEF Held
  <2> QED
    BY <2>1, <2>2, SamePhase DEF Promise!vars, bus, alive
<1>3. CASE TakeWiped
  <2>1. /\ sendList # <<>> /\ Head(sendList) \in wiped /\ running /\ running' = FALSE
        /\ UNCHANGED <<sendList, wiped, hand, leaving, failed, back, done, dropped, executed>>
    BY <1>3 DEF TakeWiped, list, thread, ghosts, gateway
  <2>2. PICK r \in Requests : r = Head(sendList)
    BY <1>0, <2>1, TailElems
  <2>3. r \in Held /\ r \in wiped
    BY <1>0, <2>1, <2>2, TailElems DEF Held, Queued
  <2>4. phase[r] = "wiped"
    BY <1>0, <2>3, HeldAt
  <2>5. UNCHANGED <<phase, bus>> /\ alive /\ alive' = FALSE
    BY <2>1 DEF phase, bus, Held, Queued, alive
  <2> QED
    BY <2>4, <2>5 DEF Promise!Next, Promise!Crash
<1>4. CASE Woken
  <2>1. /\ hand \in Requests /\ hand' = None /\ done' = done \cup {hand} /\ running
        /\ UNCHANGED <<sendList, wiped, leaving, failed, back, running, dropped, executed>>
    BY <1>0, <1>4 DEF Woken, list, reconn, gateway
  <2>2. PICK r \in Requests : r = hand
    BY <2>1
  <2>3. r \in Held /\ r \notin wiped
    BY <1>0, <2>2 DEF Held, OnePlace
  <2>4. phase[r] = "held"
    BY <1>0, <2>3, HeldAt
  <2>5. \A q \in Requests \ {r} : /\ q \in Held' <=> q \in Held
                                  /\ q \in done' <=> q \in done
                                  /\ q \in dropped' <=> q \in dropped
                                  /\ q \in wiped' <=> q \in wiped
    BY <1>0, <2>1, <2>2 DEF Held, Queued
  <2>6. phase' = [phase EXCEPT ![r] = "done"]
    BY <2>1, <2>2, <2>5, PhaseOfOne
  <2>7. Promise!Acknowledge(r)
    BY <2>1, <2>4, <2>6 DEF Promise!Acknowledge, bus, alive
  <2> QED
    BY <2>7 DEF Promise!Next
<1>5. CASE SendFails
  <2>1. /\ hand \in Requests /\ hand' = None /\ dropped' = dropped \cup {hand} /\ running
        /\ UNCHANGED <<sendList, wiped, leaving, failed, back, running, done, executed>>
    BY <1>0, <1>5 DEF SendFails, list, reconn, gateway
  <2>2. PICK S \in SUBSET Requests : S = {hand}
    BY <2>1
  <2>3. \A q \in Requests \ S : q \in Held' <=> q \in Held
    BY <1>0, <2>1, <2>2 DEF Held, Queued
  <2>4. /\ S \subseteq Held /\ dropped' = dropped \cup S
        /\ bus' = bus /\ alive /\ alive' = alive
    BY <2>1, <2>2 DEF Held, bus, alive
  <2> QED
    BY <1>0, <2>1, <2>3, <2>4, PhaseOfMany
<1>6. CASE Leave
  <2>1. leaving = None
    BY <1>0, <1>6 DEF Leave
  <2>2. /\ leaving' = hand /\ hand' = None /\ running
        /\ UNCHANGED <<wiped, failed, back, running, done, executed>> /\ Attempt
    BY <1>6 DEF Leave, gateway
  <2>3. {hand', leaving', None} \cup failed' \cup back'
          = {hand, leaving, None} \cup failed \cup back
    BY <2>1, <2>2
  <2> QED
    BY <1>0, <2>2, <2>3, AttemptGivesUp
<1>7. CASE Retry
  <2>1. /\ running /\ Attempt
        /\ UNCHANGED <<wiped, hand, leaving, failed, back, running, done, executed>>
    BY <1>7 DEF Retry, thread, gateway
  <2> QED
    BY <1>0, <2>1, AttemptGivesUp
<1>8. CASE Connected
  <2>1. /\ back' = back \cup ({leaving} \ {None}) /\ leaving' = None /\ running
        /\ executed' = <<>>
        /\ UNCHANGED <<sendList, wiped, hand, failed, running, done, dropped>>
    BY <1>8 DEF Connected, list, ghosts
  <2>2. \A q \in Requests : q \in Held' <=> q \in Held
    BY <1>0, <2>1 DEF Held, Queued
  <2>3. phase' = phase
    BY <2>1, <2>2, SamePhase
  <2>4. bus' = {} /\ alive /\ alive' = alive
    BY <2>1 DEF bus, Elems, alive
  <2> QED
    BY <2>3, <2>4 DEF Promise!Next, Promise!Reconnect
<1>9. CASE ConnectFails
  <2>1. /\ failed' = failed \cup ({leaving} \ {None}) /\ leaving' = None
        /\ UNCHANGED <<sendList, wiped, hand, back, running, done, dropped, executed>>
    BY <1>9 DEF ConnectFails, list, thread, ghosts, gateway
  <2>2. \A q \in Requests : q \in Held' <=> q \in Held
    BY <1>0, <2>1 DEF Held, Queued
  <2> QED
    BY <2>1, <2>2, SamePhase DEF Promise!vars, bus, alive
<1>10. ASSUME NEW r \in Requests, LateReset(r) PROVE UNCHANGED Promise!vars
  <2>1. /\ r \in failed /\ failed' = failed \ {r} /\ back' = back \cup {r}
        /\ UNCHANGED <<sendList, wiped, hand, leaving, running, done, dropped, executed>>
    BY <1>10 DEF LateReset, list, thread, gateway
  <2>2. \A q \in Requests : q \in Held' <=> q \in Held
    BY <2>1 DEF Held, Queued
  <2> QED
    BY <2>1, <2>2, SamePhase DEF Promise!vars, bus, alive
<1>11. ASSUME NEW r \in Requests, PutBack(r)
       PROVE  Promise!Next \/ UNCHANGED Promise!vars
  <2>1. Queued' = Queued \cup {r}
    BY <1>0, <1>11, ConsElems DEF PutBack, Queued
  <2>2. /\ r \in back /\ back' = back \ {r} /\ wiped' = wiped \cup ({r} \cap Writes) /\ running
        /\ UNCHANGED <<hand, leaving, failed, running, done, dropped, executed>>
    BY <1>11 DEF PutBack, thread, ghosts, gateway
  <2>3. \A q \in Requests : q \in Held' <=> q \in Held
    BY <2>1, <2>2 DEF Held
  <2>4. r \in Held /\ r \notin wiped /\ r \notin done /\ r \notin dropped
    BY <1>0, <2>2 DEF Held, OnePlace
  <2>5. bus' = bus /\ alive /\ alive' = alive
    BY <2>2 DEF bus, alive
  <2>6. CASE r \in Writes
    <3>1. phase[r] = "held"
      BY <1>0, <2>4, HeldAt
    <3>2. phase' = [phase EXCEPT ![r] = "wiped"]
      BY <2>2, <2>3, <2>4, <2>6, PhaseOfOne
    <3>3. Promise!Wipe(r)
      BY <2>5, <2>6, <3>1, <3>2 DEF Promise!Wipe
    <3> QED
      BY <3>3 DEF Promise!Next
  <2>7. CASE r \notin Writes
    BY <2>2, <2>3, <2>5, <2>7, SamePhase DEF Promise!vars
  <2> QED
    BY <2>6, <2>7
<1>12. CASE GwReceive
  BY <1>12, ReceivePromise DEF Sound
<1>13. CASE Transmit \/ TimedOut \/ Stray \/ Expire \/ HandleTunnelAck \/ Lose \/ UNCHANGED vars
  <2>1. UNCHANGED <<sendList, wiped, hand, leaving, failed, back, running, done, dropped, executed>>
    BY <1>13 DEF Transmit, TimedOut, Stray, Expire, HandleTunnelAck, Lose, vars,
                 list, thread, reconn, gateway, ghosts
  <2>2. UNCHANGED <<phase, bus, alive>>
    BY <2>1 DEF phase, bus, Held, Queued, alive
  <2> QED
    BY <2>2 DEF Promise!vars
<1> QED
  BY <1>1, <1>2, <1>3, <1>4, <1>5, <1>6, <1>7, <1>8, <1>9, <1>10, <1>11, <1>12, <1>13
     DEF Next, Sender, Leaver

(* No accepted request is lost before its end or comes back after it, none *)
(* but accepted ones reach the bus, each once in a connection, and only a  *)
(* write whose data was zeroed ends the process, which never acknowledges  *)
(* it nor sends it again: the list, the send threads that overlap and the  *)
(* attempts to reconnect implement TunnelRequests.                         *)
THEOREM ImplementsRequests == Spec => RequestSteps
<1>1. Init => Sound /\ Promise!Init
  <2>1. ASSUME Init PROVE Promise!Init
    <3>1. /\ sendList = <<>> /\ wiped = {} /\ hand = None /\ leaving = None
          /\ failed = {} /\ back = {} /\ running = TRUE
          /\ done = {} /\ dropped = {} /\ executed = <<>>
      BY <2>1 DEF Init
    <3>2. Queued = {} /\ bus = {} /\ alive = TRUE
      BY <3>1 DEF Queued, bus, Elems, alive
    <3>3. \A r \in Requests : r \notin Held
      BY <3>1, <3>2, KnxAssumption DEF Held
    <3>4. phase = [r \in Requests |-> "new"]
      BY <3>1, <3>3 DEF phase
    <3> QED
      BY <3>2, <3>4 DEF Promise!Init
  <2> QED
    BY <2>1, InitSound
<1>2. Sound /\ [Next]_vars => Sound'
  BY SoundStep
<1>3. Sound /\ Sound' /\ [Next]_vars => [Promise!Next]_(Promise!vars)
  BY PromiseStep
<1> QED
  BY <1>1, <1>2, <1>3, PTL DEF Spec, RequestSteps

=============================================================================
