--------------------------- MODULE HostLoginProofs ---------------------------
(***************************************************************************)
(* Proofs about HostLogin, for any number of queries and whether or not    *)
(* datagrams overtake each other: type correctness, and that a host that   *)
(* waits for nothing is logged in.                                         *)
(***************************************************************************)
EXTENDS HostLogin, SequenceTheorems, TLAPS

-----------------------------------------------------------------------------
(* The strengthening of QuietIsAgreed.                                     *)

Has(c, type) == \E m \in Range(c) : m.type = type

\* A handshake that will make a key is under way, apart from the answer that the
\* report thread has in its hands.
AskAhead(rest) ==
  Has(toServer, "ask") \/ Has(toHost, "ask") \/ Has(toHost, "noLogin") \/ Has(rest, "ask")

\* A handshake has not got to its login yet.
Handshake ==
  \/ AskAhead(queue)
  \/ Has(toServer, "pass") \/ Has(toHost, "pass") \/ Has(queue, "pass")

LoginAhead == Has(toServer, "login") \/ Has(toHost, "login") \/ Has(queue, "login")

\* The report thread is in the middle of the answer at the head of its list.  A
\* key that it misses was destroyed by a GE_NO_LOGIN, which asked for another.
ThreadInv ==
  /\ thread # "idle" => queue # <<>>
  /\ thread \in {"rsa", "made"} => Head(queue).type = "ask"
  /\ thread = "saved" =>
       /\ Head(queue).type = "pass"
       /\ host.aes = None \/ host.session = Head(queue).session
  /\ Up =>
       /\ thread = "rsa" /\ ~host.rsa => AskAhead(Tail(queue))
       /\ thread = "made" /\ (host.aes = None \/ ~host.rsa) => AskAhead(Tail(queue))

\* Sessions.  An answer to PASS_SECRET_KEY has one that no other such answer,
\* no login under way and no granted login has.
Distinct(c) ==
  \A i, j \in DOMAIN c :
    i # j /\ c[i].type = "pass" /\ c[j].type = "pass" => c[i].session # c[j].session

PassAnswers == {m \in Range(toHost) \cup Range(queue) : m.type = "pass"}

LoginRequests == {m \in Range(toServer) : m.type = "login"}

Grants == {m \in Range(toHost) \cup Range(queue) : m.type = "login" /\ m.ok}

SessionInv ==
  /\ row.key # None => row.session > 0
  /\ Distinct(toHost) /\ Distinct(queue)
  /\ \A m \in Range(toHost), n \in Range(queue) :
       m.type = "pass" /\ n.type = "pass" => m.session # n.session
  /\ \A m \in PassAnswers \cup LoginRequests \cup Grants : m.session <= row.session
  /\ \A p \in PassAnswers :
       /\ \A r \in LoginRequests : r.session # p.session
       /\ \A g \in Grants : g.session # p.session

\* When no handshake is on, a login with the host's session has the host's key, a
\* grant with it is the agreement, and so is the absence of both.
AgreementInv ==
  Up /\ ~Handshake =>
    /\ \A r \in LoginRequests : r.session = host.session => r.key = host.aes
    /\ \A g \in Grants : g.session = host.session => Agreed
    /\ ~LoginAhead => Agreed

IInv == TypeOK /\ ThreadInv /\ SessionInv /\ AgreementInv

-----------------------------------------------------------------------------
(* Channels: what is in them after one message comes or goes.              *)

LEMMA AppendElements ==
  ASSUME NEW S, NEW c \in Seq(S), NEW m \in S
  PROVE  /\ Append(c, m) \in Seq(S)
         /\ Range(Append(c, m)) = Range(c) \cup {m}
         /\ c \o <<m>> = Append(c, m)
<1>1. /\ Append(c, m) \in Seq(S) /\ Len(Append(c, m)) = Len(c) + 1
      /\ \A i \in 1 .. Len(c) : Append(c, m)[i] = c[i]
      /\ Append(c, m)[Len(c) + 1] = m
  BY AppendProperties
<1>2. Len(c) \in Nat /\ DOMAIN c = 1 .. Len(c) /\ DOMAIN Append(c, m) = 1 .. Len(c) + 1
  BY <1>1, LenProperties
<1>3. c \o <<m>> = Append(c, m)
  BY AppendIsConcat
<1>4. ASSUME NEW x \in Range(Append(c, m))
      PROVE  x \in Range(c) \cup {m}
  <2>1. PICK i \in 1 .. Len(c) + 1 : x = Append(c, m)[i]
    BY <1>2, <1>4 DEF Range
  <2>2. CASE i = Len(c) + 1
    BY <1>1, <2>1, <2>2
  <2>3. CASE i # Len(c) + 1
    <3>1. i \in 1 .. Len(c)
      BY <1>2, <2>1, <2>3
    <3> QED
      BY <1>1, <1>2, <2>1, <3>1 DEF Range
  <2> QED
    BY <2>2, <2>3
<1>5. ASSUME NEW x \in Range(c)
      PROVE  x \in Range(Append(c, m))
  <2>1. PICK i \in 1 .. Len(c) : x = c[i]
    BY <1>2, <1>5 DEF Range
  <2>2. i \in 1 .. Len(c) + 1 /\ Append(c, m)[i] = x
    BY <1>1, <1>2, <2>1
  <2> QED
    BY <1>2, <2>2 DEF Range
<1>6. m \in Range(Append(c, m))
  <2>1. Len(c) + 1 \in 1 .. Len(c) + 1
    BY <1>2
  <2> QED
    BY <1>1, <1>2, <2>1 DEF Range
<1> QED
  BY <1>1, <1>3, <1>4, <1>5, <1>6

LEMMA RemoveElements ==
  ASSUME NEW S, NEW c \in Seq(S), NEW i \in DOMAIN c
  PROVE  /\ RemoveAt(c, i) \in Seq(S)
         /\ Len(RemoveAt(c, i)) = Len(c) - 1
         /\ DOMAIN RemoveAt(c, i) = 1 .. Len(c) - 1
         /\ \A j \in 1 .. Len(c) - 1 :
              RemoveAt(c, i)[j] = IF j < i THEN c[j] ELSE c[j + 1]
         /\ Range(c) = Range(RemoveAt(c, i)) \cup {c[i]}
         /\ c[i] \in S
<1> DEFINE a == SubSeq(c, 1, i - 1)
           b == SubSeq(c, i + 1, Len(c))
           r == RemoveAt(c, i)
<1>1. Len(c) \in Nat /\ DOMAIN c = 1 .. Len(c) /\ i \in 1 .. Len(c)
  BY LenProperties
<1>2. \A j \in 1 .. Len(c) : c[j] \in S
  BY ElementOfSeq
<1>3. /\ a \in Seq(S) /\ Len(a) = i - 1
      /\ \A j \in 1 .. i - 1 : a[j] = c[j]
  <2>1. 1 \in Int /\ i - 1 \in Int /\ \A j \in 1 .. i - 1 : c[j] \in S
    BY <1>1, <1>2
  <2>2. /\ SubSeq(c, 1, i - 1) \in Seq(S)
        /\ Len(SubSeq(c, 1, i - 1)) = IF 1 <= i - 1 THEN (i - 1) - 1 + 1 ELSE 0
        /\ \A j \in 1 .. (i - 1) - 1 + 1 : SubSeq(c, 1, i - 1)[j] = c[1 + j - 1]
    BY <2>1, SubSeqProperties
  <2> HIDE DEF a
  <2>3. (i - 1) - 1 + 1 = i - 1 /\ \A j \in 1 .. i - 1 : 1 + j - 1 = j
    BY <1>1
  <2>4. (IF 1 <= i - 1 THEN i - 1 ELSE 0) = i - 1
    BY <1>1
  <2> QED
    BY <2>2, <2>3, <2>4 DEF a
<1>4. /\ b \in Seq(S) /\ Len(b) = Len(c) - i
      /\ \A j \in 1 .. Len(c) - i : b[j] = c[i + j]
  <2>1. i + 1 \in Int /\ Len(c) \in Int /\ \A j \in i + 1 .. Len(c) : c[j] \in S
    BY <1>1, <1>2
  <2>2. /\ SubSeq(c, i + 1, Len(c)) \in Seq(S)
        /\ Len(SubSeq(c, i + 1, Len(c))) =
             IF i + 1 <= Len(c) THEN Len(c) - (i + 1) + 1 ELSE 0
        /\ \A j \in 1 .. Len(c) - (i + 1) + 1 :
             SubSeq(c, i + 1, Len(c))[j] = c[(i + 1) + j - 1]
    BY <2>1, SubSeqProperties
  <2>3. Len(c) - (i + 1) + 1 = Len(c) - i
        /\ \A j \in 1 .. Len(c) - i : (i + 1) + j - 1 = i + j
    BY <1>1
  <2>4. (IF i + 1 <= Len(c) THEN Len(c) - i ELSE 0) = Len(c) - i
    BY <1>1
  <2> QED
    BY <2>2, <2>3, <2>4 DEF b
<1>5. r = a \o b
  BY DEF RemoveAt
<1> HIDE DEF a, b, r
<1>6. /\ r \in Seq(S) /\ Len(r) = Len(c) - 1 /\ DOMAIN r = 1 .. Len(c) - 1
      /\ \A j \in 1 .. Len(c) - 1 : r[j] = IF j <= i - 1 THEN a[j] ELSE b[j - (i - 1)]
  <2>1. Len(a) + Len(b) = Len(c) - 1
    BY <1>1, <1>3, <1>4
  <2>2. /\ r \in Seq(S) /\ Len(r) = Len(c) - 1
        /\ \A j \in 1 .. Len(c) - 1 : r[j] = IF j <= i - 1 THEN a[j] ELSE b[j - (i - 1)]
    <3>1. /\ r \in Seq(S) /\ Len(r) = Len(a) + Len(b)
          /\ \A j \in 1 .. Len(a) + Len(b) : r[j] = IF j <= Len(a) THEN a[j] ELSE b[j - Len(a)]
      BY <1>3, <1>4, <1>5, ConcatProperties
    <3> QED
      BY <1>3, <2>1, <3>1
  <2> QED
    BY <2>2, LenProperties
<1>7. ASSUME NEW j \in 1 .. Len(c) - 1
      PROVE  r[j] = IF j < i THEN c[j] ELSE c[j + 1]
  <2>1. CASE j < i
    <3>1. j \in 1 .. i - 1 /\ j <= i - 1
      BY <1>1, <1>7, <2>1
    <3> QED
      BY <1>3, <1>6, <1>7, <2>1, <3>1
  <2>2. CASE ~(j < i)
    <3>1. j - (i - 1) \in 1 .. Len(c) - i /\ ~(j <= i - 1) /\ i + (j - (i - 1)) = j + 1
      BY <1>1, <1>7, <2>2
    <3>2. b[j - (i - 1)] = c[i + (j - (i - 1))]
      BY <1>4, <3>1
    <3> QED
      BY <1>6, <1>7, <2>2, <3>1, <3>2
  <2> QED
    BY <2>1, <2>2
<1>8. Range(c) = Range(r) \cup {c[i]}
  <2>1. ASSUME NEW x \in Range(r)
        PROVE  x \in Range(c)
    <3>1. PICK j \in 1 .. Len(c) - 1 : x = r[j]
      BY <1>6, <2>1 DEF Range
    <3>2. j \in 1 .. Len(c) /\ j + 1 \in 1 .. Len(c)
      BY <1>1, <3>1
    <3> QED
      BY <1>1, <1>7, <3>1, <3>2 DEF Range
  <2>2. ASSUME NEW x \in Range(c), x # c[i]
        PROVE  x \in Range(r)
    <3>1. PICK j \in 1 .. Len(c) : x = c[j]
      BY <1>1, <2>2 DEF Range
    <3>2. CASE j < i
      <4>1. j \in 1 .. Len(c) - 1
        BY <1>1, <3>1, <3>2
      <4>2. r[j] = x
        BY <1>7, <3>1, <3>2, <4>1
      <4> QED
        BY <1>6, <4>1, <4>2 DEF Range
    <3>3. CASE j > i
      <4>1. j - 1 \in 1 .. Len(c) - 1 /\ ~(j - 1 < i) /\ (j - 1) + 1 = j
        BY <1>1, <3>1, <3>3
      <4>2. r[j - 1] = x
        BY <1>7, <3>1, <4>1
      <4> QED
        BY <1>6, <4>1, <4>2 DEF Range
    <3> QED
      BY <1>1, <2>2, <3>1, <3>2, <3>3
  <2>3. c[i] \in Range(c)
    BY DEF Range
  <2> QED
    BY <2>1, <2>2, <2>3
<1> QED
  BY <1>1, <1>2, <1>6, <1>7, <1>8 DEF r

LEMMA TailElements ==
  ASSUME NEW S, NEW c \in Seq(S), c # <<>>
  PROVE  /\ Tail(c) \in Seq(S) /\ Head(c) \in S
         /\ Tail(c) = RemoveAt(c, 1) /\ Head(c) = c[1] /\ 1 \in DOMAIN c
         /\ Range(c) = Range(Tail(c)) \cup {Head(c)}
<1>1. Len(c) \in Nat /\ DOMAIN c = 1 .. Len(c) /\ Len(c) > 0
  BY LenProperties, EmptySeq
<1>2. 1 \in DOMAIN c
  BY <1>1
<1>3. /\ Tail(c) \in Seq(S) /\ Head(c) \in S /\ Len(Tail(c)) = Len(c) - 1
      /\ \A j \in 1 .. Len(Tail(c)) : Tail(c)[j] = c[j + 1]
  BY HeadTailProperties
<1>4. Head(c) = c[1]
  BY <1>1
<1>5. /\ RemoveAt(c, 1) \in Seq(S) /\ Len(RemoveAt(c, 1)) = Len(c) - 1
      /\ DOMAIN RemoveAt(c, 1) = 1 .. Len(c) - 1
      /\ \A j \in 1 .. Len(c) - 1 : RemoveAt(c, 1)[j] = IF j < 1 THEN c[j] ELSE c[j + 1]
      /\ Range(c) = Range(RemoveAt(c, 1)) \cup {c[1]}
  BY <1>2, RemoveElements
<1>6. Tail(c) = RemoveAt(c, 1)
  <2>2. ASSUME NEW j \in 1 .. Len(Tail(c))
        PROVE  Tail(c)[j] = RemoveAt(c, 1)[j]
    <3>1. j \in 1 .. Len(c) - 1 /\ ~(j < 1)
      BY <1>1, <1>3, <2>2
    <3> QED
      BY <1>3, <1>5, <2>2, <3>1
  <2> QED
    BY <1>3, <1>5, <2>2, SeqEqual
<1> QED
  BY <1>2, <1>3, <1>4, <1>5, <1>6

\* Sessions of the answers to PASS_SECRET_KEY in one channel.
LEMMA DistinctAppend ==
  ASSUME NEW S, NEW c \in Seq(S), NEW m \in S, Distinct(c),
         m.type = "pass" =>
           \A n \in Range(c) : n.type = "pass" => n.session # m.session
  PROVE  Distinct(Append(c, m))
<1> DEFINE d == Append(c, m)
<1>1. /\ Len(c) \in Nat /\ DOMAIN c = 1 .. Len(c) /\ DOMAIN d = 1 .. Len(c) + 1
      /\ \A i \in 1 .. Len(c) : d[i] = c[i]
      /\ d[Len(c) + 1] = m
  BY AppendProperties, LenProperties
<1> HIDE DEF d
<1>2. \A i \in 1 .. Len(c) : d[i] \in Range(c)
  BY <1>1 DEF Range
<1>3. ASSUME NEW i \in DOMAIN d, NEW j \in DOMAIN d, i # j,
             d[i].type = "pass", d[j].type = "pass"
      PROVE  d[i].session # d[j].session
  <2>1. CASE i = Len(c) + 1
    <3>1. j \in 1 .. Len(c)
      BY <1>1, <1>3, <2>1
    <3> QED
      BY <1>1, <1>2, <1>3, <2>1, <3>1
  <2>2. CASE j = Len(c) + 1
    <3>1. i \in 1 .. Len(c)
      BY <1>1, <1>3, <2>2
    <3> QED
      BY <1>1, <1>2, <1>3, <2>2, <3>1
  <2>3. CASE i # Len(c) + 1 /\ j # Len(c) + 1
    <3>1. i \in 1 .. Len(c) /\ j \in 1 .. Len(c)
      BY <1>1, <1>3, <2>3
    <3> QED
      BY <1>1, <1>3, <3>1 DEF Distinct
  <2> QED
    BY <2>1, <2>2, <2>3
<1> QED
  BY <1>3 DEF Distinct, d

LEMMA DistinctRemove ==
  ASSUME NEW S, NEW c \in Seq(S), NEW i \in DOMAIN c, Distinct(c)
  PROVE  /\ Distinct(RemoveAt(c, i))
         /\ c[i].type = "pass" =>
              \A n \in Range(RemoveAt(c, i)) : n.type = "pass" => n.session # c[i].session
<1> DEFINE r == RemoveAt(c, i)
<1>1. /\ Len(c) \in Nat /\ DOMAIN c = 1 .. Len(c) /\ DOMAIN r = 1 .. Len(c) - 1
      /\ \A j \in 1 .. Len(c) - 1 : r[j] = IF j < i THEN c[j] ELSE c[j + 1]
  BY RemoveElements, LenProperties
<1> HIDE DEF r
\* Where the element j of what is left was.
<1> DEFINE at(j) == IF j < i THEN j ELSE j + 1
<1>2. ASSUME NEW j \in DOMAIN r
      PROVE  at(j) \in DOMAIN c /\ at(j) # i /\ r[j] = c[at(j)]
  BY <1>1, <1>2
<1>3. ASSUME NEW j \in DOMAIN r, NEW k \in DOMAIN r, j # k
      PROVE  at(j) # at(k)
  BY <1>1, <1>3
<1> HIDE DEF at
<1>4. Distinct(r)
  BY <1>2, <1>3 DEF Distinct
<1>5. ASSUME c[i].type = "pass", NEW n \in Range(r), n.type = "pass"
      PROVE  n.session # c[i].session
  <2>1. PICK j \in DOMAIN r : n = r[j]
    BY <1>5 DEF Range
  <2> QED
    BY <1>2, <1>5, <2>1 DEF Distinct
<1> QED
  BY <1>4, <1>5 DEF r

-----------------------------------------------------------------------------
(* Messages, and how a step moves them.                                    *)

ToHost == Answers \cup [type : {"noLogin"}]

LEMMA MessageTypes ==
  /\ \A m \in Answers :
       /\ m.type \in {"ask", "pass", "login"}
       /\ m.type = "pass" => m.session \in Nat
       /\ m.type = "login" => m.session \in Nat /\ m.ok \in BOOLEAN
  /\ \A m \in Requests :
       /\ m.type \in {"ask", "pass", "login", "query"}
       /\ m.type = "pass" => m.key \in Nat
       /\ m.type = "login" => m.key \in Nat /\ m.session \in Nat
  /\ \A m \in ToHost : m.type = "noLogin" \/ m \in Answers
  /\ Ask \in Requests /\ Ask \in Answers /\ Ask \in ToHost /\ Ask.type = "ask"
BY DEF Answers, Requests, ToHost, Ask

LEMMA ChannelTypes ==
  ASSUME TypeOK
  PROVE  /\ toServer \in Seq(Requests) /\ toHost \in Seq(ToHost) /\ queue \in Seq(Answers)
         /\ Range(toServer) \subseteq Requests
         /\ Range(toHost) \subseteq ToHost
         /\ Range(queue) \subseteq Answers
<1>1. toServer \in Seq(Requests) /\ toHost \in Seq(ToHost) /\ queue \in Seq(Answers)
  BY DEF TypeOK, ToHost
<1>2. ASSUME NEW S, NEW c \in Seq(S)
      PROVE  Range(c) \subseteq S
  BY LenProperties, ElementOfSeq DEF Range
<1> QED
  BY <1>1, <1>2

\* The server takes a request and sends an answer, or none.
LEMMA AnsweredOne ==
  ASSUME TypeOK, NEW i \in DOMAIN toServer, NEW m \in ToHost, Answered(i, <<m>>)
  PROVE  /\ toServer[i] \in Requests /\ toServer' \in Seq(Requests)
         /\ Range(toServer) = Range(toServer') \cup {toServer[i]}
         /\ toHost' = Append(toHost, m) /\ toHost' \in Seq(ToHost)
         /\ Range(toHost') = Range(toHost) \cup {m}
         /\ UNCHANGED <<rightful, host, thread, queue, keys, queries>>
<1>1. /\ toServer' = RemoveAt(toServer, i) /\ toHost' = toHost \o <<m>>
      /\ UNCHANGED <<rightful, host, thread, queue, keys, queries>>
  BY DEF Answered
<1>2. toServer \in Seq(Requests) /\ toHost \in Seq(ToHost)
  BY ChannelTypes
<1>3. /\ toServer[i] \in Requests /\ toServer' \in Seq(Requests)
      /\ Range(toServer) = Range(toServer') \cup {toServer[i]}
  BY <1>1, <1>2, RemoveElements
<1>4. /\ Append(toHost, m) \in Seq(ToHost)
      /\ Range(Append(toHost, m)) = Range(toHost) \cup {m}
      /\ toHost \o <<m>> = Append(toHost, m)
  BY <1>2, AppendElements
<1>5. toHost' = Append(toHost, m)
  BY <1>1, <1>4
<1> QED
  BY <1>1, <1>3, <1>4, <1>5

LEMMA AnsweredNone ==
  ASSUME TypeOK, NEW i \in DOMAIN toServer, Answered(i, <<>>)
  PROVE  /\ toServer' \in Seq(Requests)
         /\ Range(toServer) = Range(toServer') \cup {toServer[i]}
         /\ UNCHANGED <<rightful, host, thread, queue, keys, queries, toHost>>
BY ChannelTypes, RemoveElements, ConcatEmptySeq DEF Answered

\* A client sends a request.
LEMMA Sent ==
  ASSUME TypeOK, NEW m \in Requests, toServer' = Append(toServer, m)
  PROVE  toServer' \in Seq(Requests) /\ Range(toServer') = Range(toServer) \cup {m}
BY ChannelTypes, AppendElements

\* The report thread is done with the head of its list.
LEMMA Dealt ==
  ASSUME TypeOK, queue # <<>>, Distinct(queue)
  PROVE  /\ Head(queue) \in Answers /\ Head(queue) \in Range(queue)
         /\ Tail(queue) \in Seq(Answers)
         /\ Range(queue) = Range(Tail(queue)) \cup {Head(queue)}
         /\ Distinct(Tail(queue))
         /\ Head(queue).type = "pass" =>
              \A n \in Range(Tail(queue)) : n.type = "pass" => n.session # Head(queue).session
<1>1. queue \in Seq(Answers)
  BY ChannelTypes
<1>2. /\ Tail(queue) \in Seq(Answers) /\ Head(queue) \in Answers
      /\ Tail(queue) = RemoveAt(queue, 1) /\ Head(queue) = queue[1] /\ 1 \in DOMAIN queue
      /\ Range(queue) = Range(Tail(queue)) \cup {Head(queue)}
  BY <1>1, TailElements
<1>3. /\ Distinct(Tail(queue))
      /\ Head(queue).type = "pass" =>
           \A n \in Range(Tail(queue)) : n.type = "pass" => n.session # Head(queue).session
  BY <1>1, <1>2, DistinctRemove
<1> QED
  BY <1>2, <1>3

-----------------------------------------------------------------------------
(* The server keeps the invariant.                                         *)

\* Nothing of the server touches the report thread, and its asks stay asks.
LEMMA ServerThread ==
  ASSUME ThreadInv, UNCHANGED <<host, thread, queue>>,
         AskAhead(Tail(queue)) => AskAhead(Tail(queue))'
  PROVE  ThreadInv'
BY DEF ThreadInv, Up

LEMMA KeepsAskSecretKey ==
  ASSUME IInv, NEW i \in DOMAIN toServer, AskSecretKey(i)
  PROVE  IInv'
<1>1. /\ Range(toServer) = Range(toServer') \cup {toServer[i]}
      /\ toServer[i].type = "ask" /\ toServer' \in Seq(Requests)
      /\ toHost' = Append(toHost, Ask) /\ toHost' \in Seq(ToHost)
      /\ Range(toHost') = Range(toHost) \cup {Ask}
      /\ UNCHANGED <<rightful, host, thread, queue, keys, queries, row, logged>>
      /\ Ask.type = "ask"
  BY AnsweredOne, MessageTypes DEF AskSecretKey, IInv, server
<1>2. TypeOK'
  BY <1>1 DEF IInv, TypeOK, ToHost
<1>3. Has(toHost, "ask")'
  BY <1>1 DEF Has
<1>4. ThreadInv'
  BY <1>1, <1>3, ServerThread DEF IInv, AskAhead
<1>5. Distinct(toHost)'
  BY <1>1, ChannelTypes, MessageTypes, DistinctAppend DEF IInv, SessionInv
<1>6. SessionInv'
  BY <1>1, <1>5 DEF IInv, SessionInv, PassAnswers, LoginRequests, Grants
<1>7. AgreementInv'
  BY <1>3 DEF AgreementInv, Handshake, AskAhead
<1> QED
  BY <1>2, <1>4, <1>6, <1>7 DEF IInv

LEMMA KeepsPassSecretKey ==
  ASSUME IInv, NEW i \in DOMAIN toServer, PassSecretKey(i)
  PROVE  IInv'
<1> DEFINE p == [type |-> "pass", session |-> row.session + 1]
<1>1. row \in [key : Keys, session : Nat] /\ toServer[i] \in Requests
      /\ toServer[i].type = "pass" /\ toServer[i].key \in Nat
  <2>1. toServer[i] \in Requests
    BY ChannelTypes DEF IInv, Range
  <2> QED
    BY <2>1, MessageTypes DEF IInv, TypeOK, PassSecretKey
<1>2. row' = [key |-> toServer[i].key, session |-> row.session + 1] /\ logged' = logged
  BY DEF PassSecretKey
<1>3. p \in ToHost /\ p.type = "pass" /\ p.session = row.session + 1
  BY <1>1 DEF ToHost, Answers
<1>4. Answered(i, <<p>>)
  BY <1>2 DEF PassSecretKey
<1> HIDE DEF p
<1>5. /\ Range(toServer) = Range(toServer') \cup {toServer[i]} /\ toServer' \in Seq(Requests)
      /\ toHost' = Append(toHost, p) /\ toHost' \in Seq(ToHost)
      /\ Range(toHost') = Range(toHost) \cup {p}
      /\ UNCHANGED <<rightful, host, thread, queue, keys, queries>>
  BY <1>3, <1>4, AnsweredOne DEF IInv
<1>6. TypeOK'
  <2>1. row' \in [key : Keys, session : Nat] /\ logged' \subseteq 1 .. row'.session
    BY <1>1, <1>2 DEF IInv, TypeOK, Keys
  <2> QED
    BY <1>5, <2>1 DEF IInv, TypeOK, ToHost
<1>7. ThreadInv'
  BY <1>1, <1>5, ServerThread DEF IInv, AskAhead, Has
<1>8. \A m \in PassAnswers \cup LoginRequests \cup Grants :
        m.session <= row.session /\ m.session # row.session + 1
  <2>1. ASSUME NEW m \in PassAnswers \cup LoginRequests \cup Grants
        PROVE  m.session \in Nat
    <3>1. \/ m \in Range(toServer) /\ m.type = "login"
          \/ m \in Range(toHost) \cup Range(queue) /\ m.type \in {"pass", "login"}
      BY <2>1 DEF PassAnswers, LoginRequests, Grants
    <3> QED
      BY <3>1, ChannelTypes, MessageTypes DEF IInv
  <2> QED
    BY <1>1, <2>1 DEF IInv, SessionInv
<1>9. Distinct(toHost)'
  BY <1>3, <1>5, <1>8, ChannelTypes, DistinctAppend DEF IInv, SessionInv, PassAnswers
<1>10. SessionInv'
  <2>1. PassAnswers' = PassAnswers \cup {p} /\ Grants' = Grants
    BY <1>3, <1>5 DEF PassAnswers, Grants
  <2>2. LoginRequests' = LoginRequests
    BY <1>1, <1>5 DEF LoginRequests
  <2>3. row'.session = row.session + 1 /\ row'.session > 0
    BY <1>1, <1>2
  <2>4. \A m \in (PassAnswers \cup LoginRequests \cup Grants)' : m.session <= row'.session
    <3>1. ASSUME NEW m \in PassAnswers \cup LoginRequests \cup Grants
          PROVE  m.session <= row.session + 1
      <4>1. \/ m \in Range(toServer) /\ m.type = "login"
            \/ m \in Range(toHost) \cup Range(queue) /\ m.type \in {"pass", "login"}
        BY <3>1 DEF PassAnswers, LoginRequests, Grants
      <4>2. m.session \in Nat
        BY <4>1, ChannelTypes, MessageTypes DEF IInv
      <4> QED
        BY <1>1, <1>8, <3>1, <4>2
    <3> QED
      BY <1>1, <1>3, <2>1, <2>2, <2>3, <3>1
  <2>5. \A q \in PassAnswers' : /\ \A r \in LoginRequests' : r.session # q.session
                                /\ \A g \in Grants' : g.session # q.session
    BY <1>3, <1>8, <2>1, <2>2 DEF IInv, SessionInv
  <2>6. \A m \in Range(toHost'), n \in Range(queue') :
          m.type = "pass" /\ n.type = "pass" => m.session # n.session
    <3>1. \A n \in Range(queue) : n.type = "pass" => n.session # p.session
      BY <1>3, <1>8 DEF PassAnswers
    <3> QED
      BY <1>5, <3>1 DEF IInv, SessionInv
  <2> QED
    BY <1>5, <1>9, <2>3, <2>4, <2>5, <2>6 DEF IInv, SessionInv
<1>11. Has(toHost, "pass")'
  BY <1>3, <1>5 DEF Has
<1>12. AgreementInv'
  BY <1>11 DEF AgreementInv, Handshake
<1> QED
  BY <1>6, <1>7, <1>10, <1>12 DEF IInv

LEMMA KeepsLogin ==
  ASSUME IInv, NEW i \in DOMAIN toServer, Login(i)
  PROVE  IInv'
<1> DEFINE m == toServer[i]
           ok == rightful /\ m.key = row.key /\ m.session = row.session
           a == [type |-> "login", session |-> row.session, ok |-> ok]
<1>1. /\ m \in Requests /\ m \in Range(toServer) /\ m.type = "login"
      /\ m.key \in Nat /\ m.session \in Nat
      /\ row \in [key : Keys, session : Nat]
  <2>1. m \in Requests /\ m \in Range(toServer)
    BY ChannelTypes DEF IInv, Range
  <2> QED
    BY <2>1, MessageTypes DEF IInv, TypeOK, Login
<1>2. ok \in BOOLEAN
  OBVIOUS
<1>3. row' = row /\ logged' = IF ok THEN logged \cup {m.session} ELSE logged
  BY DEF Login
<1>4. Answered(i, <<a>>)
  BY DEF Login
<1> HIDE DEF ok
<1>5. a \in ToHost /\ a.type = "login" /\ a.session = row.session /\ a.ok = ok
  BY <1>1, <1>2 DEF ToHost, Answers
<1> HIDE DEF a, m
<1>6. /\ Range(toServer) = Range(toServer') \cup {m} /\ toServer' \in Seq(Requests)
      /\ toHost' = Append(toHost, a) /\ toHost' \in Seq(ToHost)
      /\ Range(toHost') = Range(toHost) \cup {a}
      /\ UNCHANGED <<rightful, host, thread, queue, keys, queries>>
  BY <1>4, <1>5, AnsweredOne DEF IInv, m
<1>7. ok => m.session = row.session /\ m.key = row.key /\ row.session > 0
  <2>1. ok => m.session = row.session /\ m.key = row.key
    BY DEF ok
  <2> QED
    BY <1>1, <2>1, LoginAssumption DEF IInv, SessionInv
<1>8. TypeOK'
  <2>1. logged' \subseteq 1 .. row'.session
    <3>1. logged \subseteq 1 .. row.session
      BY DEF IInv, TypeOK
    <3>2. ok => m.session \in 1 .. row.session
      BY <1>1, <1>7
    <3> QED
      BY <1>3, <3>1, <3>2
  <2> QED
    BY <1>3, <1>6, <2>1 DEF IInv, TypeOK, ToHost
<1>9. ThreadInv'
  BY <1>1, <1>6, ServerThread DEF IInv, AskAhead, Has
<1>10. /\ PassAnswers' = PassAnswers
       /\ LoginRequests' \subseteq LoginRequests
       /\ Grants' \subseteq Grants \cup {a}
       /\ a \in Grants' => ok
       /\ m \in LoginRequests
  BY <1>1, <1>5, <1>6 DEF PassAnswers, LoginRequests, Grants
<1>11. SessionInv'
  <2>1. Distinct(toHost)'
    BY <1>5, <1>6, ChannelTypes, DistinctAppend DEF IInv, SessionInv
  <2>2. \A x \in (PassAnswers \cup LoginRequests \cup Grants)' : x.session <= row'.session
    BY <1>1, <1>3, <1>5, <1>10 DEF IInv, SessionInv
  <2>3. \A p \in PassAnswers' : /\ \A r \in LoginRequests' : r.session # p.session
                                /\ \A g \in Grants' : g.session # p.session
    BY <1>5, <1>7, <1>10 DEF IInv, SessionInv
  <2>4. \A x \in Range(toHost'), n \in Range(queue') :
          x.type = "pass" /\ n.type = "pass" => x.session # n.session
    BY <1>5, <1>6 DEF IInv, SessionInv
  <2> QED
    BY <1>3, <1>6, <2>1, <2>2, <2>3, <2>4 DEF IInv, SessionInv
<1>12. AgreementInv'
  <2> SUFFICES ASSUME Up', ~Handshake'
               PROVE  /\ \A r \in LoginRequests' : r.session = host'.session => r.key = host'.aes
                      /\ \A g \in Grants' : g.session = host'.session => Agreed'
                      /\ ~LoginAhead' => Agreed'
    BY DEF AgreementInv
  <2>1. Up /\ ~Handshake
    BY <1>1, <1>6 DEF Up, Handshake, AskAhead, Has
  <2>2. Agreed => Agreed'
    BY <1>3, <1>6 DEF Agreed
  <2>3. ok /\ row.session = host.session => Agreed'
    <3>1. m.session = host.session => m.key = host.aes
      BY <1>10, <2>1 DEF IInv, AgreementInv
    <3> QED
      BY <1>3, <1>6, <1>7, <3>1 DEF Agreed
  <2>4. LoginAhead'
    BY <1>5, <1>6 DEF LoginAhead, Has
  <2>5. ASSUME NEW g \in Grants', g.session = host'.session
        PROVE  Agreed'
    <3>1. CASE g = a
      BY <1>5, <1>6, <1>10, <2>3, <2>5, <3>1
    <3>2. CASE g # a
      BY <1>6, <1>10, <2>1, <2>2, <2>5, <3>2 DEF IInv, AgreementInv
    <3> QED
      BY <3>1, <3>2
  <2> QED
    BY <1>6, <1>10, <2>1, <2>4, <2>5 DEF IInv, AgreementInv
<1> QED
  BY <1>8, <1>9, <1>11, <1>12 DEF IInv

LEMMA KeepsUpdateQuery ==
  ASSUME IInv, NEW i \in DOMAIN toServer, UpdateQuery(i)
  PROVE  IInv'
<1> DEFINE a == [type |-> "noLogin"]
<1>1. /\ toServer[i].type = "query" /\ row' = row /\ logged' = logged
      /\ Answered(i, <<>>) \/ Answered(i, <<a>>)
  BY DEF UpdateQuery, server
<1>2. a \in ToHost /\ a.type = "noLogin"
  BY DEF ToHost
<1> HIDE DEF a
<1>3. CASE Answered(i, <<a>>)
  <2>1. /\ Range(toServer) = Range(toServer') \cup {toServer[i]} /\ toServer' \in Seq(Requests)
        /\ toHost' = Append(toHost, a) /\ toHost' \in Seq(ToHost)
        /\ Range(toHost') = Range(toHost) \cup {a}
        /\ UNCHANGED <<rightful, host, thread, queue, keys, queries>>
    BY <1>2, <1>3, AnsweredOne DEF IInv
  <2>2. TypeOK'
    BY <1>1, <2>1 DEF IInv, TypeOK, ToHost
  <2>3. ThreadInv'
    BY <1>1, <2>1, ServerThread DEF IInv, AskAhead, Has
  <2>4. Distinct(toHost)'
    BY <1>2, <2>1, ChannelTypes, DistinctAppend DEF IInv, SessionInv
  <2>5. SessionInv'
    BY <1>1, <1>2, <2>1, <2>4 DEF IInv, SessionInv, PassAnswers, LoginRequests, Grants
  <2>6. Has(toHost, "noLogin")'
    BY <1>2, <2>1 DEF Has
  <2> QED
    BY <2>2, <2>3, <2>5, <2>6 DEF IInv, AgreementInv, Handshake, AskAhead
<1>4. CASE Answered(i, <<>>)
  <2>1. /\ Range(toServer) = Range(toServer') \cup {toServer[i]} /\ toServer' \in Seq(Requests)
        /\ UNCHANGED <<rightful, host, thread, queue, keys, queries, toHost>>
    BY <1>4, AnsweredNone DEF IInv
  <2>2. TypeOK'
    BY <1>1, <2>1 DEF IInv, TypeOK
  <2>3. ThreadInv'
    BY <1>1, <2>1, ServerThread DEF IInv, AskAhead, Has
  <2>4. LoginRequests' = LoginRequests /\ PassAnswers' = PassAnswers /\ Grants' = Grants
    BY <1>1, <2>1 DEF PassAnswers, LoginRequests, Grants
  <2>5. SessionInv'
    BY <1>1, <2>1, <2>4 DEF IInv, SessionInv, Distinct
  <2>6. (Handshake <=> Handshake') /\ (LoginAhead <=> LoginAhead') /\ (Agreed <=> Agreed')
    BY <1>1, <2>1 DEF Handshake, LoginAhead, AskAhead, Has, Agreed
  <2> QED
    BY <2>1, <2>2, <2>3, <2>4, <2>5, <2>6 DEF IInv, AgreementInv, Up
<1> QED
  BY <1>1, <1>3, <1>4

-----------------------------------------------------------------------------
(* The worker thread of the host keeps the invariant.                      *)

LEMMA KeepsQueue ==
  ASSUME IInv, NEW i \in DOMAIN toHost, Queue(i)
  PROVE  IInv'
<1> DEFINE m == toHost[i]
<1>1. /\ Up /\ m.type # "noLogin" /\ queue' = Append(queue, m)
      /\ toHost' = RemoveAt(toHost, i)
      /\ UNCHANGED <<rightful, host, thread, toServer, row, logged, keys, queries>>
  BY DEF Queue, server
<1>2. toHost \in Seq(ToHost) /\ queue \in Seq(Answers) /\ Range(queue) \subseteq Answers
  BY ChannelTypes DEF IInv
<1>3. /\ toHost' \in Seq(ToHost) /\ m \in ToHost
      /\ Range(toHost) = Range(toHost') \cup {m}
  BY <1>1, <1>2, RemoveElements
<1>4. m \in Answers
  BY <1>1, <1>3, MessageTypes
<1> HIDE DEF m
<1>5. queue' \in Seq(Answers) /\ Range(queue') = Range(queue) \cup {m}
  <2>1. /\ Append(queue, m) \in Seq(Answers)
        /\ Range(Append(queue, m)) = Range(queue) \cup {m}
    BY <1>2, <1>4, AppendElements
  <2> QED
    BY <1>1, <2>1
<1>6. /\ Distinct(toHost)'
      /\ m.type = "pass" => \A n \in Range(toHost') : n.type = "pass" => n.session # m.session
  BY <1>1, <1>2, DistinctRemove DEF IInv, SessionInv, m
<1>7. TypeOK'
  BY <1>1, <1>3, <1>5 DEF IInv, TypeOK, ToHost
<1>8. ThreadInv'
  <2>1. queue # <<>> => /\ queue' # <<>> /\ Head(queue') = Head(queue)
                        /\ Tail(queue') = Append(Tail(queue), m)
    BY <1>1, <1>2, <1>4
  <2>2. queue # <<>> /\ AskAhead(Tail(queue)) => AskAhead(Tail(queue))'
    <3>1. SUFFICES ASSUME queue # <<>>, AskAhead(Tail(queue))
                   PROVE  AskAhead(Tail(queue))'
      OBVIOUS
    <3>2. Tail(queue) \in Seq(Answers)
      BY <1>2, <3>1, TailElements
    <3>3. \A c \in Seq(Answers) : Range(Append(c, m)) = Range(c) \cup {m}
      BY <1>4, AppendElements
    <3>4. Range(Append(Tail(queue), m)) = Range(Tail(queue)) \cup {m}
      BY <3>2, <3>3
    <3> QED
      BY <1>1, <1>3, <2>1, <3>1, <3>4 DEF AskAhead, Has
  <2> QED
    BY <1>1, <2>1, <2>2 DEF IInv, ThreadInv, Up
<1>9. PassAnswers' = PassAnswers /\ LoginRequests' = LoginRequests /\ Grants' = Grants
  BY <1>1, <1>3, <1>5 DEF PassAnswers, LoginRequests, Grants
<1>10. SessionInv'
  <2>1. m \in Range(toHost)
    BY <1>3
  <2>2. m.type = "pass" => \A n \in Range(queue) : n.type = "pass" => n.session # m.session
    BY <2>1 DEF IInv, SessionInv
  <2>3. Distinct(queue)'
    BY <1>1, <1>2, <1>4, <2>2, DistinctAppend DEF IInv, SessionInv
  <2>4. \A x \in Range(toHost'), n \in Range(queue') :
          x.type = "pass" /\ n.type = "pass" => x.session # n.session
    BY <1>3, <1>5, <1>6 DEF IInv, SessionInv
  <2> QED
    BY <1>1, <1>6, <1>9, <2>3, <2>4 DEF IInv, SessionInv
<1>11. AgreementInv'
  <2>1. (Handshake => Handshake') /\ (LoginAhead => LoginAhead') /\ (Agreed <=> Agreed')
    BY <1>1, <1>3, <1>5 DEF Handshake, LoginAhead, AskAhead, Has, Agreed
  <2> QED
    BY <1>1, <1>9, <2>1 DEF IInv, AgreementInv, Up
<1> QED
  BY <1>7, <1>8, <1>10, <1>11 DEF IInv

\* A step that leaves an ASK_SECRET_KEY under way keeps AgreementInv.
LEMMA Asked ==
  ASSUME TypeOK, toServer' = Append(toServer, Ask)
  PROVE  /\ toServer' \in Seq(Requests) /\ Range(toServer') = Range(toServer) \cup {Ask}
         /\ Has(toServer, "ask")' /\ LoginRequests' = LoginRequests /\ AgreementInv'
<1>1. toServer' \in Seq(Requests) /\ Range(toServer') = Range(toServer) \cup {Ask}
      /\ Ask.type = "ask"
  BY Sent, MessageTypes
<1>2. Has(toServer, "ask")'
  BY <1>1 DEF Has
<1> QED
  BY <1>1, <1>2 DEF LoginRequests, AgreementInv, Handshake, AskAhead

LEMMA KeepsNoLogin ==
  ASSUME IInv, NEW i \in DOMAIN toHost, NoLogin(i)
  PROVE  IInv'
<1> DEFINE m == toHost[i]
<1>1. /\ Up /\ m.type = "noLogin" /\ toHost' = RemoveAt(toHost, i)
      /\ host' = [WithoutKeys(host) EXCEPT !.session = 0]
      /\ UNCHANGED <<rightful, thread, queue, row, logged, keys, queries>>
  BY DEF NoLogin, server
<1>2. /\ toServer' \in Seq(Requests) /\ Has(toServer, "ask")'
      /\ LoginRequests' = LoginRequests /\ AgreementInv'
  BY Asked DEF NoLogin, IInv
<1>3. toHost' \in Seq(ToHost) /\ Range(toHost) = Range(toHost') \cup {m}
  BY <1>1, ChannelTypes, RemoveElements DEF IInv
<1>4. Distinct(toHost)'
  BY <1>1, ChannelTypes, DistinctRemove DEF IInv, SessionInv
<1> HIDE DEF m
<1>5. host' \in [aes : Keys, rsa : BOOLEAN, session : Nat, relogins : 0..4,
                 state : {"up", "stopped", "crashed"}]
      /\ host'.aes = None
  BY <1>1 DEF IInv, TypeOK, WithoutKeys, Keys
<1>6. TypeOK'
  BY <1>1, <1>2, <1>3, <1>5 DEF IInv, TypeOK, ToHost
<1>7. ThreadInv'
  BY <1>1, <1>2, <1>5 DEF IInv, ThreadInv, AskAhead
<1>8. PassAnswers' = PassAnswers /\ Grants' = Grants
  BY <1>1, <1>3 DEF PassAnswers, Grants
<1>9. SessionInv'
  BY <1>1, <1>2, <1>3, <1>4, <1>8 DEF IInv, SessionInv
<1> QED
  BY <1>2, <1>6, <1>7, <1>9 DEF IInv

-----------------------------------------------------------------------------
(* The report thread keeps the invariant.                                  *)

LEMMA DealingFacts ==
  ASSUME IInv, NEW type, Dealing(type)
  PROVE  /\ Up /\ queue # <<>> /\ Head(queue).type = type
         /\ UNCHANGED <<rightful, toHost, row, logged, queries>>
         /\ Head(queue) \in Answers /\ Head(queue) \in Range(queue)
         /\ Tail(queue) \in Seq(Answers)
         /\ Range(queue) = Range(Tail(queue)) \cup {Head(queue)}
         /\ Distinct(Tail(queue))
         /\ Head(queue).type = "pass" =>
              \A n \in Range(Tail(queue)) : n.type = "pass" => n.session # Head(queue).session
BY Dealt DEF Dealing, server, IInv, SessionInv

\* The report thread leaves SessionInv when it only takes from its list.
LEMMA DealtSessions ==
  ASSUME IInv, NEW type, Dealing(type), queue' = queue \/ queue' = Tail(queue),
         LoginRequests' = LoginRequests
  PROVE  SessionInv' /\ PassAnswers' \subseteq PassAnswers /\ Grants' \subseteq Grants
<1>1. /\ UNCHANGED <<row, toHost>> /\ Range(queue') \subseteq Range(queue)
      /\ Distinct(queue')
  BY DealingFacts DEF IInv, SessionInv
<1>2. PassAnswers' \subseteq PassAnswers /\ Grants' \subseteq Grants
  BY <1>1 DEF PassAnswers, Grants
<1> QED
  BY <1>1, <1>2 DEF IInv, SessionInv, Distinct

LEMMA KeepsMakeRsaKey ==
  ASSUME IInv, MakeRsaKey
  PROVE  IInv'
<1>1. /\ Dealing("ask") /\ UNCHANGED <<queue, toServer, keys>>
      /\ host' = [host EXCEPT !.rsa = TRUE] /\ thread' = "rsa"
  BY DEF MakeRsaKey
<1>2. /\ Up /\ queue # <<>> /\ Head(queue).type = "ask" /\ Head(queue) \in Range(queue)
      /\ UNCHANGED <<rightful, toHost, row, logged, queries>>
  BY <1>1, DealingFacts
<1>3. host' \in [aes : Keys, rsa : BOOLEAN, session : Nat, relogins : 0..4,
                 state : {"up", "stopped", "crashed"}] /\ host'.rsa
  BY <1>1 DEF IInv, TypeOK
<1>4. TypeOK'
  BY <1>1, <1>2, <1>3 DEF IInv, TypeOK
<1>5. ThreadInv'
  BY <1>1, <1>2, <1>3 DEF IInv, ThreadInv
<1>6. SessionInv'
  BY <1>1, <1>2, DealtSessions DEF LoginRequests
<1>7. Has(queue, "ask")'
  BY <1>1, <1>2 DEF Has
<1> QED
  BY <1>4, <1>5, <1>6, <1>7 DEF IInv, AgreementInv, Handshake, AskAhead

LEMMA KeepsMakeAesKey ==
  ASSUME IInv, MakeAesKey
  PROVE  IInv'
<1>1. /\ Dealing("ask") /\ UNCHANGED <<queue, toServer>> /\ thread = "rsa"
      /\ host' = [host EXCEPT !.aes = keys + 1] /\ thread' = "made" /\ keys' = keys + 1
  BY DEF MakeAesKey
<1>2. /\ Up /\ queue # <<>> /\ Head(queue).type = "ask" /\ Head(queue) \in Range(queue)
      /\ UNCHANGED <<rightful, toHost, row, logged, queries>>
  BY <1>1, DealingFacts
<1>3. keys + 1 \in Nat /\ keys + 1 # None
  BY LoginAssumption DEF IInv, TypeOK
<1>4. host' \in [aes : Keys, rsa : BOOLEAN, session : Nat, relogins : 0..4,
                 state : {"up", "stopped", "crashed"}]
      /\ host'.aes # None /\ host'.rsa = host.rsa
  BY <1>1, <1>3 DEF IInv, TypeOK, Keys
<1>5. TypeOK'
  BY <1>1, <1>2, <1>3, <1>4 DEF IInv, TypeOK
<1>6. ThreadInv'
  BY <1>1, <1>2, <1>4 DEF IInv, ThreadInv, AskAhead, Has
<1>7. SessionInv'
  BY <1>1, <1>2, DealtSessions DEF LoginRequests
<1>8. Has(queue, "ask")'
  BY <1>1, <1>2 DEF Has
<1> QED
  BY <1>5, <1>6, <1>7, <1>8 DEF IInv, AgreementInv, Handshake, AskAhead

LEMMA KeepsPassKey ==
  ASSUME IInv, PassKey
  PROVE  IInv'
<1>1. Dealing("ask") /\ thread = "made" /\ thread' = "idle" /\ queue' = Tail(queue)
      /\ keys' = keys
  BY DEF PassKey
<1>2. /\ Up /\ queue # <<>> /\ Head(queue).type = "ask" /\ queue' \in Seq(Answers)
      /\ Range(queue) = Range(queue') \cup {Head(queue)}
      /\ UNCHANGED <<rightful, toHost, row, logged, queries>>
  BY <1>1, DealingFacts
<1>3. CASE host.aes = None \/ ~host.rsa
  <2>1. toServer' = toServer /\ host' \in {host, [host EXCEPT !.state = "crashed"]}
    BY <1>3 DEF PassKey
  <2>2. host' \in [aes : Keys, rsa : BOOLEAN, session : Nat, relogins : 0..4,
                   state : {"up", "stopped", "crashed"}]
    BY <2>1 DEF IInv, TypeOK
  <2>3. TypeOK'
    BY <1>1, <1>2, <2>1, <2>2 DEF IInv, TypeOK
  <2>4. ThreadInv'
    BY <1>1 DEF ThreadInv
  <2>5. SessionInv'
    BY <1>1, <2>1, DealtSessions DEF LoginRequests
  <2>6. AskAhead(queue)'
    <3>1. AskAhead(Tail(queue))
      BY <1>1, <1>2, <1>3 DEF IInv, ThreadInv
    <3> QED
      BY <1>1, <1>2, <2>1, <3>1 DEF AskAhead, Has
  <2> QED
    BY <2>3, <2>4, <2>5, <2>6 DEF IInv, AgreementInv, Handshake
<1>4. CASE ~(host.aes = None \/ ~host.rsa)
  <2> DEFINE p == [type |-> "pass", key |-> host.aes]
  <2>1. toServer' = Append(toServer, p) /\ host' = host
    BY <1>4 DEF PassKey
  <2>2. p \in Requests /\ p.type = "pass"
    BY <1>4 DEF IInv, TypeOK, Keys, Requests
  <2> HIDE DEF p
  <2>3. toServer' \in Seq(Requests) /\ Range(toServer') = Range(toServer) \cup {p}
    BY <2>1, <2>2, Sent DEF IInv
  <2>4. TypeOK'
    BY <1>1, <1>2, <2>1, <2>3 DEF IInv, TypeOK
  <2>5. ThreadInv'
    BY <1>1 DEF ThreadInv
  <2>6. SessionInv'
    BY <1>1, <2>2, <2>3, DealtSessions DEF LoginRequests
  <2>7. Has(toServer, "pass")'
    BY <2>2, <2>3 DEF Has
  <2> QED
    BY <2>4, <2>5, <2>6, <2>7 DEF IInv, AgreementInv, Handshake
<1> QED
  BY <1>3, <1>4

LEMMA KeepsSaveSession ==
  ASSUME IInv, SaveSession
  PROVE  IInv'
<1>1. /\ Dealing("pass") /\ UNCHANGED <<queue, toServer, keys>>
      /\ host' = [host EXCEPT !.session = Head(queue).session] /\ thread' = "saved"
  BY DEF SaveSession
<1>2. /\ Up /\ queue # <<>> /\ Head(queue).type = "pass" /\ Head(queue) \in Range(queue)
      /\ Head(queue) \in Answers
      /\ UNCHANGED <<rightful, toHost, row, logged, queries>>
  BY <1>1, DealingFacts
<1>3. host' \in [aes : Keys, rsa : BOOLEAN, session : Nat, relogins : 0..4,
                 state : {"up", "stopped", "crashed"}]
      /\ host'.session = Head(queue).session
  BY <1>1, <1>2, MessageTypes DEF IInv, TypeOK
<1>4. TypeOK'
  BY <1>1, <1>2, <1>3 DEF IInv, TypeOK
<1>5. ThreadInv'
  BY <1>1, <1>2, <1>3 DEF ThreadInv
<1>6. SessionInv'
  BY <1>1, <1>2, DealtSessions DEF LoginRequests
<1>7. Has(queue, "pass")'
  BY <1>1, <1>2 DEF Has
<1> QED
  BY <1>4, <1>5, <1>6, <1>7 DEF IInv, AgreementInv, Handshake

LEMMA KeepsLoginAction ==
  ASSUME IInv, LoginAction
  PROVE  IInv'
<1> DEFINE h == Head(queue)
           r == [type |-> "login", key |-> host.aes, session |-> host.session]
<1>1. Dealing("pass") /\ thread = "saved" /\ thread' = "idle" /\ queue' = Tail(queue)
      /\ keys' = keys
  BY DEF LoginAction
<1>2. /\ Up /\ queue # <<>> /\ h.type = "pass" /\ h \in Answers /\ h \in Range(queue)
      /\ queue' \in Seq(Answers) /\ Range(queue) = Range(queue') \cup {h}
      /\ Distinct(queue')
      /\ \A n \in Range(queue') : n.type = "pass" => n.session # h.session
      /\ UNCHANGED <<rightful, toHost, row, logged, queries>>
  BY <1>1, DealingFacts
<1>3. h.session \in Nat
  BY <1>2, MessageTypes
<1>4. host.aes = None \/ host.session = h.session
  BY <1>1 DEF IInv, ThreadInv
<1> HIDE DEF h
<1>5. ThreadInv'
  BY <1>1 DEF ThreadInv
<1>6. CASE host.aes = None
  <2>1. toServer' = toServer /\ host' = [host EXCEPT !.state = "crashed"]
    BY <1>6 DEF LoginAction
  <2>2. host' \in [aes : Keys, rsa : BOOLEAN, session : Nat, relogins : 0..4,
                   state : {"up", "stopped", "crashed"}] /\ host'.state = "crashed"
    BY <2>1 DEF IInv, TypeOK
  <2>3. TypeOK'
    BY <1>1, <1>2, <2>1, <2>2 DEF IInv, TypeOK
  <2>4. SessionInv'
    BY <1>1, <2>1, DealtSessions DEF LoginRequests
  <2>5. AgreementInv'
    BY <2>2 DEF AgreementInv, Up
  <2> QED
    BY <1>5, <2>3, <2>4, <2>5 DEF IInv
<1>7. CASE host.aes # None
  <2>1. toServer' = Append(toServer, r) /\ host' = host /\ host.session = h.session
    BY <1>4, <1>7 DEF LoginAction
  <2>2. r \in Requests /\ r.type = "login" /\ r.session = host.session /\ r.key = host.aes
    BY <1>7 DEF IInv, TypeOK, Keys, Requests
  <2> HIDE DEF r
  <2>3. toServer' \in Seq(Requests) /\ Range(toServer') = Range(toServer) \cup {r}
    BY <2>1, <2>2, Sent DEF IInv
  <2>4. TypeOK'
    BY <1>1, <1>2, <2>1, <2>3 DEF IInv, TypeOK
  <2>5. /\ LoginRequests' = LoginRequests \cup {r}
        /\ PassAnswers' \subseteq PassAnswers /\ Grants' \subseteq Grants
        /\ h \in PassAnswers
    BY <1>2, <2>2, <2>3 DEF LoginRequests, PassAnswers, Grants
  <2>6. \A p \in PassAnswers' : p.session # h.session
    <3>1. \A n \in Range(toHost) : n.type = "pass" => n.session # h.session
      BY <1>2 DEF IInv, SessionInv
    <3> QED
      BY <1>2, <3>1 DEF PassAnswers
  <2>7. SessionInv'
    <3>1. h.session <= row.session
      BY <2>5 DEF IInv, SessionInv
    <3>2. \A m \in (PassAnswers \cup LoginRequests \cup Grants)' : m.session <= row'.session
      BY <1>2, <2>1, <2>2, <2>5, <3>1 DEF IInv, SessionInv
    <3>3. \A p \in PassAnswers' : /\ \A q \in LoginRequests' : q.session # p.session
                                  /\ \A g \in Grants' : g.session # p.session
      BY <2>1, <2>2, <2>5, <2>6 DEF IInv, SessionInv
    <3>4. \A m \in Range(toHost'), n \in Range(queue') :
            m.type = "pass" /\ n.type = "pass" => m.session # n.session
      BY <1>2 DEF IInv, SessionInv
    <3> QED
      BY <1>2, <3>2, <3>3, <3>4 DEF IInv, SessionInv, Distinct
  <2>8. AgreementInv'
    <3>1. LoginAhead'
      BY <2>2, <2>3 DEF LoginAhead, Has
    <3>2. /\ \A q \in LoginRequests : q.session # host.session
          /\ \A g \in Grants : g.session # host.session
      BY <2>1, <2>5 DEF IInv, SessionInv
    <3> QED
      BY <2>1, <2>2, <2>5, <3>1, <3>2 DEF AgreementInv
  <2> QED
    BY <1>5, <2>4, <2>7, <2>8 DEF IInv
<1> QED
  BY <1>6, <1>7

LEMMA KeepsLoginHandle ==
  ASSUME IInv, LoginHandle
  PROVE  IInv'
<1> DEFINE m == Head(queue)
           q == [type |-> "query", session |-> host.session]
<1>1. Dealing("login") /\ thread = "idle" /\ thread' = "idle" /\ queue' = Tail(queue)
      /\ keys' = keys
  BY DEF LoginHandle
<1>2. /\ Up /\ queue # <<>> /\ m.type = "login" /\ m \in Answers /\ m \in Range(queue)
      /\ queue' \in Seq(Answers) /\ Range(queue) = Range(queue') \cup {m}
      /\ UNCHANGED <<rightful, toHost, row, logged, queries>>
  BY <1>1, DealingFacts
<1>3. ThreadInv'
  BY <1>1 DEF ThreadInv
<1>4. host \in [aes : Keys, rsa : BOOLEAN, session : Nat, relogins : 0..4,
                state : {"up", "stopped", "crashed"}]
  BY DEF IInv, TypeOK
<1> DEFINE w == WithoutKeys(host)
<1>5. w \in [aes : Keys, rsa : BOOLEAN, session : Nat, relogins : 0..4,
               state : {"up", "stopped", "crashed"}] /\ w.relogins = host.relogins
  BY <1>4 DEF WithoutKeys, Keys
\* The host is stopped.
<1>6. ASSUME toServer' = toServer,
             host' \in [aes : Keys, rsa : BOOLEAN, session : Nat, relogins : 0..4,
                        state : {"stopped"}]
      PROVE  IInv'
  <2>1. TypeOK'
    BY <1>1, <1>2, <1>6 DEF IInv, TypeOK
  <2>2. SessionInv'
    BY <1>1, <1>6, DealtSessions DEF LoginRequests
  <2>3. AgreementInv'
    BY <1>6 DEF AgreementInv, Up
  <2> QED
    BY <1>3, <2>1, <2>2, <2>3 DEF IInv
<1>7. CASE m.session # host.session
  <2>1. toServer' = toServer /\ host' = [host EXCEPT !.state = "stopped"]
    BY <1>7 DEF LoginHandle
  <2> QED
    BY <1>4, <1>6, <2>1
<1>8. CASE m.session = host.session /\ m.ok
  <2>1. toServer' = Append(toServer, q) /\ host' = [host EXCEPT !.relogins = 0]
    BY <1>8 DEF LoginHandle
  <2>2. q \in Requests /\ q.type = "query"
    BY <1>4 DEF Requests
  <2> HIDE DEF q
  <2>3. toServer' \in Seq(Requests) /\ Range(toServer') = Range(toServer) \cup {q}
    BY <2>1, <2>2, Sent DEF IInv
  <2>4. /\ host' \in [aes : Keys, rsa : BOOLEAN, session : Nat, relogins : 0..4,
                      state : {"up", "stopped", "crashed"}]
        /\ host'.aes = host.aes /\ host'.session = host.session
    BY <1>4, <2>1
  <2>5. TypeOK'
    BY <1>1, <1>2, <2>3, <2>4 DEF IInv, TypeOK
  <2>6. LoginRequests' = LoginRequests
    BY <2>2, <2>3 DEF LoginRequests
  <2>7. SessionInv' /\ Grants' \subseteq Grants
    BY <1>1, <2>6, DealtSessions
  <2>8. Handshake => Handshake'
    BY <1>2, <2>3 DEF Handshake, AskAhead, Has
  <2>9. ~Handshake => Agreed
    <3>1. m \in Grants
      BY <1>2, <1>8 DEF Grants
    <3> QED
      BY <1>2, <1>8, <3>1 DEF IInv, AgreementInv
  <2>10. Agreed => Agreed'
    BY <1>2, <2>4 DEF Agreed
  <2>11. AgreementInv'
    BY <1>2, <2>4, <2>6, <2>7, <2>8, <2>9, <2>10 DEF IInv, AgreementInv
  <2> QED
    BY <1>3, <2>5, <2>7, <2>11 DEF IInv
<1>9. CASE m.session = host.session /\ ~m.ok /\ host.relogins > 3
  <2>1. /\ toServer' = toServer
        /\ host' = [WithoutKeys(host) EXCEPT !.relogins = 0, !.state = "stopped"]
    BY <1>9 DEF LoginHandle
  <2>2. host' \in [aes : Keys, rsa : BOOLEAN, session : Nat, relogins : 0..4,
                   state : {"stopped"}]
    <3> DEFINE v == [w EXCEPT !.relogins = 0]
    <3>1. host' = [v EXCEPT !.state = "stopped"]
      BY <2>1
    <3> HIDE DEF w
    <3>2. v \in [aes : Keys, rsa : BOOLEAN, session : Nat, relogins : 0..4,
                 state : {"up", "stopped", "crashed"}]
      BY <1>5
    <3> HIDE DEF v
    <3> QED
      BY <3>1, <3>2
  <2> QED
    BY <1>6, <2>1, <2>2
<1>10. CASE m.session = host.session /\ ~m.ok /\ ~(host.relogins > 3)
  <2>1. /\ toServer' = Append(toServer, Ask)
        /\ host' = [WithoutKeys(host) EXCEPT !.relogins = @ + 1]
    BY <1>10 DEF LoginHandle
  <2>2. host' \in [aes : Keys, rsa : BOOLEAN, session : Nat, relogins : 0..4,
                   state : {"up", "stopped", "crashed"}]
    <3> HIDE DEF w
    <3>1. host' = [w EXCEPT !.relogins = @ + 1]
      BY <2>1 DEF w
    <3>2. w.relogins \in 0..3
      BY <1>4, <1>10, <1>5
    <3> QED
      BY <1>5, <3>1, <3>2
  <2>3. toServer' \in Seq(Requests) /\ LoginRequests' = LoginRequests /\ AgreementInv'
    BY <2>1, Asked DEF IInv
  <2>4. TypeOK'
    BY <1>1, <1>2, <2>2, <2>3 DEF IInv, TypeOK
  <2>5. SessionInv'
    BY <1>1, <2>3, DealtSessions
  <2> QED
    BY <1>3, <2>3, <2>4, <2>5 DEF IInv
<1> QED
  BY <1>7, <1>8, <1>9, <1>10

LEMMA KeepsWebUpdate ==
  ASSUME IInv, WebUpdate
  PROVE  IInv'
<1> DEFINE q == [type |-> "query", session |-> host.session]
<1>1. /\ toServer' = Append(toServer, q)
      /\ queries < MaxQueries /\ queries' = queries + 1
      /\ UNCHANGED <<rightful, host, thread, queue, toHost, row, logged, keys>>
  BY DEF WebUpdate, server
<1>2. q \in Requests /\ q.type = "query"
  BY DEF IInv, TypeOK, Requests
<1> HIDE DEF q
<1>3. toServer' \in Seq(Requests) /\ Range(toServer') = Range(toServer) \cup {q}
  BY <1>1, <1>2, Sent DEF IInv
<1>4. TypeOK'
  BY <1>1, <1>3, LoginAssumption DEF IInv, TypeOK
<1>5. ThreadInv'
  BY <1>1, <1>3, ServerThread DEF IInv, AskAhead, Has
<1>6. LoginRequests' = LoginRequests /\ PassAnswers' = PassAnswers /\ Grants' = Grants
  BY <1>1, <1>2, <1>3 DEF LoginRequests, PassAnswers, Grants
<1>7. SessionInv'
  BY <1>1, <1>6 DEF IInv, SessionInv, Distinct
<1>8. (Handshake => Handshake') /\ (LoginAhead => LoginAhead') /\ (Agreed => Agreed')
  BY <1>1, <1>3 DEF Handshake, LoginAhead, AskAhead, Has, Agreed
<1>9. AgreementInv'
  BY <1>1, <1>6, <1>8 DEF IInv, AgreementInv, Up
<1> QED
  BY <1>4, <1>5, <1>7, <1>9 DEF IInv

-----------------------------------------------------------------------------
(* The invariant.                                                          *)

LEMMA InitIInv == Init => IInv
<1> SUFFICES ASSUME Init PROVE IInv
  OBVIOUS
<1>1. /\ toServer = <<Ask>> /\ toHost = <<>> /\ queue = <<>> /\ Ask.type = "ask"
      /\ toServer \in Seq(Requests) /\ Ask \in Requests
  BY MessageTypes DEF Init, Ask
<1>2. Range(toServer) = {Ask} /\ Range(toHost) = {} /\ Range(queue) = {}
  BY <1>1 DEF Range
<1>3. TypeOK
  BY <1>1, LoginAssumption DEF Init, TypeOK, Keys
<1>4. ThreadInv
  BY DEF Init, ThreadInv
<1>5. LoginRequests = {} /\ PassAnswers = {} /\ Grants = {}
  BY <1>1, <1>2 DEF LoginRequests, PassAnswers, Grants
<1>6. SessionInv
  BY <1>1, <1>2, <1>5 DEF Init, SessionInv, Distinct
<1>7. Has(toServer, "ask")
  BY <1>1, <1>2 DEF Has
<1> QED
  BY <1>3, <1>4, <1>6, <1>7 DEF IInv, AgreementInv, Handshake, AskAhead

LEMMA NextIInv == IInv /\ [Next]_vars => IInv'
<1> SUFFICES ASSUME IInv, [Next]_vars PROVE IInv'
  OBVIOUS
<1>1. CASE Server
  <2>1. PICK i \in DOMAIN toServer :
          AskSecretKey(i) \/ PassSecretKey(i) \/ Login(i) \/ UpdateQuery(i)
    BY <1>1 DEF Server, Arriving
  <2> QED
    BY <2>1, KeepsAskSecretKey, KeepsPassSecretKey, KeepsLogin, KeepsUpdateQuery
<1>2. CASE Worker
  <2>1. PICK i \in DOMAIN toHost : Queue(i) \/ NoLogin(i)
    BY <1>2 DEF Worker, Arriving
  <2> QED
    BY <2>1, KeepsQueue, KeepsNoLogin
<1>3. CASE Report
  BY <1>3, KeepsMakeRsaKey, KeepsMakeAesKey, KeepsPassKey, KeepsSaveSession,
     KeepsLoginAction, KeepsLoginHandle DEF Report
<1>4. CASE WebUpdate
  BY <1>4, KeepsWebUpdate
<1>5. CASE UNCHANGED vars
  <2>1. UNCHANGED <<rightful, host, thread, queue, toServer, toHost, row, logged, keys, queries>>
    BY <1>5 DEF vars, net, server
  <2>2. TypeOK'
    BY <2>1 DEF IInv, TypeOK
  <2>3. ThreadInv'
    BY <2>1, ServerThread DEF IInv, AskAhead, Has
  <2>4. LoginRequests' = LoginRequests /\ PassAnswers' = PassAnswers /\ Grants' = Grants
    BY <2>1 DEF LoginRequests, PassAnswers, Grants
  <2>5. SessionInv'
    BY <2>1, <2>4 DEF IInv, SessionInv, Distinct
  <2>6. (Handshake => Handshake') /\ (LoginAhead => LoginAhead') /\ (Agreed => Agreed')
    BY <2>1 DEF Handshake, LoginAhead, AskAhead, Has, Agreed
  <2>7. AgreementInv'
    BY <2>1, <2>4, <2>6 DEF IInv, AgreementInv, Up
  <2> QED
    BY <2>2, <2>3, <2>5, <2>7 DEF IInv
<1> QED
  BY <1>1, <1>2, <1>3, <1>4, <1>5 DEF Next

LEMMA SpecIInv == Spec => []IInv
BY InitIInv, NextIInv, PTL DEF Spec

\* Every variable keeps its type: the relogin_count of login_server_handle never
\* passes 4, and a login is granted for a session that the server gave out only.
THEOREM TypeCorrect == Spec => []TypeOK
<1>1. IInv => TypeOK
  BY DEF IInv
<1> QED
  BY <1>1, SpecIInv, PTL

\* However many handshakes the worker thread starts while the report thread is in
\* the middle of one, and in whatever order their answers arrive: when none is
\* outstanding, a host that runs is logged in with the key and session of its row.
THEOREM QuietHostIsLoggedIn == Spec => []QuietIsAgreed
<1>1. IInv => QuietIsAgreed
  <2> SUFFICES ASSUME IInv, Quiet, Up PROVE Agreed
    BY DEF QuietIsAgreed
  <2>1. Range(toServer) = {} /\ Range(toHost) = {} /\ Range(queue) = {}
    BY DEF Quiet, Range
  <2>2. ~Handshake /\ ~LoginAhead
    BY <2>1 DEF Handshake, LoginAhead, AskAhead, Has
  <2> QED
    BY <2>2 DEF IInv, AgreementInv
<1> QED
  BY <1>1, SpecIInv, PTL
=============================================================================
