----------------------------- MODULE HostLogin -----------------------------
(***************************************************************************)
(* The login of the gateway process tshome-host at the P2P server, over    *)
(* connection 0: operation_server_mgr.c, codec_mgr.c and pjsip_mgr.c of    *)
(* the host, the ASK_SECRET_KEY, PASS_SECRET_KEY, LOGIN and UPDATE_QUERY   *)
(* handlers of tsp_hander.c.                                               *)
(*                                                                         *)
(* The host asks for the server's RSA key, passes an AES key of its own    *)
(* under it, is given a session and logs in with both.  The answers are    *)
(* queued for the report thread, but GE_NO_LOGIN is handled at once, by    *)
(* the worker thread that received it: it destroys the keys and starts     *)
(* another handshake while the first may be under way.  The web thread     *)
(* may send an UPDATE_QUERY whenever the user wishes.                      *)
(*                                                                         *)
(* The server keeps the row of the host, made by its SDPH, throughout; the *)
(* host has a telecom device.  Nothing is lost; datagrams may overtake     *)
(* each other if Reorder.                                                  *)
(***************************************************************************)
EXTENDS Integers, Sequences, SequencesExt

CONSTANTS
  None,        \* no key
  MaxQueries,  \* bound on what the user asks for
  Reorder      \* whether datagrams may overtake each other

ASSUME LoginAssumption ==
  None \notin Nat /\ MaxQueries \in Nat /\ Reorder \in BOOLEAN

VARIABLES
  rightful,  \* the host's name and password are those of the data base
  host,      \* its keys, session, relogin_count and pjsip_stop_flag
  thread,    \* the report thread: idle, or in the middle of an answer
  queue,     \* pjsip_report_list: answers for the report thread
  toServer, toHost,  \* datagrams under way
  row,       \* the host's row of tempUserMap: key and session
  logged,    \* sessions in the server's session-home map
  keys,      \* AES keys made so far, by at_create_key
  queries    \* UPDATE_QUERYs that the user sent

server == <<row, logged>>
net == <<toServer, toHost>>
vars == <<rightful, host, thread, queue, net, server, keys, queries>>

Keys == Nat \cup {None}

Requests ==
  [type : {"ask"}] \cup [type : {"pass"}, key : Nat] \cup
  [type : {"login"}, key : Nat, session : Nat] \cup
  [type : {"query"}, session : Nat]

Answers ==
  [type : {"ask"}] \cup [type : {"pass"}, session : Nat] \cup
  [type : {"login"}, session : Nat, ok : BOOLEAN]

TypeOK ==
  /\ rightful \in BOOLEAN
  /\ host \in [aes : Keys, rsa : BOOLEAN, session : Nat, relogins : 0..4,
               state : {"up", "stopped", "crashed"}]
  /\ thread \in {"idle", "rsa", "made", "saved"}
  /\ queue \in Seq(Answers)
  /\ toServer \in Seq(Requests)
  /\ toHost \in Seq(Answers \cup [type : {"noLogin"}])
  /\ row \in [key : Keys, session : Nat]
  /\ logged \subseteq 1..row.session
  /\ keys \in Nat /\ queries \in 0..MaxQueries

\* The main thread has asked for the RSA key, icedemo_console.
Init ==
  /\ rightful \in BOOLEAN
  /\ host = [aes |-> None, rsa |-> FALSE, session |-> 0, relogins |-> 0,
             state |-> "up"]
  /\ thread = "idle"
  /\ queue = <<>>
  /\ toServer = <<[type |-> "ask"]>> /\ toHost = <<>>
  /\ row = [key |-> None, session |-> 0]
  /\ logged = {}
  /\ keys = 0 /\ queries = 0

Up == host.state = "up"

\* Places of the channel c from which a datagram can arrive.
Arriving(c) == {i \in DOMAIN c : Reorder \/ i = 1}

Ask == [type |-> "ask"]

\* destroy_aes_key, destroy_rsa_key.
WithoutKeys(h) == [h EXCEPT !.aes = None, !.rsa = FALSE]
-----------------------------------------------------------------------------
(* The server.                                                             *)

\* A request m is taken from its place i and answered by a.
Answered(i, a) ==
  /\ toServer' = RemoveAt(toServer, i)
  /\ toHost' = toHost \o a
  /\ UNCHANGED <<rightful, host, thread, queue, keys, queries>>

AskSecretKey(i) ==
  /\ toServer[i].type = "ask"
  /\ Answered(i, <<Ask>>)
  /\ UNCHANGED server

\* Every key gets a session of its own.
PassSecretKey(i) ==
  /\ toServer[i].type = "pass"
  /\ row' = [key |-> toServer[i].key, session |-> row.session + 1]
  /\ Answered(i, <<[type |-> "pass", session |-> row'.session]>>)
  /\ UNCHANGED logged

\* Defect: a failed login is not answered.
LoginSilent(i) ==
  LET m == toServer[i]
      ok == rightful /\ m.key = row.key /\ m.session = row.session
  IN  /\ m.type = "login"
      /\ logged' = IF ok THEN logged \cup {m.session} ELSE logged
      /\ Answered(i, IF ok THEN <<[type |-> "login", session |-> row.session,
                                   ok |-> TRUE]>>
                     ELSE <<>>)
      /\ UNCHANGED row

\* What was encrypted with another key decrypts to no user of the data base.
\* The answer carries the session of the row.
Login(i) ==
  LET m == toServer[i]
      ok == rightful /\ m.key = row.key /\ m.session = row.session
  IN  /\ m.type = "login"
      /\ logged' = IF ok THEN logged \cup {m.session} ELSE logged
      /\ Answered(i, <<[type |-> "login", session |-> row.session, ok |-> ok]>>)
      /\ UNCHANGED row

\* The update itself is another part of the system.
UpdateQuery(i) ==
  /\ toServer[i].type = "query"
  /\ Answered(i, IF toServer[i].session \in logged THEN <<>>
                 ELSE <<[type |-> "noLogin"]>>)
  /\ UNCHANGED server

Server ==
  \E i \in Arriving(toServer) :
    AskSecretKey(i) \/ PassSecretKey(i) \/ Login(i) \/ UpdateQuery(i)
-----------------------------------------------------------------------------
(* The host's worker thread, recv_pjsip_buff_callback.                     *)

Queue(i) ==
  /\ Up
  /\ toHost[i].type # "noLogin"
  /\ queue' = Append(queue, toHost[i])
  /\ toHost' = RemoveAt(toHost, i)
  /\ UNCHANGED <<rightful, host, thread, toServer, server, keys, queries>>

\* Defect: the handshake that follows is forgotten.
NoLoginOnly(i) ==
  /\ Up
  /\ toHost[i].type = "noLogin"
  /\ host' = [WithoutKeys(host) EXCEPT !.session = 0]
  /\ toHost' = RemoveAt(toHost, i)
  /\ UNCHANGED <<rightful, thread, queue, toServer, server, keys, queries>>

\* global_error_handle, GE_NO_LOGIN.
NoLogin(i) ==
  /\ Up
  /\ toHost[i].type = "noLogin"
  /\ host' = [WithoutKeys(host) EXCEPT !.session = 0]
  /\ toHost' = RemoveAt(toHost, i)
  /\ toServer' = Append(toServer, Ask)
  /\ UNCHANGED <<rightful, thread, queue, server, keys, queries>>

Worker == \E i \in Arriving(toHost) : Queue(i) \/ NoLogin(i)
-----------------------------------------------------------------------------
(* The report thread, deal_with_pjsip_report.                              *)

Dealing(type) ==
  /\ Up /\ queue # <<>>
  /\ Head(queue).type = type
  /\ UNCHANGED <<rightful, toHost, server, queries>>

\* ask_secret_handle: the keys are made, then used.
MakeRsaKey ==
  /\ thread = "idle" /\ Dealing("ask")
  /\ host' = [host EXCEPT !.rsa = TRUE]
  /\ thread' = "rsa"
  /\ UNCHANGED <<queue, toServer, keys>>

MakeAesKey ==
  /\ thread = "rsa" /\ Dealing("ask")
  /\ host' = [host EXCEPT !.aes = keys + 1]
  /\ keys' = keys + 1
  /\ thread' = "made"
  /\ UNCHANGED <<queue, toServer>>

\* A key that was destroyed is noticed, which ends the handshake, unless that
\* happened after the test; its use then ends the process.
PassKey ==
  /\ thread = "made" /\ Dealing("ask")
  /\ thread' = "idle" /\ queue' = Tail(queue)
  /\ IF host.aes = None \/ ~host.rsa
     THEN /\ host' \in {host, [host EXCEPT !.state = "crashed"]}
          /\ UNCHANGED toServer
     ELSE /\ toServer' = Append(toServer, [type |-> "pass", key |-> host.aes])
          /\ UNCHANGED host
  /\ UNCHANGED keys

\* pass_sceret_handle stores the session, then calls login_server_action.
SaveSession ==
  /\ thread = "idle" /\ Dealing("pass")
  /\ host' = [host EXCEPT !.session = Head(queue).session]
  /\ thread' = "saved"
  /\ UNCHANGED <<queue, toServer, keys>>

LoginAction ==
  /\ thread = "saved" /\ Dealing("pass")
  /\ thread' = "idle" /\ queue' = Tail(queue)
  /\ IF host.aes = None
     THEN host' = [host EXCEPT !.state = "crashed"] /\ UNCHANGED toServer
     ELSE /\ toServer' = Append(toServer, [type |-> "login", key |-> host.aes,
                                           session |-> host.session])
          /\ UNCHANGED host
  /\ UNCHANGED keys

\* Defect: the count of failures has no limit.
LoginHandleForEver ==
  LET m == Head(queue) IN
  /\ thread = "idle" /\ Dealing("login")
  /\ queue' = Tail(queue)
  /\ IF m.session # host.session
     THEN host' = [host EXCEPT !.state = "stopped"] /\ UNCHANGED toServer
     ELSE IF m.ok
     THEN /\ host' = [host EXCEPT !.relogins = 0]
          /\ toServer' = Append(toServer, [type |-> "query", session |-> host.session])
     ELSE /\ host' = [WithoutKeys(host) EXCEPT !.relogins = @ + 1]
          /\ toServer' = Append(toServer, Ask)
  /\ UNCHANGED <<thread, keys>>

\* login_server_handle; -1 makes its caller set pjsip_stop_flag.
LoginHandle ==
  LET m == Head(queue) IN
  /\ thread = "idle" /\ Dealing("login")
  /\ queue' = Tail(queue)
  /\ IF m.session # host.session
     THEN host' = [host EXCEPT !.state = "stopped"] /\ UNCHANGED toServer
     ELSE IF m.ok
     THEN /\ host' = [host EXCEPT !.relogins = 0]
          /\ toServer' = Append(toServer, [type |-> "query", session |-> host.session])
     ELSE IF host.relogins > 3
     THEN /\ host' = [WithoutKeys(host) EXCEPT !.relogins = 0, !.state = "stopped"]
          /\ UNCHANGED toServer
     ELSE /\ host' = [WithoutKeys(host) EXCEPT !.relogins = @ + 1]
          /\ toServer' = Append(toServer, Ask)
  /\ UNCHANGED <<thread, keys>>

Report == MakeRsaKey \/ MakeAesKey \/ PassKey \/ SaveSession \/ LoginAction \/ LoginHandle
-----------------------------------------------------------------------------
\* web_update: the user looks for an update.
WebUpdate ==
  /\ Up /\ queries < MaxQueries
  /\ queries' = queries + 1
  /\ toServer' = Append(toServer, [type |-> "query", session |-> host.session])
  /\ UNCHANGED <<rightful, host, thread, queue, toHost, server, keys>>

Next == Server \/ Worker \/ Report \/ WebUpdate

Spec == Init /\ [][Next]_vars

\* Datagrams arrive and the report thread runs.
FairSpec == Spec /\ WF_vars(Server) /\ WF_vars(Worker) /\ WF_vars(Report)
-----------------------------------------------------------------------------
(* What makes the login correct.                                           *)

Quiet == queue = <<>> /\ toServer = <<>> /\ toHost = <<>>

Agreed ==
  /\ host.session \in logged
  /\ host.session = row.session /\ host.aes = row.key

\* However handshakes interleave and answers overtake each other, when no
\* answer is outstanding the running host is logged in, with the session and
\* the key that the server has for it.
QuietIsAgreed == Quiet /\ Up => Agreed

\* Handshakes started by each other's failures come to an end: the host is
\* logged in for good, or its process has ended (and the monitor starts it
\* again).
LoginEnds == <>[]((Quiet /\ Agreed) \/ ~Up)

\* "login failed, stop host" (deal_with_pjsip_report): a host with the right
\* password is not stopped.
StopsOnlyRefused == host.state = "stopped" => ~rightful
=============================================================================
