------------------------------ MODULE MsgQueue ------------------------------
(***************************************************************************)
(* osp/lab5/part_1 run with -q: start_server() and get_param() over one    *)
(* System V message queue.  A query is an empty message of type            *)
(* MSGTYPE_QUERY, a reply a copy of server_param of type MSGTYPE_REPLY;     *)
(* nothing says which client a reply is for.  Each client asks twice and   *)
(* prints the second answer.  Clients are numbered in the order in which   *)
(* they are started.                                                       *)
(*                                                                         *)
(* The contents of server_param are the number of the set_param() call     *)
(* that wrote them.  sleep(1) separates two calls, so a later number is a  *)
(* larger work_time.                                                       *)
(***************************************************************************)
EXTENDS Integers, Sequences, FiniteSets

CONSTANTS
  NClients,      \* how many times the client is run
  ReplyRoom      \* how many replies fit in msg_qbytes

ASSUME ClientsAssumption == NClients \in Nat
ASSUME RoomAssumption == ReplyRoom \in Nat \ {0}

Clients == 1 .. NClients

VARIABLES
  server,        \* where the server is in start_server()
  param,         \* *server_param, 0 before the first set_param()
  msg,           \* msg.mtext, the server's copy on its way to the queue
  queries,       \* number of MSGTYPE_QUERY messages in the queue
  replies,       \* MSGTYPE_REPLY messages in the queue, oldest first
  pc,            \* where each client is in get_param()
  first, second, \* what the two calls of a client returned, 0 before
  born           \* auxiliary: param when the client started, -1 if a reply
                 \* was already in the queue

serverVars == <<server, param, msg>>
clientVars == <<pc, first, second, born>>
vars == <<server, param, msg, queries, replies, pc, first, second, born>>

ServerLabels == {"start", "sleep", "receive", "send", "failed", "dead"}
ClientLabels ==
  {"off", "query1", "reply1", "query2", "reply2", "printed", "killed"}

Init ==
  /\ server = "start" /\ param = 0 /\ msg = 0
  /\ queries = 0 /\ replies = << >>
  /\ pc = [c \in Clients |-> "off"]
  /\ first = [c \in Clients |-> 0]
  /\ second = [c \in Clients |-> 0]
  /\ born = [c \in Clients |-> 0]

QueueExists == server \notin {"start", "failed"}

-----------------------------------------------------------------------------
(* The server.                                                             *)

\* message_queue_param(): msgget() and the check of errno after it.
MessageQueueParam ==
  /\ server = "start"
  /\ server' \in {"sleep", "failed"}
  /\ UNCHANGED <<param, msg, queries, replies>>

\* sleep(1) and set_param(), before the server waits for a query.
Measure(n) ==
  /\ server = "sleep"
  /\ param' = n
  /\ server' = "receive"
  /\ UNCHANGED <<msg, queries, replies>>

\* Mutant: set_param() is called once, before the loop.
SetParamOnce == Measure(1)

SetParam == Measure(param + 1)

\* msgrcv() of taken queries and the memcpy() of the answer.
Receive(taken, answer) ==
  /\ server = "receive"
  /\ queries' = queries - taken
  /\ msg' = answer
  /\ server' = "send"
  /\ UNCHANGED <<param, replies>>

\* Mutants: msgrcv() takes more than it should, does not wait, and the server
\* answers with what it measured a round earlier.
ReceiveAllQueries == queries > 0 /\ Receive(queries, param)
ReceiveNoWait == Receive(1, param)
ReceiveQueryLate == queries > 0 /\ Receive(1, param - 1)

ReceiveQuery == queries > 0 /\ Receive(1, param)

\* msgsnd() of the reply, which waits for room.
Send(queue) ==
  /\ server = "send"
  /\ Len(replies) < ReplyRoom
  /\ replies' = queue
  /\ server' = "sleep"
  /\ UNCHANGED <<param, msg, queries>>

\* Mutant: the newest reply is served first.
SendReplyInFront == Send(<<msg>> \o replies)

SendReply == Send(Append(replies, msg))

ServerStep ==
  /\ MessageQueueParam \/ SetParam \/ ReceiveQuery \/ SendReply
  /\ UNCHANGED clientVars

\* A signal ends the process: -q installs no handler, so the queue and what
\* is in it stay.
KillServer ==
  /\ server \in {"sleep", "receive", "send"}
  /\ server' = "dead"
  /\ UNCHANGED <<param, msg, queries, replies, pc, first, second, born>>

-----------------------------------------------------------------------------
(* The clients.                                                            *)

\* A client is given the id that the server printed.
StartClient(c) ==
  /\ pc[c] = "off" /\ QueueExists
  /\ \A d \in 1 .. c - 1 : pc[d] # "off"
  /\ pc' = [pc EXCEPT ![c] = "query1"]
  /\ born' = [born EXCEPT ![c] = IF replies = << >> THEN param ELSE -1]
  /\ UNCHANGED <<queries, replies, first, second>>

\* msgsnd() of the empty query: zero bytes always fit.
SendQuery(c) ==
  /\ \/ pc[c] = "query1" /\ pc' = [pc EXCEPT ![c] = "reply1"]
     \/ pc[c] = "query2" /\ pc' = [pc EXCEPT ![c] = "reply2"]
  /\ queries' = queries + 1
  /\ UNCHANGED <<replies, first, second, born>>

\* msgrcv() takes the oldest reply, whoever it was sent for.
ReceiveReply(c) ==
  /\ replies # << >>
  /\ replies' = Tail(replies)
  /\ \/ /\ pc[c] = "reply1"
        /\ pc' = [pc EXCEPT ![c] = "query2"]
        /\ first' = [first EXCEPT ![c] = Head(replies)]
        /\ UNCHANGED second
     \/ /\ pc[c] = "reply2"
        /\ pc' = [pc EXCEPT ![c] = "printed"]
        /\ second' = [second EXCEPT ![c] = Head(replies)]
        /\ UNCHANGED first
  /\ UNCHANGED <<queries, born>>

ClientStep(c) ==
  /\ SendQuery(c) \/ ReceiveReply(c)
  /\ UNCHANGED serverVars

Active == {"query1", "reply1", "query2", "reply2"}

KillClient(c) ==
  /\ pc[c] \in Active
  /\ pc' = [pc EXCEPT ![c] = "killed"]
  /\ UNCHANGED <<server, param, msg, queries, replies, first, second, born>>

-----------------------------------------------------------------------------
Next ==
  \/ ServerStep
  \/ KillServer
  \/ \E c \in Clients :
       \/ StartClient(c) /\ UNCHANGED serverVars
       \/ ClientStep(c)
       \/ KillClient(c)

Spec == Init /\ [][Next]_vars

\* The two kinds of process are scheduled; nobody has to start a client or
\* to kill anything.
Fairness == WF_vars(ServerStep) /\ \A c \in Clients : WF_vars(ClientStep(c))
FairSpec == Spec /\ Fairness

-----------------------------------------------------------------------------
\* Every variable keeps its type (server.c:107-137, client.c:58-79).
TypeOK ==
  /\ server \in ServerLabels
  /\ param \in Nat /\ msg \in Nat /\ queries \in Nat
  /\ replies \in Seq(Nat)
  /\ pc \in [Clients -> ClientLabels]
  /\ first \in [Clients -> Nat] /\ second \in [Clients -> Nat]
  /\ born \in [Clients -> Nat \cup {-1}]

\* Of the two answers of a client the one it prints is the later one,
\* whatever other clients do to the queue and whoever the answers were for
\* (client.c:70-71).
SecondNewer == \A c \in Clients : pc[c] = "printed" => first[c] < second[c]

\* Asking twice throws away the answer the server had prepared before the
\* client came: what is printed was measured after the client started,
\* unless replies to clients that did not take them were left in the queue.
FreshUnlessLeftover ==
  \A c \in Clients : pc[c] = "printed" /\ born[c] >= 0 => second[c] > born[c]

\* No reply is given to two calls.
TakenOnce ==
  \A c, d \in Clients :
    /\ c # d => {first[c], second[c]} \cap {first[d], second[d]} \subseteq {0}
    /\ first[c] = second[c] => first[c] = 0

Waiting == {c \in Clients : pc[c] \in {"reply1", "reply2"}}

\* No client waits for a reply that nobody owes: the queries, the answer the
\* server has in hand and the replies in the queue are at least as many as
\* the clients that wait, although killed clients leave theirs behind.
NobodyStranded ==
  server # "dead" =>
    queries + (IF server = "send" THEN 1 ELSE 0) + Len(replies)
      >= Cardinality(Waiting)

\* While the server lives every client that is not killed gets its two
\* answers; a full queue holds the server up only until a waiting client
\* takes a reply.
EveryClientPrints ==
  \A c \in Clients :
    pc[c] \in Active ~> (pc[c] \in {"printed", "killed"} \/ server = "dead")

-----------------------------------------------------------------------------
Stage(c) ==
  CASE pc[c] = "off" -> "off"
    [] pc[c] \in Active -> "asking"
    [] pc[c] = "printed" -> "printed"
    [] pc[c] = "killed" -> "gone"

Answers(c) ==
  CASE pc[c] \in {"query2", "reply2"} -> <<first[c]>>
    [] pc[c] = "printed" -> <<first[c], second[c]>>
    [] OTHER -> << >>

Since(c) == IF pc[c] = "killed" \/ born[c] = -1 THEN 0 ELSE born[c]

Service == INSTANCE MeasuringService WITH
  now <- param,
  died <- server = "dead",
  stage <- [c \in Clients |-> Stage(c)],
  since <- [c \in Clients |-> Since(c)],
  got <- [c \in Clients |-> Answers(c)]

\* The queue implements the service, though no reply names its client: each
\* call takes a measurement of its own, what is printed is newer than the
\* client, and only clients that are still asking or were killed can leave a
\* stale reply to a later one (server.c:119-135, client.c:66-75).
ImplementsService == Service!Spec

-----------------------------------------------------------------------------
(* The inductive invariant behind SecondNewer, FreshUnlessLeftover and     *)
(* TakenOnce: answers are numbered upwards along the way from the clients  *)
(* that have one, through the queue, to the server.                        *)

\* The answers that are still to be taken from the queue or to be sent.
Coming ==
  {replies[k] : k \in DOMAIN replies}
    \cup (IF server = "send" THEN {msg} ELSE {})
    \cup (IF server = "receive" THEN {param} ELSE {})
    \cup {param + 1}

Numbered ==
  /\ \A k \in DOMAIN replies : 1 <= replies[k] /\ replies[k] <= param
  /\ \A j, k \in DOMAIN replies : j < k => replies[j] < replies[k]
  /\ server = "send" => msg = param /\ param >= 1
  /\ server = "receive" => param >= 1
  /\ server \in {"receive", "send"} => \A k \in DOMAIN replies : replies[k] < param

Taken ==
  \A c \in Clients : \A n \in Coming : first[c] < n /\ second[c] < n

Calls ==
  \A c \in Clients :
    /\ pc[c] \in {"off", "query1", "reply1"} => first[c] = 0
    /\ pc[c] \in {"query2", "reply2", "printed"} => first[c] >= 1
    /\ pc[c] \in {"off", "query1", "reply1", "query2", "reply2"} => second[c] = 0
    /\ pc[c] \in {"query1", "reply1"} /\ born[c] >= 0 =>
         \A n \in Coming : born[c] <= n
    /\ pc[c] \in {"query2", "reply2", "printed"} /\ born[c] >= 0 =>
         born[c] <= first[c]

\* In every state the answers taken, in the queue, in the server's hand and
\* still to be measured are numbered upwards in that order, and no client has
\* an answer it has not taken (server.c:119-135, client.c:66-75).
IInv ==
  /\ TypeOK /\ Numbered /\ Calls
  /\ Taken /\ TakenOnce /\ SecondNewer /\ FreshUnlessLeftover

=============================================================================
