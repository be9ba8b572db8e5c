--------------------------- MODULE MsgQueueProofs ---------------------------
(***************************************************************************)
(* What every run of the message queue keeps, for any number of clients    *)
(* and any room in the queue: IInv of MsgQueue is an invariant, and with   *)
(* it SecondNewer, FreshUnlessLeftover and TakenOnce; replies and queries  *)
(* are never short of the clients that wait; and the queue implements      *)
(* MeasuringService.                                                       *)
(*                                                                         *)
(* The answers are numbered upwards on their way from the server through   *)
(* the queue to the clients.  A step either takes the oldest answer from   *)
(* the queue (ReceiveReply) or changes the answers to come only upwards    *)
(* (Rises).  What the queue holds for clients that wait is counted in      *)
(* Balanced: there is more of it only if a client was killed, which is     *)
(* when the service allows a stale answer.                                 *)
(***************************************************************************)
EXTENDS MsgQueue, FiniteSetTheorems, TLAPS

\* What is left of a sequence without its head.
LEMMA TailLemma ==
  ASSUME NEW s \in Seq(Nat), s # << >>
  PROVE  /\ Tail(s) \in Seq(Nat)
         /\ 1 \in DOMAIN s /\ Head(s) = s[1] /\ Head(s) \in Nat
         /\ \A k \in DOMAIN Tail(s) :
              k \in Nat /\ k >= 1 /\ k + 1 \in DOMAIN s /\ Tail(s)[k] = s[k + 1]
  OBVIOUS

\* An element of a sequence with one more at its end.
LEMMA AppendLemma ==
  ASSUME NEW s \in Seq(Nat), NEW n \in Nat
  PROVE  /\ Append(s, n) \in Seq(Nat)
         /\ \A k \in DOMAIN Append(s, n) :
              /\ k \in Nat
              /\ \/ k \in DOMAIN s /\ Append(s, n)[k] = s[k]
                 \/ k = Len(s) + 1 /\ Append(s, n)[k] = n
  OBVIOUS

\* The positions of a sequence are numbers from 1 to its length.
LEMMA DomainLemma ==
  ASSUME NEW s \in Seq(Nat)
  PROVE  \A k \in DOMAIN s : k \in Nat /\ 1 <= k /\ k <= Len(s) /\ s[k] \in Nat
  OBVIOUS

\* The answers to come are numbers.
LEMMA ComingNat == TypeOK => Coming \subseteq Nat
BY DomainLemma DEF TypeOK, Coming

-----------------------------------------------------------------------------
\* The variables keep their types (server.c:107-137, client.c:58-79).
LEMMA TypeStep == TypeOK /\ [Next]_vars => TypeOK'
<1> SUFFICES ASSUME TypeOK, [Next]_vars PROVE TypeOK'
  OBVIOUS
<1> USE DEF TypeOK, ServerLabels, ClientLabels
<1>1. CASE ServerStep
  <2>1. CASE MessageQueueParam
    BY <1>1, <2>1 DEF ServerStep, MessageQueueParam, clientVars
  <2>2. CASE SetParam
    BY <1>1, <2>2 DEF ServerStep, SetParam, Measure, clientVars
  <2>3. CASE ReceiveQuery
    BY <1>1, <2>3 DEF ServerStep, ReceiveQuery, Receive, clientVars
  <2>4. CASE SendReply
    BY <1>1, <2>4, AppendLemma DEF ServerStep, SendReply, Send, clientVars
  <2> QED
    BY <1>1, <2>1, <2>2, <2>3, <2>4 DEF ServerStep
<1>2. CASE KillServer
  BY <1>2 DEF KillServer
<1>3. ASSUME NEW c \in Clients, StartClient(c), UNCHANGED serverVars PROVE TypeOK'
  BY <1>3 DEF StartClient, serverVars
<1>4. ASSUME NEW c \in Clients, SendQuery(c), UNCHANGED serverVars PROVE TypeOK'
  BY <1>4 DEF SendQuery, serverVars
<1>5. ASSUME NEW c \in Clients, ReceiveReply(c), UNCHANGED serverVars PROVE TypeOK'
  <2>1. /\ replies \in Seq(Nat) /\ replies # << >>
        /\ Tail(replies) \in Seq(Nat) /\ Head(replies) \in Nat
    BY <1>5, TailLemma DEF ReceiveReply
  <2>2. CASE pc[c] = "reply1"
    BY <1>5, <2>1, <2>2 DEF ReceiveReply, serverVars
  <2>3. CASE pc[c] = "reply2"
    BY <1>5, <2>1, <2>3 DEF ReceiveReply, serverVars
  <2> QED
    BY <1>5, <2>2, <2>3 DEF ReceiveReply
<1>6. ASSUME NEW c \in Clients, KillClient(c) PROVE TypeOK'
  BY <1>6 DEF KillClient
<1>7. CASE UNCHANGED vars
  BY <1>7 DEF vars
<1> QED
  BY <1>1, <1>2, <1>3, <1>4, <1>5, <1>6, <1>7 DEF Next, ClientStep

-----------------------------------------------------------------------------
\* The numbering of the replies (server.c:119-135).
LEMMA NumberedStep == TypeOK /\ Numbered /\ [Next]_vars => Numbered'
<1> SUFFICES ASSUME TypeOK, Numbered, [Next]_vars PROVE Numbered'
  OBVIOUS
<1> USE DEF TypeOK
<1>d. \A k \in DOMAIN replies : k \in Nat /\ 1 <= k /\ k <= Len(replies) /\ replies[k] \in Nat
  BY DomainLemma
<1>1. CASE ServerStep
  <2>1. CASE MessageQueueParam
    BY <1>1, <2>1 DEF ServerStep, MessageQueueParam, Numbered
  <2>2. CASE SetParam
    BY <1>1, <1>d, <2>2 DEF ServerStep, SetParam, Measure, Numbered
  <2>3. CASE ReceiveQuery
    BY <1>1, <2>3 DEF ServerStep, ReceiveQuery, Receive, Numbered
  <2>4. CASE SendReply
    <3>1. /\ replies' = Append(replies, msg) /\ param' = param /\ server' = "sleep"
          /\ msg = param /\ param >= 1 /\ \A k \in DOMAIN replies : replies[k] < param
      BY <2>4 DEF SendReply, Send, Numbered
    <3>2. \A k \in DOMAIN replies' :
            \/ k \in DOMAIN replies /\ replies'[k] = replies[k]
            \/ k = Len(replies) + 1 /\ replies'[k] = msg
      BY <3>1, AppendLemma
    <3>3. \A k \in DOMAIN replies' : 1 <= replies'[k] /\ replies'[k] <= param'
      BY <3>1, <3>2 DEF Numbered
    <3>4. \A j, k \in DOMAIN replies' : j < k => replies'[j] < replies'[k]
      BY <1>d, <3>1, <3>2 DEF Numbered
    <3> QED
      BY <3>1, <3>3, <3>4 DEF Numbered
  <2> QED
    BY <1>1, <2>1, <2>2, <2>3, <2>4 DEF ServerStep
<1>2. CASE KillServer
  BY <1>2 DEF KillServer, Numbered
<1>3. ASSUME NEW c \in Clients, StartClient(c), UNCHANGED serverVars PROVE Numbered'
  BY <1>3 DEF StartClient, serverVars, Numbered
<1>4. ASSUME NEW c \in Clients, SendQuery(c), UNCHANGED serverVars PROVE Numbered'
  BY <1>4 DEF SendQuery, serverVars, Numbered
<1>5. ASSUME NEW c \in Clients, ReceiveReply(c), UNCHANGED serverVars PROVE Numbered'
  <2>1. \A k \in DOMAIN replies' :
          k \in Nat /\ k + 1 \in DOMAIN replies /\ replies'[k] = replies[k + 1]
    BY <1>5, TailLemma DEF ReceiveReply
  <2> QED
    BY <1>5, <2>1 DEF serverVars, Numbered
<1>6. ASSUME NEW c \in Clients, KillClient(c) PROVE Numbered'
  BY <1>6 DEF KillClient, Numbered
<1>7. CASE UNCHANGED vars
  BY <1>7 DEF vars, Numbered
<1> QED
  BY <1>1, <1>2, <1>3, <1>4, <1>5, <1>6, <1>7 DEF Next, ClientStep

-----------------------------------------------------------------------------
(* Steps that take no answer.                                              *)

\* Nothing to come is below all that was to come.
Rises == \A n \in Coming' : \E m \in Coming : m <= n

\* Except ReceiveReply, every step moves the answers to come upwards only.
LEMMA OthersRise ==
  ASSUME TypeOK, Numbered,
         \/ ServerStep \/ KillServer
         \/ UNCHANGED <<server, param, msg, replies>>
  PROVE  Rises
<1>s. ASSUME Coming' \subseteq Coming PROVE Rises
  BY <1>s, ComingNat DEF Rises
<1>1. CASE MessageQueueParam
  BY <1>1, <1>s DEF MessageQueueParam, Coming
<1>2. CASE SetParam
  <2>1. /\ replies' = replies /\ server = "sleep" /\ server' = "receive"
        /\ param' = param + 1 /\ param \in Nat
    BY <1>2 DEF SetParam, Measure, TypeOK
  <2>2. \A n \in Coming' : n \in Coming \/ n = param + 2
    BY <2>1 DEF Coming
  <2>3. param + 1 \in Coming /\ param + 1 <= param + 2
    BY <2>1 DEF Coming
  <2> QED
    BY ComingNat, <2>2, <2>3 DEF Rises
<1>3. CASE ReceiveQuery
  BY <1>3, <1>s DEF ReceiveQuery, Receive, Coming
<1>4. CASE SendReply
  <2>1. /\ server = "send" /\ replies' = Append(replies, msg) /\ param' = param
        /\ server' = "sleep" /\ msg \in Nat /\ replies \in Seq(Nat)
    BY <1>4 DEF SendReply, Send, TypeOK
  <2>2. \A k \in DOMAIN replies' :
          \/ k \in DOMAIN replies /\ replies'[k] = replies[k]
          \/ replies'[k] = msg
    BY <2>1, AppendLemma
  <2> QED
    BY <1>s, <2>1, <2>2 DEF Coming
<1>5. CASE KillServer
  BY <1>5, <1>s DEF KillServer, Coming
<1>6. CASE UNCHANGED <<server, param, msg, replies>>
  BY <1>6, <1>s DEF Coming
<1> QED
  BY <1>1, <1>2, <1>3, <1>4, <1>5, <1>6 DEF ServerStep

\* The part of IInv about the clients.
ClientPart == Calls /\ Taken /\ TakenOnce /\ SecondNewer /\ FreshUnlessLeftover

\* If the answers to come rise and no client moves, what is known of the
\* clients stays.
LEMMA ClientsIdle ==
  ASSUME TypeOK, TypeOK', Rises, ClientPart, UNCHANGED clientVars
  PROVE  ClientPart'
<1>1. /\ pc' = pc /\ first' = first /\ second' = second /\ born' = born
  BY DEF clientVars
<1>2. Coming \subseteq Nat /\ Coming' \subseteq Nat
  <2>1. TypeOK' => (Coming \subseteq Nat)'
    BY ComingNat, PTL
  <2> QED
    BY <2>1, ComingNat
<1>3. Taken'
  BY <1>1, <1>2 DEF TypeOK, Rises, ClientPart, Taken
<1>4. Calls'
  BY <1>1, <1>2 DEF TypeOK, Rises, ClientPart, Calls
<1>5. TakenOnce' /\ SecondNewer' /\ FreshUnlessLeftover'
  BY <1>1 DEF ClientPart, TakenOnce, SecondNewer, FreshUnlessLeftover
<1> QED
  BY <1>3, <1>4, <1>5 DEF ClientPart

-----------------------------------------------------------------------------
(* Steps of one client.                                                    *)

\* A client that starts knows of no answer yet; if the queue holds no reply,
\* all that is to come is at least param (client.c:58-66).
LEMMA StartStep ==
  ASSUME TypeOK, Numbered, ClientPart, NEW c \in Clients,
         StartClient(c), UNCHANGED serverVars
  PROVE  ClientPart'
<1>1. /\ UNCHANGED <<server, param, msg, replies, first, second>>
      /\ pc[c] = "off" /\ pc' = [pc EXCEPT ![c] = "query1"]
      /\ born' = [born EXCEPT ![c] = IF replies = << >> THEN param ELSE -1]
  BY DEF StartClient, serverVars
<1>2. Coming' = Coming
  BY <1>1 DEF Coming
<1>3. ASSUME born'[c] >= 0, NEW n \in Coming PROVE born'[c] <= n
  <2>1. replies = << >> /\ born'[c] = param /\ param \in Nat
    BY <1>1, <1>3 DEF TypeOK
  <2>2. n = param \/ n = param + 1
    BY <2>1 DEF Coming, Numbered
  <2> QED
    BY <2>1, <2>2
<1>4. Calls'
  BY <1>1, <1>2, <1>3 DEF TypeOK, ClientPart, Calls
<1>5. Taken' /\ TakenOnce'
  BY <1>1, <1>2 DEF ClientPart, Taken, TakenOnce
<1>6. SecondNewer' /\ FreshUnlessLeftover'
  BY <1>1 DEF TypeOK, ClientPart, SecondNewer, FreshUnlessLeftover
<1> QED
  BY <1>4, <1>5, <1>6 DEF ClientPart

\* A client that sends a query, or is killed, keeps what it has.
LEMMA QuietStep ==
  ASSUME TypeOK, ClientPart, NEW c \in Clients,
         UNCHANGED <<server, param, msg, replies, first, second, born>>,
         \/ pc[c] = "query1" /\ pc' = [pc EXCEPT ![c] = "reply1"]
         \/ pc[c] = "query2" /\ pc' = [pc EXCEPT ![c] = "reply2"]
         \/ pc' = [pc EXCEPT ![c] = "killed"]
  PROVE  ClientPart'
<1>1. Coming' = Coming
  BY DEF Coming
<1>2. Calls'
  BY <1>1 DEF TypeOK, ClientPart, Calls
<1>3. Taken' /\ TakenOnce'
  BY <1>1 DEF ClientPart, Taken, TakenOnce
<1>4. SecondNewer' /\ FreshUnlessLeftover'
  BY DEF TypeOK, ClientPart, SecondNewer, FreshUnlessLeftover
<1> QED
  BY <1>2, <1>3, <1>4 DEF ClientPart

\* The oldest reply is to come, and all that is to come after it is above it.
LEMMA HeadIsLeast ==
  ASSUME TypeOK, Numbered, replies # << >>,
         replies' = Tail(replies), UNCHANGED serverVars
  PROVE  /\ Head(replies) \in Coming /\ Head(replies) \in Nat
         /\ Head(replies) >= 1
         /\ Coming' \subseteq Coming
         /\ \A n \in Coming' : Head(replies) < n
<1>1. /\ replies \in Seq(Nat) /\ param \in Nat /\ msg \in Nat
      /\ server' = server /\ param' = param /\ msg' = msg
  BY DEF TypeOK, serverVars
<1>2. /\ 1 \in DOMAIN replies /\ Head(replies) = replies[1] /\ Head(replies) \in Nat
      /\ \A k \in DOMAIN replies' :
           /\ k \in Nat /\ k >= 1 /\ k + 1 \in DOMAIN replies
           /\ replies'[k] = replies[k + 1]
  BY <1>1, TailLemma
<1>3. Head(replies) \in Coming /\ Head(replies) >= 1 /\ Head(replies) <= param
  BY <1>2 DEF Coming, Numbered
<1>4. \A k \in DOMAIN replies' : replies'[k] \in Coming /\ Head(replies) < replies'[k]
  BY <1>2 DEF Coming, Numbered
<1>5. server = "send" => Head(replies) < msg
  BY <1>1, <1>2 DEF Numbered
<1>6. server = "receive" => Head(replies) < param
  BY <1>2 DEF Numbered
<1>7. \A n \in Coming' : n \in Coming /\ Head(replies) < n
  BY <1>1, <1>2, <1>3, <1>4, <1>5, <1>6 DEF Coming
<1> QED
  BY <1>2, <1>3, <1>7

\* A client that takes a reply gets one above every answer taken before and
\* below every answer to come (client.c:70-71).
LEMMA ReceiveStep ==
  ASSUME TypeOK, TypeOK', Numbered, ClientPart, NEW c \in Clients,
         ReceiveReply(c), UNCHANGED serverVars
  PROVE  ClientPart'
<1> DEFINE h == Head(replies)
<1>1. /\ replies # << >> /\ replies' = Tail(replies) /\ born' = born
      /\ \/ /\ pc[c] = "reply1" /\ pc' = [pc EXCEPT ![c] = "query2"]
            /\ first' = [first EXCEPT ![c] = h] /\ second' = second
         \/ /\ pc[c] = "reply2" /\ pc' = [pc EXCEPT ![c] = "printed"]
            /\ second' = [second EXCEPT ![c] = h] /\ first' = first
  BY DEF ReceiveReply
<1>2. /\ h \in Coming /\ h \in Nat /\ h >= 1
      /\ Coming' \subseteq Coming /\ \A n \in Coming' : h < n
  BY <1>1, HeadIsLeast
<1>3. \A d \in Clients : first[d] < h /\ second[d] < h
  BY <1>2 DEF ClientPart, Taken
<1>n. Coming \subseteq Nat
  BY ComingNat
<1>t. /\ pc \in [Clients -> ClientLabels] /\ born \in [Clients -> Nat \cup {-1}]
      /\ first \in [Clients -> Nat] /\ second \in [Clients -> Nat]
  BY DEF TypeOK
<1> HIDE DEF h
<1>4. Taken'
  BY <1>1, <1>2, <1>n, <1>t DEF ClientPart, Taken
<1>5. Calls'
  BY <1>1, <1>2, <1>n, <1>t DEF ClientPart, Calls
<1>6. TakenOnce'
  BY <1>1, <1>2, <1>3, <1>t DEF ClientPart, TakenOnce
<1>7. SecondNewer'
  BY <1>1, <1>3, <1>t DEF ClientPart, SecondNewer
<1>8. FreshUnlessLeftover'
  BY <1>1, <1>2, <1>3, <1>t DEF ClientPart, Calls, FreshUnlessLeftover
<1> QED
  BY <1>4, <1>5, <1>6, <1>7, <1>8 DEF ClientPart

-----------------------------------------------------------------------------
LEMMA InitIInv == Init => IInv
<1> SUFFICES ASSUME Init PROVE IInv
  OBVIOUS
<1>1. TypeOK
  BY DEF Init, TypeOK, ServerLabels, ClientLabels
<1>2. Numbered
  BY DEF Init, Numbered
<1>3. Calls
  BY DEF Init, Calls, Coming
<1>4. Taken
  BY DEF Init, Taken, Coming
<1>5. TakenOnce /\ SecondNewer /\ FreshUnlessLeftover
  BY DEF Init, TakenOnce, SecondNewer, FreshUnlessLeftover
<1> QED
  BY <1>1, <1>2, <1>3, <1>4, <1>5 DEF IInv

LEMMA IInvStep == IInv /\ [Next]_vars => IInv'
<1> SUFFICES ASSUME IInv, [Next]_vars PROVE IInv'
  OBVIOUS
<1>1. TypeOK /\ Numbered /\ ClientPart
  BY DEF IInv, ClientPart
<1>2. TypeOK'
  BY <1>1, TypeStep
<1>3. Numbered'
  BY <1>1, NumberedStep
<1>4. ClientPart'
  <2>1. CASE ServerStep
    BY <1>1, <1>2, <2>1, OthersRise, ClientsIdle DEF ServerStep
  <2>2. CASE KillServer
    BY <1>1, <1>2, <2>2, OthersRise, ClientsIdle DEF KillServer, clientVars
  <2>3. ASSUME NEW c \in Clients, StartClient(c), UNCHANGED serverVars
        PROVE  ClientPart'
    BY <1>1, <2>3, StartStep
  <2>4. ASSUME NEW c \in Clients, SendQuery(c), UNCHANGED serverVars
        PROVE  ClientPart'
    BY <1>1, <2>4, QuietStep DEF SendQuery, serverVars
  <2>5. ASSUME NEW c \in Clients, ReceiveReply(c), UNCHANGED serverVars
        PROVE  ClientPart'
    BY <1>1, <1>2, <2>5, ReceiveStep
  <2>6. ASSUME NEW c \in Clients, KillClient(c) PROVE ClientPart'
    BY <1>1, <2>6, QuietStep DEF KillClient
  <2>7. CASE UNCHANGED vars
    BY <1>1, <1>2, <2>7, OthersRise, ClientsIdle DEF vars, clientVars
  <2> QED
    BY <2>1, <2>2, <2>3, <2>4, <2>5, <2>6, <2>7 DEF Next, ClientStep
<1> QED
  BY <1>2, <1>3, <1>4 DEF IInv, ClientPart

\* IInv holds in every state of every behaviour, for any number of clients
\* and any room for replies (server.c:107-137, client.c:58-79).
THEOREM MsgQueueInvariant == Spec => []IInv
BY InitIInv, IInvStep, PTL DEF Spec

\* The answer a client prints is the later one of its two (client.c:70-71).
THEOREM MsgQueueSecondNewer == Spec => []SecondNewer
<1>1. IInv => SecondNewer
  BY DEF IInv
<1> QED
  BY <1>1, MsgQueueInvariant, PTL

\* Unless replies were left in the queue when it started, a client prints
\* what was measured after that (client.c:66-75).
THEOREM MsgQueueFreshUnlessLeftover == Spec => []FreshUnlessLeftover
<1>1. IInv => FreshUnlessLeftover
  BY DEF IInv
<1> QED
  BY <1>1, MsgQueueInvariant, PTL

\* No reply is given to two calls (client.c:70-71).
THEOREM MsgQueueTakenOnce == Spec => []TakenOnce
<1>1. IInv => TakenOnce
  BY DEF IInv
<1> QED
  BY <1>1, MsgQueueInvariant, PTL

-----------------------------------------------------------------------------
(* Counting the clients that wait against the answers that are owed.       *)

\* The queries, the answer in hand and the replies: what NobodyStranded sums.
Owed == queries + (IF server = "send" THEN 1 ELSE 0) + Len(replies)

LEMMA WaitingFinite ==
  /\ IsFiniteSet(Clients) /\ IsFiniteSet(Waiting)
  /\ Cardinality(Waiting) \in Nat
<1>1. IsFiniteSet(Clients)
  BY FS_Interval, ClientsAssumption DEF Clients
<1>2. IsFiniteSet(Waiting)
  BY <1>1, FS_Subset DEF Waiting
<1> QED
  BY <1>1, <1>2, FS_CardinalityType

\* A client is killed, and may leave queries and replies behind.
SomeoneKilled == \E c \in Clients : pc[c] = "killed"

\* As long as nobody was killed, no more is owed than is waited for: every
\* query was sent by a client that still waits for the answer.
NothingExtra == ~SomeoneKilled => Owed <= Cardinality(Waiting)

\* What one step does to what is owed and to who waits.
LEMMA BalanceStep ==
  ASSUME TypeOK, [Next]_vars
  PROVE  /\ server = "dead" => server' = "dead"
         /\ SomeoneKilled => SomeoneKilled'
         /\ \/ Owed' = Owed /\ Waiting' = Waiting
            \/ server' = "dead" /\ Owed' <= Owed /\ Waiting' = Waiting
            \/ Owed' = Owed + 1 /\ Cardinality(Waiting') = Cardinality(Waiting) + 1
            \/ Owed' = Owed - 1 /\ Cardinality(Waiting') = Cardinality(Waiting) - 1
            \/ /\ Owed' = Owed /\ SomeoneKilled'
               /\ Cardinality(Waiting') <= Cardinality(Waiting)
<1>n. /\ queries \in Nat /\ replies \in Seq(Nat) /\ Len(replies) \in Nat
      /\ pc \in [Clients -> ClientLabels]
  BY DEF TypeOK
<1>1. CASE ServerStep
  <2>1. Waiting' = Waiting /\ (SomeoneKilled => SomeoneKilled')
    BY <1>1 DEF ServerStep, clientVars, Waiting, SomeoneKilled
  <2>2. CASE MessageQueueParam
    BY <2>1, <2>2 DEF MessageQueueParam, Owed
  <2>3. CASE SetParam
    BY <2>1, <2>3 DEF SetParam, Measure, Owed
  <2>4. CASE ReceiveQuery
    BY <1>n, <2>1, <2>4 DEF ReceiveQuery, Receive, Owed
  <2>5. CASE SendReply
    <3>1. Len(replies') = Len(replies) + 1
      BY <1>n, <2>5 DEF SendReply, Send, TypeOK
    <3> QED
      BY <1>n, <2>1, <2>5, <3>1 DEF SendReply, Send, Owed
  <2> QED
    BY <1>1, <2>2, <2>3, <2>4, <2>5 DEF ServerStep
<1>2. CASE KillServer
  BY <1>2, <1>n DEF KillServer, Owed, Waiting, SomeoneKilled
<1>3. ASSUME NEW c \in Clients, StartClient(c), UNCHANGED serverVars
      PROVE  /\ Owed' = Owed /\ Waiting' = Waiting /\ server' = server
             /\ SomeoneKilled => SomeoneKilled'
  BY <1>3, <1>n DEF StartClient, serverVars, Waiting, Owed, SomeoneKilled
<1>4. ASSUME NEW c \in Clients, SendQuery(c), UNCHANGED serverVars
      PROVE  /\ Owed' = Owed + 1 /\ server' = server
             /\ Cardinality(Waiting') = Cardinality(Waiting) + 1
             /\ SomeoneKilled => SomeoneKilled'
  <2>1. c \notin Waiting /\ Waiting' = Waiting \cup {c}
    BY <1>4, <1>n DEF SendQuery, Waiting
  <2>2. Cardinality(Waiting') = Cardinality(Waiting) + 1
    BY <2>1, WaitingFinite, FS_AddElement
  <2>3. Owed' = Owed + 1 /\ server' = server
    BY <1>4, <1>n DEF SendQuery, serverVars, Owed
  <2>4. SomeoneKilled => SomeoneKilled'
    BY <1>4, <1>n DEF SendQuery, SomeoneKilled
  <2> QED
    BY <2>2, <2>3, <2>4
<1>5. ASSUME NEW c \in Clients, ReceiveReply(c), UNCHANGED serverVars
      PROVE  /\ Owed' = Owed - 1 /\ server' = server
             /\ Cardinality(Waiting') = Cardinality(Waiting) - 1
             /\ SomeoneKilled => SomeoneKilled'
  <2>1. c \in Waiting /\ Waiting' = Waiting \ {c}
    <3>1. c \in Waiting /\ pc'[c] \in {"query2", "printed"}
      BY <1>5, <1>n DEF ReceiveReply, Waiting
    <3>2. \A d \in Clients \ {c} : pc'[d] = pc[d]
      BY <1>5, <1>n DEF ReceiveReply
    <3> QED
      BY <3>1, <3>2 DEF Waiting
  <2>2. Cardinality(Waiting') = Cardinality(Waiting) - 1
    BY <2>1, WaitingFinite, FS_RemoveElement
  <2>3. Len(replies') = Len(replies) - 1
    BY <1>5, <1>n DEF ReceiveReply
  <2>4. Owed' = Owed - 1
    BY <1>5, <1>n, <2>3 DEF ReceiveReply, serverVars, Owed
  <2>5. SomeoneKilled => SomeoneKilled'
    BY <1>5, <1>n DEF ReceiveReply, SomeoneKilled
  <2> QED
    BY <1>5, <2>2, <2>4, <2>5 DEF serverVars
<1>6. ASSUME NEW c \in Clients, KillClient(c)
      PROVE  /\ Owed' = Owed /\ server' = server /\ SomeoneKilled'
             /\ Cardinality(Waiting') <= Cardinality(Waiting)
  <2>1. Waiting' \in SUBSET Waiting
    BY <1>6, <1>n DEF KillClient, Waiting
  <2>2. Cardinality(Waiting') <= Cardinality(Waiting)
    BY <2>1, WaitingFinite, FS_Subset
  <2> QED
    BY <1>6, <1>n, <2>2 DEF KillClient, Owed, SomeoneKilled
<1>7. CASE UNCHANGED vars
  BY <1>7 DEF vars, Owed, Waiting, SomeoneKilled
<1> QED
  BY <1>1, <1>2, <1>3, <1>4, <1>5, <1>6, <1>7 DEF Next, ClientStep

\* Both sides of the count are numbers, before and after a step.
LEMMA CountsNat ==
  ASSUME TypeOK
  PROVE  /\ Owed \in Nat /\ Cardinality(Waiting) \in Nat
BY WaitingFinite DEF TypeOK, Owed

Balanced == NobodyStranded /\ NothingExtra

LEMMA BalancedStep == TypeOK /\ TypeOK' /\ Balanced /\ [Next]_vars => Balanced'
<1> SUFFICES ASSUME TypeOK, TypeOK', Balanced, [Next]_vars PROVE Balanced'
  OBVIOUS
<1>1. Owed \in Nat /\ Cardinality(Waiting) \in Nat
  BY CountsNat
<1>2. Owed' \in Nat /\ Cardinality(Waiting') \in Nat
  <2>1. TypeOK' => (Owed \in Nat /\ Cardinality(Waiting) \in Nat)'
    BY CountsNat, PTL
  <2> QED
    BY <2>1
<1>3. /\ server # "dead" => Owed >= Cardinality(Waiting)
      /\ ~SomeoneKilled => Owed <= Cardinality(Waiting)
  BY DEF Balanced, NobodyStranded, NothingExtra, Owed
<1>4. /\ server' # "dead" => Owed' >= Cardinality(Waiting')
      /\ ~SomeoneKilled' => Owed' <= Cardinality(Waiting')
  BY <1>1, <1>2, <1>3, BalanceStep
<1> QED
  BY <1>4 DEF Balanced, NobodyStranded, NothingExtra, Owed

\* What is owed is what is waited for, but for what the killed left behind.
LEMMA MsgQueueBalanced == Spec => []Balanced
<1>1. Init => Balanced
  <2> SUFFICES ASSUME Init PROVE Balanced
    OBVIOUS
  <2>1. Waiting = {}
    BY DEF Init, Waiting
  <2> QED
    BY <2>1, FS_EmptySet DEF Init, Balanced, NobodyStranded, NothingExtra, Owed
<1>2. IInv => TypeOK
  BY DEF IInv
<1> QED
  BY <1>1, <1>2, BalancedStep, MsgQueueInvariant, PTL DEF Spec

\* However many clients are killed and whoever takes whose reply, no client
\* waits for a reply that nobody owes (server.c:124-135, client.c:66-71).
THEOREM MsgQueueNobodyStranded == Spec => []NobodyStranded
<1>1. Balanced => NobodyStranded
  BY DEF Balanced
<1> QED
  BY <1>1, MsgQueueBalanced, PTL

-----------------------------------------------------------------------------
(* The queue implements the service.                                       *)

\* A step changes the service's view of client c, and of no other.
OnlyOf(c) ==
  \A d \in Clients \ {c} :
    Stage(d)' = Stage(d) /\ Since(d)' = Since(d) /\ Answers(d)' = Answers(d)

LEMMA ServiceInit == Init => Service!Init
<1> SUFFICES ASSUME Init PROVE Service!Init
  OBVIOUS
<1>1. \A c \in Clients : Stage(c) = "off" /\ Since(c) = 0 /\ Answers(c) = << >>
  BY DEF Init, Stage, Since, Answers, Active
<1>2. param = 0 /\ (server = "dead") = FALSE
  BY DEF Init
<1> QED
  BY <1>1, <1>2 DEF Service!Init, Since

\* A step that neither measures nor ends the server, and that moves no client
\* past its start, an answer or its end, is none of the service.
LEMMA ServiceStutter ==
  ASSUME param' = param, server' = "dead" <=> server = "dead",
         \A c \in Clients :
           Stage(c)' = Stage(c) /\ Since(c)' = Since(c) /\ Answers(c)' = Answers(c)
  PROVE  UNCHANGED Service!vars
<1>1. (server = "dead")' = (server = "dead")
  OBVIOUS
<1> QED
  BY <1>1 DEF Service!vars, Since

LEMMA ServerStepRefines ==
  ASSUME ServerStep
  PROVE  Service!Measure \/ UNCHANGED Service!vars
<1>1. \A c \in Clients :
        Stage(c)' = Stage(c) /\ Since(c)' = Since(c) /\ Answers(c)' = Answers(c)
  BY DEF ServerStep, clientVars, Stage, Since, Answers
<1>2. CASE MessageQueueParam \/ ReceiveQuery \/ SendReply
  BY <1>1, <1>2, ServiceStutter
     DEF MessageQueueParam, ReceiveQuery, Receive, SendReply, Send
<1>3. CASE SetParam
  <2>1. (server = "dead")' = (server = "dead") /\ param' = param + 1
    BY <1>3 DEF SetParam, Measure
  <2> QED
    BY <1>1, <2>1 DEF Service!Measure, Since
<1> QED
  BY <1>2, <1>3 DEF ServerStep

\* A client that finds a reply in the queue when it starts has someone to
\* blame: a client that waits for it, or one that was killed.
LEMMA ServiceStart ==
  ASSUME TypeOK, Balanced, NEW c \in Clients,
         StartClient(c), UNCHANGED serverVars
  PROVE  Service!Start(c)
<1>1. /\ pc[c] = "off" /\ pc' = [pc EXCEPT ![c] = "query1"]
      /\ born' = [born EXCEPT ![c] = IF replies = << >> THEN param ELSE -1]
      /\ UNCHANGED <<server, param, queries, replies, first, second>>
      /\ pc \in [Clients -> ClientLabels] /\ param \in Nat
      /\ born \in [Clients -> Nat \cup {-1}]
  BY DEF StartClient, serverVars, TypeOK
<1>2. OnlyOf(c)
  BY <1>1 DEF OnlyOf, Stage, Since, Answers
<1>3. Stage(c) = "off" /\ Stage(c)' = "asking" /\ Answers(c)' = Answers(c)
  BY <1>1 DEF Stage, Answers, Active
<1>4. Since(c)' = IF replies = << >> THEN param ELSE 0
  BY <1>1 DEF Since
<1>5. ASSUME replies # << >>
      PROVE  \E d \in Clients : Stage(d) \in {"asking", "gone"}
  <2>1. CASE SomeoneKilled
    BY <2>1 DEF SomeoneKilled, Stage, Active
  <2>2. CASE ~SomeoneKilled
    <3>1. Len(replies) >= 1 /\ queries \in Nat /\ Len(replies) \in Nat
      BY <1>5 DEF TypeOK
    <3>2. Cardinality(Waiting) >= 1
      BY <2>2, <3>1, CountsNat DEF Balanced, NothingExtra, Owed
    <3>3. PICK d \in Clients : d \in Waiting
      BY <3>2, FS_EmptySet DEF Waiting
    <3> QED
      BY <3>3 DEF Waiting, Stage, Active
  <2> QED
    BY <2>1, <2>2
<1>6. (server = "dead")' = (server = "dead") /\ param' = param
  BY <1>1
<1> QED
  BY <1>2, <1>3, <1>4, <1>5, <1>6 DEF Service!Start, OnlyOf, Since

\* The oldest reply was given to no call before, and if it is printed it is
\* newer than the client.
LEMMA ServiceTake ==
  ASSUME IInv, IInv', NEW c \in Clients, ReceiveReply(c), UNCHANGED serverVars
  PROVE  Service!Take(c)
<1> DEFINE h == Head(replies)
<1>0. TypeOK /\ Numbered /\ Calls /\ Taken /\ FreshUnlessLeftover'
  BY DEF IInv
<1>1. /\ replies # << >> /\ replies' = Tail(replies) /\ born' = born
      /\ UNCHANGED <<server, param, msg>>
      /\ \/ /\ pc[c] = "reply1" /\ pc' = [pc EXCEPT ![c] = "query2"]
            /\ first' = [first EXCEPT ![c] = h] /\ second' = second
         \/ /\ pc[c] = "reply2" /\ pc' = [pc EXCEPT ![c] = "printed"]
            /\ second' = [second EXCEPT ![c] = h] /\ first' = first
  BY DEF ReceiveReply, serverVars
<1>t. /\ pc \in [Clients -> ClientLabels] /\ born \in [Clients -> Nat \cup {-1}]
      /\ first \in [Clients -> Nat] /\ second \in [Clients -> Nat] /\ param \in Nat
  BY <1>0 DEF TypeOK
<1>2. h \in Coming /\ h \in Nat /\ h >= 1
  BY <1>0, <1>1, HeadIsLeast
<1>3. h \in 1 .. param
  <2>1. 1 \in DOMAIN replies /\ h = replies[1]
    BY <1>0, <1>1, TailLemma DEF TypeOK
  <2> QED
    BY <1>0, <1>2, <1>t, <2>1 DEF Numbered
<1>4. \A d \in Clients : first[d] < h /\ second[d] < h
  BY <1>0, <1>2 DEF Taken
<1> HIDE DEF h
<1>5. OnlyOf(c) /\ Stage(c) = "asking" /\ Since(c)' = Since(c)
  BY <1>1, <1>t DEF OnlyOf, Stage, Since, Answers, Active
<1>6. /\ Stage(c)' = IF Answers(c) = << >> THEN "asking" ELSE "printed"
      /\ Answers(c)' = Append(Answers(c), h)
  <2>1. CASE pc[c] = "reply1"
    <3>1. Answers(c) = << >> /\ Answers(c)' = <<h>> /\ Stage(c)' = "asking"
      BY <1>1, <1>t, <2>1 DEF Stage, Answers, Active
    <3> QED
      BY <3>1
  <2>2. CASE pc[c] = "reply2"
    <3>1. /\ Answers(c) = <<first[c]>> /\ Answers(c)' = <<first[c], h>>
          /\ Stage(c)' = "printed"
      BY <1>1, <1>t, <2>2 DEF Stage, Answers, Active
    <3> QED
      BY <1>2, <1>t, <3>1
  <2> QED
    BY <1>1, <2>1, <2>2
<1>7. Answers(c) # << >> => h > Since(c)
  BY <1>0, <1>1, <1>2, <1>t DEF Answers, Since, FreshUnlessLeftover
<1>8. ASSUME NEW d \in Clients, NEW k \in DOMAIN Answers(d)
      PROVE  Answers(d)[k] # h
  BY <1>2, <1>4, <1>t DEF Answers
<1>9. (server = "dead")' = (server = "dead") /\ param' = param
  BY <1>1
<1>10. h \notin Service!Given
  BY <1>8 DEF Service!Given
<1>11. Service!Return(c, h)
  BY <1>5, <1>6, <1>9 DEF Service!Return, OnlyOf, Since
<1> QED
  BY <1>3, <1>7, <1>10, <1>11 DEF Service!Take, Since

LEMMA ServiceLeave ==
  ASSUME TypeOK, NEW c \in Clients, KillClient(c)
  PROVE  Service!Leave(c)
<1>1. /\ pc[c] \in Active /\ pc' = [pc EXCEPT ![c] = "killed"]
      /\ UNCHANGED <<server, param, first, second, born>>
      /\ pc \in [Clients -> ClientLabels]
  BY DEF KillClient, TypeOK
<1>2. OnlyOf(c)
  BY <1>1 DEF OnlyOf, Stage, Since, Answers
<1>3. Stage(c) = "asking" /\ Stage(c)' = "gone" /\ Since(c)' = 0 /\ Answers(c)' = << >>
  BY <1>1 DEF Stage, Since, Answers, Active
<1>4. (server = "dead")' = (server = "dead") /\ param' = param
  BY <1>1
<1> QED
  BY <1>2, <1>3, <1>4 DEF Service!Leave, OnlyOf, Since

LEMMA ServiceStep ==
  ASSUME IInv, IInv', Balanced, [Next]_vars
  PROVE  [Service!Next]_Service!vars
<1>0. TypeOK
  BY DEF IInv
<1>1. CASE ServerStep
  BY <1>1, ServerStepRefines DEF Service!Next
<1>2. CASE KillServer
  <2>1. /\ (server = "dead")' = TRUE /\ param' = param
        /\ \A c \in Clients :
             Stage(c)' = Stage(c) /\ Since(c)' = Since(c) /\ Answers(c)' = Answers(c)
    BY <1>2 DEF KillServer, Stage, Since, Answers
  <2>2. Service!Die
    BY <2>1 DEF Service!Die, Since
  <2> QED
    BY <2>2 DEF Service!Next
<1>3. ASSUME NEW c \in Clients, StartClient(c), UNCHANGED serverVars
      PROVE  Service!Next
  BY <1>0, <1>3, ServiceStart DEF Service!Next
<1>4. ASSUME NEW c \in Clients, SendQuery(c), UNCHANGED serverVars
      PROVE  UNCHANGED Service!vars
  <2>1. \A d \in Clients :
          Stage(d)' = Stage(d) /\ Since(d)' = Since(d) /\ Answers(d)' = Answers(d)
    BY <1>0, <1>4 DEF SendQuery, Stage, Since, Answers, Active, TypeOK
  <2> QED
    BY <1>4, <2>1, ServiceStutter DEF serverVars
<1>5. ASSUME NEW c \in Clients, ReceiveReply(c), UNCHANGED serverVars
      PROVE  Service!Next
  BY <1>5, ServiceTake DEF Service!Next
<1>6. ASSUME NEW c \in Clients, KillClient(c) PROVE Service!Next
  BY <1>0, <1>6, ServiceLeave DEF Service!Next
<1>7. CASE UNCHANGED vars
  BY <1>7, ServiceStutter DEF vars, Stage, Since, Answers
<1> QED
  BY <1>1, <1>2, <1>3, <1>4, <1>5, <1>6, <1>7 DEF Next, ClientStep

\* The queue implements the service: whoever takes a reply takes a new
\* measurement, and only clients still asking or killed can leave a stale one
\* to a client that starts (server.c:119-135, client.c:66-75).
THEOREM MsgQueueRefinement == Spec => ImplementsService
BY ServiceInit, ServiceStep, MsgQueueInvariant, MsgQueueBalanced, PTL
   DEF Spec, ImplementsService, Service!Spec

=============================================================================
