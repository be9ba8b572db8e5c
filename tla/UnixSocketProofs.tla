-------------------------- MODULE UnixSocketProofs --------------------------
(***************************************************************************)
(* What every run of the unix socket keeps, for any number of servers and  *)
(* clients and any backlog: IInv of UnixSocket is an invariant, and with   *)
(* it PrintedFresh and ConnectionHeldOnce; and the socket implements       *)
(* MeasuringService.                                                       *)
(*                                                                         *)
(* Connections move one at a time: Connect gives one to a server, Accept   *)
(* leaves each with its server, Write lets one go, the death of a server   *)
(* lets all of its go.  The lemmas say so in terms of Waits and Holds; the *)
(* rest of the proof never looks into a backlog.                           *)
(***************************************************************************)
EXTENDS UnixSocket, TLAPS

\* What is left of a sequence without its head.
LEMMA TailLemma ==
  ASSUME NEW S, NEW q \in Seq(S), q # << >>
  PROVE  /\ Tail(q) \in Seq(S) /\ Len(Tail(q)) = Len(q) - 1 /\ Len(q) \in Nat
         /\ Head(q) \in S /\ 1 \in DOMAIN q /\ Head(q) = q[1]
         /\ \A k \in DOMAIN Tail(q) :
              k \in Nat /\ k >= 1 /\ k + 1 \in DOMAIN q /\ Tail(q)[k] = q[k + 1]
         /\ \A k \in DOMAIN q : k # 1 =>
              k \in Nat /\ k - 1 \in DOMAIN Tail(q) /\ Tail(q)[k - 1] = q[k]
         /\ NoneTwice(q) => NoneTwice(Tail(q))
<1>1. \A k \in DOMAIN Tail(q) :
        k \in Nat /\ k >= 1 /\ k + 1 \in DOMAIN q /\ Tail(q)[k] = q[k + 1]
  OBVIOUS
<1>2. NoneTwice(q) => NoneTwice(Tail(q))
  BY <1>1 DEF NoneTwice
<1> QED
  BY <1>2

\* A sequence with one more at its end.
LEMMA AppendLemma ==
  ASSUME NEW S, NEW q \in Seq(S), NEW n \in S
  PROVE  /\ Append(q, n) \in Seq(S) /\ Len(q) \in Nat
         /\ Len(Append(q, n)) = Len(q) + 1
         /\ Len(q) + 1 \in DOMAIN Append(q, n) /\ Append(q, n)[Len(q) + 1] = n
         /\ Len(q) + 1 \notin DOMAIN q
         /\ \A k \in DOMAIN q : k \in DOMAIN Append(q, n) /\ Append(q, n)[k] = q[k]
         /\ \A k \in DOMAIN Append(q, n) : k \in DOMAIN q \/ k = Len(q) + 1
         /\ NoneTwice(q) /\ (\A k \in DOMAIN q : q[k] # n) => NoneTwice(Append(q, n))
<1>1. /\ \A k \in DOMAIN q : Append(q, n)[k] = q[k]
      /\ \A k \in DOMAIN Append(q, n) : k \in DOMAIN q \/ k = Len(q) + 1
      /\ Append(q, n)[Len(q) + 1] = n
  OBVIOUS
<1>2. NoneTwice(q) /\ (\A k \in DOMAIN q : q[k] # n) => NoneTwice(Append(q, n))
  BY <1>1 DEF NoneTwice
<1> QED
  BY <1>2

LEMMA ConstantsLemma ==
  /\ \A s \in Servers : s \in Int /\ s >= 1
  /\ \A c \in Clients : c \in Int /\ c >= 1
  /\ Backlog \in Nat
BY CountsAssumption, BacklogAssumption DEF Servers, Clients

-----------------------------------------------------------------------------
\* The variables keep their types, and the backlogs their length
\* (server.c:36-70, client.c:18-47).
LEMMA TypeStep == TypeOK /\ [Next]_vars => TypeOK'
<1> SUFFICES ASSUME TypeOK, [Next]_vars PROVE TypeOK'
  OBVIOUS
<1>p. path \in Servers \cup {Absent, Leftover} /\ serrno \in [Servers -> BOOLEAN]
  BY DEF TypeOK
<1>s. spc \in [Servers -> ServerLabels]
  BY DEF TypeOK
<1>g. serving \in [Servers -> Clients \cup {Nobody}]
  BY DEF TypeOK
<1>b. /\ backlog \in [Servers -> Seq(Clients)]
      /\ \A s \in Servers : Len(backlog[s]) <= Backlog + 1
  BY DEF TypeOK
<1>c. cpc \in [Clients -> ClientLabels]
  BY DEF TypeOK
<1>n. conn \in [Clients -> ConnStates]
  BY DEF TypeOK
<1>i. inbox \in [Clients -> 0 .. clock] /\ clock \in Nat /\ param \in [Servers -> 0 .. clock]
  BY DEF TypeOK
<1>f. /\ first \in [Clients -> -1 .. clock] /\ second \in [Clients -> -1 .. clock]
      /\ born \in [Clients -> 0 .. clock]
  BY DEF TypeOK
<1>1. ASSUME NEW s \in Servers, StartServer(s), UNCHANGED clientVars PROVE TypeOK'
  <2>1. spc' \in [Servers -> ServerLabels]
    BY <1>1, <1>s DEF StartServer, SGoto, ServerLabels
  <2> QED
    BY <1>1, <2>1 DEF StartServer, clientVars, TypeOK
<1>2. ASSUME NEW s \in Servers, ServerStep(s) PROVE TypeOK'
  <2>0. UNCHANGED <<cpc, first, second, born>>
    BY <1>2 DEF ServerStep, clientVars
  <2>1. CASE Unlink(s)
    <3>1. spc' \in [Servers -> ServerLabels]
      BY <2>1, <1>s DEF Unlink, SGoto, ServerLabels
    <3> QED
      BY <2>0, <2>1, <3>1 DEF Unlink, TypeOK
  <2>2. CASE Bind(s)
    <3>1. spc' \in [Servers -> ServerLabels]
      BY <2>2, <1>s DEF Bind, SGoto, ServerLabels
    <3> QED
      BY <2>0, <2>2, <3>1 DEF Bind, TypeOK
  <2>3. CASE Listen(s)
    <3>1. spc' \in [Servers -> ServerLabels]
      BY <2>3, <1>s DEF Listen, SGoto, ServerLabels, Listening
    <3> QED
      BY <2>0, <2>3, <3>1 DEF Listen, TypeOK
  <2>4. CASE SetParam(s)
    <3>1. spc' \in [Servers -> ServerLabels]
      BY <2>4, <1>s DEF SetParam, Measure, SGoto, ServerLabels, Listening
    <3>2. /\ clock' \in Nat /\ param' \in [Servers -> 0 .. clock']
          /\ inbox' \in [Clients -> 0 .. clock'] /\ born' \in [Clients -> 0 .. clock']
          /\ first' \in [Clients -> -1 .. clock'] /\ second' \in [Clients -> -1 .. clock']
      BY <2>0, <2>4, <1>i, <1>f DEF SetParam, Measure
    <3> QED
      BY <2>0, <2>4, <3>1, <3>2 DEF SetParam, Measure, TypeOK
  <2>5. CASE Accept(s)
    <3>1. spc' \in [Servers -> ServerLabels]
      BY <2>5, <1>s DEF Accept, SGoto, ServerLabels, Listening
    <3>2. /\ Head(backlog[s]) \in Clients /\ Tail(backlog[s]) \in Seq(Clients)
          /\ Len(Tail(backlog[s])) <= Backlog + 1
      BY <2>5, <1>b, TailLemma, ConstantsLemma DEF Accept
    <3>3. /\ backlog' \in [Servers -> Seq(Clients)]
          /\ \A t \in Servers : Len(backlog'[t]) <= Backlog + 1
          /\ serving' \in [Servers -> Clients \cup {Nobody}]
      BY <2>5, <1>b, <1>g, <3>2 DEF Accept
    <3>4. conn' \in [Clients -> ConnStates]
      BY <2>5, <1>n DEF Accept, ConnStates
    <3> QED
      BY <2>0, <2>5, <3>1, <3>3, <3>4 DEF Accept, TypeOK
  <2>6. CASE Write(s)
    <3>1. spc' \in [Servers -> ServerLabels]
      BY <2>6, <1>s DEF Write, SGoto, ServerLabels, Listening
    <3>2. conn' \in [Clients -> ConnStates]
      BY <2>6, <1>n DEF Write, ConnStates
    <3>3. inbox' \in [Clients -> 0 .. clock] /\ param' \in [Servers -> 0 .. clock]
      BY <2>6, <1>i DEF Write
    <3>4. /\ backlog' \in [Servers -> Seq(Clients)]
          /\ \A t \in Servers : Len(backlog'[t]) <= Backlog + 1
      <4>1. << >> \in Seq(Clients) /\ Len(<< >>) <= Backlog + 1
        BY ConstantsLemma
      <4> QED
        BY <2>6, <1>b, <4>1 DEF Write
    <3> QED
      BY <2>0, <2>6, <3>1, <3>2, <3>3, <3>4 DEF Write, TypeOK
  <2>7. CASE CloseClient(s)
    <3>1. spc' \in [Servers -> ServerLabels] /\ serving' \in [Servers -> Clients \cup {Nobody}]
      BY <2>7, <1>s, <1>g DEF CloseClient, CloseThen, SGoto, ServerLabels, Listening
    <3> QED
      BY <2>0, <2>7, <3>1 DEF CloseClient, CloseThen, TypeOK
  <2> QED
    BY <1>2, <2>1, <2>2, <2>3, <2>4, <2>5, <2>6, <2>7 DEF ServerStep
<1>3. ASSUME NEW s \in Servers, Signal(s) PROVE TypeOK'
  <2>1. spc' \in [Servers -> ServerLabels] /\ serving' \in [Servers -> Clients \cup {Nobody}]
    BY <1>3, <1>s, <1>g DEF Signal, SGoto, ServerLabels
  <2>2. conn' \in [Clients -> ConnStates]
    BY <1>3, <1>n DEF Signal, ConnStates
  <2>3. param' \in [Servers -> 0 .. clock]
    BY <1>3, <1>i DEF Signal
  <2>4. /\ backlog' \in [Servers -> Seq(Clients)]
        /\ \A t \in Servers : Len(backlog'[t]) <= Backlog + 1
    BY <1>3, <1>b, ConstantsLemma DEF Signal
  <2> QED
    BY <1>3, <2>1, <2>2, <2>3, <2>4 DEF Signal, TypeOK
<1>4. ASSUME NEW c \in Clients, StartClient(c),
             UNCHANGED <<path, spc, serrno, param, serving, clock>>
      PROVE  TypeOK'
  <2>1. cpc' \in [Clients -> ClientLabels] /\ born' \in [Clients -> 0 .. clock]
    BY <1>4, <1>c, <1>i, <1>f DEF StartClient, ClientLabels, Active
  <2> QED
    BY <1>4, <2>1 DEF StartClient, TypeOK
<1>5. ASSUME NEW c \in Clients, ClientStep(c) PROVE TypeOK'
  <2>0. UNCHANGED <<path, spc, serrno, param, serving, clock, born>>
    BY <1>5 DEF ClientStep, Connect, Read
  <2>1. CASE Connect(c)
    <3>1. cpc' \in [Clients -> ClientLabels]
      BY <2>1, <1>c DEF Connect, ClientLabels, Active
    <3>2. conn' \in [Clients -> ConnStates]
      BY <2>1, <1>n DEF Connect, ConnStates
    <3>3. /\ backlog' \in [Servers -> Seq(Clients)]
          /\ \A t \in Servers : Len(backlog'[t]) <= Backlog + 1
      <4>1. CASE UNCHANGED backlog
        BY <4>1, <1>b
      <4>2. ASSUME NEW s \in Servers, HasRoom(s),
                   backlog' = [backlog EXCEPT ![s] = Append(@, c)]
            PROVE  /\ backlog' \in [Servers -> Seq(Clients)]
                   /\ \A t \in Servers : Len(backlog'[t]) <= Backlog + 1
        <5>1. /\ Append(backlog[s], c) \in Seq(Clients)
              /\ Len(Append(backlog[s], c)) <= Backlog + 1
          BY <4>2, <1>b, AppendLemma, ConstantsLemma DEF HasRoom
        <5> QED
          BY <4>2, <1>b, <5>1
      <4> QED
        BY <2>1, <4>1, <4>2 DEF Connect
    <3> QED
      BY <2>0, <2>1, <3>1, <3>2, <3>3 DEF Connect, TypeOK
  <2>2. CASE Read(c)
    <3>1. cpc' \in [Clients -> ClientLabels]
      BY <2>2, <1>c DEF Read, ClientLabels, Active
    <3>2. conn' \in [Clients -> ConnStates]
      BY <2>2, <1>n DEF Read, ConnStates
    <3>3. inbox' \in [Clients -> 0 .. clock]
      BY <2>2, <1>i DEF Read
    <3>4. first' \in [Clients -> -1 .. clock] /\ second' \in [Clients -> -1 .. clock]
      <4>1. inbox[c] \in -1 .. clock /\ Garbage \in -1 .. clock
        BY <1>i DEF Garbage
      <4> QED
        BY <2>2, <1>f, <4>1 DEF Read
    <3> QED
      BY <2>0, <2>2, <3>1, <3>2, <3>3, <3>4 DEF Read, TypeOK
  <2> QED
    BY <1>5, <2>1, <2>2 DEF ClientStep
<1>6. ASSUME NEW c \in Clients, KillClient(c) PROVE TypeOK'
  <2>1. cpc' \in [Clients -> ClientLabels]
    BY <1>6, <1>c DEF KillClient, ClientLabels
  <2>2. conn' \in [Clients -> ConnStates]
    BY <1>6, <1>n DEF KillClient, ConnStates
  <2>3. /\ inbox' \in [Clients -> 0 .. clock] /\ first' \in [Clients -> -1 .. clock]
        /\ born' \in [Clients -> 0 .. clock]
    BY <1>6, <1>i, <1>f DEF KillClient
  <2> QED
    BY <1>6, <2>1, <2>2, <2>3 DEF KillClient, TypeOK
<1>7. CASE UNCHANGED vars
  BY <1>7 DEF vars, TypeOK
<1> QED
  BY <1>1, <1>2, <1>3, <1>4, <1>5, <1>6, <1>7 DEF Next

-----------------------------------------------------------------------------
(* Where the connections are.                                              *)

Places == Connected /\ ConnectionHeldOnce

\* connect() puts c at the end of one backlog (client.c:27-31).
LEMMA ConnectMoves ==
  ASSUME TypeOK, NEW s \in Servers, NEW c \in Clients,
         backlog' = [backlog EXCEPT ![s] = Append(@, c)], UNCHANGED <<spc, serving>>
  PROVE  \A t \in Servers, d \in Clients :
           /\ Waits(t, d)' <=> Waits(t, d) \/ (t = s /\ d = c)
           /\ Holds(t, d)' <=> Holds(t, d) \/ (t = s /\ d = c)
<1>1. backlog \in [Servers -> Seq(Clients)]
  BY DEF TypeOK
<1>2. ASSUME NEW d \in Clients PROVE Waits(s, d)' <=> Waits(s, d) \/ d = c
  <2>1. backlog[s] \in Seq(Clients) /\ backlog'[s] = Append(backlog[s], c)
    BY <1>1
  <2> QED
    BY <2>1, AppendLemma DEF Waits
<1>3. ASSUME NEW t \in Servers \ {s}, NEW d \in Clients PROVE Waits(t, d)' <=> Waits(t, d)
  BY <1>1 DEF Waits
<1> QED
  BY <1>2, <1>3 DEF Holds

\* accept() takes the oldest connection of s out of its backlog, and s has it
\* still (server.c:63-64).
LEMMA AcceptMoves ==
  ASSUME TypeOK, ConnectionHeldOnce, NEW s \in Servers, Accept(s)
  PROVE  /\ serving'[s] \in Clients /\ Waits(s, serving'[s])
         /\ \A t \in Servers, d \in Clients :
              /\ Waits(t, d)' <=> Waits(t, d) /\ ~(t = s /\ d = serving'[s])
              /\ Holds(t, d)' <=> Holds(t, d)
<1>1. /\ backlog \in [Servers -> Seq(Clients)] /\ backlog[s] # << >>
      /\ spc \in [Servers -> ServerLabels] /\ serving \in [Servers -> Clients \cup {Nobody}]
      /\ spc[s] = "accept" /\ spc' = [spc EXCEPT ![s] = "write"]
      /\ serving' = [serving EXCEPT ![s] = Head(backlog[s])]
      /\ backlog' = [backlog EXCEPT ![s] = Tail(@)]
  BY DEF TypeOK, Accept, SGoto
<1> DEFINE q == backlog[s]
<1>2. q \in Seq(Clients) /\ q # << >> /\ backlog'[s] = Tail(q) /\ serving'[s] = Head(q)
  BY <1>1
<1>3. /\ Head(q) \in Clients /\ 1 \in DOMAIN q /\ Head(q) = q[1]
      /\ \A k \in DOMAIN Tail(q) :
           k \in Nat /\ k >= 1 /\ k + 1 \in DOMAIN q /\ Tail(q)[k] = q[k + 1]
      /\ \A k \in DOMAIN q : k # 1 =>
           k \in Nat /\ k - 1 \in DOMAIN Tail(q) /\ Tail(q)[k - 1] = q[k]
  BY <1>2, TailLemma
<1>4. \A j, k \in DOMAIN q : q[j] = q[k] => j = k
  BY DEF ConnectionHeldOnce, NoneTwice
<1> HIDE DEF q
<1>5. ASSUME NEW d \in Clients
      PROVE  (\E k \in DOMAIN Tail(q) : Tail(q)[k] = d)
               <=> (\E k \in DOMAIN q : q[k] = d) /\ d # Head(q)
  <2>1. ASSUME NEW k \in DOMAIN Tail(q), Tail(q)[k] = d
        PROVE  (\E j \in DOMAIN q : q[j] = d) /\ d # Head(q)
    <3>1. k + 1 \in DOMAIN q /\ q[k + 1] = d /\ k + 1 # 1
      BY <1>3, <2>1
    <3> QED
      BY <1>3, <1>4, <3>1
  <2>2. ASSUME NEW k \in DOMAIN q, q[k] = d, d # Head(q)
        PROVE  \E j \in DOMAIN Tail(q) : Tail(q)[j] = d
    BY <1>3, <2>2
  <2> QED
    BY <2>1, <2>2
<1>6. Waits(s, serving'[s])
  BY <1>2, <1>3 DEF Waits, q
<1>7. \A d \in Clients : Waits(s, d)' <=> Waits(s, d) /\ d # serving'[s]
  BY <1>2, <1>5 DEF Waits, q
<1>8. \A t \in Servers \ {s}, d \in Clients : Waits(t, d)' <=> Waits(t, d)
  BY <1>1 DEF Waits
<1>9. \A d \in Clients : Holds(s, d)' <=> Holds(s, d)
  BY <1>1, <1>6, <1>7 DEF Holds
<1>10. \A t \in Servers \ {s}, d \in Clients : Holds(t, d)' <=> Holds(t, d)
  BY <1>1, <1>8 DEF Holds
<1> QED
  BY <1>2, <1>3, <1>6, <1>7, <1>8, <1>9, <1>10

\* A server that ends has nothing left, and takes nothing from the others
\* (server.c:79-137).
LEMMA EndMoves ==
  ASSUME TypeOK, NEW s \in Servers,
         backlog' = [backlog EXCEPT ![s] = << >>], spc' = [spc EXCEPT ![s] = "killed"],
         \A t \in Servers \ {s} : serving'[t] = serving[t]
  PROVE  /\ \A c \in Clients : ~Waits(s, c)' /\ ~Holds(s, c)'
         /\ \A t \in Servers \ {s}, c \in Clients :
              (Waits(t, c)' <=> Waits(t, c)) /\ (Holds(t, c)' <=> Holds(t, c))
<1>1. backlog \in [Servers -> Seq(Clients)] /\ spc \in [Servers -> ServerLabels]
  BY DEF TypeOK
<1>2. backlog'[s] = << >> /\ spc'[s] = "killed"
  BY <1>1
<1>3. \A c \in Clients : ~Waits(s, c)' /\ ~Holds(s, c)'
  BY <1>2 DEF Waits, Holds
<1>4. \A t \in Servers \ {s} : backlog'[t] = backlog[t] /\ spc'[t] = spc[t]
  BY <1>1
<1> QED
  BY <1>3, <1>4 DEF Waits, Holds

\* A server that gets on with its work while nobody's connection is touched.
LEMMA QuietMoves ==
  ASSUME TypeOK, UNCHANGED backlog, NEW s \in Servers, NEW label,
         spc' = [spc EXCEPT ![s] = label], spc[s] # "write", label # "write",
         \A t \in Servers \ {s} : serving'[t] = serving[t]
  PROVE  \A t \in Servers, c \in Clients :
           (Waits(t, c)' <=> Waits(t, c)) /\ (Holds(t, c)' <=> Holds(t, c))
BY DEF TypeOK, Waits, Holds

\* Connections stay where they are when no backlog and no answer moves.
LEMMA PlacesKept ==
  ASSUME TypeOK, Places, NEW s \in Servers, NEW label \in ServerLabels,
         spc' = [spc EXCEPT ![s] = label],
         spc[s] \notin {"write", "killed"}, label \notin {"write", "killed"},
         label \notin Listening => spc[s] \notin Listening,
         \A t \in Servers \ {s} : serving'[t] = serving[t],
         UNCHANGED <<backlog, conn, cpc>>
  PROVE  Places'
<1>1. spc \in [Servers -> ServerLabels] /\ spc'[s] = label
      /\ \A t \in Servers \ {s} : spc'[t] = spc[t] /\ serving'[t] = serving[t]
  BY DEF TypeOK
<1>2. \A t \in Servers, c \in Clients :
        (Waits(t, c)' <=> Waits(t, c)) /\ (Holds(t, c)' <=> Holds(t, c))
  BY QuietMoves
<1>3. Connected'
  BY <1>1, <1>2 DEF Places, Connected, Listening
<1>4. ConnectionHeldOnce'
  <2>1. ASSUME NEW c \in Clients
        PROVE  /\ conn'[c] = "pending" =>
                    \E t \in Servers : spc'[t] \in Listening /\ Waits(t, c)'
               /\ conn'[c] = "accepted" =>
                    \E t \in Servers : spc'[t] = "write" /\ serving'[t] = c
               /\ \A t, u \in Servers : Holds(t, c)' /\ Holds(u, c)' => t = u
    BY <1>1, <1>2 DEF Places, ConnectionHeldOnce
  <2>2. ASSUME NEW t \in Servers
        PROVE  /\ spc'[t] = "write" => ~Waits(t, serving[t])'
               /\ NoneTwice(backlog[t])'
    BY <1>1, <1>2 DEF Places, ConnectionHeldOnce, NoneTwice, Waits
  <2> QED
    BY <2>1, <2>2 DEF ConnectionHeldOnce
<1> QED
  BY <1>3, <1>4 DEF Places

LEMMA PlacesConnect ==
  ASSUME TypeOK, TypeOK', Places, NEW c \in Clients, ClientStep(c), Connect(c)
  PROVE  Places'
<1>1. /\ UNCHANGED <<spc, serving>>
      /\ cpc[c] \in {"connect1", "connect2"} /\ conn[c] = "none"
      /\ cpc \in [Clients -> ClientLabels] /\ conn \in [Clients -> ConnStates]
      /\ backlog \in [Servers -> Seq(Clients)]
  BY DEF ClientStep, Connect, TypeOK, Places, Connected
<1>2. CASE UNCHANGED <<backlog, conn>> /\ cpc' = [cpc EXCEPT ![c] = "failed"]
  <2>1. \A t \in Servers, d \in Clients :
          (Waits(t, d)' <=> Waits(t, d)) /\ (Holds(t, d)' <=> Holds(t, d))
    BY <1>1, <1>2 DEF Waits, Holds
  <2>2. Connected'
    BY <1>1, <1>2, <2>1 DEF Places, Connected
  <2>3. ConnectionHeldOnce'
    BY <1>1, <1>2, <2>1 DEF Places, ConnectionHeldOnce, NoneTwice, Waits, Holds
  <2> QED
    BY <2>2, <2>3 DEF Places
<1>3. ASSUME NEW s \in Servers, spc[s] \in Listening,
             backlog' = [backlog EXCEPT ![s] = Append(@, c)],
             conn' = [conn EXCEPT ![c] = "pending"],
             cpc' = [cpc EXCEPT ![c] = IF @ = "connect1" THEN "read1" ELSE "read2"]
      PROVE  Places'
  <2>1. \A t \in Servers, d \in Clients :
          /\ Waits(t, d)' <=> Waits(t, d) \/ (t = s /\ d = c)
          /\ Holds(t, d)' <=> Holds(t, d) \/ (t = s /\ d = c)
    BY <1>1, <1>3, ConnectMoves
  <2>2. \A t \in Servers : ~Waits(t, c) /\ ~Holds(t, c)
    BY <1>1 DEF Places, Connected, Holds
  <2>3. cpc'[c] \in {"read1", "read2"} /\ conn'[c] = "pending"
        /\ \A d \in Clients \ {c} : cpc'[d] = cpc[d] /\ conn'[d] = conn[d]
    BY <1>1, <1>3
  <2>4. Connected'
    <3>1. \A t \in Servers : spc'[t] \notin Listening => backlog'[t] = << >>
      BY <1>1, <1>3 DEF Places, Connected
    <3>2. \A t \in Servers, d \in Clients :
            /\ Waits(t, d)' => conn'[d] = "pending" \/ cpc'[d] = "killed"
            /\ spc'[t] = "write" /\ serving'[t] = d => conn'[d] = "accepted" \/ cpc'[d] = "killed"
      BY <1>1, <2>1, <2>2, <2>3 DEF Places, Connected, Holds
    <3>3. \A d \in Clients :
            /\ conn'[d] # "none" <=> cpc'[d] \in {"read1", "read2"}
            /\ conn'[d] = "eof" => \E t \in Servers : spc'[t] = "killed" /\ serving'[t] = d
      BY <1>1, <2>3 DEF Places, Connected
    <3>4. \A t \in Servers : spc'[t] = "write" => serving'[t] \in Clients
      BY <1>1 DEF Places, Connected
    <3> QED
      BY <3>1, <3>2, <3>3, <3>4 DEF Connected
  <2>5. ConnectionHeldOnce'
    <3>1. ASSUME NEW d \in Clients
          PROVE  /\ conn'[d] = "pending" =>
                      \E t \in Servers : spc'[t] \in Listening /\ Waits(t, d)'
                 /\ conn'[d] = "accepted" =>
                      \E t \in Servers : spc'[t] = "write" /\ serving'[t] = d
                 /\ \A t, u \in Servers : Holds(t, d)' /\ Holds(u, d)' => t = u
      BY <1>1, <1>3, <2>1, <2>2, <2>3 DEF Places, ConnectionHeldOnce
    <3>2. ASSUME NEW t \in Servers PROVE spc'[t] = "write" => ~Waits(t, serving[t])'
      BY <1>1, <2>1, <2>2 DEF Places, Connected, ConnectionHeldOnce, Holds
    <3>3. ASSUME NEW t \in Servers PROVE NoneTwice(backlog[t])'
      <4>1. CASE t = s
        BY <1>1, <1>3, <2>2, <4>1, AppendLemma DEF Places, ConnectionHeldOnce, Waits
      <4>2. CASE t # s
        BY <1>1, <1>3, <4>2 DEF Places, ConnectionHeldOnce
      <4> QED
        BY <4>1, <4>2
    <3> QED
      BY <3>1, <3>2, <3>3 DEF ConnectionHeldOnce
  <2> QED
    BY <2>4, <2>5 DEF Places
<1> QED
  BY <1>2, <1>3 DEF Connect, Reachable

LEMMA PlacesAccept ==
  ASSUME TypeOK, Places, NEW s \in Servers, Accept(s), UNCHANGED clientVars
  PROVE  Places'
<1> DEFINE a == serving'[s]
<1>1. /\ spc \in [Servers -> ServerLabels] /\ conn \in [Clients -> ConnStates]
      /\ spc[s] = "accept" /\ spc' = [spc EXCEPT ![s] = "write"]
      /\ \A t \in Servers \ {s} : serving'[t] = serving[t] /\ spc'[t] = spc[t]
      /\ conn' = [conn EXCEPT ![a] = IF @ = "pending" THEN "accepted" ELSE @]
      /\ cpc' = cpc
      /\ backlog \in [Servers -> Seq(Clients)] /\ backlog[s] # << >>
      /\ backlog' = [backlog EXCEPT ![s] = Tail(@)]
  BY DEF TypeOK, Accept, SGoto, clientVars
<1>2. /\ a \in Clients /\ Waits(s, a)
      /\ \A t \in Servers, d \in Clients :
           /\ Waits(t, d)' <=> Waits(t, d) /\ ~(t = s /\ d = a)
           /\ Holds(t, d)' <=> Holds(t, d)
  BY AcceptMoves DEF Places
<1>s. serving'[s] = a
  OBVIOUS
<1> HIDE DEF a
<1>o. /\ spc'[s] = "write" /\ s \in Servers
      /\ \A t \in Servers \ {s} :
           backlog'[t] = backlog[t] /\ spc'[t] = spc[t] /\ serving'[t] = serving[t]
  BY <1>1
<1>3. \A d \in Clients \ {a} : conn'[d] = conn[d]
  BY <1>1, <1>2
<1>4. \/ conn[a] = "pending" /\ conn'[a] = "accepted"
      \/ cpc[a] = "killed" /\ conn'[a] = conn[a] /\ conn[a] = "none"
  <2>1. \/ conn[a] = "pending"
        \/ cpc[a] = "killed" /\ conn[a] = "none"
    BY <1>2 DEF Places, Connected
  <2> QED
    BY <1>1, <1>2, <2>1
<1>5. \A t \in Servers \ {s} : ~Holds(t, a)
  BY <1>2 DEF Places, ConnectionHeldOnce, Holds
<1>6. Connected'
  <2>1. \A t \in Servers :
          /\ spc'[t] \notin Listening => backlog'[t] = << >>
          /\ spc'[t] = "write" => serving'[t] \in Clients
    BY <1>o, <1>s, <1>2 DEF Places, Connected, Listening
  <2>2. \A t \in Servers, d \in Clients :
          /\ Waits(t, d)' => conn'[d] = "pending" \/ cpc'[d] = "killed"
          /\ spc'[t] = "write" /\ serving'[t] = d => conn'[d] = "accepted" \/ cpc'[d] = "killed"
    <3>1. ASSUME NEW t \in Servers, NEW d \in Clients, Waits(t, d)'
          PROVE  conn'[d] = "pending" \/ cpc'[d] = "killed"
      <4>1. Waits(t, d) /\ d # a
        BY <1>2, <1>5, <3>1 DEF Holds
      <4> QED
        BY <1>1, <1>3, <4>1 DEF Places, Connected
    <3>2. ASSUME NEW t \in Servers, NEW d \in Clients, spc'[t] = "write", serving'[t] = d
          PROVE  conn'[d] = "accepted" \/ cpc'[d] = "killed"
      <4>1. CASE t = s
        BY <1>1, <1>4, <1>s, <3>2, <4>1
      <4>2. CASE t # s
        <5>1. spc[t] = "write" /\ serving[t] = d /\ d # a
          BY <1>o, <1>5, <3>2, <4>2 DEF Holds
        <5> QED
          BY <1>1, <1>3, <5>1 DEF Places, Connected
      <4> QED
        BY <4>1, <4>2
    <3> QED
      BY <3>1, <3>2
  <2>3. \A d \in Clients :
          /\ conn'[d] # "none" <=> cpc'[d] \in {"read1", "read2"}
          /\ conn'[d] = "eof" => \E t \in Servers : spc'[t] = "killed" /\ serving'[t] = d
    <3>1. ASSUME NEW d \in Clients, d # a PROVE conn'[d] = conn[d] /\ cpc'[d] = cpc[d]
      BY <1>1, <1>3, <3>1
    <3>2. conn'[a] # "none" <=> conn[a] # "none"
      BY <1>4
    <3>3. conn'[a] # "eof" /\ cpc'[a] = cpc[a]
      BY <1>1, <1>4
    <3>4. ASSUME NEW t \in Servers, spc[t] = "killed"
          PROVE  spc'[t] = "killed" /\ serving'[t] = serving[t]
      BY <1>1, <1>o, <3>4
    <3> QED
      BY <3>1, <3>2, <3>3, <3>4 DEF Places, Connected
  <2> QED
    BY <2>1, <2>2, <2>3 DEF Connected
<1>7. ConnectionHeldOnce'
  <2>1. ASSUME NEW d \in Clients
        PROVE  /\ conn'[d] = "pending" =>
                    \E t \in Servers : spc'[t] \in Listening /\ Waits(t, d)'
               /\ conn'[d] = "accepted" =>
                    \E t \in Servers : spc'[t] = "write" /\ serving'[t] = d
               /\ \A t, u \in Servers : Holds(t, d)' /\ Holds(u, d)' => t = u
    <3>1. CASE d = a
      BY <1>1, <1>2, <1>4, <3>1 DEF Places, ConnectionHeldOnce, a
    <3>2. CASE d # a
      BY <1>1, <1>2, <1>3, <3>2 DEF Places, ConnectionHeldOnce, Listening
    <3> QED
      BY <3>1, <3>2
  <2>2. ASSUME NEW t \in Servers PROVE spc'[t] = "write" => ~Waits(t, serving[t])'
    <3>1. CASE t = s
      BY <1>2, <3>1 DEF a
    <3>2. ASSUME t # s, spc'[t] = "write" PROVE ~Waits(t, serving[t])'
      <4>1. spc[t] = "write" /\ serving'[t] = serving[t]
        BY <1>o, <3>2
      <4>2. serving[t] \in Clients
        BY <4>1 DEF Places, Connected
      <4>3. ~Waits(t, serving[t])
        BY <4>1 DEF Places, ConnectionHeldOnce
      <4> QED
        BY <1>2, <4>1, <4>2, <4>3
    <3> QED
      BY <3>1, <3>2
  <2>3. ASSUME NEW t \in Servers PROVE NoneTwice(backlog[t])'
    BY <1>1, TailLemma DEF Places, ConnectionHeldOnce
  <2> QED
    BY <2>1, <2>2, <2>3 DEF ConnectionHeldOnce
<1> QED
  BY <1>6, <1>7 DEF Places

\* A server that ends, and where the connections it had go: a client that
\* waits for it is told.
LEMMA PlacesEnd ==
  ASSUME TypeOK, Places, NEW s \in Servers,
         spc[s] \notin {"killed", "gaveUp", "off"},
         backlog' = [backlog EXCEPT ![s] = << >>], spc' = [spc EXCEPT ![s] = "killed"],
         \A t \in Servers \ {s} : serving'[t] = serving[t],
         spc[s] = "write" => serving'[s] = serving[s],
         UNCHANGED cpc, conn' \in [Clients -> ConnStates],
         \A c \in Clients :
           conn'[c] = CASE Waits(s, c) /\ conn[c] = "pending" -> "reset"
                        [] spc[s] = "write" /\ serving[s] = c /\ conn[c] = "accepted" -> "eof"
                        [] OTHER -> conn[c]
  PROVE  Places'
<1>1. /\ spc \in [Servers -> ServerLabels] /\ conn \in [Clients -> ConnStates]
      /\ backlog \in [Servers -> Seq(Clients)]
      /\ spc'[s] = "killed" /\ backlog'[s] = << >>
      /\ \A t \in Servers \ {s} :
           spc'[t] = spc[t] /\ backlog'[t] = backlog[t] /\ serving'[t] = serving[t]
  BY DEF TypeOK
<1>2. /\ \A c \in Clients : ~Waits(s, c)' /\ ~Holds(s, c)'
      /\ \A t \in Servers \ {s}, c \in Clients :
           (Waits(t, c)' <=> Waits(t, c)) /\ (Holds(t, c)' <=> Holds(t, c))
  BY EndMoves
<1>3. \A c \in Clients :
        \/ conn'[c] = conn[c]
        \/ Waits(s, c) /\ conn[c] = "pending" /\ conn'[c] = "reset"
        \/ spc[s] = "write" /\ serving[s] = c /\ conn[c] = "accepted" /\ conn'[c] = "eof"
  OBVIOUS
<1>4. \A c \in Clients :
        /\ Waits(s, c) => conn'[c] # "pending"
        /\ spc[s] = "write" /\ serving[s] = c => conn'[c] # "accepted"
  BY DEF Places, Connected
<1>5. \A c \in Clients, t \in Servers \ {s} : Holds(s, c) => ~Holds(t, c)
  BY DEF Places, ConnectionHeldOnce
<1>6. Connected'
  <2>1. \A t \in Servers :
          /\ spc'[t] \notin Listening => backlog'[t] = << >>
          /\ spc'[t] = "write" => serving'[t] \in Clients
    BY <1>1 DEF Places, Connected
  <2>2. \A t \in Servers, d \in Clients :
          /\ Waits(t, d)' => conn'[d] = "pending" \/ cpc'[d] = "killed"
          /\ spc'[t] = "write" /\ serving'[t] = d => conn'[d] = "accepted" \/ cpc'[d] = "killed"
    BY <1>1, <1>2, <1>3, <1>5 DEF Places, Connected, Holds
  <2>3. \A d \in Clients :
          /\ conn'[d] # "none" <=> cpc'[d] \in {"read1", "read2"}
          /\ conn'[d] = "eof" => \E t \in Servers : spc'[t] = "killed" /\ serving'[t] = d
    <3>1. \A d \in Clients :
            /\ conn'[d] # "none" <=> conn[d] # "none"
            /\ conn'[d] = "eof" =>
                 conn[d] = "eof" \/ (spc[s] = "write" /\ serving[s] = d)
      BY <1>3
    <3>2. \A t \in Servers, d \in Clients :
            \/ spc[t] = "killed" /\ serving[t] = d
            \/ t = s /\ spc[s] = "write" /\ serving[s] = d
            => spc'[t] = "killed" /\ serving'[t] = d
      BY <1>1
    <3> QED
      BY <3>1, <3>2 DEF Places, Connected
  <2> QED
    BY <2>1, <2>2, <2>3 DEF Connected
<1>7. ConnectionHeldOnce'
  <2>1. ASSUME NEW d \in Clients
        PROVE  /\ conn'[d] = "pending" =>
                    \E t \in Servers : spc'[t] \in Listening /\ Waits(t, d)'
               /\ conn'[d] = "accepted" =>
                    \E t \in Servers : spc'[t] = "write" /\ serving'[t] = d
               /\ \A t, u \in Servers : Holds(t, d)' /\ Holds(u, d)' => t = u
    <3>1. ASSUME conn'[d] = "pending"
          PROVE  \E t \in Servers : spc'[t] \in Listening /\ Waits(t, d)'
      <4>1. conn[d] = "pending" /\ ~Waits(s, d)
        BY <1>3, <1>4, <3>1
      <4>2. PICK t \in Servers : spc[t] \in Listening /\ Waits(t, d)
        BY <4>1 DEF Places, ConnectionHeldOnce
      <4> QED
        BY <1>1, <1>2, <4>1, <4>2
    <3>2. ASSUME conn'[d] = "accepted"
          PROVE  \E t \in Servers : spc'[t] = "write" /\ serving'[t] = d
      <4>1. conn[d] = "accepted" /\ ~(spc[s] = "write" /\ serving[s] = d)
        BY <1>3, <1>4, <3>2
      <4>2. PICK t \in Servers : spc[t] = "write" /\ serving[t] = d
        BY <4>1 DEF Places, ConnectionHeldOnce
      <4> QED
        BY <1>1, <4>1, <4>2
    <3>3. \A t, u \in Servers : Holds(t, d)' /\ Holds(u, d)' => t = u
      BY <1>2 DEF Places, ConnectionHeldOnce
    <3> QED
      BY <3>1, <3>2, <3>3
  <2>2. ASSUME NEW t \in Servers, spc'[t] = "write" PROVE ~Waits(t, serving[t])'
    <3>1. t # s /\ spc[t] = "write" /\ serving'[t] = serving[t]
      BY <1>1, <2>2
    <3>2. serving[t] \in Clients
      BY <3>1 DEF Places, Connected
    <3>3. ~Waits(t, serving[t])
      BY <3>1 DEF Places, ConnectionHeldOnce
    <3> QED
      BY <1>2, <3>1, <3>2, <3>3
  <2>3. ASSUME NEW t \in Servers PROVE NoneTwice(backlog[t])'
    BY <1>1 DEF Places, ConnectionHeldOnce, NoneTwice
  <2> QED
    BY <2>1, <2>2, <2>3 DEF ConnectionHeldOnce
<1> QED
  BY <1>6, <1>7 DEF Places

LEMMA PlacesAnswer ==
  ASSUME TypeOK, Places, NEW s \in Servers, Write(s), UNCHANGED clientVars,
         conn[serving[s]] = "accepted"
  PROVE  Places'
<1> DEFINE a == serving[s]
<1>1. /\ spc \in [Servers -> ServerLabels] /\ conn \in [Clients -> ConnStates]
      /\ spc[s] = "write" /\ spc' = [spc EXCEPT ![s] = "close"]
      /\ conn' = [conn EXCEPT ![a] = "answered"] /\ conn[a] = "accepted"
      /\ UNCHANGED <<backlog, serving, cpc>> /\ a \in Clients
  BY DEF TypeOK, Write, SGoto, clientVars, Places, Connected
<1>2. \A t \in Servers, c \in Clients :
        (Waits(t, c)' <=> Waits(t, c)) /\ (Holds(t, c)' <=> Holds(t, c) /\ ~(t = s /\ c = a))
  BY <1>1 DEF Waits, Holds, Places, ConnectionHeldOnce
<1>3. \A t \in Servers : ~Waits(t, a) /\ (spc[t] = "write" /\ serving[t] = a => t = s)
  BY <1>1 DEF Places, ConnectionHeldOnce, Holds
<1> HIDE DEF a
<1>4. Connected'
  <2>1. \A t \in Servers :
          /\ spc'[t] \notin Listening => backlog'[t] = << >>
          /\ spc'[t] = "write" => serving'[t] \in Clients
    BY <1>1 DEF Places, Connected, Listening
  <2>2. \A t \in Servers, d \in Clients :
          /\ Waits(t, d)' => conn'[d] = "pending" \/ cpc'[d] = "killed"
          /\ spc'[t] = "write" /\ serving'[t] = d => conn'[d] = "accepted" \/ cpc'[d] = "killed"
    BY <1>1, <1>2, <1>3 DEF Places, Connected
  <2>3. \A d \in Clients :
          /\ conn'[d] # "none" <=> cpc'[d] \in {"read1", "read2"}
          /\ conn'[d] = "eof" => \E t \in Servers : spc'[t] = "killed" /\ serving'[t] = d
    BY <1>1 DEF Places, Connected
  <2> QED
    BY <2>1, <2>2, <2>3 DEF Connected
<1>5. ConnectionHeldOnce'
  <2>1. ASSUME NEW d \in Clients
        PROVE  /\ conn'[d] = "pending" =>
                    \E t \in Servers : spc'[t] \in Listening /\ Waits(t, d)'
               /\ conn'[d] = "accepted" =>
                    \E t \in Servers : spc'[t] = "write" /\ serving'[t] = d
               /\ \A t, u \in Servers : Holds(t, d)' /\ Holds(u, d)' => t = u
    BY <1>1, <1>2 DEF Places, ConnectionHeldOnce, Listening, a
  <2>2. ASSUME NEW t \in Servers
        PROVE  /\ spc'[t] = "write" => ~Waits(t, serving[t])'
               /\ NoneTwice(backlog[t])'
    BY <1>1 DEF Places, ConnectionHeldOnce, Waits, NoneTwice
  <2> QED
    BY <2>1, <2>2 DEF ConnectionHeldOnce
<1> QED
  BY <1>4, <1>5 DEF Places

\* A client that starts, has an answer, or is killed, while no connection
\* moves.
LEMMA PlacesClient ==
  ASSUME TypeOK, Places, NEW c \in Clients, NEW label \in ClientLabels,
         UNCHANGED <<spc, backlog, serving>>,
         cpc' = [cpc EXCEPT ![c] = label], label \notin {"read1", "read2"},
         cpc[c] # "killed",
         \/ label = "killed" /\ conn' = [conn EXCEPT ![c] = "none"]
         \/ conn[c] = "none" /\ UNCHANGED conn
         \/ conn[c] \in {"answered", "eof", "reset"} /\ conn' = [conn EXCEPT ![c] = "none"]
  PROVE  Places'
<1>1. /\ conn \in [Clients -> ConnStates] /\ cpc \in [Clients -> ClientLabels]
      /\ conn'[c] = "none" /\ cpc'[c] = label
      /\ \A d \in Clients \ {c} : conn'[d] = conn[d] /\ cpc'[d] = cpc[d]
  BY DEF TypeOK
<1>2. \A t \in Servers, d \in Clients :
        (Waits(t, d)' <=> Waits(t, d)) /\ (Holds(t, d)' <=> Holds(t, d))
  BY DEF Waits, Holds
<1>3. label = "killed" \/ \A t \in Servers : ~Holds(t, c)
  BY DEF Places, Connected, Holds
<1>4. Connected'
  <2>1. \A t \in Servers :
          /\ spc'[t] \notin Listening => backlog'[t] = << >>
          /\ spc'[t] = "write" => serving'[t] \in Clients
    BY DEF Places, Connected
  <2>2. \A t \in Servers, d \in Clients :
          /\ Waits(t, d)' => conn'[d] = "pending" \/ cpc'[d] = "killed"
          /\ spc'[t] = "write" /\ serving'[t] = d => conn'[d] = "accepted" \/ cpc'[d] = "killed"
    BY <1>1, <1>2, <1>3 DEF Places, Connected, Holds
  <2>3. \A d \in Clients :
          /\ conn'[d] # "none" <=> cpc'[d] \in {"read1", "read2"}
          /\ conn'[d] = "eof" => \E t \in Servers : spc'[t] = "killed" /\ serving'[t] = d
    BY <1>1 DEF Places, Connected
  <2> QED
    BY <2>1, <2>2, <2>3 DEF Connected
<1>5. ConnectionHeldOnce'
  <2>1. ASSUME NEW d \in Clients
        PROVE  /\ conn'[d] = "pending" =>
                    \E t \in Servers : spc'[t] \in Listening /\ Waits(t, d)'
               /\ conn'[d] = "accepted" =>
                    \E t \in Servers : spc'[t] = "write" /\ serving'[t] = d
               /\ \A t, u \in Servers : Holds(t, d)' /\ Holds(u, d)' => t = u
    BY <1>1, <1>2 DEF Places, ConnectionHeldOnce
  <2>2. ASSUME NEW t \in Servers
        PROVE  /\ spc'[t] = "write" => ~Waits(t, serving[t])'
               /\ NoneTwice(backlog[t])'
    BY DEF Places, ConnectionHeldOnce, Waits, NoneTwice
  <2> QED
    BY <2>1, <2>2 DEF ConnectionHeldOnce
<1> QED
  BY <1>4, <1>5 DEF Places

\* The steps of a server, one by one.
LEMMA PlacesServer ==
  ASSUME TypeOK, TypeOK', Places, NEW s \in Servers,
         \/ StartServer(s) /\ UNCHANGED clientVars
         \/ ServerStep(s)
         \/ Signal(s)
  PROVE  Places'
<1>t. spc \in [Servers -> ServerLabels] /\ serving \in [Servers -> Clients \cup {Nobody}]
      /\ conn \in [Clients -> ConnStates] /\ conn' \in [Clients -> ConnStates]
  BY DEF TypeOK
<1>1. CASE StartServer(s) /\ UNCHANGED clientVars
  BY <1>1, PlacesKept DEF StartServer, SGoto, clientVars, ServerLabels, Listening
<1>2. CASE ServerStep(s)
  <2>0. UNCHANGED clientVars /\ UNCHANGED cpc
    BY <1>2 DEF ServerStep, clientVars
  <2>1. CASE Unlink(s)
    BY <2>0, <2>1, PlacesKept DEF Unlink, SGoto, ServerLabels, Listening
  <2>2. CASE Bind(s)
    <3>1. PICK label \in {"listen", "gaveUp"} : spc' = [spc EXCEPT ![s] = label]
      BY <2>2 DEF Bind, SGoto
    <3>2. label \in ServerLabels /\ label \notin Listening /\ label \notin {"write", "killed"}
      BY DEF ServerLabels, Listening
    <3>3. spc[s] = "bind" /\ UNCHANGED <<backlog, serving, conn, cpc>>
      BY <2>0, <2>2 DEF Bind
    <3>4. spc[s] \notin {"write", "killed"} /\ spc[s] \notin Listening
      BY <3>3 DEF Listening
    <3> QED
      BY <3>1, <3>2, <3>3, <3>4, PlacesKept
  <2>3. CASE Listen(s)
    BY <2>0, <2>3, PlacesKept DEF Listen, SGoto, ServerLabels, Listening
  <2>4. CASE SetParam(s)
    BY <2>0, <2>4, PlacesKept DEF SetParam, Measure, SGoto, ServerLabels, Listening
  <2>5. CASE Accept(s)
    BY <2>0, <2>5, PlacesAccept
  <2>6. CASE Write(s)
    <3>1. CASE conn[serving[s]] = "accepted"
      BY <2>0, <2>6, <3>1, PlacesAnswer
    <3>2. CASE conn[serving[s]] # "accepted"
      <4>1. /\ spc[s] = "write" /\ spc' = [spc EXCEPT ![s] = "killed"]
            /\ backlog' = [backlog EXCEPT ![s] = << >>] /\ UNCHANGED <<serving, cpc>>
            /\ \A c \in Clients :
                 conn'[c] = IF Waits(s, c) /\ conn[c] = "pending" THEN "reset" ELSE conn[c]
        BY <2>0, <2>6, <3>2 DEF Write, SGoto
      <4>2. \A c \in Clients :
              conn'[c] = CASE Waits(s, c) /\ conn[c] = "pending" -> "reset"
                           [] spc[s] = "write" /\ serving[s] = c /\ conn[c] = "accepted" -> "eof"
                           [] OTHER -> conn[c]
        BY <3>2, <4>1
      <4> QED
        BY <1>t, <4>1, <4>2, PlacesEnd
    <3> QED
      BY <3>1, <3>2
  <2>7. CASE CloseClient(s)
    BY <1>t, <2>0, <2>7, PlacesKept
       DEF CloseClient, CloseThen, SGoto, ServerLabels, Listening
  <2> QED
    BY <1>2, <2>1, <2>2, <2>3, <2>4, <2>5, <2>6, <2>7 DEF ServerStep
<1>3. CASE Signal(s)
  <2>1. /\ spc[s] \notin {"killed", "gaveUp", "off"}
        /\ spc' = [spc EXCEPT ![s] = "killed"]
        /\ backlog' = [backlog EXCEPT ![s] = << >>] /\ UNCHANGED cpc
        /\ \A t \in Servers \ {s} : serving'[t] = serving[t]
        /\ spc[s] = "write" => serving'[s] = serving[s]
    BY <1>t, <1>3 DEF Signal, SGoto, Listening
  <2>2. \A c \in Clients :
          conn'[c] = CASE conn[c] = "pending" /\ Waits(s, c) -> "reset"
                       [] conn[c] = "accepted" /\ spc[s] = "write" /\ serving[s] = c -> "eof"
                       [] OTHER -> conn[c]
    BY <1>3 DEF Signal
  <2>3. \A c \in Clients :
          conn'[c] = CASE Waits(s, c) /\ conn[c] = "pending" -> "reset"
                       [] spc[s] = "write" /\ serving[s] = c /\ conn[c] = "accepted" -> "eof"
                       [] OTHER -> conn[c]
    BY <2>2
  <2> QED
    BY <1>t, <2>1, <2>3, PlacesEnd
<1> QED
  BY <1>1, <1>2, <1>3

\* A connection that is not answered is in one place, in every step
\* (server.c:43-70, client.c:18-36).
LEMMA PlacesStep == TypeOK /\ TypeOK' /\ Places /\ [Next]_vars => Places'
<1> SUFFICES ASSUME TypeOK, TypeOK', Places, [Next]_vars PROVE Places'
  OBVIOUS
<1>1. ASSUME NEW s \in Servers,
             \/ StartServer(s) /\ UNCHANGED clientVars
             \/ ServerStep(s)
             \/ Signal(s)
      PROVE  Places'
  BY <1>1, PlacesServer
<1>2. ASSUME NEW c \in Clients, StartClient(c),
             UNCHANGED <<path, spc, serrno, param, serving, clock>>
      PROVE  Places'
  <2>1. cpc[c] = "off" /\ conn[c] = "none"
    BY <1>2 DEF StartClient, TypeOK, Places, Connected, ConnStates
  <2> QED
    <3>1. "connect1" \in ClientLabels /\ "connect1" \notin {"read1", "read2"}
      BY DEF ClientLabels, Active
    <3>2. UNCHANGED <<spc, backlog, serving, conn>> /\ cpc' = [cpc EXCEPT ![c] = "connect1"]
      BY <1>2 DEF StartClient
    <3> QED
      BY <2>1, <3>1, <3>2, PlacesClient
<1>3. ASSUME NEW c \in Clients, ClientStep(c) PROVE Places'
  <2>1. CASE Connect(c)
    BY <1>3, <2>1, PlacesConnect
  <2>2. CASE Read(c)
    <3>1. /\ UNCHANGED <<spc, backlog, serving>> /\ cpc[c] # "killed"
          /\ conn[c] \in {"answered", "eof", "reset"} /\ conn' = [conn EXCEPT ![c] = "none"]
      BY <1>3, <2>2 DEF ClientStep, Read
    <3>2. \E label \in {"connect2", "printed", "failed"} : cpc' = [cpc EXCEPT ![c] = label]
      BY <2>2 DEF Read
    <3> QED
      BY <3>1, <3>2, PlacesClient DEF ClientLabels, Active
  <2> QED
    BY <1>3, <2>1, <2>2 DEF ClientStep
<1>4. ASSUME NEW c \in Clients, KillClient(c) PROVE Places'
  <2>1. "killed" \in ClientLabels /\ cpc[c] # "killed"
    BY <1>4 DEF KillClient, ClientLabels, Active
  <2>2. /\ UNCHANGED <<spc, backlog, serving>>
        /\ cpc' = [cpc EXCEPT ![c] = "killed"] /\ conn' = [conn EXCEPT ![c] = "none"]
    BY <1>4 DEF KillClient
  <2> QED
    BY <2>1, <2>2, PlacesClient
<1>5. CASE UNCHANGED vars
  BY <1>5 DEF vars, Places, Connected, ConnectionHeldOnce, Holds, Waits, NoneTwice
<1> QED
  BY <1>1, <1>2, <1>3, <1>4, <1>5 DEF Next

-----------------------------------------------------------------------------
(* What a server measured, and who gets it.                                *)

\* What a step of server s may do to the answers: it measures anew, or keeps
\* what it measured, or has nothing to answer; what a client finds in its
\* socket is what it found before or what the server gave away.
ServerMoves(s) ==
  /\ UNCHANGED <<cpc, first, second, born>> /\ spc[s] # "killed"
  /\ \A t \in Servers \ {s} :
       /\ spc'[t] = spc[t] /\ param'[t] = param[t] /\ serving'[t] = serving[t]
       /\ \A c \in Clients : Holds(t, c)' <=> Holds(t, c)
  /\ \A c \in Clients : Holds(s, c)' => Holds(s, c)
  /\ \/ ~Measured(s)'
     \/ param'[s] = clock + 1
     \/ Measured(s) /\ param'[s] = param[s] /\ \A c \in Clients : Holds(s, c) => Holds(s, c)'
  /\ path' \in {path, Absent} \/ (path' = s /\ ~Measured(s)')
  /\ \A c \in Clients : conn'[c] = "answered" =>
       \/ conn[c] = "answered" /\ inbox'[c] = inbox[c]
       \/ spc[s] = "write" /\ serving[s] = c /\ inbox'[c] = param[s] /\ ~Measured(s)'

LEMMA ServerStepMoves ==
  ASSUME TypeOK, Places, NEW s \in Servers,
         \/ StartServer(s) /\ UNCHANGED clientVars
         \/ ServerStep(s)
         \/ Signal(s)
  PROVE  ServerMoves(s)
<1>t. /\ spc \in [Servers -> ServerLabels] /\ serving \in [Servers -> Clients \cup {Nobody}]
      /\ conn \in [Clients -> ConnStates] /\ inbox \in [Clients -> 0 .. clock]
      /\ param \in [Servers -> 0 .. clock]
  BY DEF TypeOK
<1>q. ASSUME UNCHANGED <<backlog, conn, inbox, cpc, first, second, born>>,
             NEW label \in {"unlink", "bind", "listen", "gaveUp", "sleep"},
             spc' = [spc EXCEPT ![s] = label], spc[s] \notin {"write", "killed"},
             \A t \in Servers \ {s} : param'[t] = param[t] /\ serving'[t] = serving[t],
             path' \in {path, Absent, s}
      PROVE  ServerMoves(s)
  <2>1. \A t \in Servers, c \in Clients : Holds(t, c)' <=> Holds(t, c)
    BY <1>q, QuietMoves
  <2>2. spc'[s] = label /\ \A t \in Servers \ {s} : spc'[t] = spc[t]
    BY <1>q, <1>t
  <2>3. ~Measured(s)'
    BY <1>q, <2>2 DEF Measured
  <2> QED
    BY <1>q, <2>1, <2>2, <2>3 DEF ServerMoves
<1>1. CASE StartServer(s) /\ UNCHANGED clientVars
  <2>1. /\ UNCHANGED <<path, param, serving, backlog, conn, inbox, cpc, first, second, born>>
        /\ spc[s] = "off" /\ spc' = [spc EXCEPT ![s] = "unlink"]
    BY <1>1 DEF StartServer, SGoto, clientVars
  <2> QED
    BY <2>1, <1>q
<1>2. CASE ServerStep(s)
  <2>0. UNCHANGED <<cpc, first, second, born>>
    BY <1>2 DEF ServerStep, clientVars
  <2>1. CASE Unlink(s)
    <3>1. /\ UNCHANGED <<param, serving, backlog, conn, inbox>> /\ path' = Absent
          /\ spc[s] = "unlink" /\ spc' = [spc EXCEPT ![s] = "bind"]
      BY <2>1 DEF Unlink, SGoto
    <3> QED
      BY <2>0, <3>1, <1>q
  <2>2. CASE Bind(s)
    <3>1. PICK label \in {"listen", "gaveUp"} : spc' = [spc EXCEPT ![s] = label]
      BY <2>2 DEF Bind, SGoto
    <3> QED
      BY <1>q, <2>0, <2>2, <3>1 DEF Bind
  <2>3. CASE Listen(s)
    <3>1. /\ UNCHANGED <<path, param, serving, backlog, conn, inbox>>
          /\ spc[s] = "listen" /\ spc' = [spc EXCEPT ![s] = "sleep"]
      BY <2>3 DEF Listen, SGoto
    <3> QED
      BY <2>0, <3>1, <1>q
  <2>4. CASE SetParam(s)
    <3>1. /\ UNCHANGED <<path, backlog, serving, conn, inbox>>
          /\ spc[s] = "sleep" /\ spc' = [spc EXCEPT ![s] = "accept"]
          /\ param' = [param EXCEPT ![s] = clock + 1]
      BY <2>4 DEF SetParam, Measure, SGoto
    <3>2. \A t \in Servers, c \in Clients : Holds(t, c)' <=> Holds(t, c)
      BY <3>1, QuietMoves
    <3>3. param'[s] = clock + 1
          /\ \A t \in Servers \ {s} : spc'[t] = spc[t] /\ param'[t] = param[t]
      BY <1>t, <3>1
    <3> QED
      BY <2>0, <3>1, <3>2, <3>3 DEF ServerMoves
  <2>5. CASE Accept(s)
    <3>1. /\ UNCHANGED <<path, param, inbox>>
          /\ spc[s] = "accept" /\ spc' = [spc EXCEPT ![s] = "write"]
          /\ serving' = [serving EXCEPT ![s] = Head(backlog[s])]
      BY <2>5 DEF Accept, SGoto
    <3>2. \A t \in Servers, c \in Clients : Holds(t, c)' <=> Holds(t, c)
      BY <2>5, AcceptMoves DEF Places
    <3>3. \A c \in Clients : conn'[c] = "answered" => conn[c] = "answered"
      BY <1>t, <2>5 DEF Accept
    <3>4. \A t \in Servers \ {s} : spc'[t] = spc[t] /\ serving'[t] = serving[t]
      BY <1>t, <3>1
    <3> QED
      BY <2>0, <3>1, <3>2, <3>3, <3>4 DEF ServerMoves, Measured
  <2>6. CASE Write(s)
    <3>1. /\ UNCHANGED <<path, serving>> /\ spc[s] = "write" /\ serving[s] \in Clients
          /\ \A t \in Servers \ {s} : spc'[t] = spc[t] /\ param'[t] = param[t]
          /\ spc'[s] \in {"close", "killed"}
      BY <1>t, <2>6 DEF Write, SGoto, Places, Connected
    <3>2. ~Measured(s)'
      BY <3>1 DEF Measured
    <3>3. CASE conn[serving[s]] = "accepted"
      <4>1. /\ spc' = [spc EXCEPT ![s] = "close"] /\ UNCHANGED backlog
            /\ conn' = [conn EXCEPT ![serving[s]] = "answered"]
            /\ inbox' = [inbox EXCEPT ![serving[s]] = param[s]]
        BY <2>6, <3>3 DEF Write, SGoto
      <4>2. \A t \in Servers, c \in Clients :
              (Holds(t, c)' => Holds(t, c)) /\ (t # s => (Holds(t, c)' <=> Holds(t, c)))
        BY <1>t, <3>1, <4>1 DEF Holds, Waits
      <4>3. \A c \in Clients :
              IF c = serving[s] THEN inbox'[c] = param[s]
              ELSE conn'[c] = conn[c] /\ inbox'[c] = inbox[c]
        BY <1>t, <4>1
      <4> QED
        BY <2>0, <3>1, <3>2, <4>2, <4>3 DEF ServerMoves
    <3>4. CASE conn[serving[s]] # "accepted"
      <4>1. /\ spc' = [spc EXCEPT ![s] = "killed"] /\ UNCHANGED inbox
            /\ backlog' = [backlog EXCEPT ![s] = << >>]
            /\ \A c \in Clients : conn'[c] = "answered" => conn[c] = "answered"
        BY <1>t, <2>6, <3>4 DEF Write, SGoto
      <4>2. /\ \A c \in Clients : ~Holds(s, c)'
            /\ \A t \in Servers \ {s}, c \in Clients : Holds(t, c)' <=> Holds(t, c)
        BY <3>1, <4>1, EndMoves
      <4> QED
        BY <2>0, <3>1, <3>2, <4>1, <4>2 DEF ServerMoves
    <3> QED
      BY <3>3, <3>4
  <2>7. CASE CloseClient(s)
    <3>1. /\ UNCHANGED <<path, param, backlog, conn, inbox>>
          /\ \A t \in Servers \ {s} : serving'[t] = serving[t]
          /\ spc[s] = "close" /\ spc' = [spc EXCEPT ![s] = "sleep"]
      BY <1>t, <2>7 DEF CloseClient, CloseThen, SGoto
    <3> QED
      BY <2>0, <3>1, <1>q
  <2> QED
    BY <1>2, <2>1, <2>2, <2>3, <2>4, <2>5, <2>6, <2>7 DEF ServerStep
<1>3. CASE Signal(s)
  <2>1. /\ UNCHANGED <<path, inbox, cpc, first, second, born>>
        /\ spc[s] # "killed" /\ spc' = [spc EXCEPT ![s] = "killed"]
        /\ backlog' = [backlog EXCEPT ![s] = << >>]
        /\ \A c \in Clients : conn'[c] = "answered" => conn[c] = "answered"
        /\ \A t \in Servers \ {s} : param'[t] = param[t] /\ serving'[t] = serving[t]
    BY <1>t, <1>3 DEF Signal, SGoto, Listening
  <2>2. /\ \A c \in Clients : ~Holds(s, c)'
        /\ \A t \in Servers \ {s}, c \in Clients : Holds(t, c)' <=> Holds(t, c)
    BY <2>1, EndMoves
  <2>3. ~Measured(s)' /\ \A t \in Servers \ {s} : spc'[t] = spc[t]
    BY <1>t, <2>1 DEF Measured
  <2> QED
    BY <2>1, <2>2, <2>3 DEF ServerMoves
<1> QED
  BY <1>1, <1>2, <1>3

Fresh == FirstTakesStale /\ PrintedFresh

\* Only Bind puts a server at the path, and it has measured nothing yet; what
\* a server measures anew is newer than every client (server.c:52-62).
LEMMA FreshServer ==
  ASSUME TypeOK, Places, Fresh, NEW s \in Servers, ServerMoves(s)
  PROVE  Fresh'
<1>1. UNCHANGED <<cpc, first, second, born>> /\ spc[s] # "killed"
  BY DEF ServerMoves
<1>2. \A c \in Clients : born[c] \in Nat /\ born[c] <= clock /\ clock \in Nat
  BY DEF TypeOK
<1>3. ASSUME NEW t \in Servers, NEW c \in Clients
      PROVE  /\ Stale(t, c)' => Stale(t, c) /\ (Holds(t, c) => Holds(t, c)')
             /\ Holds(t, c)' => Holds(t, c)
             /\ path' = t /\ Stale(t, c)' => path = t
  <2>1. CASE t = s
    <3>1. Holds(s, c)' => Holds(s, c)
      BY DEF ServerMoves
    <3>2. ASSUME Stale(s, c)' PROVE Stale(s, c) /\ (Holds(s, c) => Holds(s, c)')
      <4>1. Measured(s)' /\ param'[s] <= born[c]
        BY <1>1, <3>2 DEF Stale
      <4>2. param'[s] # clock + 1
        BY <1>2, <4>1
      <4>3. /\ Measured(s) /\ param'[s] = param[s]
            /\ \A d \in Clients : Holds(s, d) => Holds(s, d)'
        BY <4>1, <4>2 DEF ServerMoves
      <4> QED
        BY <4>1, <4>3 DEF Stale
    <3>3. path' = s /\ Measured(s)' => path = s
      BY ConstantsLemma DEF ServerMoves, Absent
    <3> QED
      BY <2>1, <3>1, <3>2, <3>3 DEF Stale
  <2>2. CASE t # s
    <3>1. spc'[t] = spc[t] /\ param'[t] = param[t] /\ (Holds(t, c)' <=> Holds(t, c))
      BY <2>2 DEF ServerMoves
    <3>2. path' = t => path = t
      BY <2>2, ConstantsLemma DEF ServerMoves, Absent
    <3> QED
      BY <1>1, <3>1, <3>2 DEF Stale, Measured
  <2> QED
    BY <2>1, <2>2
<1>4. ASSUME NEW c \in Clients, cpc[c] = "read2", conn'[c] = "answered"
      PROVE  inbox'[c] > born[c]
  <2>1. CASE conn[c] = "answered" /\ inbox'[c] = inbox[c]
    BY <1>4, <2>1 DEF Fresh, FirstTakesStale
  <2>2. CASE spc[s] = "write" /\ serving[s] = c /\ inbox'[c] = param[s]
    <3>1. ~Stale(s, c)
      BY <1>4, <2>2 DEF Fresh, FirstTakesStale, Holds
    <3>2. param[s] \in Nat
      BY <1>2 DEF TypeOK
    <3> QED
      BY <1>2, <2>2, <3>1, <3>2 DEF Stale, Measured
  <2> QED
    BY <1>4, <2>1, <2>2 DEF ServerMoves
<1>5. FirstTakesStale'
  BY <1>1, <1>3, <1>4 DEF Fresh, FirstTakesStale
<1>6. PrintedFresh'
  <2>1. \A t \in Servers, c \in Clients :
          spc[t] = "killed" /\ serving[t] = c => spc'[t] = "killed" /\ serving'[t] = c
    BY <1>1 DEF ServerMoves
  <2> QED
    BY <1>1, <2>1 DEF Fresh, PrintedFresh
<1> QED
  BY <1>5, <1>6 DEF Fresh

\* A client that connects joins the server at the path; one that has its
\* first answer is held by no server, so the one at the path is not stale
\* (client.c:18-36).
LEMMA FreshClient ==
  ASSUME TypeOK, Places, Fresh, NEW c \in Clients, ClientStep(c)
  PROVE  Fresh'
<1>1. /\ UNCHANGED <<path, spc, param, serving, born>>
      /\ cpc \in [Clients -> ClientLabels] /\ conn \in [Clients -> ConnStates]
      /\ inbox \in [Clients -> 0 .. clock] /\ second \in [Clients -> -1 .. clock]
  BY DEF ClientStep, Connect, Read, TypeOK
<1>2. \A t \in Servers, d \in Clients : Stale(t, d)' <=> Stale(t, d)
  BY <1>1 DEF Stale, Measured
<1>3. CASE Connect(c)
  <2>0. UNCHANGED <<inbox, second>> /\ cpc[c] \in {"connect1", "connect2"}
    BY <1>3 DEF Connect
  <2>1. CASE UNCHANGED <<backlog, conn>> /\ cpc' = [cpc EXCEPT ![c] = "failed"]
    <3>1. \A t \in Servers, d \in Clients : Holds(t, d)' <=> Holds(t, d)
      BY <1>1, <2>1 DEF Holds, Waits
    <3>2. cpc'[c] = "failed" /\ \A d \in Clients \ {c} : cpc'[d] = cpc[d]
      BY <1>1, <2>1
    <3> QED
      BY <1>1, <1>2, <2>0, <2>1, <3>1, <3>2 DEF Fresh, FirstTakesStale, PrintedFresh
  <2>2. ASSUME NEW s \in Servers, path = s,
               backlog' = [backlog EXCEPT ![s] = Append(@, c)],
               conn' = [conn EXCEPT ![c] = "pending"],
               cpc' = [cpc EXCEPT ![c] = IF @ = "connect1" THEN "read1" ELSE "read2"]
        PROVE  Fresh'
    <3>1. \A t \in Servers, d \in Clients :
            Holds(t, d)' <=> Holds(t, d) \/ (t = s /\ d = c)
      BY <1>1, <2>2, ConnectMoves
    <3>2. /\ cpc'[c] = (IF cpc[c] = "connect1" THEN "read1" ELSE "read2")
          /\ conn'[c] = "pending"
          /\ \A d \in Clients \ {c} : cpc'[d] = cpc[d] /\ conn'[d] = conn[d]
      BY <1>1, <2>2
    <3>3. \A t \in Servers : ~Holds(t, c)
      BY <2>0 DEF Places, Connected, Holds
    <3>4. ASSUME NEW d \in Clients, NEW t \in Servers
          PROVE  /\ cpc'[d] = "read1" /\ path = t /\ Stale(t, d) => Holds(t, d)'
                 /\ cpc'[d] = "connect2" /\ path = t => ~Stale(t, d)
                 /\ cpc'[d] = "read2" /\ Holds(t, d)' => ~Stale(t, d)
      <4>1. CASE d = c
        BY <2>0, <2>2, <3>1, <3>2, <3>3, <4>1 DEF Fresh, FirstTakesStale
      <4>2. CASE d # c
        BY <3>1, <3>2, <4>2 DEF Fresh, FirstTakesStale
      <4> QED
        BY <4>1, <4>2
    <3>5. FirstTakesStale'
      BY <1>1, <1>2, <2>0, <3>2, <3>4 DEF Fresh, FirstTakesStale
    <3>6. PrintedFresh'
      BY <1>1, <2>0, <3>2 DEF Fresh, PrintedFresh
    <3> QED
      BY <3>5, <3>6 DEF Fresh
  <2> QED
    BY <1>3, <2>1, <2>2 DEF Connect, Reachable
<1>4. CASE Read(c)
  <2>0. /\ cpc[c] \in {"read1", "read2"} /\ conn[c] \in {"answered", "eof", "reset"}
        /\ conn' = [conn EXCEPT ![c] = "none"] /\ inbox' = [inbox EXCEPT ![c] = 0]
        /\ UNCHANGED backlog
    BY <1>4 DEF Read
  <2>1. \A t \in Servers, d \in Clients : Holds(t, d)' <=> Holds(t, d)
    BY <1>1, <2>0 DEF Holds, Waits
  <2>2. \A d \in Clients \ {c} :
          cpc'[d] = cpc[d] /\ conn'[d] = conn[d] /\ inbox'[d] = inbox[d] /\ second'[d] = second[d]
    BY <1>1, <1>4 DEF Read
  <2>3. cpc'[c] = IF conn[c] = "reset" THEN "failed"
                  ELSE IF cpc[c] = "read1" THEN "connect2" ELSE "printed"
    <3>1. CASE conn[c] = "reset"
      BY <1>1, <1>4, <3>1 DEF Read
    <3>2. CASE conn[c] # "reset"
      BY <1>1, <1>4, <2>0, <3>2 DEF Read
    <3> QED
      BY <3>1, <3>2
  <2>4. \A t \in Servers : ~Holds(t, c)
    BY <2>0 DEF Places, Connected, Holds
  <2>5. ASSUME NEW d \in Clients, NEW t \in Servers
        PROVE  /\ cpc'[d] = "read1" /\ path = t /\ Stale(t, d) => Holds(t, d)
               /\ cpc'[d] = "connect2" /\ path = t => ~Stale(t, d)
               /\ cpc'[d] = "read2" /\ Holds(t, d) => ~Stale(t, d)
    <3>1. CASE d = c
      BY <2>0, <2>3, <2>4, <3>1 DEF Fresh, FirstTakesStale
    <3>2. CASE d # c
      BY <2>2, <3>2 DEF Fresh, FirstTakesStale
    <3> QED
      BY <3>1, <3>2
  <2>6. FirstTakesStale'
    BY <1>1, <1>2, <2>1, <2>2, <2>3, <2>5 DEF Fresh, FirstTakesStale
  <2>7. ASSUME cpc'[c] = "printed"
        PROVE  \/ second'[c] > born[c]
               \/ second'[c] = Garbage /\ \E t \in Servers : spc[t] = "killed" /\ serving[t] = c
    <3>1. /\ cpc[c] = "read2" /\ conn[c] \in {"answered", "eof"}
          /\ second'[c] = IF conn[c] = "answered" THEN inbox[c] ELSE Garbage
      BY <1>1, <1>4, <2>0, <2>3, <2>7 DEF Read
    <3>2. CASE conn[c] = "answered"
      BY <3>1, <3>2 DEF Fresh, FirstTakesStale
    <3>3. CASE conn[c] = "eof"
      BY <3>1, <3>3 DEF Places, Connected
    <3> QED
      BY <3>1, <3>2, <3>3
  <2>8. PrintedFresh'
    BY <1>1, <2>2, <2>7 DEF Fresh, PrintedFresh
  <2> QED
    BY <2>6, <2>8 DEF Fresh
<1> QED
  BY <1>3, <1>4 DEF ClientStep

LEMMA FreshStep == TypeOK /\ Places /\ Fresh /\ [Next]_vars => Fresh'
<1> SUFFICES ASSUME TypeOK, Places, Fresh, [Next]_vars PROVE Fresh'
  OBVIOUS
<1>1. ASSUME NEW s \in Servers,
             \/ StartServer(s) /\ UNCHANGED clientVars
             \/ ServerStep(s)
             \/ Signal(s)
      PROVE  Fresh'
  BY <1>1, ServerStepMoves, FreshServer
<1>2. ASSUME NEW c \in Clients,
             UNCHANGED <<path, spc, param, serving, backlog, second>>,
             cpc' \in [Clients -> ClientLabels], cpc'[c] \in {"connect1", "killed"},
             \A d \in Clients \ {c} :
               /\ cpc'[d] = cpc[d] /\ conn'[d] = conn[d]
               /\ inbox'[d] = inbox[d] /\ born'[d] = born[d]
      PROVE  Fresh'
  <2>1. \A t \in Servers, d \in Clients : Holds(t, d)' <=> Holds(t, d)
    BY <1>2 DEF Holds, Waits
  <2>2. \A t \in Servers, d \in Clients \ {c} : Stale(t, d)' <=> Stale(t, d)
    BY <1>2 DEF Stale, Measured
  <2>3. FirstTakesStale'
    BY <1>2, <2>1, <2>2 DEF Fresh, FirstTakesStale
  <2>4. PrintedFresh'
    BY <1>2 DEF Fresh, PrintedFresh
  <2> QED
    BY <2>3, <2>4 DEF Fresh
<1>t. /\ cpc \in [Clients -> ClientLabels] /\ conn \in [Clients -> ConnStates]
      /\ inbox \in [Clients -> 0 .. clock] /\ born \in [Clients -> 0 .. clock]
  BY DEF TypeOK
<1>3. ASSUME NEW c \in Clients, StartClient(c),
             UNCHANGED <<path, spc, serrno, param, serving, clock>>
      PROVE  Fresh'
  <2>1. cpc' \in [Clients -> ClientLabels] /\ cpc'[c] = "connect1"
    BY <1>t, <1>3 DEF StartClient, ClientLabels, Active
  <2> QED
    BY <1>t, <1>2, <1>3, <2>1 DEF StartClient
<1>4. ASSUME NEW c \in Clients, ClientStep(c) PROVE Fresh'
  BY <1>4, FreshClient
<1>5. ASSUME NEW c \in Clients, KillClient(c) PROVE Fresh'
  <2>1. cpc' \in [Clients -> ClientLabels] /\ cpc'[c] = "killed"
    BY <1>t, <1>5 DEF KillClient, ClientLabels
  <2> QED
    BY <1>t, <1>2, <1>5, <2>1 DEF KillClient
<1>6. CASE UNCHANGED vars
  BY <1>6 DEF vars, Fresh, FirstTakesStale, PrintedFresh, Stale, Measured, Holds, Waits
<1> QED
  BY <1>1, <1>3, <1>4, <1>5, <1>6 DEF Next

\* A server gives away what it measured, or keeps it, or measures what nobody
\* has (server.c:60-68).
LEMMA MeasuredServer ==
  ASSUME TypeOK, MeasuredOnce, NEW s \in Servers, ServerMoves(s)
  PROVE  MeasuredOnce'
<1>1. UNCHANGED <<first, second>>
  BY DEF ServerMoves
<1>2. /\ \A c \in Clients : /\ first[c] \in Int /\ first[c] <= clock
                            /\ second[c] \in Int /\ second[c] <= clock
                            /\ inbox[c] \in Int /\ inbox[c] <= clock
      /\ \A t \in Servers : param[t] \in Int /\ param[t] <= clock
      /\ clock \in Nat
  BY DEF TypeOK
<1>3. \A t \in Servers \ {s} :
        (Measured(t)' <=> Measured(t)) /\ param'[t] = param[t]
  BY DEF ServerMoves, Measured
<1>4. \/ ~Measured(s)'
      \/ param'[s] = clock + 1
      \/ Measured(s)' /\ Measured(s) /\ param'[s] = param[s]
  BY DEF ServerMoves
<1>5. \A c \in Clients : conn'[c] = "answered" =>
        \/ conn[c] = "answered" /\ inbox'[c] = inbox[c]
        \/ serving[s] = c /\ Measured(s) /\ inbox'[c] = param[s] /\ ~Measured(s)'
  BY DEF ServerMoves, Measured
<1>6. NotTold(clock + 1)
  BY <1>2 DEF NotTold
<1>7. ASSUME NEW t \in Servers, Measured(t)'
      PROVE  /\ param'[t] >= 1 /\ NotTold(param'[t])
             /\ \A u \in Servers : Measured(u)' /\ param'[u] = param'[t] => u = t
             /\ \A c \in Clients : conn'[c] = "answered" => inbox'[c] # param'[t]
  <2>1. param'[t] >= 1 /\ NotTold(param'[t])
    BY <1>2, <1>3, <1>4, <1>6, <1>7 DEF MeasuredOnce
  <2>2. \A u \in Servers : Measured(u)' /\ param'[u] = param'[t] => u = t
    BY <1>2, <1>3, <1>4, <1>7 DEF MeasuredOnce
  <2>3. ASSUME NEW c \in Clients, conn'[c] = "answered" PROVE inbox'[c] # param'[t]
    BY <1>2, <1>3, <1>4, <1>5, <1>7, <2>3 DEF MeasuredOnce
  <2> QED
    BY <2>1, <2>2, <2>3
<1>8. ASSUME NEW c \in Clients, conn'[c] = "answered"
       PROVE  /\ inbox'[c] >= 1 /\ NotTold(inbox'[c])
              /\ \A d \in Clients : conn'[d] = "answered" /\ inbox'[d] = inbox'[c] => d = c
  BY <1>5, <1>8 DEF MeasuredOnce
<1>9. \A t \in Servers : Measured(t)' =>
        /\ param'[t] >= 1
        /\ \A c \in Clients : first'[c] # param'[t] /\ second'[c] # param'[t]
        /\ \A u \in Servers : Measured(u)' /\ param'[u] = param'[t] => u = t
        /\ \A c \in Clients : conn'[c] = "answered" => inbox'[c] # param'[t]
  BY <1>1, <1>7 DEF NotTold
<1>10. \A c \in Clients : conn'[c] = "answered" =>
         /\ inbox'[c] >= 1
         /\ \A d \in Clients : first'[d] # inbox'[c] /\ second'[d] # inbox'[c]
         /\ \A d \in Clients : conn'[d] = "answered" /\ inbox'[d] = inbox'[c] => d = c
  BY <1>1, <1>8 DEF NotTold
<1> QED
  BY <1>9, <1>10 DEF MeasuredOnce, NotTold

\* A client takes its answer out of its socket, and loses what it knew when
\* it ends (client.c:33-36).
LEMMA MeasuredClient ==
  ASSUME TypeOK, MeasuredOnce, NEW c \in Clients, UNCHANGED <<spc, param>>,
         \A d \in Clients : conn'[d] = "answered" =>
           d # c /\ conn[d] = "answered" /\ inbox'[d] = inbox[d],
         \A d \in Clients \ {c} : first'[d] = first[d] /\ second'[d] = second[d],
         \A n \in {first'[c], second'[c]} :
           \/ n <= 0 \/ n \in {first[c], second[c]}
           \/ conn[c] = "answered" /\ n = inbox[c]
  PROVE  MeasuredOnce'
<1>1. \A t \in Servers : (Measured(t)' <=> Measured(t)) /\ param'[t] = param[t]
  BY DEF Measured
<1>2. ASSUME NEW n \in Nat, n >= 1, NotTold(n), conn[c] = "answered" => inbox[c] # n
      PROVE  \A d \in Clients : first'[d] # n /\ second'[d] # n
  BY <1>2 DEF NotTold
<1>3. /\ \A t \in Servers : param[t] \in Nat
      /\ \A d \in Clients : inbox[d] \in Nat
  BY DEF TypeOK
<1>4. ASSUME NEW t \in Servers, Measured(t)
      PROVE  /\ param[t] >= 1
             /\ \A d \in Clients : first'[d] # param[t] /\ second'[d] # param[t]
             /\ \A u \in Servers : Measured(u) /\ param[u] = param[t] => u = t
             /\ \A d \in Clients : conn'[d] = "answered" => inbox'[d] # param[t]
  BY <1>2, <1>3, <1>4 DEF MeasuredOnce
<1>5. ASSUME NEW d \in Clients, conn'[d] = "answered"
      PROVE  /\ inbox[d] >= 1 /\ inbox'[d] = inbox[d]
             /\ \A e \in Clients : first'[e] # inbox[d] /\ second'[e] # inbox[d]
             /\ \A e \in Clients : conn'[e] = "answered" /\ inbox'[e] = inbox[d] => e = d
  BY <1>2, <1>3, <1>5 DEF MeasuredOnce
<1>6. \A t \in Servers : Measured(t)' =>
        /\ param'[t] >= 1
        /\ \A d \in Clients : first'[d] # param'[t] /\ second'[d] # param'[t]
        /\ \A u \in Servers : Measured(u)' /\ param'[u] = param'[t] => u = t
        /\ \A d \in Clients : conn'[d] = "answered" => inbox'[d] # param'[t]
  BY <1>1, <1>4
<1>7. \A d \in Clients : conn'[d] = "answered" =>
        /\ inbox'[d] >= 1
        /\ \A e \in Clients : first'[e] # inbox'[d] /\ second'[e] # inbox'[d]
        /\ \A e \in Clients : conn'[e] = "answered" /\ inbox'[e] = inbox'[d] => e = d
  BY <1>5
<1> QED
  BY <1>6, <1>7 DEF MeasuredOnce, NotTold

LEMMA MeasuredStep ==
  TypeOK /\ Places /\ MeasuredOnce /\ [Next]_vars => MeasuredOnce'
<1> SUFFICES ASSUME TypeOK, Places, MeasuredOnce, [Next]_vars
             PROVE  MeasuredOnce'
  OBVIOUS
<1>t. /\ conn \in [Clients -> ConnStates] /\ inbox \in [Clients -> 0 .. clock]
      /\ first \in [Clients -> -1 .. clock] /\ second \in [Clients -> -1 .. clock]
  BY DEF TypeOK
<1>1. ASSUME NEW s \in Servers,
             \/ StartServer(s) /\ UNCHANGED clientVars
             \/ ServerStep(s)
             \/ Signal(s)
      PROVE  MeasuredOnce'
  BY <1>1, ServerStepMoves, MeasuredServer
<1>2. ASSUME NEW c \in Clients, StartClient(c),
             UNCHANGED <<path, spc, serrno, param, serving, clock>>
      PROVE  MeasuredOnce'
  BY <1>2 DEF StartClient, MeasuredOnce, Measured, NotTold
<1>3. ASSUME NEW c \in Clients, ClientStep(c) PROVE MeasuredOnce'
  <2>0. UNCHANGED <<spc, param>>
    BY <1>3 DEF ClientStep
  <2>1. CASE Connect(c)
    <3>1. /\ UNCHANGED <<inbox, first, second>>
          /\ conn[c] # "answered"
          /\ \A d \in Clients : conn'[d] = "answered" => conn[d] = "answered" /\ d # c
      <4>1. cpc[c] \in {"connect1", "connect2"} /\ UNCHANGED <<inbox, first, second>>
        BY <2>1 DEF Connect
      <4>2. conn[c] = "none"
        BY <4>1 DEF Places, Connected
      <4>3. conn' = conn \/ conn' = [conn EXCEPT ![c] = "pending"]
        BY <2>1 DEF Connect
      <4> QED
        BY <1>t, <4>1, <4>2, <4>3
    <3> QED
      BY <2>0, <3>1, MeasuredClient
  <2>2. CASE Read(c)
    <3>1. /\ conn' = [conn EXCEPT ![c] = "none"] /\ inbox' = [inbox EXCEPT ![c] = 0]
          /\ \/ UNCHANGED <<first, second>>
             \/ \E got \in {inbox[c], Garbage} :
                  /\ got = Garbage \/ conn[c] = "answered"
                  /\ \/ first' = [first EXCEPT ![c] = got] /\ second' = second
                     \/ second' = [second EXCEPT ![c] = got] /\ first' = first
      BY <1>t, <2>2 DEF Read
    <3>2. \A d \in Clients : conn'[d] = "answered" =>
            d # c /\ conn[d] = "answered" /\ inbox'[d] = inbox[d]
      BY <1>t, <3>1
    <3>3. /\ \A d \in Clients \ {c} : first'[d] = first[d] /\ second'[d] = second[d]
          /\ \A n \in {first'[c], second'[c]} :
               \/ n <= 0 \/ n \in {first[c], second[c]}
               \/ conn[c] = "answered" /\ n = inbox[c]
      BY <1>t, <3>1 DEF Garbage
    <3> QED
      BY <2>0, <3>2, <3>3, MeasuredClient
  <2> QED
    BY <1>3, <2>1, <2>2 DEF ClientStep
<1>4. ASSUME NEW c \in Clients, KillClient(c) PROVE MeasuredOnce'
  <2>1. /\ UNCHANGED <<spc, param, second>>
        /\ \A d \in Clients : conn'[d] = "answered" =>
             d # c /\ conn[d] = "answered" /\ inbox'[d] = inbox[d]
        /\ first'[c] = 0 /\ \A d \in Clients \ {c} : first'[d] = first[d]
    BY <1>t, <1>4 DEF KillClient
  <2> QED
    BY <2>1, MeasuredClient
<1>5. CASE UNCHANGED vars
  BY <1>5 DEF vars, MeasuredOnce, Measured, NotTold
<1> QED
  BY <1>1, <1>2, <1>3, <1>4, <1>5 DEF Next

-----------------------------------------------------------------------------
LEMMA InitIInv == Init => IInv
<1> SUFFICES ASSUME Init PROVE IInv
  OBVIOUS
<1>1. TypeOK
  <2>1. << >> \in Seq(Clients) /\ Len(<< >>) <= Backlog + 1
    BY ConstantsLemma
  <2> QED
    BY <2>1 DEF Init, TypeOK, ServerLabels, ClientLabels, ConnStates
<1>2. Connected /\ ConnectionHeldOnce
  BY DEF Init, Connected, ConnectionHeldOnce, Holds, Waits, NoneTwice
<1>3. FirstTakesStale /\ PrintedFresh /\ MeasuredOnce
  BY DEF Init, FirstTakesStale, PrintedFresh, MeasuredOnce, Measured
<1> QED
  BY <1>1, <1>2, <1>3 DEF IInv

LEMMA IInvStep == IInv /\ [Next]_vars => IInv'
<1> SUFFICES ASSUME IInv, [Next]_vars PROVE IInv'
  OBVIOUS
<1>1. TypeOK /\ Places /\ Fresh /\ MeasuredOnce
  BY DEF IInv, Places, Fresh
<1>2. TypeOK'
  BY <1>1, TypeStep
<1>3. Places' /\ Fresh' /\ MeasuredOnce'
  BY <1>1, <1>2, PlacesStep, FreshStep, MeasuredStep
<1> QED
  BY <1>2, <1>3 DEF IInv, Places, Fresh

\* IInv holds in every state (server.c:43-70, client.c:18-47).
THEOREM UnixSocketInvariant == Spec => []IInv
<1>1. Init => IInv
  BY InitIInv
<1>2. IInv /\ [Next]_vars => IInv'
  BY IInvStep
<1> QED
  BY <1>1, <1>2, PTL DEF Spec

\* A connection that is not answered is in one place, however servers replace
\* and end each other (server.c:52-68).
THEOREM UnixSocketConnectionHeldOnce == Spec => []ConnectionHeldOnce
<1>1. IInv => ConnectionHeldOnce
  BY DEF IInv
<1> QED
  BY <1>1, UnixSocketInvariant, PTL

\* What a client prints was measured after it started, unless the server died
\* between accept() and write() (server.c:59-68, client.c:39-45).
THEOREM UnixSocketPrintedFresh == Spec => []PrintedFresh
<1>1. IInv => PrintedFresh
  BY DEF IInv
<1> QED
  BY <1>1, UnixSocketInvariant, PTL

-----------------------------------------------------------------------------
(* The socket implements the service.                                      *)

\* A step changes the service's view of client c, and of no other.
OnlyOf(c) ==
  \A d \in Clients \ {c} :
    Stage(d)' = Stage(d) /\ Since(d)' = Since(d) /\ Told(d)' = Told(d)

Died == \E s \in Servers : spc[s] = "killed"

\* A step of a server is none of a client.
LEMMA ClientsSame ==
  ASSUME UNCHANGED <<cpc, first, second, born>>
  PROVE  \A c \in Clients :
           Stage(c)' = Stage(c) /\ Since(c)' = Since(c) /\ Told(c)' = Told(c)
BY DEF Stage, Since, Told, Heard

LEMMA ServiceInit == Init => Service!Init
<1> SUFFICES ASSUME Init PROVE Service!Init
  OBVIOUS
<1>1. \A c \in Clients : Stage(c) = "off" /\ Since(c) = 0 /\ Told(c) = << >>
  BY DEF Init, Stage, Since, Told, Active
<1>2. clock = 0 /\ (\E s \in Servers : spc[s] = "killed") = FALSE
  BY DEF Init
<1> QED
  BY <1>1, <1>2 DEF Service!Init

\* A step that neither measures nor ends a server, and that moves no client
\* past its start, an answer or its end, is none of the service.
LEMMA ServiceStutter ==
  ASSUME clock' = clock, Died' <=> Died,
         \A c \in Clients :
           Stage(c)' = Stage(c) /\ Since(c)' = Since(c) /\ Told(c)' = Told(c)
  PROVE  UNCHANGED Service!vars
<1>1. (\E s \in Servers : spc'[s] = "killed") = (\E s \in Servers : spc[s] = "killed")
  BY DEF Died
<1> QED
  BY <1>1 DEF Service!vars

LEMMA ServiceServer ==
  ASSUME TypeOK, Places, NEW s \in Servers,
         \/ StartServer(s) /\ UNCHANGED clientVars
         \/ ServerStep(s)
         \/ Signal(s)
  PROVE  Service!Measure \/ Service!Die \/ UNCHANGED Service!vars
<1>1. ServerMoves(s) /\ spc \in [Servers -> ServerLabels]
  BY ServerStepMoves DEF TypeOK
<1>2. \A c \in Clients :
        Stage(c)' = Stage(c) /\ Since(c)' = Since(c) /\ Told(c)' = Told(c)
  BY <1>1, ClientsSame DEF ServerMoves
<1>3. spc'[s] # "killed" => (Died' <=> Died)
  BY <1>1 DEF ServerMoves, Died
<1>4. CASE spc'[s] = "killed"
  <2>1. clock' = clock
    BY <1>1, <1>4 DEF StartServer, ServerStep, Unlink, Bind, Listen, SetParam, Measure,
                      Accept, Write, CloseClient, CloseThen, Signal, SGoto
  <2>2. (\E t \in Servers : spc'[t] = "killed") = TRUE
    BY <1>4
  <2> QED
    BY <1>2, <2>1, <2>2 DEF Service!Die
<1>5. CASE spc'[s] # "killed" /\ clock' = clock
  BY <1>2, <1>3, <1>5, ServiceStutter
<1>6. CASE spc'[s] # "killed" /\ clock' # clock
  <2>1. clock' = clock + 1
    BY <1>6 DEF StartServer, ServerStep, Unlink, Bind, Listen, SetParam, Measure,
                Accept, Write, CloseClient, CloseThen, Signal
  <2>2. (\E t \in Servers : spc'[t] = "killed") = (\E t \in Servers : spc[t] = "killed")
    BY <1>3, <1>6 DEF Died
  <2> QED
    BY <1>2, <2>1, <2>2 DEF Service!Measure
<1> QED
  BY <1>4, <1>5, <1>6

LEMMA ServiceStart ==
  ASSUME TypeOK, NEW c \in Clients, StartClient(c),
         UNCHANGED <<path, spc, serrno, param, serving, clock>>
  PROVE  Service!Start(c)
<1>1. /\ cpc[c] = "off" /\ cpc' = [cpc EXCEPT ![c] = "connect1"]
      /\ born' = [born EXCEPT ![c] = clock]
      /\ UNCHANGED <<spc, clock, first, second>>
      /\ cpc \in [Clients -> ClientLabels] /\ born \in [Clients -> 0 .. clock]
  BY DEF StartClient, TypeOK
<1>2. OnlyOf(c)
  BY <1>1 DEF OnlyOf, Stage, Since, Told, Heard
<1>3. /\ Stage(c) = "off" /\ Stage(c)' = "asking"
      /\ Told(c) = << >> /\ Told(c)' = << >> /\ Since(c)' = clock
  BY <1>1 DEF Stage, Since, Told, Active
<1>4. (\E s \in Servers : spc'[s] = "killed") = (\E s \in Servers : spc[s] = "killed")
  BY <1>1
<1> QED
  BY <1>1, <1>2, <1>3, <1>4 DEF Service!Start, OnlyOf

\* An answer taken from a socket was given to nobody, and the one that is
\* printed is newer than the client; a call without an answer had a server
\* that died (client.c:33-46).
LEMMA ServiceReturn ==
  ASSUME IInv, NEW c \in Clients, ClientStep(c), Read(c), conn[c] # "reset"
  PROVE  Service!Take(c) \/ Service!Miss(c)
<1> DEFINE got == IF conn[c] = "answered" THEN inbox[c] ELSE Garbage
           m == Heard(got)
<1>0. TypeOK /\ Connected /\ FirstTakesStale /\ MeasuredOnce
  BY DEF IInv
<1>t. /\ cpc \in [Clients -> ClientLabels] /\ born \in [Clients -> 0 .. clock]
      /\ first \in [Clients -> -1 .. clock] /\ second \in [Clients -> -1 .. clock]
      /\ clock \in Nat /\ inbox \in [Clients -> 0 .. clock]
  BY <1>0 DEF TypeOK
<1>1. /\ UNCHANGED <<spc, clock, serving, born>> /\ conn[c] \in {"answered", "eof"}
      /\ \/ /\ cpc[c] = "read1" /\ cpc' = [cpc EXCEPT ![c] = "connect2"]
            /\ first' = [first EXCEPT ![c] = got]
            /\ second' = [second EXCEPT ![c] = second[c]]
         \/ /\ cpc[c] = "read2" /\ cpc' = [cpc EXCEPT ![c] = "printed"]
            /\ second' = [second EXCEPT ![c] = got]
            /\ first' = [first EXCEPT ![c] = first[c]]
  BY DEF ClientStep, Read
<1>2. UNCHANGED second \/ UNCHANGED first
  BY <1>1, <1>t
<1> HIDE DEF got
<1>3. OnlyOf(c) /\ Stage(c) = "asking" /\ Since(c)' = Since(c)
  BY <1>1, <1>t DEF OnlyOf, Stage, Since, Told, Heard, Active
<1>4. /\ Stage(c)' = IF Told(c) = << >> THEN "asking" ELSE "printed"
      /\ Told(c)' = Append(Told(c), m)
  <2>1. CASE cpc[c] = "read1"
    <3>1. Told(c) = << >> /\ Told(c)' = <<m>> /\ Stage(c)' = "asking"
      BY <1>1, <1>t, <2>1 DEF Stage, Told, Active, Heard
    <3> QED
      BY <3>1
  <2>2. CASE cpc[c] = "read2"
    <3>1. /\ Told(c) = <<Heard(first[c])>> /\ Told(c)' = <<Heard(first[c]), m>>
          /\ Stage(c)' = "printed"
      BY <1>1, <1>t, <2>2 DEF Stage, Told, Active, Heard
    <3> QED
      BY <3>1
  <2> QED
    BY <1>1, <2>1, <2>2
<1>5. (\E s \in Servers : spc'[s] = "killed") = (\E s \in Servers : spc[s] = "killed")
  BY <1>1
<1>6. Service!Return(c, m)
  BY <1>1, <1>3, <1>4, <1>5 DEF Service!Return, OnlyOf
<1>7. CASE conn[c] = "answered"
  <2>1. m = inbox[c] /\ m \in 1 .. clock
    BY <1>0, <1>t, <1>7 DEF got, Heard, Garbage, MeasuredOnce
  <2>2. ASSUME NEW d \in Clients, NEW k \in DOMAIN Told(d)
        PROVE  Told(d)[k] # m
    <3>1. Told(d)[k] \in {Heard(first[d]), Heard(second[d])}
      BY <2>2 DEF Told
    <3>2. first[d] # m /\ second[d] # m /\ m # 0
      BY <1>0, <1>7, <2>1 DEF MeasuredOnce, NotTold
    <3> QED
      BY <3>1, <3>2 DEF Heard
  <2>3. m \notin Service!Given
    BY <2>2 DEF Service!Given
  <2>4. Told(c) # << >> => m > Since(c)
    <3>1. CASE cpc[c] = "read1"
      BY <3>1 DEF Told
    <3>2. CASE cpc[c] = "read2"
      BY <1>0, <1>7, <2>1, <3>2 DEF FirstTakesStale, Since, Stage, Active
    <3> QED
      BY <1>1, <3>1, <3>2
  <2> QED
    BY <1>6, <2>1, <2>3, <2>4 DEF Service!Take
<1>8. CASE conn[c] = "eof"
  <2>1. m = 0
    BY <1>8 DEF got, Heard
  <2>2. \E s \in Servers : spc[s] = "killed"
    BY <1>0, <1>8 DEF Connected
  <2> QED
    BY <1>6, <2>1, <2>2 DEF Service!Miss, Service!Nothing
<1> QED
  BY <1>1, <1>7, <1>8

\* A client that fails or is killed leaves, and takes what it knew along.
LEMMA ServiceLeave ==
  ASSUME TypeOK, NEW c \in Clients, cpc[c] \in Active, NEW label \in {"failed", "killed"},
         cpc' = [cpc EXCEPT ![c] = label], UNCHANGED <<spc, clock, second>>,
         \A d \in Clients \ {c} : first'[d] = first[d] /\ born'[d] = born[d]
  PROVE  Service!Leave(c)
<1>1. cpc \in [Clients -> ClientLabels]
  BY DEF TypeOK
<1>2. OnlyOf(c)
  BY <1>1 DEF OnlyOf, Stage, Since, Told, Heard
<1>3. /\ Stage(c) = "asking" /\ Stage(c)' = "gone"
      /\ Since(c)' = 0 /\ Told(c)' = << >>
  BY <1>1 DEF Stage, Since, Told, Active
<1>4. (\E s \in Servers : spc'[s] = "killed") = (\E s \in Servers : spc[s] = "killed")
  OBVIOUS
<1> QED
  BY <1>2, <1>3, <1>4 DEF Service!Leave, OnlyOf

LEMMA ServiceStep ==
  ASSUME IInv, [Next]_vars
  PROVE  [Service!Next]_Service!vars
<1>0. TypeOK /\ Places /\ cpc \in [Clients -> ClientLabels]
  BY DEF IInv, Places, TypeOK
<1>1. ASSUME NEW s \in Servers,
             \/ StartServer(s) /\ UNCHANGED clientVars
             \/ ServerStep(s)
             \/ Signal(s)
      PROVE  [Service!Next]_Service!vars
  BY <1>0, <1>1, ServiceServer DEF Service!Next
<1>2. ASSUME NEW c \in Clients, StartClient(c),
             UNCHANGED <<path, spc, serrno, param, serving, clock>>
      PROVE  Service!Next
  BY <1>0, <1>2, ServiceStart DEF Service!Next
<1>3. ASSUME NEW c \in Clients, ClientStep(c) PROVE [Service!Next]_Service!vars
  <2>0. UNCHANGED <<spc, clock, born>>
    BY <1>3 DEF ClientStep, Connect, Read
  <2>1. CASE Connect(c)
    <3>1. cpc[c] \in {"connect1", "connect2"} /\ UNCHANGED <<first, second>>
      BY <2>1 DEF Connect
    <3>2. CASE cpc' = [cpc EXCEPT ![c] = "failed"]
      <4>1. cpc[c] \in Active
        BY <3>1 DEF Active
      <4> QED
        BY <1>0, <2>0, <3>1, <3>2, <4>1, ServiceLeave DEF Service!Next
    <3>3. CASE cpc' = [cpc EXCEPT ![c] = IF @ = "connect1" THEN "read1" ELSE "read2"]
      <4>1. \A d \in Clients :
              Stage(d)' = Stage(d) /\ Since(d)' = Since(d) /\ Told(d)' = Told(d)
        BY <1>0, <2>0, <3>1, <3>3 DEF Stage, Since, Told, Heard, Active
      <4> QED
        BY <2>0, <4>1, ServiceStutter DEF Died
    <3> QED
      BY <2>1, <3>2, <3>3 DEF Connect
  <2>2. CASE Read(c) /\ conn[c] # "reset"
    BY <1>3, <2>2, ServiceReturn DEF Service!Next
  <2>3. CASE Read(c) /\ conn[c] = "reset"
    <3>1. /\ cpc[c] \in Active /\ cpc' = [cpc EXCEPT ![c] = "failed"]
          /\ UNCHANGED <<first, second>>
      BY <2>3 DEF Read, Active
    <3> QED
      BY <1>0, <2>0, <3>1, ServiceLeave DEF Service!Next
  <2> QED
    BY <1>3, <2>1, <2>2, <2>3 DEF ClientStep
<1>4. ASSUME NEW c \in Clients, KillClient(c) PROVE Service!Next
  <2>1. /\ cpc[c] \in Active /\ cpc' = [cpc EXCEPT ![c] = "killed"]
        /\ UNCHANGED <<spc, clock, second>>
        /\ \A d \in Clients \ {c} : first'[d] = first[d] /\ born'[d] = born[d]
    BY <1>0, <1>4 DEF KillClient, TypeOK
  <2> QED
    BY <1>0, <2>1, ServiceLeave DEF Service!Next
<1>5. CASE UNCHANGED vars
  BY <1>5, ClientsSame, ServiceStutter DEF vars, Died
<1> QED
  BY <1>1, <1>2, <1>3, <1>4, <1>5 DEF Next

\* The socket implements the service of the message queue, without its excuse
\* for stale answers (server.c:59-68, client.c:33-46).
THEOREM UnixSocketRefinement == Spec => ImplementsService
BY ServiceInit, ServiceStep, UnixSocketInvariant, PTL
   DEF Spec, ImplementsService, Service!Spec

=============================================================================
