----------------------------- MODULE UnixSocket -----------------------------
(***************************************************************************)
(* osp/lab5/part_3: start_server() and get_param() over the unix domain    *)
(* socket /tmp/socket5.  A server answers one connection per round of its  *)
(* loop with the server_param it filled in before accept(); a client       *)
(* connects twice and prints the second answer.  Servers may be started    *)
(* one after the other or at the same time; each first unlinks the path.   *)
(* Servers and clients are numbered in the order in which they start.      *)
(*                                                                         *)
(* The contents of server_param are the number of the set_param() call,    *)
(* among those of all servers, that wrote them.                            *)
(***************************************************************************)
EXTENDS Integers, Sequences, FiniteSets

CONSTANTS
  NServers, NClients, \* how many times each program is run
  Backlog             \* connections that wait beyond the first; listen(sock, 0)

ASSUME CountsAssumption == NServers \in Nat /\ NClients \in Nat
ASSUME BacklogAssumption == Backlog \in Nat

Servers == 1 .. NServers
Clients == 1 .. NClients

Absent == 0        \* no file at the path
Leftover == -1     \* the socket of a server of the past
Nobody == 0        \* no client
Garbage == -1      \* memory of malloc() that read() did not fill

VARIABLES
  path,         \* the server whose socket is bound to /tmp/socket5, Leftover
                \* or Absent
  spc,          \* where each server is in start_server()
  serrno,       \* a server's errno is nonzero
  param,        \* a server's *server_param
  backlog,      \* connections a server has not accepted, oldest first
  serving,      \* the connection a server has accepted, or had when it died
  cpc,          \* where each client is in its two get_param() calls
  conn,         \* a client's present connection, as its socket sees it
  inbox,        \* the answer in a client's socket
  first, second,\* what the two calls returned: 0 before, -1 if never filled
  clock,        \* auxiliary: set_param() calls so far
  born          \* auxiliary: clock when the client started

serverVars == <<path, spc, serrno, param, backlog, serving, clock>>
clientVars == <<cpc, first, second, born>>
vars == <<path, spc, serrno, param, backlog, serving, clock,
          cpc, conn, inbox, first, second, born>>

Listening == {"sleep", "accept", "write", "close"}
Active == {"connect1", "read1", "connect2", "read2"}

ServerLabels == {"off", "unlink", "bind", "listen", "gaveUp", "killed"} \cup Listening
ClientLabels == Active \cup {"off", "printed", "failed", "killed"}
ConnStates == {"none", "pending", "accepted", "answered", "eof", "reset"}

Init ==
  /\ path \in {Absent, Leftover}
  /\ spc = [s \in Servers |-> "off"]
  /\ serrno = [s \in Servers |-> FALSE]
  /\ param = [s \in Servers |-> 0]
  /\ backlog = [s \in Servers |-> << >>]
  /\ serving = [s \in Servers |-> Nobody]
  /\ cpc = [c \in Clients |-> "off"]
  /\ conn = [c \in Clients |-> "none"]
  /\ inbox = [c \in Clients |-> 0]
  /\ first = [c \in Clients |-> 0]
  /\ second = [c \in Clients |-> 0]
  /\ clock = 0
  /\ born = [c \in Clients |-> 0]

\* The connection of c waits at s.
Waits(s, c) == \E k \in DOMAIN backlog[s] : backlog[s][k] = c

SGoto(s, label) == spc' = [spc EXCEPT ![s] = label]

-----------------------------------------------------------------------------
(* The server.                                                             *)

\* set_ids(), server_signal() and socket().
StartServer(s) ==
  /\ spc[s] = "off" /\ \A t \in 1 .. s - 1 : spc[t] # "off"
  /\ SGoto(s, "unlink")
  /\ UNCHANGED <<path, serrno, param, backlog, serving, clock, conn, inbox>>

\* unlink() of a path that does not exist leaves ENOENT in errno.
Unlink(s) ==
  /\ spc[s] = "unlink"
  /\ path' = Absent
  /\ serrno' = [serrno EXCEPT ![s] = @ \/ path = Absent]
  /\ SGoto(s, "bind")
  /\ UNCHANGED <<param, backlog, serving, clock, conn, inbox>>

\* bind() creates the path or fails with EADDRINUSE; check_errno() follows.
Bind(s) ==
  LET ok == path = Absent IN
  /\ spc[s] = "bind"
  /\ path' = IF ok THEN s ELSE path
  /\ SGoto(s, IF ok /\ ~serrno[s] THEN "listen" ELSE "gaveUp")
  /\ UNCHANGED <<serrno, param, backlog, serving, clock, conn, inbox>>

Listen(s) ==
  /\ spc[s] = "listen"
  /\ SGoto(s, "sleep")
  /\ UNCHANGED <<path, serrno, param, backlog, serving, clock, conn, inbox>>

\* sleep(1) and set_param(), before the server waits for a connection.
Measure(s, n) ==
  /\ spc[s] = "sleep"
  /\ clock' = clock + 1
  /\ param' = [param EXCEPT ![s] = n]
  /\ SGoto(s, "accept")
  /\ UNCHANGED <<path, serrno, backlog, serving, conn, inbox>>

\* Mutant: set_param() fills in what was measured the round before.
SetParamLate(s) == Measure(s, clock)

SetParam(s) == Measure(s, clock + 1)

Accept(s) ==
  /\ spc[s] = "accept"
  /\ backlog[s] # << >>
  /\ LET c == Head(backlog[s]) IN
       /\ serving' = [serving EXCEPT ![s] = c]
       /\ conn' = [conn EXCEPT ![c] = IF @ = "pending" THEN "accepted" ELSE @]
  /\ backlog' = [backlog EXCEPT ![s] = Tail(@)]
  /\ SGoto(s, "write")
  /\ UNCHANGED <<path, serrno, param, clock, inbox>>

\* write() of the answer.  A client that is gone makes it raise SIGPIPE, for
\* which server_signal() installs nothing.
Write(s) ==
  LET c == serving[s] IN
  /\ spc[s] = "write"
  /\ \/ /\ conn[c] = "accepted"
        /\ conn' = [conn EXCEPT ![c] = "answered"]
        /\ inbox' = [inbox EXCEPT ![c] = param[s]]
        /\ SGoto(s, "close")
        /\ UNCHANGED <<param, backlog>>
     \/ /\ conn[c] = "none"
        /\ SGoto(s, "killed")
        /\ conn' = [d \in Clients |->
                      IF Waits(s, d) /\ conn[d] = "pending" THEN "reset" ELSE conn[d]]
        /\ backlog' = [backlog EXCEPT ![s] = << >>]
        /\ param' = [param EXCEPT ![s] = 0]
        /\ UNCHANGED inbox
  /\ UNCHANGED <<path, serrno, serving, clock>>

CloseThen(s, label) ==
  /\ spc[s] = "close"
  /\ serving' = [serving EXCEPT ![s] = Nobody]
  /\ SGoto(s, label)
  /\ UNCHANGED <<path, serrno, param, backlog, clock, conn, inbox>>

\* Mutant: the loop goes back to accept() without a new set_param().
CloseAndAccept(s) == CloseThen(s, "accept")

CloseClient(s) == CloseThen(s, "sleep")

ServerStep(s) ==
  /\ \/ Unlink(s) \/ Bind(s) \/ Listen(s)
     \/ SetParam(s) \/ Accept(s) \/ Write(s) \/ CloseClient(s)
  /\ UNCHANGED clientVars

\* Mutant: what waits at a server that dies is left waiting.
SignalLeaves(s) ==
  /\ spc[s] \in {"unlink", "bind", "listen"} \cup Listening
  /\ SGoto(s, "killed")
  /\ UNCHANGED <<path, serrno, param, backlog, serving, clock, conn, inbox,
                 cpc, first, second, born>>

\* A signal: each handler calls print_param(), which exits.  The kernel
\* resets the connections that wait and ends the one that was accepted; the
\* path stays.  The memory of a process goes with it: here param, in
\* KillClient() what the first call returned; serving keeps whom the server
\* left without an answer.
Signal(s) ==
  /\ spc[s] \in {"unlink", "bind", "listen"} \cup Listening
  /\ SGoto(s, "killed")
  /\ conn' = [c \in Clients |->
                CASE conn[c] = "pending" /\ Waits(s, c) -> "reset"
                  [] conn[c] = "accepted" /\ spc[s] = "write" /\ serving[s] = c -> "eof"
                  [] OTHER -> conn[c]]
  /\ backlog' = [backlog EXCEPT ![s] = << >>]
  /\ param' = [param EXCEPT ![s] = 0]
  /\ serving' = [serving EXCEPT ![s] = IF spc[s] = "write" THEN @ ELSE Nobody]
  /\ UNCHANGED <<path, serrno, clock, inbox, cpc, first, second, born>>

-----------------------------------------------------------------------------
(* The client.                                                             *)

StartClient(c) ==
  /\ cpc[c] = "off" /\ \A d \in 1 .. c - 1 : cpc[d] # "off"
  /\ cpc' = [cpc EXCEPT ![c] = "connect1"]
  /\ born' = [born EXCEPT ![c] = clock]
  /\ UNCHANGED <<backlog, conn, inbox, first, second>>

Reachable(s) == path = s /\ spc[s] \in Listening

\* Mutant: room for one more than the kernel has.
HasRoomForOneMore(s) == Len(backlog[s]) <= Backlog + 1

HasRoom(s) == Len(backlog[s]) <= Backlog

\* connect() fails if nobody listens on the path and waits, looking the path
\* up again, while the backlog is full.
Connect(c) ==
  /\ cpc[c] \in {"connect1", "connect2"}
  /\ \/ /\ ~\E s \in Servers : Reachable(s)
        /\ cpc' = [cpc EXCEPT ![c] = "failed"]
        /\ UNCHANGED <<backlog, conn>>
     \/ /\ \E s \in Servers :
             /\ Reachable(s)
             /\ HasRoom(s)
             /\ backlog' = [backlog EXCEPT ![s] = Append(@, c)]
        /\ conn' = [conn EXCEPT ![c] = "pending"]
        /\ cpc' = [cpc EXCEPT ![c] = IF @ = "connect1" THEN "read1" ELSE "read2"]
  /\ UNCHANGED <<inbox, first, second, born>>

\* read() and close(): an answer, an end of file that leaves the buffer as
\* malloc() gave it, or an error.
Read(c) ==
  LET got == IF conn[c] = "answered" THEN inbox[c] ELSE Garbage IN
  /\ cpc[c] \in {"read1", "read2"}
  /\ \/ /\ conn[c] \in {"answered", "eof"}
        /\ cpc' = [cpc EXCEPT ![c] = IF @ = "read1" THEN "connect2" ELSE "printed"]
        /\ first' = [first EXCEPT ![c] = IF cpc[c] = "read1" THEN got ELSE @]
        /\ second' = [second EXCEPT ![c] = IF cpc[c] = "read2" THEN got ELSE @]
     \/ /\ conn[c] = "reset"
        /\ cpc' = [cpc EXCEPT ![c] = "failed"]
        /\ UNCHANGED <<first, second>>
  /\ conn' = [conn EXCEPT ![c] = "none"]
  /\ inbox' = [inbox EXCEPT ![c] = 0]
  /\ UNCHANGED <<backlog, born>>

ClientStep(c) ==
  /\ Connect(c) \/ Read(c)
  /\ UNCHANGED <<path, spc, serrno, param, serving, clock>>

KillClient(c) ==
  /\ cpc[c] \in Active
  /\ cpc' = [cpc EXCEPT ![c] = "killed"]
  /\ conn' = [conn EXCEPT ![c] = "none"]
  /\ inbox' = [inbox EXCEPT ![c] = 0]
  /\ first' = [first EXCEPT ![c] = 0]
  /\ born' = [born EXCEPT ![c] = 0]
  /\ UNCHANGED <<path, spc, serrno, param, backlog, serving, clock, second>>

-----------------------------------------------------------------------------
Next ==
  \/ \E s \in Servers :
       \/ StartServer(s) /\ UNCHANGED clientVars
       \/ ServerStep(s)
       \/ Signal(s)
  \/ \E c \in Clients :
       \/ StartClient(c) /\ UNCHANGED <<path, spc, serrno, param, serving, clock>>
       \/ ClientStep(c)
       \/ KillClient(c)

Spec == Init /\ [][Next]_vars

\* Processes that can run are scheduled; nobody has to start or kill one.
Fairness ==
  /\ \A s \in Servers : WF_vars(ServerStep(s))
  /\ \A c \in Clients : WF_vars(ClientStep(c))
FairSpec == Spec /\ Fairness

-----------------------------------------------------------------------------
\* Every variable keeps its type, and a backlog never exceeds what listen()
\* allows (server.c:36-70, client.c:18-47).
TypeOK ==
  /\ path \in Servers \cup {Absent, Leftover}
  /\ spc \in [Servers -> ServerLabels]
  /\ serrno \in [Servers -> BOOLEAN]
  /\ param \in [Servers -> 0 .. clock]
  /\ backlog \in [Servers -> Seq(Clients)]
  /\ \A s \in Servers : Len(backlog[s]) <= Backlog + 1
  /\ serving \in [Servers -> Clients \cup {Nobody}]
  /\ cpc \in [Clients -> ClientLabels]
  /\ conn \in [Clients -> ConnStates]
  /\ inbox \in [Clients -> 0 .. clock]
  /\ first \in [Clients -> -1 .. clock] /\ second \in [Clients -> -1 .. clock]
  /\ clock \in Nat /\ born \in [Clients -> 0 .. clock]

\* Connecting twice throws away the answer that was prepared before the
\* client came: what is printed was measured after the client started,
\* however many clients there are and whichever server answered which call;
\* unless the server died between accept() and write(), and the client
\* prints what malloc() returned (client.c:33, 40-42).
PrintedFresh ==
  \A c \in Clients : cpc[c] = "printed" =>
    \/ second[c] > born[c]
    \/ second[c] = Garbage /\ \E s \in Servers : spc[s] = "killed" /\ serving[s] = c

\* The connection of c is at s, waiting or accepted and not answered.
Holds(s, c) == Waits(s, c) \/ (spc[s] = "write" /\ serving[s] = c)

NoneTwice(q) == \A j, k \in DOMAIN q : q[j] = q[k] => j = k

\* A connection that is not answered is in exactly one place: once in the
\* backlog of one server that listens, or accepted by one server, though
\* clients connect twice and servers replace each other at the path.
ConnectionHeldOnce ==
  /\ \A c \in Clients :
       /\ conn[c] = "pending" =>
            \E s \in Servers : spc[s] \in Listening /\ Waits(s, c)
       /\ conn[c] = "accepted" => \E s \in Servers : spc[s] = "write" /\ serving[s] = c
       /\ \A s, t \in Servers : Holds(s, c) /\ Holds(t, c) => s = t
  /\ \A s \in Servers :
       /\ spc[s] = "write" => ~Waits(s, serving[s])
       /\ NoneTwice(backlog[s])

\* Every client comes to an end: a server that lost the path to a later one
\* still answers who had connected to it, and a server that dies lets its
\* clients fail instead of wait.
EveryClientEnds ==
  \A c \in Clients : cpc[c] \in Active ~> cpc[c] \in {"printed", "failed", "killed"}

Stage(c) ==
  CASE cpc[c] = "off" -> "off"
    [] cpc[c] \in Active -> "asking"
    [] cpc[c] = "printed" -> "printed"
    [] OTHER -> "gone"

\* What a call that returned m was told.
Heard(m) == IF m = Garbage THEN 0 ELSE m

Told(c) ==
  CASE cpc[c] \in {"connect2", "read2"} -> <<Heard(first[c])>>
    [] cpc[c] = "printed" -> <<Heard(first[c]), Heard(second[c])>>
    [] OTHER -> << >>

Since(c) == IF Stage(c) = "gone" THEN 0 ELSE born[c]

Service == INSTANCE MeasuringService WITH
  now <- clock,
  died <- \E s \in Servers : spc[s] = "killed",
  stage <- [c \in Clients |-> Stage(c)],
  since <- [c \in Clients |-> Since(c)],
  got <- [c \in Clients |-> Told(c)]

\* The socket implements the service of the message queue, without its
\* excuse for stale answers: no measurement is given to two calls, and a call
\* comes back empty only if a server was ended (server.c:59-68,
\* client.c:33-46).
ImplementsService == Service!Spec

\* "Cannot perform bind" (server.c:54) is said only if bind() failed.
BindErrorMeansBindFailed ==
  [][\A s \in Servers : spc[s] = "bind" /\ spc'[s] = "gaveUp" => path' # s]_vars

-----------------------------------------------------------------------------
(* The inductive invariant behind PrintedFresh, ConnectionHeldOnce and     *)
(* ImplementsService.                                                      *)

\* How a client's socket, its program and the servers' queues agree.
Connected ==
  /\ \A s \in Servers :
       /\ spc[s] \notin Listening => backlog[s] = << >>
       /\ spc[s] = "write" => serving[s] \in Clients
       /\ \A c \in Clients :
            /\ Waits(s, c) => conn[c] = "pending" \/ cpc[c] = "killed"
            /\ spc[s] = "write" /\ serving[s] = c =>
                 conn[c] = "accepted" \/ cpc[c] = "killed"
  /\ \A c \in Clients :
       /\ conn[c] # "none" <=> cpc[c] \in {"read1", "read2"}
       /\ conn[c] = "eof" => \E s \in Servers : spc[s] = "killed" /\ serving[s] = c

\* A server waits for a connection or answers one with what it measured.
Measured(s) == spc[s] \in {"accept", "write"}

\* What server s is about to answer was measured before client c started.
Stale(s, c) == Measured(s) /\ param[s] <= born[c]

\* The first call takes the stale answer of the server at the path away: the
\* second call finds none there.
FirstTakesStale ==
  \A c \in Clients :
    /\ \A s \in Servers :
         /\ cpc[c] = "read1" /\ path = s /\ Stale(s, c) => Holds(s, c)
         /\ cpc[c] = "connect2" /\ path = s => ~Stale(s, c)
         /\ cpc[c] = "read2" /\ Holds(s, c) => ~Stale(s, c)
    /\ cpc[c] = "read2" /\ conn[c] = "answered" => inbox[c] > born[c]

NotTold(n) == \A c \in Clients : first[c] # n /\ second[c] # n

\* A measurement is in one place: a server's hand, a socket or a client.
MeasuredOnce ==
  /\ \A s \in Servers : Measured(s) =>
       /\ param[s] >= 1 /\ NotTold(param[s])
       /\ \A t \in Servers : Measured(t) /\ param[t] = param[s] => t = s
       /\ \A c \in Clients : conn[c] = "answered" => inbox[c] # param[s]
  /\ \A c \in Clients : conn[c] = "answered" =>
       /\ inbox[c] >= 1 /\ NotTold(inbox[c])
       /\ \A d \in Clients : conn[d] = "answered" /\ inbox[d] = inbox[c] => d = c

\* In every state connections and measurements are each in one place, and a
\* client's first call keeps from its second what was measured too early
\* (server.c:59-68, client.c:18-47).
IInv ==
  /\ TypeOK /\ Connected /\ ConnectionHeldOnce
  /\ FirstTakesStale /\ PrintedFresh /\ MeasuredOnce

=============================================================================
