----------------------------- MODULE DirServer -----------------------------
(***************************************************************************)
(* osp/lab6/c: the directory server and its client over TCP.  A client     *)
(* sends its paths and a NUL, the server the listing of each path and a    *)
(* NUL; both read() whatever part has arrived until it ends in NUL.  The   *)
(* process that accepts a connection forks a child for it and keeps its    *)
(* own descriptor open; the child, when it has answered, goes on to        *)
(* accept() like its parent.                                               *)
(*                                                                         *)
(* A message is a sequence of tokens: a path with its newline, the listing *)
(* print_dir() writes for a path, or NUL.  A path is a word that strtok()  *)
(* gives back whole: not empty and without a newline.  Clients are         *)
(* numbered in the order in which they connect.                            *)
(***************************************************************************)
EXTENDS Integers, Sequences, FiniteSets, SequencesExt

CONSTANTS
  NClients,      \* how many times the client is run
  Asks,          \* the paths the clients may be given: a sequence for each
  NProcs,        \* how many server processes may exist
  FdRoom         \* how many connections a process can hold

Clients == 1 .. NClients

ASSUME AsksAssumption ==
  NClients \in Nat /\ \A a \in Asks : \A c \in Clients : a[c] \in Seq(STRING \ {""})
ASSUME LimitsAssumption == NProcs \in Nat \ {0} /\ FdRoom \in Nat \ {0}

Procs == 0 .. NProcs - 1
Root == 0
Nobody == 0        \* no client

Path(dir) == [is |-> "path", of |-> dir]
Listing(dir) == [is |-> "listing", of |-> dir]
NUL == [is |-> "NUL"]
Token == [is : {"path", "listing"}, of : STRING] \cup {NUL}

VARIABLES
  ppc,           \* where each server process is
  perrno,        \* its errno is nonzero
  sock,          \* the connection it is forking for or answering
  request,       \* what read_client() has read
  holders,       \* the processes with a descriptor of each connection
  pending,       \* connections that wait for an accept(), oldest first
  ask,           \* the paths each client is given
  cpc,           \* where each client is in getinfo()
  sent,          \* how many of its tokens a client has written
  upstream,      \* tokens on their way to the server
  downstream,    \* tokens on their way to the client
  response,      \* what the client has read
  unforked       \* auxiliary: connections for which fork() failed

serverVars == <<ppc, perrno, sock, request, unforked>>
clientVars == <<ask, cpc, sent, response>>
vars == <<ppc, perrno, sock, request, holders, pending, ask,
          cpc, sent, upstream, downstream, response, unforked>>

Message(c) == Append([k \in DOMAIN ask[c] |-> Path(ask[c][k])], NUL)
Answer(c) == Append([k \in DOMAIN ask[c] |-> Listing(ask[c][k])], NUL)

Init ==
  /\ ppc = [p \in Procs |-> IF p = Root THEN "accept" ELSE "unborn"]
  /\ perrno = [p \in Procs |-> FALSE]
  /\ sock = [p \in Procs |-> Nobody]
  /\ request = [p \in Procs |-> << >>]
  /\ holders = [c \in Clients |-> {}]
  /\ pending = << >>
  /\ ask \in Asks
  /\ cpc = [c \in Clients |-> "off"]
  /\ sent = [c \in Clients |-> 0]
  /\ upstream = [c \in Clients |-> << >>]
  /\ downstream = [c \in Clients |-> << >>]
  /\ response = [c \in Clients |-> << >>]
  /\ unforked = {}

Live(p) == ppc[p] \notin {"unborn", "dead"}
Fds(p) == Cardinality({c \in Clients : p \in holders[c]})
PGoto(p, label) == ppc' = [ppc EXCEPT ![p] = label]

-----------------------------------------------------------------------------
(* The server.                                                             *)

\* A process that ends closes its descriptors; with the last process the
\* listening socket goes, and the connections that wait there.
Exit(p) ==
  /\ PGoto(p, "dead")
  /\ holders' = [c \in Clients |-> holders[c] \ {p}]
  /\ pending' = IF \E q \in Procs \ {p} : Live(q) THEN pending ELSE << >>

HasFd(p) == Fds(p) < FdRoom

\* accept() without a free descriptor fails before it waits.
AcceptNoRoom(p) ==
  /\ ppc[p] = "accept" /\ ~HasFd(p)
  /\ Exit(p)
  /\ UNCHANGED <<perrno, sock, request, upstream, downstream, unforked>>

\* accept(), then check_errno(), which also sees what an earlier fork() or
\* read() left.
Accept(p) ==
  /\ ppc[p] = "accept" /\ HasFd(p)
  /\ pending # << >>
  /\ sock' = [sock EXCEPT ![p] = Head(pending)]
  /\ \/ /\ ~perrno[p]
        /\ holders' = [holders EXCEPT ![Head(pending)] = @ \cup {p}]
        /\ pending' = Tail(pending)
        /\ PGoto(p, "fork")
     \/ /\ perrno[p]
        /\ PGoto(p, "dead")
        /\ holders' = [c \in Clients |-> holders[c] \ {p}]
        /\ pending' = IF \E q \in Procs \ {p} : Live(q) THEN Tail(pending) ELSE << >>
  /\ UNCHANGED <<perrno, request, upstream, downstream, unforked>>

\* Mutant: the child is not told about the connections of its parent.
ForkLoses(p) ==
  /\ ppc[p] = "fork"
  /\ PGoto(p, "accept")
  /\ sock' = [sock EXCEPT ![p] = Nobody]
  /\ UNCHANGED <<perrno, request, holders, pending, upstream, downstream, unforked>>

\* fork(): the child gets every descriptor of its parent; the parent goes
\* back to accept() with what it held before, also when fork() fails, which it
\* may at any time.
ForkAs(p, before) ==
  /\ ppc[p] = "fork"
  /\ \/ \E q \in Procs :
          /\ ppc[q] = "unborn" /\ \A r \in Procs : r < q => ppc[r] # "unborn"
          /\ ppc' = [ppc EXCEPT ![p] = "accept", ![q] = "read"]
          /\ sock' = [sock EXCEPT ![p] = Nobody, ![q] = sock[p]]
          /\ holders' = [c \in Clients |->
                           IF p \in before[c] THEN before[c] \cup {q} ELSE before[c]]
          /\ UNCHANGED <<perrno, unforked>>
     \/ /\ PGoto(p, "accept")
        /\ sock' = [sock EXCEPT ![p] = Nobody]
        /\ perrno' = [perrno EXCEPT ![p] = TRUE]
        /\ unforked' = unforked \cup {sock[p]}
        /\ holders' = before
  /\ UNCHANGED <<request, pending, upstream, downstream>>

\* Mutant: the connection is closed before fork() and not after it.
ForkAfterClose(p) == ForkAs(p, [holders EXCEPT ![sock[p]] = @ \ {p}])

Fork(p) == ForkAs(p, holders)

Gone(c) == cpc[c] \in {"killed", "done"}

\* One read() of read_client(): any part of what has arrived, the end of the
\* stream, or an error if the client went away.  A byte in ends ends the request.
ReadUntil(p, ends) ==
  LET c == sock[p] IN
  /\ ppc[p] = "read"
  /\ \/ \E n \in 1 .. Len(upstream[c]) :
          LET got == request[p] \o SubSeq(upstream[c], 1, n) IN
          /\ request' = [request EXCEPT ![p] = got]
          /\ upstream' = [upstream EXCEPT ![c] = SubSeq(@, n + 1, Len(@))]
          /\ PGoto(p, IF Last(got) \in ends THEN "list" ELSE "read")
          /\ UNCHANGED perrno
     \/ /\ upstream[c] = << >> /\ Gone(c)
        /\ perrno' \in {perrno, [perrno EXCEPT ![p] = TRUE]}
        /\ PGoto(p, "list")
        /\ UNCHANGED <<request, upstream>>
  /\ UNCHANGED <<sock, holders, pending, downstream, unforked>>

\* Mutant: the end of a read() is taken for the end of the request.
ReadClientOnce(p) == ReadUntil(p, Range(Message(sock[p])))

ReadClient(p) == ReadUntil(p, {NUL})

\* print_dir() of the next path.  It sets errno to 0.
PrintDir(p) ==
  LET c == sock[p] IN
  /\ ppc[p] = "list"
  /\ request[p] \notin {<< >>, <<NUL>>}
  /\ downstream' = [downstream EXCEPT ![c] =
                      IF Gone(c) THEN @ ELSE Append(@, Listing(Head(request[p]).of))]
  /\ request' = [request EXCEPT ![p] = Tail(@)]
  /\ perrno' = [perrno EXCEPT ![p] = FALSE]
  /\ UNCHANGED <<ppc, sock, holders, pending, upstream, unforked>>

\* The closing NUL of the answer.
EndAnswer(p) ==
  LET c == sock[p] IN
  /\ ppc[p] = "list"
  /\ request[p] \in {<< >>, <<NUL>>}
  /\ downstream' = [downstream EXCEPT ![c] = IF Gone(c) THEN @ ELSE Append(@, NUL)]
  /\ UNCHANGED <<perrno, upstream, unforked>>

\* Mutant: the child exits when it has answered.
FinishAndExit(p) == EndAnswer(p) /\ Exit(p) /\ UNCHANGED <<sock, request>>

\* close() follows; the child then takes its turn at accept().
FinishClient(p) ==
  /\ EndAnswer(p)
  /\ request' = [request EXCEPT ![p] = << >>]
  /\ sock' = [sock EXCEPT ![p] = Nobody]
  /\ holders' = [holders EXCEPT ![sock[p]] = @ \ {p}]
  /\ PGoto(p, "accept")
  /\ UNCHANGED pending

\* A child whose client is gone may end by SIGPIPE in a write(), or in
\* strtok() on a request that is missing or not terminated.
ChildDies(p) ==
  /\ ppc[p] = "list" /\ Gone(sock[p])
  /\ Exit(p)
  /\ UNCHANGED <<perrno, sock, request, upstream, downstream, unforked>>

ServerStep(p) ==
  /\ \/ AcceptNoRoom(p) \/ Accept(p) \/ Fork(p)
     \/ ReadClient(p) \/ PrintDir(p) \/ FinishClient(p) \/ ChildDies(p)
  /\ UNCHANGED clientVars

-----------------------------------------------------------------------------
(* The client.                                                             *)

Connect(c) ==
  /\ cpc[c] = "off" /\ \A d \in 1 .. c - 1 : cpc[d] # "off"
  /\ \/ /\ \E p \in Procs : Live(p)
        /\ pending' = Append(pending, c)
        /\ cpc' = [cpc EXCEPT ![c] = "send"]
     \/ /\ \A p \in Procs : ~Live(p)
        /\ cpc' = [cpc EXCEPT ![c] = "failed"]
        /\ UNCHANGED pending
  /\ UNCHANGED <<ask, sent, upstream, downstream, response>>

\* Nobody has the other end of the connection any more.
HungUp(c) == holders[c] = {} /\ \A k \in DOMAIN pending : pending[k] # c

\* The writes of the paths, one at a time, and of the NUL.  The first write()
\* to a server that is gone is lost, a later one raises SIGPIPE.
Send(c) ==
  /\ cpc[c] = "send"
  /\ \/ /\ upstream' = [upstream EXCEPT ![c] = IF HungUp(c) THEN @
                                                ELSE Append(@, Message(c)[sent[c] + 1])]
        /\ sent' = [sent EXCEPT ![c] = @ + 1]
        /\ cpc' = [cpc EXCEPT ![c] =
                     IF sent[c] + 1 = Len(Message(c)) THEN "receive" ELSE @]
     \/ /\ HungUp(c)
        /\ cpc' = [cpc EXCEPT ![c] = "killed"]
        /\ UNCHANGED <<sent, upstream>>
  /\ UNCHANGED <<ask, pending, downstream, response>>

\* One read(); the client prints what it has after a NUL or when the server
\* has hung up.
Receive(c) ==
  /\ cpc[c] = "receive"
  /\ \/ \E n \in 1 .. Len(downstream[c]) :
          LET got == response[c] \o SubSeq(downstream[c], 1, n) IN
          /\ response' = [response EXCEPT ![c] = got]
          /\ downstream' = [downstream EXCEPT ![c] = SubSeq(@, n + 1, Len(@))]
          /\ cpc' = [cpc EXCEPT ![c] = IF Last(got) = NUL THEN "done" ELSE @]
     \/ /\ downstream[c] = << >> /\ HungUp(c)
        /\ cpc' = [cpc EXCEPT ![c] = "done"]
        /\ UNCHANGED <<downstream, response>>
  /\ UNCHANGED <<ask, pending, sent, upstream>>

ClientStep(c) ==
  /\ Send(c) \/ Receive(c)
  /\ UNCHANGED <<serverVars, holders>>

KillClient(c) ==
  /\ cpc[c] \in {"send", "receive"}
  /\ cpc' = [cpc EXCEPT ![c] = "killed"]
  /\ UNCHANGED <<serverVars, holders, pending,
                 ask, sent, upstream, downstream, response>>

-----------------------------------------------------------------------------
Next ==
  \/ \E p \in Procs : ServerStep(p)
  \/ \E c \in Clients :
       \/ Connect(c) /\ UNCHANGED <<serverVars, holders>>
       \/ ClientStep(c)
       \/ KillClient(c)

Spec == Init /\ [][Next]_vars

Fairness ==
  /\ \A p \in Procs : WF_vars(ServerStep(p))
  /\ \A c \in Clients : WF_vars(ClientStep(c))
FairSpec == Spec /\ Fairness

-----------------------------------------------------------------------------
\* Every variable keeps its type and no process holds more descriptors than
\* the system gives it (server.c:87-114, client.c:22-66).
TypeOK ==
  /\ ppc \in [Procs -> {"unborn", "accept", "fork", "read", "list", "dead"}]
  /\ perrno \in [Procs -> BOOLEAN]
  /\ sock \in [Procs -> Clients \cup {Nobody}]
  /\ request \in [Procs -> Seq(Token)]
  /\ holders \in [Clients -> SUBSET Procs]
  /\ \A p \in Procs : Fds(p) <= FdRoom
  /\ pending \in Seq(Clients)
  /\ ask \in Asks
  /\ cpc \in [Clients -> {"off", "send", "receive", "done", "failed", "killed"}]
  /\ sent \in [Clients -> Nat]
  /\ upstream \in [Clients -> Seq(Token)]
  /\ downstream \in [Clients -> Seq(Token)]
  /\ response \in [Clients -> Seq(Token)]
  /\ unforked \subseteq Clients

\* However the streams are cut into reads and whoever answers, a client has
\* the listings of its own paths in the order it gave them, and it ends with
\* less than all of them only if the fork() for it failed, the process that
\* had it died or the whole service ended (server.c:62-85, client.c:52-63).
ResponseExact ==
  \A c \in Clients :
    /\ IsPrefix(response[c], Answer(c))
    /\ cpc[c] = "done" =>
         \/ response[c] = Answer(c)
         \/ c \in unforked
         \/ \E p \in Procs : ppc[p] = "dead" /\ sock[p] = c
         \/ \A p \in Procs : ~Live(p)

\* The parent never closes a connection, so every process that accepts runs
\* out of descriptors; but each child is back at accept() with one
\* descriptor more than its parent has left.  As long as no fork() fails and
\* no client goes away, someone can accept.
ServiceRemains ==
  (unforked = {} /\ \A c \in Clients : cpc[c] # "killed")
    => \E p \in Procs :
         /\ Live(p)
         /\ Cardinality({c \in Clients : p \in holders[c] /\ c # sock[p]}) < FdRoom

\* A client that waits has someone at work for it, unless its fork() failed.
NobodyAbandoned ==
  \A c \in Clients :
    cpc[c] = "receive" /\ downstream[c] = << >> /\ ~HungUp(c) /\ c \notin unforked =>
      \/ \E k \in DOMAIN pending : pending[k] = c
      \/ \E p \in Procs : Live(p) /\ sock[p] = c

\* Every client gets its answer or an end; only one whose fork() failed may
\* wait as long as the process that accepted it lives.
EveryClientAnswered ==
  \A c \in Clients :
    cpc[c] \in {"send", "receive"} ~> (cpc[c] \in {"done", "killed"} \/ c \in unforked)

-----------------------------------------------------------------------------
(* The inductive invariant.                                                *)

Waits(c) == \E k \in DOMAIN pending : pending[k] = c
Serves(p) == ppc[p] \in {"fork", "read", "list"}

\* A connection is in one place: it waits, or one process has it as sock, or
\* its fork() failed, or it has been dealt with.
Places ==
  /\ \A j, k \in DOMAIN pending : pending[j] = pending[k] => j = k
  /\ pending # << >> => \E p \in Procs : Live(p)
  /\ \A p, q \in Procs : sock[p] = sock[q] /\ sock[p] # Nobody => p = q
  /\ \A p \in Procs :
       /\ ppc[p] \in {"unborn", "accept"} => sock[p] = Nobody
       /\ Serves(p) => sock[p] \in Clients /\ p \in holders[sock[p]]
       /\ ppc[p] \in {"unborn", "accept", "fork"} => request[p] = << >>
  /\ \A c \in Clients :
       /\ \A p \in holders[c] : Live(p)
       /\ Waits(c) => holders[c] = {}
       /\ Waits(c) \/ c \in unforked => \A p \in Procs : sock[p] # c
       /\ Waits(c) => c \notin unforked

\* What the server has still to read and the client still to get is the rest
\* of the message and of the answer.
Unread(c, n) ==
  /\ n <= sent[c]
  /\ upstream[c] = SubSeq(Message(c), n + 1, sent[c])
  /\ downstream[c] = << >> /\ response[c] = << >>

Got(c) == Len(response[c])
Written(c) == Got(c) + Len(downstream[c])

Flows ==
  /\ \A c \in Clients :
       /\ Waits(c) \/ cpc[c] \in {"off", "failed"} => Unread(c, 0)
       /\ sent[c] <= Len(Message(c))
       /\ cpc[c] \in {"off", "send", "failed"} => sent[c] < Len(Message(c))
       /\ Written(c) <= Len(Answer(c))
       /\ response[c] = SubSeq(Answer(c), 1, Got(c))
       /\ downstream[c] = SubSeq(Answer(c), Got(c) + 1, Written(c))
       /\ cpc[c] \in {"send", "receive"} => Got(c) < Len(Answer(c))
  /\ \A p \in Procs :
       /\ ppc[p] \in {"fork", "read"} =>
            /\ Unread(sock[p], Len(request[p]))
            /\ request[p] = SubSeq(Message(sock[p]), 1, Len(request[p]))
       /\ ppc[p] = "list" /\ ~Gone(sock[p]) =>
            /\ Written(sock[p]) < Len(Message(sock[p]))
            /\ request[p] = SubSeq(Message(sock[p]), Written(sock[p]) + 1,
                                   Len(Message(sock[p])))

\* What becomes of a connection.
Fates ==
  \A c \in Clients :
    /\ cpc[c] \in {"off", "failed"} =>
         /\ ~Waits(c) /\ holders[c] = {} /\ c \notin unforked
         /\ \A p \in Procs : sock[p] # c
    /\ cpc[c] \in {"send", "receive"} =>
         \/ Waits(c) \/ c \in unforked \/ Written(c) = Len(Answer(c))
         \/ \E p \in Procs : sock[p] = c
         \/ \A p \in Procs : ~Live(p)
    /\ cpc[c] = "done" => ~Waits(c) /\ \A p \in Procs : Serves(p) => sock[p] # c
    /\ \A p \in Procs : ppc[p] = "dead" /\ sock[p] = c => Gone(c) \/ HungUp(c)

\* errno is left behind by a fork() that failed and by a client that went away.
NoTrouble == unforked = {} /\ \A c \in Clients : cpc[c] # "killed"
Errnos == NoTrouble => \A p \in Procs : ~perrno[p]

IInv ==
  /\ TypeOK /\ Places /\ Flows /\ Fates /\ Errnos
  /\ ResponseExact /\ ServiceRemains

=============================================================================
