----------------------------- MODULE SharedParam -----------------------------
(***************************************************************************)
(* lab5/part_1 with -s and -f: the server keeps struct server_param in     *)
(* memory it shares with its clients, a System V segment of its own (-s)   *)
(* or a named file mapped with mmap (-f), and rewrites it once a second.   *)
(* Which, is for the words it was started with to say (Part1Args).         *)
(* A client attaches, prints work_time and loadavg, and ends; nothing      *)
(* keeps it from reading while the server writes.                          *)
(*                                                                         *)
(* A value that is written stands for the moment it was taken (the count   *)
(* of set_param calls so far) and for the process that took it; start is   *)
(* the process whose start_time is in the region, which set_param reads    *)
(* back from there.  The identifiers of set_ids that nobody reads back are *)
(* left out.  A segment outlives every process: only shmctl(IPC_RMID)      *)
(* would remove it, and the program has no such call.                      *)
(***************************************************************************)
EXTENDS Part1Args

CONSTANTS Servers, Clients, \* the processes, each started at most once
          Lines,            \* the command lines considered, of both programs
          MaxClock          \* bound: set_param calls considered

ASSUME SharedAssumption == MaxClock \in Nat

VARIABLES region, \* what each region holds
          pc,     \* where each server is
          where,  \* the region of each server
          words,  \* the words of each server, and client, of a file
          holder, \* the server that holds the write lock on each file
          shown,  \* the work_time and loadavg each server printed last
          said,   \* the servers that printed "Destroyed."
          clock,  \* set_param calls so far
          cpc,    \* where each client is
          from,   \* the region of each client
          atOpen, \* what that region held when the client attached
          got     \* what the client read, field by field

vars == <<region, pc, where, words, holder, shown, said, clock,
          cpc, from, atOpen, got>>
serverVars == <<pc, where, holder, shown, said, clock>>
clientVars == <<cpc, from, atOpen, got>>

None == "none"
\* What the programs may be told to use: a word that names it and, for a file,
\* the command line that does.
Told(P(_), key) ==
  {[words |-> line, word |-> P(line).word] : line \in {l \in Lines : P(l).key = key}}
ServerFiles == Told(ParseFlag, "f")
ServerSegments == Told(ParseFlag, "s")
ClientFiles == Told(ParseFlagCl, "f")
ClientSegments == Told(ParseFlagCl, "s")

\* A file is named by the word that named it, the segment of s after s.
Files == {t.word.text : t \in ServerFiles \union ClientFiles}
Regions == Servers \union Files

\* A process is not a file, a server not a client, and none is nothing.
ASSUME NamesAssumption ==
  /\ Servers \intersect Files = {} /\ Servers \intersect Clients = {}
  /\ None \notin Regions

\* A field: who wrote it, when, and counting from whose start_time.  A region
\* begins as zeros.
Zero == [at |-> 0, by |-> None, since |-> None]
Field == [at : 0..MaxClock, by : Servers \union {None}, since : Servers \union {None}]
Copies == UNION {[fs -> Field] : fs \in SUBSET {"work", "load"}}   \* some fields of a region
Held == [start : Servers \union {None}, work : Field, load : Field]
Fresh == [start |-> None, work |-> Zero, load |-> Zero]
Nothing == [work |-> Zero, load |-> Zero]
Loop == {"work", "load", "print"}
Living == {"lock", "truncate", "refused", "ids"} \union Loop

Init ==
  /\ region = [r \in Regions |-> [exists |-> FALSE, sized |-> FALSE, held |-> Fresh]]
  /\ pc = [s \in Servers |-> "off"] /\ where = [s \in Servers |-> None]
  /\ words = [p \in Servers \union Clients |-> <<>>]
  /\ holder = [f \in Files |-> None] /\ said = {} /\ clock = 0
  /\ shown = [s \in Servers |-> Nothing]
  /\ cpc = [c \in Clients |-> "off"] /\ from = [c \in Clients |-> None]
  /\ atOpen = [c \in Clients |-> Fresh]
  /\ got = [c \in Clients |-> <<>>]

Goto(s, l) == pc' = [pc EXCEPT ![s] = l]
Write(s, field, value) ==
  region' = [region EXCEPT ![where[s]].held[field] = value]

-----------------------------------------------------------------------------
(* The server.                                                              *)

\* shared_memory_param: shmget(IPC_PRIVATE) makes a new zeroed segment.
MakeSegment(s) ==
  /\ pc[s] = "off" /\ Goto(s, "ids")
  /\ ServerSegments # {}
  /\ where' = [where EXCEPT ![s] = s]
  /\ region' = [region EXCEPT ![s].exists = TRUE, ![s].sized = TRUE]
  /\ UNCHANGED <<words, holder, shown, said, clock, clientVars>>

\* mmap_file: open with O_CREAT, and the signal handler.
OpenFile(s) ==
  /\ pc[s] = "off" /\ Goto(s, "lock")
  /\ \E told \in ServerFiles :
       /\ words' = [words EXCEPT ![s] = told.words]
       /\ where' = [where EXCEPT ![s] = told.word.text]
       /\ region' = [region EXCEPT ![told.word.text].exists = TRUE]
  /\ UNCHANGED <<holder, shown, said, clock, clientVars>>

\* fcntl(F_SETLK) does not wait: if another process has the lock it sets errno,
\* which is looked at only after ftruncate.
Lock(s, otherwise) ==
  /\ pc[s] = "lock"
  /\ LET free == holder[where[s]] = None IN
     /\ holder' = [holder EXCEPT ![where[s]] = IF free THEN s ELSE @]
     /\ Goto(s, IF free THEN "truncate" ELSE otherwise)
  /\ UNCHANGED <<region, where, words, shown, said, clock, clientVars>>

\* Mutant: nobody looks at what fcntl left in errno.
LockFileUnchecked(s) == Lock(s, "truncate")

LockFile(s) == Lock(s, "refused")

\* A process that ends gives up its lock, and its memory goes with it.
End(s) ==
  /\ Goto(s, "dead")
  /\ where' = [where EXCEPT ![s] = None]
  /\ words' = [words EXCEPT ![s] = <<>>]
  /\ shown' = [shown EXCEPT ![s] = Nothing]
  /\ holder' = [f \in Files |-> IF holder[f] = s THEN None ELSE holder[f]]
  /\ UNCHANGED <<clock, clientVars>>

\* ftruncate gives the file the size of the structure, keeping what is in it;
\* then check_errno ends the server that did not get the lock.
TruncateTo(s, file) ==
  /\ \/ /\ pc[s] = "truncate" /\ Goto(s, "ids")
        /\ UNCHANGED <<where, words, holder, shown, clock, clientVars>>
     \/ pc[s] = "refused" /\ End(s)
  /\ region' = [region EXCEPT ![where[s]] = file]
  /\ UNCHANGED said

\* Mutants: the file's old contents are thrown away, or it keeps its size.
TruncateToZero(s) ==
  TruncateTo(s, [exists |-> TRUE, sized |-> TRUE, held |-> Fresh])
TruncateNot(s) == TruncateTo(s, region[where[s]])

Truncate(s) == TruncateTo(s, [region[where[s]] EXCEPT !.sized = TRUE])

SetIds(s) ==
  /\ pc[s] = "ids" /\ Goto(s, "work")
  /\ Write(s, "start", s)
  /\ UNCHANGED <<where, words, holder, shown, said, clock, clientVars>>

\* set_param, first half: work_time = now - start_time, both in the region.
SetWork(s) ==
  /\ pc[s] = "work" /\ clock < MaxClock /\ Goto(s, "load")
  /\ clock' = clock + 1
  /\ Write(s, "work",
           [at |-> clock + 1, by |-> s, since |-> region[where[s]].held.start])
  /\ UNCHANGED <<where, words, holder, shown, said, clientVars>>

\* set_param, second half: getloadavg into the region.
SetLoad(s) ==
  /\ pc[s] = "load" /\ Goto(s, "print")
  /\ Write(s, "load", [at |-> clock, by |-> s, since |-> None])
  /\ UNCHANGED <<where, words, holder, shown, said, clock, clientVars>>

\* The server's own line is printed from the region too.
PrintParam(s) ==
  /\ pc[s] = "print" /\ Goto(s, "work")
  /\ LET held == region[where[s]].held IN
     shown' = [shown EXCEPT ![s] = [work |-> held.work, load |-> held.load]]
  /\ UNCHANGED <<region, where, words, holder, said, clock, clientVars>>

\* SIGINT: "Destroyed.", shmdt of the segment's id (which is no address, so it
\* does nothing), lockf(F_ULOCK), exit.
Die(s) == pc[s] \in Living /\ End(s) /\ said' = said \union {s} /\ UNCHANGED region

\* Any other way to end.
Kill(s) == pc[s] \in Living /\ End(s) /\ UNCHANGED <<region, said>>

-----------------------------------------------------------------------------
(* The client: shmat or open and mmap, then the arguments of one printf,    *)
(* which C evaluates in any order.                                          *)

Attach(c, line, r) ==
  /\ cpc[c] = "off"
  /\ words' = [words EXCEPT ![c] = line]
  /\ from' = [from EXCEPT ![c] = r]
  /\ atOpen' = [atOpen EXCEPT ![c] = region[r].held]
  /\ cpc' = [cpc EXCEPT ![c] = IF region[r].exists THEN "read" ELSE "refused"]
  /\ UNCHANGED <<region, serverVars, got>>

AttachFile(c) ==
  \E told \in ClientFiles : Attach(c, told.words, told.word.text)

\* strtol() makes 0 of a word that is no number, and any segment, or none, may
\* have 0 as its id.
AttachSegment(c) ==
  \E told \in ClientSegments, r \in Servers :
    told.word.number \in {r, 0} /\ Attach(c, <<>>, r)

\* Reading behind the end of the file kills the client.
ReadField(c, f) ==
  /\ cpc[c] = "read" /\ f \notin DOMAIN got[c]
  /\ IF region[from[c]].sized
     THEN /\ got' = [got EXCEPT ![c] =
               [g \in DOMAIN got[c] \union {f} |->
                  IF g = f THEN region[from[c]].held[f] ELSE got[c][g]]]
          /\ cpc' = [cpc EXCEPT ![c] =
               IF DOMAIN got[c] \union {f} = {"work", "load"} THEN "printed" ELSE "read"]
     ELSE cpc' = [cpc EXCEPT ![c] = "sigbus"] /\ UNCHANGED got
  /\ UNCHANGED <<region, serverVars, words, from, atOpen>>

-----------------------------------------------------------------------------
ServerStep(s) ==
  \/ MakeSegment(s) \/ OpenFile(s) \/ LockFile(s) \/ Truncate(s) \/ SetIds(s)
  \/ SetWork(s) \/ SetLoad(s) \/ PrintParam(s) \/ Die(s) \/ Kill(s)

ClientStep(c) ==
  \/ AttachFile(c) \/ AttachSegment(c)
  \/ \E f \in {"work", "load"} : ReadField(c, f)

Next == (\E s \in Servers : ServerStep(s)) \/ (\E c \in Clients : ClientStep(c))

Spec == Init /\ [][Next]_vars

-----------------------------------------------------------------------------
(* Properties.                                                              *)

\* Every variable keeps its type; a server past its set-up writes only into a
\* region that exists and is large enough.
TypeOK ==
  /\ region \in [Regions -> [exists : BOOLEAN, sized : BOOLEAN, held : Held]]
  /\ pc \in [Servers -> {"off", "dead"} \union Living]
  /\ where \in [Servers -> Regions \union {None}]
  /\ words \in [Servers \union Clients -> Lines \union {<<>>}]
  /\ holder \in [Files -> Servers \union {None}] /\ said \subseteq Servers
  /\ shown \in [Servers -> [work : Field, load : Field]]
  /\ cpc \in [Clients -> {"off", "refused", "read", "sigbus", "printed"}]
  /\ from \in [Clients -> Regions \union {None}] /\ clock \in 0..MaxClock
  /\ atOpen \in [Clients -> Held]
  /\ got \in [Clients -> Copies]
  /\ \A s \in Servers : pc[s] \in {"ids"} \union Loop => region[where[s]].sized

\* The lock that mmap_file takes without looking at its result still leaves at
\* most one server writing a file, through every crash and restart.
Writing(s) == pc[s] \in {"ids"} \union Loop
OneServerPerFile ==
  \A s, t \in Servers :
    Writing(s) /\ Writing(t) /\ where[s] = where[t] => s = t

\* A client that is given the words of a server, with one key as the usage
\* has it, reads the file that this server writes and has locked, though one
\* program passes over the word it took and the other does not
\* (server.c:166-178, client.c:120-131).
OneKey(line) == DOMAIN Letters(line) = {1}
SameWordsMeet ==
  \A s \in Servers, c \in Clients :
    Writing(s) /\ words[c] = words[s] /\ OneKey(words[s]) =>
      from[c] = where[s] /\ holder[from[c]] = s

\* A server prints what its own set_param has just put in the region, with the
\* working time counted from its own start.
ServerPrintsOwn ==
  \A s \in Servers :
    shown[s].work # Zero =>
      /\ shown[s].work.by = s /\ shown[s].work.since = s
      /\ shown[s].load.by = s /\ shown[s].load.at >= shown[s].work.at

\* A client never prints a value older than the one in the region when it
\* attached, though servers may come and go before it reads.
ClientNotBehind ==
  \A c \in Clients : \A f \in DOMAIN got[c] : got[c][f].at >= atOpen[c][f].at

\* server.c:195, the message "Destroyed." that die() prints: no client that
\* attaches to the segment afterwards finds it.
DestroyedMeansGone ==
  [][\A c \in Clients, s \in said :
       cpc[c] = "off" /\ cpc'[c] # "off" /\ from'[c] = s => cpc'[c] = "refused"]_vars

-----------------------------------------------------------------------------
(* The inductive invariant behind the properties above but the last, which  *)
(* does not hold.                                                           *)

\* A server has a region while it lives, its own segment or a file; when it
\* gets beyond the lock, it has the lock of its file.
Placed ==
  \A s \in Servers :
    /\ pc[s] \in Living <=> where[s] # None
    /\ where[s] \in Servers => where[s] = s /\ Writing(s)
    /\ (Writing(s) \/ pc[s] = "truncate") /\ where[s] \in Files => holder[where[s]] = s

\* What a server has put in its region since it began its round is there yet.
Written ==
  /\ \A r \in Regions : region[r].held.work.at <= clock /\ region[r].held.load.at <= clock
  /\ \A s \in Servers :
       LET held == region[where[s]].held IN
       /\ pc[s] \in Loop => held.start = s
       /\ pc[s] \in {"load", "print"} => held.work.by = s /\ held.work.since = s
       /\ pc[s] = "print" => held.load.by = s /\ held.load.at >= held.work.at

\* What a client has attached to is not older now than it was then.
Seen ==
  \A c \in Clients :
    /\ cpc[c] = "off" => got[c] = <<>>
    /\ cpc[c] # "off" =>
         /\ from[c] \in Regions
         /\ region[from[c]].held.work.at >= atOpen[c].work.at
         /\ region[from[c]].held.load.at >= atOpen[c].load.at

\* The words of a process are what led it to its file.
Named ==
  /\ \A s \in Servers :
       /\ words[s] # <<>> => \E told \in ServerFiles :
                               words[s] = told.words /\ where[s] = told.word.text
       /\ pc[s] = "off" => words[s] = <<>>
  /\ \A c \in Clients :
       words[c] # <<>> => \E told \in ClientFiles :
                            words[c] = told.words /\ from[c] = told.word.text

\* In every state a server that writes has its region to itself, what it wrote
\* is there until it writes anew, and everyone is where its words say
\* (server.c:36-144, client.c:20-57).
IInv ==
  /\ TypeOK /\ Placed /\ Written /\ Seen /\ Named
  /\ ServerPrintsOwn /\ ClientNotBehind

=============================================================================
