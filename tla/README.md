# TLA+ models of system_software

The repository holds the laboratory works of a course on system software.  The
programs with logic of their own are in C: a program of threads that share an
array (`osp/lab5/part_2`), three pairs of server and client (`osp/lab5/part_1`,
`osp/lab5/part_3`, `osp/lab6/c`), a file printer (`osp/lab4/Cat`) and a pipe
between two processes (`osp/lab5/unnamed_pipe`).  This directory models them in
TLA+, checks the models with TLC on small instances and proves, with TLAPS, the
safety properties of all of them, among them four refinements, for every array of
letters, and for queues, texts, command lines, processes and crowds of clients of
any size, within the preconditions that section 5 states.

`tlc -config X.cfg M` runs a configuration on the module the table of runs
names; `tlapm M.tla` checks the proofs of the modules called `...Proofs`.


## 1. Inventory

### ./threads (`osp/lab5/part_2`)

| | |
|---|---|
| State | `volatile char array[SIZE]`; one lock per subtask: `sem_t sem`, System V `sem_id` with the shared `struct sembuf *sembuf`, `mutex`, `rwlock`; the locals `i`, `tmp`, `res` of each thread; `errno` of the main thread; what is on stdout |
| Operations | `start()`, `parse_flag()`, `first_task()` .. `forth_task()`, the ten thread functions, `change_reg()`, `reverse()`, `count_letters()`, `print_array()`, `check_errno()` |
| Interaction | shared memory under the lock of the subtask; `pthread_create`, `pthread_join` |
| Hard | every access of one thread to the array may fall between two of another; one `check_errno()` looks at several calls; both threads of subtask 2 write the operation they want into one `sembuf`; readers of subtask 4 overlap |
| Correct if | lines and counts on stdout are those of whole operations, operations (subtasks 1, 2: whole passes) are atomic, every lock is given back, no thread is missing unnoticed |

### Server and client over a message queue (`part_1 -q`)

| | |
|---|---|
| State | `*server_param`; the queue with `MSGTYPE_QUERY` and `MSGTYPE_REPLY` messages; the local copies of each client |
| Operations | `message_queue_param()`, `set_param()`, the loop of `start_server()`, `get_param_message_queue_param()`, called twice by `get_param()` |
| Interaction | one queue for all clients and both directions; a reply does not say for whom it is |
| Hard | replies are taken by whoever comes first; the server measures before it waits; `msgsnd()` blocks at `msg_qbytes`; killed clients leave queries and replies behind |
| Correct if | a client prints a measurement made after it started, no reply is given twice, nobody waits for a reply that nobody owes |

### Server and client over shared memory or a mapped file (`part_1 -s`, `-f`)

| | |
|---|---|
| State | `struct server_param` in a segment or a file; the lock of the file; the clients' addresses |
| Operations | `parse_flag()`, `parse_flag_cl()`, `shared_memory_param()`, `mmap_file()`, `set_ids()`, `set_param()`, `print_param()`, `die()`; the client attaches and prints |
| Interaction | memory, without any synchronisation between server and client |
| Hard | both programs take words beside `getopt`, each in its own way; a second server on the same file; values that outlive the server that wrote them; a client that maps an empty file |
| Correct if | the same words lead server and client to the same file, one server writes a file at a time, the server's own line is its own measurement, a client never sees values go back |

### Server and client over a unix socket (`part_3`)

| | |
|---|---|
| State | the path `/tmp/socket5`; the backlog of `listen(sock, 0)`; `*server_param`; the connection of each client |
| Operations | `start_server()` from `unlink()` to its accept loop, the signal handlers, `get_param()` twice in the client's `main()` |
| Interaction | connections; the path names the server that bound it last |
| Hard | servers that take the path from each other; `errno` of one call read after another; a server or a client that dies at any point of a connection |
| Correct if | a client prints a fresh measurement or garbage only if its server died under it, no measurement is given twice, every client ends |

### Directory server and client (`lab6/c`)

| | |
|---|---|
| State | the processes of the server with their descriptors; the queue of connections; the streams, cut into reads; what each side has read |
| Operations | `start_server()` with `accept()` and `fork()`, `read_client()`, `print_dir()`; the client's `getinfo()` |
| Interaction | TCP streams; descriptors inherited by `fork()` |
| Hard | the child goes on to accept; the parent keeps every connection; `fork()` may fail and its `errno` is met one connection later; a message ends at its NUL wherever reads cut it |
| Correct if | a client has exactly the listings of its own paths, somebody can accept, nobody is left waiting |

### Cat (`osp/lab4/Cat`)

| | |
|---|---|
| State | the flags, the globals `N` and `I`, the position of `getopt`, the buffer of the file and the cursor over it |
| Operations | `parse_flags()`, `main()`, `cat()`, `read_file()`, `cat_stdin()`, `write_console()` |
| Interaction | none: one sequential program |
| Hard | COUNT is taken beside `getopt`; COUNT and sizes are cut to an `int`; the cursor leaves the buffer at both ends; counters that run on from file to file |
| Correct if | the output is the chosen lines of the files with the marks asked for, and the program ends |

### unnamed_pipe (`osp/lab5/unnamed_pipe`)

| | |
|---|---|
| State | the file's length as `size()` saw it; the pipe and who holds its two ends; what `write()` has still to write; what `wc -c` has counted |
| Operations | `main()` up to `fork()`, `read_form_file()` in the parent, `execlp()` in the child |
| Interaction | a pipe; the child becomes `wc`, which the parent does not wait for |
| Hard | the file changes between `fstat()` and `read()`; 64 bits of length in 32; a full pipe; copies of its ends that `fork()` made; a `wc` that is not there |
| Correct if | what `wc` prints is half of what was read, or 0 beside an error, and neither process waits for ever |

### The rest

See section 7.


## 2. Modules

| Module | Models |
|---|---|
| `ArrayOps` | the array; `change_reg()`, `reverse()` and `print_array()` as functions of it, whole and after n iterations |
| `AtomicArray` | the abstract specification: `ObjectSpec` (each operation is atomic) and `PassSpec` (an operation and the print of its result are atomic) |
| `ArrayLoops` | the same operations one access to the volatile array at a time, `pthread_create()` that may fail, `check_errno()` |
| `SemTask`, `SysvSemTask`, `MutexTask`, `RwlockTask` | subtasks 1 to 4: the lock and the threads, over `ArrayLoops` |
| `Threads` | the whole program: `parse_flag()` picks the subtask, whose module (an `INSTANCE`) does the rest |
| `MeasuringService` | the abstract specification of `part_1 -q` and `part_3` together: a client's two calls take measurements of their own, and what it prints is newer than itself |
| `MsgQueue` | `part_1 -q`: one server, clients, the queue |
| `Part1Args` | the command lines of `part_1`: `parse_flag()` and `parse_flag_cl()` as functions of the words |
| `SharedParam` | `part_1 -s` and `-f`, over `Part1Args`: servers, clients, segments and files |
| `UnixSocket` | `part_3`: servers, clients, the path and the backlog |
| `DirServer` | `lab6/c`: processes, descriptors, streams |
| `Cat` | `lab4/Cat` |
| `UnnamedPipe` | `unnamed_pipe`: parent, child, pipe |
| `SemTaskProofs`, `ThreadsProofs`, `MsgQueueProofs`, `SharedParamProofs`, `UnixSocketProofs`, `DirServerProofs`, `CatProofs`, `UnnamedPipeProofs` | theorems |
| `MC...` | constants for TLC that a configuration cannot write |

State and actions carry the names of the code: `pc[t]` is where thread t is,
`i` and `tmp` are its locals, `SemWait`, `ChangeReg`, `Create`, `CheckCreated`,
`ReceiveQuery`, `Bind`, `PrintDir`, `SeekTail` are the calls and loops they are
named for.  Definitions called *auxiliary* record history for a property and
nothing in the code reads them.  Definitions after a comment `Mutant:` are the
code with a plausible mistake in it; no specification uses them, they serve to
see that a property would notice.

What is abstracted, everywhere:

- `sleep()` and `usleep()` are the freedom of the scheduler between two steps.
- The array is volatile: each time its name stands in the code it is read or
  written in a step of its own (`array[i] >= 'A'`, `array[i] <= 'Z'`, the operand
  of the sum and the store are four steps of `change_reg()`).  A cell is a `char`
  of eight bits with a sign; that it holds a letter is an invariant of the code that
  has the array to itself, and no more than that: after a misread of subtask 2 two
  loops may overlap and leave anything in it.
- The contents of `server_param` are the number of the `set_param()` call that measured them
  (which `sleep(1)` makes an increasing time); a path, a listing, an ordinary
  byte of a file are opaque.  A file of `UnnamedPipe` is its length.
- The limits of the types in Cat and `unnamed_pipe` are constants: `IntMax`,
  `ReadMax` (the most one `read()` returns, 0x7ffff000 on Linux) and `StrSize` (1024)
  of `Cat`, `Word` and `ReadMax` of `UnnamedPipe`.  `ToInt` of `Cat` is the
  conversion to `int` of the compilers at hand, which wraps; COUNT is any number
  that fits the `long` of `strtol()`.
- Lock operations that can only fail by misuse do not fail.  Calls that fail for
  want of resources do: `pthread_create()`, `semget()`, `msgget()`, `fork()`,
  `pipe()`, `execlp()`, `accept()` at the limit of descriptors, `bind()`,
  `connect()`.
- `pthread_create()` that fails is taken to leave `errno` set, by the `mmap` or
  `clone` under it; glibc does so, POSIX does not promise it.
- The outcome of undefined behaviour is a choice: what `malloc()` left in an
  unfilled buffer (`Garbage`), the write behind a buffer that `malloc()` may or
  may not notice (`Read` of `UnnamedPipe`), a word taken from behind `argv`, the
  byte on either side of Cat's buffer (part of the input), the end of a child in
  `strtok()`.  A word longer than `str[1024]` and an `int` counted past its largest
  value end Cat's behaviour in "undefined", of which no property says anything.


## 3. Runs

| Run | Module, cfg | Instance | Shows |
|---|---|---|---|
| `sem_task` | `SemTask` | 5 cells | `PrintedWhole`: stdout has only lines that whole operations produce. `ImplementsPasses`: refinement of `AtomicArray!PassSpec`. `LinesKeepComing`. `IInv`: the invariant of the proofs, `TypeOK` among its parts. |
| `threads` | `MCThreads`, `Threads.cfg` | 3 cells, SEMVMX 1, all command lines of up to 5 words | `ImplementsObject`: subtasks 3 and 4 refine `AtomicArray!ObjectSpec`. `AllStarted`: no missing thread goes unnoticed. `ReadersSeeWhole`: the readers of subtask 4 meet finished arrays and count them right. `LocksReturned`. `SoundUntilMisread`: subtask 2 is right as long as no `semop()` reads what the other thread wrote. `IInv`: the invariant of the running subtask. |
| `sysv_sem_race` (violation) | `SysvSemTask` | 2 cells, SEMVMX 2 | both threads of subtask 2 in the array |
| `msg_queue` | `MsgQueue` | 3 clients, room for 2 replies | `ImplementsService`: refinement of `MeasuringService`. `SecondNewer`, `FreshUnlessLeftover`: how old an answer is. `NobodyStranded`, `EveryClientPrints`: nobody waits for ever while the server lives. `IInv`: the invariant of the proofs. |
| `shared_param` | `MCSharedParam`, `SharedParam.cfg` | 3 servers, 1 client, 12 command lines, 2 rounds of `set_param()` | `OneServerPerFile`, `SameWordsMeet`: a client with the words of a server reads what this server writes. `ServerPrintsOwn`, `ClientNotBehind`: whose values are printed and how old they are. `IInv` |
| `shared_param_destroyed` (violation) | `MCSharedParam`, `SharedParamDestroyed.cfg` | 1 server, 1 client | the segment outlives "Уничтожено." |
| `unix_socket` | `UnixSocket` | 2 servers, 2 clients, backlog 0 | `ImplementsService`: refinement of `MeasuringService`. `PrintedFresh`, `ConnectionHeldOnce`, `EveryClientEnds`, `IInv` |
| `unix_socket_bind` (violation) | `UnixSocket` | 2 servers | the first server blames `bind()` for the `errno` of `unlink()` |
| `dir_server` | `MCDirServer`, `DirServer.cfg` | 3 clients (the first or the last with two paths, the others with none), 4 processes, 2 descriptors each | `ResponseExact`, `ServiceRemains`, `NobodyAbandoned`, `EveryClientAnswered`, `IInv` |
| `cat` | `MCCat`, `Cat.cfg` | below | `LinesExact`: the output is the chosen lines of the files with their numbers and marks, and COUNT is the one on the command line. `TailKeepsEnd`: what `-l` never loses. `StdinWordsExact`: the words of standard input, without `-l`. `RivalsRefused`, `Ends`, `IInv` |
| `cat_tail` (violation) | `MCCat` | the same | `-l` is off by one line, or by one byte before the buffer |
| `unnamed_pipe` | `UnnamedPipe` | files of up to 9 bytes, sizes modulo 8, reads of up to 6 bytes, a pipe of 2 | `CountExact`: what `wc` prints. `BothEnd`: nobody waits for ever. `IInv`: the invariant of the proofs. |

`IInv` is in each run the inductive invariant of the proofs about that module, with
`TypeOK` among its parts: TLC looked for counterexamples before it was proved.

Deadlock is checked in `sem_task` and `threads`, whose threads never stop: there
`Done` is a step only after `exit()` and, in subtask 2, after a misread
`semop()`, which really may block both threads for ever.  Everywhere else the
processes end, or wait in `msgrcv()` or `accept()` for clients that need not
come, and the configurations say `CHECK_DEADLOCK FALSE`.

### Bounds

- Array: with 3 cells there is a middle one that `reverse()` leaves alone, an
  exchange of two cells with each of its halves done, and half-changed arrays;
  5 cells (`sem_task`) give `reverse()` two iterations.  The code uses 26; the
  theorems hold for every SIZE up to that, as `'a' + i` is a letter no further.
- `SEMVMX` 1 in `threads` (a semaphore that counts 0 and 1, so that a second post
  is an error) and 2 in the violation run, against 32767 of Linux: only
  behaviours after a misread get above 1.
- Message queue: 3 clients are enough for one that waits, one that takes a reply
  meant for another and one that was killed with a reply outstanding; room for 2
  replies lets leftovers fill the queue.  `param` is bounded by the queries sent.
- Command lines of `part_1`: those of the usage, a file name with a dash, two keys
  in one word and in two, a word that is missing, an id that is negative or no
  number.
- Shared memory: `MaxClock` bounds the calls of `set_param()`: two are an old and
  a new measurement; three servers are one that holds the file, one that is
  refused and one that comes after a crash.
- Unix socket: `listen(sock, 0)` is `Backlog = 0`, one connection that waits; the
  second client finds the backlog full.
- Directory server: 2 descriptors per process, so that the parent is full after
  two connections and the third depends on a child; a process for each
  connection and the parent.
- Cat: every pair of keys, clusters in which COUNT is seen late or not at all,
  COUNT from -1 to 2, a second file; files and directories, texts of up to three
  bytes of two kinds with any byte around the buffer; streams of up to four
  bytes.  Keys stand before files.  With `IntMax = 15` an `int` has five bits and with
  `ReadMax = 12` there are files on either side of each limit: 12, 13, 16, 30, 31, 32
  and 35 bytes, of which the last four stand for 4 GiB - 2 and - 1, 4 GiB and more.
  COUNT is also 15, 16, 31, 33 and -30; three files of five to nine lines bring the
  numbers to `IntMax` and past it, at the first line of a file and inside one; a word of
  five letters is one too long for `StrSize = 5`, and a stream of 17 words runs the
  count of words over.
- Unnamed pipe: with sizes modulo 8 there are files whose length is cut (8 and 9
  bytes) and, with reads of up to 6, a length that no `read()` returns (7), as with
  2^32 and 0x7ffff000 in the code; a pipe of 2 bytes makes the parent wait, for up
  to 3 bytes that it keeps.  `PipeRoom` below what is kept is what matters.

TLC's symmetry sets are used only in `shared_param`, which has no liveness
property.  `MsgQueue`, `UnixSocket` and `DirServer` number their processes in the
order in which they start, or connect: every behaviour of the programs is one of
these once its processes are named that way.  Which client of `DirServer` has
which paths is therefore a choice (`ask`).  No run has a constraint.

### Fairness

Every thread or process that can take a step eventually takes one (`WF` on the
whole of a thread's or process's steps): the kernel schedules all of them, and
nothing in these programs has a priority.  `wc -c` is such a process.  Nobody
has to start a program or kill one, and no lock, queue or socket is assumed to be
fair to a particular waiter.  A thread that is about to take a lock that is
repeatedly taken by another may thus wait for ever, which is why `LocksReturned`
says that locks are given back and not that everyone gets one.


## 4. What the models show about the code

Places where the program does not do what it says.  Those with a run are
counterexamples of TLC; the others were met while modelling and are in
`PROJECT.json` without one.

- `threads -2` (`threads.c:279`): the threads share one `sembuf`.  A wait that
  reads the other's `+1` lets both in (`sysv_sem_race`); a post that reads the
  other's `-1` (`threads.c:285-286, 295`) blocks both for ever.
- `part_1` (`server.c:195-196`): "Уничтожено.", but the segment stays
  (`shared_param_destroyed`).  The client takes `-s abc` for the id 0
  (`client.c:97-98`).  After `-f -f a` the server uses the file `-f` and the client
  the file `a`; after `-ff` alone the server takes a string of its environment for
  the name (`server.c:177`).
- `part_3` (`server.c:52-54`): the first server on a machine gives up after a
  `bind()` that succeeded (`unix_socket_bind`).
- `lab6/c` (`server.c:106`): the accepting process keeps every connection (in
  `DirServer` its `holders` never shrink before it ends, which `ServiceRemains`
  counts with); the client does not check that it has a path; ports up to 65635
  are accepted (`server.c:55`).
- `Cat -l` (`cat.c:149`): starts one newline early or one byte before the buffer
  (`cat_tail`).  Without files `-l COUNT` prints the first COUNT words, not the last
  COUNT lines that the README and the help promise (`cat.c:86`).  Files of 4 GiB or
  more are cut to their size modulo 2^32, and one of 4 GiB - 1 bytes is skipped, both
  with exit status 0 (`cat.c:132, 184`; from 2 GiB up to there the program says that it
  cannot read the file).  A COUNT over `INT_MAX` is cut to an `int` before it is compared
  with `INT_MAX` (`cat.c:38-39`).  A word of 1024 letters overruns `str` (`cat.c:88`).
  `-d 0` prints everything (part of `LinesExact`); `-n` gives a
  number to a line that is not there when the byte behind the buffer is not NUL;
  standard input is printed word by word (`StdinWordsExact` says how).
- `unnamed_pipe` (`unnamed_pipe.c:20`): of a file of 4 GiB or more the size modulo
  2^32 is counted, and the exit status is 0.
- `Cat.pl:51`: of standard input every second line is lost.
- `threads -1`: the threads do not take turns, and the main thread wakes nobody.
- `threads -4`: readers that overlap for ever keep a writer out; the default
  rwlock promises nothing else.


## 5. Proofs

Everything is proved for every value of the constants, from the named assumptions
of the modules and nothing else.  Each proof has the same shape: `Init => IInv`,
`IInv /\ [Next]_vars => IInv'` by one step for each action, then what follows from
`IInv`.

`SemTaskProofs` proves about subtask 1, for every `SIZE \in 1..26` and with
no other assumption:

| Theorem | Statement |
|---|---|
| `SemTaskInvariant` | `Spec => []IInv` |
| `SemTaskTypeOK` | `Spec => []TypeOK`: no index leaves the array, the semaphore is 0 or 1 |
| `SemTaskPrintedWhole` | `Spec => []PrintedWhole`: every line is an array that whole operations produce |
| `SemTaskAllStarted` | `Spec => []AllStarted` |
| `SemTaskRefinement` | `Spec => ImplementsPasses`: subtask 1 implements `AtomicArray!PassSpec` |

*The argument.*  `PrintedWhole` is not inductive: it says nothing of the array
between two lines.  `IInv` adds what makes it so.  `Born` ties the main thread's
progress to the threads that exist; `Locals` bounds each thread's index by the
loop it is in and says what it has read of the array and not yet used; `Exclusion`
says that a thread inside makes the semaphore 0 and keeps the other out;
`LineGrows` says that the unfinished line is the part of the array its printer
has passed; and `Base \in WholeArrays`, where `Base` is the array with the pass
in progress undone: what `change_reg()` or `reverse()` has done up to `i` and,
while the result is printed, the whole of it.  `Base` is also the refinement
mapping.  A step inside a loop leaves `Base` as it is; the newline that ends a
pass changes it by the whole operation and puts exactly the result on stdout.
`ControlStep` proves the control part action by action, `BaseStep` the part about
the array, from the lemmas at the head of the module: one iteration extends
`ChangedUpTo` or `ReversedUpTo` by one, their ends are nothing and all of the
operation, both operations undo themselves, and `WholeArrays` is closed under
them.  TLC checks the same `IInv` in `sem_task`.

`MsgQueueProofs` proves about the message queue, for every `NClients \in Nat` and
every `ReplyRoom \in Nat \ {0}` (the two named assumptions of `MsgQueue`):

| Theorem | Statement |
|---|---|
| `MsgQueueInvariant` | `Spec => []IInv` |
| `MsgQueueSecondNewer` | `Spec => []SecondNewer`: of its two answers a client prints the later one |
| `MsgQueueFreshUnlessLeftover` | `Spec => []FreshUnlessLeftover`: what it prints was measured after it started, if no reply was left over then |
| `MsgQueueTakenOnce` | `Spec => []TakenOnce` |
| `MsgQueueNobodyStranded` | `Spec => []NobodyStranded`: no client waits for a reply that nobody owes |
| `MsgQueueRefinement` | `Spec => ImplementsService`: the queue implements `MeasuringService` |

*The argument.*  `SecondNewer` speaks of two answers of one client, but the
second was in the queue, or not yet measured, when the first was taken.  `IInv`
therefore orders all answers along their way: `Numbered` orders the replies in
the queue among themselves and below the one the server has in hand, and `Taken`
says that every answer a client has is below every answer still to come
(`Coming`).  Then a step either moves what is to come upwards only (`Rises`,
proved once for all steps but one) or is `ReceiveReply`, which takes the least of
it (`HeadIsLeast`).  `NobodyStranded` is inductive with `TypeOK`: each step
changes the two sides of the inequality by at most one, in step
(`BalanceStep`).  `born` is a history variable that the code does not have; it is
what the service's `since` is mapped to.

The refinement needs both.  `Taken` gives that a reply is a measurement nobody had
before, `Calls` that the second one is newer than the client.  What is left is the
excuse: the service lets a client start without a promise of freshness only if
another one is asking or was killed, and the code gives no promise when a reply is
in the queue.  `NothingExtra`, proved beside `NobodyStranded`, says that as long as
nobody was killed no more is owed than clients wait for; so a reply in the queue
means a client that waits for one, or one that was killed.  `ServiceStep` then maps
each action: `SetParam` to `Measure`, `StartClient` to `Start`, `ReceiveReply` to
`Take`, the kills to `Die` and `Leave`, everything else to a stutter.

`UnnamedPipeProofs` proves about the pipe, for every `MaxSize \in Nat`, `Word \in
Nat \ {0}`, `ReadMax \in Nat` and `PipeRoom \in Nat \ {0}`:

| Theorem | Statement |
|---|---|
| `UnnamedPipeInvariant` | `Spec => []IInv` |
| `UnnamedPipeCountExact` | `Spec => []CountExact`: `wc` prints half of what `read()` gave, 0 beside an error, no more than half of `sz` if the parent was killed |

*The argument.*  `CountExact` speaks of the moment at which `wc` has printed.
`BytesKept` says at every moment where the bytes are (in the buffer, in the pipe,
counted: their sum is `sz \div 2`) and that none is written unless `read()` gave all
`sz` (`Got`), and `EndsHeld` that `wc` prints only when the
parent has ended and the pipe is empty, because the parent holds an end of it as
long as it runs and the child none.

`ThreadsProofs` proves about the whole program, for every `SIZE \in 1..26`,
every `SEMVMX \in Nat \ {0}` and every set of command lines:

| Theorem | Statement |
|---|---|
| `ThreadsInvariant` | `Spec => []IInv` |
| `ThreadsAllStarted` | `Spec => []AllStarted` |
| `ThreadsReadersSeeWhole` | `Spec => []ReadersSeeWhole`: a reader of subtask 4 meets a finished array from lock to unlock, and the count is 0 or `SIZE` |
| `ThreadsSoundUntilMisread` | `Spec => []SoundUntilMisread`: in subtask 2 the shared `sembuf` is the only thing wrong |
| `ThreadsImplementsObject` | `Spec => ImplementsObject`: subtasks 3 and 4 implement `AtomicArray!ObjectSpec` |

*The argument.*  `IInv` is the invariant of the subtask that runs; the others have
not moved.  Their common part is about the loops and is proved once, for any lock
and any owner of it: `LoopsBounded` (no index leaves the array), `LoopsSound` (the
array holds letters, each loop knows what it has read of it, and with what is half done
taken back the array is all lower or all upper case, from A or from Z) and `LineFollows` (the unfinished line is what its printer has passed).
What differs is who is inside with whom: `MutexTask` allows one thread,
`RwlockTask` one writer or any readers (`Holding`), and `Counting` says that
thread3 has found as many letters as it has passed, or none.  For `SysvSemTask`
all of this is said only of states without a misread (after one the array is any array
of chars): up to there `Counts` ties
the semaphore to who is inside and each `semop()` to the operation its caller meant.
The refinement maps the array to `Undone`, the array with the loop of the owner
taken back: a step in a loop is a stutter, the step that ends one is the whole
operation.

`SharedParamProofs` proves about `part_1 -s` and `-f`, for any servers, clients,
command lines and `MaxClock \in Nat`:

| Theorem | Statement |
|---|---|
| `SharedParamInvariant` | `Spec => []IInv` |
| `SharedParamOneServerPerFile` | `Spec => []OneServerPerFile`: no two servers write a file |
| `SharedParamSameWordsMeet` | `Spec => []SameWordsMeet`: a client with a server's words reads the file that server writes |
| `SharedParamServerPrintsOwn` | `Spec => []ServerPrintsOwn` |
| `SharedParamClientNotBehind` | `Spec => []ClientNotBehind` |

`NamesAssumption` says what the program gets from having processes and files of
different kinds: a server is not a file, nor a client, and "none" is neither.

*The argument.*  A server prints what it has written if nobody else writes its
region.  `Placed` says that it cannot be: a segment is its server's own, and
whoever gets beyond the lock of a file holds it.  `Written` then keeps each field
with its writer from one assignment of `set_param()` to the next, `Seen` keeps
the values a client attached to below those of the region, and `Named` remembers
which words led a process to its file.  That the same words lead both programs to
one file is then a fact about `ParseFlag` and `ParseFlagCl` alone; it needs that
the words have one letter of the keys in them, as `SameWordsMeet` says.

`UnixSocketProofs` proves about `part_3`, for every `NServers`, `NClients` and
`Backlog` in `Nat`:

| Theorem | Statement |
|---|---|
| `UnixSocketInvariant` | `Spec => []IInv` |
| `UnixSocketConnectionHeldOnce` | `Spec => []ConnectionHeldOnce` |
| `UnixSocketPrintedFresh` | `Spec => []PrintedFresh`: what is printed was measured after the client started, or a server died under it |
| `UnixSocketRefinement` | `Spec => ImplementsService`: the socket implements `MeasuringService` |

*The argument.*  A server measures, then waits in `accept()`, so at most one
answer of the server at the path is older than the client.  `FirstTakesStale`
says that the client's first call takes exactly this one, because it is in the
queue of that server or in its hand; another server that takes the path over
measures before it can accept.  `MeasuredOnce` keeps each measurement in one
place (a server's hand, a socket, a client), which is what the service's `Take`
asks for.  `Connected` ties the three views of a connection together.  It found a
mistake in an earlier form of the model: the signal that ends a server in
`close()`, after the answer, gave the end of the stream to the next connection of
the same client, which another server had accepted; the step now ends only the
connection the server still has.

`DirServerProofs` proves about `lab6/c`, for every `NClients \in Nat`, `NProcs` and
`FdRoom` in `Nat \ {0}`, and whatever sequences of nonempty words the clients are
given:

| Theorem | Statement |
|---|---|
| `DirServerInvariant` | `Spec => []IInv` |
| `DirServerResponseExact` | `Spec => []ResponseExact`: a client has a beginning of its own answer, and all of it at its end unless it is excused |
| `DirServerServiceRemains` | `Spec => []ServiceRemains`: without a failed `fork()` or a killed client somebody can accept |
| `DirServerNobodyAbandoned` | `Spec => []NobodyAbandoned` |

*The argument.*  `Flows` describes every stream by two numbers: what is in
`request` and `upstream` are adjacent slices of the client's message, what is in
`response` and `downstream` adjacent slices of its answer, and the part of the
request still to be handled begins where the answer ends.  The lemmas about
slices of a sequence say that a `read()` of any length moves only the cut between
them, and that a slice ends in NUL only at the end of the message, so neither
side stops early.  `Places` says that a connection waits, or is with one process,
or lost its `fork()`; `Fates` that whoever is none of these has its whole answer
or has nobody left.  `ServiceRemains` is inductive with these and `Errnos` (errno
is clean until a `fork()` fails or a client is killed): at the step at which the
process with room is the one that forks, its child has no more descriptors than
it had, apart from the one it will close.

`CatProofs` proves about `Cat`, for every set of inputs and every `IntMax > 10`,
`ReadMax < IntMax` and `StrSize > 0`.  `InputsAssumption` says only that an input is one
(`IsInput`): words are keys, numbers or names, keys stand before operands, a negative
number stands where a key takes it, and texts are made of newlines and of ordinary
bytes, without NUL.  Texts, streams and command lines have any length, COUNT is any
number.  What the code makes of long ones is in the model, so the theorems have
preconditions:

- `SizeTold`: a file of 4 GiB - 1 bytes (`2 * (IntMax + 1) - 1`) or more is skipped or cut
  without a word; `LinesExact` and `TailKeepsEnd` say nothing of the output then.  From
  2 GiB up to there the program ends with the read error, which `LinesExact` covers.
- `NumbersTold`: with `-n` or `-b`, a file that is empty or ends in a newline has its
  numbers decided by a byte outside the buffer unless the one behind it is NUL.
- COUNT is `CountGiven`: the number behind the last `-l` or `-d`, as an `int`.
- A behaviour that overruns `str[]` or counts an `int` past `IntMax` ends in
  "undefined"; the properties speak of `exit0`, `exitFile` and the loop before that.

| Theorem | Statement |
|---|---|
| `CatInvariant` | `Spec => []IInv`: `TypeOK` with the cursor never more than a byte outside the buffer, and what each loop keeps |
| `CatRivalsRefused` | `Spec => []RivalsRefused`: `-n` with `-b` and `-l` with `-d` print nothing |
| `CatStdinWordsExact` | `Spec => []StdinWordsExact`: the words of standard input, numbered and marked; the first COUNT under `-d`. Not under `-l`, where the code prints the first COUNT too |
| `CatLinesExact` | `Spec => []LinesExact`: without `-l`, the lines of the files, the first COUNT of each under `-d` |
| `CatTailKeepsEnd` | `Spec => []TailKeepsEnd`: under `-l COUNT` the last COUNT - 1 lines are printed |

*The argument.*  The properties say what the whole output is once the program has
ended, in words that have no cursor in them: the k-th line of a text lies between
its (k-1)-th and its k-th line end, numbers are counts of lines that get one.  The
program has only a cursor, a count of newlines and what it has printed so far.
`IInv` therefore says at each point of each loop which lines are behind the
cursor and that the output is those lines and a part of the next one.

- `KeysInv`: what `parse_flags` has taken so far is in `flags`, and never two
  rivals; behind the last key stands the first operand.
- `CountInv`: `N` is COUNT as the words gone through give it.
- `FilesInv`: between two files the output is that of the operands passed
  (`PrintedAre`); in the copying loop (`CopyInv`) it is also the lines up to the
  last newline, the number of the line begun, if it is out already, and the bytes
  from `LineStart` to the cursor.  The numbers depend on the byte behind the buffer
  unless `NumbersTold`.
- `TailInv`: going back, `i1` is the number of newlines from the cursor to the end;
  so the search stops at or before `TailFrom`, where the last COUNT - 1 lines begin,
  and while these are copied the output ends with what has been copied of them.
- `StdinInv`: what `scanf` has taken ends at the end of a word, and as many words
  begin in it as end in it.

`FilesInv` and `TailInv` are proved apart, over what `Core` (the rest of `IInv`)
says.  The steps of the loops are proved first about a text and a position alone
(`NextWord`, `ByteCopied`, `LineCopied`, `NewlineEnds`, `TailFound`, `TailCopied`),
without a variable of the program, then carried over to the actions.  Where a
count, a fold or the lines of a text have to be followed from one end to the
other, the induction is over numbers: `LeastNumber`, a consequence of the
well-foundedness of the naturals, gives the least number at which a statement
fails, and `NumbersReached` makes a rule of it that names a set and so needs no
operator as a parameter.  That is how `FlattenSeq` is shown to exist and to take
one more sequence at its end (`FlattenIs`, `FlattenAppend`), how counting a set
gives its k-th member (`NthIs`, `NthIn`), that as many words begin as end
(`StartsAndEnds`), and that the last lines of a text are its last bytes
(`LinesJoined`).

Only model-checked: all liveness, because the prover does not reason about
`ENABLED` (`LinesKeepComing`, `LocksReturned`, `EveryClientPrints`,
`EveryClientEnds`, `EveryClientAnswered`, `BothEnd`, and `Ends` of Cat).  Every
invariant and every refinement that a run checks is also a theorem.  No module
declares a `RECURSIVE` operator.


## 6. Plan

Done, in the order of importance: the array and its four locks; the queue; the
shared structure; the socket; the directory server; Cat; the measuring service
that the queue and the socket implement; the command lines of `part_1`; the pipe;
the proofs about all of them.

Next:

1. What of the hazards without a property can be stated: the window between
   `open(O_CREAT)` and `ftruncate()` in `part_1 -f`.
2. A measure that every step of Cat makes smaller, so that `Ends` follows without
   `ENABLED` but for the last step.


## 7. Not modelled

- `Xargs` is one loop around `system()`; its only state is the word in hand.
- `Cat.pl` copies lines.  What it does beyond that is done by Perl's `<>`, its
  encoding layer and `Getopt::Long`.
- The Perl servers, clients and pipe are the protocols of `part_3`, `lab6/c` and
  `unnamed_pipe` once more.  Where they differ from the C programs the difference is
  made by the interpreter: when a handle is flushed, when a lexical one is closed,
  at which operation a signal is delivered.  A model would have to be of Perl
  rather than of these sources.
- The shell, PowerShell and awk scripts format the output of system commands.
  Reports, the roff page and the diagrams are documents; the activity diagram of
  lab6 is quoted where the code disagrees with it.
- Within the modelled programs: the wording of messages, the values of the load
  averages, the word `--` in the command lines of `part_1`, numbers that overflow
  `strtol()`, words of `part_1` longer than the buffers they are copied to, what Cat does
  behind the end of `str[1024]`, the checks of `argc` and of the port, and
  `getaddrinfo()`.
