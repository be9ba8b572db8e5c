------------------------------- MODULE Threads -------------------------------
(***************************************************************************)
(* The program ./threads of osp/lab5/part_2: start() fills the array and   *)
(* parse_flag() picks one subtask from the command line.  No subtask       *)
(* returns, so the first key that getopt() finds decides, and a run of the *)
(* program is a run of SemTask, SysvSemTask, MutexTask or RwlockTask, or   *)
(* an exit.  The four sleeping times are left to the scheduler.            *)
(*                                                                         *)
(* A word of the command line is a record: the letters behind its dash, of *)
(* which there are none if it is no option, and whether strtol() takes all *)
(* of it, which it does for "-3" too.                                      *)
(***************************************************************************)
EXTENDS ArrayLoops, FiniteSetsExt

CONSTANTS
  SEMVMX,         \* the largest value of a System V semaphore
  CommandLines    \* the command lines the program may be given

ASSUME SemvmxAssumption == SEMVMX \in Nat \ {0}

VARIABLES
  task,                                \* the subtask that runs, or "none"
  sem,                                 \* subtask 1
  semval, sem_op, op, misread,         \* subtask 2
  mutex,                               \* subtask 3
  writer, readers, count, counted      \* subtask 4

sysvVars == <<semval, sem_op, op, misread>>
rwVars == <<writer, readers, count, counted>>
vars == <<array, pc, i, tmp, reg, line, printed, errno, running,
          task, sem, sysvVars, mutex, rwVars>>

Sem == INSTANCE SemTask
Sysv == INSTANCE SysvSemTask
Mutex == INSTANCE MutexTask
Rw == INSTANCE RwlockTask

-----------------------------------------------------------------------------
(* parse_flag()                                                            *)

Options(argv) == {k \in DOMAIN argv : argv[k].letters # << >>}

\* Subtasks 1 and 2 want nothing but their key.  Subtasks 3 and 4 take what
\* stands from optind on: nothing, one number or one for each thread.
\* optind stays at the word whose letters are not used up.
Chosen(argv) ==
  IF Options(argv) = {} THEN "none"
  ELSE
    LET word == Min(Options(argv))
        key == Head(argv[word].letters)
        optind == IF Len(argv[word].letters) = 1 THEN word + 1 ELSE word
        times == SubSeq(argv, optind, Len(argv))
        allowed == CASE key \in {"1", "2"} -> Len(argv) = 1
                     [] key = "3" -> Len(times) \in {0, 1, 3}
                     [] key = "4" -> Len(times) \in {0, 1, 4}
                     [] OTHER -> FALSE
        numbers == \A k \in DOMAIN times : times[k].number
    IN  IF allowed /\ (key \in {"1", "2"} \/ numbers) THEN key ELSE "none"

-----------------------------------------------------------------------------
\* What a subtask that does not run leaves alone.
NoSem == sem = 1
NoSysv == semval = 0 /\ sem_op = 0 /\ op = << >> /\ misread = FALSE
NoMutex == mutex = "free"
NoRwlock == writer = "none" /\ readers = {} /\ count = 0 /\ counted = -1

\* start() without a subtask: usage errors and lines without a key.
InitNone ==
  /\ array = InitArray
  /\ pc = << >> /\ i = << >> /\ tmp = << >> /\ reg = << >>
  /\ line = << >> /\ printed = NoLine /\ errno = FALSE
  /\ running = FALSE
  /\ NoSem /\ NoSysv /\ NoMutex /\ NoRwlock

Init ==
  /\ task \in {Chosen(argv) : argv \in CommandLines}
  /\ \/ task = "none" /\ InitNone
     \/ task = "1" /\ Sem!Init /\ NoSysv /\ NoMutex /\ NoRwlock
     \/ task = "2" /\ Sysv!Init /\ NoSem /\ NoMutex /\ NoRwlock
     \/ task = "3" /\ Mutex!Init /\ NoSem /\ NoSysv /\ NoRwlock
     \/ task = "4" /\ Rw!Init /\ NoSem /\ NoSysv /\ NoMutex

Main ==
  \/ task = "1" /\ Sem!FirstTask /\ UNCHANGED <<task, sysvVars, mutex, rwVars>>
  \/ task = "2" /\ Sysv!SecondTask /\ UNCHANGED <<task, sem, mutex, rwVars>>
  \/ /\ task = "3" /\ (Mutex!ThirdTask \/ Mutex!Thread("main"))
     /\ UNCHANGED <<task, sem, sysvVars, rwVars>>
  \/ /\ task = "4" /\ (Rw!ForthTask \/ Rw!ReaderThread("main"))
     /\ UNCHANGED <<task, sem, sysvVars, mutex>>

Subthread(t) ==
  \/ task = "1" /\ Sem!Worker(t) /\ UNCHANGED <<task, sysvVars, mutex, rwVars>>
  \/ task = "2" /\ Sysv!Worker(t) /\ UNCHANGED <<task, sem, mutex, rwVars>>
  \/ task = "3" /\ Mutex!Thread(t) /\ UNCHANGED <<task, sem, sysvVars, rwVars>>
  \/ task = "4" /\ Rw!WriterThread(t) /\ UNCHANGED <<task, sem, sysvVars, mutex>>

Counter ==
  task = "4" /\ Rw!ReaderThread("thread3") /\ UNCHANGED <<task, sem, sysvVars, mutex>>

\* Nothing moves after exit(), nor when both workers of subtask 2 wait in a
\* semop() that was misread; every other state has a next one.
Done == (Exited \/ misread) /\ UNCHANGED vars

Next == Main \/ (\E t \in {"thread1", "thread2"} : Subthread(t)) \/ Counter \/ Done

Spec == Init /\ [][Next]_vars

\* Every thread that can take a step keeps being scheduled.
Fairness ==
  /\ WF_vars(Main) /\ WF_vars(Counter)
  /\ \A t \in {"thread1", "thread2"} : WF_vars(Subthread(t))
FairSpec == Spec /\ Fairness

-----------------------------------------------------------------------------
\* Whichever subtask runs, it is past its one check_errno only with all its
\* workers: no pthread_create() that failed goes unnoticed, although a
\* successful one follows it (threads.c:147-149, 205-208).
AllStarted ==
  task # "none" => NoWorkerMissing(DOMAIN pc, {"join", "lock", "print", "put", "unlock"})

\* Subtasks 3 and 4 implement the array whose operations are atomic: a
\* worker blocks access to the array while it acts on it (threads.h:61-62,
\* 71-72), although two readers of subtask 4 may be inside together.
Locked == task \in {"3", "4"}
Atomic == INSTANCE AtomicArray WITH
            array <- IF Locked THEN Undone ELSE InitArray,
            printed <- IF Locked THEN printed ELSE NoLine
ImplementsObject == Atomic!ObjectSpec

\* In subtask 4 the threads that do not change the array "must block its
\* change while they work" (threads.h:71-72): a reader meets a finished
\* array, from its lock to its unlock, and the number that thread3 prints is
\* 0 or SIZE: anything else is a count of a half-changed array.
ReadersSeeWhole ==
  /\ task = "4" => Rw!ReadersSeeWhole
  /\ counted \in {-1, 0, SIZE}

\* Every lock is given back: a critical section is finite and nothing in it
\* waits for another thread (threads.c:189-196, 308-361).  In subtask 2 a
\* worker can be lost inside for ever only because of a misread.
HasLock(t) ==
  \/ mutex = t \/ writer = t \/ t \in readers
  \/ task = "2" /\ t \in {"thread1", "thread2"} /\ Sysv!Inside(t)

LocksReturned ==
  \A t \in {"main", "thread1", "thread2", "thread3"} :
    HasLock(t) ~> ~running \/ misread \/ ~HasLock(t)

\* In subtask 2, as long as every semop() has taken the operation its caller
\* wrote, one thread at a time is inside and the array it finds is whole:
\* the shared sembuf is the only thing wrong with the synchronisation.
SoundUntilMisread == task = "2" => Sysv!SoundUntilMisread

\* The inductive invariant: that of the running subtask, which says who is
\* inside with whom, keeps every variable in its type and the loops inside the
\* array (threads.c:221-274, 308-361), while the others have not moved.
IInv ==
  /\ task \in {"none", "1", "2", "3", "4"}
  /\ task = "1" => Sem!IInv
  /\ task = "2" => Sysv!IInv
  /\ task = "3" => Mutex!IInv
  /\ task = "4" => Rw!IInv
  /\ task # "4" => counted = -1
  /\ task = "none" => ~running

=============================================================================
