------------------------------- MODULE SemTask -------------------------------
(***************************************************************************)
(* Subtask 1 of osp/lab5/part_2: first_task(), task1_thread1() and         *)
(* task1_thread2() over one POSIX semaphore.  A worker holds the semaphore *)
(* through its operation and the print of the result; the main thread only *)
(* joins.  sleep() has no effect on the state: it is the freedom of the    *)
(* scheduler between two steps.                                            *)
(***************************************************************************)
EXTENDS ArrayLoops

VARIABLE sem            \* the value of sem_t sem

vars == <<array, pc, i, tmp, reg, line, printed, errno, running, sem>>

Workers == {"thread1", "thread2"}
Threads == Workers \cup {"main"}

Labels == InChange \cup InReverse \cup InPrint
            \cup {"unborn", "lock", "post", "create1", "create2", "check", "join"}

\* Mutant: sem_init(&sem, 0, 2).
InitTwo == InitLoops(Threads, "create1") /\ sem = 2

Init == InitLoops(Threads, "create1") /\ sem = 1

Operation(t) == IF t = "thread1" THEN "change" ELSE "reverse"

\* Mutant: sem_trywait() instead of sem_wait(), its result ignored.
SemTrywait(t) ==
  /\ pc[t] = "lock"
  /\ sem' = IF sem > 0 THEN sem - 1 ELSE 0
  /\ Goto(t, Operation(t))
  /\ UNCHANGED <<array, i, tmp, reg, line, printed, errno, running>>

SemWait(t) ==
  /\ pc[t] = "lock"
  /\ sem > 0
  /\ sem' = sem - 1
  /\ Goto(t, Operation(t))
  /\ UNCHANGED <<array, i, tmp, reg, line, printed, errno, running>>

\* Mutant: the semaphore is not posted.
SemPostForgotten(t) ==
  /\ pc[t] = "post"
  /\ Goto(t, "lock")
  /\ UNCHANGED <<array, i, tmp, reg, line, printed, errno, running, sem>>

SemPost(t) ==
  /\ pc[t] = "post"
  /\ sem' = sem + 1
  /\ Goto(t, "lock")
  /\ UNCHANGED <<array, i, tmp, reg, line, printed, errno, running>>

Work(t) ==
  /\ ChangeReg(t, "print") \/ ReverseArray(t, "print") \/ PrintArray(t, "post")
  /\ UNCHANGED sem

Worker(t) == running /\ (SemWait(t) \/ Work(t) \/ SemPost(t))

FirstTask ==
  /\ running
  /\ \/ Create("create1", "thread1", "create2")
     \/ Create("create2", "thread2", "check")
     \/ CheckCreated("join")
  /\ UNCHANGED sem

Done == Exited /\ UNCHANGED vars

Next == FirstTask \/ (\E t \in Workers : Worker(t)) \/ Done

Spec == Init /\ [][Next]_vars

\* Every thread that can take a step keeps being scheduled.
Fairness == WF_vars(FirstTask) /\ \A t \in Workers : WF_vars(Worker(t))
FairSpec == Spec /\ Fairness

-----------------------------------------------------------------------------
\* Every variable keeps its type: sem_t is never above the 1 it starts with,
\* and the loops' counters stay inside the array (threads.c:249-274).
TypeOK == TypeOKLoops(Threads, Labels) /\ sem \in 0 .. 1

Inside(t) == pc[t] \in InChange \cup InReverse \cup InPrint \cup {"post"}

\* No worker that missed its pthread_create goes unnoticed (threads.c:149).
AllStarted == NoWorkerMissing(Workers, {"join"})

\* How far the main thread is says which workers exist.
Born ==
  /\ pc["main"] = "create1" =>
       ~errno /\ pc["thread1"] = "unborn" /\ pc["thread2"] = "unborn"
  /\ pc["main"] = "create2" =>
       pc["thread2"] = "unborn" /\ (errno \/ pc["thread1"] # "unborn")
  /\ pc["main"] = "check" => errno \/ \A t \in Workers : pc[t] # "unborn"
  /\ pc["main"] = "join" => \A t \in Workers : pc[t] # "unborn"

\* Each thread runs only its own code.
OwnCode ==
  /\ pc["main"] \in {"create1", "create2", "check", "join"}
  /\ pc["thread1"] \in InChange \cup InPrint \cup {"unborn", "lock", "post"}
  /\ pc["thread2"] \in InReverse \cup InPrint \cup {"unborn", "lock", "post"}

\* The semaphore counts the workers inside.
Exclusion ==
  /\ \A t \in Workers : Inside(t) => sem = 0
  /\ ~(Inside("thread1") /\ Inside("thread2"))

\* The array as it was when the pass in progress began.
Base ==
  CASE pc["thread1"] \in InPrint -> ChangeAll(array)
    [] pc["thread2"] \in InPrint -> ReverseAll(array)
    [] OTHER -> Undone

\* The inductive invariant.
IInv ==
  /\ TypeOK /\ Born /\ OwnCode /\ Exclusion
  /\ LoopsBounded /\ LoopsKnow /\ LineFollows(Workers)
  /\ Base \in WholeArrays
  /\ PrintedWhole

\* A pass, from sem_wait to the newline, is one atomic step: its thread
\* applies its operation to the array of the pass before and the line it
\* prints is exactly the result (threads.h:42-46).
Atomic == INSTANCE AtomicArray WITH array <- Base, printed <- printed
ImplementsPasses == Atomic!PassSpec

\* The threads are woken once a second (threads.h:44): lines keep coming.
\* Nobody waits for ever for a semaphore that nobody will post, and the loops
\* under it end.
LinesKeepComing == []<>(~running \/ \E t \in Workers : pc[t] = "post")

=============================================================================
