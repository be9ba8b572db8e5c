------------------------------ MODULE MutexTask ------------------------------
(***************************************************************************)
(* Subtask 3 of osp/lab5/part_2: third_task(), task3_thread1() and         *)
(* task3_thread2() over one pthread mutex.  The workers change the array,  *)
(* the main thread prints it, each under the mutex.  pthread_mutex_lock    *)
(* and _unlock do not touch errno and cannot fail here.  usleep() is left  *)
(* to the scheduler.                                                       *)
(***************************************************************************)
EXTENDS ArrayLoops

VARIABLE mutex          \* "free", or the thread that has it locked

vars == <<array, pc, i, tmp, reg, line, printed, errno, running, mutex>>

Workers == {"thread1", "thread2"}
Threads == Workers \cup {"main"}

Labels == InChange \cup InReverse \cup InPrint
            \cup {"unborn", "lock", "unlock", "create1", "create2", "check"}

Init == InitLoops(Threads, "create1") /\ mutex = "free"

Operation(t) ==
  CASE t = "thread1" -> "change"
    [] t = "thread2" -> "reverse"
    [] t = "main" -> "print"

\* Mutant: pthread_mutex_trylock(), its result ignored.
Trylock(t) ==
  /\ pc[t] = "lock"
  /\ mutex' = IF mutex = "free" THEN t ELSE mutex
  /\ Goto(t, Operation(t))
  /\ UNCHANGED <<array, i, tmp, reg, line, printed, errno, running>>

Lock(t) ==
  /\ pc[t] = "lock"
  /\ mutex = "free"
  /\ mutex' = t
  /\ Goto(t, Operation(t))
  /\ UNCHANGED <<array, i, tmp, reg, line, printed, errno, running>>

\* Mutant: a way round the loop that does not unlock.
UnlockForgotten(t) ==
  /\ pc[t] = "unlock"
  /\ Goto(t, "lock")
  /\ UNCHANGED <<array, i, tmp, reg, line, printed, errno, running, mutex>>

Unlock(t) ==
  /\ pc[t] = "unlock"
  /\ mutex' = "free"
  /\ Goto(t, "lock")
  /\ UNCHANGED <<array, i, tmp, reg, line, printed, errno, running>>

Work(t) ==
  /\ \/ ChangeReg(t, "unlock")
     \/ ReverseArray(t, "unlock")
     \/ PrintArray(t, "unlock")
  /\ UNCHANGED mutex

Thread(t) == running /\ (Lock(t) \/ Work(t) \/ Unlock(t))

ThirdTask ==
  /\ running
  /\ \/ Create("create1", "thread1", "create2")
     \/ Create("create2", "thread2", "check")
     \/ CheckCreated("lock")
  /\ UNCHANGED mutex

Done == Exited /\ UNCHANGED vars

Next == ThirdTask \/ (\E t \in Threads : Thread(t)) \/ Done

Spec == Init /\ [][Next]_vars

-----------------------------------------------------------------------------
\* Every variable keeps its type; the mutex is free or has one owner and the
\* loops' counters stay inside the array (threads.c:308-328).
TypeOK == TypeOKLoops(Threads, Labels) /\ mutex \in Threads \cup {"free"}

\* Each thread runs only its own code.
OwnCode ==
  /\ pc["thread1"] \in InChange \cup {"unborn", "lock", "unlock"}
  /\ pc["thread2"] \in InReverse \cup {"unborn", "lock", "unlock"}
  /\ pc["main"] \in InPrint \cup {"create1", "create2", "check", "lock", "unlock"}

\* The mutex says who is between its lock and its unlock.
Holding ==
  \A t \in Threads :
    mutex = t <=> pc[t] \in InChange \cup InReverse \cup InPrint \cup {"unlock"}

\* The inductive invariant.
IInv ==
  /\ TypeOK /\ OwnCode /\ Holding /\ Begun(Workers)
  /\ LoopsBounded /\ LoopsSound /\ LineFollows({"main"})

=============================================================================
