----------------------------- MODULE RwlockTask -----------------------------
(***************************************************************************)
(* Subtask 4 of osp/lab5/part_2: forth_task() and task4_thread1..3() over  *)
(* one pthread rwlock.  The writers change the array; the main thread      *)
(* prints it and thread3 prints how many of its letters are upper case,    *)
(* possibly at the same time.  The rwlock is the one POSIX describes: a    *)
(* read lock is granted when no writer holds it (a lock that makes readers *)
(* queue behind a waiting writer has fewer behaviours).                    *)
(***************************************************************************)
EXTENDS ArrayLoops

VARIABLES
  writer,     \* "none", or the thread that holds the write lock
  readers,    \* the threads that hold a read lock
  count,      \* the local res of count_letters()
  counted     \* the last number thread3 printed, -1 before the first

rwVars == <<writer, readers, count, counted>>
vars == <<array, pc, i, tmp, reg, line, printed, errno, running,
          writer, readers, count, counted>>

Writers == {"thread1", "thread2"}
Readers == {"thread3", "main"}
Threads == Writers \cup Readers

Labels == InLoops \cup {"unborn", "lock", "unlock",
                       "create1", "create2", "create3", "check"}

Init ==
  /\ InitLoops(Threads, "create1")
  /\ writer = "none"
  /\ readers = {}
  /\ count = 0
  /\ counted = -1

Operation(t) ==
  CASE t = "thread1" -> "change"
    [] t = "thread2" -> "reverse"
    [] t = "thread3" -> "count"
    [] t = "main" -> "print"

\* Mutant: pthread_rwlock_tryrdlock(), its result ignored.
Tryrdlock(t) ==
  /\ pc[t] = "lock"
  /\ readers' = IF writer = "none" THEN readers \cup {t} ELSE readers
  /\ Goto(t, Operation(t))
  /\ UNCHANGED <<array, i, tmp, reg, line, printed, errno, running,
                 writer, count, counted>>

Rdlock(t) ==
  /\ pc[t] = "lock"
  /\ writer = "none"
  /\ readers' = readers \cup {t}
  /\ Goto(t, Operation(t))
  /\ UNCHANGED <<array, i, tmp, reg, line, printed, errno, running,
                 writer, count, counted>>

Wrlock(t) ==
  /\ pc[t] = "lock"
  /\ writer = "none" /\ readers = {}
  /\ writer' = t
  /\ Goto(t, Operation(t))
  /\ UNCHANGED <<array, i, tmp, reg, line, printed, errno, running,
                 readers, count, counted>>

\* pthread_rwlock_unlock() releases whichever lock the thread holds.
Unlock(t) ==
  /\ pc[t] = "unlock"
  /\ writer' = IF writer = t THEN "none" ELSE writer
  /\ readers' = readers \ {t}
  /\ Goto(t, "lock")
  /\ UNCHANGED <<array, i, tmp, reg, line, printed, errno, running, count, counted>>

\* count_letters(): the test of the loop and array[i] >= 'A'; at the end the
\* printf() of the result.
CountTest(t) ==
  /\ pc[t] = "count"
  /\ \/ /\ i[t] < SIZE
        /\ \/ /\ array[i[t]] >= 65
              /\ Goto(t, "countZ")
              /\ UNCHANGED i
           \/ /\ array[i[t]] < 65
              /\ i' = [i EXCEPT ![t] = i[t] + 1]
              /\ UNCHANGED pc
        /\ UNCHANGED <<count, counted>>
     \/ /\ i[t] = SIZE
        /\ counted' = count
        /\ count' = 0
        /\ i' = [i EXCEPT ![t] = 0]
        /\ Goto(t, "unlock")
  /\ UNCHANGED <<array, tmp, reg, line, printed, errno, running, writer, readers>>

\* array[i] <= 'Z', res++ and ++i
CountTestZ(t) ==
  /\ pc[t] = "countZ"
  /\ count' = IF array[i[t]] <= 90 THEN count + 1 ELSE count
  /\ i' = [i EXCEPT ![t] = i[t] + 1]
  /\ Goto(t, "count")
  /\ UNCHANGED <<array, tmp, reg, line, printed, errno, running,
                 writer, readers, counted>>

CountLetters(t) == CountTest(t) \/ CountTestZ(t)

Work(t) ==
  /\ \/ ChangeReg(t, "unlock")
     \/ ReverseArray(t, "unlock")
     \/ PrintArray(t, "unlock")
  /\ UNCHANGED rwVars

WriterThread(t) == running /\ (Wrlock(t) \/ Work(t) \/ Unlock(t))

ReaderThread(t) ==
  running /\ (Rdlock(t) \/ Work(t) \/ CountLetters(t) \/ Unlock(t))

ForthTask ==
  /\ running
  /\ \/ Create("create1", "thread1", "create2")
     \/ Create("create2", "thread2", "create3")
     \/ Create("create3", "thread3", "check")
     \/ CheckCreated("lock")
  /\ UNCHANGED rwVars

Done == Exited /\ UNCHANGED vars

Next ==
  \/ ForthTask
  \/ \E t \in Writers : WriterThread(t)
  \/ \E t \in Readers : ReaderThread(t)
  \/ Done

Spec == Init /\ [][Next]_vars

-----------------------------------------------------------------------------
\* Every variable keeps its type; the lock has at most one writer and only
\* threads of the right kind hold it (threads.c:330-361).
TypeOK ==
  /\ TypeOKLoops(Threads, Labels)
  /\ writer \in Writers \cup {"none"}
  /\ readers \subseteq Readers
  /\ count \in 0 .. SIZE
  /\ counted \in -1 .. SIZE

Reading(t) == pc[t] \in InPrint \cup InCount

\* The threads that do not change the array "must block its change while
\* they work" (threads.h:71-72): what a reader meets is a finished array
\* and it stays as it is until the reader is done.
ReadersSeeWhole == (\E t \in Readers : Reading(t)) => array \in WholeArrays

\* Each thread runs only its own code.
OwnCode ==
  /\ pc["thread1"] \in InChange \cup {"unborn", "lock", "unlock"}
  /\ pc["thread2"] \in InReverse \cup {"unborn", "lock", "unlock"}
  /\ pc["thread3"] \in InCount \cup {"unborn", "lock", "unlock"}
  /\ pc["main"] \in InPrint
       \cup {"create1", "create2", "create3", "check", "lock", "unlock"}

\* The lock says who is between its lock and its unlock, and a writer is alone.
Holding ==
  /\ \A t \in Writers :
       writer = t <=> pc[t] \in InChange \cup InReverse \cup {"unlock"}
  /\ \A t \in Readers :
       t \in readers <=> pc[t] \in InPrint \cup InCount \cup {"unlock"}
  /\ writer # "none" => readers = {}

\* The letters of a whole array have one case, so either all that thread3 has
\* passed were counted or none.
Counting ==
  /\ count = IF pc["thread3"] \in InCount /\ array[0] \in Upper THEN i["thread3"] ELSE 0
  /\ counted \in {-1, 0, SIZE}

\* The inductive invariant.
IInv ==
  /\ TypeOK /\ OwnCode /\ Holding /\ Begun(Threads \ {"main"})
  /\ LoopsBounded /\ LoopsSound /\ LineFollows({"main"}) /\ Counting

=============================================================================
