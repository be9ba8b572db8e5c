----------------------------- MODULE SysvSemTask -----------------------------
(***************************************************************************)
(* Subtask 2 of osp/lab5/part_2: second_task(), task2_thread1() and        *)
(* task2_thread2() over one System V semaphore.  Both workers describe     *)
(* their operation in the one global struct *sembuf and then call semop(), *)
(* which copies the struct into the kernel, performs the operation or      *)
(* blocks until it can, and fails with ERANGE above SEMVMX.  Writing the   *)
(* struct and calling semop() are two steps.                               *)
(***************************************************************************)
EXTENDS ArrayLoops

CONSTANT SEMVMX         \* the largest value of a semaphore, positive

VARIABLES
  semval,     \* the value of semaphore 0 of sem_id
  sem_op,     \* sembuf->sem_op, shared by both threads
  op,         \* the operation each thread's semop() has copied in
  misread     \* auxiliary: some semop() copied a value its caller did not set

semVars == <<semval, sem_op, op, misread>>
vars == <<array, pc, i, tmp, reg, line, printed, errno, running,
          semval, sem_op, op, misread>>

Workers == {"thread1", "thread2"}
Threads == Workers \cup {"main"}

\* "lock" and "post" write the struct, "down" and "up" call semop(),
\* "downing" and "upping" are inside it.
Labels == InChange \cup InReverse \cup InPrint
            \cup {"unborn", "lock", "down", "downing", "post", "up", "upping",
                  "semget", "create1", "create2", "check", "join"}

Init ==
  /\ InitLoops(Threads, "semget")
  /\ semval = 0
  /\ sem_op = 0
  /\ op = [t \in Workers |-> 0]
  /\ misread = FALSE

Operation(t) == IF t = "thread1" THEN "change" ELSE "reverse"

-----------------------------------------------------------------------------
\* sembuf->sem_op = d
SetOp(t, here, d, next) ==
  /\ pc[t] = here
  /\ sem_op' = d
  /\ Goto(t, next)
  /\ UNCHANGED <<array, i, tmp, reg, line, printed, errno, running,
                 semval, op, misread>>

\* semop() enters the kernel and copies *sembuf; the caller meant d.
CallSemop(t, here, d, next) ==
  /\ pc[t] = here
  /\ op' = [op EXCEPT ![t] = sem_op]
  /\ misread' = (misread \/ sem_op # d)
  /\ Goto(t, next)
  /\ UNCHANGED <<array, i, tmp, reg, line, printed, errno, running, semval, sem_op>>

\* semop() acts on what it copied, waiting while the value would go below
\* zero; a value above SEMVMX is an error and check_errno() exits.
FinishSemop(t, here, next) ==
  /\ pc[t] = here
  /\ semval + op[t] >= 0
  /\ \/ /\ semval + op[t] <= SEMVMX
        /\ semval' = semval + op[t]
        /\ Goto(t, next)
        /\ UNCHANGED running
     \/ /\ semval + op[t] > SEMVMX
        /\ running' = FALSE
        /\ UNCHANGED <<semval, pc>>
  /\ UNCHANGED <<array, i, tmp, reg, line, printed, errno, sem_op, op, misread>>

Work(t) ==
  /\ ChangeReg(t, "print") \/ ReverseArray(t, "print") \/ PrintArray(t, "post")
  /\ UNCHANGED semVars

Worker(t) ==
  /\ running
  /\ \/ SetOp(t, "lock", -1, "down")
     \/ CallSemop(t, "down", -1, "downing")
     \/ FinishSemop(t, "downing", Operation(t))
     \/ Work(t)
     \/ SetOp(t, "post", 1, "up")
     \/ CallSemop(t, "up", 1, "upping")
     \/ FinishSemop(t, "upping", "lock")

\* Mutant: the semaphore admits two.
SemgetTwo ==
  /\ pc["main"] = "semget"
  /\ semval' = 2
  /\ Goto("main", "create1")
  /\ UNCHANGED <<array, i, tmp, reg, line, printed, errno, running, sem_op, op, misread>>

\* semget(), which may fail for want of a semaphore set, and SETVAL.
Semget ==
  /\ pc["main"] = "semget"
  /\ \/ /\ semval' = 1
        /\ Goto("main", "create1")
        /\ UNCHANGED running
     \/ /\ running' = FALSE
        /\ UNCHANGED <<semval, pc>>
  /\ UNCHANGED <<array, i, tmp, reg, line, printed, errno, sem_op, op, misread>>

SecondTask ==
  /\ running
  /\ \/ Semget
     \/ /\ \/ Create("create1", "thread1", "create2")
           \/ Create("create2", "thread2", "check")
           \/ CheckCreated("join")
        /\ UNCHANGED semVars

Done == Exited /\ UNCHANGED vars

Next == SecondTask \/ (\E t \in Workers : Worker(t)) \/ Done

Spec == Init /\ [][Next]_vars

-----------------------------------------------------------------------------
\* Every variable keeps its type: the shared sembuf holds -1, 0 or 1 at every
\* moment, whoever wrote it last (threads.c:278-302).
TypeOK ==
  /\ TypeOKLoops(Threads, Labels)
  /\ semval \in 0 .. SEMVMX
  /\ sem_op \in -1 .. 1
  /\ op \in [Workers -> -1 .. 1]
  /\ misread \in BOOLEAN

\* Past its first semop() and not yet through its second one.
Inside(t) ==
  pc[t] \in InChange \cup InReverse \cup InPrint \cup {"post", "up", "upping"}

\* As long as every semop() has taken the operation its caller wrote, one
\* thread at a time is inside and the array it finds is whole: the shared
\* struct is the only thing wrong with the synchronisation.
SoundUntilMisread ==
  ~misread =>
    /\ ~(Inside("thread1") /\ Inside("thread2"))
    /\ (\A t \in Workers : ~Inside(t)) => array \in WholeArrays
    /\ PrintedWhole

\* The main thread lets one thread work at a time and waits for the end of
\* its work (threads.h:52-53), so both are never at the array together.
AtArray(t) == pc[t] \in InChange \cup InReverse \cup InPrint
OneAtATime == ~(AtArray("thread1") /\ AtArray("thread2"))

\* Each thread runs only its own code.
OwnCode ==
  /\ pc["thread1"] \in InChange \cup InPrint
       \cup {"unborn", "lock", "down", "downing", "post", "up", "upping"}
  /\ pc["thread2"] \in InReverse \cup InPrint
       \cup {"unborn", "lock", "down", "downing", "post", "up", "upping"}
  /\ pc["main"] \in {"semget", "create1", "create2", "check", "join"}

\* The semaphore counts the workers inside, and a worker in semop() has the
\* operation it means.
Counts ==
  /\ semval = IF pc["main"] = "semget" \/ \E t \in Workers : Inside(t) THEN 0 ELSE 1
  /\ \A t \in Workers :
       (pc[t] = "downing" => op[t] = -1) /\ (pc[t] = "upping" => op[t] = 1)

\* The inductive invariant.
IInv ==
  /\ TypeOK /\ OwnCode /\ Begun(Workers) /\ LoopsBounded
  /\ SoundUntilMisread
  /\ ~misread => Counts /\ LoopsSound /\ LineFollows(Workers)

=============================================================================
