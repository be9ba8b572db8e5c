----------------------------- MODULE ArrayLoops -----------------------------
(***************************************************************************)
(* The code the four subtasks of osp/lab5/part_2 share: the loops of       *)
(* change_reg(), reverse() and print_array(), the creation of the threads  *)
(* by the main thread and check_errno().  The modules that EXTEND this one *)
(* add the lock of a subtask and its threads.                              *)
(*                                                                         *)
(* The array is volatile: every time its name stands in the code it is     *)
(* read or written, and each of these accesses is a step of its own.  A    *)
(* thread t is at pc[t]; i[t] and tmp[t] are its locals, and reg[t] is     *)
(* what it has read of the array and not yet used.                         *)
(***************************************************************************)
EXTENDS ArrayOps, Sequences

VARIABLES
  array,     \* volatile char array[SIZE]
  pc,        \* where each thread is; "unborn" before pthread_create
  i,         \* the loop index of the function a thread is in
  tmp,       \* the local tmp of reverse()
  reg,       \* the char a thread has computed from the array and not stored
  line,      \* cells print_array() has put on stdout since the last newline
  printed,   \* the last finished line and the thread that finished it
  errno,     \* the main thread's errno is nonzero
  running    \* the process has not called exit()

loopVars == <<array, pc, i, tmp, reg, line, printed, errno, running>>

\* The places inside the shared functions.
InChange == {"change", "changeZ", "toLower", "toUpper", "store"}
InReverse == {"reverse", "left", "leftStore", "right"}
InPrint == {"print", "put"}
InCount == {"count", "countZ"}
InLoops == InChange \cup InReverse \cup InPrint \cup InCount

NoLine == [by |-> "nobody", cells |-> << >>]

InitLoops(Threads, first) ==
  /\ array = InitArray
  /\ pc = [t \in Threads |-> IF t = "main" THEN first ELSE "unborn"]
  /\ i = [t \in Threads |-> 0]
  /\ tmp = [t \in Threads |-> 0]
  /\ reg = [t \in Threads |-> 0]
  /\ line = << >>
  /\ printed = NoLine
  /\ errno = FALSE
  /\ running = TRUE

Goto(t, label) == pc' = [pc EXCEPT ![t] = label]

-----------------------------------------------------------------------------
(* The functions on the array; each goes on to "next" when its loop ends.  *)

\* The test of the loop and array[i] >= 'A'.
ChangeTest(t, next) ==
  /\ pc[t] = "change"
  /\ \/ /\ i[t] < SIZE
        /\ Goto(t, IF array[i[t]] >= 65 THEN "changeZ" ELSE "toUpper")
        /\ UNCHANGED i
     \/ /\ i[t] = SIZE
        /\ i' = [i EXCEPT ![t] = 0]
        /\ Goto(t, next)
  /\ UNCHANGED <<array, tmp, reg, line, printed, errno, running>>

\* array[i] <= 'Z'
ChangeTestZ(t) ==
  /\ pc[t] = "changeZ"
  /\ Goto(t, IF array[i[t]] <= 90 THEN "toLower" ELSE "toUpper")
  /\ UNCHANGED <<array, i, tmp, reg, line, printed, errno, running>>

\* Mutant: the sum is off by one.
ChangeLoadOff(t) ==
  /\ pc[t] \in {"toLower", "toUpper"}
  /\ reg' = [reg EXCEPT ![t] = ToChar(IF pc[t] = "toLower" THEN array[i[t]] + 33
                                                         ELSE array[i[t]] - 31)]
  /\ Goto(t, "store")
  /\ UNCHANGED <<array, i, tmp, line, printed, errno, running>>

\* array[i] - 'A' + 'a' and array[i] - 'a' + 'A'
ChangeLoad(t) ==
  /\ pc[t] \in {"toLower", "toUpper"}
  /\ reg' = [reg EXCEPT ![t] = ToChar(IF pc[t] = "toLower" THEN array[i[t]] - 65 + 97
                                                         ELSE array[i[t]] - 97 + 65)]
  /\ Goto(t, "store")
  /\ UNCHANGED <<array, i, tmp, line, printed, errno, running>>

\* array[i] = ... and ++i
ChangeStore(t) ==
  /\ pc[t] = "store"
  /\ array' = [array EXCEPT ![i[t]] = reg[t]]
  /\ i' = [i EXCEPT ![t] = i[t] + 1]
  /\ Goto(t, "change")
  /\ UNCHANGED <<tmp, reg, line, printed, errno, running>>

ChangeReg(t, next) ==
  ChangeTest(t, next) \/ ChangeTestZ(t) \/ ChangeLoad(t) \/ ChangeStore(t)

\* The test of the loop and tmp = array[i].
ReverseLoad(t, next) ==
  /\ pc[t] = "reverse"
  /\ \/ /\ i[t] < Half
        /\ tmp' = [tmp EXCEPT ![t] = array[i[t]]]
        /\ Goto(t, "left")
        /\ UNCHANGED i
     \/ /\ i[t] = Half
        /\ i' = [i EXCEPT ![t] = 0]
        /\ Goto(t, next)
        /\ UNCHANGED tmp
  /\ UNCHANGED <<array, reg, line, printed, errno, running>>

\* array[i] = array[SIZE - i - 1] reads one cell and writes another.
ReverseLeft(t) ==
  /\ pc[t] = "left"
  /\ reg' = [reg EXCEPT ![t] = array[SIZE - i[t] - 1]]
  /\ Goto(t, "leftStore")
  /\ UNCHANGED <<array, i, tmp, line, printed, errno, running>>

ReverseLeftStore(t) ==
  /\ pc[t] = "leftStore"
  /\ array' = [array EXCEPT ![i[t]] = reg[t]]
  /\ Goto(t, "right")
  /\ UNCHANGED <<i, tmp, reg, line, printed, errno, running>>

\* array[SIZE - i - 1] = tmp and ++i
ReverseRight(t) ==
  /\ pc[t] = "right"
  /\ array' = [array EXCEPT ![SIZE - i[t] - 1] = tmp[t]]
  /\ i' = [i EXCEPT ![t] = i[t] + 1]
  /\ Goto(t, "reverse")
  /\ UNCHANGED <<tmp, reg, line, printed, errno, running>>

ReverseArray(t, next) ==
  \/ ReverseLoad(t, next) \/ ReverseLeft(t)
  \/ ReverseLeftStore(t) \/ ReverseRight(t)

\* The test of the loop and the argument of printf().
PrintRead(t) ==
  /\ pc[t] = "print"
  /\ i[t] < SIZE
  /\ reg' = [reg EXCEPT ![t] = array[i[t]]]
  /\ Goto(t, "put")
  /\ UNCHANGED <<array, i, tmp, line, printed, errno, running>>

PrintCell(t) ==
  /\ pc[t] = "put"
  /\ line' = Append(line, reg[t])
  /\ i' = [i EXCEPT ![t] = i[t] + 1]
  /\ Goto(t, "print")
  /\ UNCHANGED <<array, tmp, reg, printed, errno, running>>

PrintNewline(t, next) ==
  /\ pc[t] = "print"
  /\ i[t] = SIZE
  /\ printed' = [by |-> t, cells |-> line]
  /\ line' = << >>
  /\ i' = [i EXCEPT ![t] = 0]
  /\ Goto(t, next)
  /\ UNCHANGED <<array, tmp, reg, errno, running>>

PrintArray(t, next) == PrintRead(t) \/ PrintCell(t) \/ PrintNewline(t, next)

-----------------------------------------------------------------------------
(* The main thread's start.  A pthread_create that fails leaves errno set  *)
(* by the mmap or clone that failed, and no later success clears it.       *)

Create(here, t, next) ==
  /\ pc["main"] = here
  /\ \/ /\ pc' = [pc EXCEPT !["main"] = next, ![t] = "lock"]
        /\ UNCHANGED errno
     \/ /\ Goto("main", next)
        /\ errno' = TRUE
  /\ UNCHANGED <<array, i, tmp, reg, line, printed, running>>

\* Mutant: nobody looks at errno.
CheckCreatedNever(next) ==
  /\ pc["main"] = "check"
  /\ Goto("main", next)
  /\ UNCHANGED <<array, i, tmp, reg, line, printed, errno, running>>

CheckCreated(next) ==
  /\ pc["main"] = "check"
  /\ \/ /\ errno
        /\ running' = FALSE
        /\ UNCHANGED pc
     \/ /\ ~errno
        /\ Goto("main", next)
        /\ UNCHANGED running
  /\ UNCHANGED <<array, i, tmp, reg, line, printed, errno>>

\* After exit() nothing moves.
Exited == ~running

\* The array before the operation in progress: what the thread inside
\* change_reg() or reverse() has done so far, undone.
Undone ==
  CASE pc["thread1"] \in InChange -> ChangedUpTo(array, i["thread1"])
    [] pc["thread2"] \in {"reverse", "left", "leftStore"} ->
         ReversedUpTo(array, i["thread2"])
    [] pc["thread2"] = "right" ->
         ReversedUpTo([array EXCEPT ![i["thread2"]] = tmp["thread2"]], i["thread2"])
    [] OTHER -> array

-----------------------------------------------------------------------------
TypeOKLoops(Threads, labels) ==
  /\ array \in [Index -> Char]
  /\ pc \in [Threads -> labels]
  /\ i \in [Threads -> 0 .. SIZE]
  /\ tmp \in [Threads -> Char] /\ reg \in [Threads -> Char]
  /\ line \in Seq(Char)
  /\ printed.cells \in Seq(Char)
  /\ errno \in BOOLEAN
  /\ running \in BOOLEAN

\* The loop a thread is in bounds its index, which is 0 outside the loops.
LoopsBounded ==
  \A t \in DOMAIN pc :
    /\ pc[t] \notin InLoops => i[t] = 0
    /\ pc[t] \in {"changeZ", "toLower", "toUpper", "store", "put", "countZ"} =>
         i[t] < SIZE
    /\ pc[t] = "reverse" => i[t] <= Half
    /\ pc[t] \in {"left", "leftStore", "right"} => i[t] < Half

\* What change_reg() has found out about the cell it is at.
ChangeKnows(t) ==
  /\ pc[t] = "toLower" => array[i[t]] \in Upper
  /\ pc[t] = "toUpper" => array[i[t]] \in Lower
  /\ pc[t] = "store" => reg[t] = FlipCase(array[i[t]])

\* What reverse() has in tmp and reg in the middle of an exchange.
ReverseKnows(t) ==
  /\ pc[t] \in {"left", "leftStore"} => tmp[t] = array[i[t]]
  /\ pc[t] = "leftStore" => reg[t] = array[SIZE - 1 - i[t]]
  /\ pc[t] = "right" => array[i[t]] = array[SIZE - 1 - i[t]] /\ tmp[t] \in Letter

\* The array holds letters only; what has been done to it can be undone, and
\* then it is whole.
LoopsKnow ==
  /\ array \in [Index -> Letter]
  /\ ChangeKnows("thread1") /\ ReverseKnows("thread2")
LoopsSound == LoopsKnow /\ Undone \in WholeArrays

\* The unfinished line is the part of the array its printer has passed.
LineFollows(printers) ==
  /\ \A t \in printers :
       /\ pc[t] \in InPrint => line = Line(array, i[t])
       /\ pc[t] = "put" => reg[t] = array[i[t]]
  /\ (\A t \in printers : pc[t] \notin InPrint) => line = << >>

\* How far the main thread is says which workers exist: these are its labels
\* until it has come past the creation of t.
Before(t) == {"semget", "create1"} \cup
               (CASE t = "thread1" -> {}
                  [] t = "thread2" -> {"create2"}
                  [] t = "thread3" -> {"create2", "create3"})
Begun(workers) ==
  /\ \A t \in workers : IF pc["main"] \in Before(t) THEN pc[t] = "unborn"
                         ELSE errno \/ pc[t] # "unborn"
  /\ errno => pc["main"] \in {"create2", "create3", "check"}

\* A reader of stdout only ever sees lines that a sequence of whole
\* operations can produce: no line mixes two states of the array, loses a
\* cell or joins two prints.
PrintedWhole ==
  printed = NoLine \/ \E a \in WholeArrays : printed.cells = Line(a, SIZE)

\* The main thread gets past check_errno only with every worker started:
\* one check after several pthread_create calls misses no failure.
NoWorkerMissing(Threads, steady) ==
  running /\ pc["main"] \in steady => \A t \in Threads : pc[t] # "unborn"

=============================================================================
