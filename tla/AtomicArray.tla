----------------------------- MODULE AtomicArray -----------------------------
(***************************************************************************)
(* What the synchronisation of osp/lab5/part_2 promises (threads.h): every *)
(* operation on the array is one indivisible step.                         *)
(*                                                                         *)
(*  - ObjectSpec: change_reg(), reverse() and print_array() are each        *)
(*    atomic (subtasks 3 and 4, threads.h:58-75).                          *)
(*  - PassSpec: a thread's whole pass, its operation followed by the       *)
(*    print of the result, is atomic (subtasks 1 and 2, threads.h:42-56).  *)
(***************************************************************************)
EXTENDS ArrayOps

VARIABLES array,     \* the array between two operations
          printed    \* the last line written and the thread that wrote it

absVars == <<array, printed>>

NoLine == [by |-> "nobody", cells |-> << >>]

LineOf(t, a) == [by |-> t, cells |-> Line(a, SIZE)]

Init == array = InitArray /\ printed = NoLine

Change == array' = ChangeAll(array) /\ UNCHANGED printed

Reverse == array' = ReverseAll(array) /\ UNCHANGED printed

Show == printed' = LineOf("main", array) /\ UNCHANGED array

ObjectSpec == Init /\ [][Change \/ Reverse \/ Show]_absVars

ChangePass ==
  array' = ChangeAll(array) /\ printed' = LineOf("thread1", array')

ReversePass ==
  array' = ReverseAll(array) /\ printed' = LineOf("thread2", array')

PassSpec == Init /\ [][ChangePass \/ ReversePass]_absVars

=============================================================================
