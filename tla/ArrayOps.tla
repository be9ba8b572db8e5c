------------------------------ MODULE ArrayOps ------------------------------
(***************************************************************************)
(* The shared array of osp/lab5/part_2 and what its two operations compute *)
(* when they run alone.  A cell is a char, a signed number of eight bits.  *)
(* Whoever has the array for itself only finds letters in it.              *)
(***************************************************************************)
EXTENDS Integers

CONSTANT SIZE          \* number of cells; 26 in threads.h

\* 'a' + i is a letter for every index i.
ASSUME SizeAssumption == SIZE \in 1 .. 26

Index == 0 .. SIZE - 1

Char == -128 .. 127
ToChar(n) == ((n + 128) % 256) - 128

Upper == 65 .. 90      \* 'A' .. 'Z'
Lower == 97 .. 122     \* 'a' .. 'z'
Letter == Upper \cup Lower

\* start(): array[i] = i + 'a'
InitArray == [k \in Index |-> ToChar(k + 97)]

\* The other case of a letter.
FlipCase(c) == IF c \in Upper THEN c + 32 ELSE c - 32

\* change_reg() after n of its iterations, and after all of them.
ChangedUpTo(a, n) == [k \in Index |-> IF k < n THEN FlipCase(a[k]) ELSE a[k]]
ChangeAll(a) == [k \in Index |-> FlipCase(a[k])]

\* reverse() after n of its SIZE / 2 exchanges, and after all of them.
Half == SIZE \div 2
ReversedUpTo(a, n) ==
  [k \in Index |-> IF k < n \/ k >= SIZE - n THEN a[SIZE - 1 - k] ELSE a[k]]
ReverseAll(a) == [k \in Index |-> a[SIZE - 1 - k]]

\* The first n cells, as print_array() writes them.
Line(a, n) == [k \in 1 .. n |-> a[k - 1]]

\* The arrays that whole executions of the two operations reach.
WholeArrays ==
  { InitArray, ChangeAll(InitArray),
    ReverseAll(InitArray), ReverseAll(ChangeAll(InitArray)) }

=============================================================================
