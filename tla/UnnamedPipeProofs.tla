------------------------- MODULE UnnamedPipeProofs -------------------------
(***************************************************************************)
(* IInv of UnnamedPipe is an invariant, and with it CountExact, for files   *)
(* of any length, words, reads and pipes of any size.                      *)
(***************************************************************************)
EXTENDS UnnamedPipe, TLAPS

\* Half of a size is a number.
LEMMA HalfNat == sz \in 0 .. Word - 1 => sz \div 2 \in Nat
BY SizesAssumption

\* The end of the parent, however it comes, keeps the invariant, if what it
\* leaves behind is what IInv asks of that end.
LEMMA ParentEndsKeeps ==
  ASSUME IInv, ~ParentEnded,
         \/ ParentEnds("exit1") /\ parent # "write"
         \/ ParentEnds("killed")
         \/ ParentEnds("exit0") /\ parent = "write" /\ left = 0
  PROVE  IInv'
<1> USE SizesAssumption, RoomAssumption
<1>1. TypeOK /\ sz \div 2 \in Nat
  BY HalfNat DEF IInv, TypeOK
<1>2. TypeOK'
  BY <1>1 DEF TypeOK, ParentEnds
<1>3. EndsHeld'
  BY <1>1 DEF IInv, EndsHeld, ParentEnds, ParentEnded, TypeOK
<1>4. BytesKept'
  BY <1>1 DEF IInv, BytesKept, Got, ParentEnds, ParentEnded, TypeOK
<1> QED
  BY <1>2, <1>3, <1>4 DEF IInv

\* The same of the child: it prints only when the pipe is empty for good.
LEMMA ChildEndsKeeps ==
  ASSUME IInv, ChildRuns, NEW how \in {"exit1", "killed", "printed"},
         ChildEnds(how), how = "printed" => pipe = 0 /\ writers = {}
  PROVE  IInv'
<1>1. TypeOK'
  BY DEF IInv, TypeOK, ChildEnds
<1>2. how = "printed" => ParentEnded
  BY DEF IInv, EndsHeld, ChildRuns, ParentEnded, TypeOK
<1>3. EndsHeld'
  BY <1>2 DEF IInv, EndsHeld, ChildEnds, ChildRuns, ParentEnded, TypeOK
<1>4. BytesKept'
  BY DEF IInv, BytesKept, Got, ChildEnds
<1> QED
  BY <1>1, <1>3, <1>4 DEF IInv

\* Each step of the parent that it survives (unnamed_pipe.c:24-68).
LEMMA ParentStepKeeps == IInv /\ ParentStep => IInv'
<1> SUFFICES ASSUME IInv, ParentStep PROVE IInv'
  OBVIOUS
<1> USE SizesAssumption, RoomAssumption
<1>0. TypeOK /\ EndsHeld /\ BytesKept /\ sz \div 2 \in Nat
  BY HalfNat DEF IInv, TypeOK
<1>1. CASE Open
  <2>1. CASE ParentEnds("exit1")
    BY <1>1, <2>1, ParentEndsKeeps DEF Open, ParentEnded
  <2>2. CASE /\ parent' = "pipe"
             /\ UNCHANGED <<file, sz, child, readers, writers, pipe, left, count>>
    BY <1>0, <1>1, <2>2 DEF Open, IInv, TypeOK, EndsHeld, BytesKept, Got, ParentEnded
  <2> QED
    BY <1>1, <2>1, <2>2 DEF Open
<1>2. CASE Pipe
  <2>1. CASE ParentEnds("exit1")
    BY <1>2, <2>1, ParentEndsKeeps DEF Pipe, ParentEnded
  <2>2. CASE ~ParentEnds("exit1")
    BY <1>0, <1>2, <2>2 DEF Pipe, IInv, TypeOK, EndsHeld, BytesKept, Got, ParentEnded
  <2> QED
    BY <2>1, <2>2
<1>3. CASE Fork
  <2>1. CASE ParentEnds("exit1")
    BY <1>3, <2>1, ParentEndsKeeps DEF Fork, ParentEnded
  <2>2. CASE ~ParentEnds("exit1")
    BY <1>0, <1>3, <2>2 DEF Fork, IInv, TypeOK, EndsHeld, BytesKept, Got, ParentEnded
  <2> QED
    BY <2>1, <2>2
<1>4. CASE CloseAndSize
  <2>1. sz' \in 0 .. Word - 1
    <3>1. PICK n \in Int : sz' = n % Word
      BY <1>0, <1>4 DEF CloseAndSize, TypeOK, Files, Directory, Absent
    <3> QED
      BY <3>1
  <2>2. TypeOK'
    BY <1>0, <1>4, <2>1 DEF CloseAndSize, TypeOK
  <2> QED
    BY <1>0, <1>4, <2>2
       DEF CloseAndSize, IInv, EndsHeld, BytesKept, Got, ParentEnded
<1>5. CASE Read
  <2>1. CASE ParentEnds("exit1") \/ ParentEnds("killed")
    BY <1>5, <2>1, ParentEndsKeeps DEF Read, ParentEnded
  <2>2. CASE /\ file >= sz /\ sz <= ReadMax
             /\ parent' = "write" /\ left' = sz \div 2
             /\ UNCHANGED <<file, sz, child, readers, writers, pipe, count>>
    <3>1. Got' = sz'
      BY <1>0, <2>2 DEF Got, TypeOK, Files, Directory, Absent
    <3>2. TypeOK' /\ EndsHeld'
      BY <1>0, <1>5, <2>2 DEF Read, TypeOK, EndsHeld, ParentEnded
    <3>3. BytesKept'
      BY <1>0, <1>5, <2>2, <3>1 DEF Read, BytesKept
    <3> QED
      BY <3>2, <3>3 DEF IInv
  <2> QED
    BY <1>5, <2>1, <2>2 DEF Read
<1>6. CASE Write
  <2>1. CASE left = 0 /\ ParentEnds("exit0")
    BY <1>6, <2>1, ParentEndsKeeps DEF Write, WriteUpTo, ParentEnded
  <2>2. CASE ParentEnds("killed")
    BY <1>6, <2>2, ParentEndsKeeps DEF Write, WriteUpTo, ParentEnded
  <2>3. ASSUME NEW n \in 1 .. left, n <= PipeRoom - pipe,
               pipe' = pipe + n, left' = left - n,
               UNCHANGED <<file, sz, parent, child, readers, writers, count>>
        PROVE  IInv'
    <3>1. parent = "write"
      BY <1>6 DEF Write, WriteUpTo
    <3>2. TypeOK'
      BY <1>0, <2>3 DEF TypeOK
    <3>3. EndsHeld'
      BY <1>0, <2>3, <3>1 DEF EndsHeld, ParentEnded
    <3>4. BytesKept'
      BY <1>0, <2>3, <3>1 DEF BytesKept, Got, TypeOK
    <3> QED
      BY <3>2, <3>3, <3>4 DEF IInv
  <2> QED
    BY <1>6, <2>1, <2>2, <2>3 DEF Write, WriteUpTo
<1> QED
  BY <1>1, <1>2, <1>3, <1>4, <1>5, <1>6 DEF ParentStep

\* Each step of the child (unnamed_pipe.c:60-64).
LEMMA ChildStepKeeps == IInv /\ ChildStep => IInv'
<1> SUFFICES ASSUME IInv, ChildStep PROVE IInv'
  OBVIOUS
<1> USE SizesAssumption, RoomAssumption
<1>0. TypeOK /\ EndsHeld /\ BytesKept /\ sz \div 2 \in Nat
  BY HalfNat DEF IInv, TypeOK
<1>1. CASE CloseWriteEnd
  BY <1>0, <1>1 DEF CloseWriteEnd, IInv, TypeOK, EndsHeld, BytesKept, Got, ParentEnded
<1>2. CASE Exec
  <2>1. CASE ChildEnds("exit1")
    BY <1>2, <2>1, ChildEndsKeeps DEF Exec, ChildRuns
  <2>2. CASE ~ChildEnds("exit1")
    BY <1>0, <1>2, <2>2 DEF Exec, IInv, TypeOK, EndsHeld, BytesKept, Got, ParentEnded
  <2> QED
    BY <2>1, <2>2
<1>3. CASE Wc
  <2>1. ASSUME NEW n \in 1 .. pipe, pipe' = pipe - n, count' = count + n,
               UNCHANGED <<file, sz, parent, child, readers, writers, left>>
        PROVE  IInv'
    <3>1. TypeOK'
      BY <1>0, <2>1 DEF TypeOK
    <3>2. EndsHeld'
      BY <1>0, <1>3, <2>1 DEF Wc, EndsHeld, ParentEnded
    <3>3. BytesKept'
      BY <1>0, <2>1 DEF BytesKept, Got, TypeOK
    <3> QED
      BY <3>1, <3>2, <3>3 DEF IInv
  <2>2. CASE pipe = 0 /\ writers = {} /\ ChildEnds("printed")
    BY <1>3, <2>2, ChildEndsKeeps DEF Wc, ChildRuns
  <2> QED
    BY <1>3, <2>1, <2>2 DEF Wc
<1> QED
  BY <1>1, <1>2, <1>3 DEF ChildStep

\* IInv holds in every state of every behaviour (unnamed_pipe.c:24-69).
THEOREM UnnamedPipeInvariant == Spec => []IInv
<1>1. Init => IInv
  BY SizesAssumption, RoomAssumption
     DEF Init, IInv, TypeOK, EndsHeld, BytesKept, Got
<1>2. IInv /\ [Next]_vars => IInv'
  <2> SUFFICES ASSUME IInv, [Next]_vars PROVE IInv'
    OBVIOUS
  <2>1. CASE ParentStep
    BY <2>1, ParentStepKeeps
  <2>2. CASE ChildStep
    BY <2>2, ChildStepKeeps
  <2>3. CASE KillParent
    BY <2>3, ParentEndsKeeps DEF KillParent
  <2>4. CASE KillChild
    BY <2>4, ChildEndsKeeps DEF KillChild
  <2>5. CASE Resize
    BY <2>5 DEF Resize, IInv, TypeOK, EndsHeld, BytesKept, Got, ParentEnded, Files
  <2>6. CASE UNCHANGED vars
    BY <2>6 DEF vars, IInv, TypeOK, EndsHeld, BytesKept, Got, ParentEnded
  <2> QED
    BY <2>1, <2>2, <2>3, <2>4, <2>5, <2>6 DEF Next
<1> QED
  BY <1>1, <1>2, PTL DEF Spec

\* What wc prints is half of what read() gave if the parent says it succeeded,
\* 0 if it says it failed, and no more than half of sz otherwise
\* (unnamed_pipe.c:25-41).
THEOREM UnnamedPipeCountExact == Spec => []CountExact
<1>1. IInv => CountExact
  <2> SUFFICES ASSUME IInv PROVE CountExact
    OBVIOUS
  <2>1. TypeOK /\ EndsHeld /\ BytesKept /\ sz \div 2 \in Nat
    BY HalfNat DEF IInv, TypeOK
  <2> QED
    BY <2>1 DEF CountExact, TypeOK, EndsHeld, BytesKept, Got, ParentEnded
<1> QED
  BY <1>1, UnnamedPipeInvariant, PTL

=============================================================================
