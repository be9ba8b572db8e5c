---------------------------- MODULE UnnamedPipe ----------------------------
(***************************************************************************)
(* osp/lab5/unnamed_pipe: the parent reads a file and writes every second  *)
(* byte of it into a pipe; the child has become wc -c and prints how many  *)
(* bytes it got.  A file is how long it is, a pipe how many bytes it holds. *)
(* Signals are as a shell leaves them: SIGPIPE kills.                      *)
(***************************************************************************)
EXTENDS Integers

CONSTANTS
  MaxSize,     \* the longest file there is
  Word,        \* one more than the largest unsigned int, which holds a size
  ReadMax,     \* the most that read() returns; Linux: 0x7ffff000
  PipeRoom     \* the bytes that a pipe holds

ASSUME SizesAssumption == MaxSize \in Nat /\ Word \in Nat \ {0} /\ ReadMax \in Nat
ASSUME RoomAssumption == PipeRoom \in Nat \ {0}

Directory == -1
Absent == -2
Files == 0 .. MaxSize \cup {Directory, Absent}

VARIABLES
  file,             \* what the name stands for, which others may change
  sz,               \* what size() returned
  parent, child,    \* where the processes are
  readers, writers, \* the processes that hold an end of the pipe
  pipe,             \* bytes in the pipe
  left,             \* bytes that write() still has to write
  count             \* bytes that wc has read

vars == <<file, sz, parent, child, readers, writers, pipe, left, count>>

ParentEnded == parent \in {"exit0", "exit1", "killed"}
ChildRuns == child \in {"close", "exec", "wc"}

Init ==
  /\ file \in Files
  /\ sz = 0
  /\ parent = "open" /\ child = "none"
  /\ readers = {} /\ writers = {}
  /\ pipe = 0 /\ left = 0 /\ count = 0

-----------------------------------------------------------------------------
\* The end of a process closes its ends of the pipe.
ParentEnds(how) ==
  /\ parent' = how
  /\ readers' = readers \ {"parent"} /\ writers' = writers \ {"parent"}
  /\ UNCHANGED <<file, sz, child, pipe, left, count>>

ChildEnds(how) ==
  /\ child' = how
  /\ readers' = readers \ {"child"} /\ writers' = writers \ {"child"}
  /\ UNCHANGED <<file, sz, parent, pipe, left, count>>

-----------------------------------------------------------------------------
(* The parent.                                                             *)

Open ==
  /\ parent = "open"
  /\ \/ file = Absent /\ ParentEnds("exit1")
     \/ /\ file # Absent /\ parent' = "pipe"
        /\ UNCHANGED <<file, sz, child, readers, writers, pipe, left, count>>

Pipe ==
  /\ parent = "pipe"
  /\ \/ ParentEnds("exit1")
     \/ /\ parent' = "fork"
        /\ readers' = {"parent"} /\ writers' = {"parent"}
        /\ UNCHANGED <<file, sz, child, pipe, left, count>>

Fork ==
  /\ parent = "fork"
  /\ \/ ParentEnds("exit1")
     \/ /\ parent' = "close" /\ child' = "close"
        /\ readers' = {"parent", "child"} /\ writers' = {"parent", "child"}
        /\ UNCHANGED <<file, sz, pipe, left, count>>

\* close(pipefd_rd), and size(): the length is cut to an unsigned int.
CloseAndSize ==
  /\ parent = "close"
  /\ parent' = "read"
  /\ readers' = readers \ {"parent"}
  /\ sz' = (IF file = Directory THEN 1 ELSE file) % Word
  /\ UNCHANGED <<file, child, writers, pipe, left, count>>

\* Mutant: nobody looks at how much was read.
ReadUnchecked ==
  /\ parent = "read" /\ parent' = "write"
  /\ left' = sz \div 2
  /\ UNCHANGED <<file, sz, child, readers, writers, pipe, count>>

\* read() of sz bytes, the loop that keeps every second one, and the NUL that
\* it writes two bytes behind the last, outside the buffer.
Read ==
  /\ parent = "read"
  /\ \/ /\ file = Directory \/ file < sz \/ sz > ReadMax
        /\ ParentEnds("exit1")
     \/ /\ file >= sz /\ sz <= ReadMax
        /\ \/ ParentEnds("killed")
           \/ /\ parent' = "write"
              /\ left' = sz \div 2
              /\ UNCHANGED <<file, sz, child, readers, writers, pipe, count>>

\* write() goes on until all is written; then check_errno(), close(), exit().
WriteUpTo(room) ==
  /\ parent = "write"
  /\ \/ left = 0 /\ ParentEnds("exit0")
     \/ left > 0 /\ readers = {} /\ ParentEnds("killed")
     \/ /\ readers # {}
        /\ \E n \in 1 .. left :
             n <= room /\ pipe' = pipe + n /\ left' = left - n
        /\ UNCHANGED <<file, sz, parent, child, readers, writers, count>>

\* Mutant: write() does not wait for room.
WriteOver == WriteUpTo(left)

Write == WriteUpTo(PipeRoom - pipe)

ParentStep == Open \/ Pipe \/ Fork \/ CloseAndSize \/ Read \/ Write

-----------------------------------------------------------------------------
(* The child.                                                              *)

\* Mutant: the child keeps its copy of the end that is written to.
KeepWriteEnd ==
  /\ child = "close" /\ child' = "exec"
  /\ UNCHANGED <<file, sz, parent, readers, writers, pipe, left, count>>

CloseWriteEnd ==
  /\ child = "close" /\ child' = "exec"
  /\ writers' = writers \ {"child"}
  /\ UNCHANGED <<file, sz, parent, readers, pipe, left, count>>

\* execlp(): there may be no /usr/bin/wc.
Exec ==
  /\ child = "exec"
  /\ \/ ChildEnds("exit1")
     \/ /\ child' = "wc"
        /\ UNCHANGED <<file, sz, parent, readers, writers, pipe, left, count>>

\* wc -c reads to the end of the file, which comes when nobody can write.
Wc ==
  /\ child = "wc"
  /\ \/ /\ \E n \in 1 .. pipe : pipe' = pipe - n /\ count' = count + n
        /\ UNCHANGED <<file, sz, parent, child, readers, writers, left>>
     \/ pipe = 0 /\ writers = {} /\ ChildEnds("printed")

ChildStep == CloseWriteEnd \/ Exec \/ Wc

-----------------------------------------------------------------------------
\* Signals, and another program that writes to the file or cuts it off.
KillParent == ~ParentEnded /\ ParentEnds("killed")
KillChild == ChildRuns /\ ChildEnds("killed")

Resize ==
  /\ parent \in {"pipe", "fork", "close", "read"} /\ file >= 0
  /\ file' \in 0 .. MaxSize
  /\ UNCHANGED <<sz, parent, child, readers, writers, pipe, left, count>>

Next == ParentStep \/ ChildStep \/ KillParent \/ KillChild \/ Resize

Spec == Init /\ [][Next]_vars

\* Both processes are scheduled; nobody has to kill one.
FairSpec == Spec /\ WF_vars(ParentStep) /\ WF_vars(ChildStep)

-----------------------------------------------------------------------------
\* Every variable keeps its type, and the pipe holds no more than it can
\* (unnamed_pipe.c:24-72).
TypeOK ==
  /\ file \in Files /\ sz \in 0 .. Word - 1
  /\ parent \in {"open", "pipe", "fork", "close", "read", "write",
                 "exit0", "exit1", "killed"}
  /\ child \in {"none", "close", "exec", "wc", "printed", "exit1", "killed"}
  /\ readers \subseteq {"parent", "child"} /\ writers \subseteq {"parent", "child"}
  /\ pipe \in 0 .. PipeRoom
  /\ left \in Nat /\ count \in Nat

\* What read() can have given of the file as it was then.
Got == IF file < sz \/ ReadMax < sz
       THEN IF file < ReadMax THEN file ELSE ReadMax
       ELSE sz

\* The number that wc prints, after the parent is gone: half of the bytes that
\* read() gave if the parent says it succeeded, whatever became of the file
\* after its size was taken; 0 beside the parent's error message; no more than
\* half of sz if the parent was killed on the way (unnamed_pipe.c:24-42, 60-69).
CountExact ==
  child = "printed" =>
    /\ ParentEnded
    /\ parent = "exit0" => count = Got \div 2
    /\ parent = "exit1" => count = 0
    /\ count <= sz \div 2

\* A process holds the ends that it has not closed, and nothing is printed
\* before all that was written is read.
EndsHeld ==
  /\ parent \in {"open", "pipe"} => readers = {} /\ writers = {}
  /\ parent \in {"fork", "close", "read", "write"} => "parent" \in writers
  /\ parent \in {"open", "pipe", "fork"} => child = "none"
  /\ child = "none" => parent \notin {"close", "read", "write", "exit0"}
  /\ child \in {"exec", "wc"} => "child" \notin writers
  /\ child = "printed" => ParentEnded /\ pipe = 0

\* Nothing is written that was not read, and no byte is lost or counted twice
\* between the buffer, the pipe and wc.
BytesKept ==
  /\ parent \in {"write", "exit0"} => Got = sz
  /\ parent \in {"open", "pipe", "fork", "close", "read", "exit1"} =>
       pipe = 0 /\ left = 0 /\ count = 0
  /\ parent = "write" => pipe + left + count = sz \div 2
  /\ parent = "exit0" => pipe + count = sz \div 2
  /\ parent = "killed" => pipe + count <= sz \div 2

\* The invariant of the proof: in every state each byte that was kept is in
\* one place, and who holds which end of the pipe agrees with where the
\* processes are (unnamed_pipe.c:24-69).
IInv == TypeOK /\ EndsHeld /\ BytesKept

\* Neither process waits for ever: wc sees the end of the pipe because its own
\* copy of the other end is closed, and a parent that has filled the pipe is
\* let on, or killed by SIGPIPE, even if there is no wc.
BothEnd == <>(ParentEnded /\ ~ChildRuns)

=============================================================================
