---------------------------- MODULE ThreadsProofs ----------------------------
(***************************************************************************)
(* What the program ./threads keeps, for arrays of every SIZE, whichever   *)
(* subtask its command line chooses.  SemTaskProofs reasons about the      *)
(* loops once, in the terms of ArrayLoops, and proves subtask 1; each of   *)
(* the other subtasks has to say who may be in which loop with whom.       *)
(***************************************************************************)
EXTENDS Threads, SequenceTheorems, TLAPS

SemProofs == INSTANCE SemTaskProofs

-----------------------------------------------------------------------------
(* The loops there are the loops here, and so is what is proved of them.   *)

\* The places in the middle of an iteration.
MidLoop == {"changeZ", "toLower", "toUpper", "store", "put", "countZ",
            "left", "leftStore", "right"}

\* A step of t changes no local of another thread.
OthersKept(Ts, t) ==
  \A u \in Ts : u # t => /\ pc'[u] = pc[u] /\ i'[u] = i[u]
                         /\ tmp'[u] = tmp[u] /\ reg'[u] = reg[u]

\* No two threads change the array.
Apart == ~(pc["thread1"] \in InChange /\ pc["thread2"] \in InReverse)

\* A thread that rests stays where it is in its loop, keeps out of it, or has
\* come to its top.
Rests(u, loop) ==
  \/ /\ pc'[u] = pc[u] /\ i'[u] = i[u]
     /\ tmp'[u] = tmp[u] /\ reg'[u] = reg[u]
  \/ pc[u] \notin loop /\ pc'[u] \notin loop
  \/ pc[u] \notin loop /\ pc'[u] \in {"change", "reverse"} /\ i'[u] = 0

\* Threads go from label to label and the locals stay; no thread leaves a loop,
\* and one that enters a loop enters at its top.
Quiet(Ts, Ls) ==
  /\ UNCHANGED <<array, i, tmp, reg, line, printed>>
  /\ errno' \in BOOLEAN /\ running' \in BOOLEAN
  /\ pc' \in [Ts -> Ls]
  /\ \A u \in Ts : pc'[u] # pc[u] => pc[u] \notin InLoops /\ pc'[u] \notin MidLoop

LEMMA SemOps ==
  /\ SemProofs!Index = Index /\ SemProofs!Char = Char /\ SemProofs!Half = Half
  /\ SemProofs!Upper = Upper /\ SemProofs!Lower = Lower /\ SemProofs!Letter = Letter
  /\ SemProofs!InitArray = InitArray /\ SemProofs!WholeArrays = WholeArrays
  /\ SemProofs!InChange = InChange /\ SemProofs!InReverse = InReverse
  /\ SemProofs!InPrint = InPrint /\ SemProofs!InCount = InCount
  /\ SemProofs!InLoops = InLoops /\ SemProofs!MidLoop = MidLoop
  /\ SemProofs!NoLine = NoLine /\ SemProofs!Arrays = [Index -> Letter]
  /\ \A c : SemProofs!FlipCase(c) = FlipCase(c) /\ SemProofs!ToChar(c) = ToChar(c)
  /\ \A a, n : /\ SemProofs!ChangedUpTo(a, n) = ChangedUpTo(a, n)
               /\ SemProofs!ReversedUpTo(a, n) = ReversedUpTo(a, n)
               /\ SemProofs!ChangeAll(a) = ChangeAll(a)
               /\ SemProofs!ReverseAll(a) = ReverseAll(a)
               /\ SemProofs!Line(a, n) = Line(a, n)
BY Zenon
   DEF SemProofs!Index, Index, SemProofs!Char, Char, SemProofs!Half, Half,
       SemProofs!Upper, Upper, SemProofs!Lower, Lower, SemProofs!Letter, Letter,
       SemProofs!InitArray, InitArray, SemProofs!ToChar, ToChar,
       SemProofs!FlipCase, FlipCase, SemProofs!InChange, InChange,
       SemProofs!InReverse, InReverse, SemProofs!InPrint, InPrint,
       SemProofs!InCount, InCount, SemProofs!InLoops, InLoops,
       SemProofs!MidLoop, MidLoop, SemProofs!NoLine, NoLine,
       SemProofs!ChangedUpTo, ChangedUpTo, SemProofs!ReversedUpTo, ReversedUpTo,
       SemProofs!ChangeAll, ChangeAll, SemProofs!ReverseAll, ReverseAll,
       SemProofs!Line, Line, SemProofs!WholeArrays, WholeArrays, SemProofs!Arrays

LEMMA SemStates ==
  /\ \A Ts, Ls : /\ SemProofs!TypeOKLoops(Ts, Ls) <=> TypeOKLoops(Ts, Ls)
                 /\ SemProofs!TypeOKLoops(Ts, Ls)' <=> TypeOKLoops(Ts, Ls)'
  /\ \A p : /\ SemProofs!LineFollows(p) <=> LineFollows(p)
            /\ SemProofs!LineFollows(p)' <=> LineFollows(p)'
  /\ (SemProofs!LoopsBounded <=> LoopsBounded)
  /\ (SemProofs!LoopsBounded' <=> LoopsBounded')
  /\ SemProofs!Undone = Undone /\ SemProofs!Undone' = Undone'
  /\ (SemProofs!LoopsSound <=> LoopsSound) /\ (SemProofs!LoopsSound' <=> LoopsSound')
  /\ (SemProofs!PrintedWhole <=> PrintedWhole) /\ (SemProofs!PrintedWhole' <=> PrintedWhole')
  /\ (SemProofs!Apart <=> Apart) /\ (SemProofs!Apart' <=> Apart')
<1>1. \A Ts, Ls : /\ SemProofs!TypeOKLoops(Ts, Ls) <=> TypeOKLoops(Ts, Ls)
                  /\ SemProofs!TypeOKLoops(Ts, Ls)' <=> TypeOKLoops(Ts, Ls)'
  BY SemOps DEF TypeOKLoops, SemProofs!TypeOKLoops
<1>2. \A p : /\ SemProofs!LineFollows(p) <=> LineFollows(p)
             /\ SemProofs!LineFollows(p)' <=> LineFollows(p)'
  BY SemOps DEF LineFollows, SemProofs!LineFollows
<1>3. (SemProofs!LoopsBounded <=> LoopsBounded) /\ (SemProofs!LoopsBounded' <=> LoopsBounded')
  BY SemOps DEF LoopsBounded, SemProofs!LoopsBounded
<1>4. SemProofs!Undone = Undone /\ SemProofs!Undone' = Undone'
  BY SemOps DEF Undone, SemProofs!Undone
<1>5. (SemProofs!LoopsSound <=> LoopsSound) /\ (SemProofs!LoopsSound' <=> LoopsSound')
  BY <1>4, SemOps
     DEF LoopsSound, SemProofs!LoopsSound, LoopsKnow, SemProofs!LoopsKnow, ChangeKnows,
         SemProofs!ChangeKnows, ReverseKnows, SemProofs!ReverseKnows
<1>6. (SemProofs!PrintedWhole <=> PrintedWhole) /\ (SemProofs!PrintedWhole' <=> PrintedWhole')
  BY SemOps DEF PrintedWhole, SemProofs!PrintedWhole
<1>7. (SemProofs!Apart <=> Apart) /\ (SemProofs!Apart' <=> Apart')
  BY SemOps DEF Apart, SemProofs!Apart
<1> QED
  BY <1>1, <1>2, <1>3, <1>4, <1>5, <1>6, <1>7

LEMMA SemSteps ==
  /\ \A t, next : SemProofs!ChangeReg(t, next) <=> ChangeReg(t, next)
  /\ \A t, next : SemProofs!ReverseArray(t, next) <=> ReverseArray(t, next)
  /\ \A t, next : SemProofs!PrintArray(t, next) <=> PrintArray(t, next)
  /\ \A here, t, next : SemProofs!Create(here, t, next) <=> Create(here, t, next)
  /\ \A next : SemProofs!CheckCreated(next) <=> CheckCreated(next)
  /\ \A Ts, first : SemProofs!InitLoops(Ts, first) <=> InitLoops(Ts, first)
  /\ \A Ts, t : SemProofs!OthersKept(Ts, t) <=> OthersKept(Ts, t)
  /\ \A u, loop : SemProofs!Rests(u, loop) <=> Rests(u, loop)
  /\ \A Ts, Ls : SemProofs!Quiet(Ts, Ls) <=> Quiet(Ts, Ls)
<1>1. \A t, next : SemProofs!ChangeReg(t, next) <=> ChangeReg(t, next)
  BY SemOps
     DEF ChangeReg, SemProofs!ChangeReg, Goto, SemProofs!Goto, ChangeTest,
         SemProofs!ChangeTest, ChangeTestZ, SemProofs!ChangeTestZ, ChangeLoad,
         SemProofs!ChangeLoad, ChangeStore, SemProofs!ChangeStore
<1>2. \A t, next : SemProofs!ReverseArray(t, next) <=> ReverseArray(t, next)
  BY SemOps
     DEF ReverseArray, SemProofs!ReverseArray, Goto, SemProofs!Goto, ReverseLoad,
         SemProofs!ReverseLoad, ReverseLeft, SemProofs!ReverseLeft, ReverseLeftStore,
         SemProofs!ReverseLeftStore, ReverseRight, SemProofs!ReverseRight
<1>3. \A t, next : SemProofs!PrintArray(t, next) <=> PrintArray(t, next)
  BY DEF PrintArray, SemProofs!PrintArray, Goto, SemProofs!Goto, PrintRead,
         SemProofs!PrintRead, PrintCell, SemProofs!PrintCell, PrintNewline,
         SemProofs!PrintNewline
<1>4. \A here, t, next : SemProofs!Create(here, t, next) <=> Create(here, t, next)
  BY DEF Create, SemProofs!Create, Goto, SemProofs!Goto
<1>5. \A next : SemProofs!CheckCreated(next) <=> CheckCreated(next)
  BY DEF CheckCreated, SemProofs!CheckCreated, Goto, SemProofs!Goto
<1>6. \A Ts, first : SemProofs!InitLoops(Ts, first) <=> InitLoops(Ts, first)
  BY SemOps DEF InitLoops, SemProofs!InitLoops
<1>7. \A Ts, t : SemProofs!OthersKept(Ts, t) <=> OthersKept(Ts, t)
  BY DEF OthersKept, SemProofs!OthersKept
<1>8. \A u, loop : SemProofs!Rests(u, loop) <=> Rests(u, loop)
  BY DEF Rests, SemProofs!Rests
<1>9. \A Ts, Ls : SemProofs!Quiet(Ts, Ls) <=> Quiet(Ts, Ls)
  BY SemOps DEF Quiet, SemProofs!Quiet
<1> QED
  BY <1>1, <1>2, <1>3, <1>4, <1>5, <1>6, <1>7, <1>8, <1>9

LEMMA ChangeTyped ==
  ASSUME NEW Ts, NEW Ls, NEW t \in Ts, NEW next \in Ls,
         InChange \subseteq Ls, next \notin MidLoop \cup {"change", "reverse"},
         TypeOKLoops(Ts, Ls), LoopsBounded, ChangeReg(t, next)
  PROVE  TypeOKLoops(Ts, Ls)' /\ LoopsBounded' /\ OthersKept(Ts, t)
BY SizeAssumption, SemOps, SemStates, SemSteps, SemProofs!ChangeTyped

LEMMA ReverseTyped ==
  ASSUME NEW Ts, NEW Ls, NEW t \in Ts, NEW next \in Ls,
         InReverse \subseteq Ls, next \notin MidLoop \cup {"change", "reverse"},
         TypeOKLoops(Ts, Ls), LoopsBounded, ReverseArray(t, next)
  PROVE  TypeOKLoops(Ts, Ls)' /\ LoopsBounded' /\ OthersKept(Ts, t)
BY SizeAssumption, SemOps, SemStates, SemSteps, SemProofs!ReverseTyped

LEMMA PrintTyped ==
  ASSUME NEW Ts, NEW Ls, NEW t \in Ts, NEW next \in Ls,
         InPrint \subseteq Ls, next \notin MidLoop \cup {"change", "reverse"},
         TypeOKLoops(Ts, Ls), LoopsBounded, PrintArray(t, next)
  PROVE  TypeOKLoops(Ts, Ls)' /\ LoopsBounded' /\ OthersKept(Ts, t)
BY SizeAssumption, SemOps, SemStates, SemSteps, SemProofs!PrintTyped

LEMMA ChangeSound ==
  ASSUME NEW Ts, NEW Ls, "thread1" \in Ts, "thread2" \in Ts, NEW next \in Ls,
         next \notin InChange, pc["thread2"] \notin InReverse,
         TypeOKLoops(Ts, Ls), LoopsBounded, LoopsSound, OthersKept(Ts, "thread1"),
         ChangeReg("thread1", next)
  PROVE  /\ LoopsSound' /\ UNCHANGED <<line, printed>>
         /\ \/ Undone' = Undone /\ pc'["thread1"] \in InChange
            \/ /\ Undone' = ChangeAll(Undone)
               /\ pc'["thread1"] = next /\ i'["thread1"] = 0
BY SizeAssumption, SemOps, SemStates, SemSteps, SemProofs!ChangeSound

LEMMA ReverseSound ==
  ASSUME NEW Ts, NEW Ls, "thread1" \in Ts, "thread2" \in Ts, NEW next \in Ls,
         next \notin InReverse, pc["thread1"] \notin InChange,
         TypeOKLoops(Ts, Ls), LoopsBounded, LoopsSound, OthersKept(Ts, "thread2"),
         ReverseArray("thread2", next)
  PROVE  /\ LoopsSound' /\ UNCHANGED <<line, printed>>
         /\ \/ Undone' = Undone /\ pc'["thread2"] \in InReverse
            \/ /\ Undone' = ReverseAll(Undone)
               /\ pc'["thread2"] = next /\ i'["thread2"] = 0
BY SizeAssumption, SemOps, SemStates, SemSteps, SemProofs!ReverseSound

LEMMA QuietSound ==
  ASSUME LoopsSound, Apart, Apart', array' = array,
         Rests("thread1", InChange), Rests("thread2", InReverse)
  PROVE  LoopsSound' /\ Undone' = Undone
BY SizeAssumption, SemOps, SemStates, SemSteps, SemProofs!QuietSound

LEMMA PrintFollows ==
  ASSUME NEW Ts, NEW Ls, NEW printers \in SUBSET Ts, NEW t \in printers, NEW next \in Ls,
         next \notin InPrint, \A u \in printers : u # t => pc[u] \notin InPrint,
         TypeOKLoops(Ts, Ls), LoopsBounded, LineFollows(printers), OthersKept(Ts, t),
         PrintArray(t, next)
  PROVE  /\ LineFollows(printers)' /\ array' = array
         /\ pc[t] \in InPrint
         /\ \/ printed' = printed /\ pc'[t] \in InPrint
            \/ /\ printed' = [by |-> t, cells |-> Line(array, SIZE)]
               /\ pc'[t] = next /\ i'[t] = 0
BY SizeAssumption, SemOps, SemStates, SemSteps, SemProofs!PrintFollows

LEMMA LineKept ==
  ASSUME NEW printers, LineFollows(printers), line' = line,
         \/ /\ array' = array
            /\ \A u \in printers : pc[u] \in InPrint \/ pc'[u] \in InPrint =>
                 pc'[u] = pc[u] /\ i'[u] = i[u] /\ reg'[u] = reg[u]
         \/ \A u \in printers :
              pc[u] \notin InPrint /\ (pc'[u] \in InPrint => pc'[u] = "print" /\ i'[u] = 0)
  PROVE  LineFollows(printers)'
BY SizeAssumption, SemOps, SemStates, SemProofs!LineKept

LEMMA QuietTyped ==
  ASSUME NEW Ts, NEW Ls, TypeOKLoops(Ts, Ls), LoopsBounded, Quiet(Ts, Ls)
  PROVE  TypeOKLoops(Ts, Ls)' /\ LoopsBounded'
BY SizeAssumption, SemStates, SemSteps, SemProofs!QuietTyped

LEMMA QuietKeeps ==
  ASSUME NEW Ts, NEW Ls, "thread1" \in Ts, "thread2" \in Ts,
         TypeOKLoops(Ts, Ls), LoopsBounded, LoopsSound, Apart, Apart', Quiet(Ts, Ls)
  PROVE  LoopsSound' /\ Undone' = Undone
BY SizeAssumption, SemStates, SemSteps, SemProofs!QuietKeeps

LEMMA QuietLine ==
  ASSUME NEW Ts, NEW Ls, NEW printers \in SUBSET Ts,
         TypeOKLoops(Ts, Ls), LoopsBounded, LineFollows(printers), Quiet(Ts, Ls),
         \A u, v \in printers : pc'[u] = "print" /\ pc[u] # "print" => pc[v] \notin InPrint
  PROVE  LineFollows(printers)'
BY SizeAssumption, SemOps, SemStates, SemSteps, SemProofs!QuietLine

LEMMA CreateMoves ==
  ASSUME NEW Ts, NEW Ls, NEW here, NEW made \in Ts, NEW next \in Ls,
         "main" \in Ts, made # "main", "lock" \in Ls,
         TypeOKLoops(Ts, Ls), Create(here, made, next)
  PROVE  /\ UNCHANGED <<array, i, tmp, reg, line, printed>>
         /\ errno' \in BOOLEAN /\ running' \in BOOLEAN
         /\ pc["main"] = here /\ pc'["main"] = next /\ pc' \in [Ts -> Ls]
         /\ \A u \in Ts : u # "main" => pc'[u] = pc[u] \/ (u = made /\ pc'[u] = "lock")
BY SizeAssumption, SemStates, SemSteps, SemProofs!CreateMoves

LEMMA CheckMoves ==
  ASSUME NEW Ts, NEW Ls, NEW next \in Ls, "main" \in Ts,
         TypeOKLoops(Ts, Ls), CheckCreated(next)
  PROVE  /\ UNCHANGED <<array, i, tmp, reg, line, printed>>
         /\ errno' \in BOOLEAN /\ running' \in BOOLEAN
         /\ pc["main"] = "check" /\ pc'["main"] \in {"check", next} /\ pc' \in [Ts -> Ls]
         /\ \A u \in Ts : u # "main" => pc'[u] = pc[u]
BY SizeAssumption, SemStates, SemSteps, SemProofs!CheckMoves

LEMMA InitKeeps ==
  ASSUME NEW Ts, NEW Ls, NEW first \in Ls, NEW printers \in SUBSET Ts,
         "main" \in Ts, "thread1" \in Ts, "thread2" \in Ts, "unborn" \in Ls,
         first \in {"semget", "create1"}, InitLoops(Ts, first)
  PROVE  /\ TypeOKLoops(Ts, Ls) /\ LoopsBounded /\ LoopsSound /\ Undone = InitArray
         /\ LineFollows(printers) /\ PrintedWhole /\ ~errno
         /\ pc["main"] = first /\ \A t \in Ts : t # "main" => pc[t] = "unborn"
BY SizeAssumption, SemOps, SemStates, SemSteps, SemProofs!InitKeeps

\* A thread in no loop that changes the array has left nothing to undo.
LEMMA UndoneAway ==
  /\ pc["thread1"] \notin InChange /\ pc["thread2"] \notin InReverse => Undone = array
  /\ pc'["thread1"] \notin InChange /\ pc'["thread2"] \notin InReverse => Undone' = array'
BY DEF Undone, InReverse

\* Which loops a thread may be in with a label, and where they lead.
LEMMA LoopLabels ==
  /\ InLoops = InChange \cup InReverse \cup InPrint \cup InCount
  /\ InChange = {"change", "changeZ", "toLower", "toUpper", "store"}
  /\ InReverse = {"reverse", "left", "leftStore", "right"}
  /\ InPrint = {"print", "put"} /\ InCount = {"count", "countZ"}
BY DEF InLoops, InChange, InReverse, InPrint, InCount

\* A step of a loop stays in it or leaves it.
LEMMA LoopMoves ==
  ASSUME NEW Ts, NEW Ls, NEW t \in Ts, TypeOKLoops(Ts, Ls), NEW after, NEW last,
         ChangeReg(t, after) \/ ReverseArray(t, after) \/ PrintArray(t, last)
  PROVE  /\ errno' = errno
         /\ \/ pc[t] \in InChange /\ ChangeReg(t, after) /\ pc'[t] \in InChange \cup {after}
            \/ pc[t] \in InReverse /\ ReverseArray(t, after) /\ pc'[t] \in InReverse \cup {after}
            \/ pc[t] \in InPrint /\ PrintArray(t, last) /\ pc'[t] \in InPrint \cup {last}
<1>1. pc \in [Ts -> Ls]
  BY DEF TypeOKLoops
<1>2. CASE ChangeReg(t, after)
  BY <1>1, <1>2 DEF ChangeReg, ChangeTest, ChangeTestZ, ChangeLoad, ChangeStore, Goto, InChange
<1>3. CASE ReverseArray(t, after)
  BY <1>1, <1>3 DEF ReverseArray, ReverseLoad, ReverseLeft, ReverseLeftStore, ReverseRight,
     Goto, InReverse
<1>4. CASE PrintArray(t, last)
  BY <1>1, <1>4 DEF PrintArray, PrintRead, PrintCell, PrintNewline, Goto, InPrint
<1> QED
  BY <1>2, <1>3, <1>4

-----------------------------------------------------------------------------
(* The workers that exist.                                                 *)

\* A step of a thread that is not creating others does not change who exists.
Creating == {"semget", "create1", "create2", "create3", "check"}

LEMMA BegunKept ==
  ASSUME NEW Ts, NEW t \in Ts, NEW workers \in SUBSET Ts,
         workers \subseteq {"thread1", "thread2", "thread3"}, "main" \in Ts,
         Begun(workers), errno' = errno, OthersKept(Ts, t),
         t # "main" => pc[t] # "unborn" /\ pc'[t] # "unborn",
         t = "main" => pc[t] \notin Creating /\ pc'[t] \notin Creating
  PROVE  Begun(workers)'
<1>1. \A u \in workers : Before(u) \subseteq Creating
  BY DEF Before, Creating
<1>2. CASE t = "main"
  <2>1. \A u \in workers : pc'[u] = pc[u]
    BY <1>2 DEF OthersKept
  <2>2. ~errno
    BY <1>2 DEF Begun, Creating
  <2> QED
    BY <1>1, <1>2, <2>1, <2>2 DEF Begun
<1>3. CASE t # "main"
  <2>1. pc'["main"] = pc["main"]
    BY <1>3 DEF OthersKept
  <2>2. \A u \in workers : pc'[u] = "unborn" <=> pc[u] = "unborn"
    BY <1>3 DEF OthersKept
  <2> QED
    BY <2>1, <2>2 DEF Begun
<1> QED
  BY <1>2, <1>3

\* The main thread passes its creations in order, and check_errno() with errno 0.
LEMMA CreateBegun ==
  ASSUME NEW Ts, NEW Ls, NEW workers \in SUBSET Ts,
         workers \subseteq {"thread1", "thread2", "thread3"}, "main" \in Ts,
         TypeOKLoops(Ts, Ls), Begun(workers),
         \/ Create("create1", "thread1", "create2")
         \/ "thread3" \notin workers /\ Create("create2", "thread2", "check")
         \/ Create("create2", "thread2", "create3")
         \/ Create("create3", "thread3", "check")
  PROVE  Begun(workers)'
<1>1. pc \in [Ts -> Ls]
  BY DEF TypeOKLoops
<1>2. ASSUME NEW here, NEW made \in {"thread1", "thread2", "thread3"}, NEW next \in {"create2", "create3", "check"},
             Create(here, made, next), here # "check", here # "semget"
      PROVE  /\ pc["main"] = here /\ pc'["main"] = next
             /\ \A u \in workers : u # made => pc'[u] = pc[u]
             /\ errno' \/ (errno' = errno /\ (made \in workers => pc'[made] = "lock"))
  BY <1>1, <1>2 DEF Create, Goto
<1>3. Before("thread1") = {"semget", "create1"}
  BY DEF Before
<1>4. Before("thread2") = {"semget", "create1", "create2"}
  BY DEF Before
<1>5. Before("thread3") = {"semget", "create1", "create2", "create3"}
  BY DEF Before
<1>6. CASE Create("create1", "thread1", "create2")
  BY <1>2, <1>3, <1>4, <1>5, <1>6 DEF Begun
<1>7. CASE "thread3" \notin workers /\ Create("create2", "thread2", "check")
  BY <1>2, <1>3, <1>4, <1>5, <1>7 DEF Begun
<1>8. CASE Create("create2", "thread2", "create3")
  BY <1>2, <1>3, <1>4, <1>5, <1>8 DEF Begun
<1>9. CASE Create("create3", "thread3", "check")
  BY <1>2, <1>3, <1>4, <1>5, <1>9 DEF Begun
<1> QED
  BY <1>6, <1>7, <1>8, <1>9

LEMMA CheckBegun ==
  ASSUME NEW Ts, NEW Ls, NEW workers \in SUBSET Ts,
         workers \subseteq {"thread1", "thread2", "thread3"}, "main" \in Ts,
         TypeOKLoops(Ts, Ls), Begun(workers), NEW next, next \notin Creating,
         CheckCreated(next)
  PROVE  Begun(workers)'
<1>1. pc \in [Ts -> Ls] /\ pc["main"] = "check" /\ errno' = errno
  BY DEF TypeOKLoops, CheckCreated
<1>2. \A u \in workers : "check" \notin Before(u) /\ Before(u) \subseteq Creating
  BY DEF Before, Creating
<1>3. CASE errno
  <2>1. pc' = pc
    BY <1>3 DEF CheckCreated
  <2> QED
    BY <1>1, <2>1 DEF Begun
<1>4. CASE ~errno
  <2>1. pc' = [pc EXCEPT !["main"] = next]
    BY <1>4 DEF CheckCreated, Goto
  <2>2. pc'["main"] = next /\ \A u \in workers : pc'[u] = pc[u]
    BY <1>1, <2>1
  <2> QED
    BY <1>1, <1>2, <1>4, <2>2 DEF Begun
<1> QED
  BY <1>3, <1>4

LEMMA BegunFirst ==
  ASSUME NEW workers, \A t \in workers : pc[t] = "unborn", ~errno,
         pc["main"] \in {"semget", "create1"}
  PROVE  Begun(workers)
<1>1. \A t \in workers : pc["main"] \in Before(t)
  BY DEF Before
<1> QED
  BY <1>1 DEF Begun

LEMMA MutexOps ==
  /\ Mutex!Index = Index /\ Mutex!Char = Char /\ Mutex!Half = Half /\ Mutex!Letter = Letter
  /\ Mutex!Upper = Upper /\ Mutex!Lower = Lower /\ Mutex!InitArray = InitArray
  /\ Mutex!WholeArrays = WholeArrays /\ Mutex!NoLine = NoLine
  /\ Mutex!InChange = InChange /\ Mutex!InReverse = InReverse /\ Mutex!InPrint = InPrint
  /\ Mutex!InCount = InCount /\ Mutex!InLoops = InLoops
  /\ \A c : Mutex!FlipCase(c) = FlipCase(c) /\ Mutex!ToChar(c) = ToChar(c)
  /\ \A a, n : /\ Mutex!ChangedUpTo(a, n) = ChangedUpTo(a, n)
               /\ Mutex!ReversedUpTo(a, n) = ReversedUpTo(a, n)
               /\ Mutex!Line(a, n) = Line(a, n)
BY Zenon
   DEF Index, Mutex!Index, Char, Mutex!Char, Half, Mutex!Half, Upper, Mutex!Upper,
       Lower, Mutex!Lower, Letter, Mutex!Letter, InitArray, Mutex!InitArray, ToChar,
       Mutex!ToChar, FlipCase, Mutex!FlipCase, ChangedUpTo, Mutex!ChangedUpTo,
       ReversedUpTo, Mutex!ReversedUpTo, ChangeAll, Mutex!ChangeAll, ReverseAll,
       Mutex!ReverseAll, Line, Mutex!Line, WholeArrays, Mutex!WholeArrays, NoLine,
       Mutex!NoLine, InChange, Mutex!InChange, InReverse, Mutex!InReverse, InPrint,
       Mutex!InPrint, InCount, Mutex!InCount, InLoops, Mutex!InLoops

LEMMA MutexSteps ==
  /\ \A t, next : Mutex!ChangeReg(t, next) <=> ChangeReg(t, next)
  /\ \A t, next : Mutex!ReverseArray(t, next) <=> ReverseArray(t, next)
  /\ \A t, next : Mutex!PrintArray(t, next) <=> PrintArray(t, next)
  /\ \A here, t, next : Mutex!Create(here, t, next) <=> Create(here, t, next)
  /\ \A next : Mutex!CheckCreated(next) <=> CheckCreated(next)
  /\ \A Ts, first : Mutex!InitLoops(Ts, first) <=> InitLoops(Ts, first)
<1>1. \A t, next : Mutex!ChangeReg(t, next) <=> ChangeReg(t, next)
  BY MutexOps
     DEF ChangeReg, Mutex!ChangeReg, Goto, Mutex!Goto, ChangeTest, Mutex!ChangeTest,
         ChangeTestZ, Mutex!ChangeTestZ, ChangeLoad, Mutex!ChangeLoad, ChangeStore,
         Mutex!ChangeStore
<1>2. \A t, next : Mutex!ReverseArray(t, next) <=> ReverseArray(t, next)
  BY MutexOps
     DEF ReverseArray, Mutex!ReverseArray, Goto, Mutex!Goto, ReverseLoad,
         Mutex!ReverseLoad, ReverseLeft, Mutex!ReverseLeft, ReverseLeftStore,
         Mutex!ReverseLeftStore, ReverseRight, Mutex!ReverseRight
<1>3. \A t, next : Mutex!PrintArray(t, next) <=> PrintArray(t, next)
  BY DEF PrintArray, Mutex!PrintArray, Goto, Mutex!Goto, PrintRead, Mutex!PrintRead,
         PrintCell, Mutex!PrintCell, PrintNewline, Mutex!PrintNewline
<1>4. \A here, t, next : Mutex!Create(here, t, next) <=> Create(here, t, next)
  BY DEF Create, Mutex!Create, Goto, Mutex!Goto
<1>5. \A next : Mutex!CheckCreated(next) <=> CheckCreated(next)
  BY DEF CheckCreated, Mutex!CheckCreated, Goto, Mutex!Goto
<1>6. \A Ts, first : Mutex!InitLoops(Ts, first) <=> InitLoops(Ts, first)
  BY MutexOps DEF InitLoops, Mutex!InitLoops
<1> QED
  BY <1>1, <1>2, <1>3, <1>4, <1>5, <1>6

LEMMA MutexStates ==
  /\ \A Ts, Ls : /\ Mutex!TypeOKLoops(Ts, Ls) <=> TypeOKLoops(Ts, Ls)
                 /\ Mutex!TypeOKLoops(Ts, Ls)' <=> TypeOKLoops(Ts, Ls)'
  /\ \A p : (Mutex!LineFollows(p) <=> LineFollows(p)) /\ (Mutex!LineFollows(p)' <=> LineFollows(p)')
  /\ \A w : (Mutex!Begun(w) <=> Begun(w)) /\ (Mutex!Begun(w)' <=> Begun(w)')
  /\ (Mutex!LoopsBounded <=> LoopsBounded) /\ (Mutex!LoopsBounded' <=> LoopsBounded')
  /\ (Mutex!LoopsSound <=> LoopsSound) /\ (Mutex!LoopsSound' <=> LoopsSound')
  /\ (Mutex!PrintedWhole <=> PrintedWhole) /\ (Mutex!PrintedWhole' <=> PrintedWhole')
<1>1. \A Ts, Ls : /\ Mutex!TypeOKLoops(Ts, Ls) <=> TypeOKLoops(Ts, Ls)
                  /\ Mutex!TypeOKLoops(Ts, Ls)' <=> TypeOKLoops(Ts, Ls)'
  BY MutexOps DEF TypeOKLoops, Mutex!TypeOKLoops
<1>2. \A p : (Mutex!LineFollows(p) <=> LineFollows(p)) /\ (Mutex!LineFollows(p)' <=> LineFollows(p)')
  BY MutexOps DEF LineFollows, Mutex!LineFollows
<1>3. \A w : (Mutex!Begun(w) <=> Begun(w)) /\ (Mutex!Begun(w)' <=> Begun(w)')
  BY DEF Begun, Mutex!Begun, Before, Mutex!Before
<1>4. (Mutex!LoopsBounded <=> LoopsBounded) /\ (Mutex!LoopsBounded' <=> LoopsBounded')
  BY MutexOps DEF LoopsBounded, Mutex!LoopsBounded
<1>5. Mutex!Undone = Undone /\ Mutex!Undone' = Undone'
  BY MutexOps DEF Undone, Mutex!Undone
<1>6. (Mutex!LoopsSound <=> LoopsSound) /\ (Mutex!LoopsSound' <=> LoopsSound')
  BY <1>5, MutexOps
     DEF LoopsSound, Mutex!LoopsSound, LoopsKnow, Mutex!LoopsKnow, ChangeKnows,
         Mutex!ChangeKnows, ReverseKnows, Mutex!ReverseKnows
<1>7. (Mutex!PrintedWhole <=> PrintedWhole) /\ (Mutex!PrintedWhole' <=> PrintedWhole')
  BY MutexOps DEF PrintedWhole, Mutex!PrintedWhole
<1> QED
  BY <1>1, <1>2, <1>3, <1>4, <1>6, <1>7

\* What an operation on the array is from outside: nothing until its loop ends,
\* or until the newline of a print.
ObjectStep ==
  \/ Undone' = Undone /\ printed' = printed
  \/ Undone' = ChangeAll(Undone) /\ printed' = printed
  \/ Undone' = ReverseAll(Undone) /\ printed' = printed
  \/ Undone' = Undone /\ printed' = [by |-> "main", cells |-> Line(Undone, SIZE)]

\* The threads of subtasks 2 and 3.
Workers3 == {"thread1", "thread2"}
Threads3 == {"thread1", "thread2", "main"}

\* The invariant of MutexTask in the terms of ArrayLoops.
MutexInv ==
  /\ TypeOKLoops(Threads3, Mutex!Labels) /\ mutex \in Threads3 \cup {"free"}
  /\ Mutex!OwnCode /\ Mutex!Holding /\ Begun(Workers3)
  /\ LoopsBounded /\ LoopsSound /\ LineFollows({"main"})

LEMMA MutexParts == (Mutex!IInv <=> MutexInv) /\ (Mutex!IInv' <=> MutexInv')
<1>1. Mutex!Threads = Threads3 /\ Mutex!Workers = Workers3
  BY DEF Mutex!Threads, Mutex!Workers, Threads3, Workers3
<1>2. Mutex!IInv <=> MutexInv
  BY <1>1, MutexStates DEF Mutex!IInv, Mutex!TypeOK, MutexInv
<1>3. Mutex!IInv' <=> MutexInv'
  BY <1>1, MutexStates DEF Mutex!IInv, Mutex!TypeOK, MutexInv
<1> QED
  BY <1>2, <1>3

\* Who is where and who holds the mutex.
MutexWho(t) ==
  mutex = t <=> pc[t] \in InChange \cup InReverse \cup InPrint \cup {"unlock"}

LEMMA MutexFacts ==
  ASSUME MutexInv
  PROVE  /\ pc \in [Threads3 -> Mutex!Labels] /\ Apart
         /\ pc["thread1"] \in InChange \cup {"unborn", "lock", "unlock"}
         /\ pc["thread2"] \in InReverse \cup {"unborn", "lock", "unlock"}
         /\ pc["main"] \in InPrint \cup {"create1", "create2", "check", "lock", "unlock"}
         /\ \A t \in Threads3 : MutexWho(t)
         /\ Workers3 \in SUBSET Threads3 /\ {"main"} \in SUBSET Threads3
<1>1. pc \in [Threads3 -> Mutex!Labels]
  BY DEF MutexInv, TypeOKLoops
<1>2. /\ pc["thread1"] \in InChange \cup {"unborn", "lock", "unlock"}
      /\ pc["thread2"] \in InReverse \cup {"unborn", "lock", "unlock"}
      /\ pc["main"] \in InPrint \cup {"create1", "create2", "check", "lock", "unlock"}
  BY MutexOps DEF MutexInv, Mutex!OwnCode
<1>3. \A t \in Threads3 : MutexWho(t)
  BY MutexOps DEF MutexInv, Mutex!Holding, Mutex!Threads, Mutex!Workers, Threads3, MutexWho
<1>4. Apart
  BY <1>3 DEF Apart, MutexWho, Threads3
<1> QED
  BY <1>1, <1>2, <1>3, <1>4 DEF Workers3, Threads3

\* The other way round, after a step.
LEMMA MutexHolds ==
  ASSUME \A t \in Threads3 : MutexWho(t)'
  PROVE  Mutex!Holding' /\ Apart'
<1>1. Mutex!Holding'
  BY MutexOps DEF Mutex!Holding, Mutex!Threads, Mutex!Workers, Threads3, MutexWho
<1>2. Apart'
  BY DEF Apart, MutexWho, Threads3
<1> QED
  BY <1>1, <1>2

LEMMA MutexLocking ==
  ASSUME MutexInv, NEW t \in Threads3, Mutex!Lock(t) \/ Mutex!Unlock(t)
  PROVE  MutexInv' /\ ObjectStep
<1> DEFINE l == IF Mutex!Lock(t) THEN Mutex!Operation(t) ELSE "lock"
<1>1. /\ pc' = [pc EXCEPT ![t] = l]
      /\ UNCHANGED <<array, i, tmp, reg, line, printed, errno, running>>
      /\ pc[t] \in {"lock", "unlock"} /\ t \in {"thread1", "thread2", "main"}
  BY DEF Mutex!Lock, Mutex!Unlock, Mutex!Goto, Threads3
<1>2. /\ l \in {"lock", "change", "reverse", "print"} /\ l \in Mutex!Labels
      /\ l = "change" => t = "thread1"
      /\ l = "reverse" => t = "thread2"
      /\ l = "print" => t = "main"
  BY <1>1, MutexOps, LoopLabels DEF Mutex!Operation, Mutex!Labels
<1>3. /\ pc'[t] = l /\ (\A u \in Threads3 : u # t => pc'[u] = pc[u])
      /\ pc' \in [Threads3 -> Mutex!Labels]
  BY <1>1, <1>2, MutexFacts
<1>4. Quiet(Threads3, Mutex!Labels)
  BY <1>1, <1>2, <1>3, LoopLabels DEF Quiet, MidLoop, MutexInv, TypeOKLoops
<1>5. Mutex!OwnCode'
  BY <1>1, <1>2, <1>3, MutexFacts, MutexOps, LoopLabels DEF Mutex!OwnCode, Threads3
<1>6. (\A u \in Threads3 : MutexWho(u)') /\ mutex' \in Threads3 \cup {"free"}
  <2>1. CASE Mutex!Lock(t)
    <3>1. mutex = "free" /\ mutex' = t /\ pc[t] = "lock" /\ l \in {"change", "reverse", "print"}
      BY <1>1, <2>1 DEF Mutex!Lock, Mutex!Operation
    <3>2. MutexWho(t)'
      BY <1>3, <3>1, LoopLabels DEF MutexWho
    <3>3. \A u \in Threads3 : u # t => MutexWho(u)'
      BY <1>3, <3>1, MutexFacts DEF MutexWho, Threads3
    <3> QED
      BY <3>1, <3>2, <3>3
  <2>2. CASE Mutex!Unlock(t) /\ ~Mutex!Lock(t)
    <3>1. mutex' = "free" /\ l = "lock" /\ pc[t] = "unlock"
      BY <2>2 DEF Mutex!Unlock
    <3>2. mutex = t
      BY <3>1, MutexFacts DEF MutexWho
    <3>3. MutexWho(t)'
      BY <1>1, <1>3, <3>1, LoopLabels DEF MutexWho
    <3>4. \A u \in Threads3 : u # t => MutexWho(u)'
      BY <1>3, <3>1, <3>2, MutexFacts DEF MutexWho, Threads3
    <3> QED
      BY <3>1, <3>3, <3>4
  <2> QED
    BY <1>1, <2>1, <2>2
<1>7. Mutex!Holding' /\ Apart'
  BY <1>6, MutexHolds
<1>8. LoopsSound' /\ Undone' = Undone
  BY <1>4, <1>7, MutexFacts, QuietKeeps DEF MutexInv, Threads3
<1>9. Begun(Workers3)'
  <2>1. OthersKept(Threads3, t)
    BY <1>1, <1>3 DEF OthersKept
  <2>2. (t = "main" => pc[t] \notin Creating /\ pc'[t] \notin Creating)
        /\ pc[t] # "unborn" /\ pc'[t] # "unborn"
    BY <1>1, <1>2, <1>3 DEF Creating
  <2> QED
    BY <1>1, <2>1, <2>2, BegunKept, MutexFacts DEF MutexInv, Workers3, Threads3
<1>10. LineFollows({"main"})'
  <2>1. pc'["main"] = "print" /\ pc["main"] # "print" => pc["main"] \notin InPrint
    BY <1>1, <1>3, LoopLabels DEF Threads3
  <2> QED
    BY <1>4, <2>1, QuietLine, MutexFacts DEF MutexInv
<1>11. TypeOKLoops(Threads3, Mutex!Labels)' /\ LoopsBounded'
  BY <1>4, QuietTyped DEF MutexInv
<1> QED
  BY <1>1, <1>5, <1>6, <1>7, <1>8, <1>9, <1>10, <1>11 DEF MutexInv, ObjectStep

LEMMA MutexWorking ==
  ASSUME MutexInv, NEW t \in Threads3, Mutex!Work(t)
  PROVE  MutexInv' /\ ObjectStep
<1>1. ChangeReg(t, "unlock") \/ ReverseArray(t, "unlock") \/ PrintArray(t, "unlock")
  BY MutexSteps DEF Mutex!Work
<1>2. /\ InChange \subseteq Mutex!Labels /\ InReverse \subseteq Mutex!Labels
      /\ InPrint \subseteq Mutex!Labels /\ "unlock" \in Mutex!Labels
      /\ "unlock" \notin MidLoop \cup {"change", "reverse"}
      /\ "unlock" \notin InChange /\ "unlock" \notin InReverse /\ "unlock" \notin InPrint
      /\ mutex' = mutex /\ t \in {"thread1", "thread2", "main"}
  BY MutexOps, LoopLabels DEF Mutex!Work, Mutex!Labels, MidLoop, Threads3
<1>3. TypeOKLoops(Threads3, Mutex!Labels)' /\ LoopsBounded' /\ OthersKept(Threads3, t)
  BY <1>1, <1>2, ChangeTyped, ReverseTyped, PrintTyped DEF MutexInv
<1>4. /\ errno' = errno
      /\ \/ pc[t] \in InChange /\ ChangeReg(t, "unlock") /\ pc'[t] \in InChange \cup {"unlock"}
         \/ pc[t] \in InReverse /\ ReverseArray(t, "unlock") /\ pc'[t] \in InReverse \cup {"unlock"}
         \/ pc[t] \in InPrint /\ PrintArray(t, "unlock") /\ pc'[t] \in InPrint \cup {"unlock"}
  BY <1>1, LoopMoves DEF MutexInv
<1>5. /\ pc[t] \in InChange => t = "thread1"
      /\ pc[t] \in InReverse => t = "thread2"
      /\ pc[t] \in InPrint => t = "main"
  BY <1>2, MutexFacts, LoopLabels
<1>6. \A u \in Threads3 : u # t =>
        /\ pc[u] \notin InChange \cup InReverse \cup InPrint
        /\ pc'[u] = pc[u]
  <2>1. mutex = t
    BY <1>4, MutexFacts DEF MutexWho
  <2> QED
    BY <1>3, <2>1, MutexFacts DEF MutexWho, OthersKept
<1>7. Mutex!OwnCode' /\ Mutex!Holding' /\ Apart'
  <2>1. \A u \in Threads3 : MutexWho(u)'
    BY <1>2, <1>4, <1>6, MutexFacts DEF MutexWho
  <2>2. Mutex!OwnCode'
    BY <1>2, <1>4, <1>5, <1>6, MutexFacts, MutexOps, LoopLabels DEF Mutex!OwnCode, Threads3
  <2> QED
    BY <2>1, <2>2, MutexHolds
<1>8. Begun(Workers3)'
  <2>1. (t = "main" => pc[t] \notin Creating /\ pc'[t] \notin Creating)
        /\ pc[t] # "unborn" /\ pc'[t] # "unborn"
    BY <1>4, LoopLabels DEF Creating
  <2> QED
    BY <1>3, <1>4, <2>1, BegunKept, MutexFacts DEF MutexInv, Workers3, Threads3
<1>9. LoopsSound' /\ LineFollows({"main"})' /\ ObjectStep
  <2>1. CASE pc[t] \in InChange
    <3>1. t = "thread1" /\ pc["thread2"] \notin InReverse /\ ChangeReg("thread1", "unlock")
      BY <1>4, <1>5, <1>6, <2>1, LoopLabels DEF Threads3
    <3>2. /\ LoopsSound' /\ UNCHANGED <<line, printed>>
          /\ Undone' = Undone \/ Undone' = ChangeAll(Undone)
      BY <1>2, <1>3, <3>1, ChangeSound DEF MutexInv, Threads3
    <3>3. pc["main"] \notin InPrint /\ pc'["main"] \notin InPrint
      BY <1>6, <3>1 DEF Threads3
    <3>4. LineFollows({"main"})'
      BY <3>2, <3>3, LineKept DEF MutexInv
    <3> QED
      BY <3>2, <3>4 DEF ObjectStep
  <2>2. CASE pc[t] \in InReverse
    <3>1. t = "thread2" /\ pc["thread1"] \notin InChange /\ ReverseArray("thread2", "unlock")
      BY <1>4, <1>5, <1>6, <2>2, LoopLabels DEF Threads3
    <3>2. /\ LoopsSound' /\ UNCHANGED <<line, printed>>
          /\ Undone' = Undone \/ Undone' = ReverseAll(Undone)
      BY <1>2, <1>3, <3>1, ReverseSound DEF MutexInv, Threads3
    <3>3. pc["main"] \notin InPrint /\ pc'["main"] \notin InPrint
      BY <1>6, <3>1 DEF Threads3
    <3>4. LineFollows({"main"})'
      BY <3>2, <3>3, LineKept DEF MutexInv
    <3> QED
      BY <3>2, <3>4 DEF ObjectStep
  <2>3. CASE pc[t] \in InPrint
    <3>1. t = "main" /\ PrintArray("main", "unlock")
      BY <1>4, <1>5, <2>3, LoopLabels
    <3>2. /\ LineFollows({"main"})' /\ array' = array
          /\ \/ printed' = printed
             \/ printed' = [by |-> "main", cells |-> Line(array, SIZE)]
      BY <1>2, <1>3, <3>1, PrintFollows, MutexFacts DEF MutexInv
    <3>3. /\ pc["thread1"] \notin InChange /\ pc["thread2"] \notin InReverse
          /\ pc'["thread1"] \notin InChange /\ pc'["thread2"] \notin InReverse
      BY <1>6, <3>1 DEF Threads3
    <3>4. Undone = array /\ Rests("thread1", InChange) /\ Rests("thread2", InReverse)
      BY <3>3, UndoneAway DEF Rests
    <3>5. LoopsSound' /\ Undone' = Undone
      BY <1>7, <3>2, <3>4, QuietSound, MutexFacts DEF MutexInv
    <3> QED
      BY <3>2, <3>4, <3>5 DEF ObjectStep
  <2> QED
    BY <1>4, <2>1, <2>2, <2>3
<1> QED
  BY <1>2, <1>3, <1>7, <1>8, <1>9 DEF MutexInv

LEMMA MutexCreating ==
  ASSUME MutexInv, Mutex!ThirdTask
  PROVE  MutexInv' /\ ObjectStep
<1>1. /\ \/ Create("create1", "thread1", "create2")
         \/ Create("create2", "thread2", "check")
         \/ CheckCreated("lock")
      /\ mutex' = mutex
  BY MutexSteps DEF Mutex!ThirdTask
<1>2. /\ pc \in [Threads3 -> Mutex!Labels] /\ {"create2", "check", "lock"} \subseteq Mutex!Labels
      /\ pc["main"] = "create1" => pc["thread1"] = "unborn"
      /\ pc["main"] \in {"create1", "create2"} => pc["thread2"] = "unborn"
  BY MutexFacts DEF MutexInv, Begun, Before, Workers3, Mutex!Labels
<1>3. /\ UNCHANGED <<array, i, tmp, reg, line, printed>>
      /\ errno' \in BOOLEAN /\ running' \in BOOLEAN
      /\ pc["main"] \in {"create1", "create2", "check"}
      /\ pc'["main"] \in {"create2", "check", "lock"}
      /\ \A u \in Workers3 : pc'[u] = pc[u] \/ (pc[u] = "unborn" /\ pc'[u] = "lock")
      /\ pc' \in [Threads3 -> Mutex!Labels]
  <2>1. CASE Create("create1", "thread1", "create2")
    BY <1>2, <2>1, CreateMoves DEF Workers3, Threads3, MutexInv
  <2>2. CASE Create("create2", "thread2", "check")
    BY <1>2, <2>2, CreateMoves DEF Workers3, Threads3, MutexInv
  <2>3. CASE CheckCreated("lock")
    BY <1>2, <2>3, CheckMoves DEF Workers3, Threads3, MutexInv
  <2> QED
    BY <1>1, <2>1, <2>2, <2>3
<1>4. Quiet(Threads3, Mutex!Labels)
  BY <1>3, LoopLabels DEF Quiet, MidLoop, Threads3, Workers3
<1>5. Mutex!OwnCode' /\ Mutex!Holding' /\ Apart'
  <2>1. \A u \in Threads3 : MutexWho(u)'
    BY <1>1, <1>3, MutexFacts, LoopLabels DEF MutexWho, Threads3, Workers3
  <2>2. Mutex!OwnCode'
    BY <1>3, MutexFacts, MutexOps DEF Mutex!OwnCode, Workers3
  <2> QED
    BY <2>1, <2>2, MutexHolds
<1>7. LoopsSound' /\ Undone' = Undone
  BY <1>4, <1>5, MutexFacts, QuietKeeps DEF MutexInv, Threads3
<1>8. Begun(Workers3)'
  BY <1>1, CreateBegun, CheckBegun, MutexFacts DEF MutexInv, Workers3, Threads3, Creating
<1>9. LineFollows({"main"})' /\ TypeOKLoops(Threads3, Mutex!Labels)' /\ LoopsBounded'
  <2>1. pc'["main"] # "print"
    BY <1>3
  <2> QED
    BY <1>4, <2>1, QuietLine, QuietTyped, MutexFacts DEF MutexInv
<1> QED
  BY <1>1, <1>3, <1>5, <1>7, <1>8, <1>9 DEF MutexInv, ObjectStep

LEMMA MutexStep ==
  ASSUME Mutex!IInv, Mutex!ThirdTask \/ \E t \in Threads3 : Mutex!Thread(t)
  PROVE  Mutex!IInv' /\ ObjectStep
<1>1. MutexInv
  BY MutexParts
<1>2. MutexInv' /\ ObjectStep
  BY <1>1, MutexCreating, MutexLocking, MutexWorking DEF Mutex!Thread
<1> QED
  BY <1>2, MutexParts

LEMMA RwOps ==
  /\ Rw!Index = Index /\ Rw!Char = Char /\ Rw!Half = Half /\ Rw!Letter = Letter
  /\ Rw!Upper = Upper /\ Rw!Lower = Lower /\ Rw!InitArray = InitArray
  /\ Rw!WholeArrays = WholeArrays /\ Rw!NoLine = NoLine
  /\ Rw!InChange = InChange /\ Rw!InReverse = InReverse /\ Rw!InPrint = InPrint
  /\ Rw!InCount = InCount /\ Rw!InLoops = InLoops
  /\ \A c : Rw!FlipCase(c) = FlipCase(c) /\ Rw!ToChar(c) = ToChar(c)
  /\ \A a, n : /\ Rw!ChangedUpTo(a, n) = ChangedUpTo(a, n)
               /\ Rw!ReversedUpTo(a, n) = ReversedUpTo(a, n)
               /\ Rw!Line(a, n) = Line(a, n)
BY Zenon
   DEF Index, Rw!Index, Char, Rw!Char, Half, Rw!Half, Upper, Rw!Upper, Lower,
       Rw!Lower, Letter, Rw!Letter, InitArray, Rw!InitArray, ToChar, Rw!ToChar,
       FlipCase, Rw!FlipCase, ChangedUpTo, Rw!ChangedUpTo, ReversedUpTo,
       Rw!ReversedUpTo, ChangeAll, Rw!ChangeAll, ReverseAll, Rw!ReverseAll, Line,
       Rw!Line, WholeArrays, Rw!WholeArrays, NoLine, Rw!NoLine, InChange, Rw!InChange,
       InReverse, Rw!InReverse, InPrint, Rw!InPrint, InCount, Rw!InCount, InLoops,
       Rw!InLoops

LEMMA RwSteps ==
  /\ \A t, next : Rw!ChangeReg(t, next) <=> ChangeReg(t, next)
  /\ \A t, next : Rw!ReverseArray(t, next) <=> ReverseArray(t, next)
  /\ \A t, next : Rw!PrintArray(t, next) <=> PrintArray(t, next)
  /\ \A here, t, next : Rw!Create(here, t, next) <=> Create(here, t, next)
  /\ \A next : Rw!CheckCreated(next) <=> CheckCreated(next)
  /\ \A Ts, first : Rw!InitLoops(Ts, first) <=> InitLoops(Ts, first)
<1>1. \A t, next : Rw!ChangeReg(t, next) <=> ChangeReg(t, next)
  BY RwOps
     DEF ChangeReg, Rw!ChangeReg, Goto, Rw!Goto, ChangeTest, Rw!ChangeTest,
         ChangeTestZ, Rw!ChangeTestZ, ChangeLoad, Rw!ChangeLoad, ChangeStore,
         Rw!ChangeStore
<1>2. \A t, next : Rw!ReverseArray(t, next) <=> ReverseArray(t, next)
  BY RwOps
     DEF ReverseArray, Rw!ReverseArray, Goto, Rw!Goto, ReverseLoad, Rw!ReverseLoad,
         ReverseLeft, Rw!ReverseLeft, ReverseLeftStore, Rw!ReverseLeftStore,
         ReverseRight, Rw!ReverseRight
<1>3. \A t, next : Rw!PrintArray(t, next) <=> PrintArray(t, next)
  BY DEF PrintArray, Rw!PrintArray, Goto, Rw!Goto, PrintRead, Rw!PrintRead, PrintCell,
         Rw!PrintCell, PrintNewline, Rw!PrintNewline
<1>4. \A here, t, next : Rw!Create(here, t, next) <=> Create(here, t, next)
  BY DEF Create, Rw!Create, Goto, Rw!Goto
<1>5. \A next : Rw!CheckCreated(next) <=> CheckCreated(next)
  BY DEF CheckCreated, Rw!CheckCreated, Goto, Rw!Goto
<1>6. \A Ts, first : Rw!InitLoops(Ts, first) <=> InitLoops(Ts, first)
  BY RwOps DEF InitLoops, Rw!InitLoops
<1> QED
  BY <1>1, <1>2, <1>3, <1>4, <1>5, <1>6

LEMMA RwStates ==
  /\ \A Ts, Ls : /\ Rw!TypeOKLoops(Ts, Ls) <=> TypeOKLoops(Ts, Ls)
                 /\ Rw!TypeOKLoops(Ts, Ls)' <=> TypeOKLoops(Ts, Ls)'
  /\ \A p : (Rw!LineFollows(p) <=> LineFollows(p)) /\ (Rw!LineFollows(p)' <=> LineFollows(p)')
  /\ \A w : (Rw!Begun(w) <=> Begun(w)) /\ (Rw!Begun(w)' <=> Begun(w)')
  /\ (Rw!LoopsBounded <=> LoopsBounded) /\ (Rw!LoopsBounded' <=> LoopsBounded')
  /\ (Rw!LoopsSound <=> LoopsSound) /\ (Rw!LoopsSound' <=> LoopsSound')
  /\ (Rw!PrintedWhole <=> PrintedWhole) /\ (Rw!PrintedWhole' <=> PrintedWhole')
<1>1. \A Ts, Ls : /\ Rw!TypeOKLoops(Ts, Ls) <=> TypeOKLoops(Ts, Ls)
                  /\ Rw!TypeOKLoops(Ts, Ls)' <=> TypeOKLoops(Ts, Ls)'
  BY RwOps DEF TypeOKLoops, Rw!TypeOKLoops
<1>2. \A p : (Rw!LineFollows(p) <=> LineFollows(p)) /\ (Rw!LineFollows(p)' <=> LineFollows(p)')
  BY RwOps DEF LineFollows, Rw!LineFollows
<1>3. \A w : (Rw!Begun(w) <=> Begun(w)) /\ (Rw!Begun(w)' <=> Begun(w)')
  BY DEF Begun, Rw!Begun, Before, Rw!Before
<1>4. (Rw!LoopsBounded <=> LoopsBounded) /\ (Rw!LoopsBounded' <=> LoopsBounded')
  BY RwOps DEF LoopsBounded, Rw!LoopsBounded
<1>5. Rw!Undone = Undone /\ Rw!Undone' = Undone'
  BY RwOps DEF Undone, Rw!Undone
<1>6. (Rw!LoopsSound <=> LoopsSound) /\ (Rw!LoopsSound' <=> LoopsSound')
  BY <1>5, RwOps
     DEF LoopsSound, Rw!LoopsSound, LoopsKnow, Rw!LoopsKnow, ChangeKnows,
         Rw!ChangeKnows, ReverseKnows, Rw!ReverseKnows
<1>7. (Rw!PrintedWhole <=> PrintedWhole) /\ (Rw!PrintedWhole' <=> PrintedWhole')
  BY RwOps DEF PrintedWhole, Rw!PrintedWhole
<1> QED
  BY <1>1, <1>2, <1>3, <1>4, <1>6, <1>7

Threads4 == {"thread1", "thread2", "thread3", "main"}
Workers4 == {"thread1", "thread2", "thread3"}

\* The invariant of RwlockTask in the terms of ArrayLoops.
RwInv ==
  /\ TypeOKLoops(Threads4, Rw!Labels)
  /\ writer \in {"thread1", "thread2", "none"} /\ readers \subseteq {"thread3", "main"}
  /\ count \in 0 .. SIZE /\ counted \in -1 .. SIZE
  /\ Rw!OwnCode /\ Rw!Holding /\ Begun(Workers4)
  /\ LoopsBounded /\ LoopsSound /\ LineFollows({"main"}) /\ Rw!Counting

LEMMA RwParts == (Rw!IInv <=> RwInv) /\ (Rw!IInv' <=> RwInv')
<1>1. /\ Rw!Threads = Threads4 /\ Rw!Threads \ {"main"} = Workers4
      /\ Rw!Writers \cup {"none"} = {"thread1", "thread2", "none"}
      /\ Rw!Readers = {"thread3", "main"}
  BY DEF Rw!Threads, Rw!Writers, Rw!Readers, Threads4, Workers4
<1>2. Rw!IInv <=> RwInv
  BY <1>1, RwStates DEF Rw!IInv, Rw!TypeOK, RwInv
<1>3. Rw!IInv' <=> RwInv'
  BY <1>1, RwStates DEF Rw!IInv, Rw!TypeOK, RwInv
<1> QED
  BY <1>2, <1>3

\* Who holds the lock, and for what.
RwWrites(t) == writer = t <=> pc[t] \in InChange \cup InReverse \cup {"unlock"}
RwReads(t) == t \in readers <=> pc[t] \in InPrint \cup InCount \cup {"unlock"}
RwHeld ==
  /\ RwWrites("thread1") /\ RwWrites("thread2") /\ RwReads("thread3") /\ RwReads("main")
  /\ writer # "none" => readers = {}

\* Where each thread of subtask 4 may be.
RwOwn ==
  /\ pc["thread1"] \in InChange \cup {"unborn", "lock", "unlock"}
  /\ pc["thread2"] \in InReverse \cup {"unborn", "lock", "unlock"}
  /\ pc["thread3"] \in InCount \cup {"unborn", "lock", "unlock"}
  /\ pc["main"] \in InPrint \cup {"create1", "create2", "create3", "check", "lock", "unlock"}

LEMMA RwHolds ==
  /\ (Rw!Holding <=> RwHeld) /\ (Rw!Holding' <=> RwHeld')
  /\ (Rw!OwnCode <=> RwOwn) /\ (Rw!OwnCode' <=> RwOwn')
<1>1. (Rw!Holding <=> RwHeld) /\ (Rw!Holding' <=> RwHeld')
  BY RwOps DEF Rw!Holding, Rw!Writers, Rw!Readers, RwHeld, RwWrites, RwReads
<1>2. (Rw!OwnCode <=> RwOwn) /\ (Rw!OwnCode' <=> RwOwn')
  BY RwOps DEF Rw!OwnCode, RwOwn
<1> QED
  BY <1>1, <1>2

LEMMA RwApart == (RwHeld => Apart) /\ (RwHeld' => Apart')
BY DEF RwHeld, RwWrites, Apart

\* Two writers are never inside together, nor a writer and a reader.
LEMMA RwFacts ==
  ASSUME RwInv
  PROVE  /\ pc \in [Threads4 -> Rw!Labels] /\ Apart /\ RwHeld /\ RwOwn
         /\ Workers4 \in SUBSET Threads4 /\ {"main"} \in SUBSET Threads4
         /\ \A t \in {"thread1", "thread2"} : pc[t] \in InLoops =>
              \A u \in Threads4 : u # t => pc[u] \notin InLoops
         /\ (\E t \in {"thread3", "main"} : pc[t] \in InLoops) => array \in WholeArrays
<1>1. pc \in [Threads4 -> Rw!Labels]
  BY DEF RwInv, TypeOKLoops
<1>2. RwHeld /\ RwOwn
  BY RwHolds DEF RwInv
<1>3. Apart
  BY <1>2, RwApart
<1>4. ASSUME NEW t \in {"thread1", "thread2"}, pc[t] \in InLoops
      PROVE  \A u \in Threads4 : u # t => pc[u] \notin InLoops
  <2>1. writer = t
    BY <1>2, <1>4, LoopLabels DEF RwHeld, RwOwn, RwWrites
  <2>2. readers = {}
    BY <1>4, <2>1, <1>2 DEF RwHeld
  <2>3. ASSUME NEW u \in {"thread1", "thread2"}, u # t
        PROVE  pc[u] \notin InLoops
    BY <1>2, <1>4, <2>1, <2>3, LoopLabels DEF RwHeld, RwOwn, RwWrites
  <2>4. pc["thread3"] \notin InLoops /\ pc["main"] \notin InLoops
    BY <1>2, <2>2, LoopLabels DEF RwHeld, RwOwn, RwReads
  <2> QED
    BY <2>3, <2>4 DEF Threads4
<1>5. ASSUME NEW t \in {"thread3", "main"}, pc[t] \in InLoops
      PROVE  array \in WholeArrays
  <2>1. pc["thread1"] \notin InLoops /\ pc["thread2"] \notin InLoops
    BY <1>4, <1>5 DEF Threads4
  <2>2. Undone = array
    BY <2>1, UndoneAway, LoopLabels
  <2> QED
    BY <2>2 DEF RwInv, LoopsSound
<1> QED
  BY <1>1, <1>2, <1>3, <1>4, <1>5 DEF Workers4, Threads4

\* The letters of a whole array have one case.
LEMMA WholeOneCase ==
  ASSUME NEW a \in WholeArrays, NEW k \in Index
  PROVE  /\ a[k] \in Int /\ a[k] >= 65
         /\ a[k] <= 90 <=> a[0] \in Upper
<1>1. 0 \in Index /\ SIZE - 1 - k \in Index /\ SIZE - 1 \in Index
  BY SizeAssumption DEF Index
<1>2. \A j \in Index : InitArray[j] \in 97 .. 122
  BY SizeAssumption DEF InitArray, ToChar, Index
<1>3. \A j \in Index : ChangeAll(InitArray)[j] \in 65 .. 90
  <2>1. \A j \in Index : ChangeAll(InitArray)[j] = FlipCase(InitArray[j])
    BY DEF ChangeAll
  <2>2. \A c \in 97 .. 122 : FlipCase(c) \in 65 .. 90
    BY DEF FlipCase, Upper
  <2> QED
    BY <1>2, <2>1, <2>2
<1>4. \A b : ReverseAll(b)[k] = b[SIZE - 1 - k] /\ ReverseAll(b)[0] = b[SIZE - 1 - 0]
  BY <1>1 DEF ReverseAll
<1>5. SIZE - 1 - 0 = SIZE - 1
  BY SizeAssumption
<1>6. \/ a[k] \in 97 .. 122 /\ a[0] \in 97 .. 122
      \/ a[k] \in 65 .. 90 /\ a[0] \in 65 .. 90
  <2>1. CASE a = InitArray
    BY <1>1, <1>2, <2>1
  <2>2. CASE a = ChangeAll(InitArray)
    BY <1>1, <1>3, <2>2
  <2>3. CASE a = ReverseAll(InitArray)
    BY <1>1, <1>2, <1>4, <1>5, <2>3
  <2>4. CASE a = ReverseAll(ChangeAll(InitArray))
    BY <1>1, <1>3, <1>4, <1>5, <2>4
  <2> QED
    BY <2>1, <2>2, <2>3, <2>4 DEF WholeArrays
<1> QED
  BY <1>6 DEF Upper

LEMMA RwLocking ==
  ASSUME RwInv, NEW t \in Threads4,
         \/ t \in {"thread1", "thread2"} /\ Rw!Wrlock(t)
         \/ t \in {"thread3", "main"} /\ Rw!Rdlock(t)
         \/ Rw!Unlock(t)
  PROVE  RwInv' /\ ObjectStep
<1> DEFINE l == IF Rw!Unlock(t) THEN "lock" ELSE Rw!Operation(t)
<1>1. /\ pc' = [pc EXCEPT ![t] = l]
      /\ UNCHANGED <<array, i, tmp, reg, line, printed, errno, running, count, counted>>
      /\ pc[t] = IF Rw!Unlock(t) THEN "unlock" ELSE "lock"
      /\ t \in {"thread1", "thread2", "thread3", "main"}
  BY DEF Rw!Wrlock, Rw!Rdlock, Rw!Unlock, Rw!Goto, Threads4
<1>2. /\ l \in {"lock", "change", "reverse", "print", "count"} /\ l \in Rw!Labels
      /\ l = "change" => t = "thread1"
      /\ l = "reverse" => t = "thread2"
      /\ l = "count" => t = "thread3"
      /\ l = "print" => t = "main"
  BY <1>1, RwOps, LoopLabels DEF Rw!Operation, Rw!Labels
<1>3. /\ pc'[t] = l /\ (\A u \in Threads4 : u # t => pc'[u] = pc[u])
      /\ pc' \in [Threads4 -> Rw!Labels]
  BY <1>1, <1>2, RwFacts
<1>4. Quiet(Threads4, Rw!Labels)
  BY <1>1, <1>2, <1>3, LoopLabels DEF Quiet, MidLoop, RwInv, TypeOKLoops
<1>5. RwOwn'
  BY <1>1, <1>2, <1>3, RwFacts, LoopLabels DEF RwOwn, Threads4
<1>6. /\ RwHeld' /\ writer' \in {"thread1", "thread2", "none"}
      /\ readers' \subseteq {"thread3", "main"}
  <2>1. CASE t \in {"thread1", "thread2"} /\ Rw!Wrlock(t) /\ ~Rw!Unlock(t)
    <3>1. /\ writer = "none" /\ writer' = t /\ readers = {} /\ readers' = readers
          /\ l \in {"change", "reverse"}
      BY <2>1 DEF Rw!Wrlock, Rw!Operation
    <3>2. RwWrites("thread1")' /\ RwWrites("thread2")'
      BY <1>3, <2>1, <3>1, RwFacts, LoopLabels DEF RwHeld, RwWrites, Threads4
    <3>3. RwReads("thread3")' /\ RwReads("main")'
      BY <1>3, <2>1, <3>1, RwFacts DEF RwHeld, RwReads, Threads4
    <3> QED
      BY <2>1, <3>1, <3>2, <3>3 DEF RwHeld, RwInv
  <2>2. CASE t \in {"thread3", "main"} /\ Rw!Rdlock(t) /\ ~Rw!Unlock(t)
    <3>1. /\ writer = "none" /\ writer' = writer /\ readers' = readers \cup {t}
          /\ l \in {"count", "print"}
      BY <2>2 DEF Rw!Rdlock, Rw!Operation
    <3>2. RwWrites("thread1")' /\ RwWrites("thread2")'
      BY <1>3, <2>2, <3>1, RwFacts DEF RwHeld, RwWrites, Threads4
    <3>3. RwReads("thread3")' /\ RwReads("main")'
      BY <1>3, <2>2, <3>1, RwFacts, LoopLabels DEF RwHeld, RwReads, Threads4
    <3> QED
      BY <2>2, <3>1, <3>2, <3>3 DEF RwHeld, RwInv
  <2>3. CASE Rw!Unlock(t)
    <3>1. /\ writer' = (IF writer = t THEN "none" ELSE writer) /\ readers' = readers \ {t}
          /\ l = "lock" /\ pc[t] = "unlock"
      BY <2>3 DEF Rw!Unlock
    <3>2. RwWrites("thread1")' /\ RwWrites("thread2")'
      BY <1>1, <1>3, <3>1, RwFacts, LoopLabels DEF RwHeld, RwWrites, Threads4
    <3>3. RwReads("thread3")' /\ RwReads("main")'
      BY <1>1, <1>3, <3>1, RwFacts, LoopLabels DEF RwHeld, RwReads, Threads4
    <3>4. writer' # "none" => readers' = {}
      BY <3>1, RwFacts DEF RwHeld
    <3> QED
      BY <3>1, <3>2, <3>3, <3>4 DEF RwHeld, RwInv
  <2> QED
    BY <2>1, <2>2, <2>3
<1>7. Apart' /\ Rw!Holding' /\ Rw!OwnCode'
  BY <1>5, <1>6, RwApart, RwHolds
<1>8. LoopsSound' /\ Undone' = Undone
  BY <1>4, <1>7, RwFacts, QuietKeeps DEF RwInv, Threads4
<1>9. Begun(Workers4)'
  <2>1. OthersKept(Threads4, t)
    BY <1>1, <1>3 DEF OthersKept
  <2>2. (t = "main" => pc[t] \notin Creating /\ pc'[t] \notin Creating)
        /\ pc[t] # "unborn" /\ pc'[t] # "unborn"
    BY <1>1, <1>2, <1>3 DEF Creating
  <2> QED
    BY <1>1, <2>1, <2>2, BegunKept, RwFacts DEF RwInv, Workers4, Threads4
<1>10. LineFollows({"main"})'
  <2>1. pc'["main"] = "print" /\ pc["main"] # "print" => pc["main"] \notin InPrint
    BY <1>1, <1>3, LoopLabels DEF Threads4
  <2> QED
    BY <1>4, <2>1, QuietLine, RwFacts DEF RwInv
<1>11. TypeOKLoops(Threads4, Rw!Labels)' /\ LoopsBounded'
  BY <1>4, QuietTyped DEF RwInv
<1>12. Rw!Counting'
  <2>1. CASE t = "thread3"
    <3>1. pc["thread3"] \notin InLoops /\ i["thread3"] = 0
      BY <1>1, <2>1, RwFacts, LoopLabels DEF RwInv, LoopsBounded, Threads4
    <3> QED
      BY <1>1, <3>1, RwOps, LoopLabels DEF RwInv, Rw!Counting
  <2>2. CASE t # "thread3"
    BY <1>1, <1>3, <2>2, RwOps DEF RwInv, Rw!Counting, Threads4
  <2> QED
    BY <2>1, <2>2
<1> QED
  BY <1>1, <1>6, <1>7, <1>8, <1>9, <1>10, <1>11, <1>12 DEF RwInv, ObjectStep

LEMMA RwWorking ==
  ASSUME RwInv, NEW t \in Threads4, Rw!Work(t)
  PROVE  RwInv' /\ ObjectStep
<1>1. ChangeReg(t, "unlock") \/ ReverseArray(t, "unlock") \/ PrintArray(t, "unlock")
  BY RwSteps DEF Rw!Work
<1>2. /\ InChange \subseteq Rw!Labels /\ InReverse \subseteq Rw!Labels
      /\ InPrint \subseteq Rw!Labels /\ "unlock" \in Rw!Labels
      /\ "unlock" \notin MidLoop \cup {"change", "reverse"} /\ "unlock" \notin InLoops
      /\ "unlock" \notin InChange /\ "unlock" \notin InReverse /\ "unlock" \notin InPrint
      /\ UNCHANGED <<writer, readers, count, counted>>
      /\ t \in {"thread1", "thread2", "thread3", "main"}
  BY RwOps, LoopLabels DEF Rw!Work, Rw!Labels, Rw!rwVars, MidLoop, Threads4
<1>3. TypeOKLoops(Threads4, Rw!Labels)' /\ LoopsBounded' /\ OthersKept(Threads4, t)
  BY <1>1, <1>2, ChangeTyped, ReverseTyped, PrintTyped DEF RwInv
<1>4. /\ errno' = errno
      /\ \/ pc[t] \in InChange /\ ChangeReg(t, "unlock") /\ pc'[t] \in InChange \cup {"unlock"}
         \/ pc[t] \in InReverse /\ ReverseArray(t, "unlock") /\ pc'[t] \in InReverse \cup {"unlock"}
         \/ pc[t] \in InPrint /\ PrintArray(t, "unlock") /\ pc'[t] \in InPrint \cup {"unlock"}
  BY <1>1, LoopMoves DEF RwInv
<1>5. /\ pc[t] \in InChange => t = "thread1"
      /\ pc[t] \in InReverse => t = "thread2"
      /\ pc[t] \in InPrint => t = "main"
  BY <1>2, RwFacts, LoopLabels DEF RwOwn
<1>6. \A u \in Threads4 : u # t => pc'[u] = pc[u]
  BY <1>3 DEF OthersKept
<1>7. RwOwn' /\ RwHeld'
  <2>1. RwOwn'
    BY <1>2, <1>4, <1>5, <1>6, RwFacts, LoopLabels DEF RwOwn, Threads4
  <2>2. RwWrites("thread1")' /\ RwWrites("thread2")'
    BY <1>2, <1>4, <1>5, <1>6, RwFacts, LoopLabels DEF RwHeld, RwWrites, Threads4
  <2>3. RwReads("thread3")' /\ RwReads("main")'
    BY <1>2, <1>4, <1>5, <1>6, RwFacts, LoopLabels DEF RwHeld, RwReads, Threads4
  <2>4. writer' # "none" => readers' = {}
    BY <1>2, RwFacts DEF RwHeld
  <2> QED
    BY <2>1, <2>2, <2>3, <2>4 DEF RwHeld
<1>8. Begun(Workers4)' /\ Rw!Holding' /\ Rw!OwnCode' /\ Apart'
  <2>1. (t = "main" => pc[t] \notin Creating /\ pc'[t] \notin Creating)
        /\ pc[t] # "unborn" /\ pc'[t] # "unborn"
    BY <1>4, LoopLabels DEF Creating
  <2>2. Begun(Workers4)'
    BY <1>3, <1>4, <2>1, BegunKept, RwFacts DEF RwInv, Workers4, Threads4
  <2> QED
    BY <1>7, <2>2, RwHolds, RwApart
<1>9. CASE t \in {"thread1", "thread2"}
  <2>1. \A u \in Threads4 : u # t => pc[u] \notin InLoops
    BY <1>4, <1>9, RwFacts, LoopLabels
  <2>2. /\ pc["main"] \notin InLoops /\ pc'["main"] \notin InLoops
        /\ pc["thread3"] \notin InLoops /\ pc'["thread3"] \notin InLoops
    BY <1>6, <1>9, <2>1 DEF Threads4
  <2>3. Rw!Counting'
    BY <1>2, <2>2, LoopLabels, RwOps DEF RwInv, Rw!Counting
  <2>4. LoopsSound' /\ UNCHANGED <<line, printed>> /\ ObjectStep
    <3>1. CASE pc[t] \in InChange
      <4>1. t = "thread1" /\ pc["thread2"] \notin InReverse /\ ChangeReg("thread1", "unlock")
        BY <1>4, <1>5, <2>1, <3>1, LoopLabels DEF Threads4
      <4> QED
        BY <1>2, <1>3, <4>1, ChangeSound DEF RwInv, Threads4, ObjectStep
    <3>2. CASE pc[t] \in InReverse
      <4>1. t = "thread2" /\ pc["thread1"] \notin InChange /\ ReverseArray("thread2", "unlock")
        BY <1>4, <1>5, <2>1, <3>2, LoopLabels DEF Threads4
      <4> QED
        BY <1>2, <1>3, <4>1, ReverseSound DEF RwInv, Threads4, ObjectStep
    <3> QED
      BY <1>4, <1>5, <1>9, <3>1, <3>2
  <2>5. LineFollows({"main"})'
    BY <2>2, <2>4, LineKept, LoopLabels DEF RwInv
  <2> QED
    BY <1>2, <1>3, <1>8, <2>3, <2>4, <2>5 DEF RwInv
<1>10. CASE t \notin {"thread1", "thread2"}
  <2>1. t = "main" /\ PrintArray("main", "unlock") /\ pc["main"] \in InPrint
    BY <1>4, <1>5, <1>10
  <2>2. /\ LineFollows({"main"})' /\ array' = array
        /\ \/ printed' = printed
           \/ printed' = [by |-> "main", cells |-> Line(array, SIZE)]
    BY <1>2, <1>3, <2>1, PrintFollows, RwFacts DEF RwInv
  <2>3. /\ pc["thread1"] \notin InLoops /\ pc["thread2"] \notin InLoops
        /\ \A u \in {"thread1", "thread2", "thread3"} : pc'[u] = pc[u] /\ i'[u] = i[u]
    BY <1>3, <2>1, RwFacts, LoopLabels DEF Threads4, OthersKept
  <2>4. /\ pc["thread1"] \notin InChange /\ pc["thread2"] \notin InReverse
        /\ pc'["thread1"] \notin InChange /\ pc'["thread2"] \notin InReverse
    BY <2>3, LoopLabels
  <2>5. Undone = array /\ Rests("thread1", InChange) /\ Rests("thread2", InReverse)
    BY <2>4, UndoneAway DEF Rests
  <2>6. LoopsSound' /\ Undone' = Undone
    BY <1>8, <2>2, <2>5, QuietSound, RwFacts DEF RwInv
  <2>7. Rw!Counting'
    BY <1>2, <2>2, <2>3, RwOps DEF RwInv, Rw!Counting
  <2> QED
    BY <1>2, <1>3, <1>8, <2>2, <2>5, <2>6, <2>7 DEF RwInv, ObjectStep
<1> QED
  BY <1>9, <1>10

LEMMA RwCountingLetters ==
  ASSUME RwInv, NEW t \in {"thread3", "main"}, Rw!CountLetters(t)
  PROVE  RwInv' /\ ObjectStep
<1>1. /\ t = "thread3" /\ pc["thread3"] \in InCount
      /\ UNCHANGED <<array, tmp, reg, line, printed, errno, running, writer, readers>>
  BY RwFacts, LoopLabels DEF Rw!CountLetters, Rw!CountTest, Rw!CountTestZ, RwOwn
<1>2. /\ pc \in [Threads4 -> Rw!Labels] /\ i \in [Threads4 -> 0 .. SIZE]
      /\ array \in WholeArrays /\ "thread3" \in Threads4
      /\ "unlock" \in Rw!Labels /\ "count" \in Rw!Labels /\ "countZ" \in Rw!Labels
      /\ pc["thread1"] \notin InLoops /\ pc["thread2"] \notin InLoops
      /\ count = IF array[0] \in Upper THEN i["thread3"] ELSE 0
      /\ count \in 0 .. SIZE /\ counted \in {-1, 0, SIZE} /\ SIZE \in Nat \ {0}
  <2>1. pc["thread3"] \in InLoops /\ pc["thread3"] \in Rw!InCount /\ Rw!Upper = Upper
    BY <1>1, RwOps, LoopLabels
  <2>2. array \in WholeArrays /\ pc["thread1"] \notin InLoops /\ pc["thread2"] \notin InLoops
    BY <2>1, RwFacts DEF Threads4
  <2>3. "unlock" \in Rw!Labels /\ "count" \in Rw!Labels /\ "countZ" \in Rw!Labels
    BY RwOps, LoopLabels DEF Rw!Labels
  <2> QED
    BY <2>1, <2>2, <2>3, RwFacts, SizeAssumption DEF RwInv, TypeOKLoops, Rw!Counting, Threads4
<1>3. /\ pc' \in [Threads4 -> Rw!Labels] /\ i' \in [Threads4 -> 0 .. SIZE]
      /\ \A u \in Threads4 : u # "thread3" => pc'[u] = pc[u] /\ i'[u] = i[u]
      /\ \/ pc'["thread3"] = "count"
         \/ pc'["thread3"] = "countZ" /\ i'["thread3"] < SIZE
         \/ pc'["thread3"] = "unlock" /\ i'["thread3"] = 0
      /\ count' \in 0 .. SIZE /\ counted' \in {-1, 0, SIZE}
      /\ count' = IF pc'["thread3"] # "unlock" /\ array[0] \in Upper THEN i'["thread3"] ELSE 0
  <2>1. CASE pc["thread3"] = "count" /\ i["thread3"] # SIZE
    <3>1. i["thread3"] \in Index /\ i["thread3"] < SIZE
      BY <1>2, <2>1 DEF Index
    <3>2. array[i["thread3"]] \in Int /\ array[i["thread3"]] >= 65
      BY <1>2, <3>1, WholeOneCase
    <3>3. /\ pc' = [pc EXCEPT !["thread3"] = "countZ"] /\ i' = i
          /\ count' = count /\ counted' = counted
      BY <1>1, <2>1, <3>2 DEF Rw!CountLetters, Rw!CountTest, Rw!CountTestZ, Rw!Goto
    <3> QED
      BY <1>2, <3>1, <3>3
  <2>2. CASE pc["thread3"] = "count" /\ i["thread3"] = SIZE
    <3>1. /\ counted' = count /\ count' = 0 /\ i' = [i EXCEPT !["thread3"] = 0]
          /\ pc' = [pc EXCEPT !["thread3"] = "unlock"]
      BY <1>1, <1>2, <2>2 DEF Rw!CountLetters, Rw!CountTest, Rw!CountTestZ, Rw!Goto
    <3>2. counted' \in {-1, 0, SIZE}
      BY <1>2, <2>2, <3>1
    <3> QED
      BY <1>2, <3>1, <3>2
  <2>3. CASE pc["thread3"] = "countZ"
    <3>1. i["thread3"] \in Index /\ i["thread3"] + 1 \in 0 .. SIZE
      <4>1. "thread3" \in DOMAIN pc
        BY <1>2
      <4>2. i["thread3"] < SIZE
        BY <2>3, <4>1 DEF RwInv, LoopsBounded
      <4> QED
        BY <1>2, <4>2 DEF Index
    <3>2. /\ array[i["thread3"]] \in Int
          /\ array[i["thread3"]] <= 90 <=> array[0] \in Upper
      BY <1>2, <3>1, WholeOneCase
    <3>3. /\ count' = (IF array[i["thread3"]] <= 90 THEN count + 1 ELSE count)
          /\ i' = [i EXCEPT !["thread3"] = i["thread3"] + 1]
          /\ pc' = [pc EXCEPT !["thread3"] = "count"] /\ counted' = counted
      BY <1>1, <2>3 DEF Rw!CountLetters, Rw!CountTest, Rw!CountTestZ, Rw!Goto
    <3>4. i'["thread3"] = i["thread3"] + 1 /\ pc'["thread3"] = "count"
      BY <1>2, <3>3
    <3>5. count' = IF array[0] \in Upper THEN i["thread3"] + 1 ELSE 0
      BY <1>2, <3>2, <3>3
    <3> QED
      BY <1>2, <3>1, <3>3, <3>4, <3>5
  <2> QED
    BY <1>1, <2>1, <2>2, <2>3, LoopLabels
<1>4. OthersKept(Threads4, "thread3")
  BY <1>1, <1>3 DEF OthersKept
<1>5. Rw!Counting' /\ counted' \in -1 .. SIZE
  <2>1. pc'["thread3"] \in InCount <=> pc'["thread3"] # "unlock"
    BY <1>3, LoopLabels
  <2>2. Rw!Counting'
    BY <1>1, <1>3, <2>1, RwOps DEF Rw!Counting
  <2> QED
    BY <1>2, <1>3, <2>2
<1>6. TypeOKLoops(Threads4, Rw!Labels)' /\ LoopsBounded'
  <2>1. TypeOKLoops(Threads4, Rw!Labels)'
    BY <1>1, <1>3 DEF RwInv, TypeOKLoops
  <2>2. DOMAIN pc' = Threads4 /\ DOMAIN pc = Threads4
    BY <1>2, <1>3
  <2> QED
    BY <1>3, <2>1, <2>2, LoopLabels DEF RwInv, LoopsBounded
<1>7. RwOwn' /\ RwHeld'
  <2>1. pc'["thread3"] \in InCount \cup {"unlock"} /\ pc["thread3"] \in InCount
    BY <1>1, <1>3, LoopLabels
  <2>2. RwOwn'
    BY <1>3, <2>1, RwFacts DEF RwOwn, Threads4
  <2> QED
    BY <1>1, <1>3, <2>1, <2>2, RwFacts DEF RwHeld, RwWrites, RwReads, Threads4
<1>8. Rw!Holding' /\ Rw!OwnCode' /\ Apart'
  BY <1>7, RwHolds, RwApart
<1>9. Rests("thread1", InChange) /\ Rests("thread2", InReverse)
  BY <1>4 DEF Rests, OthersKept, Threads4
<1>10. LoopsSound' /\ Undone' = Undone
  BY <1>1, <1>8, <1>9, QuietSound, RwFacts DEF RwInv
<1>11. LineFollows({"main"})'
  BY <1>1, <1>4, LineKept DEF RwInv, OthersKept, Threads4
<1>12. Begun(Workers4)'
  <2>1. pc["thread3"] # "unborn" /\ pc'["thread3"] # "unborn"
    BY <1>1, <1>3, LoopLabels
  <2> QED
    BY <1>1, <1>4, <2>1, BegunKept, RwFacts DEF RwInv, Workers4, Threads4
<1> QED
  BY <1>1, <1>3, <1>5, <1>6, <1>8, <1>10, <1>11, <1>12 DEF RwInv, ObjectStep

LEMMA RwCreating ==
  ASSUME RwInv, Rw!ForthTask
  PROVE  RwInv' /\ ObjectStep
<1>1. /\ \/ Create("create1", "thread1", "create2")
         \/ Create("create2", "thread2", "create3")
         \/ Create("create3", "thread3", "check")
         \/ CheckCreated("lock")
      /\ UNCHANGED <<writer, readers, count, counted>>
  BY RwSteps DEF Rw!ForthTask, Rw!rwVars
<1>2. /\ pc \in [Threads4 -> Rw!Labels] /\ {"create2", "create3", "check", "lock"} \subseteq Rw!Labels
      /\ pc["main"] = "create1" => pc["thread1"] = "unborn"
      /\ pc["main"] \in {"create1", "create2"} => pc["thread2"] = "unborn"
      /\ pc["main"] \in {"create1", "create2", "create3"} => pc["thread3"] = "unborn"
  BY RwFacts DEF RwInv, Begun, Before, Workers4, Rw!Labels
<1>3. /\ UNCHANGED <<array, i, tmp, reg, line, printed>>
      /\ errno' \in BOOLEAN /\ running' \in BOOLEAN
      /\ pc["main"] \in {"create1", "create2", "create3", "check"}
      /\ pc'["main"] \in {"create2", "create3", "check", "lock"}
      /\ \A u \in Workers4 : pc'[u] = pc[u] \/ (pc[u] = "unborn" /\ pc'[u] = "lock")
      /\ pc' \in [Threads4 -> Rw!Labels]
  <2>1. CASE Create("create1", "thread1", "create2")
    BY <1>2, <2>1, CreateMoves DEF Workers4, Threads4, RwInv
  <2>2. CASE Create("create2", "thread2", "create3")
    BY <1>2, <2>2, CreateMoves DEF Workers4, Threads4, RwInv
  <2>3. CASE Create("create3", "thread3", "check")
    BY <1>2, <2>3, CreateMoves DEF Workers4, Threads4, RwInv
  <2>4. CASE CheckCreated("lock")
    BY <1>2, <2>4, CheckMoves DEF Workers4, Threads4, RwInv
  <2> QED
    BY <1>1, <2>1, <2>2, <2>3, <2>4
<1>4. Quiet(Threads4, Rw!Labels)
  BY <1>3, LoopLabels DEF Quiet, MidLoop, Threads4, Workers4
<1>5. Rw!OwnCode' /\ Rw!Holding' /\ Apart'
  <2>1. RwOwn'
    BY <1>3, RwFacts DEF RwOwn, Workers4
  <2>2. RwWrites("thread1")' /\ RwWrites("thread2")'
    BY <1>1, <1>3, RwFacts, LoopLabels DEF RwHeld, RwWrites, Workers4
  <2>3. RwReads("thread3")' /\ RwReads("main")'
    BY <1>1, <1>3, RwFacts, LoopLabels DEF RwHeld, RwReads, Workers4
  <2>4. RwHeld'
    BY <1>1, <2>2, <2>3, RwFacts DEF RwHeld
  <2> QED
    BY <2>1, <2>4, RwHolds, RwApart
<1>6. Rw!Counting'
  <2>1. pc'["thread3"] \in InCount <=> pc["thread3"] \in InCount
    BY <1>3, LoopLabels DEF Workers4
  <2> QED
    BY <1>1, <1>3, <2>1, RwOps DEF RwInv, Rw!Counting
<1>7. LoopsSound' /\ Undone' = Undone
  BY <1>4, <1>5, RwFacts, QuietKeeps DEF RwInv, Threads4
<1>8. Begun(Workers4)'
  BY <1>1, CreateBegun, CheckBegun, RwFacts DEF RwInv, Workers4, Threads4, Creating
<1>9. LineFollows({"main"})' /\ TypeOKLoops(Threads4, Rw!Labels)' /\ LoopsBounded'
  <2>1. pc'["main"] # "print"
    BY <1>3
  <2> QED
    BY <1>4, <2>1, QuietLine, QuietTyped, RwFacts DEF RwInv
<1> QED
  BY <1>1, <1>3, <1>5, <1>6, <1>7, <1>8, <1>9 DEF RwInv, ObjectStep

LEMMA RwStep ==
  ASSUME Rw!IInv,
         \/ Rw!ForthTask
         \/ \E t \in {"thread1", "thread2"} : Rw!WriterThread(t)
         \/ \E t \in {"thread3", "main"} : Rw!ReaderThread(t)
  PROVE  Rw!IInv' /\ ObjectStep
<1>1. RwInv
  BY RwParts
<1>2. RwInv' /\ ObjectStep
  BY <1>1, RwCreating, RwLocking, RwWorking, RwCountingLetters
     DEF Rw!WriterThread, Rw!ReaderThread, Threads4
<1> QED
  BY <1>2, RwParts

LEMMA SysvOps ==
  /\ Sysv!Index = Index /\ Sysv!Char = Char /\ Sysv!Half = Half /\ Sysv!Letter = Letter
  /\ Sysv!Upper = Upper /\ Sysv!Lower = Lower /\ Sysv!InitArray = InitArray
  /\ Sysv!WholeArrays = WholeArrays /\ Sysv!NoLine = NoLine
  /\ Sysv!InChange = InChange /\ Sysv!InReverse = InReverse /\ Sysv!InPrint = InPrint
  /\ Sysv!InCount = InCount /\ Sysv!InLoops = InLoops
  /\ \A c : Sysv!FlipCase(c) = FlipCase(c) /\ Sysv!ToChar(c) = ToChar(c)
  /\ \A a, n : /\ Sysv!ChangedUpTo(a, n) = ChangedUpTo(a, n)
               /\ Sysv!ReversedUpTo(a, n) = ReversedUpTo(a, n)
               /\ Sysv!Line(a, n) = Line(a, n)
BY Zenon
   DEF Index, Sysv!Index, Char, Sysv!Char, Half, Sysv!Half, Upper, Sysv!Upper, Lower,
       Sysv!Lower, Letter, Sysv!Letter, InitArray, Sysv!InitArray, ToChar,
       Sysv!ToChar, FlipCase, Sysv!FlipCase, ChangedUpTo, Sysv!ChangedUpTo,
       ReversedUpTo, Sysv!ReversedUpTo, ChangeAll, Sysv!ChangeAll, ReverseAll,
       Sysv!ReverseAll, Line, Sysv!Line, WholeArrays, Sysv!WholeArrays, NoLine,
       Sysv!NoLine, InChange, Sysv!InChange, InReverse, Sysv!InReverse, InPrint,
       Sysv!InPrint, InCount, Sysv!InCount, InLoops, Sysv!InLoops

LEMMA SysvSteps ==
  /\ \A t, next : Sysv!ChangeReg(t, next) <=> ChangeReg(t, next)
  /\ \A t, next : Sysv!ReverseArray(t, next) <=> ReverseArray(t, next)
  /\ \A t, next : Sysv!PrintArray(t, next) <=> PrintArray(t, next)
  /\ \A here, t, next : Sysv!Create(here, t, next) <=> Create(here, t, next)
  /\ \A next : Sysv!CheckCreated(next) <=> CheckCreated(next)
  /\ \A Ts, first : Sysv!InitLoops(Ts, first) <=> InitLoops(Ts, first)
<1>1. \A t, next : Sysv!ChangeReg(t, next) <=> ChangeReg(t, next)
  BY SysvOps
     DEF ChangeReg, Sysv!ChangeReg, Goto, Sysv!Goto, ChangeTest, Sysv!ChangeTest,
         ChangeTestZ, Sysv!ChangeTestZ, ChangeLoad, Sysv!ChangeLoad, ChangeStore,
         Sysv!ChangeStore
<1>2. \A t, next : Sysv!ReverseArray(t, next) <=> ReverseArray(t, next)
  BY SysvOps
     DEF ReverseArray, Sysv!ReverseArray, Goto, Sysv!Goto, ReverseLoad,
         Sysv!ReverseLoad, ReverseLeft, Sysv!ReverseLeft, ReverseLeftStore,
         Sysv!ReverseLeftStore, ReverseRight, Sysv!ReverseRight
<1>3. \A t, next : Sysv!PrintArray(t, next) <=> PrintArray(t, next)
  BY DEF PrintArray, Sysv!PrintArray, Goto, Sysv!Goto, PrintRead, Sysv!PrintRead,
         PrintCell, Sysv!PrintCell, PrintNewline, Sysv!PrintNewline
<1>4. \A here, t, next : Sysv!Create(here, t, next) <=> Create(here, t, next)
  BY DEF Create, Sysv!Create, Goto, Sysv!Goto
<1>5. \A next : Sysv!CheckCreated(next) <=> CheckCreated(next)
  BY DEF CheckCreated, Sysv!CheckCreated, Goto, Sysv!Goto
<1>6. \A Ts, first : Sysv!InitLoops(Ts, first) <=> InitLoops(Ts, first)
  BY SysvOps DEF InitLoops, Sysv!InitLoops
<1> QED
  BY <1>1, <1>2, <1>3, <1>4, <1>5, <1>6

LEMMA SysvStates ==
  /\ \A Ts, Ls : /\ Sysv!TypeOKLoops(Ts, Ls) <=> TypeOKLoops(Ts, Ls)
                 /\ Sysv!TypeOKLoops(Ts, Ls)' <=> TypeOKLoops(Ts, Ls)'
  /\ \A p : (Sysv!LineFollows(p) <=> LineFollows(p)) /\ (Sysv!LineFollows(p)' <=> LineFollows(p)')
  /\ \A w : (Sysv!Begun(w) <=> Begun(w)) /\ (Sysv!Begun(w)' <=> Begun(w)')
  /\ (Sysv!LoopsBounded <=> LoopsBounded) /\ (Sysv!LoopsBounded' <=> LoopsBounded')
  /\ (Sysv!LoopsSound <=> LoopsSound) /\ (Sysv!LoopsSound' <=> LoopsSound')
  /\ (Sysv!PrintedWhole <=> PrintedWhole) /\ (Sysv!PrintedWhole' <=> PrintedWhole')
<1>1. \A Ts, Ls : /\ Sysv!TypeOKLoops(Ts, Ls) <=> TypeOKLoops(Ts, Ls)
                  /\ Sysv!TypeOKLoops(Ts, Ls)' <=> TypeOKLoops(Ts, Ls)'
  BY SysvOps DEF TypeOKLoops, Sysv!TypeOKLoops
<1>2. \A p : (Sysv!LineFollows(p) <=> LineFollows(p)) /\ (Sysv!LineFollows(p)' <=> LineFollows(p)')
  BY SysvOps DEF LineFollows, Sysv!LineFollows
<1>3. \A w : (Sysv!Begun(w) <=> Begun(w)) /\ (Sysv!Begun(w)' <=> Begun(w)')
  BY DEF Begun, Sysv!Begun, Before, Sysv!Before
<1>4. (Sysv!LoopsBounded <=> LoopsBounded) /\ (Sysv!LoopsBounded' <=> LoopsBounded')
  BY SysvOps DEF LoopsBounded, Sysv!LoopsBounded
<1>5. Sysv!Undone = Undone /\ Sysv!Undone' = Undone'
  BY SysvOps DEF Undone, Sysv!Undone
<1>6. (Sysv!LoopsSound <=> LoopsSound) /\ (Sysv!LoopsSound' <=> LoopsSound')
  BY <1>5, SysvOps
     DEF LoopsSound, Sysv!LoopsSound, LoopsKnow, Sysv!LoopsKnow, ChangeKnows,
         Sysv!ChangeKnows, ReverseKnows, Sysv!ReverseKnows
<1>7. (Sysv!PrintedWhole <=> PrintedWhole) /\ (Sysv!PrintedWhole' <=> PrintedWhole')
  BY SysvOps DEF PrintedWhole, Sysv!PrintedWhole
<1> QED
  BY <1>1, <1>2, <1>3, <1>4, <1>6, <1>7

\* What holds until a semop() takes an operation its caller did not write.
SysvSound ==
  /\ Sysv!Counts /\ LoopsSound /\ LineFollows(Workers3) /\ PrintedWhole
  /\ ~(Sysv!Inside("thread1") /\ Sysv!Inside("thread2"))

\* The invariant of SysvSemTask in the terms of ArrayLoops.
SysvInv ==
  /\ TypeOKLoops(Threads3, Sysv!Labels)
  /\ semval \in 0 .. SEMVMX /\ sem_op \in -1 .. 1
  /\ op \in [Workers3 -> -1 .. 1] /\ misread \in BOOLEAN
  /\ Sysv!OwnCode /\ Begun(Workers3) /\ LoopsBounded
  /\ ~misread => SysvSound

\* Where each thread of subtask 2 may be.
SysvOwn ==
  /\ pc["thread1"] \in InChange \cup InPrint
       \cup {"unborn", "lock", "down", "downing", "post", "up", "upping"}
  /\ pc["thread2"] \in InReverse \cup InPrint
       \cup {"unborn", "lock", "down", "downing", "post", "up", "upping"}
  /\ pc["main"] \in {"semget", "create1", "create2", "check", "join"}

LEMMA SysvWhere ==
  /\ (Sysv!OwnCode <=> SysvOwn) /\ (Sysv!OwnCode' <=> SysvOwn')
  /\ \A t : /\ Sysv!Inside(t) <=>
                 pc[t] \in InChange \cup InReverse \cup InPrint \cup {"post", "up", "upping"}
            /\ Sysv!Inside(t)' <=>
                 pc'[t] \in InChange \cup InReverse \cup InPrint \cup {"post", "up", "upping"}
BY SysvOps DEF Sysv!OwnCode, SysvOwn, Sysv!Inside

LEMMA SysvParts == (Sysv!IInv <=> SysvInv) /\ (Sysv!IInv' <=> SysvInv')
<1>1. Sysv!Threads = Threads3 /\ Sysv!Workers = Workers3 /\ Sysv!WholeArrays = WholeArrays
  BY SysvOps DEF Sysv!Threads, Sysv!Workers, Threads3, Workers3
<1>2. ASSUME LoopsSound, \A t \in Workers3 : ~Sysv!Inside(t)
      PROVE  array \in WholeArrays
  <2>1. Undone = array
    BY <1>2, UndoneAway, SysvWhere DEF Workers3
  <2> QED
    BY <1>2, <2>1 DEF LoopsSound
<1>3. ASSUME LoopsSound', \A t \in Workers3 : ~Sysv!Inside(t)'
      PROVE  array' \in WholeArrays
  <2>1. Undone' = array'
    BY <1>3, UndoneAway, SysvWhere DEF Workers3
  <2> QED
    BY <1>3, <2>1 DEF LoopsSound
<1>4. Sysv!IInv <=> SysvInv
  BY <1>1, <1>2, SysvStates DEF Sysv!IInv, Sysv!TypeOK, Sysv!SoundUntilMisread,
     SysvInv, SysvSound
<1>5. Sysv!IInv' <=> SysvInv'
  BY <1>1, <1>3, SysvStates DEF Sysv!IInv, Sysv!TypeOK, Sysv!SoundUntilMisread,
     SysvInv, SysvSound
<1> QED
  BY <1>4, <1>5

LEMMA SysvApart == (SysvSound => Apart) /\ (SysvSound' => Apart')
BY SysvWhere DEF SysvSound, Apart

LEMMA SysvFacts ==
  ASSUME SysvInv
  PROVE  /\ pc \in [Threads3 -> Sysv!Labels] /\ SysvOwn
         /\ Workers3 \in SUBSET Threads3 /\ SEMVMX \in Nat \ {0}
<1>1. pc \in [Threads3 -> Sysv!Labels] /\ SysvOwn
  BY SysvWhere DEF SysvInv, TypeOKLoops
<1> QED
  BY <1>1, SemvmxAssumption DEF Workers3, Threads3

\* The labels of a semaphore operation are not those of a loop.
LEMMA SysvLabels ==
  /\ {"lock", "down", "downing", "post", "up", "upping"} \cap InLoops = {}
  /\ {"unborn", "lock", "down", "downing", "post", "up", "upping",
      "semget", "create1", "create2", "check", "join"} \subseteq Sysv!Labels
  /\ InChange \subseteq Sysv!Labels /\ InReverse \subseteq Sysv!Labels
  /\ InPrint \subseteq Sysv!Labels
BY SysvOps, LoopLabels DEF Sysv!Labels

\* The three steps of a semaphore operation.
LEMMA SysvLocking ==
  ASSUME SysvInv, NEW t \in Workers3,
         \/ Sysv!SetOp(t, "lock", -1, "down")
         \/ Sysv!CallSemop(t, "down", -1, "downing")
         \/ Sysv!FinishSemop(t, "downing", Sysv!Operation(t))
         \/ Sysv!SetOp(t, "post", 1, "up")
         \/ Sysv!CallSemop(t, "up", 1, "upping")
         \/ Sysv!FinishSemop(t, "upping", "lock")
  PROVE  SysvInv'
<1> USE DEF Workers3
<1>1. /\ UNCHANGED <<array, i, tmp, reg, line, printed, errno>> /\ running' \in BOOLEAN
      /\ pc' \in [Threads3 -> Sysv!Labels]
      /\ \A u \in Threads3 : u # t => pc'[u] = pc[u]
      /\ \/ pc'[t] = pc[t] /\ pc[t] \in {"downing", "upping"} /\ semval' = semval
            /\ UNCHANGED <<op, misread>>
         \/ pc[t] = "lock" /\ pc'[t] = "down" /\ UNCHANGED <<semval, op, misread>>
         \/ pc[t] = "down" /\ pc'[t] = "downing" /\ semval' = semval
            /\ op' = [op EXCEPT ![t] = sem_op] /\ misread' = (misread \/ sem_op # -1)
         \/ pc[t] = "downing" /\ pc'[t] = Sysv!Operation(t) /\ UNCHANGED <<op, misread>>
            /\ semval' = semval + op[t] /\ semval + op[t] >= 0
         \/ pc[t] = "post" /\ pc'[t] = "up" /\ UNCHANGED <<semval, op, misread>>
         \/ pc[t] = "up" /\ pc'[t] = "upping" /\ semval' = semval
            /\ op' = [op EXCEPT ![t] = sem_op] /\ misread' = (misread \/ sem_op # 1)
         \/ pc[t] = "upping" /\ pc'[t] = "lock" /\ UNCHANGED <<op, misread>>
            /\ semval' = semval + op[t]
      /\ semval' \in 0 .. SEMVMX /\ sem_op' \in -1 .. 1
      /\ op' \in [Workers3 -> -1 .. 1] /\ misread' \in BOOLEAN
  <2>1. /\ pc \in [Threads3 -> Sysv!Labels] /\ t \in Threads3
        /\ {"lock", "down", "downing", "change", "reverse", "post", "up", "upping"} \subseteq Sysv!Labels
        /\ Sysv!Operation(t) \in {"change", "reverse"}
        /\ semval \in 0 .. SEMVMX /\ sem_op \in -1 .. 1 /\ SEMVMX \in Nat
        /\ op \in [Workers3 -> -1 .. 1] /\ misread \in BOOLEAN /\ running \in BOOLEAN
    BY SysvFacts, SysvLabels, LoopLabels DEF SysvInv, TypeOKLoops, Sysv!Operation, Threads3
  <2>2. op[t] \in -1 .. 1
    BY <2>1
  <2>3. CASE Sysv!SetOp(t, "lock", -1, "down")
    BY <2>1, <2>3 DEF Sysv!SetOp, Sysv!Goto
  <2>4. CASE Sysv!CallSemop(t, "down", -1, "downing")
    BY <2>1, <2>4 DEF Sysv!CallSemop, Sysv!Goto
  <2>5. CASE Sysv!FinishSemop(t, "downing", Sysv!Operation(t))
    <3>1. /\ pc[t] = "downing" /\ semval + op[t] >= 0
          /\ UNCHANGED <<array, i, tmp, reg, line, printed, errno, sem_op, op, misread>>
          /\ \/ /\ semval + op[t] <= SEMVMX /\ semval' = semval + op[t]
                /\ pc' = [pc EXCEPT ![t] = Sysv!Operation(t)] /\ running' = running
             \/ running' = FALSE /\ UNCHANGED <<semval, pc>>
      BY <2>5 DEF Sysv!FinishSemop, Sysv!Goto
    <3>2. semval + op[t] <= SEMVMX => semval + op[t] \in 0 .. SEMVMX
      BY <2>1, <2>2, <3>1
    <3> QED
      BY <2>1, <3>1, <3>2
  <2>6. CASE Sysv!SetOp(t, "post", 1, "up")
    BY <2>1, <2>6 DEF Sysv!SetOp, Sysv!Goto
  <2>7. CASE Sysv!CallSemop(t, "up", 1, "upping")
    BY <2>1, <2>7 DEF Sysv!CallSemop, Sysv!Goto
  <2>8. CASE Sysv!FinishSemop(t, "upping", "lock")
    <3>1. /\ pc[t] = "upping" /\ semval + op[t] >= 0
          /\ UNCHANGED <<array, i, tmp, reg, line, printed, errno, sem_op, op, misread>>
          /\ \/ /\ semval + op[t] <= SEMVMX /\ semval' = semval + op[t]
                /\ pc' = [pc EXCEPT ![t] = "lock"] /\ running' = running
             \/ running' = FALSE /\ UNCHANGED <<semval, pc>>
      BY <2>8 DEF Sysv!FinishSemop, Sysv!Goto
    <3>2. semval + op[t] <= SEMVMX => semval + op[t] \in 0 .. SEMVMX
      BY <2>1, <2>2, <3>1
    <3> QED
      BY <2>1, <3>1, <3>2
  <2> QED
    BY <2>3, <2>4, <2>5, <2>6, <2>7, <2>8
<1>2. Sysv!Operation(t) = (IF t = "thread1" THEN "change" ELSE "reverse")
  BY DEF Sysv!Operation
<1>3. /\ pc[t] \notin InLoops
      /\ pc'[t] \in {"lock", "down", "downing", "change", "reverse", "post", "up", "upping"}
      /\ pc[t] \in {"lock", "down", "downing", "post", "up", "upping"}
  BY <1>1, <1>2, SysvLabels
<1>4. Quiet(Threads3, Sysv!Labels)
  BY <1>1, <1>3 DEF Quiet, MidLoop, SysvInv, TypeOKLoops, Threads3
<1>5. TypeOKLoops(Threads3, Sysv!Labels)' /\ LoopsBounded'
  BY <1>4, QuietTyped DEF SysvInv
<1>6. Sysv!OwnCode'
  <2>1. /\ t = "thread1" => pc'[t] # "reverse"
        /\ t = "thread2" => pc'[t] # "change"
    BY <1>1, <1>2
  <2>2. SysvOwn'
    BY <1>1, <1>3, <2>1, SysvFacts, LoopLabels DEF SysvOwn, Threads3
  <2> QED
    BY <2>2, SysvWhere
<1>7. Begun(Workers3)'
  <2>1. OthersKept(Threads3, t)
    BY <1>1 DEF OthersKept
  <2> QED
    BY <1>1, <1>3, <2>1, BegunKept, SysvFacts DEF SysvInv, Threads3
<1>8. ASSUME ~misread'
      PROVE  SysvSound'
  <2>1. ~misread /\ SysvSound
    BY <1>1, <1>8 DEF SysvInv
  <2>2. LineFollows(Workers3)'
    <3>1. \A u \in Workers3 : pc'[u] # "print" \/ pc[u] = "print"
      BY <1>1, <1>3 DEF Threads3
    <3> QED
      BY <1>4, <2>1, <3>1, QuietLine, SysvFacts DEF SysvInv, SysvSound
  <2>3. PrintedWhole'
    BY <1>1, <2>1 DEF SysvSound, PrintedWhole
  <2>4. pc["main"] # "semget" /\ pc'["main"] = pc["main"]
    BY <1>1, <1>3 DEF SysvInv, Begun, Before, Threads3
  <2>5. Sysv!Counts' /\ ~(Sysv!Inside("thread1")' /\ Sysv!Inside("thread2")')
    <3> DEFINE u == IF t = "thread1" THEN "thread2" ELSE "thread1"
    <3>1. u \in Workers3 /\ u # t /\ Workers3 = {t, u} /\ pc'[u] = pc[u]
      BY <1>1 DEF Threads3
    <3>2. /\ semval = IF Sysv!Inside(t) \/ Sysv!Inside(u) THEN 0 ELSE 1
          /\ \A w \in Workers3 : (pc[w] = "downing" => op[w] = -1) /\ (pc[w] = "upping" => op[w] = 1)
          /\ ~(Sysv!Inside(t) /\ Sysv!Inside(u))
      BY <2>1, <2>4, <3>1 DEF SysvSound, Sysv!Counts, Sysv!Workers
    <3>3. /\ Sysv!Inside(u)' <=> Sysv!Inside(u)
          /\ op'[u] = op[u]
      BY <1>1, <3>1, SysvWhere DEF SysvInv
    <3>4. /\ pc'[t] = "downing" => op'[t] = -1
          /\ pc'[t] = "upping" => op'[t] = 1
      BY <1>1, <1>2, <1>8, <3>2 DEF SysvInv
    <3>5. \/ (Sysv!Inside(t)' <=> Sysv!Inside(t)) /\ semval' = semval
          \/ ~Sysv!Inside(t) /\ ~Sysv!Inside(u) /\ Sysv!Inside(t)' /\ semval' = 0
          \/ Sysv!Inside(t) /\ ~Sysv!Inside(t)' /\ semval' = 1
      <4>1. Sysv!Inside(t) <=> pc[t] \in {"post", "up", "upping"}
        BY <1>3, SysvWhere, LoopLabels
      <4>2. Sysv!Inside(t)' <=> pc'[t] \in {"change", "reverse", "post", "up", "upping"}
        BY <1>3, SysvWhere, LoopLabels
      <4> QED
        BY <1>1, <1>2, <3>2, <4>1, <4>2
    <3>6. /\ semval' = IF Sysv!Inside(t)' \/ Sysv!Inside(u)' THEN 0 ELSE 1
          /\ ~(Sysv!Inside(t)' /\ Sysv!Inside(u)')
      BY <3>2, <3>3, <3>5
    <3>7. semval' = IF pc'["main"] = "semget" \/ \E w \in Workers3 : Sysv!Inside(w)' THEN 0 ELSE 1
      BY <2>4, <3>1, <3>6
    <3>8. \A w \in Workers3 : (pc'[w] = "downing" => op'[w] = -1) /\ (pc'[w] = "upping" => op'[w] = 1)
      BY <3>1, <3>2, <3>3, <3>4
    <3> QED
      BY <3>1, <3>6, <3>7, <3>8 DEF Sysv!Counts, Sysv!Workers
  <2>6. Apart'
    BY <2>5, SysvWhere DEF Apart
  <2>7. LoopsSound'
    BY <1>4, <2>1, <2>6, SysvApart, QuietKeeps DEF SysvInv, SysvSound, Threads3
  <2> QED
    BY <2>2, <2>3, <2>5, <2>7 DEF SysvSound
<1> QED
  BY <1>1, <1>5, <1>6, <1>7, <1>8 DEF SysvInv

LEMMA SysvWorking ==
  ASSUME SysvInv, NEW t \in Workers3, Sysv!Work(t)
  PROVE  SysvInv'
<1> USE DEF Workers3
<1>1. ChangeReg(t, "print") \/ ReverseArray(t, "print") \/ PrintArray(t, "post")
  BY SysvSteps DEF Sysv!Work
<1>2. /\ InChange \subseteq Sysv!Labels /\ InReverse \subseteq Sysv!Labels
      /\ InPrint \subseteq Sysv!Labels /\ "print" \in Sysv!Labels /\ "post" \in Sysv!Labels
      /\ "print" \notin MidLoop \cup {"change", "reverse"}
      /\ "post" \notin MidLoop \cup {"change", "reverse"} /\ "post" \notin InPrint
      /\ "print" \notin InChange /\ "print" \notin InReverse
      /\ UNCHANGED <<semval, sem_op, op, misread>> /\ t \in Threads3
  BY SysvLabels, LoopLabels DEF Sysv!Work, Sysv!semVars, MidLoop, Threads3
<1>3. TypeOKLoops(Threads3, Sysv!Labels)' /\ LoopsBounded' /\ OthersKept(Threads3, t)
  BY <1>1, <1>2, ChangeTyped, ReverseTyped, PrintTyped DEF SysvInv
<1>4. /\ errno' = errno
      /\ \/ pc[t] \in InChange /\ ChangeReg(t, "print") /\ pc'[t] \in InChange \cup {"print"}
         \/ pc[t] \in InReverse /\ ReverseArray(t, "print") /\ pc'[t] \in InReverse \cup {"print"}
         \/ pc[t] \in InPrint /\ PrintArray(t, "post") /\ pc'[t] \in InPrint \cup {"post"}
  BY <1>1, <1>2, LoopMoves DEF SysvInv
<1>5. /\ pc[t] \in InChange => t = "thread1"
      /\ pc[t] \in InReverse => t = "thread2"
  BY SysvFacts, LoopLabels DEF SysvOwn
<1>6. \A u \in Threads3 : u # t => pc'[u] = pc[u]
  BY <1>3 DEF OthersKept
<1>7. Sysv!OwnCode'
  <2>1. SysvOwn'
    BY <1>4, <1>5, <1>6, SysvFacts, LoopLabels DEF SysvOwn, Threads3
  <2> QED
    BY <2>1, SysvWhere
<1>8. Begun(Workers3)'
  <2>1. pc[t] # "unborn" /\ pc'[t] # "unborn" /\ t # "main"
    BY <1>4, LoopLabels
  <2> QED
    BY <1>2, <1>3, <1>4, <2>1, BegunKept, SysvFacts DEF SysvInv, Threads3
<1>9. ASSUME ~misread'
      PROVE  SysvSound'
  <2>1. SysvSound
    BY <1>2, <1>9 DEF SysvInv
  <2>2. /\ Sysv!Inside(t) /\ Sysv!Inside(t)'
        /\ pc'[t] \notin {"downing", "upping"}
    BY <1>4, SysvWhere, LoopLabels
  <2>3. \A u \in Workers3 : u # t =>
          /\ ~Sysv!Inside(u) /\ ~Sysv!Inside(u)'
          /\ pc[u] \notin InChange \cup InReverse \cup InPrint
          /\ pc'[u] = pc[u]
    BY <1>6, <2>1, <2>2, SysvWhere DEF SysvSound, Threads3
  <2>4. Sysv!Counts' /\ ~(Sysv!Inside("thread1")' /\ Sysv!Inside("thread2")')
    <3>1. pc["main"] = "semget" <=> pc'["main"] = "semget"
      BY <1>6 DEF Threads3
    <3>2. \A u \in Workers3 : Sysv!Inside(u) <=> Sysv!Inside(u)'
      BY <2>2, <2>3
    <3>3. semval' = IF pc'["main"] = "semget" \/ \E u \in Workers3 : Sysv!Inside(u)' THEN 0 ELSE 1
      BY <1>2, <2>1, <3>1, <3>2 DEF SysvSound, Sysv!Counts, Sysv!Workers
    <3>4. \A u \in Workers3 : (pc'[u] = "downing" => op'[u] = -1) /\ (pc'[u] = "upping" => op'[u] = 1)
      BY <1>2, <2>1, <2>2, <2>3 DEF SysvSound, Sysv!Counts, Sysv!Workers
    <3> QED
      BY <2>3, <3>3, <3>4 DEF Sysv!Counts, Sysv!Workers
  <2>5. CASE pc[t] \in InChange
    <3>1. t = "thread1" /\ ChangeReg("thread1", "print") /\ pc["thread2"] \notin InReverse
      BY <1>4, <1>5, <2>3, <2>5, LoopLabels
    <3>2. /\ LoopsSound' /\ UNCHANGED <<line, printed>>
          /\ pc'["thread1"] \in InChange \/ (pc'["thread1"] = "print" /\ i'["thread1"] = 0)
      BY <1>2, <1>3, <2>1, <3>1, ChangeSound DEF SysvInv, SysvSound, Threads3
    <3>3. \A u \in Workers3 :
            pc[u] \notin InPrint /\ (pc'[u] \in InPrint => pc'[u] = "print" /\ i'[u] = 0)
      BY <2>3, <2>5, <3>1, <3>2, LoopLabels
    <3>4. LineFollows(Workers3)'
      BY <2>1, <3>2, <3>3, LineKept DEF SysvSound
    <3> QED
      BY <2>1, <2>4, <3>2, <3>4 DEF SysvSound, PrintedWhole
  <2>6. CASE pc[t] \in InReverse
    <3>1. t = "thread2" /\ ReverseArray("thread2", "print") /\ pc["thread1"] \notin InChange
      BY <1>4, <1>5, <2>3, <2>6, LoopLabels
    <3>2. /\ LoopsSound' /\ UNCHANGED <<line, printed>>
          /\ pc'["thread2"] \in InReverse \/ (pc'["thread2"] = "print" /\ i'["thread2"] = 0)
      BY <1>2, <1>3, <2>1, <3>1, ReverseSound DEF SysvInv, SysvSound, Threads3
    <3>3. \A u \in Workers3 :
            pc[u] \notin InPrint /\ (pc'[u] \in InPrint => pc'[u] = "print" /\ i'[u] = 0)
      BY <2>3, <2>6, <3>1, <3>2, LoopLabels
    <3>4. LineFollows(Workers3)'
      BY <2>1, <3>2, <3>3, LineKept DEF SysvSound
    <3> QED
      BY <2>1, <2>4, <3>2, <3>4 DEF SysvSound, PrintedWhole
  <2>7. CASE pc[t] \in InPrint
    <3>1. PrintArray(t, "post") /\ \A u \in Workers3 : u # t => pc[u] \notin InPrint
      BY <1>4, <2>3, <2>7, LoopLabels
    <3>2. /\ LineFollows(Workers3)' /\ array' = array
          /\ \/ printed' = printed
             \/ printed' = [by |-> t, cells |-> Line(array, SIZE)]
      BY <1>2, <1>3, <2>1, <3>1, PrintFollows, SysvFacts DEF SysvInv, SysvSound
    <3>3. /\ pc["thread1"] \notin InChange /\ pc["thread2"] \notin InReverse
          /\ pc'["thread1"] \notin InChange /\ pc'["thread2"] \notin InReverse
      BY <1>4, <2>3, <2>7, LoopLabels
    <3>4. Undone = array /\ Rests("thread1", InChange) /\ Rests("thread2", InReverse)
      BY <3>3, UndoneAway DEF Rests
    <3>5. LoopsSound' /\ array \in WholeArrays
      <4>1. Apart /\ Apart'
        BY <3>3 DEF Apart
      <4> QED
        BY <2>1, <3>2, <3>4, <4>1, QuietSound DEF SysvSound, LoopsSound
    <3>6. PrintedWhole'
      BY <2>1, <3>2, <3>5 DEF SysvSound, PrintedWhole
    <3> QED
      BY <2>4, <3>2, <3>5, <3>6 DEF SysvSound
  <2> QED
    BY <1>4, <2>5, <2>6, <2>7
<1> QED
  BY <1>2, <1>3, <1>7, <1>8, <1>9 DEF SysvInv

LEMMA SysvCreating ==
  ASSUME SysvInv, Sysv!SecondTask
  PROVE  SysvInv'
<1> USE DEF Workers3
<1>1. /\ pc \in [Threads3 -> Sysv!Labels] /\ {"create1", "create2", "check", "lock", "join"} \subseteq Sysv!Labels
      /\ SEMVMX \in Nat \ {0}
      /\ pc["main"] \in {"semget", "create1"} => pc["thread1"] = "unborn"
      /\ pc["main"] \in {"semget", "create1", "create2"} => pc["thread2"] = "unborn"
  BY SysvFacts, SysvLabels DEF SysvInv, Begun, Before
<1>2. \/ Sysv!Semget
      \/ /\ \/ Create("create1", "thread1", "create2")
            \/ Create("create2", "thread2", "check")
            \/ CheckCreated("join")
         /\ UNCHANGED <<semval, sem_op, op, misread>>
  BY SysvSteps DEF Sysv!SecondTask, Sysv!semVars
<1>3. /\ UNCHANGED <<array, i, tmp, reg, line, printed, sem_op, op, misread>>
      /\ errno' \in BOOLEAN /\ running' \in BOOLEAN
      /\ pc["main"] \in {"semget", "create1", "create2", "check"}
      /\ pc'["main"] \in {"semget", "create1", "create2", "check", "join"}
      /\ \A u \in Workers3 : pc'[u] = pc[u] \/ (pc[u] = "unborn" /\ pc'[u] = "lock")
      /\ pc' \in [Threads3 -> Sysv!Labels]
      /\ \/ semval' = semval /\ (pc'["main"] = "semget" <=> pc["main"] = "semget")
         \/ semval' = 1 /\ pc["main"] = "semget" /\ pc'["main"] = "create1"
  <2>1. CASE Create("create1", "thread1", "create2") /\ UNCHANGED <<semval, sem_op, op, misread>>
    BY <1>1, <2>1, CreateMoves DEF Threads3, SysvInv
  <2>2. CASE Create("create2", "thread2", "check") /\ UNCHANGED <<semval, sem_op, op, misread>>
    BY <1>1, <2>2, CreateMoves DEF Threads3, SysvInv
  <2>3. CASE CheckCreated("join") /\ UNCHANGED <<semval, sem_op, op, misread>>
    BY <1>1, <2>3, CheckMoves DEF Threads3, SysvInv
  <2>4. CASE Sysv!Semget
    BY <1>1, <2>4 DEF Sysv!Semget, Sysv!Goto, Threads3, SysvInv, TypeOKLoops
  <2> QED
    BY <1>2, <2>1, <2>2, <2>3, <2>4
<1>4. Quiet(Threads3, Sysv!Labels)
  BY <1>3, LoopLabels DEF Quiet, MidLoop, Threads3
<1>5. Sysv!OwnCode' /\ semval' \in 0 .. SEMVMX
  <2>1. SysvOwn'
    BY <1>3, SysvFacts DEF SysvOwn
  <2> QED
    BY <1>1, <1>3, <2>1, SysvWhere DEF SysvInv
<1>6. TypeOKLoops(Threads3, Sysv!Labels)' /\ LoopsBounded'
  BY <1>4, QuietTyped DEF SysvInv
<1>7. Begun(Workers3)'
  <2>1. CASE Sysv!Semget
    <3>1. errno' = errno /\ pc["main"] = "semget" /\ pc'["main"] \in {"semget", "create1"}
          /\ \A u \in Workers3 : pc'[u] = pc[u]
      BY <1>1, <2>1 DEF Sysv!Semget, Sysv!Goto, Threads3
    <3>2. \A u \in Workers3 : {"semget", "create1"} \subseteq Before(u)
      BY DEF Before
    <3> QED
      BY <3>1, <3>2 DEF SysvInv, Begun
  <2>2. CASE ~Sysv!Semget
    BY <1>2, <2>2, CreateBegun, CheckBegun, SysvFacts DEF SysvInv, Threads3, Creating
  <2> QED
    BY <2>1, <2>2
<1>8. ASSUME ~misread'
      PROVE  SysvSound'
  <2>1. SysvSound
    BY <1>3, <1>8 DEF SysvInv
  <2>2. \A u \in Workers3 : Sysv!Inside(u)' <=> Sysv!Inside(u)
    BY <1>3, SysvWhere, LoopLabels
  <2>3. pc["main"] = "semget" => \A u \in Workers3 : ~Sysv!Inside(u)
    BY <1>1, SysvWhere, LoopLabels
  <2>4. semval' = IF pc'["main"] = "semget" \/ \E u \in Workers3 : Sysv!Inside(u)' THEN 0 ELSE 1
    BY <1>3, <2>1, <2>2, <2>3 DEF SysvSound, Sysv!Counts, Sysv!Workers
  <2>5. \A u \in Workers3 : (pc'[u] = "downing" => op'[u] = -1) /\ (pc'[u] = "upping" => op'[u] = 1)
    BY <1>3, <2>1 DEF SysvSound, Sysv!Counts, Sysv!Workers
  <2>6. Sysv!Counts' /\ ~(Sysv!Inside("thread1")' /\ Sysv!Inside("thread2")')
    BY <2>1, <2>2, <2>4, <2>5 DEF SysvSound, Sysv!Counts, Sysv!Workers
  <2>7. Apart'
    BY <2>6, SysvWhere DEF Apart
  <2>8. LoopsSound'
    BY <1>4, <2>1, <2>7, SysvApart, QuietKeeps DEF SysvInv, SysvSound, Threads3
  <2>9. LineFollows(Workers3)' /\ PrintedWhole'
    <3>1. \A u \in Workers3 : pc'[u] # "print" \/ pc[u] = "print"
      BY <1>3
    <3> QED
      BY <1>3, <1>4, <2>1, <3>1, QuietLine, SysvFacts DEF SysvInv, SysvSound, PrintedWhole
  <2> QED
    BY <2>6, <2>8, <2>9 DEF SysvSound
<1> QED
  BY <1>3, <1>5, <1>6, <1>7, <1>8 DEF SysvInv

LEMMA SysvStep ==
  ASSUME Sysv!IInv, Sysv!SecondTask \/ \E t \in Workers3 : Sysv!Worker(t)
  PROVE  Sysv!IInv'
<1>1. SysvInv
  BY SysvParts
<1>2. SysvInv'
  BY <1>1, SysvCreating, SysvLocking, SysvWorking DEF Sysv!Worker
<1> QED
  BY <1>2, SysvParts

-----------------------------------------------------------------------------
(* The initial states.                                                     *)

LEMMA MutexInit == Mutex!Init => Mutex!IInv /\ Undone = InitArray /\ printed = NoLine
<1> SUFFICES ASSUME Mutex!Init
             PROVE  Mutex!IInv /\ Undone = InitArray /\ printed = NoLine
  OBVIOUS
<1>1. InitLoops(Threads3, "create1") /\ mutex = "free"
  BY MutexSteps DEF Mutex!Init, Mutex!Threads, Mutex!Workers, Threads3
<1>2. "unborn" \in Mutex!Labels /\ "create1" \in Mutex!Labels
  BY DEF Mutex!Labels
<1>3. /\ TypeOKLoops(Threads3, Mutex!Labels) /\ LoopsBounded /\ LoopsSound /\ Undone = InitArray
      /\ LineFollows({"main"}) /\ ~errno
      /\ pc["main"] = "create1" /\ \A t \in Threads3 : t # "main" => pc[t] = "unborn"
  BY <1>1, <1>2, InitKeeps DEF Threads3
<1>4. Begun(Workers3)
  BY <1>3, BegunFirst DEF Workers3, Threads3
<1>5. Mutex!OwnCode /\ Mutex!Holding
  BY <1>1, <1>3, MutexOps, LoopLabels
     DEF Mutex!OwnCode, Mutex!Holding, Mutex!Threads, Mutex!Workers, Threads3
<1>6. Mutex!IInv
  BY <1>1, <1>3, <1>4, <1>5, MutexParts DEF MutexInv
<1> QED
  BY <1>1, <1>3, <1>6 DEF InitLoops

LEMMA RwInit == Rw!Init => Rw!IInv /\ Undone = InitArray /\ printed = NoLine
<1> SUFFICES ASSUME Rw!Init
             PROVE  Rw!IInv /\ Undone = InitArray /\ printed = NoLine
  OBVIOUS
<1>1. /\ InitLoops(Threads4, "create1") /\ writer = "none" /\ readers = {}
      /\ count = 0 /\ counted = -1
  BY RwSteps DEF Rw!Init, Rw!Threads, Rw!Writers, Rw!Readers, Threads4
<1>2. "unborn" \in Rw!Labels /\ "create1" \in Rw!Labels
  BY DEF Rw!Labels
<1>3. /\ TypeOKLoops(Threads4, Rw!Labels) /\ LoopsBounded /\ LoopsSound /\ Undone = InitArray
      /\ LineFollows({"main"}) /\ ~errno
      /\ pc["main"] = "create1" /\ \A t \in Threads4 : t # "main" => pc[t] = "unborn"
  BY <1>1, <1>2, InitKeeps DEF Threads4
<1>4. Begun(Workers4)
  BY <1>3, BegunFirst DEF Workers4, Threads4
<1>5. Rw!OwnCode /\ Rw!Holding
  <2>1. RwOwn
    BY <1>3 DEF RwOwn, Threads4
  <2>2. RwHeld
    BY <1>1, <1>3, LoopLabels DEF RwHeld, RwWrites, RwReads, Threads4
  <2> QED
    BY <2>1, <2>2, RwHolds
<1>6. Rw!Counting /\ count \in 0 .. SIZE /\ counted \in -1 .. SIZE
  BY <1>1, <1>3, RwOps, LoopLabels, SizeAssumption DEF Rw!Counting, Threads4
<1>7. Rw!IInv
  BY <1>1, <1>3, <1>4, <1>5, <1>6, RwParts DEF RwInv
<1> QED
  BY <1>1, <1>3, <1>7 DEF InitLoops

LEMMA SysvInit == Sysv!Init => Sysv!IInv
<1> SUFFICES ASSUME Sysv!Init PROVE Sysv!IInv
  OBVIOUS
<1>1. /\ InitLoops(Threads3, "semget") /\ semval = 0 /\ sem_op = 0
      /\ op = [t \in Workers3 |-> 0] /\ misread = FALSE
  BY SysvSteps DEF Sysv!Init, Sysv!Threads, Sysv!Workers, Threads3, Workers3
<1>2. Workers3 \in SUBSET Threads3
  BY DEF Threads3, Workers3
<1>3. /\ TypeOKLoops(Threads3, Sysv!Labels) /\ LoopsBounded /\ LoopsSound
      /\ LineFollows(Workers3) /\ PrintedWhole /\ ~errno
      /\ pc["main"] = "semget" /\ \A t \in Threads3 : t # "main" => pc[t] = "unborn"
  <2>1. "semget" \in Sysv!Labels /\ "unborn" \in Sysv!Labels
    BY SysvLabels
  <2>2. "main" \in Threads3 /\ "thread1" \in Threads3 /\ "thread2" \in Threads3
    BY DEF Threads3
  <2>3. InitLoops(Threads3, "semget")
    BY <1>1
  <2> QED
    BY <1>2, <2>1, <2>2, <2>3, InitKeeps
<1>4. Begun(Workers3)
  BY <1>3, BegunFirst DEF Workers3, Threads3
<1>5. Sysv!OwnCode /\ Sysv!Counts /\ ~Sysv!Inside("thread1")
  <2>1. SysvOwn
    BY <1>3 DEF SysvOwn, Threads3
  <2>2. ~Sysv!Inside("thread1")
    BY <1>3, SysvWhere, LoopLabels DEF Threads3
  <2>3. Sysv!Counts
    BY <1>1, <1>3 DEF Sysv!Counts, Sysv!Workers, Threads3
  <2> QED
    BY <2>1, <2>2, <2>3, SysvWhere
<1>6. semval \in 0 .. SEMVMX /\ sem_op \in -1 .. 1 /\ op \in [Workers3 -> -1 .. 1]
  BY <1>1, SemvmxAssumption
<1>7. SysvInv
  BY <1>1, <1>3, <1>4, <1>5, <1>6 DEF SysvInv, SysvSound
<1> QED
  BY <1>7, SysvParts

-----------------------------------------------------------------------------
(* Subtask 1 is proved in SemTaskProofs; its module there is the one here. *)

LEMMA FirstOps ==
  /\ Sem!Index = SemProofs!Index /\ Sem!Char = SemProofs!Char
  /\ Sem!Half = SemProofs!Half /\ Sem!Letter = SemProofs!Letter
  /\ Sem!Upper = SemProofs!Upper /\ Sem!Lower = SemProofs!Lower
  /\ Sem!InitArray = SemProofs!InitArray /\ Sem!WholeArrays = SemProofs!WholeArrays
  /\ Sem!NoLine = SemProofs!NoLine /\ Sem!InLoops = SemProofs!InLoops
  /\ Sem!InChange = SemProofs!InChange /\ Sem!InReverse = SemProofs!InReverse
  /\ Sem!InPrint = SemProofs!InPrint
  /\ Sem!Workers = SemProofs!Workers /\ Sem!Threads = SemProofs!Threads
  /\ Sem!Labels = SemProofs!Labels
  /\ \A c : Sem!FlipCase(c) = SemProofs!FlipCase(c) /\ Sem!ToChar(c) = SemProofs!ToChar(c)
  /\ \A a, n : /\ Sem!ChangedUpTo(a, n) = SemProofs!ChangedUpTo(a, n)
               /\ Sem!ReversedUpTo(a, n) = SemProofs!ReversedUpTo(a, n)
               /\ Sem!ChangeAll(a) = SemProofs!ChangeAll(a)
               /\ Sem!ReverseAll(a) = SemProofs!ReverseAll(a)
               /\ Sem!Line(a, n) = SemProofs!Line(a, n)
BY Zenon
   DEF Sem!Index, SemProofs!Index, Sem!Char, SemProofs!Char, Sem!Half, SemProofs!Half,
       Sem!Upper, SemProofs!Upper, Sem!Lower, SemProofs!Lower, Sem!Letter,
       SemProofs!Letter, Sem!InitArray, SemProofs!InitArray, Sem!ToChar,
       SemProofs!ToChar, Sem!FlipCase, SemProofs!FlipCase, Sem!ChangedUpTo,
       SemProofs!ChangedUpTo, Sem!ReversedUpTo, SemProofs!ReversedUpTo, Sem!ChangeAll,
       SemProofs!ChangeAll, Sem!ReverseAll, SemProofs!ReverseAll, Sem!Line,
       SemProofs!Line, Sem!WholeArrays, SemProofs!WholeArrays, Sem!NoLine,
       SemProofs!NoLine, Sem!InChange, SemProofs!InChange, Sem!InReverse,
       SemProofs!InReverse, Sem!InPrint, SemProofs!InPrint, Sem!InCount,
       SemProofs!InCount, Sem!InLoops, SemProofs!InLoops, Sem!Workers,
       SemProofs!Workers, Sem!Threads, SemProofs!Threads, Sem!Labels, SemProofs!Labels

LEMMA FirstSteps ==
  /\ Sem!Init <=> SemProofs!Init
  /\ Sem!FirstTask => SemProofs!Next
  /\ \A t \in Workers3 : Sem!Worker(t) => SemProofs!Next
<1>1. Sem!Init <=> SemProofs!Init
  BY FirstOps DEF Sem!Init, SemProofs!Init, Sem!InitLoops, SemProofs!InitLoops
<1>2. Sem!FirstTask => SemProofs!Next
  BY DEF Sem!FirstTask, SemProofs!FirstTask, Sem!Create, SemProofs!Create,
         Sem!CheckCreated, SemProofs!CheckCreated, Sem!Goto, SemProofs!Goto, SemProofs!Next
<1>3. \A t, next : Sem!ChangeReg(t, next) <=> SemProofs!ChangeReg(t, next)
  BY FirstOps
     DEF Sem!ChangeReg, SemProofs!ChangeReg, Sem!Goto, SemProofs!Goto, Sem!ChangeTest,
         SemProofs!ChangeTest, Sem!ChangeTestZ, SemProofs!ChangeTestZ, Sem!ChangeLoad,
         SemProofs!ChangeLoad, Sem!ChangeStore, SemProofs!ChangeStore
<1>4. \A t, next : Sem!ReverseArray(t, next) <=> SemProofs!ReverseArray(t, next)
  BY FirstOps
     DEF Sem!ReverseArray, SemProofs!ReverseArray, Sem!Goto, SemProofs!Goto,
         Sem!ReverseLoad, SemProofs!ReverseLoad, Sem!ReverseLeft, SemProofs!ReverseLeft,
         Sem!ReverseLeftStore, SemProofs!ReverseLeftStore, Sem!ReverseRight,
         SemProofs!ReverseRight
<1>5. \A t, next : Sem!PrintArray(t, next) <=> SemProofs!PrintArray(t, next)
  BY DEF Sem!PrintArray, SemProofs!PrintArray, Sem!Goto, SemProofs!Goto, Sem!PrintRead,
         SemProofs!PrintRead, Sem!PrintCell, SemProofs!PrintCell, Sem!PrintNewline,
         SemProofs!PrintNewline
<1>6. \A t : Sem!Worker(t) <=> SemProofs!Worker(t)
  BY <1>3, <1>4, <1>5
     DEF Sem!Worker, SemProofs!Worker, Sem!SemWait, SemProofs!SemWait, Sem!Work,
         SemProofs!Work, Sem!SemPost, SemProofs!SemPost, Sem!Goto, SemProofs!Goto,
         Sem!Operation, SemProofs!Operation
<1>7. \A t \in Workers3 : Sem!Worker(t) => SemProofs!Next
  BY <1>6 DEF SemProofs!Next, SemProofs!Workers, Workers3
<1> QED
  BY <1>1, <1>2, <1>7

LEMMA FirstStates == (Sem!IInv <=> SemProofs!IInv) /\ (Sem!IInv' <=> SemProofs!IInv')
<1>1. /\ Sem!TypeOK <=> SemProofs!TypeOK
      /\ Sem!TypeOK' <=> SemProofs!TypeOK'
  BY FirstOps DEF Sem!TypeOK, SemProofs!TypeOK, Sem!TypeOKLoops, SemProofs!TypeOKLoops
<1>2. /\ Sem!Born /\ Sem!OwnCode <=> SemProofs!Born /\ SemProofs!OwnCode
      /\ Sem!Born' /\ Sem!OwnCode' <=> SemProofs!Born' /\ SemProofs!OwnCode'
  BY FirstOps DEF Sem!Born, SemProofs!Born, Sem!OwnCode, SemProofs!OwnCode
<1>3. /\ Sem!Exclusion <=> SemProofs!Exclusion
      /\ Sem!Exclusion' <=> SemProofs!Exclusion'
  BY FirstOps DEF Sem!Exclusion, SemProofs!Exclusion, Sem!Inside, SemProofs!Inside
<1>4. /\ Sem!LoopsBounded <=> SemProofs!LoopsBounded
      /\ Sem!LoopsBounded' <=> SemProofs!LoopsBounded'
  BY FirstOps DEF Sem!LoopsBounded, SemProofs!LoopsBounded
<1>5. /\ Sem!LoopsKnow <=> SemProofs!LoopsKnow
      /\ Sem!LoopsKnow' <=> SemProofs!LoopsKnow'
  BY FirstOps DEF Sem!LoopsKnow, SemProofs!LoopsKnow, Sem!ChangeKnows, SemProofs!ChangeKnows,
         Sem!ReverseKnows, SemProofs!ReverseKnows
<1>6. /\ Sem!LineFollows(Sem!Workers) <=> SemProofs!LineFollows(SemProofs!Workers)
      /\ Sem!LineFollows(Sem!Workers)' <=> SemProofs!LineFollows(SemProofs!Workers)'
  BY FirstOps DEF Sem!LineFollows, SemProofs!LineFollows
<1>7. /\ Sem!PrintedWhole <=> SemProofs!PrintedWhole
      /\ Sem!PrintedWhole' <=> SemProofs!PrintedWhole'
  BY FirstOps DEF Sem!PrintedWhole, SemProofs!PrintedWhole
<1>8. Sem!Undone = SemProofs!Undone /\ Sem!Undone' = SemProofs!Undone'
  BY FirstOps DEF Sem!Undone, SemProofs!Undone
<1>9. Sem!Base = SemProofs!Base /\ Sem!Base' = SemProofs!Base'
  BY <1>8, FirstOps DEF Sem!Base, SemProofs!Base
<1> QED
  BY <1>1, <1>2, <1>3, <1>4, <1>5, <1>6, <1>7, <1>9, FirstOps DEF Sem!IInv, SemProofs!IInv

-----------------------------------------------------------------------------
(* The program.                                                            *)

\* The array and the last line as the atomic array of AtomicArray sees them.
Seen == IF Locked THEN <<Undone, printed>> ELSE <<InitArray, NoLine>>

LEMMA ThreadsInit == Init => IInv /\ Seen = <<InitArray, NoLine>>
<1> SUFFICES ASSUME Init PROVE IInv /\ Seen = <<InitArray, NoLine>>
  OBVIOUS
<1>1. CASE task = "none" /\ InitNone
  BY <1>1 DEF InitNone, NoRwlock, IInv, Seen, Locked
<1>2. CASE task = "1" /\ Sem!Init /\ NoRwlock
  <2>1. Sem!IInv
    BY <1>2, FirstSteps, FirstStates, SemProofs!InitIInv, SizeAssumption
  <2> QED
    BY <1>2, <2>1 DEF NoRwlock, IInv, Seen, Locked
<1>3. CASE task = "2" /\ Sysv!Init /\ NoRwlock
  BY <1>3, SysvInit DEF NoRwlock, IInv, Seen, Locked
<1>4. CASE task = "3" /\ Mutex!Init /\ NoRwlock
  BY <1>4, MutexInit DEF NoRwlock, IInv, Seen, Locked
<1>5. CASE task = "4" /\ Rw!Init
  BY <1>5, RwInit DEF IInv, Seen, Locked
<1> QED
  BY <1>1, <1>2, <1>3, <1>4, <1>5 DEF Init

\* What the reader sees in a step: one whole operation, or nothing.
SeenStep ==
  \/ Seen' = Seen
  \/ Locked /\ Locked' /\ ObjectStep

LEMMA ThreadsStill ==
  ASSUME IInv, UNCHANGED vars
  PROVE  IInv' /\ Seen' = Seen
<1>1. /\ UNCHANGED <<array, pc, i, tmp, reg, line, printed, errno, running, task, sem>>
      /\ UNCHANGED <<semval, sem_op, op, misread, mutex, writer, readers, count, counted>>
  BY DEF vars, sysvVars, rwVars
<1>2. CASE task = "1"
  <2>1. SemProofs!IInv /\ UNCHANGED SemProofs!vars
    BY <1>1, <1>2, FirstStates DEF IInv, SemProofs!vars
  <2>2. Sem!IInv'
    BY <2>1, FirstStates, SemProofs!StepIInv, SizeAssumption
  <2> QED
    BY <1>1, <1>2, <2>2 DEF IInv, Seen, Locked
<1>3. UNCHANGED Undone /\ LoopsSound' = LoopsSound
  BY <1>1 DEF LoopsSound, LoopsKnow, ChangeKnows, ReverseKnows, Undone
<1>4. CASE task = "2"
  <2>1. SysvInv
    BY <1>4, SysvParts DEF IInv
  <2>2. SysvInv'
    BY <1>1, <1>3, <2>1 DEF SysvInv, SysvSound, TypeOKLoops, Sysv!OwnCode, Begun, LoopsBounded,
       Sysv!Counts, LineFollows, PrintedWhole, Sysv!Inside
  <2> QED
    BY <1>1, <1>4, <2>2, SysvParts DEF IInv, Seen, Locked
<1>5. CASE task = "3"
  <2>1. MutexInv
    BY <1>5, MutexParts DEF IInv
  <2>2. MutexInv'
    BY <1>1, <1>3, <2>1 DEF MutexInv, TypeOKLoops, Mutex!OwnCode, Mutex!Holding, Begun,
       LoopsBounded, LineFollows
  <2> QED
    BY <1>1, <1>3, <1>5, <2>2, MutexParts DEF IInv, Seen, Locked
<1>6. CASE task = "4"
  <2>1. RwInv
    BY <1>6, RwParts DEF IInv
  <2>2. RwInv'
    BY <1>1, <1>3, <2>1 DEF RwInv, TypeOKLoops, Rw!OwnCode, Rw!Holding, Begun, LoopsBounded,
       LineFollows, Rw!Counting
  <2> QED
    BY <1>1, <1>3, <1>6, <2>2, RwParts DEF IInv, Seen, Locked
<1>7. CASE task = "none"
  BY <1>1, <1>7 DEF IInv, Seen, Locked
<1> QED
  BY <1>2, <1>4, <1>5, <1>6, <1>7 DEF IInv

LEMMA ThreadsStep == IInv /\ [Next]_vars => IInv' /\ SeenStep
<1> SUFFICES ASSUME IInv, [Next]_vars PROVE IInv' /\ SeenStep
  OBVIOUS
<1> DEFINE Subthreads == \E t \in Workers3 : Subthread(t)
<1>1. CASE UNCHANGED vars \/ Done
  BY <1>1, ThreadsStill DEF Done, SeenStep
<1>2. CASE task = "1" /\ (Main \/ Subthreads \/ Counter)
  <2>1. /\ Sem!FirstTask \/ \E t \in Workers3 : Sem!Worker(t)
        /\ task' = task /\ counted' = counted
    BY <1>2 DEF Main, Subthread, Counter, rwVars
  <2>2. SemProofs!IInv /\ SemProofs!Next
    BY <1>2, <2>1, FirstSteps, FirstStates DEF IInv
  <2>3. Sem!IInv'
    BY <2>2, FirstStates, SemProofs!StepIInv, SizeAssumption
  <2> QED
    BY <1>2, <2>1, <2>3 DEF IInv, SeenStep, Seen, Locked
<1>3. CASE task = "2" /\ (Main \/ Subthreads \/ Counter)
  <2>1. /\ Sysv!SecondTask \/ \E t \in Workers3 : Sysv!Worker(t)
        /\ task' = task /\ counted' = counted
    BY <1>3 DEF Main, Subthread, Counter, rwVars
  <2>2. Sysv!IInv'
    BY <1>3, <2>1, SysvStep DEF IInv
  <2> QED
    BY <1>3, <2>1, <2>2 DEF IInv, SeenStep, Seen, Locked
<1>4. CASE task = "3" /\ (Main \/ Subthreads \/ Counter)
  <2>1. /\ Mutex!ThirdTask \/ \E t \in Threads3 : Mutex!Thread(t)
        /\ task' = task /\ counted' = counted
    BY <1>4 DEF Main, Subthread, Counter, rwVars, Workers3, Threads3
  <2>2. Mutex!IInv' /\ ObjectStep
    BY <1>4, <2>1, MutexStep DEF IInv
  <2> QED
    BY <1>4, <2>1, <2>2 DEF IInv, SeenStep, Locked
<1>5. CASE task = "4" /\ (Main \/ Subthreads \/ Counter)
  <2>1. /\ \/ Rw!ForthTask
           \/ \E t \in {"thread1", "thread2"} : Rw!WriterThread(t)
           \/ \E t \in {"thread3", "main"} : Rw!ReaderThread(t)
        /\ task' = task
    BY <1>5 DEF Main, Subthread, Counter, Workers3
  <2>2. Rw!IInv' /\ ObjectStep
    BY <1>5, <2>1, RwStep DEF IInv
  <2> QED
    BY <1>5, <2>1, <2>2 DEF IInv, SeenStep, Locked
<1>6. Main \/ Subthreads \/ Counter => task \in {"1", "2", "3", "4"}
  BY DEF Main, Subthread, Counter
<1> QED
  BY <1>1, <1>2, <1>3, <1>4, <1>5, <1>6 DEF Next, Workers3

\* The inductive invariant of whichever subtask runs: its lock says who is
\* inside and with whom, and what has been done to the array so far can be
\* undone to a whole one (threads.c:138-361).
THEOREM ThreadsInvariant == Spec => []IInv
<1>1. Init => IInv
  BY ThreadsInit
<1>2. IInv /\ [Next]_vars => IInv'
  BY ThreadsStep
<1> QED
  BY <1>1, <1>2, PTL DEF Spec

\* No subtask gets past check_errno() with a worker that was not created
\* (threads.c:147-149, 205-208).
THEOREM ThreadsAllStarted == Spec => []AllStarted
<1>1. ASSUME NEW workers, Begun(workers), pc["main"] \in {"join", "lock", "print", "put", "unlock"},
             workers \subseteq {"thread1", "thread2", "thread3"}
      PROVE  \A t \in workers : pc[t] # "unborn"
  <2>1. \A t \in workers : pc["main"] \notin Before(t)
    BY <1>1 DEF Before
  <2> QED
    BY <1>1, <2>1 DEF Begun
<1>2. IInv => AllStarted
  <2> SUFFICES ASSUME IInv, task # "none", pc["main"] \in {"join", "lock", "print", "put", "unlock"}
               PROVE  \A t \in DOMAIN pc : pc[t] # "unborn"
    BY DEF AllStarted, NoWorkerMissing
  <2>1. CASE task = "1"
    BY <2>1 DEF IInv, Sem!IInv, Sem!TypeOK, Sem!TypeOKLoops, Sem!Threads, Sem!Workers,
       Sem!Born, Sem!OwnCode
  <2>2. CASE task = "2"
    <3>1. SysvInv
      BY <2>2, SysvParts DEF IInv
    <3>2. DOMAIN pc = Workers3 \cup {"main"}
      BY <3>1, SysvFacts DEF Threads3, Workers3
    <3> QED
      BY <1>1, <3>1, <3>2 DEF SysvInv, Workers3
  <2>3. CASE task = "3"
    <3>1. MutexInv
      BY <2>3, MutexParts DEF IInv
    <3>2. DOMAIN pc = Workers3 \cup {"main"}
      BY <3>1, MutexFacts DEF Threads3, Workers3
    <3> QED
      BY <1>1, <3>1, <3>2 DEF MutexInv, Workers3
  <2>4. CASE task = "4"
    <3>1. RwInv
      BY <2>4, RwParts DEF IInv
    <3>2. DOMAIN pc = Workers4 \cup {"main"}
      BY <3>1, RwFacts DEF Threads4, Workers4
    <3> QED
      BY <1>1, <3>1, <3>2 DEF RwInv, Workers4
  <2> QED
    BY <2>1, <2>2, <2>3, <2>4 DEF IInv
<1> QED
  BY <1>2, ThreadsInvariant, PTL

\* A reader of subtask 4 meets a finished array from its lock to its unlock, and
\* thread3 prints 0 or SIZE, whatever the other reader and the writers do
\* (threads.c:330-361).
THEOREM ThreadsReadersSeeWhole == Spec => []ReadersSeeWhole
<1>1. IInv => ReadersSeeWhole
  <2> SUFFICES ASSUME IInv PROVE ReadersSeeWhole
    OBVIOUS
  <2>1. CASE task = "4"
    <3>1. RwInv
      BY <2>1, RwParts DEF IInv
    <3>2. Rw!ReadersSeeWhole
      BY <3>1, RwFacts, RwOps, LoopLabels DEF Rw!ReadersSeeWhole, Rw!Readers, Rw!Reading
    <3> QED
      BY <3>1, <3>2 DEF ReadersSeeWhole, RwInv, Rw!Counting
  <2>2. CASE task # "4"
    BY <2>2 DEF IInv, ReadersSeeWhole
  <2> QED
    BY <2>1, <2>2
<1> QED
  BY <1>1, ThreadsInvariant, PTL

\* The shared sembuf is the only thing wrong with subtask 2: until a semop()
\* takes the other thread's operation, one worker is inside at a time, the array
\* it meets is whole and so is every printed line (threads.c:278-302).
THEOREM ThreadsSoundUntilMisread == Spec => []SoundUntilMisread
<1>1. IInv => SoundUntilMisread
  BY DEF IInv, SoundUntilMisread, Sysv!IInv
<1> QED
  BY <1>1, ThreadsInvariant, PTL

\* Subtasks 3 and 4 implement the array whose every operation is one atomic
\* step: change_reg(), reverse() or print_array() (threads.h:58-75).
THEOREM ThreadsImplementsObject == Spec => ImplementsObject
<1> DEFINE A == IF Locked THEN Undone ELSE InitArray
           P == IF Locked THEN printed ELSE NoLine
<1>1. /\ Atomic!InitArray = InitArray /\ Atomic!NoLine = NoLine
      /\ \A a : Atomic!ChangeAll(a) = ChangeAll(a) /\ Atomic!ReverseAll(a) = ReverseAll(a)
      /\ \A t, a : Atomic!LineOf(t, a) = [by |-> t, cells |-> Line(a, SIZE)]
  BY DEF Atomic!InitArray, InitArray, Atomic!ToChar, ToChar, Atomic!Upper, Upper, Atomic!Index, Index, Atomic!NoLine, NoLine,
         Atomic!ChangeAll, ChangeAll, Atomic!FlipCase, FlipCase, Atomic!ReverseAll, ReverseAll,
         Atomic!LineOf, Atomic!Line, Line
<1>2. Init => Atomic!Init
  BY <1>1, ThreadsInit DEF Seen, Atomic!Init
<1>3. IInv /\ [Next]_vars => [Atomic!Change \/ Atomic!Reverse \/ Atomic!Show]_(Atomic!absVars)
  <2> SUFFICES ASSUME SeenStep
               PROVE  [Atomic!Change \/ Atomic!Reverse \/ Atomic!Show]_(Atomic!absVars)
    BY ThreadsStep
  <2>1. CASE Seen' = Seen
    BY <2>1 DEF Seen, Atomic!absVars
  <2>2. CASE Locked /\ Locked' /\ ObjectStep
    <3>1. A = Undone /\ A' = Undone' /\ P = printed /\ P' = printed'
      BY <2>2
    <3> QED
      BY <1>1, <2>2, <3>1 DEF ObjectStep, Atomic!Change, Atomic!Reverse, Atomic!Show, Atomic!absVars
  <2> QED
    BY <2>1, <2>2 DEF SeenStep
<1>4. Spec => Atomic!ObjectSpec
  BY <1>2, <1>3, ThreadsInvariant, PTL DEF Spec, Atomic!ObjectSpec
<1> QED
  BY <1>4 DEF ImplementsObject

=============================================================================
