---------------------------- MODULE SemTaskProofs ----------------------------
(***************************************************************************)
(* Proofs about subtask 1, for every SIZE, and before them what they share *)
(* with those of the other subtasks: the operations of ArrayOps, what a    *)
(* partly executed loop has still to undo, and the loops of ArrayLoops,    *)
(* one thread and one access to the array at a time.                       *)
(***************************************************************************)
EXTENDS SemTask, SequenceTheorems, TLAPS

-----------------------------------------------------------------------------
(* The operations of ArrayOps.                                             *)

Arrays == [Index -> Letter]

\* Every sum is stored as a char, and on letters nothing is lost.
LEMMA CharFacts ==
  /\ \A n \in Int : ToChar(n) \in Char
  /\ \A c \in Upper : ToChar(c - 65 + 97) = FlipCase(c)
  /\ \A c \in Lower : ToChar(c - 97 + 65) = FlipCase(c)
  /\ \A k \in Index : ToChar(k + 97) = k + 97 /\ k + 97 \in Letter
  /\ \A c \in Letter : c \in Char
<1>1. \A n \in Int : ToChar(n) \in Char
  BY DEF ToChar, Char
<1>2. \A n \in Char : ToChar(n) = n
  BY DEF ToChar, Char
<1>3. \A c \in Upper : c - 65 + 97 = c + 32 /\ c - 65 + 97 \in Char
  BY DEF Upper, Char
<1>4. \A c \in Lower : c \notin Upper /\ c - 97 + 65 = c - 32 /\ c - 97 + 65 \in Char
  BY DEF Lower, Upper, Char
<1>5. \A k \in Index : k + 97 \in Char /\ k + 97 \in Lower
  BY SizeAssumption DEF Index, Lower, Char
<1>6. \A c \in Letter : c \in Char
  BY DEF Letter, Upper, Lower, Char
<1> QED
  BY <1>1, <1>2, <1>3, <1>4, <1>5, <1>6 DEF FlipCase, Letter

\* Flipping the case of a letter twice gives the letter back.
LEMMA FlipTwice ==
  ASSUME NEW c \in Letter
  PROVE  FlipCase(c) \in Letter /\ FlipCase(FlipCase(c)) = c
<1>1. CASE c \in Upper
  <2>1. FlipCase(c) = c + 32 /\ c + 32 \in Lower /\ c + 32 \notin Upper /\ c + 32 - 32 = c
    BY <1>1 DEF FlipCase, Upper, Lower
  <2>2. FlipCase(c + 32) = c + 32 - 32
    BY <1>1 DEF FlipCase, Upper
  <2> QED  BY <2>1, <2>2 DEF Letter
<1>2. CASE c \notin Upper
  <2>1. FlipCase(c) = c - 32 /\ c - 32 \in Upper /\ c - 32 + 32 = c
    BY <1>2 DEF FlipCase, Letter, Upper, Lower
  <2> QED  BY <2>1 DEF FlipCase, Letter
<1> QED  BY <1>1, <1>2

LEMMA InitLetters == InitArray \in Arrays /\ \A k \in Index : InitArray[k] = k + 97
BY CharFacts DEF InitArray, Arrays

LEMMA HalfFacts ==
  Half \in Nat /\ 2 * Half <= SIZE /\ SIZE <= 2 * Half + 1
BY SizeAssumption DEF Half

\* The operations map arrays to arrays.
LEMMA OperationsType ==
  ASSUME NEW a \in Arrays, NEW n \in Nat
  PROVE  /\ InitArray \in Arrays
         /\ ChangeAll(a) \in Arrays /\ ChangedUpTo(a, n) \in Arrays
         /\ ReverseAll(a) \in Arrays /\ ReversedUpTo(a, n) \in Arrays
<1>1. \A k \in Index : SIZE - 1 - k \in Index
  BY SizeAssumption DEF Index
<1>2. \A c \in Letter : FlipCase(c) \in Letter
  BY FlipTwice
<1>3. InitArray \in Arrays
  BY InitLetters
<1> QED
  BY <1>1, <1>2, <1>3, Zenon
     DEF Arrays, ChangeAll, ChangedUpTo, ReverseAll, ReversedUpTo

\* Undoing n + 1 iterations of change_reg() after the (n+1)st undoes n before it.
LEMMA ChangedStep ==
  ASSUME NEW a \in Arrays, NEW n \in Index
  PROVE  ChangedUpTo([a EXCEPT ![n] = FlipCase(a[n])], n + 1) = ChangedUpTo(a, n)
<1> DEFINE b == [a EXCEPT ![n] = FlipCase(a[n])]
<1>1. \A k \in Index : b[k] = IF k = n THEN FlipCase(a[n]) ELSE a[k]
  BY DEF Arrays
<1>2. FlipCase(FlipCase(a[n])) = a[n]
  BY FlipTwice DEF Arrays
<1>3. \A k \in Index : k < n + 1 <=> (k < n \/ k = n)
  BY SizeAssumption DEF Index
<1>4. ASSUME NEW k \in Index
      PROVE  (IF k < n + 1 THEN FlipCase(b[k]) ELSE b[k])
               = (IF k < n THEN FlipCase(a[k]) ELSE a[k])
  <2> HIDE DEF b
  <2>1. CASE k = n
    <3>1. k < n + 1 /\ ~(k < n)
      BY <2>1, SizeAssumption DEF Index
    <3> QED  BY <2>1, <3>1, <1>1, <1>2
  <2>2. CASE k # n
    BY <2>2, <1>1, <1>3
  <2> QED  BY <2>1, <2>2
<1> HIDE DEF b
<1>5. ChangedUpTo(b, n + 1) = ChangedUpTo(a, n)
  BY <1>4 DEF ChangedUpTo
<1> QED  BY <1>5 DEF b

LEMMA ChangedEnds ==
  ASSUME NEW a \in Arrays
  PROVE  ChangedUpTo(a, 0) = a /\ ChangedUpTo(a, SIZE) = ChangeAll(a)
<1>1. \A k \in Index : ~(k < 0) /\ k < SIZE
  BY SizeAssumption DEF Index
<1>2. a = [k \in Index |-> a[k]]
  BY DEF Arrays
<1>3. ChangedUpTo(a, 0) = [k \in Index |-> a[k]]
  BY <1>1 DEF ChangedUpTo
<1>4. ChangedUpTo(a, SIZE) = [k \in Index |-> FlipCase(a[k])]
  BY <1>1 DEF ChangedUpTo
<1> QED  BY <1>2, <1>3, <1>4 DEF ChangeAll

\* Between "left" and "right" the cell that was overwritten is in tmp.
LEMMA ReversedLeft ==
  ASSUME NEW a \in Arrays, NEW n \in Nat, n < Half
  PROVE  LET b == [a EXCEPT ![n] = a[SIZE - n - 1]]
         IN  [b EXCEPT ![n] = a[n]] = a /\ b[n] = b[SIZE - 1 - n]
<1>1. n \in Index /\ SIZE - n - 1 \in Index /\ SIZE - 1 - n = SIZE - n - 1
  BY HalfFacts, SizeAssumption DEF Index
<1> QED  BY <1>1 DEF Arrays

\* One exchange of reverse(), completed, leaves as much to undo as before it.
LEMMA ReversedStep ==
  ASSUME NEW b \in Arrays, NEW n \in Nat, n < Half, NEW c \in Letter,
         b[n] = b[SIZE - 1 - n]
  PROVE  ReversedUpTo([b EXCEPT ![SIZE - n - 1] = c], n + 1)
           = ReversedUpTo([b EXCEPT ![n] = c], n)
<1> DEFINE m == SIZE - n - 1
           x == [b EXCEPT ![m] = c]
           y == [b EXCEPT ![n] = c]
<1>1. n \in Index /\ m \in Index /\ m = SIZE - 1 - n /\ n < m
  BY HalfFacts, SizeAssumption DEF Index
<1>2. \A k \in Index : x[k] = IF k = m THEN c ELSE b[k]
  BY DEF Arrays
<1>3. \A k \in Index : y[k] = IF k = n THEN c ELSE b[k]
  BY DEF Arrays
<1>4. ASSUME NEW k \in Index
      PROVE  /\ SIZE - 1 - k \in Index
             /\ (SIZE - 1 - k = m <=> k = n) /\ (SIZE - 1 - k = n <=> k = m)
             /\ (k < n + 1 \/ k >= SIZE - (n + 1))
                  <=> (k < n \/ k >= SIZE - n \/ k = n \/ k = m)
             /\ (k = n \/ k = m) => ~(k < n \/ k >= SIZE - n)
  BY <1>1, SizeAssumption DEF Index
<1> HIDE DEF m, x, y
<1>5. ASSUME NEW k \in Index
      PROVE  (IF k < n + 1 \/ k >= SIZE - (n + 1) THEN x[SIZE - 1 - k] ELSE x[k])
               = (IF k < n \/ k >= SIZE - n THEN y[SIZE - 1 - k] ELSE y[k])
  <2>1. CASE k = n
    BY <2>1, <1>1, <1>2, <1>3, <1>4
  <2>2. CASE k = m
    BY <2>2, <1>1, <1>2, <1>3, <1>4
  <2>3. CASE k # n /\ k # m
    BY <2>3, <1>1, <1>2, <1>3, <1>4
  <2> QED  BY <2>1, <2>2, <2>3
<1>6. ReversedUpTo(x, n + 1) = ReversedUpTo(y, n)
  BY <1>5, Zenon DEF ReversedUpTo
<1> QED  BY <1>6 DEF m, x, y

LEMMA ReversedEnds ==
  ASSUME NEW a \in Arrays
  PROVE  ReversedUpTo(a, 0) = a /\ ReversedUpTo(a, Half) = ReverseAll(a)
<1>1. \A k \in Index : ~(k < 0 \/ k >= SIZE - 0)
  BY SizeAssumption DEF Index
<1>2. a = [k \in Index |-> a[k]]
  BY DEF Arrays
<1>3. ReversedUpTo(a, 0) = [k \in Index |-> a[k]]
  BY <1>1, Zenon DEF ReversedUpTo
<1>4. \A k \in Index : k < Half \/ k >= SIZE - Half \/ SIZE - 1 - k = k
  BY HalfFacts, SizeAssumption DEF Index
<1>5. \A k \in Index : (IF k < Half \/ k >= SIZE - Half THEN a[SIZE - 1 - k] ELSE a[k])
                         = a[SIZE - 1 - k]
  BY <1>4
<1>6. ReversedUpTo(a, Half) = ReverseAll(a)
  BY <1>5, Zenon DEF ReversedUpTo, ReverseAll
<1> QED  BY <1>2, <1>3, <1>6

\* change_reg() and reverse() are their own inverses and commute.
LEMMA OperationsInvert ==
  ASSUME NEW a \in Arrays
  PROVE  /\ ChangeAll(ChangeAll(a)) = a
         /\ ReverseAll(ReverseAll(a)) = a
         /\ ReverseAll(ChangeAll(a)) = ChangeAll(ReverseAll(a))
<1>1. a = [k \in Index |-> a[k]] /\ \A k \in Index : a[k] \in Letter
  BY DEF Arrays
<1>2. \A k \in Index : SIZE - 1 - k \in Index /\ SIZE - 1 - (SIZE - 1 - k) = k
  BY SizeAssumption DEF Index
<1>3. \A k \in Index : ChangeAll(a)[k] = FlipCase(a[k])
  BY Zenon DEF ChangeAll
<1>4. \A k \in Index : ReverseAll(a)[k] = a[SIZE - 1 - k]
  BY Zenon DEF ReverseAll
<1>5. ChangeAll(ChangeAll(a)) = [k \in Index |-> a[k]]
  <2>1. \A k \in Index : FlipCase(ChangeAll(a)[k]) = a[k]
    BY <1>1, <1>3, FlipTwice
  <2>2. ChangeAll(ChangeAll(a)) = [k \in Index |-> FlipCase(ChangeAll(a)[k])]
    BY Zenon DEF ChangeAll
  <2> QED  BY <2>1, <2>2
<1>6. ReverseAll(ReverseAll(a)) = [k \in Index |-> a[k]]
  <2>1. \A k \in Index : ReverseAll(a)[SIZE - 1 - k] = a[k]
    BY <1>2, <1>4
  <2>2. ReverseAll(ReverseAll(a)) = [k \in Index |-> ReverseAll(a)[SIZE - 1 - k]]
    BY Zenon DEF ReverseAll
  <2> QED  BY <2>1, <2>2
<1>7. ReverseAll(ChangeAll(a)) = ChangeAll(ReverseAll(a))
  <2>1. \A k \in Index : ChangeAll(a)[SIZE - 1 - k] = FlipCase(ReverseAll(a)[k])
    BY <1>2, <1>3, <1>4
  <2>2. ReverseAll(ChangeAll(a)) = [k \in Index |-> ChangeAll(a)[SIZE - 1 - k]]
    BY Zenon DEF ReverseAll
  <2>3. ChangeAll(ReverseAll(a)) = [k \in Index |-> FlipCase(ReverseAll(a)[k])]
    BY Zenon DEF ChangeAll
  <2> QED  BY <2>1, <2>2, <2>3
<1> QED  BY <1>1, <1>5, <1>6, <1>7

\* The whole arrays are closed under both operations.
LEMMA WholeClosed ==
  /\ WholeArrays \subseteq Arrays
  /\ InitArray \in WholeArrays
  /\ \A a \in WholeArrays : ChangeAll(a) \in WholeArrays /\ ReverseAll(a) \in WholeArrays
<1>1. InitArray \in Arrays /\ 0 \in Nat
  BY InitLetters
<1>2. ChangeAll(InitArray) \in Arrays /\ ReverseAll(InitArray) \in Arrays
  BY <1>1, OperationsType
<1>3. ReverseAll(ChangeAll(InitArray)) \in Arrays
  BY <1>1, <1>2, OperationsType
<1>4. /\ ChangeAll(ChangeAll(InitArray)) = InitArray
      /\ ReverseAll(ReverseAll(InitArray)) = InitArray
      /\ ReverseAll(ChangeAll(InitArray)) = ChangeAll(ReverseAll(InitArray))
  BY <1>1, OperationsInvert
<1>5. ReverseAll(ReverseAll(ChangeAll(InitArray))) = ChangeAll(InitArray)
  BY <1>2, OperationsInvert
<1>6. ChangeAll(ReverseAll(ChangeAll(InitArray))) = ReverseAll(InitArray)
  BY <1>2, <1>4, OperationsInvert
<1> QED
  BY <1>1, <1>2, <1>3, <1>4, <1>5, <1>6 DEF WholeArrays

\* print_array() writes one more cell of the line per iteration.
LEMMA LineStep ==
  ASSUME NEW a \in [Index -> Char], NEW n \in Index
  PROVE  /\ Line(a, n) \in Seq(Char) /\ Line(a, 0) = << >>
         /\ Append(Line(a, n), a[n]) = Line(a, n + 1)
<1>1. n \in Nat /\ \A k \in 1 .. n + 1 : k - 1 \in Index
  BY SizeAssumption DEF Index
<1>2. \A k \in 1 .. n + 1 : a[k - 1] \in Char
  BY <1>1
<1>3. Line(a, n) \in Seq(Char) /\ Len(Line(a, n)) = n
  BY <1>1, <1>2 DEF Line
<1>4. Line(a, n + 1) \in Seq(Char) /\ Len(Line(a, n + 1)) = n + 1
  BY <1>1, <1>2 DEF Line
<1>5. Append(Line(a, n), a[n]) = Line(a, n + 1)
  BY <1>1, <1>3, <1>4 DEF Line
<1>6. Line(a, 0) = << >>
  BY DEF Line
<1> QED  BY <1>3, <1>5, <1>6

-----------------------------------------------------------------------------
(* The loops keep every type, whatever other threads have made of the      *)
(* array.                                                                  *)

\* The places in the middle of an iteration.
MidLoop == {"changeZ", "toLower", "toUpper", "store", "put", "countZ",
            "left", "leftStore", "right"}

\* A step of t changes no local of another thread.
OthersKept(Ts, t) ==
  \A u \in Ts : u # t => /\ pc'[u] = pc[u] /\ i'[u] = i[u]
                         /\ tmp'[u] = tmp[u] /\ reg'[u] = reg[u]

LEMMA ChangeTyped ==
  ASSUME NEW Ts, NEW Ls, NEW t \in Ts, NEW next \in Ls,
         InChange \subseteq Ls, next \notin MidLoop \cup {"change", "reverse"},
         TypeOKLoops(Ts, Ls), LoopsBounded, ChangeReg(t, next)
  PROVE  TypeOKLoops(Ts, Ls)' /\ LoopsBounded' /\ OthersKept(Ts, t)
<1>1. /\ array \in [Index -> Char] /\ pc \in [Ts -> Ls] /\ i \in [Ts -> 0 .. SIZE]
      /\ reg \in [Ts -> Char] /\ UNCHANGED <<tmp, line, printed, errno, running>>
  BY DEF TypeOKLoops, ChangeReg, ChangeTest, ChangeTestZ, ChangeLoad, ChangeStore
<1>2. {"change", "changeZ", "toLower", "toUpper", "store"} \subseteq Ls
  BY DEF InChange
<1>3. i[t] < SIZE => i[t] \in Index /\ i[t] + 1 \in 0 .. SIZE
  BY <1>1, SizeAssumption DEF Index
<1>4. pc[t] \in {"changeZ", "toLower", "toUpper", "store"} => i[t] < SIZE
  BY <1>1 DEF LoopsBounded
<1>5. CASE ChangeTest(t, next) /\ i[t] < SIZE
  <2>1. /\ pc' = [pc EXCEPT ![t] = IF array[i[t]] >= 65 THEN "changeZ" ELSE "toUpper"]
        /\ UNCHANGED <<array, i, reg>>
    BY <1>3, <1>5, SizeAssumption DEF ChangeTest, Goto, Index
  <2>2. pc' \in [Ts -> Ls] /\ pc'[t] \in {"changeZ", "toUpper"}
    BY <1>1, <1>2, <2>1
  <2> QED
    BY <1>1, <1>5, <2>1, <2>2 DEF TypeOKLoops, LoopsBounded, OthersKept, InLoops, InChange
<1>6. CASE ChangeTest(t, next) /\ ~(i[t] < SIZE)
  <2>1. /\ array' = array /\ i' = [i EXCEPT ![t] = 0] /\ pc' = [pc EXCEPT ![t] = next]
        /\ reg' = reg
    BY <1>6 DEF ChangeTest, Goto
  <2>2. i' \in [Ts -> 0 .. SIZE] /\ pc' \in [Ts -> Ls]
    BY <1>1, <2>1, SizeAssumption
  <2> QED
    BY <1>1, <2>1, <2>2 DEF TypeOKLoops, LoopsBounded, OthersKept, MidLoop
<1>7. CASE ChangeTestZ(t)
  <2>1. /\ pc' = [pc EXCEPT ![t] = IF array[i[t]] <= 90 THEN "toLower" ELSE "toUpper"]
        /\ UNCHANGED <<array, i, reg>> /\ pc[t] = "changeZ"
    BY <1>7 DEF ChangeTestZ, Goto
  <2>2. pc' \in [Ts -> Ls] /\ pc'[t] \in {"toLower", "toUpper"}
    BY <1>1, <1>2, <2>1
  <2> QED
    BY <1>1, <1>4, <2>1, <2>2 DEF TypeOKLoops, LoopsBounded, OthersKept, InLoops, InChange
<1>8. CASE ChangeLoad(t)
  <2> DEFINE n == IF pc[t] = "toLower" THEN array[i[t]] - 65 + 97 ELSE array[i[t]] - 97 + 65
  <2>1. /\ reg' = [reg EXCEPT ![t] = ToChar(n)] /\ pc' = [pc EXCEPT ![t] = "store"]
        /\ UNCHANGED <<array, i>> /\ pc[t] \in {"toLower", "toUpper"}
    BY <1>8 DEF ChangeLoad, Goto
  <2>2. array[i[t]] \in Int
    BY <1>1, <1>3, <1>4, <2>1 DEF Char
  <2>3. n \in Int
    BY <2>2
  <2>4. ToChar(n) \in Char
    BY <2>3, CharFacts
  <2> HIDE DEF n
  <2>5. reg' \in [Ts -> Char] /\ pc' \in [Ts -> Ls] /\ pc'[t] = "store"
    BY <1>1, <1>2, <2>1, <2>4
  <2> QED
    BY <1>1, <1>4, <2>1, <2>5 DEF TypeOKLoops, LoopsBounded, OthersKept, InLoops, InChange
<1>9. CASE ChangeStore(t)
  <2>1. /\ array' = [array EXCEPT ![i[t]] = reg[t]] /\ i' = [i EXCEPT ![t] = i[t] + 1]
        /\ pc' = [pc EXCEPT ![t] = "change"] /\ reg' = reg /\ pc[t] = "store"
    BY <1>9 DEF ChangeStore, Goto
  <2>2. /\ array' \in [Index -> Char] /\ i' \in [Ts -> 0 .. SIZE] /\ pc' \in [Ts -> Ls]
        /\ pc'[t] = "change"
    BY <1>1, <1>2, <1>3, <1>4, <2>1
  <2> QED
    BY <1>1, <2>1, <2>2 DEF TypeOKLoops, LoopsBounded, OthersKept, InLoops, InChange
<1> QED
  BY <1>5, <1>6, <1>7, <1>8, <1>9 DEF ChangeReg

LEMMA ReverseTyped ==
  ASSUME NEW Ts, NEW Ls, NEW t \in Ts, NEW next \in Ls,
         InReverse \subseteq Ls, next \notin MidLoop \cup {"change", "reverse"},
         TypeOKLoops(Ts, Ls), LoopsBounded, ReverseArray(t, next)
  PROVE  TypeOKLoops(Ts, Ls)' /\ LoopsBounded' /\ OthersKept(Ts, t)
<1>1. /\ array \in [Index -> Char] /\ pc \in [Ts -> Ls] /\ i \in [Ts -> 0 .. SIZE]
      /\ tmp \in [Ts -> Char] /\ reg \in [Ts -> Char]
      /\ UNCHANGED <<line, printed, errno, running>>
  BY DEF TypeOKLoops, ReverseArray, ReverseLoad, ReverseLeft, ReverseLeftStore, ReverseRight
<1>2. {"reverse", "left", "leftStore", "right"} \subseteq Ls
  BY DEF InReverse
<1>3. /\ pc[t] = "reverse" => i[t] \in 0 .. Half
      /\ pc[t] \in {"left", "leftStore", "right"} => i[t] \in 0 .. Half /\ i[t] < Half
      /\ Half \in Nat /\ Half <= SIZE
  BY <1>1, HalfFacts, SizeAssumption DEF LoopsBounded
<1>4. ASSUME i[t] < Half, i[t] \in 0 .. Half
      PROVE  /\ i[t] \in Index /\ SIZE - i[t] - 1 \in Index
             /\ i[t] + 1 \in 0 .. SIZE /\ i[t] + 1 <= Half
  BY <1>4, HalfFacts, SizeAssumption DEF Index
<1>5. CASE ReverseLoad(t, next) /\ i[t] < Half
  <2>1. /\ tmp' = [tmp EXCEPT ![t] = array[i[t]]] /\ pc' = [pc EXCEPT ![t] = "left"]
        /\ UNCHANGED <<array, i, reg>> /\ pc[t] = "reverse"
    BY <1>3, <1>5 DEF ReverseLoad, Goto
  <2>2. tmp' \in [Ts -> Char] /\ pc' \in [Ts -> Ls] /\ pc'[t] = "left"
    BY <1>1, <1>2, <1>3, <1>4, <1>5, <2>1
  <2> QED
    BY <1>1, <1>5, <2>1, <2>2 DEF TypeOKLoops, LoopsBounded, OthersKept, InLoops, InReverse
<1>6. CASE ReverseLoad(t, next) /\ ~(i[t] < Half)
  <2>1. /\ i' = [i EXCEPT ![t] = 0] /\ pc' = [pc EXCEPT ![t] = next]
        /\ UNCHANGED <<array, tmp, reg>>
    BY <1>6 DEF ReverseLoad, Goto
  <2>2. i' \in [Ts -> 0 .. SIZE] /\ pc' \in [Ts -> Ls]
    BY <1>1, <2>1, SizeAssumption
  <2> QED
    BY <1>1, <2>1, <2>2 DEF TypeOKLoops, LoopsBounded, OthersKept, MidLoop
<1>7. CASE ReverseLeft(t)
  <2>1. /\ reg' = [reg EXCEPT ![t] = array[SIZE - i[t] - 1]]
        /\ pc' = [pc EXCEPT ![t] = "leftStore"] /\ UNCHANGED <<array, i, tmp>> /\ pc[t] = "left"
    BY <1>7 DEF ReverseLeft, Goto
  <2>2. reg' \in [Ts -> Char] /\ pc' \in [Ts -> Ls] /\ pc'[t] = "leftStore"
    BY <1>1, <1>2, <1>3, <1>4, <2>1
  <2> QED
    BY <1>1, <1>3, <2>1, <2>2 DEF TypeOKLoops, LoopsBounded, OthersKept, InLoops, InReverse
<1>8. CASE ReverseLeftStore(t)
  <2>1. /\ array' = [array EXCEPT ![i[t]] = reg[t]] /\ pc' = [pc EXCEPT ![t] = "right"]
        /\ UNCHANGED <<i, tmp, reg>> /\ pc[t] = "leftStore"
    BY <1>8 DEF ReverseLeftStore, Goto
  <2>2. array' \in [Index -> Char] /\ pc' \in [Ts -> Ls] /\ pc'[t] = "right"
    BY <1>1, <1>2, <1>3, <1>4, <2>1
  <2> QED
    BY <1>1, <1>3, <2>1, <2>2 DEF TypeOKLoops, LoopsBounded, OthersKept, InLoops, InReverse
<1>9. CASE ReverseRight(t)
  <2>1. /\ array' = [array EXCEPT ![SIZE - i[t] - 1] = tmp[t]]
        /\ pc' = [pc EXCEPT ![t] = "reverse"] /\ i' = [i EXCEPT ![t] = i[t] + 1]
        /\ UNCHANGED <<tmp, reg>> /\ pc[t] = "right"
    BY <1>9 DEF ReverseRight, Goto
  <2>2. /\ array' \in [Index -> Char] /\ pc' \in [Ts -> Ls] /\ i' \in [Ts -> 0 .. SIZE]
        /\ pc'[t] = "reverse" /\ i'[t] <= Half
    BY <1>1, <1>2, <1>3, <1>4, <2>1
  <2> QED
    BY <1>1, <2>1, <2>2 DEF TypeOKLoops, LoopsBounded, OthersKept, InLoops, InReverse
<1> QED
  BY <1>5, <1>6, <1>7, <1>8, <1>9 DEF ReverseArray

LEMMA PrintTyped ==
  ASSUME NEW Ts, NEW Ls, NEW t \in Ts, NEW next \in Ls,
         InPrint \subseteq Ls, next \notin MidLoop \cup {"change", "reverse"},
         TypeOKLoops(Ts, Ls), LoopsBounded, PrintArray(t, next)
  PROVE  TypeOKLoops(Ts, Ls)' /\ LoopsBounded' /\ OthersKept(Ts, t)
<1>1. /\ array \in [Index -> Char] /\ pc \in [Ts -> Ls] /\ i \in [Ts -> 0 .. SIZE]
      /\ reg \in [Ts -> Char] /\ line \in Seq(Char) /\ UNCHANGED <<array, tmp, errno, running>>
  BY DEF TypeOKLoops, PrintArray, PrintRead, PrintCell, PrintNewline
<1>2. {"print", "put"} \subseteq Ls
  BY DEF InPrint
<1>3. i[t] < SIZE => i[t] \in Index /\ i[t] + 1 \in 0 .. SIZE
  BY <1>1, SizeAssumption DEF Index
<1>4. CASE PrintRead(t)
  <2>1. /\ reg' = [reg EXCEPT ![t] = array[i[t]]] /\ pc' = [pc EXCEPT ![t] = "put"]
        /\ i[t] < SIZE /\ UNCHANGED <<i, line, printed>>
    BY <1>4 DEF PrintRead, Goto
  <2>2. reg' \in [Ts -> Char] /\ pc' \in [Ts -> Ls] /\ pc'[t] = "put"
    BY <1>1, <1>2, <1>3, <2>1
  <2> QED
    BY <1>1, <2>1, <2>2 DEF TypeOKLoops, LoopsBounded, OthersKept, InLoops, InPrint
<1>5. CASE PrintCell(t)
  <2>1. /\ line' = Append(line, reg[t]) /\ i' = [i EXCEPT ![t] = i[t] + 1]
        /\ pc' = [pc EXCEPT ![t] = "print"] /\ pc[t] = "put" /\ UNCHANGED <<reg, printed>>
    BY <1>5 DEF PrintCell, Goto
  <2>2. i[t] < SIZE
    BY <1>1, <2>1 DEF LoopsBounded
  <2>3. line' \in Seq(Char) /\ i' \in [Ts -> 0 .. SIZE] /\ pc' \in [Ts -> Ls] /\ pc'[t] = "print"
    BY <1>1, <1>2, <1>3, <2>1, <2>2
  <2> QED
    BY <1>1, <2>1, <2>3 DEF TypeOKLoops, LoopsBounded, OthersKept, InLoops, InPrint
<1>6. CASE PrintNewline(t, next)
  <2>1. /\ printed' = [by |-> t, cells |-> line] /\ line' = << >> /\ reg' = reg
        /\ i' = [i EXCEPT ![t] = 0] /\ pc' = [pc EXCEPT ![t] = next]
    BY <1>6 DEF PrintNewline, Goto
  <2>2. i' \in [Ts -> 0 .. SIZE] /\ pc' \in [Ts -> Ls]
    BY <1>1, <2>1, SizeAssumption
  <2>3. printed'.cells \in Seq(Char) /\ line' \in Seq(Char)
    BY <1>1, <2>1
  <2> QED
    BY <1>1, <2>1, <2>2, <2>3 DEF TypeOKLoops, LoopsBounded, OthersKept, MidLoop
<1> QED
  BY <1>4, <1>5, <1>6 DEF PrintArray

-----------------------------------------------------------------------------
(* What a step of a loop leaves to undo.                                   *)

\* Undone without the order of its cases; no two threads change the array.
UndoneIs ==
  /\ pc["thread1"] \in InChange => Undone = ChangedUpTo(array, i["thread1"])
  /\ pc["thread2"] \in {"reverse", "left", "leftStore"} =>
       Undone = ReversedUpTo(array, i["thread2"])
  /\ pc["thread2"] = "right" =>
       Undone = ReversedUpTo([array EXCEPT ![i["thread2"]] = tmp["thread2"]], i["thread2"])
  /\ pc["thread1"] \notin InChange /\ pc["thread2"] \notin InReverse => Undone = array

Apart == ~(pc["thread1"] \in InChange /\ pc["thread2"] \in InReverse)

LEMMA UndoneCases == (Apart => UndoneIs) /\ (Apart' => UndoneIs')
<1>1. Apart => UndoneIs
  BY DEF Apart, UndoneIs, Undone, InReverse
<1>2. Apart' => UndoneIs'
  BY DEF Apart, UndoneIs, Undone, InReverse
<1> QED
  BY <1>1, <1>2

\* The store of change_reg() has one cell more to undo; the last step of its
\* loop is where the operation happens.
LEMMA ChangeSound ==
  ASSUME NEW Ts, NEW Ls, "thread1" \in Ts, "thread2" \in Ts, NEW next \in Ls,
         next \notin InChange, pc["thread2"] \notin InReverse,
         TypeOKLoops(Ts, Ls), LoopsBounded, LoopsSound, OthersKept(Ts, "thread1"),
         ChangeReg("thread1", next)
  PROVE  /\ LoopsSound' /\ UNCHANGED <<line, printed>>
         /\ \/ Undone' = Undone /\ pc'["thread1"] \in InChange
            \/ /\ Undone' = ChangeAll(Undone)
               /\ pc'["thread1"] = next /\ i'["thread1"] = 0
<1> DEFINE n == i["thread1"]
<1>1. /\ array \in Arrays /\ pc \in [Ts -> Ls] /\ i \in [Ts -> 0 .. SIZE]
      /\ reg \in [Ts -> Char] /\ UNCHANGED <<tmp, line, printed>>
      /\ pc["thread1"] \in InChange
  BY DEF TypeOKLoops, LoopsSound, LoopsKnow, ChangeReg, ChangeTest, ChangeTestZ, ChangeLoad,
         ChangeStore, Arrays, InChange
<1>2. pc'["thread2"] = pc["thread2"] /\ pc'["thread2"] \notin InReverse
  BY DEF OthersKept
<1>3. UndoneIs /\ UndoneIs'
  BY <1>2, UndoneCases DEF Apart
<1>4. Undone = ChangedUpTo(array, n) /\ Undone \in WholeArrays
  BY <1>1, <1>3 DEF UndoneIs, LoopsSound
<1>5. ReverseKnows("thread2")'
  BY <1>2 DEF ReverseKnows, InReverse
<1>6. n < SIZE => n \in Index /\ array[n] \in Letter
  BY <1>1, SizeAssumption DEF Index, Arrays
<1>7. ASSUME array' = array, i' = i, pc'["thread1"] \in InChange, ChangeKnows("thread1")'
      PROVE  LoopsSound' /\ Undone' = Undone
  <2>1. Undone' = Undone
    BY <1>3, <1>4, <1>7 DEF UndoneIs
  <2> QED
    BY <1>1, <1>4, <1>5, <1>7, <2>1 DEF LoopsSound, LoopsKnow, Arrays
<1>8. CASE ChangeTest("thread1", next) /\ n < SIZE
  <2>1. /\ array' = array /\ i' = i
        /\ pc' = [pc EXCEPT !["thread1"] = IF array[n] >= 65 THEN "changeZ" ELSE "toUpper"]
    BY <1>6, <1>8, SizeAssumption DEF ChangeTest, Goto, Index
  <2>2. array[n] >= 65
    BY <1>6, <1>8 DEF Letter, Upper, Lower
  <2>3. pc'["thread1"] = IF array[n] >= 65 THEN "changeZ" ELSE "toUpper"
    BY <1>1, <2>1
  <2>4. pc'["thread1"] = "changeZ"
    BY <2>2, <2>3
  <2> QED
    BY <1>1, <1>7, <2>1, <2>4 DEF ChangeKnows, InChange
<1>9. CASE ChangeTest("thread1", next) /\ ~(n < SIZE)
  <2>1. n = SIZE /\ array' = array /\ i'["thread1"] = 0 /\ pc'["thread1"] = next
    BY <1>1, <1>9 DEF ChangeTest, Goto
  <2>2. Undone' = array
    BY <1>2, <1>3, <2>1 DEF UndoneIs
  <2>3. Undone = ChangeAll(array)
    BY <1>1, <1>4, <2>1, ChangedEnds
  <2>4. Undone' = ChangeAll(Undone)
    BY <1>1, <2>2, <2>3, OperationsInvert
  <2>5. Undone' \in WholeArrays
    BY <1>4, <2>4, WholeClosed
  <2>6. ChangeKnows("thread1")'
    BY <2>1 DEF ChangeKnows, InChange
  <2> QED
    BY <1>1, <1>5, <2>1, <2>4, <2>5, <2>6 DEF LoopsSound, LoopsKnow, Arrays
<1>10. CASE ChangeTestZ("thread1")
  <2>1. /\ array' = array /\ i' = i /\ n < SIZE
        /\ pc' = [pc EXCEPT !["thread1"] = IF array[n] <= 90 THEN "toLower" ELSE "toUpper"]
    BY <1>1, <1>10 DEF ChangeTestZ, Goto, LoopsBounded
  <2>2. (array[n] <= 90 => array[n] \in Upper) /\ (~(array[n] <= 90) => array[n] \in Lower)
    BY <1>6, <2>1 DEF Letter, Upper, Lower
  <2>3. pc'["thread1"] = IF array[n] <= 90 THEN "toLower" ELSE "toUpper"
    BY <1>1, <2>1
  <2>4. \/ pc'["thread1"] = "toLower" /\ array[n] \in Upper
        \/ pc'["thread1"] = "toUpper" /\ array[n] \in Lower
    BY <2>2, <2>3
  <2> QED
    BY <1>1, <1>7, <2>1, <2>4 DEF ChangeKnows, InChange
<1>11. CASE ChangeLoad("thread1")
  <2>1. /\ array' = array /\ i' = i /\ pc["thread1"] \in {"toLower", "toUpper"}
        /\ pc'["thread1"] = "store"
        /\ reg'["thread1"] = ToChar(IF pc["thread1"] = "toLower" THEN array[n] - 65 + 97
                                                                ELSE array[n] - 97 + 65)
    BY <1>1, <1>11 DEF ChangeLoad, Goto
  <2>2. ChangeKnows("thread1")
    BY DEF LoopsSound, LoopsKnow
  <2>3. reg'["thread1"] = FlipCase(array[n])
    <3>1. CASE pc["thread1"] = "toLower"
      BY <2>1, <2>2, <3>1, CharFacts DEF ChangeKnows
    <3>2. CASE pc["thread1"] = "toUpper"
      BY <2>1, <2>2, <3>2, CharFacts DEF ChangeKnows
    <3> QED
      BY <2>1, <3>1, <3>2
  <2> QED
    BY <1>1, <1>7, <2>1, <2>3 DEF ChangeKnows, InChange
<1>12. CASE ChangeStore("thread1")
  <2>1. /\ array' = [array EXCEPT ![n] = reg["thread1"]] /\ i'["thread1"] = n + 1
        /\ pc["thread1"] = "store" /\ pc'["thread1"] = "change"
    BY <1>1, <1>12 DEF ChangeStore, Goto
  <2>2. n \in Index /\ array[n] \in Letter /\ reg["thread1"] = FlipCase(array[n])
    BY <1>1, <1>6, <2>1 DEF LoopsBounded, LoopsSound, LoopsKnow, ChangeKnows
  <2>3. array' \in Arrays
    BY <1>1, <2>1, <2>2, FlipTwice DEF Arrays
  <2>4. Undone' = ChangedUpTo(array', n + 1)
    BY <1>3, <2>1 DEF UndoneIs, InChange
  <2>5. Undone' = Undone
    BY <1>1, <1>4, <2>1, <2>2, <2>4, ChangedStep
  <2>6. ChangeKnows("thread1")' /\ pc'["thread1"] \in InChange
    BY <2>1 DEF ChangeKnows, InChange
  <2> QED
    BY <1>1, <1>4, <1>5, <2>3, <2>5, <2>6 DEF LoopsSound, LoopsKnow, Arrays
<1> QED
  BY <1>1, <1>7, <1>8, <1>9, <1>10, <1>11, <1>12 DEF ChangeReg

LEMMA ReverseSound ==
  ASSUME NEW Ts, NEW Ls, "thread1" \in Ts, "thread2" \in Ts, NEW next \in Ls,
         next \notin InReverse, pc["thread1"] \notin InChange,
         TypeOKLoops(Ts, Ls), LoopsBounded, LoopsSound, OthersKept(Ts, "thread2"),
         ReverseArray("thread2", next)
  PROVE  /\ LoopsSound' /\ UNCHANGED <<line, printed>>
         /\ \/ Undone' = Undone /\ pc'["thread2"] \in InReverse
            \/ /\ Undone' = ReverseAll(Undone)
               /\ pc'["thread2"] = next /\ i'["thread2"] = 0
<1> DEFINE n == i["thread2"]
<1>1. /\ array \in Arrays /\ pc \in [Ts -> Ls] /\ i \in [Ts -> 0 .. SIZE]
      /\ tmp \in [Ts -> Char] /\ reg \in [Ts -> Char] /\ UNCHANGED <<line, printed>>
      /\ pc["thread2"] \in InReverse
  BY DEF TypeOKLoops, LoopsSound, LoopsKnow, ReverseArray, ReverseLoad, ReverseLeft,
         ReverseLeftStore, ReverseRight, Arrays, InReverse
<1>2. pc'["thread1"] = pc["thread1"] /\ pc'["thread1"] \notin InChange
  BY DEF OthersKept
<1>3. UndoneIs /\ UndoneIs' /\ Undone \in WholeArrays
  BY <1>2, UndoneCases DEF Apart, LoopsSound
<1>4. ChangeKnows("thread1")' /\ ReverseKnows("thread2")
  BY <1>2 DEF ChangeKnows, InChange, LoopsSound, LoopsKnow
<1>5. /\ n \in Nat
      /\ n < Half => n \in Index /\ SIZE - n - 1 \in Index /\ SIZE - n - 1 = SIZE - 1 - n
                     /\ n # SIZE - n - 1
  BY <1>1, HalfFacts, SizeAssumption DEF Index
<1>6. CASE ReverseLoad("thread2", next) /\ n < Half
  <2>1. /\ array' = array /\ i' = i /\ pc["thread2"] = "reverse" /\ pc'["thread2"] = "left"
        /\ tmp'["thread2"] = array[n]
    BY <1>1, <1>5, <1>6, HalfFacts DEF ReverseLoad, Goto
  <2>2. Undone' = Undone
    BY <1>3, <2>1 DEF UndoneIs
  <2>3. ReverseKnows("thread2")' /\ pc'["thread2"] \in InReverse
    BY <2>1 DEF ReverseKnows, InReverse
  <2> QED
    BY <1>1, <1>3, <1>4, <2>1, <2>2, <2>3 DEF LoopsSound, LoopsKnow, Arrays
<1>7. CASE ReverseLoad("thread2", next) /\ ~(n < Half)
  <2>1. /\ n = Half /\ array' = array /\ i'["thread2"] = 0 /\ pc'["thread2"] = next
        /\ pc["thread2"] = "reverse"
    BY <1>1, <1>7 DEF ReverseLoad, Goto
  <2>2. Undone' = array
    BY <1>2, <1>3, <2>1 DEF UndoneIs
  <2>3. Undone = ReversedUpTo(array, Half)
    BY <1>3, <2>1 DEF UndoneIs
  <2>4. Undone = ReverseAll(array)
    BY <1>1, <2>3, ReversedEnds
  <2>5. Undone' = ReverseAll(Undone)
    BY <1>1, <2>2, <2>4, OperationsInvert
  <2>6. Undone' \in WholeArrays
    BY <1>3, <2>5, WholeClosed
  <2>7. ReverseKnows("thread2")'
    BY <2>1 DEF ReverseKnows, InReverse
  <2> QED
    BY <1>1, <1>4, <2>1, <2>5, <2>6, <2>7 DEF LoopsSound, LoopsKnow, Arrays
<1>8. CASE ReverseLeft("thread2")
  <2>1. /\ array' = array /\ i' = i /\ tmp' = tmp /\ pc["thread2"] = "left"
        /\ pc'["thread2"] = "leftStore" /\ reg'["thread2"] = array[SIZE - n - 1]
    BY <1>1, <1>8 DEF ReverseLeft, Goto
  <2>2. n < Half
    BY <1>1, <2>1 DEF LoopsBounded
  <2>3. Undone' = Undone
    BY <1>3, <2>1 DEF UndoneIs
  <2>4. ReverseKnows("thread2")' /\ pc'["thread2"] \in InReverse
    BY <1>4, <1>5, <2>1, <2>2 DEF ReverseKnows, InReverse
  <2> QED
    BY <1>1, <1>3, <1>4, <2>1, <2>3, <2>4 DEF LoopsSound, LoopsKnow, Arrays
<1>9. CASE ReverseLeftStore("thread2")
  <2>1. /\ array' = [array EXCEPT ![n] = reg["thread2"]] /\ i' = i /\ tmp' = tmp
        /\ pc["thread2"] = "leftStore" /\ pc'["thread2"] = "right"
    BY <1>1, <1>9 DEF ReverseLeftStore, Goto
  <2>2. n < Half
    BY <1>1, <2>1 DEF LoopsBounded
  <2>3. tmp["thread2"] = array[n] /\ reg["thread2"] = array[SIZE - n - 1]
    BY <1>4, <1>5, <2>1, <2>2 DEF ReverseKnows
  <2>4. Undone = ReversedUpTo(array, n)
    BY <1>3, <2>1 DEF UndoneIs
  <2>5. Undone' = ReversedUpTo([array' EXCEPT ![n] = array[n]], n)
    BY <1>3, <2>1, <2>3 DEF UndoneIs
  <2>6. [array' EXCEPT ![n] = array[n]] = array /\ array'[n] = array'[SIZE - 1 - n]
    BY <1>1, <1>5, <2>1, <2>2, <2>3, ReversedLeft
  <2>7. array' \in Arrays /\ array[n] \in Letter
    BY <1>1, <1>5, <2>1, <2>2, <2>3 DEF Arrays
  <2>8. ReverseKnows("thread2")' /\ pc'["thread2"] \in InReverse
    BY <2>1, <2>3, <2>6, <2>7 DEF ReverseKnows, InReverse
  <2> QED
    BY <1>1, <1>3, <1>4, <2>1, <2>4, <2>5, <2>6, <2>7, <2>8 DEF LoopsSound, LoopsKnow, Arrays
<1>10. CASE ReverseRight("thread2")
  <2>1. /\ array' = [array EXCEPT ![SIZE - n - 1] = tmp["thread2"]]
        /\ i'["thread2"] = n + 1 /\ pc'["thread2"] = "reverse" /\ pc["thread2"] = "right"
    BY <1>1, <1>10 DEF ReverseRight, Goto
  <2>2. n < Half /\ array[n] = array[SIZE - 1 - n] /\ tmp["thread2"] \in Letter
    BY <1>1, <1>4, <2>1 DEF LoopsBounded, ReverseKnows
  <2>3. Undone = ReversedUpTo([array EXCEPT ![n] = tmp["thread2"]], n)
    BY <1>3, <2>1 DEF UndoneIs
  <2>4. Undone' = ReversedUpTo(array', n + 1)
    BY <1>3, <2>1 DEF UndoneIs
  <2>5. Undone' = Undone
    BY <1>1, <1>5, <2>1, <2>2, <2>3, <2>4, ReversedStep
  <2>6. array' \in Arrays
    BY <1>1, <1>5, <2>1, <2>2 DEF Arrays
  <2>7. ReverseKnows("thread2")' /\ pc'["thread2"] \in InReverse
    BY <2>1 DEF ReverseKnows, InReverse
  <2> QED
    BY <1>1, <1>3, <1>4, <2>5, <2>6, <2>7 DEF LoopsSound, LoopsKnow, Arrays
<1> QED
  BY <1>6, <1>7, <1>8, <1>9, <1>10 DEF ReverseArray

\* A thread that rests stays where it is in its loop, keeps out of it, or has
\* come to its top.
Rests(u, loop) ==
  \/ /\ pc'[u] = pc[u] /\ i'[u] = i[u]
     /\ tmp'[u] = tmp[u] /\ reg'[u] = reg[u]
  \/ pc[u] \notin loop /\ pc'[u] \notin loop
  \/ pc[u] \notin loop /\ pc'[u] \in {"change", "reverse"} /\ i'[u] = 0

\* A step that changes no cell and at most takes a thread into the loop of its
\* operation leaves nothing more to undo.
LEMMA QuietSound ==
  ASSUME LoopsSound, Apart, Apart', array' = array,
         Rests("thread1", InChange), Rests("thread2", InReverse)
  PROVE  LoopsSound' /\ Undone' = Undone
<1>1. UndoneIs /\ UndoneIs' /\ array \in Arrays
  BY UndoneCases DEF LoopsSound, LoopsKnow, Arrays
<1>2. ChangedUpTo(array, 0) = array /\ ReversedUpTo(array, 0) = array
  BY <1>1, ChangedEnds, ReversedEnds
<1>3. Undone' = Undone
  <2>1. CASE pc["thread1"] \in InChange
    <3>1. pc'["thread1"] = pc["thread1"] /\ i'["thread1"] = i["thread1"]
      BY <2>1 DEF Rests
    <3> QED
      BY <1>1, <2>1, <3>1 DEF UndoneIs
  <2>2. CASE pc["thread2"] \in InReverse
    <3>1. /\ pc'["thread2"] = pc["thread2"] /\ i'["thread2"] = i["thread2"]
          /\ tmp'["thread2"] = tmp["thread2"]
      BY <2>2 DEF Rests
    <3> QED
      BY <1>1, <2>2, <3>1 DEF UndoneIs, InReverse
  <2>3. CASE pc["thread1"] \notin InChange /\ pc["thread2"] \notin InReverse
    <3>1. Undone = array
      BY <1>1, <2>3 DEF UndoneIs
    <3>2. pc'["thread1"] \in InChange => i'["thread1"] = 0
      BY <2>3 DEF Rests
    <3>3. pc'["thread2"] \in InReverse => pc'["thread2"] = "reverse" /\ i'["thread2"] = 0
      BY <2>3 DEF Rests, InReverse
    <3> QED
      BY <1>1, <1>2, <3>1, <3>2, <3>3 DEF UndoneIs
  <2> QED
    BY <2>1, <2>2, <2>3
<1>4. ChangeKnows("thread1")'
  BY DEF Rests, LoopsSound, LoopsKnow, ChangeKnows, InChange
<1>5. ReverseKnows("thread2")'
  BY DEF Rests, LoopsSound, LoopsKnow, ReverseKnows, InReverse
<1> QED
  BY <1>3, <1>4, <1>5 DEF LoopsSound, LoopsKnow

-----------------------------------------------------------------------------
(* The unfinished line.                                                    *)

LEMMA EmptyLine == \A a : Line(a, 0) = << >>
BY DEF Line

\* print_array() of t, with no other printer at it.
LEMMA PrintFollows ==
  ASSUME NEW Ts, NEW Ls, NEW printers \in SUBSET Ts, NEW t \in printers, NEW next \in Ls,
         next \notin InPrint, \A u \in printers : u # t => pc[u] \notin InPrint,
         TypeOKLoops(Ts, Ls), LoopsBounded, LineFollows(printers), OthersKept(Ts, t),
         PrintArray(t, next)
  PROVE  /\ LineFollows(printers)' /\ array' = array
         /\ pc[t] \in InPrint
         /\ \/ printed' = printed /\ pc'[t] \in InPrint
            \/ /\ printed' = [by |-> t, cells |-> Line(array, SIZE)]
               /\ pc'[t] = next /\ i'[t] = 0
<1>1. /\ array \in [Index -> Char] /\ pc \in [Ts -> Ls] /\ i \in [Ts -> 0 .. SIZE]
      /\ reg \in [Ts -> Char] /\ array' = array /\ t \in Ts
      /\ pc[t] \in InPrint /\ line = Line(array, i[t])
  BY DEF TypeOKLoops, PrintArray, PrintRead, PrintCell, PrintNewline, LineFollows, InPrint
<1>2. \A u \in printers : u # t => pc'[u] \notin InPrint
  BY DEF OthersKept
<1>3. CASE PrintRead(t)
  <2>1. /\ reg'[t] = array[i[t]] /\ pc'[t] = "put" /\ UNCHANGED <<i, line, printed>>
    BY <1>1, <1>3 DEF PrintRead, Goto
  <2>2. pc'[t] \in InPrint
    BY <2>1 DEF InPrint
  <2>3. LineFollows(printers)'
    BY <1>1, <1>2, <2>1, <2>2 DEF LineFollows, InPrint
  <2> QED
    BY <1>1, <2>1, <2>2, <2>3
<1>4. CASE PrintCell(t)
  <2>1. /\ line' = Append(line, reg[t]) /\ i'[t] = i[t] + 1 /\ printed' = printed
        /\ pc[t] = "put" /\ pc'[t] = "print"
    BY <1>1, <1>4 DEF PrintCell, Goto
  <2>2. reg[t] = array[i[t]]
    BY <2>1 DEF LineFollows
  <2>3. i[t] \in Index
    BY <1>1, <2>1, SizeAssumption DEF LoopsBounded, Index
  <2>4. line' = Line(array', i'[t])
    BY <1>1, <2>1, <2>2, <2>3, LineStep
  <2>5. pc'[t] \in InPrint
    BY <2>1 DEF InPrint
  <2>6. LineFollows(printers)'
    BY <1>2, <2>1, <2>4, <2>5 DEF LineFollows, InPrint
  <2> QED
    BY <1>1, <2>1, <2>5, <2>6
<1>5. CASE PrintNewline(t, next)
  <2>1. /\ printed' = [by |-> t, cells |-> line] /\ line' = << >>
        /\ i[t] = SIZE /\ i'[t] = 0 /\ pc'[t] = next
    BY <1>1, <1>5 DEF PrintNewline, Goto
  <2>2. LineFollows(printers)'
    BY <1>2, <2>1 DEF LineFollows, InPrint
  <2> QED
    BY <1>1, <2>1, <2>2
<1> QED
  BY <1>3, <1>4, <1>5 DEF PrintArray

\* Any other step leaves the line alone, or finds and leaves it empty.
LEMMA LineKept ==
  ASSUME NEW printers, LineFollows(printers), line' = line,
         \/ /\ array' = array
            /\ \A u \in printers : pc[u] \in InPrint \/ pc'[u] \in InPrint =>
                 pc'[u] = pc[u] /\ i'[u] = i[u] /\ reg'[u] = reg[u]
         \/ \A u \in printers :
              pc[u] \notin InPrint /\ (pc'[u] \in InPrint => pc'[u] = "print" /\ i'[u] = 0)
  PROVE  LineFollows(printers)'
<1>1. CASE \A u \in printers :
             pc[u] \notin InPrint /\ (pc'[u] \in InPrint => pc'[u] = "print" /\ i'[u] = 0)
  <2>1. line' = << >>
    BY <1>1 DEF LineFollows
  <2>2. \A u \in printers : /\ pc'[u] \in InPrint => line' = Line(array', i'[u])
                            /\ pc'[u] # "put"
    BY <1>1, <2>1, EmptyLine DEF InPrint
  <2> QED
    BY <2>1, <2>2 DEF LineFollows
<1>2. CASE /\ array' = array
           /\ \A u \in printers : pc[u] \in InPrint \/ pc'[u] \in InPrint =>
                pc'[u] = pc[u] /\ i'[u] = i[u] /\ reg'[u] = reg[u]
  BY <1>2 DEF LineFollows, InPrint
<1> QED
  BY <1>1, <1>2

-----------------------------------------------------------------------------
(* The steps between the loops.                                            *)

\* Threads go from label to label and the locals stay; no thread leaves a loop,
\* and one that enters a loop enters at its top.
Quiet(Ts, Ls) ==
  /\ UNCHANGED <<array, i, tmp, reg, line, printed>>
  /\ errno' \in BOOLEAN /\ running' \in BOOLEAN
  /\ pc' \in [Ts -> Ls]
  /\ \A u \in Ts : pc'[u] # pc[u] => pc[u] \notin InLoops /\ pc'[u] \notin MidLoop

LEMMA QuietTyped ==
  ASSUME NEW Ts, NEW Ls, TypeOKLoops(Ts, Ls), LoopsBounded, Quiet(Ts, Ls)
  PROVE  TypeOKLoops(Ts, Ls)' /\ LoopsBounded'
<1>1. TypeOKLoops(Ts, Ls)'
  BY DEF TypeOKLoops, Quiet
<1>2. DOMAIN pc = Ts /\ DOMAIN pc' = Ts /\ i' = i
  BY DEF TypeOKLoops, Quiet
<1>3. ASSUME NEW u \in Ts
      PROVE  /\ pc'[u] \notin InLoops => i'[u] = 0
             /\ pc'[u] \in {"changeZ", "toLower", "toUpper", "store", "put", "countZ"} =>
                  i'[u] < SIZE
             /\ pc'[u] = "reverse" => i'[u] <= Half
             /\ pc'[u] \in {"left", "leftStore", "right"} => i'[u] < Half
  <2>1. CASE pc'[u] = pc[u]
    BY <1>2, <2>1 DEF LoopsBounded
  <2>2. CASE pc'[u] # pc[u]
    <3>1. i'[u] = 0 /\ pc'[u] \notin MidLoop
      BY <1>2, <2>2 DEF LoopsBounded, Quiet
    <3> QED
      BY <3>1, HalfFacts DEF MidLoop
  <2> QED
    BY <2>1, <2>2
<1> QED
  BY <1>1, <1>2, <1>3 DEF LoopsBounded

LEMMA QuietKeeps ==
  ASSUME NEW Ts, NEW Ls, "thread1" \in Ts, "thread2" \in Ts,
         TypeOKLoops(Ts, Ls), LoopsBounded, LoopsSound, Apart, Apart', Quiet(Ts, Ls)
  PROVE  LoopsSound' /\ Undone' = Undone
<1>1. DOMAIN pc = Ts /\ UNCHANGED <<array, i, tmp, reg>>
  BY DEF TypeOKLoops, Quiet
<1>2. \A u \in {"thread1", "thread2"} :
        pc'[u] # pc[u] => i'[u] = 0 /\ pc[u] \notin InLoops /\ pc'[u] \notin MidLoop
  BY <1>1 DEF LoopsBounded, Quiet
<1>3. Rests("thread1", InChange)
  BY <1>1, <1>2 DEF Rests, InLoops, InChange, MidLoop
<1>4. Rests("thread2", InReverse)
  BY <1>1, <1>2 DEF Rests, InLoops, InReverse, MidLoop
<1> QED
  BY <1>1, <1>3, <1>4, QuietSound

LEMMA QuietLine ==
  ASSUME NEW Ts, NEW Ls, NEW printers \in SUBSET Ts,
         TypeOKLoops(Ts, Ls), LoopsBounded, LineFollows(printers), Quiet(Ts, Ls),
         \A u, v \in printers : pc'[u] = "print" /\ pc[u] # "print" => pc[v] \notin InPrint
  PROVE  LineFollows(printers)'
<1>1. UNCHANGED <<array, i, reg, line>> /\ DOMAIN pc = Ts
  BY DEF TypeOKLoops, Quiet
<1>2. \A u \in printers : pc[u] \in InPrint => pc'[u] = pc[u]
  BY DEF Quiet, InLoops
<1>3. \A u \in printers : pc'[u] \in InPrint /\ pc'[u] # pc[u] => pc'[u] = "print" /\ i'[u] = 0
  BY <1>1 DEF Quiet, InPrint, MidLoop, LoopsBounded
<1>4. CASE \E u \in printers : pc'[u] = "print" /\ pc[u] # "print"
  <2>1. \A v \in printers : pc[v] \notin InPrint
    BY <1>4
  <2>2. \A v \in printers : pc'[v] \in InPrint => pc'[v] = "print" /\ i'[v] = 0
    BY <1>3, <2>1
  <2> QED
    BY <1>1, <2>1, <2>2, LineKept
<1>5. CASE ~\E u \in printers : pc'[u] = "print" /\ pc[u] # "print"
  <2>1. \A u \in printers : pc[u] \in InPrint \/ pc'[u] \in InPrint => pc'[u] = pc[u]
    BY <1>2, <1>3, <1>5
  <2> QED
    BY <1>1, <2>1, LineKept
<1> QED
  BY <1>4, <1>5

\* What a creation and check_errno() do to the labels.
LEMMA CreateMoves ==
  ASSUME NEW Ts, NEW Ls, NEW here, NEW made \in Ts, NEW next \in Ls,
         "main" \in Ts, made # "main", "lock" \in Ls,
         TypeOKLoops(Ts, Ls), Create(here, made, next)
  PROVE  /\ UNCHANGED <<array, i, tmp, reg, line, printed>>
         /\ errno' \in BOOLEAN /\ running' \in BOOLEAN
         /\ pc["main"] = here /\ pc'["main"] = next /\ pc' \in [Ts -> Ls]
         /\ \A u \in Ts : u # "main" => pc'[u] = pc[u] \/ (u = made /\ pc'[u] = "lock")
<1>1. pc \in [Ts -> Ls] /\ errno \in BOOLEAN /\ running \in BOOLEAN
  BY DEF TypeOKLoops
<1> QED
  BY <1>1 DEF Create, Goto

LEMMA CheckMoves ==
  ASSUME NEW Ts, NEW Ls, NEW next \in Ls, "main" \in Ts,
         TypeOKLoops(Ts, Ls), CheckCreated(next)
  PROVE  /\ UNCHANGED <<array, i, tmp, reg, line, printed>>
         /\ errno' \in BOOLEAN /\ running' \in BOOLEAN
         /\ pc["main"] = "check" /\ pc'["main"] \in {"check", next} /\ pc' \in [Ts -> Ls]
         /\ \A u \in Ts : u # "main" => pc'[u] = pc[u]
<1>1. pc \in [Ts -> Ls] /\ errno \in BOOLEAN /\ running \in BOOLEAN
  BY DEF TypeOKLoops
<1> QED
  BY <1>1 DEF CheckCreated, Goto

\* Before anything runs every local is 0 and every thread is outside the loops.
LEMMA InitKeeps ==
  ASSUME NEW Ts, NEW Ls, NEW first \in Ls, NEW printers \in SUBSET Ts,
         "main" \in Ts, "thread1" \in Ts, "thread2" \in Ts, "unborn" \in Ls,
         first \in {"semget", "create1"}, InitLoops(Ts, first)
  PROVE  /\ TypeOKLoops(Ts, Ls) /\ LoopsBounded /\ LoopsSound /\ Undone = InitArray
         /\ LineFollows(printers) /\ PrintedWhole /\ ~errno
         /\ pc["main"] = first /\ \A t \in Ts : t # "main" => pc[t] = "unborn"
<1>1. /\ array = InitArray /\ line = << >> /\ printed = NoLine /\ errno = FALSE
      /\ running = TRUE /\ i = [t \in Ts |-> 0] /\ tmp = [t \in Ts |-> 0]
      /\ reg = [t \in Ts |-> 0]
      /\ pc = [t \in Ts |-> IF t = "main" THEN first ELSE "unborn"]
  BY DEF InitLoops
<1>2. InitArray \in Arrays /\ InitArray \in [Index -> Char] /\ InitArray \in WholeArrays
  BY InitLetters, CharFacts, WholeClosed DEF Arrays
<1>3. TypeOKLoops(Ts, Ls)
  <2>1. 0 \in Char /\ 0 \in 0 .. SIZE
    BY SizeAssumption DEF Char
  <2>2. pc \in [Ts -> Ls] /\ i \in [Ts -> 0 .. SIZE] /\ tmp \in [Ts -> Char] /\ reg \in [Ts -> Char]
    BY <1>1, <2>1
  <2>3. line \in Seq(Char) /\ printed.cells \in Seq(Char)
    BY <1>1 DEF NoLine
  <2> QED
    BY <1>1, <1>2, <2>2, <2>3 DEF TypeOKLoops
<1>4. \A t \in Ts : pc[t] \notin InLoops /\ i[t] = 0
  BY <1>1 DEF InLoops, InChange, InReverse, InPrint, InCount
<1>5. LoopsBounded
  BY <1>1, <1>4 DEF LoopsBounded, InLoops, InChange, InReverse, InPrint, InCount
<1>6. pc["thread1"] \notin InChange /\ pc["thread2"] \notin InReverse
  BY <1>4 DEF InLoops
<1>7. Undone = InitArray
  BY <1>1, <1>6, UndoneCases DEF Apart, UndoneIs
<1>8. LoopsSound
  BY <1>1, <1>2, <1>6, <1>7 DEF LoopsSound, LoopsKnow, ChangeKnows, ReverseKnows, Arrays,
     InChange, InReverse
<1>9. LineFollows(printers)
  BY <1>1, <1>4 DEF LineFollows, InLoops, InPrint
<1> QED
  BY <1>1, <1>3, <1>5, <1>7, <1>8, <1>9 DEF PrintedWhole

-----------------------------------------------------------------------------
(* Subtask 1: the array as it was when the pass in progress began.         *)

BaseIs ==
  /\ pc["thread1"] \in InPrint => Base = ChangeAll(array)
  /\ pc["thread2"] \in InPrint => Base = ReverseAll(array)
  /\ pc["thread1"] \notin InPrint /\ pc["thread2"] \notin InPrint => Base = Undone

LEMMA BaseCases == (Exclusion => BaseIs) /\ (Exclusion' => BaseIs')
<1>1. Exclusion => BaseIs
  BY DEF Exclusion, Inside, BaseIs, Base
<1>2. Exclusion' => BaseIs'
  BY DEF Exclusion, Inside, BaseIs, Base
<1> QED
  BY <1>1, <1>2

\* What the invariant says of the loops of both threads.
LEMMA SemFacts ==
  ASSUME IInv
  PROVE  /\ pc \in [Threads -> Labels] /\ array \in Arrays /\ Apart /\ BaseIs
         /\ LoopsSound /\ Workers \in SUBSET Threads
<1>1. pc \in [Threads -> Labels] /\ array \in Arrays
  BY DEF IInv, TypeOK, TypeOKLoops, LoopsKnow, Arrays
<1>2. Apart /\ BaseIs
  BY BaseCases DEF IInv, Exclusion, Inside, Apart
<1>3. UndoneIs
  BY <1>2, UndoneCases
<1>4. CASE pc["thread1"] \in InPrint
  <2>1. Undone = array
    BY <1>3, <1>4 DEF UndoneIs, IInv, Exclusion, Inside, InPrint, InChange
  <2>2. Undone = ChangeAll(Base)
    BY <1>1, <1>2, <1>4, <2>1, OperationsInvert DEF BaseIs
  <2>3. Undone \in WholeArrays
    BY <2>2, WholeClosed DEF IInv
  <2> QED
    BY <1>1, <1>2, <2>3 DEF IInv, LoopsSound, Workers, Threads
<1>5. CASE pc["thread2"] \in InPrint
  <2>1. Undone = array
    BY <1>3, <1>5 DEF UndoneIs, IInv, Exclusion, Inside, InPrint, InReverse
  <2>2. Undone = ReverseAll(Base)
    BY <1>1, <1>2, <1>5, <2>1, OperationsInvert DEF BaseIs
  <2>3. Undone \in WholeArrays
    BY <2>2, WholeClosed DEF IInv
  <2> QED
    BY <1>1, <1>2, <2>3 DEF IInv, LoopsSound, Workers, Threads
<1>6. CASE pc["thread1"] \notin InPrint /\ pc["thread2"] \notin InPrint
  BY <1>1, <1>2, <1>6 DEF IInv, LoopsSound, Workers, Threads, BaseIs
<1> QED
  BY <1>4, <1>5, <1>6

\* A step leaves Base and the printed line alone, or it is the newline that
\* ends a pass and takes both to the result of the operation.
PassOf(t) ==
  /\ Base' = IF t = "thread1" THEN ChangeAll(Base) ELSE ReverseAll(Base)
  /\ printed' = [by |-> t, cells |-> Line(Base', SIZE)]

PassStep ==
  \/ Base' = Base /\ printed' = printed
  \/ \E t \in Workers : PassOf(t)

\* The pass that ends with a step leaves a whole array and a whole line.
LEMMA WholeKept ==
  ASSUME IInv, PassStep
  PROVE  Base' \in WholeArrays /\ PrintedWhole'
<1>1. CASE Base' = Base /\ printed' = printed
  BY <1>1 DEF IInv, PrintedWhole
<1>2. ASSUME NEW t \in Workers, PassOf(t) PROVE Base' \in WholeArrays /\ PrintedWhole'
  <2>1. Base' \in WholeArrays
    BY <1>2, WholeClosed DEF IInv, PassOf
  <2>2. printed'.cells = Line(Base', SIZE)
    BY <1>2 DEF PassOf
  <2> QED
    BY <2>1, <2>2 DEF PrintedWhole
<1> QED
  BY <1>1, <1>2 DEF PassStep

\* sem_wait() and sem_post().
LEMMA SemLocking ==
  ASSUME IInv, NEW t \in Workers, SemWait(t) \/ SemPost(t)
  PROVE  IInv' /\ PassStep
<1> DEFINE l == IF SemWait(t) THEN Operation(t) ELSE "lock"
<1>1. /\ pc' = [pc EXCEPT ![t] = l] /\ pc[t] \in {"lock", "post"}
      /\ UNCHANGED <<array, i, tmp, reg, line, printed, errno, running>>
      /\ t \in {"thread1", "thread2"} /\ t \in Threads
  BY DEF SemWait, SemPost, Goto, Workers, Threads
<1>2. /\ l \in {"lock", "change", "reverse"} /\ l \in Labels
      /\ l = "change" => t = "thread1"
      /\ l = "reverse" => t = "thread2"
  BY <1>1 DEF Operation, Labels, InChange, InReverse
<1>3. /\ pc'[t] = l /\ (\A u \in Threads : u # t => pc'[u] = pc[u])
      /\ pc' \in [Threads -> Labels]
  BY <1>1, <1>2, SemFacts
<1>4. Quiet(Threads, Labels)
  BY <1>1, <1>2, <1>3
     DEF Quiet, InLoops, InChange, InReverse, InPrint, InCount, MidLoop, IInv, TypeOK, TypeOKLoops
<1>5. TypeOKLoops(Threads, Labels)' /\ LoopsBounded'
  BY <1>4, QuietTyped DEF IInv, TypeOK
<1>6. OwnCode' /\ Born'
  BY <1>1, <1>2, <1>3 DEF IInv, OwnCode, Born, Threads, Workers, InChange, InReverse
<1>7. sem' \in 0 .. 1 /\ Exclusion'
  <2>1. CASE SemWait(t)
    <3>1. sem = 1 /\ sem' = 0 /\ ~Inside("thread1") /\ ~Inside("thread2")
      BY <2>1 DEF SemWait, IInv, TypeOK, Exclusion, Workers
    <3> QED
      BY <1>1, <1>3, <3>1 DEF Exclusion, Inside, Workers, Threads
  <2>2. CASE SemPost(t) /\ ~SemWait(t)
    <3>1. pc[t] = "post" /\ sem' = sem + 1 /\ l = "lock"
      BY <2>2 DEF SemPost
    <3>2. sem = 0 /\ \A u \in Workers : u # t => ~Inside(u)
      BY <1>1, <3>1 DEF IInv, Exclusion, Inside, Workers
    <3>3. \A u \in Workers : ~Inside(u)'
      BY <1>3, <3>1, <3>2 DEF Inside, Workers, Threads, InChange, InReverse, InPrint
    <3> QED
      BY <3>1, <3>2, <3>3 DEF Exclusion, Workers
  <2> QED
    BY <2>1, <2>2
<1>8. Apart'
  BY <1>7 DEF Apart, Exclusion, Inside
<1>9. LoopsSound' /\ Undone' = Undone
  BY <1>4, <1>5, <1>8, SemFacts, QuietKeeps DEF IInv, TypeOK, Threads, Workers
<1>10. \A u \in Workers : pc[u] \notin InPrint /\ pc'[u] \notin InPrint
  <2>1. pc[t] \notin InPrint /\ pc'[t] \notin InPrint
    BY <1>1, <1>2, <1>3 DEF InPrint
  <2>2. \A u \in Workers : u # t => ~Inside(u)
    BY <1>1 DEF SemWait, SemPost, IInv, Exclusion, Inside, Workers
  <2> QED
    BY <1>3, <2>1, <2>2 DEF Inside, Workers, Threads
<1>11. LineFollows(Workers)'
  BY <1>1, <1>10, LineKept DEF IInv
<1>12. Base' = Base /\ printed' = printed
  BY <1>1, <1>7, <1>9, <1>10, BaseCases, SemFacts DEF BaseIs, Workers
<1>13. PassStep
  BY <1>12 DEF PassStep
<1> QED
  BY <1>5, <1>6, <1>7, <1>9, <1>11, <1>13, WholeKept DEF IInv, TypeOK, LoopsSound

\* A step inside the loops of a pass.
LEMMA SemWorking ==
  ASSUME IInv, NEW t \in Workers, Work(t)
  PROVE  IInv' /\ PassStep
<1>1. /\ ChangeReg(t, "print") \/ ReverseArray(t, "print") \/ PrintArray(t, "post")
      /\ sem' = sem /\ t \in {"thread1", "thread2"} /\ t \in Threads
  BY DEF Work, Workers, Threads
<1>2. /\ InChange \subseteq Labels /\ InReverse \subseteq Labels /\ InPrint \subseteq Labels
      /\ {"print", "post"} \subseteq Labels
      /\ {"print", "post"} \cap (MidLoop \cup {"change", "reverse"}) = {}
  BY DEF Labels, InChange, InReverse, InPrint, MidLoop
<1>3. TypeOKLoops(Threads, Labels)' /\ LoopsBounded' /\ OthersKept(Threads, t)
  BY <1>1, <1>2, ChangeTyped, ReverseTyped, PrintTyped DEF IInv, TypeOK
<1>4. /\ errno' = errno
      /\ \/ pc[t] \in InChange /\ ChangeReg(t, "print") /\ pc'[t] \in InChange \cup {"print"}
         \/ pc[t] \in InReverse /\ ReverseArray(t, "print") /\ pc'[t] \in InReverse \cup {"print"}
         \/ pc[t] \in InPrint /\ PrintArray(t, "post") /\ pc'[t] \in InPrint \cup {"post"}
  <2>1. pc \in [Threads -> Labels]
    BY SemFacts
  <2> QED
    BY <1>1, <2>1
       DEF ChangeReg, ChangeTest, ChangeTestZ, ChangeLoad, ChangeStore, ReverseArray, ReverseLoad,
           ReverseLeft, ReverseLeftStore, ReverseRight, PrintArray, PrintRead, PrintCell,
           PrintNewline, Goto, InChange, InReverse, InPrint
<1>5. \A u \in Threads : u # t => pc'[u] = pc[u]
  BY <1>3 DEF OthersKept
<1>6. Inside(t) /\ Inside(t)'
  BY <1>4 DEF Inside, InPrint
<1>7. \A u \in Workers : u # t => ~Inside(u) /\ ~Inside(u)'
  BY <1>1, <1>5, <1>6 DEF IInv, Exclusion, Inside, Workers, Threads
<1>8. Exclusion'
  BY <1>1, <1>6, <1>7 DEF IInv, Exclusion, Workers
<1>9. OwnCode' /\ Born'
  <2>1. pc'["main"] = pc["main"] /\ pc[t] # "unborn" /\ pc'[t] # "unborn"
    BY <1>1, <1>4, <1>5 DEF Threads, Workers, InChange, InReverse, InPrint
  <2>2. Born'
    BY <1>1, <1>4, <1>5, <2>1 DEF IInv, Born, Workers, Threads
  <2>3. OwnCode'
    BY <1>1, <1>4, <1>5, <2>1
       DEF IInv, OwnCode, Workers, Threads, InChange, InReverse, InPrint
  <2> QED
    BY <2>2, <2>3
<1>10. LoopsSound' /\ LineFollows(Workers)' /\ PassStep
  <2>1. CASE pc[t] \in InChange
    <3>1. t = "thread1" /\ ChangeReg("thread1", "print") /\ pc["thread2"] \notin InReverse
      BY <1>1, <1>4, <1>7, <2>1 DEF IInv, OwnCode, Inside, Workers, InChange, InReverse, InPrint
    <3>2. /\ LoopsSound' /\ UNCHANGED <<line, printed>>
          /\ \/ Undone' = Undone /\ pc'["thread1"] \in InChange
             \/ Undone' = ChangeAll(Undone) /\ pc'["thread1"] = "print" /\ i'["thread1"] = 0
      BY <1>1, <1>2, <1>3, <3>1, SemFacts, ChangeSound
         DEF IInv, TypeOK, Threads, Workers, InChange
    <3>3. \A u \in Workers :
            pc[u] \notin InPrint /\ (pc'[u] \in InPrint => pc'[u] = "print" /\ i'[u] = 0)
      BY <1>7, <2>1, <3>1, <3>2 DEF Inside, InChange, InPrint, Workers
    <3>4. LineFollows(Workers)'
      BY <3>2, <3>3, LineKept DEF IInv
    <3>5. Base = Undone
      BY <3>3, SemFacts DEF BaseIs, Workers
    <3>6. pc'["thread2"] \notin InPrint /\ pc'["thread2"] \notin InReverse
      BY <1>7, <3>1 DEF Inside, Workers
    <3>7. Base' = Undone
      <4>1. CASE Undone' = Undone /\ pc'["thread1"] \in InChange
        BY <1>8, <3>6, <4>1, BaseCases DEF BaseIs, InChange, InPrint
      <4>2. CASE Undone' = ChangeAll(Undone) /\ pc'["thread1"] = "print"
        <5>1. Base' = ChangeAll(array') /\ Undone' = array' /\ Undone \in Arrays
          BY <1>8, <3>6, <4>2, BaseCases, UndoneCases, SemFacts, WholeClosed
             DEF BaseIs, InPrint, InChange, Apart, UndoneIs, LoopsSound
        <5> QED
          BY <4>2, <5>1, OperationsInvert
      <4> QED
        BY <3>2, <4>1, <4>2
    <3> QED
      BY <3>2, <3>4, <3>5, <3>7 DEF PassStep
  <2>2. CASE pc[t] \in InReverse
    <3>1. t = "thread2" /\ ReverseArray("thread2", "print") /\ pc["thread1"] \notin InChange
      BY <1>1, <1>4, <1>7, <2>2 DEF IInv, OwnCode, Inside, Workers, InChange, InReverse, InPrint
    <3>2. /\ LoopsSound' /\ UNCHANGED <<line, printed>>
          /\ \/ Undone' = Undone /\ pc'["thread2"] \in InReverse
             \/ Undone' = ReverseAll(Undone) /\ pc'["thread2"] = "print" /\ i'["thread2"] = 0
      BY <1>1, <1>2, <1>3, <3>1, SemFacts, ReverseSound
         DEF IInv, TypeOK, Threads, Workers, InReverse
    <3>3. \A u \in Workers :
            pc[u] \notin InPrint /\ (pc'[u] \in InPrint => pc'[u] = "print" /\ i'[u] = 0)
      BY <1>7, <2>2, <3>1, <3>2 DEF Inside, InReverse, InPrint, Workers
    <3>4. LineFollows(Workers)'
      BY <3>2, <3>3, LineKept DEF IInv
    <3>5. Base = Undone
      BY <3>3, SemFacts DEF BaseIs, Workers
    <3>6. pc'["thread1"] \notin InPrint /\ pc'["thread1"] \notin InChange
      BY <1>7, <3>1 DEF Inside, Workers
    <3>7. Base' = Undone
      <4>1. CASE Undone' = Undone /\ pc'["thread2"] \in InReverse
        BY <1>8, <3>6, <4>1, BaseCases DEF BaseIs, InReverse, InPrint
      <4>2. CASE Undone' = ReverseAll(Undone) /\ pc'["thread2"] = "print"
        <5>1. Base' = ReverseAll(array') /\ Undone' = array' /\ Undone \in Arrays
          BY <1>8, <3>6, <4>2, BaseCases, UndoneCases, SemFacts, WholeClosed
             DEF BaseIs, InPrint, InReverse, Apart, UndoneIs, LoopsSound
        <5> QED
          BY <4>2, <5>1, OperationsInvert
      <4> QED
        BY <3>2, <4>1, <4>2
    <3> QED
      BY <3>2, <3>4, <3>5, <3>7 DEF PassStep
  <2>3. CASE pc[t] \in InPrint
    <3>1. PrintArray(t, "post") /\ \A u \in Workers : u # t => pc[u] \notin InPrint
      BY <1>4, <1>7, <2>3 DEF Inside, InChange, InReverse, InPrint
    <3>2. /\ LineFollows(Workers)' /\ array' = array
          /\ \/ printed' = printed /\ pc'[t] \in InPrint
             \/ printed' = [by |-> t, cells |-> Line(array, SIZE)] /\ pc'[t] = "post"
      <4>1. "post" \notin InPrint /\ "post" \in Labels /\ Workers \in SUBSET Threads
        BY DEF InPrint, Labels, Threads
      <4>2. TypeOKLoops(Threads, Labels) /\ LoopsBounded /\ LineFollows(Workers)
        BY DEF IInv, TypeOK
      <4> QED
        BY <1>1, <1>3, <3>1, <4>1, <4>2, PrintFollows
    <3>3. \A u \in Workers : /\ pc[u] \notin InChange \cup InReverse
                             /\ pc'[u] \notin InChange \cup InReverse
      BY <1>7, <2>3, <3>2 DEF Inside, InChange, InReverse, InPrint
    <3>4. Apart /\ Apart' /\ Rests("thread1", InChange) /\ Rests("thread2", InReverse)
      BY <3>3 DEF Apart, Rests, Workers
    <3>5. LoopsSound'
      BY <3>2, <3>4, QuietSound, SemFacts
    <3>6. array = Undone /\ array' = Undone'
      BY <3>3, <3>4, UndoneCases DEF UndoneIs, Workers
    <3>7. PassStep
      <4>1. CASE printed' = printed /\ pc'[t] \in InPrint
        <5>1. Base' = Base
          BY <1>1, <1>8, <2>3, <3>2, <4>1, BaseCases, SemFacts DEF BaseIs
        <5> QED
          BY <4>1, <5>1 DEF PassStep
      <4>2. CASE printed' = [by |-> t, cells |-> Line(array, SIZE)] /\ pc'[t] = "post"
        <5>1. \A u \in Workers : pc'[u] \notin InPrint
          BY <1>7, <4>2 DEF Inside, InPrint
        <5>2. Base' = array
          BY <1>8, <3>2, <3>6, <5>1, BaseCases DEF BaseIs, Workers
        <5>3. array = IF t = "thread1" THEN ChangeAll(Base) ELSE ReverseAll(Base)
          BY <1>1, <2>3, SemFacts, OperationsInvert DEF BaseIs
        <5> QED
          BY <4>2, <5>2, <5>3 DEF PassStep, PassOf
      <4> QED
        BY <3>2, <4>1, <4>2
    <3> QED
      BY <3>2, <3>5, <3>7
  <2> QED
    BY <1>4, <2>1, <2>2, <2>3
<1> QED
  BY <1>1, <1>3, <1>8, <1>9, <1>10, WholeKept DEF IInv, TypeOK, LoopsSound

LEMMA SemCreating ==
  ASSUME IInv, FirstTask
  PROVE  IInv' /\ PassStep
<1>1. /\ \/ Create("create1", "thread1", "create2")
         \/ Create("create2", "thread2", "check")
         \/ CheckCreated("join")
      /\ sem' = sem
  BY DEF FirstTask
<1>2. /\ pc \in [Threads -> Labels] /\ {"create2", "check", "join", "lock"} \subseteq Labels
      /\ pc["main"] = "create1" => pc["thread1"] = "unborn"
      /\ pc["main"] \in {"create1", "create2"} => pc["thread2"] = "unborn"
  BY SemFacts DEF IInv, Born, Workers, Labels
<1>3. /\ UNCHANGED <<array, i, tmp, reg, line, printed>>
      /\ errno' \in BOOLEAN /\ running' \in BOOLEAN
      /\ pc["main"] \in {"create1", "create2", "check"}
      /\ pc'["main"] \in {"create2", "check", "join"}
      /\ \A u \in Workers : pc'[u] = pc[u] \/ (pc[u] = "unborn" /\ pc'[u] = "lock")
      /\ pc' \in [Threads -> Labels]
  <2>1. CASE Create("create1", "thread1", "create2")
    BY <1>2, <2>1, CreateMoves DEF Workers, Threads, IInv, TypeOK
  <2>2. CASE Create("create2", "thread2", "check")
    BY <1>2, <2>2, CreateMoves DEF Workers, Threads, IInv, TypeOK
  <2>3. CASE CheckCreated("join")
    BY <1>2, <2>3, CheckMoves DEF Workers, Threads, IInv, TypeOK
  <2> QED
    BY <1>1, <2>1, <2>2, <2>3
<1>4. Quiet(Threads, Labels)
  BY <1>3 DEF Quiet, InLoops, InChange, InReverse, InPrint, InCount, MidLoop, Threads, Workers
<1>5. TypeOKLoops(Threads, Labels)' /\ LoopsBounded'
  BY <1>4, QuietTyped DEF IInv, TypeOK
<1>6. \A u \in Workers : /\ pc'[u] \in InChange \cup InReverse \cup InPrint \cup {"post"}
                              => pc'[u] = pc[u]
                         /\ Inside(u)' <=> Inside(u)
  BY <1>3 DEF Inside, InChange, InReverse, InPrint
<1>7. Born'
  <2>1. CASE Create("create1", "thread1", "create2")
    BY <1>2, <2>1 DEF IInv, Create, Goto, Born, Workers, Threads
  <2>2. CASE Create("create2", "thread2", "check")
    BY <1>2, <2>2 DEF IInv, Create, Goto, Born, Workers, Threads
  <2>3. CASE CheckCreated("join")
    BY <1>2, <2>3 DEF IInv, CheckCreated, Goto, Born, Workers, Threads
  <2> QED
    BY <1>1, <2>1, <2>2, <2>3
<1>8. OwnCode'
  BY <1>3 DEF IInv, OwnCode, Workers, InChange, InReverse, InPrint
<1>9. Exclusion'
  BY <1>1, <1>6 DEF IInv, Exclusion, Workers
<1>10. Apart'
  BY <1>9 DEF Apart, Exclusion, Inside
<1>11. LoopsSound' /\ Undone' = Undone
  BY <1>4, <1>10, SemFacts, QuietKeeps DEF IInv, TypeOK, Threads, Workers
<1>12. LineFollows(Workers)'
  <2>1. \A u \in Workers : pc'[u] = "print" => pc[u] = "print"
    BY <1>3
  <2> QED
    BY <1>4, <2>1, QuietLine, SemFacts DEF IInv, TypeOK
<1>13. Base' = Base
  <2>1. \A u \in Workers : pc'[u] \in InPrint <=> pc[u] \in InPrint
    BY <1>3 DEF InPrint
  <2> QED
    BY <1>3, <1>9, <1>11, <2>1, BaseCases, SemFacts DEF BaseIs, Workers
<1>14. PassStep
  BY <1>3, <1>13 DEF PassStep
<1> QED
  BY <1>1, <1>5, <1>7, <1>8, <1>9, <1>11, <1>12, <1>14, WholeKept DEF IInv, TypeOK, LoopsSound

-----------------------------------------------------------------------------
(* The theorems.                                                           *)

LEMMA InitIInv == Init => IInv /\ Base = InitArray /\ printed = NoLine
<1> SUFFICES ASSUME Init PROVE IInv /\ Base = InitArray /\ printed = NoLine
  OBVIOUS
<1>1. InitLoops(Threads, "create1") /\ sem = 1
  BY DEF Init
<1>2. /\ {"unborn", "create1"} \subseteq Labels /\ Workers \in SUBSET Threads
      /\ {"main", "thread1", "thread2"} \subseteq Threads
  BY DEF Labels, Threads, Workers
<1>3. /\ TypeOKLoops(Threads, Labels) /\ LoopsBounded /\ LoopsSound /\ Undone = InitArray
      /\ LineFollows(Workers) /\ PrintedWhole /\ ~errno
      /\ pc["main"] = "create1" /\ pc["thread1"] = "unborn" /\ pc["thread2"] = "unborn"
  BY <1>1, <1>2, InitKeeps
<1>4. Born /\ OwnCode /\ Exclusion
  BY <1>3 DEF Born, OwnCode, Exclusion, Inside, Workers, InChange, InReverse, InPrint
<1>5. Base = InitArray
  BY <1>3, <1>4, BaseCases DEF BaseIs, InPrint
<1>6. InitArray \in WholeArrays /\ printed = NoLine
  BY <1>1, WholeClosed DEF InitLoops
<1> QED
  BY <1>1, <1>3, <1>4, <1>5, <1>6 DEF IInv, TypeOK, LoopsSound

LEMMA StepIInv == IInv /\ [Next]_vars => IInv' /\ PassStep
<1> SUFFICES ASSUME IInv, [Next]_vars PROVE IInv' /\ PassStep
  OBVIOUS
<1>1. CASE FirstTask
  BY <1>1, SemCreating
<1>2. ASSUME NEW t \in Workers, Worker(t) PROVE IInv' /\ PassStep
  BY <1>2, SemLocking, SemWorking DEF Worker
<1>3. CASE UNCHANGED vars
  <2>1. UNCHANGED <<array, pc, i, tmp, reg, line, printed, errno, running, sem>>
    BY <1>3 DEF vars
  <2>2. Base' = Base
    BY <2>1 DEF Base, Undone
  <2> QED
    BY <2>1, <2>2
       DEF IInv, TypeOK, TypeOKLoops, Born, OwnCode, Exclusion, Inside, LoopsBounded, LoopsKnow,
           ChangeKnows, ReverseKnows, LineFollows, PrintedWhole, PassStep
<1> QED
  BY <1>1, <1>2, <1>3 DEF Next, Done

\* The inductive invariant: at every step the semaphore admits one worker,
\* each local is where its loop says, the unfinished line is a prefix of the
\* array, and undoing the pass in progress gives a whole array
\* (first_task(), task1_thread1(), task1_thread2()).
THEOREM SemTaskInvariant == Spec => []IInv
<1>1. Init => IInv
  BY InitIInv
<1>2. IInv /\ [Next]_vars => IInv'
  BY StepIInv
<1> QED  BY <1>1, <1>2, PTL DEF Spec

\* Every value stays in its type: no index leaves the array, the semaphore
\* never exceeds 1.
THEOREM SemTaskTypeOK == Spec => []TypeOK
<1>1. IInv => TypeOK
  BY DEF IInv
<1> QED  BY <1>1, SemTaskInvariant, PTL

\* No line on stdout mixes two states of the array, for arrays of any SIZE.
THEOREM SemTaskPrintedWhole == Spec => []PrintedWhole
<1>1. IInv => PrintedWhole
  BY DEF IInv
<1> QED  BY <1>1, SemTaskInvariant, PTL

\* The main thread never joins while a worker was not created
\* (check_errno() after both pthread_create calls).
THEOREM SemTaskAllStarted == Spec => []AllStarted
<1>1. IInv => AllStarted
  BY DEF IInv, Born, AllStarted, NoWorkerMissing
<1> QED  BY <1>1, SemTaskInvariant, PTL

\* Subtask 1 implements the array on which a whole pass, operation and
\* print, is one atomic step (threads.h:42-46).
THEOREM SemTaskRefinement == Spec => ImplementsPasses
<1>1. Init => Atomic!Init
  BY InitIInv DEF Atomic!Init, Atomic!InitArray, InitArray, Atomic!Index, Index,
                  Atomic!ToChar, ToChar, Atomic!NoLine, NoLine
<1>2. ASSUME IInv, [Next]_vars
      PROVE  [Atomic!ChangePass \/ Atomic!ReversePass]_(Atomic!absVars)
  <2>1. PassStep
    BY <1>2, StepIInv
  <2>2. CASE Base' = Base /\ printed' = printed
    BY <2>2 DEF Atomic!absVars
  <2>3. CASE PassOf("thread1")
    <3>1. Atomic!ChangeAll(Base) = ChangeAll(Base)
      BY DEF Atomic!ChangeAll, ChangeAll, Atomic!FlipCase, FlipCase, Atomic!Upper, Upper,
             Atomic!Index, Index
    <3>2. Atomic!LineOf("thread1", Base') = [by |-> "thread1", cells |-> Line(Base', SIZE)]
      BY DEF Atomic!LineOf, Atomic!Line, Line
    <3> QED  BY <2>3, <3>1, <3>2 DEF PassOf, Atomic!ChangePass
  <2>4. CASE PassOf("thread2")
    <3>1. Atomic!ReverseAll(Base) = ReverseAll(Base)
      BY DEF Atomic!ReverseAll, ReverseAll, Atomic!Index, Index
    <3>2. Atomic!LineOf("thread2", Base') = [by |-> "thread2", cells |-> Line(Base', SIZE)]
      BY DEF Atomic!LineOf, Atomic!Line, Line
    <3> QED  BY <2>4, <3>1, <3>2 DEF PassOf, Atomic!ReversePass
  <2> QED
    BY <2>1, <2>2, <2>3, <2>4 DEF PassStep, Workers
<1>3. Spec => Atomic!PassSpec
  BY <1>1, <1>2, SemTaskInvariant, PTL DEF Spec, Atomic!PassSpec
<1> QED  BY <1>3 DEF ImplementsPasses

====================================================================================
