-------------------------- MODULE DirServerProofs --------------------------
(***************************************************************************)
(* What the directory server keeps, for any number of clients, processes   *)
(* and descriptors, whatever is asked and however the streams are cut.     *)
(***************************************************************************)
EXTENDS DirServer, FiniteSetTheorems, SequenceTheorems, TLAPS

-----------------------------------------------------------------------------
(* Parts of a sequence.                                                    *)

LEMMA SliceLemma ==
  ASSUME NEW S, NEW s \in Seq(S), NEW m \in Nat, NEW d \in Nat, m <= d, d <= Len(s)
  PROVE  /\ SubSeq(s, m + 1, d) \in Seq(S) /\ Len(SubSeq(s, m + 1, d)) = d - m
         /\ \A k \in 1 .. d - m : SubSeq(s, m + 1, d)[k] = s[m + k]
<1>1. \A k \in m + 1 .. d : s[k] \in S
  OBVIOUS
<1> QED
  BY <1>1, SubSeqProperties

\* One more token is written.
LEMMA SliceGrows ==
  ASSUME NEW S, NEW s \in Seq(S), NEW m \in Nat, NEW d \in Nat, m <= d, d < Len(s)
  PROVE  Append(SubSeq(s, m + 1, d), s[d + 1]) = SubSeq(s, m + 1, d + 1)
<1> DEFINE t == SubSeq(s, m + 1, d)
           u == SubSeq(s, m + 1, d + 1)
<1>1. /\ t \in Seq(S) /\ Len(t) = d - m /\ u \in Seq(S) /\ Len(u) = d + 1 - m
      /\ \A k \in 1 .. d - m : t[k] = s[m + k]
      /\ \A k \in 1 .. d + 1 - m : u[k] = s[m + k]
  BY SliceLemma
<1>2. s[d + 1] \in S
  OBVIOUS
<1> HIDE DEF t, u
<1>3. Append(t, s[d + 1]) \in Seq(S) /\ Len(Append(t, s[d + 1])) = d + 1 - m
  BY <1>1, <1>2
<1>4. \A k \in 1 .. d + 1 - m : Append(t, s[d + 1])[k] = u[k]
  BY <1>1, <1>2
<1>5. Append(t, s[d + 1]) = u
  BY <1>1, <1>3, <1>4, SeqEqual
<1> QED
  BY <1>5 DEF t, u

\* n tokens are read: what is left, and what has been read.
LEMMA SliceLeft ==
  ASSUME NEW s \in Seq(Token), NEW m \in Nat, NEW d \in Nat, m <= d, d <= Len(s),
         NEW n \in Nat, n > 0, n <= d - m
  PROVE  SubSeq(SubSeq(s, m + 1, d), n + 1, d - m) = SubSeq(s, m + n + 1, d)
<1> DEFINE t == SubSeq(s, m + 1, d)
<1>1. t \in Seq(Token) /\ Len(t) = d - m /\ m + 1 \in 1 .. Len(s) /\ d \in 1 .. Len(s)
  BY SliceLemma
<1>2. CASE n < d - m
  <2>1. SubSeq(t, n + 1, d - m) = SubSeq(s, m + 1 + (n + 1) - 1, m + 1 + (d - m) - 1)
    BY <1>1, <1>2, SubSeqOfSubSeq
  <2>2. m + 1 + (n + 1) - 1 = m + n + 1 /\ m + 1 + (d - m) - 1 = d
    OBVIOUS
  <2> QED
    BY <2>1, <2>2
<1>3. CASE n = d - m
  <2>1. SubSeq(t, n + 1, d - m) = << >> /\ SubSeq(s, m + n + 1, d) = << >>
    BY <1>3, SubSeqEmpty
  <2> QED
    BY <2>1
<1> QED
  BY <1>2, <1>3

LEMMA SliceRead ==
  ASSUME NEW s \in Seq(Token), NEW m \in Nat, NEW d \in Nat, m <= d, d <= Len(s),
         NEW n \in Nat, n > 0, n <= d - m
  PROVE  SubSeq(s, 1, m) \o SubSeq(SubSeq(s, m + 1, d), 1, n) = SubSeq(s, 1, m + n)
<1> DEFINE t == SubSeq(s, m + 1, d)
<1>1. t \in Seq(Token) /\ Len(t) = d - m /\ m + 1 \in 1 .. Len(s) /\ d \in 1 .. Len(s)
  BY SliceLemma
<1>2. SubSeq(t, 1, n) = SubSeq(s, m + 1, m + n)
  <2>1. SubSeq(t, 1, n) = SubSeq(s, m + 1 + 1 - 1, m + 1 + n - 1)
    BY <1>1, SubSeqOfSubSeq
  <2> QED
    BY <2>1
<1>3. SubSeq(s, 1, m) \o SubSeq(s, m + 1, m + n) = SubSeq(s, 1, m + n)
  <2>1. 1 \in 1 .. Len(s) + 1 /\ m \in 1 - 1 .. Len(s) /\ m + n \in m .. Len(s)
    OBVIOUS
  <2> QED
    BY <2>1, ConcatAdjacentSubSeq
<1> QED
  BY <1>2, <1>3

\* One token is taken from the front.
LEMMA SliceHead ==
  ASSUME NEW s \in Seq(Token), NEW m \in Nat, NEW d \in Nat, m < d, d <= Len(s)
  PROVE  /\ SubSeq(s, m + 1, d) # << >>
         /\ Head(SubSeq(s, m + 1, d)) = s[m + 1]
         /\ Tail(SubSeq(s, m + 1, d)) = SubSeq(s, m + 2, d)
<1>1. m + 1 \in 1 .. Len(s) /\ d \in m + 1 .. Len(s) /\ m + 1 + 1 = m + 2
  OBVIOUS
<1>2. Len(SubSeq(s, m + 1, d)) # 0
  BY SliceLemma
<1> QED
  BY <1>1, <1>2, HeadTailOfSubSeq, EmptySeq

LEMMA SlicePrefix ==
  ASSUME NEW S, NEW s \in Seq(S), NEW m \in Nat, m <= Len(s)
  PROVE  /\ IsPrefix(SubSeq(s, 1, m), s) /\ Len(SubSeq(s, 1, m)) = m
         /\ SubSeq(s, 1, Len(s)) = s
         /\ \A k \in 1 .. m : SubSeq(s, 1, m)[k] = s[k]
<1> DEFINE t == SubSeq(s, 1, m)
<1>1. /\ SubSeq(s, 0 + 1, m) \in Seq(S) /\ Len(SubSeq(s, 0 + 1, m)) = m - 0
      /\ \A k \in 1 .. m - 0 : SubSeq(s, 0 + 1, m)[k] = s[0 + k]
  BY SliceLemma
<1>2. t \in Seq(S) /\ Len(t) = m /\ \A k \in 1 .. m : t[k] = s[k]
  BY <1>1
<1> HIDE DEF t
<1>3. SubSeq(t, 1, m) = t
  BY <1>2, SubSeqFull
<1>4. IsPrefix(t, s)
  BY <1>2, <1>3 DEF IsPrefix, t
<1> QED
  BY <1>2, <1>4, SubSeqFull DEF t

\* The message of a client and the answer to it go token by token.
LEMMA MessageLemma ==
  ASSUME ask \in Asks, NEW c \in Clients
  PROVE  /\ Message(c) \in Seq(Token) /\ Answer(c) \in Seq(Token)
         /\ Len(Message(c)) \in Nat \ {0} /\ Len(Answer(c)) = Len(Message(c))
         /\ NUL \in Token
         /\ \A k \in 1 .. Len(Message(c)) :
              /\ Message(c)[k] \in Token /\ Answer(c)[k] \in Token
              /\ Message(c)[k] = NUL <=> k = Len(Message(c))
              /\ Answer(c)[k] = NUL <=> k = Len(Message(c))
              /\ k < Len(Message(c)) => Answer(c)[k] = Listing(Message(c)[k].of)
<1> DEFINE a == ask[c]
           n == Len(a)
           m == [k \in DOMAIN a |-> Path(a[k])]
           l == [k \in DOMAIN a |-> Listing(a[k])]
<1>1. a \in Seq(STRING) /\ n \in Nat /\ DOMAIN a = 1 .. n
  <2>1. a \in Seq(STRING \ {""})
    BY AsksAssumption
  <2> HIDE DEF a
  <2>2. ASSUME NEW S, NEW T \in SUBSET S, a \in Seq(T)
        PROVE  a \in Seq(S) /\ Len(a) \in Nat /\ DOMAIN a = 1 .. Len(a)
    BY <2>2
  <2>3. STRING \ {""} \in SUBSET STRING
    OBVIOUS
  <2> QED
    BY <2>1, <2>2, <2>3 DEF n
<1>2. NUL \in Token /\ \A d \in STRING : Path(d) \in Token /\ Listing(d) \in Token
  <2>1. NUL \in Token
    BY DEF Token
  <2>2. ASSUME NEW d \in STRING
        PROVE  Path(d) \in Token /\ Listing(d) \in Token
    BY <2>2 DEF Token, Path, Listing
  <2> QED
    BY <2>1, <2>2
<1>0. \A d \in STRING : Path(d) # NUL /\ Listing(d) # NUL /\ Path(d).of = d
  <2> SUFFICES ASSUME NEW d \in STRING
               PROVE  Path(d) # NUL /\ Listing(d) # NUL /\ Path(d).of = d
    OBVIOUS
  <2>1. Path(d).is = "path" /\ Listing(d).is = "listing" /\ NUL.is = "NUL"
    BY DEF Path, Listing, NUL
  <2> QED
    BY <2>1 DEF Path
<1>3. \A k \in 1 .. n : a[k] \in STRING
  BY <1>1
<1>4. m \in Seq(Token) /\ Len(m) = n /\ l \in Seq(Token) /\ Len(l) = n
  <2>1. m \in [1 .. n -> Token] /\ l \in [1 .. n -> Token]
    BY <1>1, <1>2, <1>3
  <2> QED
    BY <1>1, <2>1
<1>5. Message(c) = Append(m, NUL) /\ Answer(c) = Append(l, NUL)
  BY DEF Message, Answer
<1>6. \A k \in 1 .. n : m[k] = Path(a[k]) /\ l[k] = Listing(a[k])
  BY <1>1
<1> HIDE DEF m, l
<1>7. /\ Message(c) \in Seq(Token) /\ Len(Message(c)) = n + 1
      /\ Answer(c) \in Seq(Token) /\ Len(Answer(c)) = n + 1
      /\ Message(c)[n + 1] = NUL /\ Answer(c)[n + 1] = NUL
      /\ \A k \in 1 .. n : Message(c)[k] = m[k] /\ Answer(c)[k] = l[k]
  BY <1>1, <1>2, <1>4, <1>5
<1> HIDE DEF a, n
<1>8. ASSUME NEW k \in 1 .. n
      PROVE  Listing(Message(c)[k].of) = Answer(c)[k]
  <2>1. Path(a[k]).of = a[k] /\ Message(c)[k] = Path(a[k]) /\ Answer(c)[k] = Listing(a[k])
    BY <1>0, <1>3, <1>6, <1>7
  <2> QED
    BY <2>1
<1>9. ASSUME NEW k \in 1 .. n + 1
      PROVE  /\ Message(c)[k] \in Token /\ Answer(c)[k] \in Token
             /\ Message(c)[k] = NUL <=> k = n + 1
             /\ Answer(c)[k] = NUL <=> k = n + 1
             /\ k < n + 1 => Answer(c)[k] = Listing(Message(c)[k].of)
  <2>1. CASE k \in 1 .. n
    <3>1. /\ k # n + 1 /\ a[k] \in STRING
          /\ Message(c)[k] = Path(a[k]) /\ Answer(c)[k] = Listing(a[k])
          /\ Answer(c)[k] = Listing(Message(c)[k].of)
      BY <1>1, <1>3, <1>6, <1>7, <1>8, <2>1
    <3> QED
      BY <1>2, <1>0, <3>1
  <2>2. CASE k = n + 1
    BY <1>1, <1>2, <1>7, <2>2
  <2> QED
    BY <1>1, <2>1, <2>2
<1> QED
  BY <1>1, <1>2, <1>7, <1>9

-----------------------------------------------------------------------------
(* The connections that wait.                                              *)

NoneTwice(q) == \A j, k \in DOMAIN q : q[j] = q[k] => j = k

LEMMA PendingTail ==
  ASSUME pending \in Seq(Clients), NoneTwice(pending), pending # << >>
  PROVE  /\ Head(pending) \in Clients /\ Waits(Head(pending))
         /\ Tail(pending) \in Seq(Clients) /\ NoneTwice(Tail(pending))
         /\ \A c : (\E k \in DOMAIN Tail(pending) : Tail(pending)[k] = c)
                     <=> Waits(c) /\ c # Head(pending)
<1>1. /\ 1 \in DOMAIN pending /\ Head(pending) = pending[1] /\ Head(pending) \in Clients
      /\ Tail(pending) \in Seq(Clients)
      /\ \A k \in DOMAIN Tail(pending) :
           k \in Nat /\ k >= 1 /\ k + 1 \in DOMAIN pending /\ Tail(pending)[k] = pending[k + 1]
      /\ \A k \in DOMAIN pending : k # 1 =>
           k - 1 \in DOMAIN Tail(pending) /\ Tail(pending)[k - 1] = pending[k]
  OBVIOUS
<1>2. Waits(Head(pending))
  BY <1>1 DEF Waits
<1>3. NoneTwice(Tail(pending))
  BY <1>1 DEF NoneTwice
<1>4. ASSUME NEW c, NEW k \in DOMAIN Tail(pending), Tail(pending)[k] = c
      PROVE  Waits(c) /\ c # Head(pending)
  BY <1>1, <1>4 DEF Waits, NoneTwice
<1>5. ASSUME NEW c, Waits(c), c # Head(pending)
      PROVE  \E k \in DOMAIN Tail(pending) : Tail(pending)[k] = c
  BY <1>1, <1>5 DEF Waits
<1> QED
  BY <1>1, <1>2, <1>3, <1>4, <1>5

LEMMA PendingAppend ==
  ASSUME pending \in Seq(Clients), NoneTwice(pending), NEW c \in Clients, ~Waits(c)
  PROVE  /\ Append(pending, c) \in Seq(Clients) /\ NoneTwice(Append(pending, c))
         /\ Append(pending, c) # << >>
         /\ \A d : (\E k \in DOMAIN Append(pending, c) : Append(pending, c)[k] = d)
                     <=> Waits(d) \/ d = c
<1> DEFINE q == Append(pending, c)
           n == Len(pending)
<1>1. /\ n \in Nat /\ q \in Seq(Clients) /\ n + 1 \in DOMAIN q /\ q[n + 1] = c
      /\ n + 1 \notin DOMAIN pending /\ q # << >>
      /\ \A k \in DOMAIN pending : k \in DOMAIN q /\ q[k] = pending[k]
      /\ \A k \in DOMAIN q : k \in DOMAIN pending \/ k = n + 1
  OBVIOUS
<1> HIDE DEF q, n
<1>2. NoneTwice(q)
  BY <1>1 DEF NoneTwice, Waits
<1>3. \A d : (\E k \in DOMAIN q : q[k] = d) <=> Waits(d) \/ d = c
  BY <1>1 DEF Waits
<1> QED
  BY <1>1, <1>2, <1>3 DEF q

-----------------------------------------------------------------------------
(* Descriptors.                                                            *)

Held(p) == {c \in Clients : p \in holders[c]}
Kept(p) == {c \in Clients : p \in holders[c] /\ c # sock[p]}

\* Sets of clients are finite.
LEMMA FewerDescriptors ==
  ASSUME NEW S \in SUBSET Clients, NEW T \in SUBSET S
  PROVE  IsFiniteSet(S) /\ Cardinality(S) \in Nat /\ Cardinality(T) \in Nat
         /\ Cardinality(T) <= Cardinality(S)
<1>1. NClients \in Nat
  BY AsksAssumption
<1>2. IsFiniteSet(Clients)
  BY <1>1, FS_Interval DEF Clients
<1>3. IsFiniteSet(S) /\ IsFiniteSet(T) /\ Cardinality(T) <= Cardinality(S)
  BY <1>2, FS_Subset
<1> QED
  BY <1>3, FS_CardinalityType

\* A process that has no more than some process had has no more than it may.
LEMMA FdsInherited ==
  ASSUME TypeOK, NEW p \in Procs, NEW q \in Procs, Held(p)' \subseteq Held(q)
  PROVE  Fds(p)' <= FdRoom
<1>1. Fds(q) <= FdRoom /\ Fds(q) = Cardinality(Held(q)) /\ Fds(p)' = Cardinality(Held(p)')
  BY DEF TypeOK, Fds, Held
<1>2. Held(q) \in SUBSET Clients /\ Held(p)' \in SUBSET Held(q)
  BY DEF Held
<1>3. Cardinality(Held(p)') <= Cardinality(Held(q))
  BY <1>2, FewerDescriptors
<1>4. Cardinality(Held(p)') \in Nat /\ Cardinality(Held(q)) \in Nat
  BY <1>2, FewerDescriptors
<1> QED
  BY <1>1, <1>3, <1>4, LimitsAssumption

\* A process that takes one connection more has had room for it.
LEMMA FdsGrow ==
  ASSUME NEW p \in Procs, HasFd(p), NEW c, Held(p)' \subseteq Held(p) \cup {c}, c \in Clients
  PROVE  Fds(p)' <= FdRoom
<1>1. Fds(p) < FdRoom /\ Fds(p) = Cardinality(Held(p)) /\ Fds(p)' = Cardinality(Held(p)')
  BY DEF HasFd, Fds, Held
<1>2. Held(p) \in SUBSET Clients /\ Held(p) \cup {c} \in SUBSET Clients
  BY DEF Held
<1>3. IsFiniteSet(Held(p)) /\ Cardinality(Held(p)) \in Nat
  BY <1>2, FewerDescriptors
<1>4. Cardinality(Held(p) \cup {c}) <= Cardinality(Held(p)) + 1
  BY <1>3, FS_AddElement
<1>5. /\ Cardinality(Held(p)') \in Nat /\ Cardinality(Held(p) \cup {c}) \in Nat
      /\ Cardinality(Held(p)') <= Cardinality(Held(p) \cup {c})
  BY <1>2, FewerDescriptors
<1> QED
  BY <1>1, <1>3, <1>4, <1>5, LimitsAssumption

-----------------------------------------------------------------------------
(* Steps that leave the streams alone.                                     *)

LEMMA SameStreams ==
  ASSUME UNCHANGED <<ask, sent, upstream, downstream, response>>, NEW c \in Clients
  PROVE  /\ Message(c)' = Message(c) /\ Answer(c)' = Answer(c)
         /\ Got(c)' = Got(c) /\ Written(c)' = Written(c)
         /\ \A n : Unread(c, n)' <=> Unread(c, n)
BY DEF Message, Answer, Got, Written, Unread

\* accept() takes the oldest connection that waits.
LEMMA AcceptKeeps ==
  ASSUME TypeOK, Places, Flows, Fates, NEW p \in Procs, Accept(p), UNCHANGED clientVars
  PROVE  TypeOK' /\ Places' /\ Flows' /\ Fates'
<1> DEFINE h == Head(pending)
<1>1. /\ h \in Clients /\ Waits(h) /\ Tail(pending) \in Seq(Clients) /\ NoneTwice(Tail(pending))
      /\ \A c : (\E k \in DOMAIN Tail(pending) : Tail(pending)[k] = c) <=> Waits(c) /\ c # h
  BY PendingTail DEF TypeOK, Places, NoneTwice, Accept
<1> HIDE DEF h
<1>2. /\ ppc[p] = "accept" /\ HasFd(p) /\ sock[p] = Nobody /\ request[p] = << >> /\ Live(p)
      /\ holders[h] = {} /\ h \notin unforked /\ h # Nobody
      /\ \A r \in Procs : sock[r] # h
      /\ Unread(h, 0)
  BY <1>1 DEF Accept, Places, Live, Flows, Nobody, Clients
<1>3. /\ sock' = [sock EXCEPT ![p] = h]
      /\ UNCHANGED <<perrno, request, upstream, downstream, unforked>>
      /\ UNCHANGED <<ask, cpc, sent, response>>
  BY DEF Accept, clientVars, h
<1>4. \/ /\ holders' = [holders EXCEPT ![h] = @ \cup {p}]
         /\ pending' = Tail(pending)
         /\ ppc' = [ppc EXCEPT ![p] = "fork"]
      \/ /\ ppc' = [ppc EXCEPT ![p] = "dead"]
         /\ holders' = [c \in Clients |-> holders[c] \ {p}]
         /\ \/ pending' = Tail(pending) /\ \E q \in Procs \ {p} : Live(q)
            \/ pending' = << >> /\ \A q \in Procs \ {p} : ~Live(q)
  BY DEF Accept, PGoto, h
<1>5. /\ \A r \in Procs \ {p} : ppc'[r] = ppc[r] /\ sock'[r] = sock[r] /\ (Live(r)' <=> Live(r))
      /\ sock'[p] = h /\ ppc'[p] \in {"fork", "dead"}
      /\ \A c \in Clients : holders'[c] \subseteq holders[c] \cup {p}
      /\ \A c \in Clients : c # h \/ ppc'[p] = "dead" => holders'[c] \subseteq holders[c]
      /\ \A c \in Clients, r \in Procs \ {p} : r \in holders[c] => r \in holders'[c]
      /\ ppc'[p] = "fork" => p \in holders'[h]
      /\ ppc'[p] = "dead" => \A c \in Clients : p \notin holders'[c]
  <2>1. CASE holders' = [holders EXCEPT ![h] = @ \cup {p}] /\ ppc' = [ppc EXCEPT ![p] = "fork"]
    BY <1>1, <1>3, <2>1 DEF TypeOK, Live
  <2>2. CASE holders' = [c \in Clients |-> holders[c] \ {p}] /\ ppc' = [ppc EXCEPT ![p] = "dead"]
    BY <1>1, <1>3, <2>2 DEF TypeOK, Live
  <2> QED
    BY <1>4, <2>1, <2>2
<1>6. \A c : Waits(c)' => Waits(c) /\ c # h
  <2>1. CASE pending' = Tail(pending)
    BY <1>1, <2>1 DEF Waits
  <2>2. CASE pending' = << >>
    BY <2>2 DEF Waits
  <2> QED
    BY <1>4, <2>1, <2>2
<1>7. \A c : Waits(c) /\ c # h => Waits(c)' \/ \A q \in Procs : ~Live(q)'
  <2>1. CASE pending' = Tail(pending)
    BY <1>1, <2>1 DEF Waits
  <2>2. CASE ppc'[p] = "dead" /\ \A q \in Procs \ {p} : ~Live(q)
    BY <1>5, <2>2 DEF Live
  <2> QED
    BY <1>4, <2>1, <2>2 DEF TypeOK
<1>8. \A c \in Clients : /\ Message(c)' = Message(c) /\ Answer(c)' = Answer(c)
                         /\ Got(c)' = Got(c) /\ Written(c)' = Written(c)
                         /\ \A n : Unread(c, n)' <=> Unread(c, n)
  BY <1>3, SameStreams
<1>9. TypeOK'
  <2>1. pending' \in Seq(Clients)
    <3>1. << >> \in Seq(Clients)
      OBVIOUS
    <3> QED
      BY <1>1, <1>4, <3>1
  <2>2. /\ ppc' \in [Procs -> {"unborn", "accept", "fork", "read", "list", "dead"}]
        /\ sock' \in [Procs -> Clients \cup {Nobody}]
        /\ holders' \in [Clients -> SUBSET Procs]
    <3>1. ppc' \in [Procs -> {"unborn", "accept", "fork", "read", "list", "dead"}]
      BY <1>4 DEF TypeOK
    <3>2. sock' \in [Procs -> Clients \cup {Nobody}]
      BY <1>1, <1>3 DEF TypeOK
    <3>3. [holders EXCEPT ![h] = @ \cup {p}] \in [Clients -> SUBSET Procs]
      BY <1>1 DEF TypeOK
    <3>4. [c \in Clients |-> holders[c] \ {p}] \in [Clients -> SUBSET Procs]
      BY DEF TypeOK
    <3> QED
      BY <1>4, <3>1, <3>2, <3>3, <3>4
  <2>3. ASSUME NEW q \in Procs
        PROVE  Fds(q)' <= FdRoom
    <3>1. CASE q = p
      <4>1. Held(p)' \subseteq Held(p) \cup {h}
        BY <1>5 DEF Held
      <4> QED
        BY <1>1, <1>2, <3>1, <4>1, FdsGrow
    <3>2. CASE q # p
      <4>1. Held(q)' \subseteq Held(q)
        BY <1>5, <3>2 DEF Held
      <4> QED
        BY <4>1, FdsInherited
    <3> QED
      BY <3>1, <3>2
  <2> QED
    BY <1>3, <2>1, <2>2, <2>3 DEF TypeOK
<1>10. Places'
  <2>1. NoneTwice(pending)'
    BY <1>1, <1>4 DEF NoneTwice
  <2>2. pending' # << >> => \E q \in Procs : Live(q)'
    BY <1>4, <1>5 DEF Live, TypeOK
  <2>3. ASSUME NEW q \in Procs, NEW r \in Procs, sock'[q] = sock'[r], sock'[q] # Nobody
        PROVE  q = r
    BY <1>2, <1>5, <2>3 DEF Places
  <2>4. ASSUME NEW q \in Procs
        PROVE  /\ ppc'[q] \in {"unborn", "accept"} => sock'[q] = Nobody
               /\ Serves(q)' => sock'[q] \in Clients /\ q \in holders'[sock'[q]]
               /\ ppc'[q] \in {"unborn", "accept", "fork"} => request'[q] = << >>
    BY <1>1, <1>2, <1>3, <1>5 DEF Places, Serves
  <2>5. ASSUME NEW c \in Clients
        PROVE  /\ \A q \in holders'[c] : Live(q)'
               /\ Waits(c)' => holders'[c] = {}
               /\ Waits(c)' \/ c \in unforked' => \A q \in Procs : sock'[q] # c
               /\ Waits(c)' => c \notin unforked'
    <3>1. \A q \in holders'[c] : Live(q)'
      <4>1. ASSUME NEW q \in Procs, q \in holders'[c]
            PROVE  Live(q)'
        BY <1>5, <4>1 DEF Places, Live
      <4>2. holders'[c] \subseteq Procs
        BY <1>5 DEF TypeOK
      <4> QED
        BY <4>1, <4>2
    <3>2. Waits(c)' => holders'[c] = {}
      BY <1>5, <1>6 DEF Places
    <3>3. Waits(c)' \/ c \in unforked' => \A q \in Procs : sock'[q] # c
      BY <1>2, <1>3, <1>5, <1>6 DEF Places
    <3>4. Waits(c)' => c \notin unforked'
      BY <1>3, <1>6 DEF Places
    <3> QED
      BY <3>1, <3>2, <3>3, <3>4
  <2> QED
    BY <2>1, <2>2, <2>3, <2>4, <2>5 DEF Places, NoneTwice
<1>11. Flows'
  <2>1. ASSUME NEW c \in Clients
        PROVE  /\ Waits(c)' \/ cpc'[c] \in {"off", "failed"} => Unread(c, 0)'
               /\ sent'[c] <= Len(Message(c)')
               /\ cpc'[c] \in {"off", "send", "failed"} => sent'[c] < Len(Message(c)')
               /\ Written(c)' <= Len(Answer(c)')
               /\ response'[c] = SubSeq(Answer(c)', 1, Got(c)')
               /\ downstream'[c] = SubSeq(Answer(c)', Got(c)' + 1, Written(c)')
               /\ cpc'[c] \in {"send", "receive"} => Got(c)' < Len(Answer(c)')
    BY <1>3, <1>6, <1>8 DEF Flows
  <2>2. ASSUME NEW q \in Procs, ppc'[q] \in {"fork", "read"}
        PROVE  /\ Unread(sock[q], Len(request[q]))'
               /\ request'[q] = SubSeq(Message(sock[q])', 1, Len(request'[q]))
    <3>1. CASE q = p
      <4>1. sock'[q] = h /\ request'[q] = << >> /\ Len(request'[q]) = 0
        BY <1>2, <1>3, <1>5, <3>1
      <4>2. SubSeq(Message(h), 1, 0) = << >>
        BY <1>1, MessageLemma, SubSeqEmpty DEF TypeOK
      <4> QED
        BY <1>1, <1>2, <1>8, <4>1, <4>2
    <3>2. CASE q # p
      <4>1. sock'[q] = sock[q] /\ ppc'[q] = ppc[q] /\ request'[q] = request[q] /\ sock[q] \in Clients
        BY <1>3, <1>5, <2>2, <3>2 DEF Places, Serves
      <4> QED
        BY <1>8, <2>2, <4>1 DEF Flows
    <3> QED
      BY <3>1, <3>2
  <2>3. ASSUME NEW q \in Procs, ppc'[q] = "list", ~Gone(sock[q])'
        PROVE  /\ Written(sock[q])' < Len(Message(sock[q])')
               /\ request'[q] = SubSeq(Message(sock[q])', Written(sock[q])' + 1,
                                       Len(Message(sock[q])'))
    <3>1. /\ sock'[q] = sock[q] /\ ppc'[q] = ppc[q] /\ request'[q] = request[q] /\ sock[q] \in Clients
          /\ ~Gone(sock[q])
      BY <1>3, <1>5, <2>3 DEF Places, Serves, Gone
    <3> QED
      BY <1>8, <2>3, <3>1 DEF Flows
  <2> QED
    BY <2>1, <2>2, <2>3 DEF Flows
<1>12. Fates'
  <2> SUFFICES ASSUME NEW c \in Clients
               PROVE  /\ cpc'[c] \in {"off", "failed"} =>
                           /\ ~Waits(c)' /\ holders'[c] = {} /\ c \notin unforked'
                           /\ \A q \in Procs : sock'[q] # c
                      /\ cpc'[c] \in {"send", "receive"} =>
                           \/ Waits(c)' \/ c \in unforked' \/ Written(c)' = Len(Answer(c)')
                           \/ \E q \in Procs : sock'[q] = c
                           \/ \A q \in Procs : ~Live(q)'
                      /\ cpc'[c] = "done" => ~Waits(c)' /\ \A q \in Procs : Serves(q)' => sock'[q] # c
                      /\ \A q \in Procs : ppc'[q] = "dead" /\ sock'[q] = c => Gone(c)' \/ HungUp(c)'
    BY DEF Fates
  <2>1. c = h => cpc'[c] \notin {"off", "failed", "done"}
    BY <1>1, <1>3 DEF Fates
  <2>2. cpc'[c] \in {"off", "failed"} =>
          /\ ~Waits(c)' /\ holders'[c] = {} /\ c \notin unforked'
          /\ \A q \in Procs : sock'[q] # c
    BY <1>3, <1>5, <1>6, <2>1 DEF Fates
  <2>3. cpc'[c] \in {"send", "receive"} =>
          \/ Waits(c)' \/ c \in unforked' \/ Written(c)' = Len(Answer(c)')
          \/ \E q \in Procs : sock'[q] = c
          \/ \A q \in Procs : ~Live(q)'
    <3>1. CASE c = h
      BY <1>5, <3>1
    <3>2. CASE \E q \in Procs : sock[q] = c
      BY <1>2, <1>5, <3>2 DEF Nobody, Clients
    <3>3. CASE c # h /\ ~ \E q \in Procs : sock[q] = c
      BY <1>2, <1>3, <1>7, <1>8, <3>3 DEF Fates
    <3> QED
      BY <3>1, <3>2, <3>3
  <2>4. cpc'[c] = "done" => ~Waits(c)' /\ \A q \in Procs : Serves(q)' => sock'[q] # c
    BY <1>3, <1>5, <1>6, <2>1 DEF Fates, Serves
  <2>5. ASSUME NEW q \in Procs, ppc'[q] = "dead", sock'[q] = c
        PROVE  Gone(c)' \/ HungUp(c)'
    <3>1. CASE q = p
      <4>1. c = h /\ holders'[c] = {} /\ ~Waits(c)'
        BY <1>2, <1>5, <1>6, <2>5, <3>1
      <4> QED
        BY <4>1 DEF HungUp, Waits
    <3>2. CASE q # p
      <4>1. c # h /\ (Gone(c) \/ HungUp(c))
        BY <1>2, <1>5, <2>5, <3>2 DEF Fates
      <4>2. HungUp(c) => holders'[c] = {} /\ ~Waits(c)'
        BY <1>5, <1>6, <4>1 DEF HungUp, Waits
      <4> QED
        BY <1>3, <4>1, <4>2 DEF HungUp, Waits, Gone
    <3> QED
      BY <3>1, <3>2
  <2> QED
    BY <2>2, <2>3, <2>4, <2>5
<1> QED
  BY <1>9, <1>10, <1>11, <1>12

\* A process ends: it has no connection, or the client of its connection has
\* gone away.
LEMMA ExitKeeps ==
  ASSUME TypeOK, Places, Flows, Fates, NEW p \in Procs, Live(p), Exit(p),
         sock[p] = Nobody \/ Gone(sock[p]),
         UNCHANGED <<perrno, sock, request, upstream, downstream, unforked, clientVars>>
  PROVE  TypeOK' /\ Places' /\ Flows' /\ Fates'
<1>1. /\ UNCHANGED <<perrno, sock, request, upstream, downstream, unforked>>
      /\ UNCHANGED <<ask, cpc, sent, response>>
      /\ ppc' = [ppc EXCEPT ![p] = "dead"]
      /\ holders' = [c \in Clients |-> holders[c] \ {p}]
      /\ \/ pending' = pending /\ \E q \in Procs \ {p} : Live(q)
         \/ pending' = << >> /\ \A q \in Procs \ {p} : ~Live(q)
  BY DEF Exit, PGoto, clientVars
<1>2. /\ \A r \in Procs \ {p} : ppc'[r] = ppc[r] /\ (Live(r)' <=> Live(r))
      /\ ppc'[p] = "dead"
      /\ \A c \in Clients : holders'[c] \subseteq holders[c] /\ p \notin holders'[c]
      /\ \A c \in Clients, r \in Procs \ {p} : r \in holders[c] => r \in holders'[c]
  BY <1>1 DEF TypeOK, Live
<1>3. \A c : Waits(c)' => Waits(c)
  <2>1. CASE pending' = pending
    BY <2>1 DEF Waits
  <2>2. CASE pending' = << >>
    BY <2>2 DEF Waits
  <2> QED
    BY <1>1, <2>1, <2>2
<1>4. \A c : Waits(c) => Waits(c)' \/ \A q \in Procs : ~Live(q)'
  <2>1. CASE pending' = pending
    BY <2>1 DEF Waits
  <2>2. CASE \A q \in Procs \ {p} : ~Live(q)
    BY <1>2, <2>2 DEF Live
  <2> QED
    BY <1>1, <2>1, <2>2
<1>5. \A c \in Clients : /\ Message(c)' = Message(c) /\ Answer(c)' = Answer(c)
                         /\ Got(c)' = Got(c) /\ Written(c)' = Written(c)
                         /\ \A n : Unread(c, n)' <=> Unread(c, n)
  BY <1>1, SameStreams
<1>6. TypeOK'
  <2>1. pending' \in Seq(Clients)
    <3>1. << >> \in Seq(Clients)
      OBVIOUS
    <3> QED
      BY <1>1, <3>1 DEF TypeOK
  <2>2. /\ ppc' \in [Procs -> {"unborn", "accept", "fork", "read", "list", "dead"}]
        /\ holders' \in [Clients -> SUBSET Procs]
    BY <1>1 DEF TypeOK
  <2>3. ASSUME NEW q \in Procs
        PROVE  Fds(q)' <= FdRoom
    <3>1. Held(q)' \subseteq Held(q)
      BY <1>2 DEF Held
    <3> QED
      BY <3>1, FdsInherited
  <2> QED
    BY <1>1, <2>1, <2>2, <2>3 DEF TypeOK
<1>7. Places'
  <2>1. NoneTwice(pending)'
    BY <1>1 DEF NoneTwice, Places
  <2>2. pending' # << >> => \E q \in Procs : Live(q)'
    BY <1>1, <1>2
  <2>3. ASSUME NEW q \in Procs, NEW r \in Procs, sock'[q] = sock'[r], sock'[q] # Nobody
        PROVE  q = r
    BY <1>1, <2>3 DEF Places
  <2>4. ASSUME NEW q \in Procs
        PROVE  /\ ppc'[q] \in {"unborn", "accept"} => sock'[q] = Nobody
               /\ Serves(q)' => sock'[q] \in Clients /\ q \in holders'[sock'[q]]
               /\ ppc'[q] \in {"unborn", "accept", "fork"} => request'[q] = << >>
    BY <1>1, <1>2 DEF Places, Serves
  <2>5. ASSUME NEW c \in Clients
        PROVE  /\ \A q \in holders'[c] : Live(q)'
               /\ Waits(c)' => holders'[c] = {}
               /\ Waits(c)' \/ c \in unforked' => \A q \in Procs : sock'[q] # c
               /\ Waits(c)' => c \notin unforked'
    <3>1. \A q \in holders'[c] : Live(q)'
      <4>1. ASSUME NEW q \in Procs, q \in holders'[c]
            PROVE  Live(q)'
        BY <1>2, <4>1 DEF Places
      <4>2. holders'[c] \subseteq Procs
        BY <1>2 DEF TypeOK
      <4> QED
        BY <4>1, <4>2
    <3> QED
      BY <1>1, <1>2, <1>3, <3>1 DEF Places
  <2> QED
    BY <2>1, <2>2, <2>3, <2>4, <2>5 DEF Places, NoneTwice
<1>8. Flows'
  <2>1. ASSUME NEW c \in Clients
        PROVE  /\ Waits(c)' \/ cpc'[c] \in {"off", "failed"} => Unread(c, 0)'
               /\ sent'[c] <= Len(Message(c)')
               /\ cpc'[c] \in {"off", "send", "failed"} => sent'[c] < Len(Message(c)')
               /\ Written(c)' <= Len(Answer(c)')
               /\ response'[c] = SubSeq(Answer(c)', 1, Got(c)')
               /\ downstream'[c] = SubSeq(Answer(c)', Got(c)' + 1, Written(c)')
               /\ cpc'[c] \in {"send", "receive"} => Got(c)' < Len(Answer(c)')
    BY <1>1, <1>3, <1>5 DEF Flows
  <2>2. ASSUME NEW q \in Procs, ppc'[q] \in {"fork", "read", "list"}
        PROVE  /\ sock'[q] = sock[q] /\ ppc'[q] = ppc[q] /\ request'[q] = request[q]
               /\ sock[q] \in Clients
    BY <1>1, <1>2, <2>2 DEF Places, Serves
  <2>3. ASSUME NEW q \in Procs, ppc'[q] \in {"fork", "read"}
        PROVE  /\ Unread(sock[q], Len(request[q]))'
               /\ request'[q] = SubSeq(Message(sock[q])', 1, Len(request'[q]))
    BY <1>5, <2>2, <2>3 DEF Flows
  <2>4. ASSUME NEW q \in Procs, ppc'[q] = "list", ~Gone(sock[q])'
        PROVE  /\ Written(sock[q])' < Len(Message(sock[q])')
               /\ request'[q] = SubSeq(Message(sock[q])', Written(sock[q])' + 1,
                                       Len(Message(sock[q])'))
    <3>1. ~Gone(sock[q])
      BY <1>1, <2>2, <2>4 DEF Gone
    <3> QED
      BY <1>5, <2>2, <2>4, <3>1 DEF Flows
  <2> QED
    BY <2>1, <2>3, <2>4 DEF Flows
<1>9. Fates'
  <2> SUFFICES ASSUME NEW c \in Clients
               PROVE  /\ cpc'[c] \in {"off", "failed"} =>
                           /\ ~Waits(c)' /\ holders'[c] = {} /\ c \notin unforked'
                           /\ \A q \in Procs : sock'[q] # c
                      /\ cpc'[c] \in {"send", "receive"} =>
                           \/ Waits(c)' \/ c \in unforked' \/ Written(c)' = Len(Answer(c)')
                           \/ \E q \in Procs : sock'[q] = c
                           \/ \A q \in Procs : ~Live(q)'
                      /\ cpc'[c] = "done" => ~Waits(c)' /\ \A q \in Procs : Serves(q)' => sock'[q] # c
                      /\ \A q \in Procs : ppc'[q] = "dead" /\ sock'[q] = c => Gone(c)' \/ HungUp(c)'
    BY DEF Fates
  <2>1. cpc'[c] \in {"off", "failed"} =>
          /\ ~Waits(c)' /\ holders'[c] = {} /\ c \notin unforked'
          /\ \A q \in Procs : sock'[q] # c
    BY <1>1, <1>2, <1>3 DEF Fates
  <2>2. cpc'[c] \in {"send", "receive"} =>
          \/ Waits(c)' \/ c \in unforked' \/ Written(c)' = Len(Answer(c)')
          \/ \E q \in Procs : sock'[q] = c
          \/ \A q \in Procs : ~Live(q)'
    BY <1>1, <1>4, <1>5 DEF Fates
  <2>3. cpc'[c] = "done" => ~Waits(c)' /\ \A q \in Procs : Serves(q)' => sock'[q] # c
    BY <1>1, <1>2, <1>3 DEF Fates, Serves
  <2>4. ASSUME NEW q \in Procs, ppc'[q] = "dead", sock'[q] = c
        PROVE  Gone(c)' \/ HungUp(c)'
    <3>1. Gone(c) \/ HungUp(c)
      <4>1. CASE q = p
        BY <1>1, <2>4, <4>1 DEF Nobody, Clients
      <4>2. CASE q # p
        BY <1>1, <1>2, <2>4, <4>2 DEF Fates
      <4> QED
        BY <4>1, <4>2
    <3>2. HungUp(c) => holders'[c] = {} /\ ~Waits(c)'
      BY <1>2, <1>3 DEF HungUp, Waits
    <3> QED
      BY <1>1, <3>1, <3>2 DEF HungUp, Waits, Gone
  <2> QED
    BY <2>1, <2>2, <2>3, <2>4
<1> QED
  BY <1>6, <1>7, <1>8, <1>9

\* fork() makes a child that has all that its parent has.
ForkChild(p, q) ==
  /\ ppc[p] = "fork" /\ ppc[q] = "unborn"
  /\ ppc' = [ppc EXCEPT ![p] = "accept", ![q] = "read"]
  /\ sock' = [sock EXCEPT ![p] = Nobody, ![q] = sock[p]]
  /\ holders' = [c \in Clients |-> IF p \in holders[c] THEN holders[c] \cup {q}
                                                         ELSE holders[c]]
  /\ UNCHANGED <<perrno, unforked, request, pending, upstream, downstream, clientVars>>

LEMMA ForkKeeps ==
  ASSUME TypeOK, Places, Flows, Fates, NEW p \in Procs, NEW q \in Procs, ForkChild(p, q)
  PROVE  TypeOK' /\ Places' /\ Flows' /\ Fates'
<1> DEFINE h == sock[p]
<1>1. /\ p # q /\ h \in Clients /\ h # Nobody /\ p \in holders[h] /\ ~Waits(h) /\ h \notin unforked
      /\ sock[q] = Nobody /\ request[p] = << >> /\ request[q] = << >> /\ Live(p)
      /\ \A r \in Procs \ {p} : sock[r] # h
      /\ cpc[h] \notin {"off", "failed", "done"}
      /\ \A c \in Clients : q \notin holders[c]
  <2>1. h \in Clients /\ p \in holders[h]
    BY DEF Places, Serves, ForkChild
  <2>2. /\ p # q /\ h # Nobody /\ ~Waits(h) /\ h \notin unforked
        /\ sock[q] = Nobody /\ request[p] = << >> /\ request[q] = << >> /\ Live(p)
        /\ \A r \in Procs \ {p} : sock[r] # h
        /\ \A c \in Clients : q \notin holders[c]
    BY <2>1 DEF Places, Live, Nobody, Clients, ForkChild
  <2>3. cpc[h] \notin {"off", "failed", "done"}
    BY <2>1 DEF Fates, Serves, ForkChild
  <2> QED
    BY <2>1, <2>2, <2>3
<1> HIDE DEF h
<1>2. /\ UNCHANGED <<perrno, request, upstream, downstream, unforked, pending>>
      /\ UNCHANGED <<ask, cpc, sent, response>>
  BY DEF clientVars, ForkChild
<1>3. /\ \A r \in Procs \ {p, q} : ppc'[r] = ppc[r] /\ sock'[r] = sock[r] /\ (Live(r)' <=> Live(r))
      /\ ppc'[p] = "accept" /\ sock'[p] = Nobody /\ ppc'[q] = "read" /\ sock'[q] = h
      /\ Live(p)' /\ Live(q)'
      /\ \A c \in Clients : /\ holders[c] \subseteq holders'[c]
                            /\ holders'[c] \subseteq holders[c] \cup {q}
                            /\ q \in holders'[c] <=> p \in holders[c]
                            /\ holders[c] = {} => holders'[c] = {}
  BY <1>1 DEF TypeOK, Live, ForkChild, h
<1>4. \A c : Waits(c)' <=> Waits(c)
  BY <1>2 DEF Waits
<1>5. \A c \in Clients : /\ Message(c)' = Message(c) /\ Answer(c)' = Answer(c)
                         /\ Got(c)' = Got(c) /\ Written(c)' = Written(c)
                         /\ \A n : Unread(c, n)' <=> Unread(c, n)
  BY <1>2, SameStreams
<1>6. TypeOK'
  <2>1. /\ ppc' \in [Procs -> {"unborn", "accept", "fork", "read", "list", "dead"}]
        /\ sock' \in [Procs -> Clients \cup {Nobody}]
        /\ holders' \in [Clients -> SUBSET Procs]
    BY <1>1 DEF TypeOK, ForkChild, h
  <2>2. ASSUME NEW r \in Procs
        PROVE  Fds(r)' <= FdRoom
    <3>1. Held(r)' \subseteq Held(IF r = q THEN p ELSE r)
      BY <1>3 DEF Held
    <3> QED
      BY <3>1, FdsInherited
  <2> QED
    BY <1>2, <2>1, <2>2 DEF TypeOK
<1>7. Places'
  <2>1. NoneTwice(pending)'
    BY <1>2 DEF NoneTwice, Places
  <2>2. pending' # << >> => \E r \in Procs : Live(r)'
    BY <1>3
  <2>3. ASSUME NEW r \in Procs, NEW s \in Procs, sock'[r] = sock'[s], sock'[r] # Nobody
        PROVE  r = s
    BY <1>1, <1>3, <2>3 DEF Places
  <2>4. ASSUME NEW r \in Procs
        PROVE  /\ ppc'[r] \in {"unborn", "accept"} => sock'[r] = Nobody
               /\ Serves(r)' => sock'[r] \in Clients /\ r \in holders'[sock'[r]]
               /\ ppc'[r] \in {"unborn", "accept", "fork"} => request'[r] = << >>
    BY <1>1, <1>2, <1>3 DEF Places, Serves
  <2>5. ASSUME NEW c \in Clients
        PROVE  /\ \A r \in holders'[c] : Live(r)'
               /\ Waits(c)' => holders'[c] = {}
               /\ Waits(c)' \/ c \in unforked' => \A r \in Procs : sock'[r] # c
               /\ Waits(c)' => c \notin unforked'
    <3>1. \A r \in holders'[c] : Live(r)'
      <4>1. ASSUME NEW r \in Procs, r \in holders'[c]
            PROVE  Live(r)'
        BY <1>3, <4>1 DEF Places
      <4>2. holders'[c] \subseteq Procs
        BY <1>3 DEF TypeOK
      <4> QED
        BY <4>1, <4>2
    <3>2. Waits(c)' \/ c \in unforked' => \A r \in Procs : sock'[r] # c
      BY <1>1, <1>2, <1>3, <1>4 DEF Places, Nobody, Clients
    <3> QED
      BY <1>2, <1>3, <1>4, <3>1, <3>2 DEF Places
  <2> QED
    BY <2>1, <2>2, <2>3, <2>4, <2>5 DEF Places, NoneTwice
<1>8. Flows'
  <2>1. ASSUME NEW c \in Clients
        PROVE  /\ Waits(c)' \/ cpc'[c] \in {"off", "failed"} => Unread(c, 0)'
               /\ sent'[c] <= Len(Message(c)')
               /\ cpc'[c] \in {"off", "send", "failed"} => sent'[c] < Len(Message(c)')
               /\ Written(c)' <= Len(Answer(c)')
               /\ response'[c] = SubSeq(Answer(c)', 1, Got(c)')
               /\ downstream'[c] = SubSeq(Answer(c)', Got(c)' + 1, Written(c)')
               /\ cpc'[c] \in {"send", "receive"} => Got(c)' < Len(Answer(c)')
    BY <1>2, <1>4, <1>5 DEF Flows
  <2>2. ASSUME NEW r \in Procs, ppc'[r] \in {"fork", "read"}
        PROVE  /\ Unread(sock[r], Len(request[r]))'
               /\ request'[r] = SubSeq(Message(sock[r])', 1, Len(request'[r]))
    <3>1. CASE r = q
      <4>1. Unread(h, Len(request[p])) /\ request[p] = SubSeq(Message(h), 1, Len(request[p]))
        BY DEF Flows, ForkChild, h
      <4>2. sock'[r] = h /\ request'[r] = request[p]
        BY <1>1, <1>2, <1>3, <3>1
      <4> QED
        BY <1>1, <1>5, <4>1, <4>2
    <3>2. CASE r # q
      <4>1. sock'[r] = sock[r] /\ ppc'[r] = ppc[r] /\ request'[r] = request[r] /\ sock[r] \in Clients
        BY <1>2, <1>3, <2>2, <3>2 DEF Places, Serves
      <4> QED
        BY <1>5, <2>2, <4>1 DEF Flows
    <3> QED
      BY <3>1, <3>2
  <2>3. ASSUME NEW r \in Procs, ppc'[r] = "list", ~Gone(sock[r])'
        PROVE  /\ Written(sock[r])' < Len(Message(sock[r])')
               /\ request'[r] = SubSeq(Message(sock[r])', Written(sock[r])' + 1,
                                       Len(Message(sock[r])'))
    <3>1. /\ sock'[r] = sock[r] /\ ppc'[r] = ppc[r] /\ request'[r] = request[r] /\ sock[r] \in Clients
          /\ ~Gone(sock[r])
      BY <1>2, <1>3, <2>3 DEF Places, Serves, Gone
    <3> QED
      BY <1>5, <2>3, <3>1 DEF Flows
  <2> QED
    BY <2>1, <2>2, <2>3 DEF Flows
<1>9. Fates'
  <2> SUFFICES ASSUME NEW c \in Clients
               PROVE  /\ cpc'[c] \in {"off", "failed"} =>
                           /\ ~Waits(c)' /\ holders'[c] = {} /\ c \notin unforked'
                           /\ \A r \in Procs : sock'[r] # c
                      /\ cpc'[c] \in {"send", "receive"} =>
                           \/ Waits(c)' \/ c \in unforked' \/ Written(c)' = Len(Answer(c)')
                           \/ \E r \in Procs : sock'[r] = c
                           \/ \A r \in Procs : ~Live(r)'
                      /\ cpc'[c] = "done" => ~Waits(c)' /\ \A r \in Procs : Serves(r)' => sock'[r] # c
                      /\ \A r \in Procs : ppc'[r] = "dead" /\ sock'[r] = c => Gone(c)' \/ HungUp(c)'
    BY DEF Fates
  <2>1. cpc'[c] \in {"off", "failed"} =>
          /\ ~Waits(c)' /\ holders'[c] = {} /\ c \notin unforked'
          /\ \A r \in Procs : sock'[r] # c
    BY <1>1, <1>2, <1>3, <1>4 DEF Fates, Nobody, Clients
  <2>2. cpc'[c] \in {"send", "receive"} =>
          \/ Waits(c)' \/ c \in unforked' \/ Written(c)' = Len(Answer(c)')
          \/ \E r \in Procs : sock'[r] = c
          \/ \A r \in Procs : ~Live(r)'
    <3>1. (\E r \in Procs : sock[r] = c) => \E r \in Procs : sock'[r] = c
      BY <1>1, <1>3 DEF Nobody, Clients, h
    <3> QED
      BY <1>1, <1>2, <1>4, <1>5, <3>1 DEF Fates
  <2>3. cpc'[c] = "done" => ~Waits(c)' /\ \A r \in Procs : Serves(r)' => sock'[r] # c
    BY <1>1, <1>2, <1>3, <1>4 DEF Fates, Serves
  <2>4. ASSUME NEW r \in Procs, ppc'[r] = "dead", sock'[r] = c
        PROVE  Gone(c)' \/ HungUp(c)'
    <3>1. Gone(c) \/ HungUp(c)
      BY <1>3, <2>4 DEF Fates
    <3>2. HungUp(c) => holders'[c] = {} /\ ~Waits(c)'
      BY <1>3, <1>4 DEF HungUp, Waits
    <3> QED
      BY <1>2, <3>1, <3>2 DEF HungUp, Waits, Gone
  <2> QED
    BY <2>1, <2>2, <2>3, <2>4
<1> QED
  BY <1>6, <1>7, <1>8, <1>9

\* When fork() fails the connection stays with the process that accepted it.
NoChild(p) ==
  /\ ppc[p] = "fork" /\ PGoto(p, "accept")
  /\ sock' = [sock EXCEPT ![p] = Nobody]
  /\ perrno' = [perrno EXCEPT ![p] = TRUE]
  /\ unforked' = unforked \cup {sock[p]}
  /\ UNCHANGED <<holders, request, pending, upstream, downstream, clientVars>>

LEMMA ForkFails ==
  ASSUME TypeOK, Places, Flows, Fates, NEW p \in Procs, NoChild(p)
  PROVE  TypeOK' /\ Places' /\ Flows' /\ Fates'
<1> DEFINE h == sock[p]
<1>1. /\ h \in Clients /\ h # Nobody /\ ~Waits(h)
      /\ request[p] = << >> /\ Live(p)
      /\ \A r \in Procs \ {p} : sock[r] # h
      /\ cpc[h] \notin {"off", "failed"}
  <2>1. h \in Clients
    BY DEF Places, Serves, NoChild
  <2> QED
    BY <2>1 DEF Places, Live, Nobody, Clients, Fates, NoChild
<1>2. /\ UNCHANGED <<request, upstream, downstream, holders, pending>>
      /\ UNCHANGED <<ask, cpc, sent, response>>
      /\ unforked' = unforked \cup {h}
  BY DEF clientVars, NoChild
<1> HIDE DEF h
<1>3. /\ \A r \in Procs \ {p} : ppc'[r] = ppc[r] /\ sock'[r] = sock[r] /\ (Live(r)' <=> Live(r))
      /\ ppc'[p] = "accept" /\ sock'[p] = Nobody /\ Live(p)'
  BY DEF TypeOK, Live, NoChild, PGoto
<1>4. \A c : Waits(c)' <=> Waits(c)
  BY <1>2 DEF Waits
<1>5. \A c \in Clients : /\ Message(c)' = Message(c) /\ Answer(c)' = Answer(c)
                         /\ Got(c)' = Got(c) /\ Written(c)' = Written(c)
                         /\ \A n : Unread(c, n)' <=> Unread(c, n)
  BY <1>2, SameStreams
<1>6. TypeOK'
  <2>1. /\ ppc' \in [Procs -> {"unborn", "accept", "fork", "read", "list", "dead"}]
        /\ sock' \in [Procs -> Clients \cup {Nobody}]
        /\ perrno' \in [Procs -> BOOLEAN]
        /\ unforked' \subseteq Clients
    BY <1>1, <1>2 DEF TypeOK, NoChild, PGoto
  <2>2. ASSUME NEW r \in Procs
        PROVE  Fds(r)' <= FdRoom
    BY <1>2 DEF TypeOK, Fds
  <2> QED
    BY <1>2, <2>1, <2>2 DEF TypeOK
<1>7. Places'
  <2>1. NoneTwice(pending)'
    BY <1>2 DEF NoneTwice, Places
  <2>2. pending' # << >> => \E r \in Procs : Live(r)'
    BY <1>3
  <2>3. ASSUME NEW r \in Procs, NEW s \in Procs, sock'[r] = sock'[s], sock'[r] # Nobody
        PROVE  r = s
    BY <1>1, <1>3, <2>3 DEF Places
  <2>4. ASSUME NEW r \in Procs
        PROVE  /\ ppc'[r] \in {"unborn", "accept"} => sock'[r] = Nobody
               /\ Serves(r)' => sock'[r] \in Clients /\ r \in holders'[sock'[r]]
               /\ ppc'[r] \in {"unborn", "accept", "fork"} => request'[r] = << >>
    BY <1>1, <1>2, <1>3 DEF Places, Serves
  <2>5. ASSUME NEW c \in Clients
        PROVE  /\ \A r \in holders'[c] : Live(r)'
               /\ Waits(c)' => holders'[c] = {}
               /\ Waits(c)' \/ c \in unforked' => \A r \in Procs : sock'[r] # c
               /\ Waits(c)' => c \notin unforked'
    <3>1. \A r \in holders'[c] : Live(r)'
      <4>1. holders[c] \subseteq Procs
        BY DEF TypeOK
      <4> QED
        BY <1>2, <1>3, <4>1 DEF Places
    <3>2. Waits(c)' \/ c \in unforked' => \A r \in Procs : sock'[r] # c
      BY <1>1, <1>2, <1>3, <1>4 DEF Places, Nobody, Clients
    <3>3. Waits(c)' => c \notin unforked'
      BY <1>1, <1>2, <1>4 DEF Places
    <3> QED
      BY <1>2, <1>4, <3>1, <3>2, <3>3 DEF Places
  <2> QED
    BY <2>1, <2>2, <2>3, <2>4, <2>5 DEF Places, NoneTwice
<1>8. Flows'
  <2>1. ASSUME NEW c \in Clients
        PROVE  /\ Waits(c)' \/ cpc'[c] \in {"off", "failed"} => Unread(c, 0)'
               /\ sent'[c] <= Len(Message(c)')
               /\ cpc'[c] \in {"off", "send", "failed"} => sent'[c] < Len(Message(c)')
               /\ Written(c)' <= Len(Answer(c)')
               /\ response'[c] = SubSeq(Answer(c)', 1, Got(c)')
               /\ downstream'[c] = SubSeq(Answer(c)', Got(c)' + 1, Written(c)')
               /\ cpc'[c] \in {"send", "receive"} => Got(c)' < Len(Answer(c)')
    BY <1>2, <1>4, <1>5 DEF Flows
  <2>2. ASSUME NEW r \in Procs, ppc'[r] \in {"fork", "read", "list"}
        PROVE  /\ sock'[r] = sock[r] /\ ppc'[r] = ppc[r] /\ request'[r] = request[r]
               /\ sock[r] \in Clients
    BY <1>2, <1>3, <2>2 DEF Places, Serves
  <2>3. ASSUME NEW r \in Procs, ppc'[r] \in {"fork", "read"}
        PROVE  /\ Unread(sock[r], Len(request[r]))'
               /\ request'[r] = SubSeq(Message(sock[r])', 1, Len(request'[r]))
    BY <1>5, <2>2, <2>3 DEF Flows
  <2>4. ASSUME NEW r \in Procs, ppc'[r] = "list", ~Gone(sock[r])'
        PROVE  /\ Written(sock[r])' < Len(Message(sock[r])')
               /\ request'[r] = SubSeq(Message(sock[r])', Written(sock[r])' + 1,
                                       Len(Message(sock[r])'))
    <3>1. ~Gone(sock[r])
      BY <1>2, <2>2, <2>4 DEF Gone
    <3> QED
      BY <1>5, <2>2, <2>4, <3>1 DEF Flows
  <2> QED
    BY <2>1, <2>3, <2>4 DEF Flows
<1>9. Fates'
  <2> SUFFICES ASSUME NEW c \in Clients
               PROVE  /\ cpc'[c] \in {"off", "failed"} =>
                           /\ ~Waits(c)' /\ holders'[c] = {} /\ c \notin unforked'
                           /\ \A r \in Procs : sock'[r] # c
                      /\ cpc'[c] \in {"send", "receive"} =>
                           \/ Waits(c)' \/ c \in unforked' \/ Written(c)' = Len(Answer(c)')
                           \/ \E r \in Procs : sock'[r] = c
                           \/ \A r \in Procs : ~Live(r)'
                      /\ cpc'[c] = "done" => ~Waits(c)' /\ \A r \in Procs : Serves(r)' => sock'[r] # c
                      /\ \A r \in Procs : ppc'[r] = "dead" /\ sock'[r] = c => Gone(c)' \/ HungUp(c)'
    BY DEF Fates
  <2>1. cpc'[c] \in {"off", "failed"} =>
          /\ ~Waits(c)' /\ holders'[c] = {} /\ c \notin unforked'
          /\ \A r \in Procs : sock'[r] # c
    BY <1>1, <1>2, <1>3, <1>4 DEF Fates, Nobody, Clients
  <2>2. cpc'[c] \in {"send", "receive"} =>
          \/ Waits(c)' \/ c \in unforked' \/ Written(c)' = Len(Answer(c)')
          \/ \E r \in Procs : sock'[r] = c
          \/ \A r \in Procs : ~Live(r)'
    <3>1. (\E r \in Procs : sock[r] = c) => c \in unforked' \/ \E r \in Procs : sock'[r] = c
      BY <1>1, <1>2, <1>3 DEF h
    <3> QED
      BY <1>1, <1>2, <1>4, <1>5, <3>1 DEF Fates
  <2>3. cpc'[c] = "done" => ~Waits(c)' /\ \A r \in Procs : Serves(r)' => sock'[r] # c
    BY <1>2, <1>3, <1>4 DEF Fates, Serves
  <2>4. ASSUME NEW r \in Procs, ppc'[r] = "dead", sock'[r] = c
        PROVE  Gone(c)' \/ HungUp(c)'
    <3>1. Gone(c) \/ HungUp(c)
      BY <1>3, <2>4 DEF Fates
    <3> QED
      BY <1>2, <3>1 DEF HungUp, Gone
  <2> QED
    BY <2>1, <2>2, <2>3, <2>4
<1> QED
  BY <1>6, <1>7, <1>8, <1>9

-----------------------------------------------------------------------------
(* Steps of the streams.                                                   *)

\* One process moves on with its connection; nothing comes or goes.
Moves(p, label) ==
  /\ PGoto(p, label)
  /\ UNCHANGED <<sock, holders, pending, unforked, clientVars>>

LEMMA MovesPlaces ==
  ASSUME TypeOK, Places, NEW p \in Procs, NEW label \in {"read", "list"}, Moves(p, label),
         Serves(p), \A r \in Procs \ {p} : request'[r] = request[r]
  PROVE  /\ Places'
         /\ ppc' \in [Procs -> {"unborn", "accept", "fork", "read", "list", "dead"}]
         /\ \A r \in Procs : Fds(r)' <= FdRoom
         /\ \A r \in Procs : (Live(r)' <=> Live(r)) /\ (Serves(r)' <=> Serves(r))
         /\ \A r \in Procs \ {p} : ppc'[r] = ppc[r]
         /\ ppc'[p] = label
         /\ \A c : (Waits(c)' <=> Waits(c)) /\ (Gone(c)' <=> Gone(c)) /\ (HungUp(c)' <=> HungUp(c))
<1>1. /\ UNCHANGED <<sock, holders, pending, unforked>> /\ UNCHANGED cpc
      /\ ppc' = [ppc EXCEPT ![p] = label]
  BY DEF Moves, PGoto, clientVars
<1>2. /\ \A r \in Procs \ {p} : ppc'[r] = ppc[r]
      /\ ppc'[p] = label
      /\ \A r \in Procs : (Live(r)' <=> Live(r)) /\ (Serves(r)' <=> Serves(r))
      /\ ppc' \in [Procs -> {"unborn", "accept", "fork", "read", "list", "dead"}]
  BY <1>1 DEF TypeOK, Live, Serves
<1>3. \A c : (Waits(c)' <=> Waits(c)) /\ (Gone(c)' <=> Gone(c)) /\ (HungUp(c)' <=> HungUp(c))
  BY <1>1 DEF Waits, Gone, HungUp
<1>4. \A r \in Procs : Fds(r)' <= FdRoom
  BY <1>1 DEF Fds, TypeOK
<1>5. Places'
  <2>1. NoneTwice(pending)'
    BY <1>1 DEF NoneTwice, Places
  <2>2. pending' # << >> => \E r \in Procs : Live(r)'
    BY <1>1, <1>2 DEF Places
  <2>3. ASSUME NEW r \in Procs, NEW s \in Procs, sock'[r] = sock'[s], sock'[r] # Nobody
        PROVE  r = s
    BY <1>1, <2>3 DEF Places
  <2>4. ASSUME NEW r \in Procs
        PROVE  /\ ppc'[r] \in {"unborn", "accept"} => sock'[r] = Nobody
               /\ Serves(r)' => sock'[r] \in Clients /\ r \in holders'[sock'[r]]
               /\ ppc'[r] \in {"unborn", "accept", "fork"} => request'[r] = << >>
    BY <1>1, <1>2 DEF Places, Serves
  <2>5. ASSUME NEW c \in Clients
        PROVE  /\ \A r \in holders'[c] : Live(r)'
               /\ Waits(c)' => holders'[c] = {}
               /\ Waits(c)' \/ c \in unforked' => \A r \in Procs : sock'[r] # c
               /\ Waits(c)' => c \notin unforked'
    <3>1. holders[c] \subseteq Procs
      BY DEF TypeOK
    <3> QED
      BY <1>1, <1>2, <1>3, <3>1 DEF Places
  <2> QED
    BY <2>1, <2>2, <2>3, <2>4, <2>5 DEF Places, NoneTwice
<1> QED
  BY <1>2, <1>3, <1>4, <1>5

LEMMA MovesFates ==
  ASSUME TypeOK, Places, Flows, Fates, NEW p \in Procs, NEW label \in {"read", "list"},
         Moves(p, label), Serves(p), \A r \in Procs \ {p} : request'[r] = request[r],
         \A c \in Clients : c # sock[p] => Written(c)' = Written(c),
         \A c \in Clients : Answer(c)' = Answer(c)
  PROVE  Fates'
<1>1. UNCHANGED <<sock, holders, pending, unforked>> /\ UNCHANGED cpc
  BY DEF Moves, clientVars
<1>2. /\ \A r \in Procs : (Live(r)' <=> Live(r)) /\ (Serves(r)' <=> Serves(r))
      /\ \A c : (Waits(c)' <=> Waits(c)) /\ (Gone(c)' <=> Gone(c)) /\ (HungUp(c)' <=> HungUp(c))
      /\ \A r \in Procs : ppc'[r] = "dead" => ppc[r] = "dead"
  BY MovesPlaces
<1> SUFFICES ASSUME NEW c \in Clients
             PROVE  /\ cpc'[c] \in {"off", "failed"} =>
                         /\ ~Waits(c)' /\ holders'[c] = {} /\ c \notin unforked'
                         /\ \A r \in Procs : sock'[r] # c
                    /\ cpc'[c] \in {"send", "receive"} =>
                         \/ Waits(c)' \/ c \in unforked' \/ Written(c)' = Len(Answer(c)')
                         \/ \E r \in Procs : sock'[r] = c
                         \/ \A r \in Procs : ~Live(r)'
                    /\ cpc'[c] = "done" => ~Waits(c)' /\ \A r \in Procs : Serves(r)' => sock'[r] # c
                    /\ \A r \in Procs : ppc'[r] = "dead" /\ sock'[r] = c => Gone(c)' \/ HungUp(c)'
  BY DEF Fates
<1> QED
  BY <1>1, <1>2 DEF Fates

\* A part of the message is read.
ReadSome(p, n) ==
  LET got == request[p] \o SubSeq(upstream[sock[p]], 1, n) IN
  /\ ppc[p] = "read" /\ n \in 1 .. Len(upstream[sock[p]])
  /\ request' = [request EXCEPT ![p] = got]
  /\ upstream' = [upstream EXCEPT ![sock[p]] = SubSeq(@, n + 1, Len(@))]
  /\ Moves(p, IF Last(got) \in {NUL} THEN "list" ELSE "read")
  /\ UNCHANGED <<perrno, downstream>>

LEMMA ReadSomeKeeps ==
  ASSUME TypeOK, Places, Flows, Fates, NEW p \in Procs, NEW n \in Nat, ReadSome(p, n)
  PROVE  TypeOK' /\ Places' /\ Flows' /\ Fates'
<1>0. sock[p] \in Clients /\ Len(request[p]) \in Nat
  BY DEF ReadSome, Places, Serves, TypeOK
<1>c. PICK c \in Clients : c = sock[p]
  BY <1>0
<1>m. PICK m \in Nat : m = Len(request[p])
  BY <1>0
<1>w. PICK w \in Nat : w = sent[c]
  BY DEF TypeOK
<1>1. /\ c \in Clients /\ Serves(p) /\ ppc[p] = "read"
      /\ \A r \in Procs \ {p} : sock[r] # c
      /\ ~Waits(c) /\ cpc[c] \notin {"off", "failed"}
  BY <1>c DEF ReadSome, Places, Serves, Nobody, Clients, Fates
<1>2. /\ Message(c) \in Seq(Token) /\ Len(Message(c)) \in Nat
      /\ \A k \in 1 .. Len(Message(c)) : Message(c)[k] = NUL <=> k = Len(Message(c))
  BY MessageLemma DEF TypeOK
<1>3. /\ m <= w /\ w <= Len(Message(c))
      /\ upstream[c] = SubSeq(Message(c), m + 1, w)
      /\ downstream[c] = << >> /\ response[c] = << >>
      /\ request[p] = SubSeq(Message(c), 1, m)
  BY <1>1, <1>c, <1>m, <1>w DEF Flows, Unread, TypeOK
<1>4. n \in 1 .. w - m /\ Len(upstream[c]) = w - m
  <2>1. Len(SubSeq(Message(c), m + 1, w)) = w - m
    BY <1>2, <1>3, SliceLemma
  <2> QED
    BY <1>3, <2>1, <1>c DEF ReadSome
<1>5. /\ request[p] \o SubSeq(upstream[c], 1, n) = SubSeq(Message(c), 1, m + n)
      /\ SubSeq(upstream[c], n + 1, Len(upstream[c])) = SubSeq(Message(c), m + n + 1, w)
      /\ Len(SubSeq(Message(c), 1, m + n)) = m + n
      /\ Last(SubSeq(Message(c), 1, m + n)) = Message(c)[m + n]
  <2>1. n > 0 /\ n <= w - m
    BY <1>4
  <2>2. Message(c) \in Seq(Token) /\ m <= w /\ w <= Len(Message(c))
    BY <1>2, <1>3
  <2>4. SubSeq(Message(c), 1, m) \o SubSeq(SubSeq(Message(c), m + 1, w), 1, n)
          = SubSeq(Message(c), 1, m + n)
    BY <2>1, <2>2, SliceRead
  <2>5. SubSeq(SubSeq(Message(c), m + 1, w), n + 1, w - m) = SubSeq(Message(c), m + n + 1, w)
    BY <2>1, <2>2, SliceLeft
  <2>6. m + n \in Nat /\ m + n <= Len(Message(c)) /\ m + n \in 1 .. m + n
    BY <2>1, <2>2
  <2>7. /\ Len(SubSeq(Message(c), 1, m + n)) = m + n
        /\ SubSeq(Message(c), 1, m + n)[m + n] = Message(c)[m + n]
    BY <2>2, <2>6, SlicePrefix
  <2> QED
    BY <1>3, <1>4, <2>4, <2>5, <2>7 DEF Last
<1>6. Message(c)[m + n] = NUL <=> m + n = Len(Message(c))
  <2>1. n >= 1 /\ n <= w - m
    BY <1>4
  <2>2. m + n \in 1 .. Len(Message(c))
    BY <2>1, <1>2, <1>3
  <2> QED
    BY <1>2, <2>2
<1> DEFINE label == IF m + n = Len(Message(c)) THEN "list" ELSE "read"
<1>7. /\ request' = [request EXCEPT ![p] = SubSeq(Message(c), 1, m + n)]
      /\ upstream' = [upstream EXCEPT ![c] = SubSeq(Message(c), m + n + 1, w)]
      /\ Moves(p, label) /\ UNCHANGED <<perrno, downstream>>
  BY <1>5, <1>6, <1>c DEF ReadSome
<1>8. UNCHANGED <<sock, holders, pending, unforked>> /\ UNCHANGED <<ask, cpc, sent, response>>
  BY <1>7 DEF Moves, clientVars
<1>9. label \in {"read", "list"}
  OBVIOUS
<1> HIDE DEF label
<1>10. /\ \A r \in Procs \ {p} : request'[r] = request[r]
       /\ request'[p] = SubSeq(Message(c), 1, m + n) /\ upstream'[c] = SubSeq(Message(c), m + n + 1, w)
       /\ \A d \in Clients : d # c => upstream'[d] = upstream[d]
  BY <1>1, <1>7 DEF TypeOK
<1>11. /\ Places'
       /\ ppc' \in [Procs -> {"unborn", "accept", "fork", "read", "list", "dead"}]
       /\ \A r \in Procs : Fds(r)' <= FdRoom
       /\ \A r \in Procs \ {p} : ppc'[r] = ppc[r]
       /\ ppc'[p] = label
       /\ \A d : (Waits(d)' <=> Waits(d)) /\ (Gone(d)' <=> Gone(d))
  BY <1>1, <1>7, <1>9, <1>10, MovesPlaces
<1>12. /\ \A d \in Clients : /\ Message(d)' = Message(d) /\ Answer(d)' = Answer(d)
                             /\ Got(d)' = Got(d) /\ Written(d)' = Written(d)
       /\ \A d \in Clients : d # c => \A k : Unread(d, k)' <=> Unread(d, k)
  BY <1>7, <1>8, <1>10 DEF Message, Answer, Got, Written, Unread
<1>13. Unread(c, m + n)'
  <2>1. m + n <= w /\ sent'[c] = w
    BY <1>3, <1>4, <1>8, <1>w
  <2>2. /\ upstream'[c] = SubSeq(Message(c)', m + n + 1, w)
        /\ downstream'[c] = << >> /\ response'[c] = << >>
    BY <1>3, <1>7, <1>8, <1>10, <1>12
  <2> QED
    BY <2>1, <2>2 DEF Unread
<1>14. TypeOK'
  <2>1. SubSeq(Message(c), 1, m + n) \in Seq(Token) /\ SubSeq(Message(c), m + n + 1, w) \in Seq(Token)
    <3>1. SubSeq(Message(c), 0 + 1, m + n) \in Seq(Token)
      BY <1>2, <1>3, <1>4, SliceLemma
    <3>2. SubSeq(Message(c), (m + n) + 1, w) \in Seq(Token)
      BY <1>2, <1>3, <1>4, SliceLemma
    <3> QED
      BY <3>1, <3>2
  <2>2. request' \in [Procs -> Seq(Token)] /\ upstream' \in [Clients -> Seq(Token)]
    BY <1>7, <2>1 DEF TypeOK
  <2> QED
    BY <1>7, <1>8, <1>11, <2>2 DEF TypeOK
<1>15. Fates'
  BY <1>1, <1>7, <1>9, <1>10, <1>12, MovesFates
<1>16. Flows'
  <2>1. ASSUME NEW d \in Clients
        PROVE  /\ Waits(d)' \/ cpc'[d] \in {"off", "failed"} => Unread(d, 0)'
               /\ sent'[d] <= Len(Message(d)')
               /\ cpc'[d] \in {"off", "send", "failed"} => sent'[d] < Len(Message(d)')
               /\ Written(d)' <= Len(Answer(d)')
               /\ response'[d] = SubSeq(Answer(d)', 1, Got(d)')
               /\ downstream'[d] = SubSeq(Answer(d)', Got(d)' + 1, Written(d)')
               /\ cpc'[d] \in {"send", "receive"} => Got(d)' < Len(Answer(d)')
    <3>1. Waits(d)' \/ cpc'[d] \in {"off", "failed"} => Unread(d, 0)'
      BY <1>1, <1>8, <1>11, <1>12 DEF Flows
    <3> QED
      BY <1>7, <1>8, <1>12, <3>1 DEF Flows
  <2>2. ASSUME NEW r \in Procs, ppc'[r] \in {"fork", "read"}
        PROVE  /\ Unread(sock[r], Len(request[r]))'
               /\ request'[r] = SubSeq(Message(sock[r])', 1, Len(request'[r]))
    <3>1. CASE r = p
      <4>1. sock'[r] = c /\ Len(request'[r]) = m + n
        BY <1>5, <1>8, <1>10, <3>1, <1>c
      <4> QED
        BY <1>1, <1>10, <1>12, <1>13, <3>1, <4>1
    <3>2. CASE r # p
      <4>1. /\ sock'[r] = sock[r] /\ ppc'[r] = ppc[r] /\ request'[r] = request[r]
            /\ sock[r] \in Clients /\ sock[r] # c
        BY <1>1, <1>8, <1>10, <1>11, <2>2, <3>2 DEF Places, Serves
      <4> QED
        BY <1>12, <2>2, <4>1 DEF Flows
    <3> QED
      BY <3>1, <3>2
  <2>3. ASSUME NEW r \in Procs, ppc'[r] = "list", ~Gone(sock[r])'
        PROVE  /\ Written(sock[r])' < Len(Message(sock[r])')
               /\ request'[r] = SubSeq(Message(sock[r])', Written(sock[r])' + 1,
                                       Len(Message(sock[r])'))
    <3>1. CASE r = p
      <4>1. sock'[r] = c /\ m + n = Len(Message(c)) /\ Len(Message(c)) > 0 /\ request'[r] = SubSeq(Message(c), 1, m + n)
        BY <1>2, <1>4, <1>8, <1>10, <1>11, <2>3, <3>1, <1>c DEF label
      <4>2. Written(c) = 0
        BY <1>3 DEF Written, Got
      <4> QED
        BY <1>1, <1>12, <4>1, <4>2
    <3>2. CASE r # p
      <4>1. /\ sock'[r] = sock[r] /\ ppc'[r] = ppc[r] /\ request'[r] = request[r]
            /\ sock[r] \in Clients /\ ~Gone(sock[r])
        BY <1>8, <1>10, <1>11, <2>3, <3>2 DEF Places, Serves
      <4> QED
        BY <1>12, <2>3, <3>2, <4>1 DEF Flows
    <3> QED
      BY <3>1, <3>2
  <2> QED
    BY <2>1, <2>2, <2>3 DEF Flows
<1> QED
  BY <1>11, <1>14, <1>15, <1>16

\* The client has gone away before its message was complete.
ReadEnd(p) ==
  /\ ppc[p] = "read" /\ Gone(sock[p])
  /\ perrno' \in {perrno, [perrno EXCEPT ![p] = TRUE]}
  /\ Moves(p, "list")
  /\ UNCHANGED <<request, upstream, downstream>>

LEMMA ReadEndKeeps ==
  ASSUME TypeOK, Places, Flows, Fates, NEW p \in Procs, ReadEnd(p)
  PROVE  TypeOK' /\ Places' /\ Flows' /\ Fates'
<1>1. Serves(p)
  BY DEF ReadEnd, Serves
<1>2. /\ UNCHANGED <<request, upstream, downstream, sock, holders, pending, unforked>>
      /\ UNCHANGED <<ask, cpc, sent, response>>
      /\ Moves(p, "list")
  BY DEF ReadEnd, Moves, clientVars
<1>3. /\ Places'
      /\ ppc' \in [Procs -> {"unborn", "accept", "fork", "read", "list", "dead"}]
      /\ \A r \in Procs : Fds(r)' <= FdRoom
      /\ \A r \in Procs \ {p} : ppc'[r] = ppc[r]
      /\ ppc'[p] = "list"
      /\ \A d : (Waits(d)' <=> Waits(d)) /\ (Gone(d)' <=> Gone(d))
  BY <1>1, <1>2, MovesPlaces
<1>4. \A d \in Clients : /\ Message(d)' = Message(d) /\ Answer(d)' = Answer(d)
                         /\ Got(d)' = Got(d) /\ Written(d)' = Written(d)
                         /\ \A k : Unread(d, k)' <=> Unread(d, k)
  BY <1>2, SameStreams
<1>5. TypeOK'
  <2>1. perrno' \in [Procs -> BOOLEAN]
    BY DEF ReadEnd, TypeOK
  <2> QED
    BY <1>2, <1>3, <2>1 DEF TypeOK
<1>6. Fates'
  BY <1>1, <1>2, <1>4, MovesFates
<1>7. Flows'
  <2>1. ASSUME NEW d \in Clients
        PROVE  /\ Waits(d)' \/ cpc'[d] \in {"off", "failed"} => Unread(d, 0)'
               /\ sent'[d] <= Len(Message(d)')
               /\ cpc'[d] \in {"off", "send", "failed"} => sent'[d] < Len(Message(d)')
               /\ Written(d)' <= Len(Answer(d)')
               /\ response'[d] = SubSeq(Answer(d)', 1, Got(d)')
               /\ downstream'[d] = SubSeq(Answer(d)', Got(d)' + 1, Written(d)')
               /\ cpc'[d] \in {"send", "receive"} => Got(d)' < Len(Answer(d)')
    BY <1>2, <1>3, <1>4 DEF Flows
  <2>2. ASSUME NEW r \in Procs, ppc'[r] \in {"fork", "read", "list"}, r # p
        PROVE  /\ sock'[r] = sock[r] /\ ppc'[r] = ppc[r] /\ request'[r] = request[r]
               /\ sock[r] \in Clients
    BY <1>2, <1>3, <2>2 DEF Places, Serves
  <2>3. ASSUME NEW r \in Procs, ppc'[r] \in {"fork", "read"}
        PROVE  /\ Unread(sock[r], Len(request[r]))'
               /\ request'[r] = SubSeq(Message(sock[r])', 1, Len(request'[r]))
    BY <1>3, <1>4, <2>2, <2>3 DEF Flows
  <2>4. ASSUME NEW r \in Procs, ppc'[r] = "list", ~Gone(sock[r])'
        PROVE  /\ Written(sock[r])' < Len(Message(sock[r])')
               /\ request'[r] = SubSeq(Message(sock[r])', Written(sock[r])' + 1,
                                       Len(Message(sock[r])'))
    <3>1. r # p
      BY <1>2, <1>3, <2>4 DEF ReadEnd, Gone
    <3>2. ~Gone(sock[r])
      BY <1>2, <2>4 DEF Gone
    <3> QED
      BY <1>4, <2>2, <2>4, <3>1, <3>2 DEF Flows
  <2> QED
    BY <2>1, <2>3, <2>4 DEF Flows
<1> QED
  BY <1>3, <1>5, <1>6, <1>7

\* The rest of a message that is only its NUL.
LEMMA OnlyNUL ==
  ASSUME TypeOK, NEW c \in Clients, NEW k \in Nat, k < Len(Message(c))
  PROVE  SubSeq(Message(c), k + 1, Len(Message(c))) = <<NUL>> <=> k + 1 = Len(Message(c))
<1>1. /\ Message(c) \in Seq(Token) /\ Len(Message(c)) \in Nat \ {0}
      /\ Message(c)[Len(Message(c))] = NUL
  BY MessageLemma DEF TypeOK
<1>2. PICK n \in Nat : n = Len(Message(c))
  BY <1>1
<1>3. k <= n /\ n <= Len(Message(c)) /\ k < n
  BY <1>2
<1>4. PICK t : t = SubSeq(Message(c), k + 1, n)
  OBVIOUS
<1>5. /\ SubSeq(Message(c), k + 1, n) \in Seq(Token) /\ Len(SubSeq(Message(c), k + 1, n)) = n - k
      /\ \A j \in 1 .. n - k : SubSeq(Message(c), k + 1, n)[j] = Message(c)[k + j]
  BY <1>1, <1>3, SliceLemma
<1>6. /\ t \in Seq(Token) /\ Len(t) = n - k
      /\ \A j \in 1 .. n - k : t[j] = Message(c)[k + j]
  BY <1>4, <1>5
<1>7. t = <<NUL>> => k + 1 = n
  BY <1>6
<1>8. k + 1 = n => t = <<NUL>>
  <2> SUFFICES ASSUME k + 1 = n PROVE t = <<NUL>>
    OBVIOUS
  <2>1. Len(t) = 1 /\ t[1] = NUL
    BY <1>1, <1>2, <1>6
  <2> QED
    BY <1>6, <2>1
<1> QED
  BY <1>2, <1>4, <1>7, <1>8

\* The answer to a client that is still there grows by the listing of the
\* path that is taken from its request.
LEMMA PrintAnswers ==
  ASSUME TypeOK, Places, Flows, NEW p \in Procs, NEW c \in Clients, c = sock[p],
         ppc[p] = "list", ~Gone(c), request[p] # <<NUL>>
  PROVE  /\ Written(c) + 1 < Len(Message(c))
         /\ Tail(request[p]) = SubSeq(Message(c), Written(c) + 2, Len(Message(c)))
         /\ Append(downstream[c], Listing(Head(request[p]).of))
              = SubSeq(Answer(c), Got(c) + 1, Written(c) + 1)
         /\ Listing(Head(request[p]).of) \in Token
<1>1. /\ Message(c) \in Seq(Token) /\ Answer(c) \in Seq(Token)
      /\ Len(Message(c)) \in Nat /\ Len(Answer(c)) = Len(Message(c))
      /\ \A k \in 1 .. Len(Message(c)) :
           /\ Answer(c)[k] \in Token
           /\ k < Len(Message(c)) => Answer(c)[k] = Listing(Message(c)[k].of)
  BY MessageLemma DEF TypeOK
<1>2. Got(c) \in Nat /\ Written(c) \in Nat /\ Got(c) <= Written(c)
  BY DEF TypeOK, Got, Written
<1>3. /\ Written(c) < Len(Message(c))
      /\ request[p] = SubSeq(Message(c), Written(c) + 1, Len(Message(c)))
      /\ downstream[c] = SubSeq(Answer(c), Got(c) + 1, Written(c))
  BY DEF Flows
<1>4. Written(c) + 1 # Len(Message(c))
  BY <1>2, <1>3, OnlyNUL
<1>5. Written(c) + 1 < Len(Message(c)) /\ Written(c) + 1 \in 1 .. Len(Message(c))
  BY <1>1, <1>2, <1>3, <1>4
<1>6. /\ Head(request[p]) = Message(c)[Written(c) + 1]
      /\ Tail(request[p]) = SubSeq(Message(c), Written(c) + 2, Len(Message(c)))
  <2>1. /\ Written(c) < Len(Message(c)) /\ Len(Message(c)) <= Len(Message(c))
        /\ Message(c) \in Seq(Token) /\ Written(c) \in Nat /\ Len(Message(c)) \in Nat
    BY <1>1, <1>2, <1>3
  <2>2. Head(SubSeq(Message(c), Written(c) + 1, Len(Message(c)))) = Message(c)[Written(c) + 1]
    BY <2>1, SliceHead
  <2>3. Tail(SubSeq(Message(c), Written(c) + 1, Len(Message(c))))
          = SubSeq(Message(c), Written(c) + 2, Len(Message(c)))
    BY <2>1, SliceHead
  <2> QED
    BY <1>3, <2>2, <2>3
<1>7. /\ Listing(Head(request[p]).of) = Answer(c)[Written(c) + 1]
      /\ Answer(c)[Written(c) + 1] \in Token
  BY <1>1, <1>5, <1>6
<1>8. Append(SubSeq(Answer(c), Got(c) + 1, Written(c)), Answer(c)[Written(c) + 1])
        = SubSeq(Answer(c), Got(c) + 1, Written(c) + 1)
  <2>1. /\ Answer(c) \in Seq(Token) /\ Got(c) \in Nat /\ Written(c) \in Nat
        /\ Got(c) <= Written(c) /\ Written(c) < Len(Answer(c))
    BY <1>1, <1>2, <1>3
  <2> QED
    BY <2>1, SliceGrows
<1> QED
  BY <1>3, <1>5, <1>6, <1>7, <1>8

LEMMA PrintDirKeeps ==
  ASSUME TypeOK, Places, Flows, Fates, NEW p \in Procs, PrintDir(p), UNCHANGED clientVars
  PROVE  TypeOK' /\ Places' /\ Flows' /\ Fates'
<1>0. sock[p] \in Clients
  BY DEF PrintDir, Places, Serves
<1>c. PICK c \in Clients : c = sock[p]
  BY <1>0
<1>1. /\ ppc[p] = "list" /\ Serves(p) /\ request[p] # <<NUL>> /\ request[p] # << >>
      /\ \A r \in Procs \ {p} : sock[r] # c
      /\ ~Waits(c) /\ cpc[c] \notin {"off", "failed"}
  <2>1. ppc[p] = "list" /\ Serves(p) /\ request[p] # <<NUL>> /\ request[p] # << >>
    BY DEF PrintDir, Serves
  <2>2. c # Nobody /\ sock[p] = c
    BY <1>c DEF Nobody, Clients
  <2> QED
    BY <2>1, <2>2 DEF Places, Fates
<1>2. /\ UNCHANGED <<upstream, sock, holders, pending, unforked>>
      /\ UNCHANGED <<ask, cpc, sent, response>>
      /\ perrno' = [perrno EXCEPT ![p] = FALSE]
      /\ request' = [request EXCEPT ![p] = Tail(request[p])]
      /\ downstream' = [downstream EXCEPT ![c] =
                          IF Gone(c) THEN downstream[c]
                                     ELSE Append(downstream[c], Listing(Head(request[p]).of))]
  BY <1>c DEF PrintDir, clientVars
<1>3. Moves(p, "list")
  <2>1. ppc' = [ppc EXCEPT ![p] = "list"]
    BY <1>1 DEF PrintDir, TypeOK
  <2> QED
    BY <1>2, <2>1 DEF Moves, PGoto, clientVars
<1>4. /\ \A r \in Procs \ {p} : request'[r] = request[r]
      /\ request'[p] = Tail(request[p])
      /\ \A d \in Clients : d # c => downstream'[d] = downstream[d]
      /\ Gone(c) => downstream'[c] = downstream[c]
      /\ ~Gone(c) => downstream'[c] = Append(downstream[c], Listing(Head(request[p]).of))
  BY <1>2 DEF TypeOK
<1>5. /\ Places'
      /\ ppc' \in [Procs -> {"unborn", "accept", "fork", "read", "list", "dead"}]
      /\ \A r \in Procs : Fds(r)' <= FdRoom
      /\ \A r \in Procs \ {p} : ppc'[r] = ppc[r]
      /\ ppc'[p] = "list"
      /\ \A d : (Waits(d)' <=> Waits(d)) /\ (Gone(d)' <=> Gone(d))
  BY <1>1, <1>3, <1>4, MovesPlaces
<1>6. /\ \A d \in Clients : Message(d)' = Message(d) /\ Answer(d)' = Answer(d) /\ Got(d)' = Got(d)
      /\ \A d \in Clients : d # c \/ Gone(d) =>
           /\ Written(d)' = Written(d)
           /\ \A k : Unread(d, k)' <=> Unread(d, k)
  BY <1>2, <1>4 DEF Message, Answer, Got, Written, Unread
<1>7. ~Gone(c) => /\ Written(c) + 1 < Len(Message(c)) /\ Written(c)' = Written(c) + 1
                  /\ Len(Answer(c)) = Len(Message(c))
                  /\ downstream'[c] = SubSeq(Answer(c), Got(c) + 1, Written(c) + 1)
                  /\ request'[p] = SubSeq(Message(c), Written(c) + 2, Len(Message(c)))
                  /\ Listing(Head(request[p]).of) \in Token
  <2> SUFFICES ASSUME ~Gone(c)
               PROVE  /\ Written(c) + 1 < Len(Message(c)) /\ Written(c)' = Written(c) + 1
                      /\ Len(Answer(c)) = Len(Message(c))
                      /\ downstream'[c] = SubSeq(Answer(c), Got(c) + 1, Written(c) + 1)
                      /\ request'[p] = SubSeq(Message(c), Written(c) + 2, Len(Message(c)))
                      /\ Listing(Head(request[p]).of) \in Token
    OBVIOUS
  <2>1. /\ Written(c) + 1 < Len(Message(c))
        /\ Tail(request[p]) = SubSeq(Message(c), Written(c) + 2, Len(Message(c)))
        /\ Append(downstream[c], Listing(Head(request[p]).of))
             = SubSeq(Answer(c), Got(c) + 1, Written(c) + 1)
        /\ Listing(Head(request[p]).of) \in Token
    BY <1>1, <1>c, PrintAnswers
  <2>2. Len(Answer(c)) = Len(Message(c))
    BY MessageLemma DEF TypeOK
  <2>3. Len(Append(downstream[c], Listing(Head(request[p]).of))) = Len(downstream[c]) + 1
    BY <2>1 DEF TypeOK
  <2>4. Len(downstream[c]) \in Nat /\ Len(response[c]) \in Nat
    BY DEF TypeOK
  <2>5. Written(c)' = Written(c) + 1
    <3> DEFINE t == Append(downstream[c], Listing(Head(request[p]).of))
    <3>3. Len(t) = Len(downstream[c]) + 1
      BY <2>3
    <3>4. downstream'[c] = t
      BY <1>4
    <3> HIDE DEF t
    <3>1. Written(c)' = Len(response[c]) + Len(t)
      BY <1>2, <3>4 DEF Written, Got
    <3>2. Written(c) = Len(response[c]) + Len(downstream[c])
      BY DEF Written, Got
    <3> QED
      <4>1. Written(c)' = Len(response[c]) + (Len(downstream[c]) + 1)
        BY <3>1, <3>3
      <4>2. \A a, b \in Nat : a + (b + 1) = (a + b) + 1
        OBVIOUS
      <4>3. Len(response[c]) + (Len(downstream[c]) + 1) = (Len(response[c]) + Len(downstream[c])) + 1
        BY <2>4, <4>2
      <4> QED
        BY <4>1, <4>3, <3>2
  <2> QED
    BY <1>4, <2>1, <2>2, <2>5
<1>n. Written(c) \in Nat /\ Len(Message(c)) \in Nat
  BY MessageLemma DEF TypeOK, Written, Got
<1>8. TypeOK'
  <2>1. request' \in [Procs -> Seq(Token)]
    <3>1. Tail(request[p]) \in Seq(Token)
      BY <1>1 DEF TypeOK
    <3> QED
      BY <1>2, <3>1 DEF TypeOK
  <2>2. downstream' \in [Clients -> Seq(Token)]
    <3>1. ~Gone(c) => Append(downstream[c], Listing(Head(request[p]).of)) \in Seq(Token)
      BY <1>7 DEF TypeOK
    <3> QED
      BY <1>2, <3>1 DEF TypeOK
  <2>3. perrno' \in [Procs -> BOOLEAN]
    BY <1>2 DEF TypeOK
  <2> QED
    BY <1>2, <1>5, <2>1, <2>2, <2>3 DEF TypeOK
<1>9. Fates'
  BY <1>1, <1>c, <1>3, <1>4, <1>6, MovesFates
<1>10. Flows'
  <2>1. ASSUME NEW d \in Clients
        PROVE  /\ Waits(d)' \/ cpc'[d] \in {"off", "failed"} => Unread(d, 0)'
               /\ sent'[d] <= Len(Message(d)')
               /\ cpc'[d] \in {"off", "send", "failed"} => sent'[d] < Len(Message(d)')
               /\ Written(d)' <= Len(Answer(d)')
               /\ response'[d] = SubSeq(Answer(d)', 1, Got(d)')
               /\ downstream'[d] = SubSeq(Answer(d)', Got(d)' + 1, Written(d)')
               /\ cpc'[d] \in {"send", "receive"} => Got(d)' < Len(Answer(d)')
    <3>1. Waits(d)' \/ cpc'[d] \in {"off", "failed"} => Unread(d, 0)'
      BY <1>1, <1>2, <1>5, <1>6 DEF Flows
    <3>2. Written(d)' <= Len(Answer(d)') /\ downstream'[d] = SubSeq(Answer(d)', Got(d)' + 1, Written(d)')
      <4>1. CASE d # c \/ Gone(d)
        BY <1>4, <1>6, <4>1 DEF Flows
      <4>2. CASE d = c /\ ~Gone(d)
        <5>1. Written(c) + 1 <= Len(Answer(c))
          BY <1>n, <1>7, <4>2
        <5> QED
          BY <1>6, <1>7, <4>2, <5>1
      <4> QED
        BY <4>1, <4>2
    <3> QED
      BY <1>2, <1>6, <3>1, <3>2 DEF Flows
  <2>2. ASSUME NEW r \in Procs, ppc'[r] \in {"fork", "read", "list"}, r # p
        PROVE  /\ sock'[r] = sock[r] /\ ppc'[r] = ppc[r] /\ request'[r] = request[r]
               /\ sock[r] \in Clients /\ sock[r] # c
    BY <1>1, <1>2, <1>4, <1>5, <2>2 DEF Places, Serves
  <2>3. ASSUME NEW r \in Procs, ppc'[r] \in {"fork", "read"}
        PROVE  /\ Unread(sock[r], Len(request[r]))'
               /\ request'[r] = SubSeq(Message(sock[r])', 1, Len(request'[r]))
    BY <1>5, <1>6, <2>2, <2>3 DEF Flows
  <2>4. ASSUME NEW r \in Procs, ppc'[r] = "list", ~Gone(sock[r])'
        PROVE  /\ Written(sock[r])' < Len(Message(sock[r])')
               /\ request'[r] = SubSeq(Message(sock[r])', Written(sock[r])' + 1,
                                       Len(Message(sock[r])'))
    <3>1. ~Gone(sock[r])
      BY <1>2, <2>4 DEF Gone
    <3>2. CASE r # p
      BY <1>6, <2>2, <2>4, <3>1, <3>2 DEF Flows
    <3>3. CASE r = p
      <4>1. sock'[r] = c /\ ~Gone(c)
        BY <1>c, <1>2, <3>1, <3>3
      <4>2. Written(c)' + 1 = Written(c) + 2
        BY <1>n, <1>7, <4>1
      <4> QED
        BY <1>6, <1>7, <3>3, <4>1, <4>2
    <3> QED
      BY <3>2, <3>3
  <2> QED
    BY <2>1, <2>3, <2>4 DEF Flows
<1> QED
  BY <1>5, <1>8, <1>9, <1>10

\* The NUL ends the answer to a client that is still there.
LEMMA FinishAnswers ==
  ASSUME TypeOK, Places, Flows, NEW p \in Procs, NEW c \in Clients, c = sock[p],
         ppc[p] = "list", ~Gone(c), request[p] \in {<< >>, <<NUL>>}
  PROVE  /\ Written(c) + 1 = Len(Answer(c))
         /\ Append(downstream[c], NUL) = SubSeq(Answer(c), Got(c) + 1, Written(c) + 1)
<1>1. /\ Message(c) \in Seq(Token) /\ Answer(c) \in Seq(Token)
      /\ Len(Message(c)) \in Nat \ {0} /\ Len(Answer(c)) = Len(Message(c))
      /\ Answer(c)[Len(Message(c))] = NUL
  <2>1. /\ Message(c) \in Seq(Token) /\ Answer(c) \in Seq(Token)
        /\ Len(Message(c)) \in Nat \ {0} /\ Len(Answer(c)) = Len(Message(c))
        /\ \A k \in 1 .. Len(Message(c)) : Answer(c)[k] = NUL <=> k = Len(Message(c))
    BY MessageLemma DEF TypeOK
  <2>2. Len(Message(c)) \in 1 .. Len(Message(c))
    BY <2>1
  <2> QED
    BY <2>1, <2>2
<1>2. Got(c) \in Nat /\ Written(c) \in Nat /\ Got(c) <= Written(c)
  BY DEF TypeOK, Got, Written
<1>3. /\ Written(c) < Len(Message(c))
      /\ request[p] = SubSeq(Message(c), Written(c) + 1, Len(Message(c)))
      /\ downstream[c] = SubSeq(Answer(c), Got(c) + 1, Written(c))
  BY DEF Flows
<1>4. request[p] # << >>
  <2>1. /\ Written(c) < Len(Message(c)) /\ Len(Message(c)) <= Len(Message(c))
        /\ Message(c) \in Seq(Token) /\ Written(c) \in Nat /\ Len(Message(c)) \in Nat
    BY <1>1, <1>2, <1>3
  <2>2. SubSeq(Message(c), Written(c) + 1, Len(Message(c))) # << >>
    BY <2>1, SliceHead
  <2> QED
    BY <1>3, <2>2
<1>5. Written(c) + 1 = Len(Message(c))
  BY <1>2, <1>3, <1>4, OnlyNUL
<1>6. Append(SubSeq(Answer(c), Got(c) + 1, Written(c)), Answer(c)[Written(c) + 1])
        = SubSeq(Answer(c), Got(c) + 1, Written(c) + 1)
  <2>1. /\ Answer(c) \in Seq(Token) /\ Got(c) \in Nat /\ Written(c) \in Nat
        /\ Got(c) <= Written(c) /\ Written(c) < Len(Answer(c))
    BY <1>1, <1>2, <1>3
  <2> QED
    BY <2>1, SliceGrows
<1> QED
  BY <1>1, <1>3, <1>5, <1>6

LEMMA FinishKeeps ==
  ASSUME TypeOK, Places, Flows, Fates, NEW p \in Procs, FinishClient(p), UNCHANGED clientVars
  PROVE  TypeOK' /\ Places' /\ Flows' /\ Fates'
<1>0. sock[p] \in Clients
  BY DEF FinishClient, EndAnswer, Places, Serves
<1>c. PICK c \in Clients : c = sock[p]
  BY <1>0
<1>1. /\ ppc[p] = "list" /\ request[p] \in {<< >>, <<NUL>>} /\ Live(p)
      /\ c # Nobody /\ \A r \in Procs \ {p} : sock[r] # c
      /\ p \in holders[c] /\ ~Waits(c) /\ cpc[c] \notin {"off", "failed", "done"}
  <2>1. ppc[p] = "list" /\ Serves(p) /\ request[p] \in {<< >>, <<NUL>>} /\ Live(p)
    BY DEF FinishClient, EndAnswer, Serves, Live
  <2>2. c # Nobody /\ sock[p] = c
    BY <1>c DEF Nobody, Clients
  <2> QED
    BY <2>1, <2>2 DEF Places, Fates
<1>2. /\ UNCHANGED <<perrno, upstream, pending, unforked>>
      /\ UNCHANGED <<ask, cpc, sent, response>>
      /\ request' = [request EXCEPT ![p] = << >>]
      /\ sock' = [sock EXCEPT ![p] = Nobody]
      /\ holders' = [holders EXCEPT ![c] = @ \ {p}]
      /\ ppc' = [ppc EXCEPT ![p] = "accept"]
      /\ downstream' = [downstream EXCEPT ![c] =
                          IF Gone(c) THEN downstream[c] ELSE Append(downstream[c], NUL)]
  BY <1>c DEF FinishClient, EndAnswer, PGoto, clientVars
<1>3. /\ \A r \in Procs \ {p} : /\ ppc'[r] = ppc[r] /\ sock'[r] = sock[r]
                                /\ request'[r] = request[r] /\ (Live(r)' <=> Live(r))
      /\ ppc'[p] = "accept" /\ sock'[p] = Nobody /\ request'[p] = << >> /\ Live(p)'
  BY <1>2 DEF TypeOK, Live
<1>4. /\ \A d \in Clients : holders'[d] \subseteq holders[d]
      /\ \A d \in Clients : d # c => holders'[d] = holders[d]
      /\ \A d \in Clients, r \in Procs \ {p} : r \in holders[d] => r \in holders'[d]
      /\ \A d \in Clients : d # c => downstream'[d] = downstream[d]
      /\ Gone(c) => downstream'[c] = downstream[c]
      /\ ~Gone(c) => downstream'[c] = Append(downstream[c], NUL)
  BY <1>2 DEF TypeOK
<1>5. \A d : (Waits(d)' <=> Waits(d)) /\ (Gone(d)' <=> Gone(d))
  BY <1>2 DEF Waits, Gone
<1>6. /\ \A d \in Clients : Message(d)' = Message(d) /\ Answer(d)' = Answer(d) /\ Got(d)' = Got(d)
      /\ \A d \in Clients : d # c \/ Gone(d) =>
           /\ Written(d)' = Written(d)
           /\ \A k : Unread(d, k)' <=> Unread(d, k)
  BY <1>2, <1>4 DEF Message, Answer, Got, Written, Unread
<1>7. ~Gone(c) => /\ Written(c)' = Len(Answer(c))
                  /\ downstream'[c] = SubSeq(Answer(c), Got(c) + 1, Len(Answer(c)))
  <2> SUFFICES ASSUME ~Gone(c)
               PROVE  /\ Written(c)' = Len(Answer(c))
                      /\ downstream'[c] = SubSeq(Answer(c), Got(c) + 1, Len(Answer(c)))
    OBVIOUS
  <2>1. /\ Written(c) + 1 = Len(Answer(c))
        /\ Append(downstream[c], NUL) = SubSeq(Answer(c), Got(c) + 1, Written(c) + 1)
    BY <1>1, <1>c, FinishAnswers
  <2> DEFINE t == Append(downstream[c], NUL)
  <2>2. Len(t) = Len(downstream[c]) + 1 /\ downstream'[c] = t
    BY <1>4 DEF TypeOK
  <2> HIDE DEF t
  <2>3. Len(downstream[c]) \in Nat /\ Len(response[c]) \in Nat
    BY DEF TypeOK
  <2>4. Written(c)' = Len(response[c]) + (Len(downstream[c]) + 1)
    BY <1>2, <2>2 DEF Written, Got
  <2>5. \A a, b \in Nat : a + (b + 1) = (a + b) + 1
    OBVIOUS
  <2>6. Written(c)' = (Len(response[c]) + Len(downstream[c])) + 1
    BY <2>3, <2>4, <2>5
  <2>7. Written(c)' = Written(c) + 1
    BY <2>6 DEF Written, Got
  <2> QED
    BY <2>1, <2>2, <2>7 DEF t
<1>8. TypeOK'
  <2>1. /\ ppc' \in [Procs -> {"unborn", "accept", "fork", "read", "list", "dead"}]
        /\ sock' \in [Procs -> Clients \cup {Nobody}]
        /\ holders' \in [Clients -> SUBSET Procs]
    BY <1>2 DEF TypeOK
  <2>2. request' \in [Procs -> Seq(Token)]
    <3>1. << >> \in Seq(Token)
      OBVIOUS
    <3> QED
      BY <1>2, <3>1 DEF TypeOK
  <2>3. downstream' \in [Clients -> Seq(Token)]
    <3>1. NUL \in Token
      BY DEF Token
    <3>2. Append(downstream[c], NUL) \in Seq(Token)
      BY <3>1 DEF TypeOK
    <3> QED
      BY <1>2, <3>2 DEF TypeOK
  <2>4. ASSUME NEW r \in Procs
        PROVE  Fds(r)' <= FdRoom
    <3>1. Held(r)' \subseteq Held(r)
      BY <1>4 DEF Held
    <3> QED
      BY <3>1, FdsInherited
  <2> QED
    BY <1>2, <2>1, <2>2, <2>3, <2>4 DEF TypeOK
<1>9. Places'
  <2>1. NoneTwice(pending)'
    BY <1>2 DEF NoneTwice, Places
  <2>2. pending' # << >> => \E r \in Procs : Live(r)'
    BY <1>3
  <2>3. ASSUME NEW r \in Procs, NEW s \in Procs, sock'[r] = sock'[s], sock'[r] # Nobody
        PROVE  r = s
    BY <1>1, <1>3, <2>3 DEF Places
  <2>4. ASSUME NEW r \in Procs
        PROVE  /\ ppc'[r] \in {"unborn", "accept"} => sock'[r] = Nobody
               /\ Serves(r)' => sock'[r] \in Clients /\ r \in holders'[sock'[r]]
               /\ ppc'[r] \in {"unborn", "accept", "fork"} => request'[r] = << >>
    BY <1>1, <1>3, <1>4 DEF Places, Serves
  <2>5. ASSUME NEW d \in Clients
        PROVE  /\ \A r \in holders'[d] : Live(r)'
               /\ Waits(d)' => holders'[d] = {}
               /\ Waits(d)' \/ d \in unforked' => \A r \in Procs : sock'[r] # d
               /\ Waits(d)' => d \notin unforked'
    <3>1. \A r \in holders'[d] : Live(r)'
      <4>1. ASSUME NEW r \in Procs, r \in holders'[d]
            PROVE  Live(r)'
        BY <1>3, <1>4, <4>1 DEF Places
      <4>2. holders'[d] \subseteq Procs
        BY <1>4 DEF TypeOK
      <4> QED
        BY <4>1, <4>2
    <3>2. Waits(d)' => holders'[d] = {}
      BY <1>4, <1>5 DEF Places
    <3>3. Waits(d)' \/ d \in unforked' => \A r \in Procs : sock'[r] # d
      BY <1>2, <1>3, <1>5 DEF Places, Nobody, Clients
    <3>4. Waits(d)' => d \notin unforked'
      BY <1>2, <1>5 DEF Places
    <3> QED
      BY <3>1, <3>2, <3>3, <3>4
  <2> QED
    BY <2>1, <2>2, <2>3, <2>4, <2>5 DEF Places, NoneTwice
<1>10. Flows'
  <2>1. ASSUME NEW d \in Clients
        PROVE  /\ Waits(d)' \/ cpc'[d] \in {"off", "failed"} => Unread(d, 0)'
               /\ sent'[d] <= Len(Message(d)')
               /\ cpc'[d] \in {"off", "send", "failed"} => sent'[d] < Len(Message(d)')
               /\ Written(d)' <= Len(Answer(d)')
               /\ response'[d] = SubSeq(Answer(d)', 1, Got(d)')
               /\ downstream'[d] = SubSeq(Answer(d)', Got(d)' + 1, Written(d)')
               /\ cpc'[d] \in {"send", "receive"} => Got(d)' < Len(Answer(d)')
    <3>1. Waits(d)' \/ cpc'[d] \in {"off", "failed"} => Unread(d, 0)'
      BY <1>1, <1>2, <1>5, <1>6 DEF Flows
    <3>2. Written(d)' <= Len(Answer(d)') /\ downstream'[d] = SubSeq(Answer(d)', Got(d)' + 1, Written(d)')
      <4>1. CASE d # c \/ Gone(d)
        BY <1>4, <1>6, <4>1 DEF Flows
      <4>2. CASE d = c /\ ~Gone(d)
        <5>1. Len(Answer(c)) \in Nat
          BY MessageLemma DEF TypeOK
        <5> QED
          BY <1>6, <1>7, <4>2, <5>1
      <4> QED
        BY <4>1, <4>2
    <3> QED
      BY <1>2, <1>6, <3>1, <3>2 DEF Flows
  <2>2. ASSUME NEW r \in Procs, ppc'[r] \in {"fork", "read", "list"}
        PROVE  /\ sock'[r] = sock[r] /\ ppc'[r] = ppc[r] /\ request'[r] = request[r]
               /\ sock[r] \in Clients /\ sock[r] # c
    BY <1>1, <1>3, <2>2 DEF Places, Serves
  <2>3. ASSUME NEW r \in Procs, ppc'[r] \in {"fork", "read"}
        PROVE  /\ Unread(sock[r], Len(request[r]))'
               /\ request'[r] = SubSeq(Message(sock[r])', 1, Len(request'[r]))
    BY <1>6, <2>2, <2>3 DEF Flows
  <2>4. ASSUME NEW r \in Procs, ppc'[r] = "list", ~Gone(sock[r])'
        PROVE  /\ Written(sock[r])' < Len(Message(sock[r])')
               /\ request'[r] = SubSeq(Message(sock[r])', Written(sock[r])' + 1,
                                       Len(Message(sock[r])'))
    <3>1. ~Gone(sock[r])
      BY <1>2, <2>2, <2>4 DEF Gone
    <3> QED
      BY <1>6, <2>2, <2>4, <3>1 DEF Flows
  <2> QED
    BY <2>1, <2>3, <2>4 DEF Flows
<1>11. Fates'
  <2> SUFFICES ASSUME NEW d \in Clients
               PROVE  /\ cpc'[d] \in {"off", "failed"} =>
                           /\ ~Waits(d)' /\ holders'[d] = {} /\ d \notin unforked'
                           /\ \A r \in Procs : sock'[r] # d
                      /\ cpc'[d] \in {"send", "receive"} =>
                           \/ Waits(d)' \/ d \in unforked' \/ Written(d)' = Len(Answer(d)')
                           \/ \E r \in Procs : sock'[r] = d
                           \/ \A r \in Procs : ~Live(r)'
                      /\ cpc'[d] = "done" => ~Waits(d)' /\ \A r \in Procs : Serves(r)' => sock'[r] # d
                      /\ \A r \in Procs : ppc'[r] = "dead" /\ sock'[r] = d => Gone(d)' \/ HungUp(d)'
    BY DEF Fates
  <2>1. cpc'[d] \in {"off", "failed"} =>
          /\ ~Waits(d)' /\ holders'[d] = {} /\ d \notin unforked'
          /\ \A r \in Procs : sock'[r] # d
    BY <1>1, <1>2, <1>3, <1>4, <1>5 DEF Fates, Nobody, Clients
  <2>2. cpc'[d] \in {"send", "receive"} =>
          \/ Waits(d)' \/ d \in unforked' \/ Written(d)' = Len(Answer(d)')
          \/ \E r \in Procs : sock'[r] = d
          \/ \A r \in Procs : ~Live(r)'
    <3>1. CASE d = c
      BY <1>2, <1>6, <1>7, <3>1 DEF Gone
    <3>2. CASE d # c
      <4>1. (\E r \in Procs : sock[r] = d) => \E r \in Procs : sock'[r] = d
        BY <1>c, <1>3, <3>2
      <4> QED
        BY <1>1, <1>2, <1>5, <1>6, <3>2, <4>1 DEF Fates
    <3> QED
      BY <3>1, <3>2
  <2>3. cpc'[d] = "done" => ~Waits(d)' /\ \A r \in Procs : Serves(r)' => sock'[r] # d
    BY <1>2, <1>3, <1>5 DEF Fates, Serves
  <2>4. ASSUME NEW r \in Procs, ppc'[r] = "dead", sock'[r] = d
        PROVE  Gone(d)' \/ HungUp(d)'
    <3>1. Gone(d) \/ HungUp(d)
      BY <1>3, <2>4 DEF Fates
    <3>2. HungUp(d) => holders'[d] = {} /\ ~Waits(d)'
      BY <1>4, <1>5 DEF HungUp, Waits
    <3> QED
      BY <1>5, <3>1, <3>2 DEF HungUp, Waits
  <2> QED
    BY <2>1, <2>2, <2>3, <2>4
<1> QED
  BY <1>8, <1>9, <1>10, <1>11

-----------------------------------------------------------------------------
(* Steps of the clients.                                                   *)

\* A client moves on with its connection and the server stands still.
ClientMoves(c, label) ==
  /\ cpc[c] \in {"send", "receive"}
  /\ cpc' = [cpc EXCEPT ![c] = label]
  /\ UNCHANGED <<serverVars, holders, pending, ask>>
  /\ \A d \in Clients \ {c} : /\ sent'[d] = sent[d] /\ upstream'[d] = upstream[d]
                              /\ downstream'[d] = downstream[d] /\ response'[d] = response[d]

\* A client that has its whole answer on the way has nobody at work for it.
LEMMA AnsweredIsFree ==
  ASSUME TypeOK, Places, Flows, NEW c \in Clients, ~Gone(c), Written(c) = Len(Answer(c))
  PROVE  ~Waits(c) /\ \A r \in Procs : Serves(r) => sock[r] # c
<1>1. Len(Answer(c)) \in Nat \ {0} /\ Len(Message(c)) = Len(Answer(c))
  BY MessageLemma DEF TypeOK
<1>2. \A k : ~Unread(c, k)
  <2> SUFFICES ASSUME NEW k, Unread(c, k) PROVE FALSE
    OBVIOUS
  <2>1. Len(response[c]) = 0 /\ Len(downstream[c]) = 0
    BY DEF Unread
  <2>2. Written(c) = 0
    BY <2>1 DEF Written, Got
  <2> QED
    BY <1>1, <2>2
<1>3. ~Waits(c)
  BY <1>2 DEF Flows
<1>4. ASSUME NEW r \in Procs, Serves(r), sock[r] = c
      PROVE  FALSE
  <2>1. CASE ppc[r] \in {"fork", "read"}
    BY <1>2, <1>4, <2>1 DEF Flows
  <2>2. CASE ppc[r] = "list"
    <3>1. Written(c) < Len(Message(c))
      BY <1>4, <2>2 DEF Flows
    <3> QED
      BY <1>1, <3>1
  <2> QED
    BY <1>4, <2>1, <2>2 DEF Serves
<1> QED
  BY <1>3, <1>4

\* What the streams of the other clients and the processes keep.
LEMMA ClientKeeps ==
  ASSUME TypeOK, Places, Flows, Fates, NEW c \in Clients,
         NEW label \in {"send", "receive", "done", "killed"}, ClientMoves(c, label),
         Written(c)' = Written(c),
         \A k \in Nat : Unread(c, k) /\ ~HungUp(c) => Unread(c, k)',
         sent'[c] <= Len(Message(c)), label = "send" => sent'[c] < Len(Message(c)),
         response'[c] = SubSeq(Answer(c), 1, Got(c)'),
         downstream'[c] = SubSeq(Answer(c), Got(c)' + 1, Written(c)),
         label \in {"send", "receive"} => Got(c)' < Len(Answer(c)),
         response'[c] \in Seq(Token), downstream'[c] \in Seq(Token),
         label = "done" => HungUp(c) \/ Got(c)' = Len(Answer(c))
  PROVE  /\ Places' /\ Flows' /\ Fates'
         /\ cpc' \in [Clients -> {"off", "send", "receive", "done", "failed", "killed"}]
         /\ \A p \in Procs : Fds(p)' <= FdRoom
<1>1. /\ UNCHANGED <<ppc, perrno, sock, request, unforked>> /\ UNCHANGED <<holders, pending, ask>>
      /\ cpc[c] \in {"send", "receive"}
      /\ \A d \in Clients \ {c} : /\ cpc'[d] = cpc[d]
                                  /\ sent'[d] = sent[d] /\ upstream'[d] = upstream[d]
                                  /\ downstream'[d] = downstream[d] /\ response'[d] = response[d]
      /\ cpc'[c] = label
  BY DEF ClientMoves, serverVars, TypeOK
<1>2. /\ \A d : (Waits(d)' <=> Waits(d)) /\ (HungUp(d)' <=> HungUp(d))
      /\ \A p : (Live(p)' <=> Live(p)) /\ (Serves(p)' <=> Serves(p))
  BY <1>1 DEF Waits, HungUp, Live, Serves
<1>3. /\ \A d \in Clients : Message(d)' = Message(d) /\ Answer(d)' = Answer(d)
      /\ \A d \in Clients : Written(d)' = Written(d)
      /\ \A d \in Clients \ {c} : /\ Got(d)' = Got(d)
                                  /\ \A k : Unread(d, k)' <=> Unread(d, k)
  BY <1>1 DEF Message, Answer, Written, Got, Unread
<1>4. Waits(c) => ~HungUp(c)
  BY DEF Waits, HungUp
<1>5. \A p \in Procs : Serves(p) => sock[p] \in Clients /\ ~HungUp(sock[p])
  BY DEF Places, HungUp
<1>6. Places'
  BY <1>1 DEF Places, Waits, Live, Serves
<1>7. /\ cpc' \in [Clients -> {"off", "send", "receive", "done", "failed", "killed"}]
      /\ \A p \in Procs : Fds(p)' <= FdRoom
  BY <1>1 DEF TypeOK, Fds, ClientMoves
<1>8. Flows'
  <2>1. ASSUME NEW d \in Clients
        PROVE  /\ Waits(d)' \/ cpc'[d] \in {"off", "failed"} => Unread(d, 0)'
               /\ sent'[d] <= Len(Message(d)')
               /\ cpc'[d] \in {"off", "send", "failed"} => sent'[d] < Len(Message(d)')
               /\ Written(d)' <= Len(Answer(d)')
               /\ response'[d] = SubSeq(Answer(d)', 1, Got(d)')
               /\ downstream'[d] = SubSeq(Answer(d)', Got(d)' + 1, Written(d)')
               /\ cpc'[d] \in {"send", "receive"} => Got(d)' < Len(Answer(d)')
    <3>1. CASE d = c
      <4>1. Waits(c)' \/ cpc'[c] \in {"off", "failed"} => Unread(c, 0)'
        BY <1>1, <1>2, <1>4 DEF Flows
      <4> QED
        BY <1>1, <1>3, <3>1, <4>1 DEF Flows
    <3>2. CASE d # c
      BY <1>1, <1>2, <1>3, <3>2 DEF Flows
    <3> QED
      BY <3>1, <3>2
  <2>2. ASSUME NEW r \in Procs, ppc'[r] \in {"fork", "read"}
        PROVE  /\ Unread(sock[r], Len(request[r]))'
               /\ request'[r] = SubSeq(Message(sock[r])', 1, Len(request'[r]))
    <3>1. /\ sock[r] \in Clients /\ ~HungUp(sock[r])
          /\ Unread(sock[r], Len(request[r]))
          /\ request[r] = SubSeq(Message(sock[r]), 1, Len(request[r]))
          /\ Len(request[r]) \in Nat
      <4>1. ppc[r] \in {"fork", "read"} /\ Serves(r)
        BY <1>1, <2>2 DEF Serves
      <4>2. /\ Unread(sock[r], Len(request[r]))
            /\ request[r] = SubSeq(Message(sock[r]), 1, Len(request[r]))
        BY <4>1 DEF Flows
      <4>3. Len(request[r]) \in Nat
        BY DEF TypeOK
      <4> QED
        BY <1>5, <4>1, <4>2, <4>3
    <3>2. sock'[r] = sock[r] /\ request'[r] = request[r]
      BY <1>1
    <3> QED
      BY <1>3, <3>1, <3>2
  <2>3. ASSUME NEW r \in Procs, ppc'[r] = "list", ~Gone(sock[r])'
        PROVE  /\ Written(sock[r])' < Len(Message(sock[r])')
               /\ request'[r] = SubSeq(Message(sock[r])', Written(sock[r])' + 1,
                                       Len(Message(sock[r])'))
    <3>1. sock[r] \in Clients /\ sock'[r] = sock[r] /\ request'[r] = request[r] /\ ~Gone(sock[r])
      BY <1>1, <1>5, <2>3 DEF Serves, Gone
    <3> QED
      BY <1>1, <1>3, <2>3, <3>1 DEF Flows
  <2> QED
    BY <2>1, <2>2, <2>3 DEF Flows
<1>9. Fates'
  <2> SUFFICES ASSUME NEW d \in Clients
               PROVE  /\ cpc'[d] \in {"off", "failed"} =>
                           /\ ~Waits(d)' /\ holders'[d] = {} /\ d \notin unforked'
                           /\ \A r \in Procs : sock'[r] # d
                      /\ cpc'[d] \in {"send", "receive"} =>
                           \/ Waits(d)' \/ d \in unforked' \/ Written(d)' = Len(Answer(d)')
                           \/ \E r \in Procs : sock'[r] = d
                           \/ \A r \in Procs : ~Live(r)'
                      /\ cpc'[d] = "done" => ~Waits(d)' /\ \A r \in Procs : Serves(r)' => sock'[r] # d
                      /\ \A r \in Procs : ppc'[r] = "dead" /\ sock'[r] = d => Gone(d)' \/ HungUp(d)'
    BY DEF Fates
  <2>1. Gone(d) => Gone(d)'
    BY <1>1 DEF Gone
  <2>2. CASE d # c
    BY <1>1, <1>2, <1>3, <2>1, <2>2 DEF Fates
  <2>3. CASE d = c
    <3>1. cpc'[c] = "done" => ~Waits(c) /\ \A r \in Procs : Serves(r) => sock[r] # c
      <4>1. HungUp(c) => ~Waits(c) /\ \A r \in Procs : Serves(r) => sock[r] # c
        BY <1>4, <1>5
      <4>2. Got(c)' = Len(Answer(c)) => Written(c) = Len(Answer(c))
        <5>1. Len(downstream'[c]) \in Nat /\ Len(response'[c]) \in Nat
          OBVIOUS
        <5>2. Got(c)' = Len(response'[c]) /\ Written(c)' = Len(response'[c]) + Len(downstream'[c])
          BY DEF Got, Written
        <5>3. Written(c) <= Len(Answer(c)) /\ Len(Answer(c)) \in Nat
          BY MessageLemma DEF Flows, TypeOK
        <5> QED
          <6>1. \A g, e, a \in Nat : g + e <= a /\ g = a => g + e = a
            OBVIOUS
          <6>2. Len(response'[c]) + Len(downstream'[c]) <= Len(Answer(c))
            BY <5>2, <5>3
          <6>3. Len(response'[c]) = Len(Answer(c))
                  => Len(response'[c]) + Len(downstream'[c]) = Len(Answer(c))
            BY <5>1, <5>3, <6>1, <6>2
          <6> QED
            BY <5>2, <6>3
      <4>3. Written(c) = Len(Answer(c)) => ~Waits(c) /\ \A r \in Procs : Serves(r) => sock[r] # c
        BY <1>1, AnsweredIsFree DEF Gone
      <4> QED
        BY <1>1, <4>1, <4>2, <4>3
    <3> QED
      BY <1>1, <1>2, <1>3, <2>1, <2>3, <3>1 DEF Fates, Gone
  <2> QED
    BY <2>2, <2>3
<1> QED
  BY <1>6, <1>7, <1>8, <1>9

LEMMA SendKeeps ==
  ASSUME TypeOK, Places, Flows, Fates, NEW c \in Clients, Send(c),
         UNCHANGED <<serverVars, holders>>
  PROVE  TypeOK' /\ Places' /\ Flows' /\ Fates'
<1>1. /\ UNCHANGED <<ppc, perrno, sock, request, unforked>>
      /\ UNCHANGED <<holders, ask, pending, downstream, response>>
      /\ cpc[c] = "send"
  BY DEF Send, serverVars
<1>2. /\ Message(c) \in Seq(Token) /\ Len(Message(c)) \in Nat
      /\ sent[c] \in Nat /\ sent[c] < Len(Message(c))
      /\ Message(c)[sent[c] + 1] \in Token
  <2>1. /\ Message(c) \in Seq(Token) /\ Len(Message(c)) \in Nat
        /\ \A k \in 1 .. Len(Message(c)) : Message(c)[k] \in Token
    BY MessageLemma DEF TypeOK
  <2>2. sent[c] \in Nat /\ sent[c] < Len(Message(c))
    BY <1>1 DEF TypeOK, Flows
  <2>3. sent[c] + 1 \in 1 .. Len(Message(c))
    BY <2>1, <2>2
  <2> QED
    BY <2>1, <2>2, <2>3
<1>3. /\ Message(c)' = Message(c) /\ Answer(c)' = Answer(c)
      /\ Got(c)' = Got(c) /\ Written(c)' = Written(c)
  BY <1>1 DEF Message, Answer, Got, Written
<1>4. /\ response'[c] = SubSeq(Answer(c), 1, Got(c)') /\ response'[c] \in Seq(Token)
      /\ downstream'[c] = SubSeq(Answer(c), Got(c)' + 1, Written(c)) /\ downstream'[c] \in Seq(Token)
      /\ Got(c)' < Len(Answer(c))
  BY <1>1, <1>3 DEF Flows, TypeOK
<1>5. CASE /\ upstream' = [upstream EXCEPT ![c] = IF HungUp(c) THEN @
                                                  ELSE Append(@, Message(c)[sent[c] + 1])]
           /\ sent' = [sent EXCEPT ![c] = @ + 1]
           /\ cpc' = [cpc EXCEPT ![c] =
                        IF sent[c] + 1 = Len(Message(c)) THEN "receive" ELSE @]
  <2> DEFINE label == IF sent[c] + 1 = Len(Message(c)) THEN "receive" ELSE "send"
  <2>1. /\ sent'[c] = sent[c] + 1
        /\ ~HungUp(c) => upstream'[c] = Append(upstream[c], Message(c)[sent[c] + 1])
        /\ \A d \in Clients \ {c} : sent'[d] = sent[d] /\ upstream'[d] = upstream[d]
        /\ cpc' = [cpc EXCEPT ![c] = label]
    BY <1>1, <1>5 DEF TypeOK
  <2>2. /\ label \in {"send", "receive", "done", "killed"} /\ label # "done"
        /\ sent'[c] <= Len(Message(c)) /\ (label = "send" => sent'[c] < Len(Message(c)))
    BY <1>2, <2>1
  <2> HIDE DEF label
  <2>3. ClientMoves(c, label)
    BY <1>1, <2>1 DEF ClientMoves, serverVars
  <2>4. ASSUME NEW k \in Nat, Unread(c, k), ~HungUp(c)
        PROVE  Unread(c, k)'
    <3>1. k <= sent[c] /\ upstream[c] = SubSeq(Message(c), k + 1, sent[c])
          /\ downstream[c] = << >> /\ response[c] = << >>
      BY <2>4 DEF Unread
    <3>2. Append(SubSeq(Message(c), k + 1, sent[c]), Message(c)[sent[c] + 1])
            = SubSeq(Message(c), k + 1, sent[c] + 1)
      BY <1>2, <3>1, SliceGrows
    <3>3. k <= sent'[c]
      BY <1>2, <2>1, <3>1
    <3>4. upstream'[c] = SubSeq(Message(c)', k + 1, sent'[c])
      BY <1>3, <2>1, <2>4, <3>1, <3>2
    <3> QED
      BY <1>1, <3>1, <3>3, <3>4 DEF Unread
  <2>5. sent' \in [Clients -> Nat] /\ upstream' \in [Clients -> Seq(Token)]
    <3>1. Append(upstream[c], Message(c)[sent[c] + 1]) \in Seq(Token)
      BY <1>2 DEF TypeOK
    <3> QED
      BY <1>5, <3>1 DEF TypeOK
  <2>6. /\ Places' /\ Flows' /\ Fates'
        /\ cpc' \in [Clients -> {"off", "send", "receive", "done", "failed", "killed"}]
        /\ \A p \in Procs : Fds(p)' <= FdRoom
    BY <1>3, <1>4, <2>2, <2>3, <2>4, ClientKeeps
  <2> QED
    BY <1>1, <2>5, <2>6 DEF TypeOK
<1>6. CASE /\ HungUp(c) /\ cpc' = [cpc EXCEPT ![c] = "killed"]
           /\ UNCHANGED <<sent, upstream>>
  <2>1. ClientMoves(c, "killed")
    BY <1>1, <1>6 DEF ClientMoves, serverVars
  <2>2. sent'[c] <= Len(Message(c))
    BY <1>2, <1>6
  <2>3. \A k \in Nat : Unread(c, k) /\ ~HungUp(c) => Unread(c, k)'
    BY <1>6
  <2>4. /\ Places' /\ Flows' /\ Fates'
        /\ cpc' \in [Clients -> {"off", "send", "receive", "done", "failed", "killed"}]
        /\ \A p \in Procs : Fds(p)' <= FdRoom
    BY <1>3, <1>4, <2>1, <2>2, <2>3, ClientKeeps
  <2> QED
    BY <1>1, <1>6, <2>4 DEF TypeOK
<1> QED
  BY <1>5, <1>6 DEF Send

LEMMA KillKeeps ==
  ASSUME TypeOK, Places, Flows, Fates, NEW c \in Clients, KillClient(c)
  PROVE  TypeOK' /\ Places' /\ Flows' /\ Fates'
<1>1. /\ UNCHANGED <<ppc, perrno, sock, request, unforked>>
      /\ UNCHANGED <<holders, pending, ask, sent, upstream, downstream, response>>
      /\ cpc[c] \in {"send", "receive"} /\ cpc' = [cpc EXCEPT ![c] = "killed"]
  BY DEF KillClient, serverVars
<1>2. /\ Message(c)' = Message(c) /\ Answer(c)' = Answer(c)
      /\ Got(c)' = Got(c) /\ Written(c)' = Written(c)
      /\ \A k : Unread(c, k)' <=> Unread(c, k)
  BY <1>1, SameStreams
<1>3. /\ response'[c] = SubSeq(Answer(c), 1, Got(c)') /\ response'[c] \in Seq(Token)
      /\ downstream'[c] = SubSeq(Answer(c), Got(c)' + 1, Written(c)) /\ downstream'[c] \in Seq(Token)
      /\ sent'[c] <= Len(Message(c))
  BY <1>1, <1>2 DEF Flows, TypeOK
<1>4. ClientMoves(c, "killed")
  BY <1>1 DEF ClientMoves, serverVars
<1>5. /\ Places' /\ Flows' /\ Fates'
      /\ cpc' \in [Clients -> {"off", "send", "receive", "done", "failed", "killed"}]
      /\ \A p \in Procs : Fds(p)' <= FdRoom
  BY <1>2, <1>3, <1>4, ClientKeeps
<1> QED
  BY <1>1, <1>5 DEF TypeOK

LEMMA ReceiveKeeps ==
  ASSUME TypeOK, Places, Flows, Fates, NEW c \in Clients, Receive(c),
         UNCHANGED <<serverVars, holders>>
  PROVE  TypeOK' /\ Places' /\ Flows' /\ Fates'
<1>1. /\ UNCHANGED <<ppc, perrno, sock, request, unforked>>
      /\ UNCHANGED <<holders, ask, pending, sent, upstream>>
      /\ cpc[c] = "receive"
  BY DEF Receive, serverVars
<1>2. /\ Answer(c) \in Seq(Token) /\ Len(Answer(c)) \in Nat
      /\ \A k \in 1 .. Len(Answer(c)) : Answer(c)[k] = NUL <=> k = Len(Answer(c))
  BY MessageLemma DEF TypeOK
<1>3. /\ Got(c) \in Nat /\ Written(c) \in Nat /\ Got(c) <= Written(c)
      /\ Written(c) <= Len(Answer(c)) /\ Got(c) < Len(Answer(c))
      /\ response[c] = SubSeq(Answer(c), 1, Got(c))
      /\ downstream[c] = SubSeq(Answer(c), Got(c) + 1, Written(c))
      /\ Len(downstream[c]) = Written(c) - Got(c)
      /\ sent[c] <= Len(Message(c))
  BY <1>1 DEF TypeOK, Flows, Got, Written
<1>4. Message(c)' = Message(c) /\ Answer(c)' = Answer(c)
  BY <1>1 DEF Message, Answer
<1>5. ASSUME NEW n \in 1 .. Len(downstream[c]),
             response' = [response EXCEPT ![c] = response[c] \o SubSeq(downstream[c], 1, n)],
             downstream' = [downstream EXCEPT ![c] = SubSeq(@, n + 1, Len(@))],
             cpc' = [cpc EXCEPT ![c] =
                       IF Last(response[c] \o SubSeq(downstream[c], 1, n)) = NUL THEN "done" ELSE @]
      PROVE  TypeOK' /\ Places' /\ Flows' /\ Fates'
  <2>1. n \in Nat /\ n > 0 /\ n <= Written(c) - Got(c)
    BY <1>3
  <2>2. SubSeq(Answer(c), 1, Got(c)) \o SubSeq(SubSeq(Answer(c), Got(c) + 1, Written(c)), 1, n)
          = SubSeq(Answer(c), 1, Got(c) + n)
    <3>1. /\ Answer(c) \in Seq(Token) /\ Got(c) \in Nat /\ Written(c) \in Nat
          /\ Got(c) <= Written(c) /\ Written(c) <= Len(Answer(c))
      BY <1>2, <1>3
    <3> QED
      BY <2>1, <3>1, SliceRead
  <2>3. SubSeq(SubSeq(Answer(c), Got(c) + 1, Written(c)), n + 1, Written(c) - Got(c))
          = SubSeq(Answer(c), Got(c) + n + 1, Written(c))
    <3>1. /\ Answer(c) \in Seq(Token) /\ Got(c) \in Nat /\ Written(c) \in Nat
          /\ Got(c) <= Written(c) /\ Written(c) <= Len(Answer(c))
      BY <1>2, <1>3
    <3> QED
      BY <2>1, <3>1, SliceLeft
  <2>4. /\ Got(c) + n \in Nat /\ Got(c) + n <= Len(Answer(c)) /\ Got(c) + n <= Written(c)
        /\ Got(c) + n \in 1 .. Got(c) + n /\ Got(c) + n \in 1 .. Len(Answer(c))
    <3>1. /\ Got(c) \in Nat /\ Written(c) \in Nat /\ Len(Answer(c)) \in Nat
          /\ Written(c) <= Len(Answer(c))
      BY <1>2, <1>3
    <3>2. \A g, w, a \in Nat :
            n <= w - g /\ w <= a =>
              /\ g + n \in Nat /\ g + n <= a /\ g + n <= w
              /\ g + n \in 1 .. g + n /\ g + n \in 1 .. a
      BY <2>1
    <3> QED
      BY <2>1, <3>1, <3>2
  <2>5. /\ Len(SubSeq(Answer(c), 1, Got(c) + n)) = Got(c) + n
        /\ SubSeq(Answer(c), 1, Got(c) + n)[Got(c) + n] = Answer(c)[Got(c) + n]
    BY <1>2, <2>4, SlicePrefix
  <2>6. Last(response[c] \o SubSeq(downstream[c], 1, n)) = NUL <=> Got(c) + n = Len(Answer(c))
    <3>1. response[c] \o SubSeq(downstream[c], 1, n) = SubSeq(Answer(c), 1, Got(c) + n)
      BY <1>3, <2>2
    <3>2. Last(SubSeq(Answer(c), 1, Got(c) + n)) = Answer(c)[Got(c) + n]
      BY <2>5 DEF Last
    <3> QED
      BY <1>2, <2>4, <3>1, <3>2
  <2> DEFINE label == IF Got(c) + n = Len(Answer(c)) THEN "done" ELSE "receive"
  <2>7. /\ response' = [response EXCEPT ![c] = SubSeq(Answer(c), 1, Got(c) + n)]
        /\ downstream' = [downstream EXCEPT ![c] = SubSeq(Answer(c), Got(c) + n + 1, Written(c))]
        /\ cpc' = [cpc EXCEPT ![c] = label]
    BY <1>1, <1>3, <1>5, <2>2, <2>3, <2>6
  <2>8. /\ label \in {"send", "receive", "done", "killed"} /\ label # "send"
        /\ label = "done" <=> Got(c) + n = Len(Answer(c))
    OBVIOUS
  <2> HIDE DEF label
  <2>9. /\ response'[c] = SubSeq(Answer(c), 1, Got(c) + n)
        /\ downstream'[c] = SubSeq(Answer(c), Got(c) + n + 1, Written(c))
        /\ \A d \in Clients \ {c} : response'[d] = response[d] /\ downstream'[d] = downstream[d]
    BY <2>7 DEF TypeOK
  <2>10. ClientMoves(c, label)
    BY <1>1, <2>7, <2>9 DEF ClientMoves, serverVars
  <2>11. /\ SubSeq(Answer(c), 1, Got(c) + n) \in Seq(Token)
         /\ SubSeq(Answer(c), Got(c) + n + 1, Written(c)) \in Seq(Token)
         /\ Len(SubSeq(Answer(c), Got(c) + n + 1, Written(c))) = Written(c) - (Got(c) + n)
    <3>1. SubSeq(Answer(c), 0 + 1, Got(c) + n) \in Seq(Token)
      BY <1>2, <2>4, SliceLemma
    <3>2. /\ SubSeq(Answer(c), (Got(c) + n) + 1, Written(c)) \in Seq(Token)
          /\ Len(SubSeq(Answer(c), (Got(c) + n) + 1, Written(c))) = Written(c) - (Got(c) + n)
      <4>1. /\ Answer(c) \in Seq(Token) /\ Got(c) + n \in Nat /\ Written(c) \in Nat
            /\ Got(c) + n <= Written(c) /\ Written(c) <= Len(Answer(c))
        BY <1>2, <1>3, <2>4
      <4> QED
        BY <4>1, SliceLemma
    <3> QED
      BY <3>1, <3>2
  <2>12. Got(c)' = Got(c) + n /\ Written(c)' = Written(c)
    <3>1. Got(c)' = Got(c) + n
      BY <2>5, <2>9 DEF Got
    <3>2. Written(c)' = Got(c)' + (Written(c) - (Got(c) + n))
      BY <2>9, <2>11 DEF Written
    <3> QED
      BY <1>3, <2>4, <3>1, <3>2
  <2>13. \A k \in Nat : Unread(c, k) /\ ~HungUp(c) => Unread(c, k)'
    <3>1. Len(downstream[c]) # 0
      BY <1>3, <2>1
    <3>2. downstream[c] # << >>
      BY <3>1
    <3> QED
      BY <3>2 DEF Unread
  <2>14. /\ sent'[c] <= Len(Message(c))
         /\ response'[c] = SubSeq(Answer(c), 1, Got(c)') /\ response'[c] \in Seq(Token)
         /\ downstream'[c] = SubSeq(Answer(c), Got(c)' + 1, Written(c)) /\ downstream'[c] \in Seq(Token)
    BY <1>1, <1>3, <2>9, <2>11, <2>12
  <2>15. /\ label \in {"send", "receive"} => Got(c)' < Len(Answer(c))
         /\ label = "done" => HungUp(c) \/ Got(c)' = Len(Answer(c))
    BY <1>2, <2>4, <2>8, <2>12
  <2>16. /\ Places' /\ Flows' /\ Fates'
         /\ cpc' \in [Clients -> {"off", "send", "receive", "done", "failed", "killed"}]
         /\ \A p \in Procs : Fds(p)' <= FdRoom
    BY <2>8, <2>10, <2>12, <2>13, <2>14, <2>15, ClientKeeps
  <2>17. response' \in [Clients -> Seq(Token)] /\ downstream' \in [Clients -> Seq(Token)]
    BY <2>7, <2>11 DEF TypeOK
  <2> QED
    BY <1>1, <2>16, <2>17 DEF TypeOK
<1>6. CASE /\ downstream[c] = << >> /\ HungUp(c)
           /\ cpc' = [cpc EXCEPT ![c] = "done"]
           /\ UNCHANGED <<downstream, response>>
  <2>1. ClientMoves(c, "done")
    BY <1>1, <1>6 DEF ClientMoves, serverVars
  <2>2. Got(c)' = Got(c) /\ Written(c)' = Written(c)
    BY <1>6 DEF Got, Written
  <2>3. \A k \in Nat : Unread(c, k) /\ ~HungUp(c) => Unread(c, k)'
    BY <1>6
  <2>4. /\ sent'[c] <= Len(Message(c))
        /\ response'[c] = SubSeq(Answer(c), 1, Got(c)') /\ response'[c] \in Seq(Token)
        /\ downstream'[c] = SubSeq(Answer(c), Got(c)' + 1, Written(c)) /\ downstream'[c] \in Seq(Token)
    BY <1>1, <1>3, <1>6, <2>2 DEF TypeOK
  <2>5. /\ Places' /\ Flows' /\ Fates'
        /\ cpc' \in [Clients -> {"off", "send", "receive", "done", "failed", "killed"}]
        /\ \A p \in Procs : Fds(p)' <= FdRoom
    BY <1>6, <2>1, <2>2, <2>3, <2>4, ClientKeeps
  <2> QED
    BY <1>1, <1>6, <2>5 DEF TypeOK
<1> QED
  BY <1>5, <1>6 DEF Receive

LEMMA ConnectKeeps ==
  ASSUME TypeOK, Places, Flows, Fates, NEW c \in Clients, Connect(c),
         UNCHANGED <<serverVars, holders>>
  PROVE  TypeOK' /\ Places' /\ Flows' /\ Fates'
<1>1. /\ UNCHANGED <<ppc, perrno, sock, request, unforked>>
      /\ UNCHANGED <<holders, ask, sent, upstream, downstream, response>>
      /\ cpc[c] = "off"
      /\ \/ /\ \E p \in Procs : Live(p)
            /\ pending' = Append(pending, c)
            /\ cpc' = [cpc EXCEPT ![c] = "send"]
         \/ /\ \A p \in Procs : ~Live(p)
            /\ cpc' = [cpc EXCEPT ![c] = "failed"]
            /\ pending' = pending
  BY DEF Connect, serverVars
<1>2. /\ ~Waits(c) /\ holders[c] = {} /\ c \notin unforked /\ \A p \in Procs : sock[p] # c
      /\ Unread(c, 0)
  BY <1>1 DEF Fates, Flows
<1>3. /\ \A d \in Clients : Message(d)' = Message(d) /\ Answer(d)' = Answer(d)
                            /\ Got(d)' = Got(d) /\ Written(d)' = Written(d)
                            /\ \A k : Unread(d, k)' <=> Unread(d, k)
  BY <1>1, SameStreams
<1>4. /\ cpc'[c] \in {"send", "failed"}
      /\ \A d \in Clients \ {c} : cpc'[d] = cpc[d]
      /\ cpc' \in [Clients -> {"off", "send", "receive", "done", "failed", "killed"}]
      /\ \A p : (Live(p)' <=> Live(p)) /\ (Serves(p)' <=> Serves(p))
      /\ \A d \in Clients : Gone(d)' <=> Gone(d)
  <2>1. cpc' = [cpc EXCEPT ![c] = "send"] \/ cpc' = [cpc EXCEPT ![c] = "failed"]
    BY <1>1
  <2>2. /\ cpc'[c] \in {"send", "failed"}
        /\ \A d \in Clients \ {c} : cpc'[d] = cpc[d]
        /\ cpc' \in [Clients -> {"off", "send", "receive", "done", "failed", "killed"}]
    BY <2>1 DEF TypeOK
  <2>3. \A d \in Clients : Gone(d)' <=> Gone(d)
    BY <1>1, <2>2 DEF Gone
  <2> QED
    BY <1>1, <2>2, <2>3 DEF Live, Serves
<1>5. /\ pending' \in Seq(Clients) /\ NoneTwice(pending)'
      /\ pending' # << >> => \E p \in Procs : Live(p)
      /\ \A d : Waits(d)' => Waits(d) \/ d = c
      /\ \A d : Waits(d) => Waits(d)'
      /\ cpc'[c] = "send" <=> Waits(c)'
  <2>1. CASE /\ pending' = Append(pending, c) /\ cpc' = [cpc EXCEPT ![c] = "send"]
             /\ \E p \in Procs : Live(p)
    <3>1. NoneTwice(pending) /\ pending \in Seq(Clients)
      BY DEF Places, NoneTwice, TypeOK
    <3>2. /\ Append(pending, c) \in Seq(Clients) /\ NoneTwice(Append(pending, c))
          /\ \A d : (\E k \in DOMAIN Append(pending, c) : Append(pending, c)[k] = d)
                      <=> Waits(d) \/ d = c
      BY <1>2, <3>1, PendingAppend
    <3>3. NoneTwice(pending)' /\ \A d : Waits(d)' <=> Waits(d) \/ d = c
      BY <2>1, <3>2 DEF NoneTwice, Waits
    <3>4. cpc'[c] = "send"
      BY <2>1 DEF TypeOK
    <3> QED
      BY <2>1, <3>2, <3>3, <3>4
  <2>2. CASE pending' = pending /\ cpc' = [cpc EXCEPT ![c] = "failed"]
    <3>1. cpc'[c] = "failed"
      BY <2>2 DEF TypeOK
    <3>2. \A d : Waits(d)' <=> Waits(d)
      BY <2>2 DEF Waits
    <3>3. /\ pending' \in Seq(Clients) /\ NoneTwice(pending)'
          /\ pending' # << >> => \E p \in Procs : Live(p)
      BY <2>2 DEF Places, NoneTwice, TypeOK
    <3> QED
      BY <1>2, <3>1, <3>2, <3>3
  <2> QED
    BY <1>1, <2>1, <2>2
<1>6. TypeOK'
  <2>1. \A p \in Procs : Fds(p)' <= FdRoom
    BY <1>1 DEF TypeOK, Fds
  <2> QED
    BY <1>1, <1>4, <1>5, <2>1 DEF TypeOK
<1>7. Places'
  <2>1. ASSUME NEW d \in Clients
        PROVE  /\ \A r \in holders'[d] : Live(r)'
               /\ Waits(d)' => holders'[d] = {}
               /\ Waits(d)' \/ d \in unforked' => \A r \in Procs : sock'[r] # d
               /\ Waits(d)' => d \notin unforked'
    BY <1>1, <1>2, <1>4, <1>5 DEF Places
  <2>2. ASSUME NEW r \in Procs
        PROVE  /\ ppc'[r] \in {"unborn", "accept"} => sock'[r] = Nobody
               /\ Serves(r)' => sock'[r] \in Clients /\ r \in holders'[sock'[r]]
               /\ ppc'[r] \in {"unborn", "accept", "fork"} => request'[r] = << >>
    BY <1>1, <1>4 DEF Places
  <2>3. \A p, q \in Procs : sock'[p] = sock'[q] /\ sock'[p] # Nobody => p = q
    BY <1>1 DEF Places
  <2>4. pending' # << >> => \E p \in Procs : Live(p)'
    BY <1>4, <1>5
  <2> QED
    BY <1>5, <2>1, <2>2, <2>3, <2>4 DEF Places, NoneTwice
<1>8. Flows'
  <2>1. ASSUME NEW d \in Clients
        PROVE  /\ Waits(d)' \/ cpc'[d] \in {"off", "failed"} => Unread(d, 0)'
               /\ sent'[d] <= Len(Message(d)')
               /\ cpc'[d] \in {"off", "send", "failed"} => sent'[d] < Len(Message(d)')
               /\ Written(d)' <= Len(Answer(d)')
               /\ response'[d] = SubSeq(Answer(d)', 1, Got(d)')
               /\ downstream'[d] = SubSeq(Answer(d)', Got(d)' + 1, Written(d)')
               /\ cpc'[d] \in {"send", "receive"} => Got(d)' < Len(Answer(d)')
    <3>1. CASE d = c
      <4>1. sent'[c] < Len(Message(c))
        BY <1>1 DEF Flows
      <4>2. Got(c) < Len(Answer(c))
        <5>1. Len(Answer(c)) \in Nat \ {0}
          BY MessageLemma DEF TypeOK
        <5>2. Got(c) = 0
          BY <1>2 DEF Unread, Got
        <5> QED
          BY <5>1, <5>2
      <4> QED
        BY <1>1, <1>2, <1>3, <3>1, <4>1, <4>2 DEF Flows
    <3>2. CASE d # c
      BY <1>1, <1>3, <1>4, <1>5, <3>2 DEF Flows
    <3> QED
      BY <3>1, <3>2
  <2>2. ASSUME NEW r \in Procs, ppc'[r] \in {"fork", "read"}
        PROVE  /\ Unread(sock[r], Len(request[r]))'
               /\ request'[r] = SubSeq(Message(sock[r])', 1, Len(request'[r]))
    <3>1. sock[r] \in Clients /\ sock'[r] = sock[r] /\ request'[r] = request[r] /\ ppc'[r] = ppc[r]
      BY <1>1, <2>2 DEF Places, Serves
    <3> QED
      BY <1>3, <2>2, <3>1 DEF Flows
  <2>3. ASSUME NEW r \in Procs, ppc'[r] = "list", ~Gone(sock[r])'
        PROVE  /\ Written(sock[r])' < Len(Message(sock[r])')
               /\ request'[r] = SubSeq(Message(sock[r])', Written(sock[r])' + 1,
                                       Len(Message(sock[r])'))
    <3>1. /\ sock[r] \in Clients /\ sock'[r] = sock[r] /\ request'[r] = request[r]
          /\ ppc'[r] = ppc[r] /\ ~Gone(sock[r])
      <4>1. sock[r] \in Clients /\ sock'[r] = sock[r] /\ request'[r] = request[r] /\ ppc'[r] = ppc[r]
        BY <1>1, <2>3 DEF Places, Serves
      <4> QED
        BY <1>4, <2>3, <4>1 DEF Gone
    <3> QED
      BY <1>3, <2>3, <3>1 DEF Flows
  <2> QED
    BY <2>1, <2>2, <2>3 DEF Flows
<1>9. Fates'
  <2> SUFFICES ASSUME NEW d \in Clients
               PROVE  /\ cpc'[d] \in {"off", "failed"} =>
                           /\ ~Waits(d)' /\ holders'[d] = {} /\ d \notin unforked'
                           /\ \A r \in Procs : sock'[r] # d
                      /\ cpc'[d] \in {"send", "receive"} =>
                           \/ Waits(d)' \/ d \in unforked' \/ Written(d)' = Len(Answer(d)')
                           \/ \E r \in Procs : sock'[r] = d
                           \/ \A r \in Procs : ~Live(r)'
                      /\ cpc'[d] = "done" => ~Waits(d)' /\ \A r \in Procs : Serves(r)' => sock'[r] # d
                      /\ \A r \in Procs : ppc'[r] = "dead" /\ sock'[r] = d => Gone(d)' \/ HungUp(d)'
    BY DEF Fates
  <2>1. CASE d = c
    BY <1>1, <1>2, <1>4, <1>5, <2>1
  <2>2. CASE d # c
    <3>1. (Waits(d)' <=> Waits(d)) /\ cpc'[d] = cpc[d]
      BY <1>4, <1>5, <2>2
    <3>2. HungUp(d)' <=> HungUp(d)
      BY <1>1, <3>1 DEF HungUp, Waits
    <3> QED
      BY <1>1, <1>3, <1>4, <3>1, <3>2 DEF Fates
  <2> QED
    BY <2>1, <2>2
<1> QED
  BY <1>6, <1>7, <1>8, <1>9

-----------------------------------------------------------------------------
(* All the steps.                                                          *)

ServerActs(p) ==
  \/ (AcceptNoRoom(p) \/ ChildDies(p)) /\ UNCHANGED clientVars
  \/ Accept(p) /\ UNCHANGED clientVars
  \/ \E q \in Procs : ForkChild(p, q)
  \/ NoChild(p)
  \/ \E n \in Nat : ReadSome(p, n)
  \/ ReadEnd(p)
  \/ PrintDir(p) /\ UNCHANGED clientVars
  \/ FinishClient(p) /\ UNCHANGED clientVars

ClientActs(c) ==
  \/ (Connect(c) \/ Send(c) \/ Receive(c)) /\ UNCHANGED <<serverVars, holders>>
  \/ KillClient(c)

LEMMA StepCases ==
  ASSUME TypeOK, Places, Next
  PROVE  (\E p \in Procs : ServerActs(p)) \/ (\E c \in Clients : ClientActs(c))
<1>1. ASSUME NEW p \in Procs, Fork(p), UNCHANGED clientVars
      PROVE  NoChild(p) \/ \E q \in Procs : ForkChild(p, q)
  BY <1>1 DEF Fork, ForkAs, ForkChild, NoChild, clientVars
<1>2. ASSUME NEW p \in Procs, ReadClient(p), UNCHANGED clientVars
      PROVE  ReadEnd(p) \/ \E n \in Nat : ReadSome(p, n)
  <2>1. sock[p] \in Clients /\ Len(upstream[sock[p]]) \in Nat
    BY <1>2 DEF ReadClient, ReadUntil, Places, Serves, TypeOK
  <2>2. UNCHANGED <<sock, holders, pending, downstream, unforked>> /\ ppc[p] = "read"
    BY <1>2 DEF ReadClient, ReadUntil
  <2>3. ASSUME NEW n \in 1 .. Len(upstream[sock[p]]),
               request' = [request EXCEPT ![p] = request[p] \o SubSeq(upstream[sock[p]], 1, n)],
               upstream' = [upstream EXCEPT ![sock[p]] = SubSeq(@, n + 1, Len(@))],
               PGoto(p, IF Last(request[p] \o SubSeq(upstream[sock[p]], 1, n)) \in {NUL}
                          THEN "list" ELSE "read"),
               UNCHANGED perrno
        PROVE  ReadSome(p, n)
    BY <1>2, <2>2, <2>3 DEF ReadSome, Moves
  <2>4. ASSUME Gone(sock[p]), perrno' \in {perrno, [perrno EXCEPT ![p] = TRUE]},
               PGoto(p, "list"), UNCHANGED <<request, upstream>>
        PROVE  ReadEnd(p)
    BY <1>2, <2>2, <2>4 DEF ReadEnd, Moves
  <2>5. 1 .. Len(upstream[sock[p]]) \subseteq Nat
    BY <2>1
  <2> QED
    BY <1>2, <2>3, <2>4, <2>5 DEF ReadClient, ReadUntil
<1>3. ASSUME NEW p \in Procs, ServerStep(p)
      PROVE  ServerActs(p)
  BY <1>1, <1>2, <1>3 DEF ServerStep, ServerActs
<1>4. ASSUME NEW c \in Clients,
             \/ Connect(c) /\ UNCHANGED <<serverVars, holders>>
             \/ ClientStep(c)
             \/ KillClient(c)
      PROVE  ClientActs(c)
  BY <1>4 DEF ClientStep, ClientActs
<1> QED
  BY <1>3, <1>4 DEF Next

LEMMA StepKeeps ==
  ASSUME TypeOK, Places, Flows, Fates, [Next]_vars
  PROVE  TypeOK' /\ Places' /\ Flows' /\ Fates'
<1>1. CASE UNCHANGED vars
  <2>1. TypeOK'
    BY <1>1 DEF vars, TypeOK, Fds
  <2>2. Places'
    BY <1>1 DEF vars, Places, Live, Serves, Waits
  <2>3. \A c \in Clients : /\ Message(c)' = Message(c) /\ Answer(c)' = Answer(c)
                           /\ Got(c)' = Got(c) /\ Written(c)' = Written(c)
                           /\ \A n : Unread(c, n)' <=> Unread(c, n)
    BY <1>1, SameStreams DEF vars
  <2>4. Flows'
    <3>1. ASSUME NEW c \in Clients
          PROVE  /\ Waits(c)' \/ cpc'[c] \in {"off", "failed"} => Unread(c, 0)'
                 /\ sent'[c] <= Len(Message(c)')
                 /\ cpc'[c] \in {"off", "send", "failed"} => sent'[c] < Len(Message(c)')
                 /\ Written(c)' <= Len(Answer(c)')
                 /\ response'[c] = SubSeq(Answer(c)', 1, Got(c)')
                 /\ downstream'[c] = SubSeq(Answer(c)', Got(c)' + 1, Written(c)')
                 /\ cpc'[c] \in {"send", "receive"} => Got(c)' < Len(Answer(c)')
      <4>1. Waits(c)' <=> Waits(c)
        BY <1>1 DEF vars, Waits
      <4> QED
        BY <1>1, <2>3, <4>1 DEF Flows, vars
    <3>2. ASSUME NEW r \in Procs, ppc'[r] \in {"fork", "read", "list"}
          PROVE  sock[r] \in Clients /\ ppc'[r] = ppc[r] /\ sock'[r] = sock[r] /\ request'[r] = request[r]
      BY <1>1, <3>2 DEF vars, Places, Serves
    <3>3. ASSUME NEW r \in Procs, ppc'[r] \in {"fork", "read"}
          PROVE  /\ Unread(sock[r], Len(request[r]))'
                 /\ request'[r] = SubSeq(Message(sock[r])', 1, Len(request'[r]))
      BY <2>3, <3>2, <3>3 DEF Flows
    <3>4. ASSUME NEW r \in Procs, ppc'[r] = "list", ~Gone(sock[r])'
          PROVE  /\ Written(sock[r])' < Len(Message(sock[r])')
                 /\ request'[r] = SubSeq(Message(sock[r])', Written(sock[r])' + 1,
                                         Len(Message(sock[r])'))
      <4>1. ~Gone(sock[r])
        BY <1>1, <3>2, <3>4 DEF Gone, vars
      <4> QED
        BY <2>3, <3>2, <3>4, <4>1 DEF Flows
    <3> QED
      BY <3>1, <3>3, <3>4 DEF Flows
  <2>5. Fates'
    BY <1>1, <2>3 DEF vars, Fates, Waits, Live, Serves, HungUp, Gone
  <2> QED
    BY <2>1, <2>2, <2>4, <2>5
<1>2. ASSUME NEW p \in Procs, ServerActs(p)
      PROVE  TypeOK' /\ Places' /\ Flows' /\ Fates'
  <2>1. CASE (AcceptNoRoom(p) \/ ChildDies(p)) /\ UNCHANGED clientVars
    <3>1. /\ Live(p) /\ Exit(p)
          /\ UNCHANGED <<perrno, sock, request, upstream, downstream, unforked, clientVars>>
      BY <2>1 DEF AcceptNoRoom, ChildDies, Live
    <3>2. sock[p] = Nobody \/ Gone(sock[p])
      BY <2>1 DEF AcceptNoRoom, ChildDies, Places
    <3> QED
      BY <3>1, <3>2, ExitKeeps
  <2> QED
    BY <1>2, <2>1, AcceptKeeps, ForkKeeps, ForkFails, ReadSomeKeeps, ReadEndKeeps,
       PrintDirKeeps, FinishKeeps DEF ServerActs
<1>3. ASSUME NEW c \in Clients, ClientActs(c)
      PROVE  TypeOK' /\ Places' /\ Flows' /\ Fates'
  BY <1>3, ConnectKeeps, SendKeeps, ReceiveKeeps, KillKeeps DEF ClientActs
<1> QED
  BY <1>1, <1>2, <1>3, StepCases

-----------------------------------------------------------------------------
(* Trouble.                                                                *)

LEMMA TroubleStays ==
  ASSUME TypeOK, Places, [Next]_vars, NoTrouble'
  PROVE  NoTrouble
<1>1. unforked \subseteq unforked' /\ \A c \in Clients : cpc[c] = "killed" => cpc'[c] = "killed"
  <2>1. CASE UNCHANGED vars
    BY <2>1 DEF vars
  <2>2. ASSUME NEW p \in Procs, ServerActs(p)
        PROVE  unforked \subseteq unforked' /\ cpc' = cpc
    BY <2>2 DEF ServerActs, AcceptNoRoom, ChildDies, Accept, ForkChild, NoChild, ReadSome, ReadEnd,
                PrintDir, FinishClient, EndAnswer, Moves, clientVars
  <2>3. ASSUME NEW c \in Clients, ClientActs(c)
        PROVE  unforked' = unforked /\ \A d \in Clients : cpc[d] = "killed" => cpc'[d] = "killed"
    <3>1. unforked' = unforked
      BY <2>3 DEF ClientActs, KillClient, serverVars
    <3>2. \A d \in Clients : cpc[d] = "killed" => cpc'[d] = "killed"
      BY <2>3 DEF ClientActs, Connect, Send, Receive, KillClient, TypeOK
    <3> QED
      BY <3>1, <3>2
  <2> QED
    BY <2>1, <2>2, <2>3, StepCases
<1> QED
  BY <1>1 DEF NoTrouble

\* Nobody works for a client that has gone away without being killed.
LEMMA ServedStay ==
  ASSUME Places, Fates, NoTrouble, NEW p \in Procs, Serves(p)
  PROVE  ~Gone(sock[p])
BY DEF Places, Fates, NoTrouble, Gone

LEMMA ErrnosKept ==
  ASSUME TypeOK, Places, Fates, Errnos, [Next]_vars
  PROVE  Errnos'
<1> SUFFICES ASSUME NoTrouble', NEW r \in Procs
             PROVE  ~perrno'[r]
  BY DEF Errnos
<1>1. NoTrouble /\ ~perrno[r]
  BY TroubleStays DEF Errnos
<1>2. CASE UNCHANGED vars
  BY <1>1, <1>2 DEF vars
<1>3. ASSUME NEW p \in Procs, ServerActs(p)
      PROVE  ~perrno'[r]
  <2>1. CASE NoChild(p)
    BY <2>1 DEF NoChild, NoTrouble
  <2>2. CASE ReadEnd(p)
    BY <1>1, <2>2, ServedStay DEF ReadEnd, Serves
  <2>3. CASE PrintDir(p)
    BY <1>1, <2>3 DEF PrintDir, TypeOK
  <2>4. CASE \/ AcceptNoRoom(p) \/ ChildDies(p) \/ Accept(p) \/ \E q \in Procs : ForkChild(p, q)
             \/ \E n \in Nat : ReadSome(p, n)
             \/ FinishClient(p)
    <3>1. perrno' = perrno
      BY <2>4 DEF AcceptNoRoom, ChildDies, Accept, ForkChild, ReadSome, FinishClient, EndAnswer
    <3> QED
      BY <1>1, <3>1
  <2> QED
    BY <1>3, <2>1, <2>2, <2>3, <2>4 DEF ServerActs
<1>4. ASSUME NEW c \in Clients, ClientActs(c)
      PROVE  ~perrno'[r]
  BY <1>1, <1>4 DEF ClientActs, KillClient, serverVars
<1> QED
  BY <1>2, <1>3, <1>4, StepCases

-----------------------------------------------------------------------------
(* Someone who can accept.                                                 *)

\* Whoever keeps no more than one who could accept can accept.
LEMMA SomeoneCanAccept ==
  ASSUME NEW w \in Procs, Cardinality(Kept(w)) < FdRoom,
         NEW v \in Procs, Live(v)', Kept(v)' \subseteq Kept(w)
  PROVE  ServiceRemains'
<1>1. Kept(w) \in SUBSET Clients /\ Kept(v)' \in SUBSET Kept(w)
  BY DEF Kept
<1>2. /\ Cardinality(Kept(w)) \in Nat /\ Cardinality(Kept(v)') \in Nat
      /\ Cardinality(Kept(v)') <= Cardinality(Kept(w))
  BY <1>1, FewerDescriptors
<1>3. Cardinality(Kept(v)') < FdRoom
  BY <1>2, LimitsAssumption
<1>4. Cardinality({c \in Clients : v \in holders'[c] /\ c # sock'[v]}) < FdRoom
  BY <1>3 DEF Kept
<1> QED
  BY <1>4 DEF ServiceRemains

LEMMA ServiceKept ==
  ASSUME TypeOK, Places, Fates, Errnos, ServiceRemains, [Next]_vars
  PROVE  ServiceRemains'
<1>1. CASE ~NoTrouble'
  BY <1>1 DEF NoTrouble, ServiceRemains
<1>2. CASE NoTrouble'
  <2>1. NoTrouble
    BY <1>2, TroubleStays
  <2>2. PICK w \in Procs : Live(w) /\ Cardinality(Kept(w)) < FdRoom
    BY <2>1 DEF NoTrouble, ServiceRemains, Kept
  <2>3. \A c \in Clients : c # Nobody
    BY DEF Clients, Nobody
  <2>4. CASE UNCHANGED <<ppc, sock, holders>>
    <3>1. Live(w)' /\ Kept(w)' \subseteq Kept(w)
      BY <2>2, <2>4 DEF Live, Kept
    <3> QED
      BY <2>2, <3>1, SomeoneCanAccept
  <2>5. ASSUME NEW p \in Procs, ServerActs(p)
        PROVE  ServiceRemains'
    <3>1. CASE AcceptNoRoom(p)
      <4>1. Kept(p) = Held(p) /\ ~ (Cardinality(Held(p)) < FdRoom)
        BY <2>3, <3>1 DEF AcceptNoRoom, Places, HasFd, Fds, Kept, Held
      <4>2. w # p
        BY <2>2, <4>1
      <4>3. ppc' = [ppc EXCEPT ![p] = "dead"] /\ sock' = sock
            /\ holders' = [c \in Clients |-> holders[c] \ {p}]
        BY <3>1 DEF AcceptNoRoom, Exit, PGoto
      <4>4. Live(w)' /\ Kept(w)' \subseteq Kept(w)
        BY <2>2, <4>2, <4>3 DEF Live, Kept, TypeOK
      <4> QED
        BY <2>2, <4>4, SomeoneCanAccept
    <3>2. CASE ChildDies(p)
      <4>1. Serves(p) /\ Gone(sock[p])
        BY <3>2 DEF ChildDies, Serves
      <4> QED
        BY <2>1, <4>1, ServedStay
    <3>3. CASE Accept(p)
      <4>1. ~perrno[p] /\ ppc[p] = "accept" /\ sock[p] = Nobody /\ pending # << >>
        BY <2>1, <3>3 DEF Errnos, Accept, Places
      <4>2. /\ Head(pending) \in Clients
            /\ ppc' = [ppc EXCEPT ![p] = "fork"] /\ sock' = [sock EXCEPT ![p] = Head(pending)]
            /\ holders' = [holders EXCEPT ![Head(pending)] = @ \cup {p}]
        BY <3>3, <4>1 DEF Accept, PGoto, TypeOK
      <4>3. Live(w)'
        BY <2>2, <4>2 DEF Live, TypeOK
      <4>4. Kept(w)' \subseteq Kept(w)
        <5>1. CASE w = p
          BY <2>3, <4>1, <4>2, <5>1 DEF Kept, TypeOK
        <5>2. CASE w # p
          BY <4>2, <5>2 DEF Kept, TypeOK
        <5> QED
          BY <5>1, <5>2
      <4> QED
        BY <2>2, <4>3, <4>4, SomeoneCanAccept
    <3>4. ASSUME NEW q \in Procs, ForkChild(p, q)
          PROVE  ServiceRemains'
      <4>1. /\ ppc[p] = "fork" /\ ppc[q] = "unborn" /\ p # q
            /\ ppc' = [ppc EXCEPT ![p] = "accept", ![q] = "read"]
            /\ sock' = [sock EXCEPT ![p] = Nobody, ![q] = sock[p]]
            /\ holders' = [c \in Clients |-> IF p \in holders[c] THEN holders[c] \cup {q}
                                                                  ELSE holders[c]]
        BY <3>4 DEF ForkChild
      <4>2. \A c \in Clients : q \notin holders[c]
        BY <4>1 DEF Places, Live
      <4>3. CASE w = p
        <5>1. Live(q)' /\ Kept(q)' \subseteq Kept(p)
          BY <4>1, <4>2 DEF Live, Kept, TypeOK
        <5> QED
          BY <2>2, <4>3, <5>1, SomeoneCanAccept
      <4>4. CASE w # p
        <5>1. w # q
          BY <2>2, <4>1 DEF Live
        <5>2. Live(w)' /\ Kept(w)' \subseteq Kept(w)
          BY <2>2, <4>1, <4>4, <5>1 DEF Live, Kept, TypeOK
        <5> QED
          BY <2>2, <5>2, SomeoneCanAccept
      <4> QED
        BY <4>3, <4>4
    <3>5. CASE NoChild(p)
      BY <1>2, <3>5 DEF NoChild, NoTrouble
    <3>6. CASE (\E n \in Nat : ReadSome(p, n)) \/ ReadEnd(p)
      <4>1. /\ sock' = sock /\ holders' = holders
            /\ ppc' = [ppc EXCEPT ![p] = "list"] \/ ppc' = [ppc EXCEPT ![p] = "read"]
        BY <3>6 DEF ReadSome, ReadEnd, Moves, PGoto
      <4>2. Live(w)'
        BY <2>2, <4>1 DEF Live, TypeOK
      <4>3. Kept(w)' \subseteq Kept(w)
        BY <4>1 DEF Kept
      <4> QED
        BY <2>2, <4>2, <4>3, SomeoneCanAccept
    <3>7. CASE PrintDir(p)
      BY <2>4, <3>7 DEF PrintDir
    <3>8. CASE FinishClient(p)
      <4>1. /\ ppc' = [ppc EXCEPT ![p] = "accept"] /\ sock' = [sock EXCEPT ![p] = Nobody]
            /\ holders' = [holders EXCEPT ![sock[p]] = @ \ {p}]
            /\ sock[p] \in Clients
        BY <3>8 DEF FinishClient, EndAnswer, PGoto, Places, Serves
      <4>2. Live(w)'
        BY <2>2, <4>1 DEF Live, TypeOK
      <4>3. Kept(w)' \subseteq Kept(w)
        <5>1. CASE w = p
          BY <2>3, <4>1, <5>1 DEF Kept, TypeOK
        <5>2. CASE w # p
          BY <4>1, <5>2 DEF Kept, TypeOK
        <5> QED
          BY <5>1, <5>2
      <4> QED
        BY <2>2, <4>2, <4>3, SomeoneCanAccept
    <3> QED
      BY <2>5, <3>1, <3>2, <3>3, <3>4, <3>5, <3>6, <3>7, <3>8 DEF ServerActs
  <2>6. ASSUME NEW c \in Clients, ClientActs(c)
        PROVE  UNCHANGED <<ppc, sock, holders>>
    BY <2>6 DEF ClientActs, KillClient, serverVars
  <2>7. CASE UNCHANGED vars
    BY <2>4, <2>7 DEF vars
  <2> QED
    BY <2>4, <2>5, <2>6, <2>7, StepCases
<1> QED
  BY <1>1, <1>2

-----------------------------------------------------------------------------
(* What a client has got.                                                  *)

LEMMA ResponsePrefix ==
  TypeOK /\ Flows => \A c \in Clients : IsPrefix(response[c], Answer(c))
<1> SUFFICES ASSUME TypeOK, Flows, NEW c \in Clients
             PROVE  IsPrefix(response[c], Answer(c))
  OBVIOUS
<1>1. Answer(c) \in Seq(Token) /\ Len(Answer(c)) \in Nat
  BY MessageLemma DEF TypeOK
<1>2. response[c] = SubSeq(Answer(c), 1, Got(c))
  BY DEF Flows
<1>3. Got(c) \in Nat /\ Got(c) <= Len(Answer(c))
  <2>1. Got(c) \in Nat /\ Written(c) \in Nat /\ Got(c) <= Written(c) /\ Written(c) <= Len(Answer(c))
    BY DEF TypeOK, Flows, Got, Written
  <2> QED
    BY <1>1, <2>1
<1>4. IsPrefix(SubSeq(Answer(c), 1, Got(c)), Answer(c))
  BY <1>1, <1>3, SlicePrefix
<1> QED
  BY <1>2, <1>4

\* What ends in NUL is the whole answer.
LEMMA EndsWhole ==
  ASSUME TypeOK, Flows, NEW c \in Clients, NEW n \in 1 .. Len(downstream[c]),
         Last(response[c] \o SubSeq(downstream[c], 1, n)) = NUL
  PROVE  response[c] \o SubSeq(downstream[c], 1, n) = Answer(c)
<1>1. /\ Answer(c) \in Seq(Token) /\ Len(Answer(c)) \in Nat
      /\ \A k \in 1 .. Len(Answer(c)) : Answer(c)[k] = NUL <=> k = Len(Answer(c))
  BY MessageLemma DEF TypeOK
<1>2. /\ Got(c) \in Nat /\ Written(c) \in Nat /\ Got(c) <= Written(c)
      /\ Written(c) <= Len(Answer(c))
      /\ response[c] = SubSeq(Answer(c), 1, Got(c))
      /\ downstream[c] = SubSeq(Answer(c), Got(c) + 1, Written(c))
      /\ Len(downstream[c]) = Written(c) - Got(c)
  BY DEF TypeOK, Flows, Got, Written
<1>3. n \in Nat /\ n > 0 /\ n <= Written(c) - Got(c)
  BY <1>2
<1>4. SubSeq(Answer(c), 1, Got(c)) \o SubSeq(SubSeq(Answer(c), Got(c) + 1, Written(c)), 1, n)
        = SubSeq(Answer(c), 1, Got(c) + n)
  <2>1. /\ Answer(c) \in Seq(Token) /\ Got(c) \in Nat /\ Written(c) \in Nat
        /\ Got(c) <= Written(c) /\ Written(c) <= Len(Answer(c))
    BY <1>1, <1>2
  <2> QED
    BY <1>3, <2>1, SliceRead
<1>5. /\ Got(c) + n \in Nat /\ Got(c) + n <= Len(Answer(c))
      /\ Got(c) + n \in 1 .. Got(c) + n /\ Got(c) + n \in 1 .. Len(Answer(c))
  BY <1>1, <1>2, <1>3
<1>6. /\ Len(SubSeq(Answer(c), 1, Got(c) + n)) = Got(c) + n
      /\ SubSeq(Answer(c), 1, Got(c) + n)[Got(c) + n] = Answer(c)[Got(c) + n]
      /\ SubSeq(Answer(c), 1, Len(Answer(c))) = Answer(c)
  BY <1>1, <1>5, SlicePrefix
<1>7. response[c] \o SubSeq(downstream[c], 1, n) = SubSeq(Answer(c), 1, Got(c) + n)
  BY <1>2, <1>4
<1>8. Last(SubSeq(Answer(c), 1, Got(c) + n)) = Answer(c)[Got(c) + n]
  BY <1>6 DEF Last
<1>9. Answer(c)[Got(c) + n] = NUL
  BY <1>7, <1>8
<1>10. Got(c) + n = Len(Answer(c))
  BY <1>1, <1>5, <1>9
<1> QED
  BY <1>6, <1>7, <1>10

\* Why a client may have ended with what it has.
Excused(c) ==
  \/ response[c] = Answer(c)
  \/ c \in unforked
  \/ \E p \in Procs : ppc[p] = "dead" /\ sock[p] = c
  \/ \A p \in Procs : ~Live(p)

LEMMA ResponseKept ==
  ASSUME TypeOK, Places, Flows, Fates, ResponseExact, [Next]_vars
  PROVE  ResponseExact'
<1>1. TypeOK' /\ Flows'
  BY StepKeeps
<1>2. \A c \in Clients : IsPrefix(response'[c], Answer(c)')
  <2>1. TypeOK' /\ Flows' => (\A c \in Clients : IsPrefix(response[c], Answer(c)))'
    BY ResponsePrefix, PTL
  <2> QED
    BY <1>1, <2>1
<1>3. ASSUME NEW c \in Clients, cpc'[c] = "done"
      PROVE  Excused(c)'
  <2>1. cpc[c] = "done" => Excused(c)
    BY DEF ResponseExact, Excused
  <2>2. CASE UNCHANGED vars
    BY <1>3, <2>1, <2>2 DEF vars, Excused, Answer, Live
  <2>3. ASSUME NEW p \in Procs, ServerActs(p)
        PROVE  Excused(c)'
    <3>1. UNCHANGED <<ask, cpc, response>> /\ Live(p) /\ unforked \subseteq unforked'
      BY <2>3 DEF ServerActs, AcceptNoRoom, ChildDies, Accept, ForkChild, NoChild, ReadSome, ReadEnd,
                  PrintDir, FinishClient, EndAnswer, Moves, Live, clientVars
    <3>2. \A r \in Procs : ppc[r] = "dead" => ppc'[r] = "dead" /\ sock'[r] = sock[r]
      <4>1. CASE \E q \in Procs : ForkChild(p, q)
        BY <4>1 DEF ForkChild, TypeOK
      <4>2. CASE ~ \E q \in Procs : ForkChild(p, q)
        <5>1. ppc[p] # "dead"
          BY <3>1 DEF Live
        <5>2. \A r \in Procs \ {p} : ppc'[r] = ppc[r] /\ sock'[r] = sock[r]
          BY <2>3, <4>2 DEF ServerActs, AcceptNoRoom, ChildDies, Accept, NoChild, ReadSome, ReadEnd,
                            PrintDir, FinishClient, EndAnswer, Moves, Exit, PGoto, TypeOK
        <5> QED
          BY <5>1, <5>2
      <4> QED
        BY <4>1, <4>2
    <3>3. Excused(c)
      BY <1>3, <2>1, <3>1
    <3>4. Answer(c)' = Answer(c)
      BY <3>1 DEF Answer
    <3> QED
      BY <3>1, <3>2, <3>3, <3>4 DEF Excused
  <2>4. ASSUME NEW d \in Clients, ClientActs(d)
        PROVE  Excused(c)'
    <3>1. UNCHANGED <<ppc, sock, unforked, ask, holders>>
      BY <2>4 DEF ClientActs, Connect, Send, Receive, KillClient, serverVars
    <3>2. Answer(c)' = Answer(c) /\ \A r : Live(r)' <=> Live(r)
      BY <3>1 DEF Answer, Live
    <3>3. CASE cpc[c] = "done" /\ response'[c] = response[c]
      BY <2>1, <3>1, <3>2, <3>3 DEF Excused
    <3>4. CASE ~ (cpc[c] = "done" /\ response'[c] = response[c])
      <4>1. Receive(d) /\ d = c
        BY <1>3, <2>4, <3>4 DEF ClientActs, Connect, Send, Receive, KillClient, TypeOK
      <4>2. CASE HungUp(c) /\ downstream[c] = << >> /\ UNCHANGED response
        <5>1. ~Waits(c) /\ \A r \in Procs : Serves(r) => sock[r] # c
          BY <4>2 DEF HungUp, Waits, Places
        <5>2. Written(c) # Len(Answer(c))
          <6>1. Len(downstream[c]) = 0
            BY <4>2
          <6>2. Got(c) < Len(Answer(c)) /\ Got(c) \in Nat /\ Len(Answer(c)) \in Nat
            BY <4>1, MessageLemma DEF Receive, Flows, TypeOK, Got
          <6> QED
            BY <6>1, <6>2 DEF Written
        <5>3. \A r \in Procs : sock[r] = c => ppc[r] = "dead"
          <6> SUFFICES ASSUME NEW r \in Procs, sock[r] = c PROVE ppc[r] = "dead"
            OBVIOUS
          <6>1. c # Nobody
            BY DEF Clients, Nobody
          <6>2. ppc[r] \notin {"unborn", "accept"}
            BY <6>1 DEF Places
          <6> QED
            BY <5>1, <6>2 DEF Serves, TypeOK
        <5> QED
          BY <3>1, <3>2, <4>1, <5>1, <5>2, <5>3 DEF Excused, Fates, Receive
      <4>3. ASSUME NEW n \in 1 .. Len(downstream[c]),
                   response' = [response EXCEPT ![c] = response[c] \o SubSeq(downstream[c], 1, n)],
                   cpc' = [cpc EXCEPT ![c] =
                     IF Last(response[c] \o SubSeq(downstream[c], 1, n)) = NUL THEN "done" ELSE @]
            PROVE  response'[c] = Answer(c)
        <5>1. response'[c] = response[c] \o SubSeq(downstream[c], 1, n)
          BY <4>3 DEF TypeOK
        <5>2. cpc[c] # "done"
          BY <4>1 DEF Receive
        <5>3. Last(response[c] \o SubSeq(downstream[c], 1, n)) = NUL
          BY <1>3, <4>3, <5>2 DEF TypeOK
        <5> QED
          BY <5>1, <5>3, EndsWhole
      <4> QED
        BY <3>2, <4>1, <4>2, <4>3 DEF Receive, Excused
    <3> QED
      BY <3>3, <3>4
  <2> QED
    BY <2>2, <2>3, <2>4, StepCases
<1> QED
  BY <1>2, <1>3 DEF ResponseExact, Excused

-----------------------------------------------------------------------------
(* The invariant.                                                          *)

LEMMA InitHolds ==
  Init => IInv
<1> SUFFICES ASSUME Init PROVE IInv
  OBVIOUS
<1>1. Root \in Procs /\ Live(Root) /\ \A p \in Procs : Live(p) => p = Root
  BY LimitsAssumption DEF Init, Root, Procs, Live
<1>2. \A c \in Clients : c # Nobody
  BY DEF Clients, Nobody
<1>3. \A p \in Procs : Fds(p) = 0
  <2>1. \A p \in Procs : {c \in Clients : p \in holders[c]} = {}
    BY DEF Init
  <2> QED
    BY <2>1, FS_EmptySet DEF Fds
<1>4. TypeOK
  <2>1. \A p \in Procs : Fds(p) <= FdRoom
    BY <1>3, LimitsAssumption
  <2>2. << >> \in Seq(Token) /\ << >> \in Seq(Clients)
    OBVIOUS
  <2> QED
    BY <2>1, <2>2 DEF Init, TypeOK
<1>5. \A c \in Clients : ~Waits(c)
  BY DEF Init, Waits
<1>6. Places
  <2>1. \A j, k \in DOMAIN pending : pending[j] = pending[k] => j = k
    BY DEF Init
  <2>2. \A p, q \in Procs : sock[p] = sock[q] /\ sock[p] # Nobody => p = q
    BY DEF Init
  <2>3. \A p \in Procs :
          /\ ppc[p] \in {"unborn", "accept"} => sock[p] = Nobody
          /\ Serves(p) => sock[p] \in Clients /\ p \in holders[sock[p]]
          /\ ppc[p] \in {"unborn", "accept", "fork"} => request[p] = << >>
    BY DEF Init, Serves
  <2>4. \A c \in Clients :
          /\ \A p \in holders[c] : Live(p)
          /\ Waits(c) => holders[c] = {}
          /\ Waits(c) \/ c \in unforked => \A p \in Procs : sock[p] # c
          /\ Waits(c) => c \notin unforked
    BY <1>5 DEF Init
  <2> QED
    BY <1>1, <2>1, <2>2, <2>3, <2>4 DEF Places
<1>7. \A c \in Clients :
        /\ Answer(c) \in Seq(Token) /\ Message(c) \in Seq(Token)
        /\ Len(Answer(c)) \in Nat \ {0} /\ Len(Message(c)) \in Nat \ {0}
  BY <1>4, MessageLemma DEF TypeOK
<1>8. \A c \in Clients : Got(c) = 0 /\ Written(c) = 0
  BY DEF Init, Got, Written
<1>9. Flows
  <2>1. ASSUME NEW c \in Clients
        PROVE  /\ Waits(c) \/ cpc[c] \in {"off", "failed"} => Unread(c, 0)
               /\ sent[c] <= Len(Message(c))
               /\ cpc[c] \in {"off", "send", "failed"} => sent[c] < Len(Message(c))
               /\ Written(c) <= Len(Answer(c))
               /\ response[c] = SubSeq(Answer(c), 1, Got(c))
               /\ downstream[c] = SubSeq(Answer(c), Got(c) + 1, Written(c))
               /\ cpc[c] \in {"send", "receive"} => Got(c) < Len(Answer(c))
    <3>1. SubSeq(Answer(c), 1, 0) = << >> /\ SubSeq(Message(c), 1, 0) = << >>
      BY <1>7, SubSeqEmpty
    <3>2. Unread(c, 0)
      BY <3>1 DEF Unread, Init
    <3>3. sent[c] = 0 /\ response[c] = << >> /\ downstream[c] = << >> /\ cpc[c] = "off"
      BY DEF Init
    <3> QED
      BY <1>7, <1>8, <3>1, <3>2, <3>3
  <2>2. \A p \in Procs : ppc[p] \notin {"fork", "read", "list"}
    BY DEF Init
  <2> QED
    BY <2>1, <2>2 DEF Flows
<1>10. Fates
  BY <1>2, <1>5 DEF Fates, Init
<1>11. Errnos
  BY DEF Errnos, Init
<1>12. ResponseExact
  <2>1. \A c \in Clients : IsPrefix(response[c], Answer(c))
    BY <1>4, <1>9, ResponsePrefix
  <2>2. \A c \in Clients : cpc[c] # "done"
    BY DEF Init
  <2> QED
    BY <2>1, <2>2 DEF ResponseExact
<1>13. ServiceRemains
  <2>1. {c \in Clients : Root \in holders[c] /\ c # sock[Root]} = {}
    BY DEF Init
  <2>2. Cardinality({c \in Clients : Root \in holders[c] /\ c # sock[Root]}) < FdRoom
    BY <2>1, FS_EmptySet, LimitsAssumption
  <2> QED
    BY <1>1, <2>2 DEF ServiceRemains
<1> QED
  BY <1>4, <1>6, <1>9, <1>10, <1>11, <1>12, <1>13 DEF IInv

LEMMA NextKeeps ==
  IInv /\ [Next]_vars => IInv'
<1> SUFFICES ASSUME IInv, [Next]_vars PROVE IInv'
  OBVIOUS
<1>1. TypeOK /\ Places /\ Flows /\ Fates /\ Errnos /\ ResponseExact /\ ServiceRemains
  BY DEF IInv
<1>2. TypeOK' /\ Places' /\ Flows' /\ Fates'
  BY <1>1, StepKeeps
<1>3. Errnos' /\ ResponseExact' /\ ServiceRemains'
  BY <1>1, ErrnosKept, ResponseKept, ServiceKept
<1> QED
  BY <1>2, <1>3 DEF IInv

\* A connection that waits for its answer has not been dealt with, and the
\* process that has it has not ended, or nobody would hold it any more.
LEMMA Attended ==
  IInv => NobodyAbandoned
<1> SUFFICES ASSUME IInv, NEW c \in Clients, cpc[c] = "receive", downstream[c] = << >>,
                    ~HungUp(c), c \notin unforked, ~Waits(c)
             PROVE  \E p \in Procs : Live(p) /\ sock[p] = c
  BY DEF NobodyAbandoned, Waits
<1>1. TypeOK /\ Places /\ Flows /\ Fates
  BY DEF IInv
<1>2. Written(c) # Len(Answer(c))
  <2>1. Len(downstream[c]) = 0
    OBVIOUS
  <2>2. Got(c) < Len(Answer(c)) /\ Got(c) \in Nat /\ Len(Answer(c)) \in Nat
    BY <1>1, MessageLemma DEF Flows, TypeOK, Got
  <2> QED
    BY <2>1, <2>2 DEF Written
<1>3. holders[c] # {} /\ \E p \in Procs : p \in holders[c] /\ Live(p)
  BY <1>1 DEF HungUp, Waits, Places, TypeOK
<1>4. PICK p \in Procs : sock[p] = c
  BY <1>1, <1>2, <1>3 DEF Fates
<1>5. ppc[p] \notin {"unborn", "dead"}
  <2>1. c # Nobody
    BY DEF Clients, Nobody
  <2> QED
    BY <1>1, <1>4, <2>1 DEF Places, Fates, Gone
<1> QED
  BY <1>4, <1>5 DEF Live

\* Every reachable state satisfies IInv: a connection is in one place, what is
\* still to read is what has not been read, and errno is clean until a fork()
\* fails or a client is killed (client.c:22-66, server.c:34-114).
THEOREM DirServerInvariant ==
  Spec => []IInv
BY InitHolds, NextKeeps, PTL DEF Spec

\* However many clients there are and however the streams are cut, a client
\* has a beginning of its own answer, and the whole of it when it ends, unless
\* its fork() failed, its process died or the service ended (server.c:62-85,
\* client.c:52-63).
THEOREM DirServerResponseExact ==
  Spec => []ResponseExact
<1>1. IInv => ResponseExact
  BY DEF IInv
<1> QED
  BY <1>1, DirServerInvariant, PTL

\* As long as no fork() fails and no client is killed, some process keeps
\* fewer descriptors than it has room for, however many clients have come
\* (server.c:92-114).
THEOREM DirServerServiceRemains ==
  Spec => []ServiceRemains
<1>1. IInv => ServiceRemains
  BY DEF IInv
<1> QED
  BY <1>1, DirServerInvariant, PTL

\* A client that waits for its answer is in the queue or has a live process
\* at work for it, unless its fork() failed (server.c:92-114).
THEOREM DirServerNobodyAbandoned ==
  Spec => []NobodyAbandoned
BY Attended, DirServerInvariant, PTL

=============================================================================
