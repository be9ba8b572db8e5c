-------------------------- MODULE SharedParamProofs --------------------------
(***************************************************************************)
(* What every run with shared memory or a mapped file keeps, for any       *)
(* number of servers and clients, any set of command lines and any number  *)
(* of rounds: IInv of SharedParam is an invariant, and with it             *)
(* OneServerPerFile, ServerPrintsOwn, ClientNotBehind and SameWordsMeet.   *)
(*                                                                         *)
(* A region is changed by whoever has it to itself.  OneServerPerFile is   *)
(* what makes Written inductive: a server's region is written by no other  *)
(* server.                                                                 *)
(***************************************************************************)
EXTENDS SharedParam, TLAPS

-----------------------------------------------------------------------------
(* One letter: what getopt() returns once, both programs read alike.       *)

\* A fold over one letter is one step.
LEMMA ParseOneLetter ==
  ASSUME NEW line, NEW taking, NEW passed, OneKey(line)
  PROVE  LET begin == [key |-> "none", optind |-> 1, at |-> 0, word |-> Environment]
             p == Letters(line)[1]
             end == IF begin.key # "refused" /\ Scanned(begin, p[1], p[2])
                    THEN OneLetter(line, taking, passed, begin, p[1], p[2])
                    ELSE begin
         IN  Parse(line, taking, passed) =
               IF end.key \in {"none", "refused"} THEN Refused
               ELSE [key |-> end.key, word |-> end.word]
<1> DEFINE begin == [key |-> "none", optind |-> 1, at |-> 0, word |-> Environment]
           step(st, p) == IF st.key # "refused" /\ Scanned(st, p[1], p[2])
                          THEN OneLetter(line, taking, passed, st, p[1], p[2])
                          ELSE st
           q == Letters(line)
           iter == CHOOSE g : g = [s \in SUBSET {1} |->
                     IF s = {} THEN begin
                     ELSE step(g[s \ {Max(s)}], q[Max(s)])]
<1>1. DOMAIN q = {1}
  BY DEF OneKey
<1>2. FoldLeft(LAMBDA st, p : IF st.key # "refused" /\ Scanned(st, p[1], p[2])
                              THEN OneLetter(line, taking, passed, st, p[1], p[2])
                              ELSE st, begin, q) = iter[{1}]
  BY <1>1, Zenon DEF FoldLeft, MapThenFoldSet
<1> DEFINE F(g) == [s \in SUBSET {1} |->
                     IF s = {} THEN begin ELSE step(g[s \ {Max(s)}], q[Max(s)])]
           found == [s \in SUBSET {1} |-> IF s = {} THEN begin ELSE step(begin, q[1])]
<1> HIDE DEF begin, step, q, iter
<1>3. /\ {} \in SUBSET {1} /\ {1} \in SUBSET {1} /\ {1} # {}
      /\ \A s \in SUBSET {1} : s # {} => s = {1}
  OBVIOUS
<1>4. Max({1}) = 1
  BY DEF Max
<1>5. {1} \ {1} = {}
  OBVIOUS
<1>6. ASSUME NEW g
      PROVE  F(g)[{}] = begin /\ F(g)[{1}] = step(g[{}], q[1])
  <2>1. F(g)[{1}] = step(g[{1} \ {Max({1})}], q[Max({1})])
    BY <1>3
  <2>2. F(g)[{}] = begin
    BY <1>3
  <2> QED
    BY <2>1, <2>2, <1>4, <1>5
<1>7. found[{}] = begin /\ found[{1}] = step(begin, q[1])
  BY <1>3
<1>8. \A s \in SUBSET {1} : F(found)[s] = found[s]
  <2> TAKE s \in SUBSET {1}
  <2>1. CASE s = {}
    BY <2>1, <1>6, <1>7
  <2>2. CASE s = {1}
    BY <2>2, <1>6, <1>7
  <2> QED
    BY <2>1, <2>2, <1>3
<1>9. found = F(found)
  BY <1>8
<1>10. iter = F(iter)
  BY <1>9 DEF iter
<1>11. iter[{}] = begin /\ iter[{1}] = step(iter[{}], q[1])
  <2> HIDE DEF F
  <2> QED
    BY <1>6, <1>10
<1> QED
  BY <1>2, <1>11 DEF Parse, begin, step, q

\* What the key f makes of one letter, for whoever takes its word.
LEMMA OneLetterWord ==
  ASSUME NEW line, NEW taking, NEW passed, OneKey(line),
         Parse(line, taking, passed).key = "f", "f" \in taking
  PROVE  LET p == Letters(line)[1]
             optind == OptindAfter(line, [key |-> "none", optind |-> 1, at |-> 0,
                                          word |-> Environment], p[1], p[2])
         IN  Parse(line, taking, passed).word =
               IF optind <= Len(line) THEN line[optind] ELSE Environment
<1> DEFINE begin == [key |-> "none", optind |-> 1, at |-> 0, word |-> Environment]
           p == Letters(line)[1]
           optind == OptindAfter(line, begin, p[1], p[2])
           end == IF begin.key # "refused" /\ Scanned(begin, p[1], p[2])
                  THEN OneLetter(line, taking, passed, begin, p[1], p[2])
                  ELSE begin
<1>1. Parse(line, taking, passed) =
        IF end.key \in {"none", "refused"} THEN Refused
        ELSE [key |-> end.key, word |-> end.word]
  BY ParseOneLetter
<1> HIDE DEF end
<1>2. Refused.key = "refused"
  BY DEF Refused
<1>3. end.key = "f" /\ Parse(line, taking, passed).word = end.word
  BY <1>1, <1>2
<1>4. end = OneLetter(line, taking, passed, begin, p[1], p[2])
  BY <1>3 DEF end
<1> HIDE DEF p
<1>5. end.word = IF optind <= Len(line) THEN line[optind] ELSE Environment
  <2> HIDE DEF optind
  <2> QED
    BY <1>3, <1>4 DEF OneLetter, optind
<1> QED
  BY <1>3, <1>5 DEF p

\* Both programs make the same word of a key f that comes alone.
LEMMA SameWordRead ==
  ASSUME NEW line, OneKey(line),
         ParseFlag(line).key = "f", ParseFlagCl(line).key = "f"
  PROVE  ParseFlag(line).word = ParseFlagCl(line).word
  BY OneLetterWord DEF ParseFlag, ParseFlagCl

\* No words, no key.
LEMMA NoWordsNoKey == ~ OneKey(<<>>)
<1> DEFINE list(line) == [k \in DOMAIN line |-> [j \in DOMAIN line[k].letters |-> <<k, j>>]]
<1>1. list(<<>>) = <<>>
  OBVIOUS
<1>2. Letters(<<>>) = FlattenSeq(list(<<>>))
  BY DEF Letters
<1>3. FlattenSeq(<<>>) = <<>>
  BY DEF FlattenSeq
<1> QED
  BY <1>1, <1>2, <1>3 DEF OneKey

-----------------------------------------------------------------------------
(* What follows from the invariant about the state itself.                 *)

\* The words that name a file are a command line that asks for it.
LEMMA ToldFiles ==
  /\ \A told \in ServerFiles : /\ told.word.text \in Files
                               /\ told.words \in Lines
                               /\ ParseFlag(told.words).key = "f"
                               /\ told.word = ParseFlag(told.words).word
  /\ \A told \in ClientFiles : /\ told.word.text \in Files
                               /\ told.words \in Lines
                               /\ ParseFlagCl(told.words).key = "f"
                               /\ told.word = ParseFlagCl(told.words).word
<1>1. ASSUME NEW told \in ServerFiles
      PROVE  /\ told.word.text \in Files
             /\ told.words \in Lines
             /\ ParseFlag(told.words).key = "f"
             /\ told.word = ParseFlag(told.words).word
  BY DEF Files, ServerFiles, Told
<1>2. ASSUME NEW told \in ClientFiles
      PROVE  /\ told.word.text \in Files
             /\ told.words \in Lines
             /\ ParseFlagCl(told.words).key = "f"
             /\ told.word = ParseFlagCl(told.words).word
  BY DEF Files, ClientFiles, Told
<1> QED
  BY <1>1, <1>2

\* A server that lives has a region.
LEMMA LivingHasRegion ==
  ASSUME TypeOK, Placed, NEW s \in Servers, pc[s] \in Living
  PROVE  where[s] \in Regions
<1>1. where[s] \in Regions \union {None} /\ where[s] # None
  BY DEF TypeOK, Placed
<1> QED
  BY <1>1

\* Its lock, or the segment being its own, keeps every other server out.
LEMMA PlacedAlone ==
  ASSUME TypeOK, Placed
  PROVE  OneServerPerFile
<1> SUFFICES ASSUME NEW s \in Servers, NEW t \in Servers,
                    Writing(s), Writing(t), where[s] = where[t]
             PROVE  s = t
  BY DEF OneServerPerFile
<1>1. where[s] \in Regions
  BY LivingHasRegion DEF Writing, Living, Loop
<1>2. CASE where[s] \in Servers
  BY <1>2 DEF Placed
<1>3. CASE where[s] \in Files
  BY <1>3 DEF Placed
<1> QED
  BY <1>1, <1>2, <1>3 DEF Regions

\* Who was given the words of a server reads its file.
LEMMA NamedMeet ==
  ASSUME TypeOK, Placed, Named
  PROVE  SameWordsMeet
<1> SUFFICES ASSUME NEW s \in Servers, NEW c \in Clients,
                    Writing(s), words[c] = words[s], OneKey(words[s])
             PROVE  from[c] = where[s] /\ holder[from[c]] = s
  BY DEF SameWordsMeet
<1>1. words[s] # <<>>
  BY NoWordsNoKey
<1>2. PICK told \in ServerFiles : words[s] = told.words /\ where[s] = told.word.text
  BY <1>1 DEF Named
<1>3. PICK heard \in ClientFiles : words[c] = heard.words /\ from[c] = heard.word.text
  BY <1>1 DEF Named
<1>4. told.word = heard.word
  <2>1. /\ told.word = ParseFlag(words[s]).word /\ ParseFlag(words[s]).key = "f"
        /\ heard.word = ParseFlagCl(words[s]).word /\ ParseFlagCl(words[s]).key = "f"
    BY <1>2, <1>3, ToldFiles
  <2> QED
    BY <2>1, SameWordRead
<1>5. where[s] \in Files
  BY <1>2, ToldFiles
<1>6. holder[where[s]] = s
  BY <1>5 DEF Placed
<1> QED
  BY <1>2, <1>3, <1>4, <1>6

-----------------------------------------------------------------------------
(* What a step does to the region it writes.                               *)

RegionMap == [Regions -> [exists : BOOLEAN, sized : BOOLEAN, held : Held]]

\* Everything but what is in r.
Elsewhere(r) ==
  /\ \A q \in Regions \ {r} : region'[q] = region[q]
  /\ region'[r].exists = region[r].exists /\ region'[r].sized = region[r].sized

LEMMA WriteStart ==
  ASSUME region \in RegionMap, NEW s \in Servers, where[s] \in Regions,
         Write(s, "start", s)
  PROVE  /\ region' \in RegionMap /\ Elsewhere(where[s])
         /\ LET old == region[where[s]].held
                new == region'[where[s]].held
            IN new.start = s /\ new.work = old.work /\ new.load = old.load
  BY DEF Write, RegionMap, Held, Elsewhere

LEMMA WriteWork ==
  ASSUME region \in RegionMap, NEW s \in Servers, where[s] \in Regions,
         NEW v \in Field, Write(s, "work", v)
  PROVE  /\ region' \in RegionMap /\ Elsewhere(where[s])
         /\ LET old == region[where[s]].held
                new == region'[where[s]].held
            IN new.start = old.start /\ new.work = v /\ new.load = old.load
  BY DEF Write, RegionMap, Held, Elsewhere

LEMMA WriteLoad ==
  ASSUME region \in RegionMap, NEW s \in Servers, where[s] \in Regions,
         NEW v \in Field, Write(s, "load", v)
  PROVE  /\ region' \in RegionMap /\ Elsewhere(where[s])
         /\ LET old == region[where[s]].held
                new == region'[where[s]].held
            IN new.start = old.start /\ new.work = old.work /\ new.load = v
  BY DEF Write, RegionMap, Held, Elsewhere

\* The steps that change no value in any region.
Quiet(s) ==
  \/ MakeSegment(s) \/ OpenFile(s) \/ LockFile(s) \/ Truncate(s)
  \/ PrintParam(s) \/ Die(s) \/ Kill(s)

LEMMA HeldKept ==
  ASSUME TypeOK, Placed, NEW s \in Servers, Quiet(s)
  PROVE  /\ region' \in RegionMap
         /\ \A q \in Regions : /\ region'[q].held = region[q].held
                              /\ region'[q].sized \in {region[q].sized, TRUE}
<1>1. region \in RegionMap
  BY DEF TypeOK, RegionMap
<1>2. CASE MakeSegment(s)
  <2>1. s \in Regions
    BY DEF Regions
  <2>2. region' = [region EXCEPT ![s].exists = TRUE, ![s].sized = TRUE]
    BY <1>2 DEF MakeSegment
  <2> QED
    BY <1>1, <2>1, <2>2 DEF RegionMap
<1>3. CASE OpenFile(s)
  <2>1. PICK told \in ServerFiles : region' = [region EXCEPT ![told.word.text].exists = TRUE]
    BY <1>3 DEF OpenFile
  <2>2. told.word.text \in Regions
    BY ToldFiles DEF Regions
  <2> QED
    BY <1>1, <2>1, <2>2 DEF RegionMap
<1>4. CASE Truncate(s)
  <2>1. /\ region' = [region EXCEPT ![where[s]] = [region[where[s]] EXCEPT !.sized = TRUE]]
        /\ pc[s] \in Living
    BY <1>4 DEF Truncate, TruncateTo, Living
  <2>2. where[s] \in Regions
    BY <2>1, LivingHasRegion
  <2> QED
    BY <1>1, <2>1, <2>2 DEF RegionMap
<1>5. CASE LockFile(s) \/ PrintParam(s) \/ Die(s) \/ Kill(s)
  BY <1>1, <1>5 DEF LockFile, Lock, PrintParam, Die, Kill
<1> QED
  BY <1>2, <1>3, <1>4, <1>5 DEF Quiet

\* The steps of a client that change no region, nor anything of a server.
LEMMA ClientLeaves ==
  ASSUME NEW c \in Clients, ClientStep(c)
  PROVE  UNCHANGED <<region, serverVars>>
BY DEF ClientStep, AttachFile, AttachSegment, Attach, ReadField

-----------------------------------------------------------------------------
(* TypeOK.                                                                 *)

ServerTypes ==
  /\ pc \in [Servers -> {"off", "dead"} \union Living]
  /\ where \in [Servers -> Regions \union {None}]
  /\ holder \in [Files -> Servers \union {None}] /\ said \subseteq Servers
  /\ shown \in [Servers -> [work : Field, load : Field]]
  /\ clock \in 0..MaxClock

ClientTypes ==
  /\ cpc \in [Clients -> {"off", "refused", "read", "sigbus", "printed"}]
  /\ from \in [Clients -> Regions \union {None}]
  /\ atOpen \in [Clients -> Held]
  /\ got \in [Clients -> Copies]

WordTypes == words \in [Servers \union Clients -> Lines \union {<<>>}]

Sized ==
  \A s \in Servers : pc[s] \in {"ids"} \union Loop => region[where[s]].sized

LEMMA TypeParts ==
  TypeOK <=> region \in RegionMap /\ ServerTypes /\ ClientTypes /\ WordTypes /\ Sized
BY DEF TypeOK, RegionMap, ServerTypes, ClientTypes, WordTypes, Sized

\* The region keeps its type, whoever steps.
LEMMA RegionStep ==
  ASSUME TypeOK, Placed, NEW s \in Servers, ServerStep(s)
  PROVE  /\ region' \in RegionMap
         /\ \A q \in Regions : region[q].sized => region'[q].sized
<1>1. region \in RegionMap /\ clock \in 0..MaxClock
  BY DEF TypeOK, RegionMap
<1>2. CASE Quiet(s)
  BY <1>2, HeldKept
<1>3. CASE SetIds(s)
  <2>1. where[s] \in Regions /\ Write(s, "start", s)
    BY <1>3, LivingHasRegion DEF SetIds, Living
  <2> QED
    BY <1>1, <2>1, WriteStart DEF Elsewhere
<1>4. CASE SetWork(s)
  <2> DEFINE v == [at |-> clock + 1, by |-> s, since |-> region[where[s]].held.start]
  <2>1. where[s] \in Regions /\ Write(s, "work", v) /\ clock < MaxClock
    BY <1>4, LivingHasRegion DEF SetWork, Living, Loop
  <2>2. v \in Field
    BY <1>1, <2>1, SharedAssumption DEF Field, RegionMap, Held
  <2> HIDE DEF v
  <2> QED
    BY <1>1, <2>1, <2>2, WriteWork DEF Elsewhere
<1>5. CASE SetLoad(s)
  <2> DEFINE v == [at |-> clock, by |-> s, since |-> None]
  <2>1. where[s] \in Regions /\ Write(s, "load", v)
    BY <1>5, LivingHasRegion DEF SetLoad, Living, Loop
  <2>2. v \in Field
    BY <1>1 DEF Field
  <2> HIDE DEF v
  <2> QED
    BY <1>1, <2>1, <2>2, WriteLoad DEF Elsewhere
<1> QED
  BY <1>2, <1>3, <1>4, <1>5 DEF ServerStep, Quiet

LEMMA NothingTyped == Zero \in Field /\ Nothing \in [work : Field, load : Field] /\ Fresh \in Held
BY SharedAssumption DEF Zero, Field, Nothing, Fresh, Held

LEMMA ServerTypeStep ==
  ASSUME TypeOK, Placed, NEW s \in Servers, ServerStep(s)
  PROVE  ServerTypes'
<1>1. ServerTypes /\ region \in RegionMap
  BY TypeParts
<1> USE DEF Goto, Living, Loop
<1>2. CASE MakeSegment(s)
  BY <1>1, <1>2 DEF MakeSegment, ServerTypes, Regions
<1>3. CASE OpenFile(s)
  BY <1>1, <1>3, ToldFiles DEF OpenFile, ServerTypes, Regions
<1>4. CASE LockFile(s)
  BY <1>1, <1>4 DEF LockFile, Lock, ServerTypes
<1>5. ASSUME End(s) PROVE UNCHANGED said \/ said' = said \union {s} => ServerTypes'
  BY <1>1, <1>5, NothingTyped DEF End, ServerTypes
<1>6. CASE Truncate(s)
  BY <1>1, <1>5, <1>6 DEF Truncate, TruncateTo, ServerTypes
<1>7. CASE SetIds(s)
  BY <1>1, <1>7 DEF SetIds, ServerTypes
<1>8. CASE SetWork(s)
  BY <1>1, <1>8, SharedAssumption DEF SetWork, ServerTypes
<1>9. CASE SetLoad(s)
  BY <1>1, <1>9 DEF SetLoad, ServerTypes
<1>10. CASE PrintParam(s)
  <2>1. where[s] \in Regions
    BY <1>10, LivingHasRegion DEF PrintParam
  <2>2. /\ region[where[s]].held.work \in Field
        /\ region[where[s]].held.load \in Field
    BY <1>1, <2>1 DEF RegionMap, Held
  <2> QED
    BY <1>1, <1>10, <2>2 DEF PrintParam, ServerTypes
<1>11. CASE Die(s) \/ Kill(s)
  BY <1>5, <1>11 DEF Die, Kill
<1> QED
  BY <1>2, <1>3, <1>4, <1>6, <1>7, <1>8, <1>9, <1>10, <1>11 DEF ServerStep

LEMMA ClientTypeStep ==
  ASSUME TypeOK, Seen, NEW c \in Clients, ClientStep(c)
  PROVE  ClientTypes' /\ WordTypes'
<1>1. ClientTypes /\ WordTypes /\ region \in RegionMap
  BY TypeParts
<1>2. ASSUME NEW line \in Lines \union {<<>>}, NEW r \in Regions, Attach(c, line, r)
      PROVE  ClientTypes' /\ WordTypes'
  <2>1. region[r].held \in Held
    BY <1>1 DEF RegionMap
  <2>2. WordTypes'
    BY <1>1, <1>2 DEF Attach, WordTypes
  <2> QED
    BY <1>1, <1>2, <2>1, <2>2 DEF Attach, ClientTypes
<1>3. CASE AttachFile(c)
  <2>1. PICK told \in ClientFiles : Attach(c, told.words, told.word.text)
    BY <1>3 DEF AttachFile
  <2>2. told.words \in Lines /\ told.word.text \in Regions
    BY ToldFiles DEF Regions
  <2> QED
    BY <1>2, <2>1, <2>2
<1>4. CASE AttachSegment(c)
  <2>1. PICK r \in Servers : Attach(c, <<>>, r)
    BY <1>4 DEF AttachSegment
  <2> QED
    BY <1>2, <2>1 DEF Regions
<1>5. ASSUME NEW f \in {"work", "load"}, ReadField(c, f)
      PROVE  ClientTypes' /\ WordTypes'
  <2>1. from[c] \in Regions
    BY <1>5 DEF ReadField, Seen
  <2>2. region[from[c]].held[f] \in Field
    BY <1>1, <2>1 DEF RegionMap, Held
  <2> DEFINE more == [g \in DOMAIN got[c] \union {f} |->
                        IF g = f THEN region[from[c]].held[f] ELSE got[c][g]]
  <2>3. PICK fs \in SUBSET {"work", "load"} : got[c] \in [fs -> Field]
    BY <1>1 DEF ClientTypes, Copies
  <2>4. more \in [fs \union {f} -> Field]
    BY <2>2, <2>3
  <2>5. more \in Copies
    BY <2>4 DEF Copies
  <2>6. got' \in [Clients -> Copies]
    <3>1. got' = got \/ got' = [got EXCEPT ![c] = more]
      BY <1>5 DEF ReadField
    <3> HIDE DEF more
    <3> QED
      BY <1>1, <2>5, <3>1 DEF ClientTypes
  <2>7. cpc' \in [Clients -> {"off", "refused", "read", "sigbus", "printed"}]
    BY <1>1, <1>5 DEF ReadField, ClientTypes
  <2>8. UNCHANGED <<from, atOpen, words>>
    BY <1>5 DEF ReadField
  <2> QED
    BY <1>1, <2>6, <2>7, <2>8 DEF ClientTypes, WordTypes
<1> QED
  BY <1>3, <1>4, <1>5 DEF ClientStep

LEMMA ServerWordStep ==
  ASSUME TypeOK, NEW s \in Servers, ServerStep(s)
  PROVE  UNCHANGED clientVars /\ WordTypes'
<1>1. WordTypes
  BY TypeParts
<1>2. \/ UNCHANGED words \/ words' = [words EXCEPT ![s] = <<>>]
      \/ \E line \in Lines : words' = [words EXCEPT ![s] = line]
  BY ToldFiles DEF ServerStep, MakeSegment, OpenFile, LockFile, Lock, Truncate, TruncateTo,
       End, SetIds, SetWork, SetLoad, PrintParam, Die, Kill
<1>3. UNCHANGED clientVars
  BY DEF ServerStep, MakeSegment, OpenFile, LockFile, Lock, Truncate, TruncateTo,
       End, SetIds, SetWork, SetLoad, PrintParam, Die, Kill
<1> QED
  BY <1>1, <1>2, <1>3 DEF WordTypes

\* A server's step changes nothing of another process.
LEMMA OthersStay ==
  ASSUME TypeOK, NEW s \in Servers, NEW t \in Servers, t # s, ServerStep(s)
  PROVE  pc'[t] = pc[t] /\ where'[t] = where[t] /\ shown'[t] = shown[t]
<1>1. ServerTypes
  BY TypeParts
<1> QED
  BY <1>1 DEF ServerTypes, ServerStep, Goto, MakeSegment, OpenFile, LockFile, Lock, Truncate, TruncateTo,
       End, SetIds, SetWork, SetLoad, PrintParam, Die, Kill

LEMMA SizedStep ==
  ASSUME TypeOK, Placed, NEW s \in Servers, ServerStep(s)
  PROVE  Sized'
<1>1. Sized /\ ServerTypes /\ region \in RegionMap
  BY TypeParts
<1>2. \A q \in Regions : region[q].sized => region'[q].sized
  BY RegionStep
<1> SUFFICES ASSUME NEW t \in Servers, pc'[t] \in {"ids"} \union Loop
             PROVE  region'[where'[t]].sized
  BY DEF Sized
<1>3. ASSUME pc[t] \in {"ids"} \union Loop, where'[t] = where[t]
      PROVE  region'[where'[t]].sized
  <2>1. where[t] \in Regions
    BY <1>3, LivingHasRegion DEF Living
  <2> QED
    BY <1>1, <1>2, <1>3, <2>1 DEF Sized
<1>4. CASE t # s
  BY <1>3, <1>4, OthersStay
<1>5. CASE t = s
  <2> USE <1>1, <1>5 DEF Goto
  <2>1. CASE MakeSegment(s)
    BY <2>1 DEF MakeSegment, ServerTypes, RegionMap, Regions
  <2>2. CASE Truncate(s)
    <3>1. where[s] \in Regions
      BY <2>2, LivingHasRegion DEF Truncate, TruncateTo, Living
    <3> QED
      BY <2>2, <3>1 DEF Truncate, TruncateTo, End, ServerTypes, RegionMap, Loop
  <2>3. CASE OpenFile(s) \/ LockFile(s) \/ Die(s) \/ Kill(s)
    BY <2>3 DEF OpenFile, LockFile, Lock, Die, Kill, End, ServerTypes, Loop
  <2>4. CASE SetIds(s) \/ SetWork(s) \/ SetLoad(s) \/ PrintParam(s)
    BY <2>4, <1>3 DEF SetIds, SetWork, SetLoad, PrintParam, Loop
  <2> QED
    BY <2>1, <2>2, <2>3, <2>4 DEF ServerStep
<1> QED
  BY <1>3, <1>4, <1>5

LEMMA TypeStep ==
  ASSUME TypeOK, Placed, Seen, Next
  PROVE  TypeOK'
<1>1. ASSUME NEW s \in Servers, ServerStep(s)
      PROVE  TypeOK'
  <2>1. ClientTypes'
    BY <1>1, ServerWordStep, TypeParts DEF ClientTypes, clientVars
  <2>2. region' \in RegionMap /\ ServerTypes' /\ WordTypes' /\ Sized'
    BY <1>1, RegionStep, ServerTypeStep, ServerWordStep, SizedStep
  <2> QED
    BY <2>1, <2>2 DEF TypeOK, RegionMap, ServerTypes, ClientTypes, WordTypes, Sized
<1>2. ASSUME NEW c \in Clients, ClientStep(c)
      PROVE  TypeOK'
  <2>1. region' \in RegionMap /\ ServerTypes' /\ Sized'
    BY <1>2, ClientLeaves, TypeParts DEF ServerTypes, Sized, serverVars
  <2>2. ClientTypes' /\ WordTypes'
    BY <1>2, ClientTypeStep
  <2> QED
    BY <2>1, <2>2 DEF TypeOK, RegionMap, ServerTypes, ClientTypes, WordTypes, Sized
<1> QED
  BY <1>1, <1>2 DEF Next

-----------------------------------------------------------------------------
(* The other parts of the invariant.                                       *)

LEMMA PlacedStep ==
  ASSUME TypeOK, Placed, NEW s \in Servers, ServerStep(s)
  PROVE  Placed'
<1>1. ServerTypes
  BY TypeParts
<1> DEFINE Here(t) ==
             /\ pc[t] \in Living <=> where[t] # None
             /\ where[t] \in Servers => where[t] = t /\ Writing(t)
             /\ (Writing(t) \/ pc[t] = "truncate") /\ where[t] \in Files => holder[where[t]] = t
<1>2. \A t \in Servers : Here(t)
  BY DEF Placed
<1>3. s # None /\ s \notin Files /\ None \notin Files /\ None \notin Servers
  BY NamesAssumption DEF Regions
<1>4. Here(s)'
  <2> USE <1>1, <1>2, <1>3 DEF Goto, Writing, Living, Loop
  <2>1. CASE MakeSegment(s)
    BY <2>1 DEF MakeSegment, ServerTypes
  <2>2. CASE OpenFile(s)
    <3>1. PICK told \in ServerFiles : where' = [where EXCEPT ![s] = told.word.text]
      BY <2>2 DEF OpenFile
    <3>2. told.word.text \in Files
      BY ToldFiles
    <3>3. where'[s] \in Files /\ where'[s] \notin Servers /\ where'[s] # None
      BY <3>1, <3>2, NamesAssumption DEF ServerTypes
    <3> QED
      BY <2>2, <3>3 DEF OpenFile, ServerTypes
  <2>3. CASE LockFile(s)
    BY <2>3 DEF LockFile, Lock, ServerTypes
  <2>4. CASE pc[s] = "truncate" /\ Truncate(s)
    BY <2>4 DEF Truncate, TruncateTo, ServerTypes
  <2>5. CASE End(s)
    BY <2>5 DEF End, ServerTypes
  <2>6. CASE SetIds(s)
    BY <2>6 DEF SetIds, ServerTypes
  <2>7. CASE SetWork(s)
    BY <2>7 DEF SetWork, ServerTypes
  <2>8. CASE SetLoad(s)
    BY <2>8 DEF SetLoad, ServerTypes
  <2>9. CASE PrintParam(s)
    BY <2>9 DEF PrintParam, ServerTypes
  <2> QED
    BY <2>1, <2>2, <2>3, <2>4, <2>5, <2>6, <2>7, <2>8, <2>9
       DEF ServerStep, Truncate, TruncateTo, Die, Kill
<1>5. ASSUME NEW t \in Servers, t # s
      PROVE  Here(t)'
  <2>1. pc'[t] = pc[t] /\ where'[t] = where[t]
    BY <1>5, OthersStay
  <2>2. ASSUME where[t] \in Files, holder[where[t]] = t
        PROVE  holder'[where[t]] = t
    <3>1. t # None
      BY NamesAssumption DEF Regions
    <3>2. \/ UNCHANGED holder
          \/ holder' = [holder EXCEPT ![where[s]] = IF holder[where[s]] = None THEN s ELSE @]
          \/ holder' = [f \in Files |-> IF holder[f] = s THEN None ELSE holder[f]]
      BY DEF ServerStep, Goto, MakeSegment, OpenFile, LockFile, Lock, Truncate, TruncateTo,
           End, SetIds, SetWork, SetLoad, PrintParam, Die, Kill
    <3> QED
      BY <1>1, <1>5, <2>2, <3>1, <3>2 DEF ServerTypes
  <2> QED
    BY <1>2, <2>1, <2>2 DEF Writing
<1> QED
  BY <1>4, <1>5 DEF Placed

\* A region is only ever written by a server that has it to itself.
LEMMA WrittenByOne ==
  ASSUME TypeOK, Placed, NEW s \in Servers, NEW t \in Servers, t # s,
         ServerStep(s), Writing(t)
  PROVE  region'[where[t]].held = region[where[t]].held
<1>1. region \in RegionMap /\ clock \in 0..MaxClock
  BY DEF TypeOK, RegionMap
<1>2. where[t] \in Regions
  BY LivingHasRegion DEF Writing, Living
<1>3. CASE Quiet(s)
  BY <1>2, <1>3, HeldKept
<1>4. CASE SetIds(s) \/ SetWork(s) \/ SetLoad(s)
  <2>1. Writing(s)
    BY <1>4 DEF SetIds, SetWork, SetLoad, Writing, Loop
  <2>2. where[s] # where[t]
    BY <2>1, PlacedAlone DEF OneServerPerFile
  <2>3. \E field, v : region' = [region EXCEPT ![where[s]].held[field] = v]
    BY <1>4 DEF SetIds, SetWork, SetLoad, Write
  <2> QED
    BY <1>1, <1>2, <2>2, <2>3 DEF RegionMap
<1> QED
  BY <1>3, <1>4 DEF ServerStep, Quiet

\* What a step of the server itself leaves in its region.
LEMMA WritesOwn ==
  ASSUME TypeOK, Placed, Written, NEW s \in Servers, ServerStep(s)
  PROVE  /\ \A q \in Regions : /\ region'[q].held.work.at \in region[q].held.work.at .. clock'
                              /\ region'[q].held.load.at \in region[q].held.load.at .. clock'
         /\ LET held == region'[where'[s]].held IN
            /\ pc'[s] \in Loop => held.start = s
            /\ pc'[s] \in {"load", "print"} => held.work.by = s /\ held.work.since = s
            /\ pc'[s] = "print" => held.load.by = s /\ held.load.at >= held.work.at
<1> DEFINE held == region[where[s]].held
           new == region'[where[s]].held
<1>1. /\ region \in RegionMap /\ clock \in 0..MaxClock /\ MaxClock \in Nat
      /\ ServerTypes
  BY SharedAssumption, TypeParts DEF ServerTypes
<1>2. \A q \in Regions : /\ region[q].held.work.at \in 0..clock
                        /\ region[q].held.load.at \in 0..clock
  BY <1>1 DEF Written, RegionMap, Held, Field
<1>3. /\ pc[s] \in Loop => held.start = s
      /\ pc[s] \in {"load", "print"} => held.work.by = s /\ held.work.since = s
  BY DEF Written
<1>4. CASE Quiet(s)
  <2>1. \A q \in Regions : region'[q].held = region[q].held
    BY <1>4, HeldKept
  <2>2. clock' = clock
    BY <1>4 DEF Quiet, MakeSegment, OpenFile, LockFile, Lock, Truncate, TruncateTo, PrintParam, Die, Kill, End
  <2>3. CASE PrintParam(s)
    <3>1. pc'[s] = "work" /\ where'[s] = where[s] /\ held.start = s
      BY <1>1, <1>3, <2>3 DEF PrintParam, Goto, ServerTypes, Loop
    <3>2. where[s] \in Regions
      BY <2>3, LivingHasRegion DEF PrintParam, Living, Loop
    <3> QED
      BY <1>2, <2>1, <2>2, <3>1, <3>2 DEF Loop
  <2>4. CASE ~ PrintParam(s)
    <3>1. pc'[s] \notin Loop
      BY <1>1, <1>4, <2>4 DEF Quiet, MakeSegment, OpenFile, LockFile, Lock, Truncate, TruncateTo,
           Die, Kill, End, Goto, ServerTypes, Loop
    <3> QED
      BY <1>2, <2>1, <2>2, <3>1 DEF Loop
  <2> QED
    BY <2>3, <2>4
<1>5. CASE SetIds(s)
  <2>1. /\ where[s] \in Regions /\ Write(s, "start", s)
        /\ clock' = clock /\ pc'[s] = "work" /\ where' = where
    BY <1>1, <1>5, LivingHasRegion DEF SetIds, Living, Goto, ServerTypes
  <2>2. /\ Elsewhere(where[s])
        /\ new.start = s /\ new.work = held.work /\ new.load = held.load
    BY <1>1, <2>1, WriteStart
  <2> QED
    BY <1>2, <2>1, <2>2 DEF Elsewhere, Loop
<1>6. CASE SetWork(s)
  <2> DEFINE v == [at |-> clock + 1, by |-> s, since |-> region[where[s]].held.start]
  <2>1. /\ where[s] \in Regions /\ Write(s, "work", v)
        /\ clock < MaxClock /\ clock' = clock + 1 /\ pc'[s] = "load" /\ where' = where
        /\ pc[s] \in Loop
    BY <1>1, <1>6, LivingHasRegion DEF SetWork, Living, Loop, Goto, ServerTypes
  <2>2. v \in Field /\ v.at = clock + 1 /\ v.by = s /\ v.since = s
    BY <1>1, <1>3, <2>1 DEF Field, RegionMap, Held
  <2> HIDE DEF v
  <2>3. /\ Elsewhere(where[s])
        /\ new.start = held.start /\ new.work = v /\ new.load = held.load
    BY <1>1, <2>1, <2>2, WriteWork
  <2>4. \A q \in Regions : /\ region'[q].held.work.at \in region[q].held.work.at .. clock'
                          /\ region'[q].held.load.at \in region[q].held.load.at .. clock'
    <3> TAKE q \in Regions
    <3>1. CASE q = where[s]
      BY <1>1, <1>2, <2>1, <2>2, <2>3, <3>1
    <3>2. CASE q # where[s]
      BY <1>1, <1>2, <2>1, <2>3, <3>2 DEF Elsewhere
    <3> QED
      BY <3>1, <3>2
  <2> QED
    BY <1>3, <2>1, <2>2, <2>3, <2>4 DEF Loop
<1>7. CASE SetLoad(s)
  <2> DEFINE v == [at |-> clock, by |-> s, since |-> None]
  <2>1. /\ where[s] \in Regions /\ Write(s, "load", v)
        /\ clock' = clock /\ pc'[s] = "print" /\ where' = where /\ pc[s] = "load"
    BY <1>1, <1>7, LivingHasRegion DEF SetLoad, Living, Loop, Goto, ServerTypes
  <2>2. v \in Field /\ v.at = clock /\ v.by = s
    BY <1>1 DEF Field
  <2> HIDE DEF v
  <2>3. /\ Elsewhere(where[s])
        /\ new.start = held.start /\ new.work = held.work /\ new.load = v
    BY <1>1, <2>1, <2>2, WriteLoad
  <2>4. \A q \in Regions : /\ region'[q].held.work.at \in region[q].held.work.at .. clock'
                          /\ region'[q].held.load.at \in region[q].held.load.at .. clock'
    <3> TAKE q \in Regions
    <3>1. CASE q = where[s]
      BY <1>1, <1>2, <2>1, <2>2, <2>3, <3>1
    <3>2. CASE q # where[s]
      BY <1>1, <1>2, <2>1, <2>3, <3>2 DEF Elsewhere
    <3> QED
      BY <3>1, <3>2
  <2>5. new.load.at >= new.work.at
    BY <1>1, <1>2, <2>1, <2>2, <2>3
  <2> QED
    BY <1>3, <2>1, <2>2, <2>3, <2>4, <2>5 DEF Loop
<1> QED
  BY <1>4, <1>5, <1>6, <1>7 DEF ServerStep, Quiet

LEMMA WrittenStep ==
  ASSUME TypeOK, Placed, Written, NEW s \in Servers, ServerStep(s)
  PROVE  Written'
<1>1. \A q \in Regions : region'[q].held.work.at <= clock' /\ region'[q].held.load.at <= clock'
  BY WritesOwn
<1> SUFFICES ASSUME NEW t \in Servers
             PROVE  LET held == region'[where'[t]].held IN
                    /\ pc'[t] \in Loop => held.start = t
                    /\ pc'[t] \in {"load", "print"} => held.work.by = t /\ held.work.since = t
                    /\ pc'[t] = "print" => held.load.by = t /\ held.load.at >= held.work.at
  BY <1>1 DEF Written
<1>2. CASE t = s
  BY <1>2, WritesOwn
<1>3. CASE t # s
  <2>1. pc'[t] = pc[t] /\ where'[t] = where[t]
    BY <1>3, OthersStay
  <2>2. pc[t] \in Loop => region'[where[t]].held = region[where[t]].held
    BY <1>3, WrittenByOne DEF Writing
  <2>3. {"load", "print"} \subseteq Loop
    BY DEF Loop
  <2> QED
    BY <2>1, <2>2, <2>3 DEF Written
<1> QED
  BY <1>2, <1>3

LEMMA SeenStep ==
  ASSUME TypeOK, Placed, Written, Seen, Next
  PROVE  Seen'
<1>1. region \in RegionMap /\ ClientTypes
  BY TypeParts
<1> DEFINE Old(c) ==
             /\ cpc[c] = "off" => got[c] = <<>>
             /\ cpc[c] # "off" =>
                  /\ from[c] \in Regions
                  /\ region[from[c]].held.work.at >= atOpen[c].work.at
                  /\ region[from[c]].held.load.at >= atOpen[c].load.at
<1>2. \A c \in Clients : Old(c)
  BY DEF Seen
<1>3. ASSUME NEW s \in Servers, ServerStep(s), NEW c \in Clients
      PROVE  Old(c)'
  <2>1. UNCHANGED <<cpc, from, atOpen, got>>
    BY <1>3, ServerWordStep DEF clientVars
  <2>2. ASSUME cpc[c] # "off"
        PROVE  /\ region'[from[c]].held.work.at >= atOpen[c].work.at
               /\ region'[from[c]].held.load.at >= atOpen[c].load.at
    <3>1. /\ from[c] \in Regions
          /\ region[from[c]].held.work.at >= atOpen[c].work.at
          /\ region[from[c]].held.load.at >= atOpen[c].load.at
      BY <1>2, <2>2
    <3>2. /\ region'[from[c]].held.work.at >= region[from[c]].held.work.at
          /\ region'[from[c]].held.load.at >= region[from[c]].held.load.at
      <4>1. /\ region'[from[c]].held.work.at \in region[from[c]].held.work.at .. clock'
            /\ region'[from[c]].held.load.at \in region[from[c]].held.load.at .. clock'
        BY <1>3, <3>1, WritesOwn, Zenon
      <4> QED
        BY <4>1
    <3>3. /\ atOpen[c].work.at \in Int /\ atOpen[c].load.at \in Int
          /\ region[from[c]].held.work.at \in Int /\ region[from[c]].held.load.at \in Int
      BY <1>1, <3>1 DEF ClientTypes, RegionMap, Held, Field
    <3>4. /\ region'[from[c]].held.work.at \in Int /\ region'[from[c]].held.load.at \in Int
      BY <1>3, <3>1, RegionStep DEF RegionMap, Held, Field
    <3> QED
      BY <3>1, <3>2, <3>3, <3>4
  <2> QED
    BY <1>2, <2>1, <2>2
<1>4. ASSUME NEW c \in Clients, NEW d \in Clients, ClientStep(d)
      PROVE  Old(c)'
  <2>1. UNCHANGED region
    BY <1>4, ClientLeaves
  <2>2. ASSUME NEW line, NEW r \in Regions, Attach(d, line, r)
        PROVE  Old(c)'
    <3>1. /\ region[r].held.work.at \in Int /\ region[r].held.load.at \in Int
      BY <1>1, <2>2 DEF RegionMap, Held, Field
    <3>2. CASE c = d
      <4>1. /\ cpc[c] = "off" /\ cpc'[c] # "off"
            /\ from'[c] = r /\ atOpen'[c] = region[r].held
        BY <1>1, <2>2, <3>2 DEF Attach, ClientTypes
      <4> QED
        BY <2>1, <3>1, <4>1
    <3>3. CASE c # d
      <4>1. /\ cpc'[c] = cpc[c] /\ from'[c] = from[c]
            /\ atOpen'[c] = atOpen[c] /\ got' = got
        BY <1>1, <2>2, <3>3 DEF Attach, ClientTypes
      <4> QED
        BY <1>2, <2>1, <4>1
    <3> QED
      BY <3>2, <3>3
  <2>3. CASE AttachFile(d)
    <3>1. PICK told \in ClientFiles : Attach(d, told.words, told.word.text)
      BY <2>3 DEF AttachFile
    <3>2. told.word.text \in Regions
      BY ToldFiles DEF Regions
    <3> QED
      BY <2>2, <3>1, <3>2
  <2>4. CASE AttachSegment(d)
    <3>1. PICK r \in Servers : Attach(d, <<>>, r)
      BY <2>4 DEF AttachSegment
    <3>2. r \in Regions
      BY DEF Regions
    <3> QED
      BY <2>2, <3>1, <3>2
  <2>5. ASSUME NEW f \in {"work", "load"}, ReadField(d, f)
        PROVE  Old(c)'
    <3>1. /\ UNCHANGED <<from, atOpen>> /\ cpc[d] = "read" /\ cpc'[d] # "off"
          /\ c # d => cpc'[c] = cpc[c] /\ got'[c] = got[c]
      BY <1>1, <2>5 DEF ReadField, ClientTypes
    <3> QED
      BY <1>2, <2>1, <3>1
  <2> QED
    BY <1>4, <2>3, <2>4, <2>5 DEF ClientStep
<1> QED
  BY <1>3, <1>4 DEF Next, Seen

LEMMA ClientNotBehindStep ==
  ASSUME TypeOK, Placed, Seen, ClientNotBehind, Next
  PROVE  ClientNotBehind'
<1>1. region \in RegionMap /\ ClientTypes
  BY TypeParts
<1>2. ASSUME NEW s \in Servers, ServerStep(s)
      PROVE  ClientNotBehind'
  BY <1>2, ServerWordStep DEF clientVars, ClientNotBehind
<1>3. ASSUME NEW d \in Clients, NEW line, NEW r, Attach(d, line, r)
      PROVE  ClientNotBehind'
  <2>1. got' = got /\ got[d] = <<>>
    BY <1>3 DEF Attach, Seen
  <2>2. \A c \in Clients : c # d => atOpen'[c] = atOpen[c]
    BY <1>1, <1>3 DEF Attach, ClientTypes
  <2> QED
    BY <2>1, <2>2 DEF ClientNotBehind
<1>4. ASSUME NEW d \in Clients, NEW f \in {"work", "load"}, ReadField(d, f)
      PROVE  ClientNotBehind'
  <2> DEFINE more == [g \in DOMAIN got[d] \union {f} |->
                        IF g = f THEN region[from[d]].held[f] ELSE got[d][g]]
  <2>1. /\ cpc[d] = "read" /\ atOpen' = atOpen
        /\ got' = got \/ got' = [got EXCEPT ![d] = more]
    BY <1>4 DEF ReadField
  <2>2. region[from[d]].held[f].at >= atOpen[d][f].at
    BY <2>1 DEF Seen
  <2>3. \A g \in DOMAIN more : more[g].at >= atOpen[d][g].at
    BY <2>2 DEF ClientNotBehind
  <2> HIDE DEF more
  <2> QED
    BY <1>1, <2>1, <2>3 DEF ClientNotBehind, ClientTypes
<1> QED
  BY <1>2, <1>3, <1>4 DEF Next, ClientStep, AttachFile, AttachSegment

LEMMA ServerPrintsOwnStep ==
  ASSUME TypeOK, Placed, Written, ServerPrintsOwn, Next
  PROVE  ServerPrintsOwn'
<1>1. ServerTypes
  BY TypeParts
<1> DEFINE Own(s) ==
             shown[s].work # Zero =>
               /\ shown[s].work.by = s /\ shown[s].work.since = s
               /\ shown[s].load.by = s /\ shown[s].load.at >= shown[s].work.at
<1>2. \A s \in Servers : Own(s)
  BY DEF ServerPrintsOwn
<1>3. ASSUME NEW c \in Clients, ClientStep(c)
      PROVE  ServerPrintsOwn'
  BY <1>2, <1>3, ClientLeaves DEF serverVars, ServerPrintsOwn
<1>4. ASSUME NEW s \in Servers, ServerStep(s)
      PROVE  Own(s)'
  <2>1. CASE PrintParam(s)
    <3> DEFINE held == region[where[s]].held
    <3>1. shown'[s] = [work |-> held.work, load |-> held.load] /\ pc[s] = "print"
      BY <1>1, <2>1 DEF PrintParam, ServerTypes
    <3>2. /\ held.work.by = s /\ held.work.since = s
          /\ held.load.by = s /\ held.load.at >= held.work.at
      BY <3>1 DEF Written, Loop
    <3> HIDE DEF held
    <3> QED
      BY <3>1, <3>2
  <2>2. CASE End(s)
    BY <1>1, <2>2 DEF End, ServerTypes, Nothing
  <2>3. CASE UNCHANGED shown
    BY <1>2, <2>3
  <2> QED
    BY <1>4, <2>1, <2>2, <2>3 DEF ServerStep, MakeSegment, OpenFile, LockFile, Lock,
       Truncate, TruncateTo, SetIds, SetWork, SetLoad, Die, Kill
<1>5. ASSUME NEW s \in Servers, ServerStep(s), NEW t \in Servers, t # s
      PROVE  Own(t)'
  BY <1>2, <1>5, OthersStay
<1> QED
  BY <1>3, <1>4, <1>5 DEF Next, ServerPrintsOwn

LEMMA NamedStep ==
  ASSUME TypeOK, Placed, Named, Next
  PROVE  Named'
<1>1. ServerTypes /\ ClientTypes /\ WordTypes
  BY TypeParts
<1> DEFINE ByWord(s) ==
             /\ words[s] # <<>> => \E told \in ServerFiles :
                                     words[s] = told.words /\ where[s] = told.word.text
             /\ pc[s] = "off" => words[s] = <<>>
           Heard(c) ==
             words[c] # <<>> => \E told \in ClientFiles :
                                  words[c] = told.words /\ from[c] = told.word.text
<1>2. /\ \A s \in Servers : ByWord(s)
      /\ \A c \in Clients : Heard(c)
  BY DEF Named
<1>3. Servers \intersect Clients = {}
  BY NamesAssumption
<1>4. ASSUME NEW s \in Servers, ServerStep(s)
      PROVE  Named'
  <2>1. /\ UNCHANGED from
        /\ \A p \in (Servers \union Clients) \ {s} : words'[p] = words[p]
    <3>1. \/ UNCHANGED words \/ words' = [words EXCEPT ![s] = <<>>]
          \/ \E line \in Lines : words' = [words EXCEPT ![s] = line]
      BY <1>4, ServerWordStep, ToldFiles DEF ServerStep, MakeSegment, OpenFile, LockFile, Lock, Truncate, TruncateTo,
           End, SetIds, SetWork, SetLoad, PrintParam, Die, Kill
    <3> QED
      BY <1>1, <1>4, <3>1, ServerWordStep DEF WordTypes, clientVars
  <2>2. \A c \in Clients : Heard(c)'
    BY <1>2, <1>3, <2>1
  <2>3. ASSUME NEW t \in Servers, t # s
        PROVE  ByWord(t)'
    BY <1>2, <1>4, <2>1, <2>3, OthersStay
  <2>4. ByWord(s)'
    <3> USE <1>1 DEF Goto
    <3>1. CASE MakeSegment(s)
      <4>1. pc[s] = "off" /\ pc'[s] = "ids" /\ words' = words
        BY <3>1 DEF MakeSegment, ServerTypes
      <4> QED
        BY <1>2, <4>1
    <3>2. CASE OpenFile(s)
      <4>1. PICK told \in ServerFiles :
              /\ words' = [words EXCEPT ![s] = told.words]
              /\ where' = [where EXCEPT ![s] = told.word.text]
        BY <3>2 DEF OpenFile
      <4>2. words'[s] = told.words /\ where'[s] = told.word.text
        BY <4>1 DEF WordTypes, ServerTypes
      <4>3. pc'[s] = "lock"
        BY <3>2 DEF OpenFile, ServerTypes
      <4> QED
        BY <4>2, <4>3
    <3>3. CASE End(s)
      BY <3>3 DEF End, WordTypes, ServerTypes
    <3>4. CASE \/ LockFile(s) \/ (pc[s] = "truncate" /\ Truncate(s))
               \/ SetIds(s) \/ SetWork(s) \/ SetLoad(s) \/ PrintParam(s)
      <4>1. words' = words /\ where' = where /\ pc'[s] # "off"
        BY <3>4 DEF LockFile, Lock, Truncate, TruncateTo, SetIds, SetWork, SetLoad,
             PrintParam, ServerTypes
      <4> QED
        BY <1>2, <4>1
    <3> QED
      BY <1>4, <3>1, <3>2, <3>3, <3>4 DEF ServerStep, Truncate, TruncateTo, Die, Kill
  <2> QED
    BY <2>2, <2>3, <2>4 DEF Named
<1>5. ASSUME NEW d \in Clients, ClientStep(d)
      PROVE  Named'
  <2>1. UNCHANGED <<pc, where>>
    BY <1>5, ClientLeaves DEF serverVars
  <2>2. ASSUME NEW line, NEW r, Attach(d, line, r)
        PROVE  /\ \A p \in (Servers \union Clients) \ {d} : words'[p] = words[p]
               /\ \A c \in Clients \ {d} : from'[c] = from[c]
               /\ words'[d] = line /\ from'[d] = r
    BY <1>1, <2>2 DEF Attach, WordTypes, ClientTypes
  <2>3. CASE AttachFile(d)
    <3>1. PICK told \in ClientFiles : Attach(d, told.words, told.word.text)
      BY <2>3 DEF AttachFile
    <3> QED
      BY <1>2, <1>3, <2>1, <2>2, <3>1 DEF Named
  <2>4. CASE AttachSegment(d)
    <3>1. PICK r \in Servers : Attach(d, <<>>, r)
      BY <2>4 DEF AttachSegment
    <3> QED
      BY <1>2, <1>3, <2>1, <2>2, <3>1 DEF Named
  <2>5. CASE \E f \in {"work", "load"} : ReadField(d, f)
    BY <1>2, <2>1, <2>5 DEF ReadField, Named
  <2> QED
    BY <1>5, <2>3, <2>4, <2>5 DEF ClientStep
<1> QED
  BY <1>4, <1>5 DEF Next

-----------------------------------------------------------------------------
(* The theorems.                                                           *)

LEMMA InitInvariant ==
  ASSUME Init
  PROVE  IInv
<1>1. TypeOK
  <2> USE DEF Init
  <2>1. region \in RegionMap
    BY NothingTyped DEF RegionMap
  <2>2. ServerTypes
    BY NothingTyped, SharedAssumption DEF ServerTypes
  <2>3. got \in [Clients -> Copies]
    <3>1. <<>> \in [{} -> Field]
      OBVIOUS
    <3>2. <<>> \in Copies
      BY <3>1 DEF Copies
    <3> QED
      BY <3>2
  <2>4. ClientTypes
    BY NothingTyped, <2>3 DEF ClientTypes
  <2>5. WordTypes /\ Sized
    BY DEF WordTypes, Sized, Loop
  <2> QED
    BY <2>1, <2>2, <2>4, <2>5, TypeParts
<1>2. Placed
  BY NamesAssumption DEF Init, Placed, Writing, Living, Loop, Regions
<1>3. Written
  BY SharedAssumption DEF Init, Written, Loop, Fresh, Zero
<1>4. Seen /\ Named
  BY DEF Init, Seen, Named
<1>5. ServerPrintsOwn /\ ClientNotBehind
  BY DEF Init, ServerPrintsOwn, ClientNotBehind, Nothing
<1> QED
  BY <1>1, <1>2, <1>3, <1>4, <1>5 DEF IInv

LEMMA StepInvariant ==
  ASSUME IInv, [Next]_vars
  PROVE  IInv'
<1>1. CASE Next
  <2>1. TypeOK' /\ Seen' /\ Named' /\ ServerPrintsOwn' /\ ClientNotBehind'
    BY <1>1, TypeStep, SeenStep, NamedStep, ServerPrintsOwnStep, ClientNotBehindStep DEF IInv
  <2>2. Placed' /\ Written'
    <3>1. CASE \E s \in Servers : ServerStep(s)
      BY <3>1, PlacedStep, WrittenStep DEF IInv
    <3>2. CASE \E c \in Clients : ClientStep(c)
      BY <3>2, ClientLeaves DEF IInv, serverVars, Placed, Written, Writing
    <3> QED
      BY <1>1, <3>1, <3>2 DEF Next
  <2> QED
    BY <2>1, <2>2 DEF IInv
<1>2. CASE UNCHANGED vars
  <2>1. TypeOK'
    BY <1>2 DEF vars, IInv, TypeOK
  <2>2. Placed' /\ Written'
    BY <1>2 DEF vars, IInv, Placed, Written, Writing
  <2>3. Seen' /\ Named'
    BY <1>2 DEF vars, IInv, Seen, Named
  <2>4. ServerPrintsOwn' /\ ClientNotBehind'
    BY <1>2 DEF vars, IInv, ServerPrintsOwn, ClientNotBehind
  <2> QED
    BY <2>1, <2>2, <2>3, <2>4 DEF IInv
<1> QED
  BY <1>1, <1>2

\* The inductive invariant: in every state of every run a region is written by
\* one server, what that server wrote since it began is in it, and a client has
\* seen nothing newer than what is there (server.c:36-144, client.c:20-57).
THEOREM SharedParamInvariant == Spec => []IInv
BY InitInvariant, StepInvariant, PTL DEF Spec

\* Two servers never write the same file, though fcntl() does not wait and its
\* result is looked at only after ftruncate() (server.c:89-93).
THEOREM SharedParamOneServerPerFile == Spec => []OneServerPerFile
<1>1. IInv => OneServerPerFile
  BY PlacedAlone DEF IInv
<1> QED
  BY <1>1, SharedParamInvariant, PTL

\* A client given the words of a server reads the file that the server writes,
\* as long as there is one key in them (server.c:166-178, client.c:120-131).
THEOREM SharedParamSameWordsMeet == Spec => []SameWordsMeet
<1>1. IInv => SameWordsMeet
  BY NamedMeet DEF IInv
<1> QED
  BY <1>1, SharedParamInvariant, PTL

\* What a server prints of its region is its own, whole and in order
\* (server.c:119-144).
THEOREM SharedParamServerPrintsOwn == Spec => []ServerPrintsOwn
<1>1. IInv => ServerPrintsOwn
  BY DEF IInv
<1> QED
  BY <1>1, SharedParamInvariant, PTL

\* A client prints nothing older than what it attached to, through every end
\* and restart of the servers (client.c:20-57).
THEOREM SharedParamClientNotBehind == Spec => []ClientNotBehind
<1>1. IInv => ClientNotBehind
  BY DEF IInv
<1> QED
  BY <1>1, SharedParamInvariant, PTL

=============================================================================
