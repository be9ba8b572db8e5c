--------------------------------- MODULE Cat ---------------------------------
(***************************************************************************)
(* lab4/Cat: the program `Cat [-n|b] [-e] [-l|d COUNT] [-h] [FILE ...]`.   *)
(* parse_flags walks the words of the command line with getopt and takes   *)
(* COUNT itself from argv[optind]; main then gives every remaining word to *)
(* cat(), which reads the whole file and lets write_console move a cursor  *)
(* over the buffer.  The counters N and I are globals: I runs on from file *)
(* to file.                                                                *)
(*                                                                         *)
(* A text is a sequence of the bytes "x" (any ordinary byte) and NL.  The  *)
(* bytes just before and just behind the malloc'ed buffer are read by      *)
(* write_console too; what they hold is not the program's to say, so every *)
(* file carries a value for them, chosen with the disk.  Positions count   *)
(* from 1, so the C pointer `buffer` is 1, `buffer - 1` is 0, and `end` is *)
(* one more than the length.                                               *)
(*                                                                         *)
(* Where C leaves the outcome of a step undefined (an int counted past its *)
(* largest value, a word longer than the array scanf puts it in) control   *)
(* goes to "undefined" and nothing is said of what follows.                *)
(***************************************************************************)
EXTENDS Integers, SequencesExt

CONSTANTS
  Inputs,    \* the inputs considered, see InputsAssumption
  IntMax,    \* INT_MAX: N, I, i1 and the size of a file are of type int
  ReadMax,   \* the most bytes one read() returns, 0x7ffff000 on Linux
  StrSize    \* the size of str[] in cat_stdin

ASSUME SizesAssumption ==
  IntMax \in Nat /\ IntMax > 10 /\ ReadMax \in 0..(IntMax - 1) /\ StrSize \in Nat \ {0}

\* What an int keeps of a larger number.
Word == 2 * (IntMax + 1)
ToInt(v) == ((v + IntMax + 1) % Word) - (IntMax + 1)

VARIABLES args, disk, stdin,       \* the inputs: argv, the files, the stream
          rest,                    \* what scanf has not read of the stream
          optind, letter,          \* getopt's word and its place inside it
          flags, N, I,             \* the globals of cat.c
          file, cur, i1,           \* write_console: its buffer, cur and i1
          out, pc                  \* what was printed; where control is

vars == <<args, disk, stdin, rest, optind, letter, flags, N, I, file, cur, i1,
          out, pc>>
inputs == <<args, disk, stdin>>

NL == "NL"
NUL == "NUL"
Byte == {"x", NL, NUL}

\* Words: a cluster of option letters, a number, or a file name.
Keys(letters) == [kind |-> "keys", letters |-> letters]
Count(n) == [kind |-> "count", value |-> n]
Name(f) == [kind |-> "name", value |-> f]

\* Files: a text with its surroundings in the heap, a directory (which opens
\* but cannot be read), or nothing that opens at all.
Text(bytes, before, past) ==
  [kind |-> "text", bytes |-> bytes, before |-> before, past |-> past]
Directory == [kind |-> "directory"]
Absent == [kind |-> "absent"]

\* A number is taken by the key before it if that is -l or -d; every other word
\* that holds no keys is an operand: the name of a file, or meant to be one.
TakenAsCount(line, k) ==
  /\ k > 1 /\ line[k].kind = "count" /\ line[k - 1].kind = "keys"
  /\ Last(line[k - 1].letters) \in {"l", "d"}
Operand(line, k) == line[k].kind # "keys" /\ ~TakenAsCount(line, k)

\* An input: a command line with the keys before the operands, a disk with a
\* file for every name on it, and the text on standard input.  A number is one
\* that fits the long strtol returns; a negative one stands only where -l or -d
\* takes it, since anywhere else getopt takes it for keys.
IsWord(w) ==
  \/ w.kind = "keys" /\ w.letters \in Seq(STRING) /\ w.letters # <<>>
  \/ w.kind = "count" /\ w.value \in Int
  \/ w.kind = "name"
IsFile(f) ==
  \/ f.kind \in {"absent", "directory"}
  \/ /\ f.kind = "text" /\ f.bytes \in Seq({"x", NL})
     /\ f.before \in Byte /\ f.past \in Byte
IsInput(line, files, text) ==
  /\ Len(line) \in Nat /\ text \in Seq({"x", NL})
  /\ \A k \in 1..Len(line) : IsWord(line[k])
  /\ \A k \in 1..Len(line) : line[k].kind = "name" => IsFile(files[line[k].value])
  /\ \A k \in 1..Len(line) :
       line[k].kind = "count" /\ line[k].value < 0 => TakenAsCount(line, k)
  /\ \A j, k \in 1..Len(line) :
       j < k /\ line[k].kind = "keys" => ~Operand(line, j)
ASSUME InputsAssumption ==
  \A given \in Inputs : IsInput(given[1], given[2], given[3])

Exits == {"exit0", "exitKeys", "exitFile"}
Exited == pc \in Exits
Unset == -1                          \* int N = -1

Init ==
  /\ \E given \in Inputs : args = given[1] /\ disk = given[2] /\ stdin = given[3]
  /\ rest = stdin /\ optind = 1 /\ letter = 1 /\ flags = {} /\ N = Unset /\ I = 0
  /\ file = Absent /\ cur = 1 /\ i1 = 0 /\ out = <<>> /\ pc = "keys"

-----------------------------------------------------------------------------
(* parse_flags.                                                             *)

AtKeys == optind <= Len(args) /\ args[optind].kind = "keys"

\* Where getopt is once it has handed out the current letter: it moves to the
\* next word only behind the last letter of a cluster.
LastLetter == letter = Len(args[optind].letters)
OptindThen == IF LastLetter THEN optind + 1 ELSE optind
LetterThen == IF LastLetter THEN 1 ELSE letter + 1

\* argv[optind] is a number that strtol takes whole.
CountFollows ==
  OptindThen <= Len(args) /\ args[OptindThen].kind = "count"

\* Mutant: COUNT is used up, but the default stays.
TakeCountNot ==
  /\ N' = 10
  /\ optind' = IF CountFollows THEN OptindThen + 1 ELSE OptindThen

\* The cast to int comes before N > INT_MAX is tested, which never holds.
TakeCount ==
  /\ N' = IF CountFollows THEN ToInt(args[OptindThen].value) ELSE 10
  /\ optind' = IF CountFollows THEN OptindThen + 1 ELSE OptindThen

\* The key each key cannot be used together with.
Rival == [n |-> "b", b |-> "n", l |-> "d", d |-> "l"]

\* Mutant: only -n and -b are checked against their rivals.
RefusedNumbersOnly(key) == key \in {"n", "b"} /\ Rival[key] \in flags

Refused(key) == key \in DOMAIN Rival /\ Rival[key] \in flags

ParseKey ==
  /\ pc = "keys" /\ AtKeys
  /\ LET key == args[optind].letters[letter] IN
     IF key \notin {"n", "b", "l", "d", "h", "e"}
     THEN /\ pc' = "exitKeys"
          /\ UNCHANGED <<optind, letter, flags, N>>
     ELSE /\ flags' = flags \union {key}
          /\ pc' = IF Refused(key) THEN "exitKeys" ELSE "keys"
          /\ letter' = LetterThen
          /\ IF key \in {"l", "d"}
             THEN TakeCount
             ELSE optind' = OptindThen /\ UNCHANGED N
  /\ UNCHANGED <<inputs, rest, I, file, cur, i1, out>>

EndOfKeys ==
  /\ pc = "keys" /\ ~AtKeys
  /\ flags' = IF optind > Len(args) THEN flags \union {"stdin"} ELSE flags
  /\ pc' = "main"
  /\ UNCHANGED <<inputs, rest, optind, letter, N, I, file, cur, i1, out>>

-----------------------------------------------------------------------------
(* main and cat: one file after another, or standard input.                 *)

HelpText == <<"HELP">>
Help == IF "h" \in flags THEN HelpText ELSE <<>>

\* A word that names no file opens nothing.
Named(word) == IF word.kind = "name" THEN disk[word.value] ELSE Absent

\* size() cuts the size of a file to 32 bits and read_file() keeps it in an int.
SizeOf(f) == ToInt(Len(f.bytes))
Buffer(f) == Text(SubSeq(f.bytes, 1, SizeOf(f)), f.before, f.past)

\* read_file: a file that does not open is skipped, and so is one whose size
\* comes to -1, for then there is no buffer and read() returns its error, -1.
Skipped(f) == f.kind = "absent" \/ (f.kind = "text" /\ SizeOf(f) = -1)

\* Any other read may fail or be short: the disk fails, malloc() found no
\* memory, or the file has shrunk since fstat().  That of a directory always
\* fails, and one read() never returns as much as a negative or a huge size.
Readable(f) == f.kind = "text" /\ SizeOf(f) \in 0..ReadMax

CatFile ==
  /\ pc = "main" /\ optind <= Len(args)
  /\ optind' = optind + 1
  /\ out' = out \o Help
  /\ LET f == Named(args[optind]) IN
     \/ Skipped(f) /\ UNCHANGED <<file, cur, i1, pc>>
     \/ ~Skipped(f) /\ pc' = "exitFile" /\ UNCHANGED <<file, cur, i1>>
     \/ /\ Readable(f)
        /\ file' = Buffer(f) /\ i1' = 0
        /\ IF "l" \in flags
           THEN cur' = SizeOf(f) + 1 /\ pc' = "seek"
           ELSE cur' = 1 /\ pc' = "number"
  /\ UNCHANGED <<inputs, rest, letter, flags, N, I>>

CatStdin ==
  /\ pc = "main" /\ optind > Len(args) /\ "stdin" \in flags
  /\ out' = out \o Help /\ i1' = 0 /\ pc' = "stdin"
  /\ UNCHANGED <<inputs, rest, optind, letter, flags, N, I, file, cur>>

MainReturns ==
  /\ pc = "main" /\ optind > Len(args) /\ "stdin" \notin flags
  /\ pc' = "exit0"
  /\ UNCHANGED <<inputs, rest, optind, letter, flags, N, I, file, cur, i1, out>>

\* cat_stdin: scanf("%s") skips to the next word and takes it up to the next
\* white space; the program ends at the end of the stream or after N words.
Start == SelectInSeq(rest, LAMBDA b : b # NL)
Stop == SelectInSeq(SubSeq(rest, Start, Len(rest)), LAMBDA b : b = NL)
WordEnd == IF Stop = 0 THEN Len(rest) ELSE Start + Stop - 2

\* Mutant: a word is taken even when COUNT of them have been.
ScanWordOver ==
  /\ pc = "stdin" /\ Start # 0
  /\ rest' = SubSeq(rest, WordEnd + 1, Len(rest))
  /\ out' = out \o SubSeq(rest, Start, WordEnd) \o <<NL>>
  /\ i1' = i1 + 1
  /\ UNCHANGED <<inputs, optind, letter, flags, N, I, file, cur, pc>>

\* The word and the byte behind it fit str[], and the counters their type.
WordFits ==
  /\ WordEnd - Start + 1 < StrSize /\ i1 < IntMax
  /\ flags \intersect {"n", "b"} # {} => I < IntMax

ScanWord ==
  /\ pc = "stdin" /\ i1 # N /\ Start # 0 /\ WordFits
  /\ LET numbered == flags \intersect {"n", "b"} # {} IN
     /\ I' = IF numbered THEN I + 1 ELSE I
     /\ out' = out \o (IF numbered THEN <<ToString(I + 1)>> ELSE <<>>)
                   \o SubSeq(rest, Start, WordEnd)
                   \o (IF "e" \in flags THEN <<"$", NL>> ELSE <<NL>>)
  /\ rest' = SubSeq(rest, WordEnd + 1, Len(rest))
  /\ i1' = i1 + 1
  /\ UNCHANGED <<inputs, optind, letter, flags, N, file, cur, pc>>

\* Mutant: the end of the stream is not noticed.
StdinEndsByCount ==
  /\ pc = "stdin" /\ i1 = N
  /\ pc' = "exit0"
  /\ UNCHANGED <<inputs, rest, optind, letter, flags, N, I, file, cur, i1, out>>

StdinEnds ==
  /\ pc = "stdin" /\ (i1 = N \/ Start = 0)
  /\ pc' = "exit0"
  /\ UNCHANGED <<inputs, rest, optind, letter, flags, N, I, file, cur, i1, out>>

-----------------------------------------------------------------------------
(* write_console: a cursor over the buffer.                                 *)

Sz == Len(file.bytes)

ByteAt(k) == IF k < 1 THEN file.before
             ELSE IF k > Sz THEN file.past ELSE file.bytes[k]

\* Mutant: the start of the buffer is not looked for.
SeekTailPast ==
  /\ pc = "seek"
  /\ IF i1 = N \/ cur < -1
     THEN pc' = "number" /\ UNCHANGED <<cur, i1>>
     ELSE /\ cur' = cur - 1
          /\ i1' = IF ByteAt(cur - 1) = NL THEN i1 + 1 ELSE i1
          /\ UNCHANGED pc
  /\ UNCHANGED <<inputs, rest, optind, letter, flags, N, I, file, out>>

\* Mutant: the search stops one newline early, and never stops at the buffer.
SeekTailShort ==
  /\ pc = "seek"
  /\ IF i1 + 1 = N
     THEN pc' = "number" /\ UNCHANGED <<cur, i1>>
     ELSE /\ cur > 1 /\ cur' = cur - 1
          /\ i1' = IF ByteAt(cur - 1) = NL THEN i1 + 1 ELSE i1
          /\ UNCHANGED pc
  /\ UNCHANGED <<inputs, rest, optind, letter, flags, N, I, file, out>>

\* while (i1 != N && cur-- != buffer): the step back is taken by the test
\* itself, so running out of buffer leaves cur one before it.
SeekTail ==
  /\ pc = "seek"
  /\ IF i1 = N
     THEN pc' = "number" /\ UNCHANGED <<cur, i1>>
     ELSE /\ cur' = cur - 1
          /\ IF cur = 1
             THEN pc' = "number" /\ UNCHANGED i1
             ELSE /\ i1' = IF ByteAt(cur - 1) = NL THEN i1 + 1 ELSE i1
                  /\ UNCHANGED pc
  /\ UNCHANGED <<inputs, rest, optind, letter, flags, N, I, file, out>>

Number(out0, wanted) ==
  IF wanted
  THEN out' = out0 \o <<ToString(I + 1)>> /\ I' = I + 1
  ELSE out' = out0 /\ UNCHANGED I

FirstNumbered == "n" \in flags \/ ("b" \in flags /\ ByteAt(cur) # NL)

FirstNumber ==
  /\ pc = "number" /\ (FirstNumbered => I < IntMax)
  /\ Number(out, FirstNumbered)
  /\ pc' = "copy"
  /\ UNCHANGED <<inputs, rest, optind, letter, flags, N, file, cur, i1>>

\* Whether the line that begins at k gets a number: it looks at the byte at k,
\* which is the one behind the buffer when the last line has just ended.
NumberedAt(k) ==
  /\ ByteAt(k) # NUL
  /\ "n" \in flags \/ ("b" \in flags /\ ByteAt(k) # NL)

\* Mutant: -d counts a line only once the loop has come round again.
EnoughTooLate == "d" \in flags /\ i1 = N

Enough == "d" \in flags /\ i1 + 1 = N

\* The byte at cur ends a line and the next one gets a number.
NextNumbered == ByteAt(cur) = NL /\ ~Enough /\ NumberedAt(cur + 1)

\* One turn of the copying loop.  The lines of a buffer never count past an int.
CopyByte ==
  /\ pc = "copy" /\ cur <= Sz /\ (NextNumbered => I < IntMax)
  /\ LET byte == ByteAt(cur)
         shown == out \o (IF byte = NL /\ "e" \in flags THEN <<"$">> ELSE <<>>)
                      \o <<byte>>
     IN  /\ i1' = IF byte = NL /\ "d" \in flags THEN i1 + 1 ELSE i1
         /\ IF byte = NL /\ Enough
            THEN /\ pc' = "main"
                 /\ out' = shown
                 /\ UNCHANGED <<cur, I>>
            ELSE /\ Number(shown, byte = NL /\ NumberedAt(cur + 1))
                 /\ cur' = cur + 1
                 /\ UNCHANGED pc
  /\ UNCHANGED <<inputs, rest, optind, letter, flags, N, file>>

CopyEnds ==
  /\ pc = "copy" /\ cur > Sz
  /\ pc' = "main"
  /\ UNCHANGED <<inputs, rest, optind, letter, flags, N, I, file, cur, i1, out>>

\* A word that does not fit, or a counter at INT_MAX counted on.
Undefined ==
  /\ \/ pc = "stdin" /\ i1 # N /\ Start # 0 /\ ~WordFits
     \/ pc = "number" /\ FirstNumbered /\ I = IntMax
     \/ pc = "copy" /\ cur <= Sz /\ NextNumbered /\ I = IntMax
  /\ pc' = "undefined"
  /\ UNCHANGED <<inputs, rest, optind, letter, flags, N, I, file, cur, i1, out>>

-----------------------------------------------------------------------------
Next ==
  \/ ParseKey \/ EndOfKeys
  \/ CatFile \/ CatStdin \/ MainReturns
  \/ ScanWord \/ StdinEnds
  \/ SeekTail \/ FirstNumber \/ CopyByte \/ CopyEnds
  \/ Undefined

Spec == Init /\ [][Next]_vars
\* A sequential program that the system keeps running.
FairSpec == Spec /\ WF_vars(Next)

-----------------------------------------------------------------------------
(* What the lines and the words of a text are, said without a cursor.       *)

CountUpTo(S, k) == Cardinality({j \in S : j <= k})
\* The k-th smallest of a set of numbers.
Nth(S, k) == CHOOSE e \in S : CountUpTo(S, e) = k

Newlines(b) == {k \in 1..Len(b) : b[k] = NL}
LineEnds(b) == {k \in 1..Len(b) : b[k] = NL \/ k = Len(b)}
LineEnd(b, k) == IF k = 0 THEN 0 ELSE Nth(LineEnds(b), k)
Lines(b) == [k \in 1..Cardinality(LineEnds(b)) |->
               SubSeq(b, LineEnd(b, k - 1) + 1, LineEnd(b, k))]

WordStarts(b) == {k \in 1..Len(b) : b[k] # NL /\ (k = 1 \/ b[k - 1] = NL)}
WordEnds(b) == {k \in 1..Len(b) : b[k] # NL /\ (k = Len(b) \/ b[k + 1] = NL)}
Words(b) == [k \in 1..Cardinality(WordEnds(b)) |->
               SubSeq(b, Nth(WordStarts(b), k), Nth(WordEnds(b), k))]

FirstLines(lines, n) == SubSeq(lines, 1, IF n < Len(lines) THEN n ELSE Len(lines))
LastLines(lines, n) ==
  SubSeq(lines, (IF n < Len(lines) THEN Len(lines) - n ELSE 0) + 1, Len(lines))

\* How the keys have lines printed: with numbers, which run on from file to
\* file and which the help text never gets, and with $ at the ends of lines.
Wanted(keys, line) ==
  line # HelpText /\ ("n" \in keys \/ ("b" \in keys /\ line # <<NL>>))
WantedUpTo(keys, lines, k) == Cardinality({j \in 1..k : Wanted(keys, lines[j])})
Marked(keys, line) == IF "e" \in keys /\ Last(line) = NL
                      THEN Front(line) \o <<"$", NL>> ELSE line
Rendered(keys, lines) ==
  FlattenSeq([k \in 1..Len(lines) |->
    (IF Wanted(keys, lines[k])
     THEN <<ToString(WantedUpTo(keys, lines, k))>> ELSE <<>>)
    \o Marked(keys, lines[k])])

\* The operands come behind the keys, and those before optind have been opened.
FirstOperand == Cardinality({k \in 1..Len(args) : ~Operand(args, k)}) + 1
Passed == optind - FirstOperand
Opened == {Named(args[k]) : k \in FirstOperand..(optind - 1)}

\* COUNT as the first n words give it: it stands behind the last cluster with
\* -l or -d in it, if that key comes last there.
CountKey(k) == args[k].kind = "keys" /\ Range(args[k].letters) \intersect {"l", "d"} # {}
CountAt(k) == IF k < Len(args) /\ TakenAsCount(args, k + 1)
              THEN ToInt(args[k + 1].value) ELSE 10
CountIn(n) == LET keys == {k \in 1..n : CountKey(k)} IN
              IF keys = {} THEN Unset ELSE CountAt(Max(keys))
CountGiven == CountIn(Len(args))

\* The lines of the first n operands, each behind the help text if -h is given.
HelpLines == IF "h" \in flags THEN <<HelpText>> ELSE <<>>
LinesOf(word, Chosen(_)) ==
  HelpLines \o (IF Named(word).kind = "text"
                THEN Chosen(Lines(Named(word).bytes)) ELSE <<>>)
LinesOfFirst(n, Chosen(_)) ==
  FlattenSeq([k \in 1..n |-> LinesOf(args[FirstOperand + k - 1], Chosen)])

\* The lines -d COUNT asks for.
Asked(lines) ==
  IF "d" \in flags /\ N > 0 THEN FirstLines(lines, N) ELSE lines

\* The lines of the operands before the last one opened, and its help text.
Before == LinesOfFirst(Passed - 1, Asked) \o HelpLines

\* An int holds the size of a file, or what it makes of it shows that it does
\* not: false of a file of 4 GiB - 1 bytes, which is skipped, and of a larger
\* one, of which only the first bytes are read.
SizeTold(f) == f.kind = "text" => Len(f.bytes) + 1 < Word

\* The numbers of the lines depend on nothing outside the buffer.
NumbersTold(f) ==
  f.kind = "text" /\ flags \intersect {"n", "b"} # {} =>
    /\ f.bytes # <<>>
    /\ Last(f.bytes) = NL => f.past = NUL

-----------------------------------------------------------------------------
(* Properties.                                                              *)

\* Every variable keeps its type, and the cursor of write_console never
\* leaves the buffer by more than the one byte on either side of it.
TypeOK ==
  /\ optind \in 1..(Len(args) + 1) /\ letter \in Nat \ {0}
  /\ flags \subseteq {"n", "b", "l", "d", "h", "e", "stdin"}
  /\ N \in -(IntMax + 1)..IntMax /\ I \in 0..IntMax /\ i1 \in Nat
  /\ pc \in {"keys", "main", "seek", "number", "copy", "stdin", "undefined"} \union Exits
  /\ file.kind \in {"absent", "text"}
  /\ pc \in {"seek", "number", "copy"} => cur \in 0..(Sz + 1)
  /\ out \in Seq(Byte \union {"$", "HELP"} \union {ToString(n) : n \in 1..I})

\* Without -l the program prints exactly the lines of its files with the
\* numbers and the $ asked for, and before a read error those of the files
\* before; under -d COUNT the first COUNT of each file, and all of them if
\* COUNT, as an int, is below 1, which the count of lines never equals:
\* parse_flags, the order of main's loop and write_console's one-pass cursor
\* together come to what the help text says but for -d 0 (cat.c:32-66, 143-178).
LinesExact ==
  /\ pc \in {"exit0", "exitFile"} /\ flags \intersect {"l", "stdin"} = {}
  /\ \A f \in Opened : SizeTold(f) /\ NumbersTold(f)
  => /\ N = CountGiven
     /\ pc = "exit0" =>
          out = Rendered(flags, LinesOfFirst(Len(args) + 1 - FirstOperand, Asked))
     /\ pc = "exitFile" => out = Rendered(flags, Before)

\* Under -l COUNT write_console may begin too early or too late by a line, but
\* it never loses one of the last COUNT - 1 lines of a file.
TailKeepsEnd ==
  LET f == Named(args[optind - 1]) IN
  pc = "copy" /\ cur > Sz /\ "l" \in flags /\ CountGiven > 0 /\ SizeTold(f)
    /\ flags \intersect {"n", "b", "e"} = {} =>
      IsSuffix(FlattenSeq(LastLines(Lines(f.bytes), CountGiven - 1)), out)

\* A command line with -n and -b, or -l and -d, never prints anything,
\* wherever among the words the two keys stand.
Used(key) == \E k \in 1..Len(args) :
               args[k].kind = "keys" /\ key \in Range(args[k].letters)
RivalsRefused ==
  (\E key \in DOMAIN Rival : Used(key) /\ Used(Rival[key])) =>
    pc \in {"keys", "exitKeys"} /\ out = <<>>

\* Without files the program prints the words of standard input one to a line,
\* numbered under -n and -b alike, and under -d COUNT the first COUNT of them.
Listed(keys, words) ==
  FlattenSeq([k \in 1..Len(words) |->
    (IF keys \intersect {"n", "b"} # {} THEN <<ToString(k)>> ELSE <<>>)
    \o words[k] \o (IF "e" \in keys THEN <<"$", NL>> ELSE <<NL>>)])
StdinWordsExact ==
  pc = "exit0" /\ "stdin" \in flags /\ "l" \notin flags =>
    out = Help \o Listed(flags, IF CountGiven < 0 THEN Words(stdin)
                                ELSE FirstLines(Words(stdin), CountGiven))

\* The program comes to an end, whatever COUNT and the files are, or to where
\* C says no more of it.
Ends == <>(Exited \/ pc = "undefined")

\* README.md:21, "-l [COUNT] -- prints the last COUNT lines", taken at its word
\* for counts and sizes that an int holds.
TailPrintsLast ==
  /\ pc = "exit0" /\ "l" \in flags /\ flags \intersect {"n", "b", "stdin"} = {}
  /\ \A k \in 1..Len(args) : args[k].kind = "count" => args[k].value \in 0..IntMax
  /\ \A f \in Opened : SizeTold(f)
  => out = Rendered(flags, LinesOfFirst(Len(args) + 1 - FirstOperand,
                                        LAMBDA ls : LastLines(ls, N)))

-----------------------------------------------------------------------------
(* The inductive invariant: TypeOK and what each part of the program keeps. *)

Parsed == pc \notin {"keys", "exitKeys"}
InText == pc \in {"seek", "number", "copy"}

\* The inputs, and where write_console's buffer comes from.
InputsInv ==
  /\ IsInput(args, disk, stdin)
  /\ pc = "seek" => cur >= 1
  /\ InText => /\ optind > FirstOperand /\ Readable(Named(args[optind - 1]))
               /\ file = Buffer(Named(args[optind - 1])) /\ IsFile(file)

\* parse_flags has put every letter it handed out in flags, never two rivals,
\* and stands at the first operand when there is no key left.
KeysInv ==
  /\ pc # "exitKeys" =>
       \A key \in DOMAIN Rival : ~(key \in flags /\ Rival[key] \in flags)
  /\ pc = "keys" =>
       /\ I = 0 /\ "stdin" \notin flags
       /\ letter \in 1..(IF AtKeys THEN Len(args[optind].letters) ELSE 1)
       /\ \A k \in 1..(optind - 1) :
            /\ ~Operand(args, k)
            /\ args[k].kind = "keys" => Range(args[k].letters) \subseteq flags
       /\ AtKeys => \A j \in 1..(letter - 1) : args[optind].letters[j] \in flags
       /\ optind <= Len(args) => ~TakenAsCount(args, optind)
  /\ ~Parsed => out = <<>>
  /\ Parsed =>
       /\ \A k \in 1..Len(args) :
            args[k].kind = "keys" => Range(args[k].letters) \subseteq flags
       /\ \A k \in FirstOperand..Len(args) : Operand(args, k)
       /\ FirstOperand \in 1..optind
       /\ "stdin" \in flags <=> FirstOperand = Len(args) + 1

\* N holds what the words gone through give as COUNT.
CountInv ==
  /\ pc = "keys" =>
       N = IF AtKeys /\ \E j \in 1..(letter - 1) : args[optind].letters[j] \in {"l", "d"}
           THEN 10 ELSE CountIn(optind - 1)
  /\ Parsed => N = CountGiven

\* The lines printed so far, and their numbers.
PrintedAre(lines) ==
  /\ out = Rendered(flags, lines)
  /\ I = WantedUpTo(flags, lines, Len(lines))

\* In the copying loop: the lines copied whole, where the next one begins, and
\* whether its number is out already.
LinesPassed == CountUpTo(Newlines(file.bytes), cur - 1)
LineStart == LineEnd(file.bytes, LinesPassed) + 1
NumberOut == /\ LineStart <= Sz
             /\ "n" \in flags \/ ("b" \in flags /\ ByteAt(LineStart) # NL)
Copied == Before \o SubSeq(Lines(file.bytes), 1, LinesPassed)
CopyInv ==
  /\ LineStart \in 1..cur
  /\ LineStart = 1 \/ ByteAt(LineStart - 1) = NL
  /\ \A k \in LineStart..(cur - 1) : ByteAt(k) # NL
  /\ "d" \in flags => i1 = LinesPassed /\ (N > 0 => i1 < N)
  /\ I = WantedUpTo(flags, Copied, Len(Copied)) + (IF NumberOut THEN 1 ELSE 0)
  /\ out = Rendered(flags, Copied) \o (IF NumberOut THEN <<ToString(I)>> ELSE <<>>)
             \o SubSeq(file.bytes, LineStart, cur - 1)

FilesInv ==
  /\ Parsed => \A k \in FirstOperand..(optind - 1) :
       Named(args[k]).kind = "directory" => pc = "exitFile" /\ k = optind - 1
  /\ pc = "exit0" => optind = Len(args) + 1
  /\ pc = "exitFile" => optind > FirstOperand
  /\ /\ Parsed /\ flags \intersect {"l", "stdin"} = {}
     /\ \A f \in Opened : SizeTold(f) /\ NumbersTold(f)
     => /\ pc \in {"main", "exit0"} => PrintedAre(LinesOfFirst(Passed, Asked))
        /\ pc = "exitFile" => PrintedAre(Before)
        /\ pc = "number" => cur = 1 /\ i1 = 0 /\ PrintedAre(Before)
        /\ pc = "copy" => CopyInv

\* Where the last N - 1 lines of the text begin.
TailFrom == LET n == Cardinality(LineEnds(file.bytes))
            IN  LineEnd(file.bytes, IF N - 1 < n THEN n - (N - 1) ELSE 0) + 1
TailInv ==
  /\ pc = "seek" =>
       /\ "l" \in flags
       /\ i1 = Cardinality(Newlines(file.bytes))
                 - CountUpTo(Newlines(file.bytes), cur - 1)
  /\ pc = "number" /\ "l" \in flags /\ N > 0 => cur <= TailFrom
  /\ pc = "copy" /\ "l" \in flags /\ N > 0 /\ flags \intersect {"n", "b", "e"} = {} =>
       IsSuffix(SubSeq(file.bytes, TailFrom, cur - 1), out)

\* What scanf has taken ends at the end of a word, and was printed.
Taken == Len(stdin) - Len(rest)
StdinInv ==
  /\ pc \notin {"stdin", "exit0", "undefined"} => rest = stdin
  /\ pc = "main" /\ "stdin" \in flags => out = <<>> /\ I = 0
  /\ pc = "stdin" =>
       /\ "stdin" \in flags /\ Taken >= 0
       /\ rest = SubSeq(stdin, Taken + 1, Len(stdin))
       /\ Taken = 0 \/ rest = <<>> \/ rest[1] = NL
       /\ i1 = CountUpTo(WordStarts(stdin), Taken)
       /\ i1 = CountUpTo(WordEnds(stdin), Taken)
       /\ N < 0 \/ i1 <= N
       /\ I = IF flags \intersect {"n", "b"} # {} THEN i1 ELSE 0
       /\ out = Help \o Listed(flags, SubSeq(Words(stdin), 1, i1))
  /\ pc = "exit0" /\ "stdin" \in flags =>
       out = Help \o Listed(flags, IF N < 0 THEN Words(stdin)
                                   ELSE FirstLines(Words(stdin), N))

IInv == /\ TypeOK /\ InputsInv /\ KeysInv /\ CountInv /\ FilesInv /\ TailInv /\ StdinInv

=============================================================================
