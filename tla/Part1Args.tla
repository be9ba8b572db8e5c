------------------------------ MODULE Part1Args ------------------------------
(***************************************************************************)
(* The command lines of osp/lab5/part_1: parse_flag() of the server and    *)
(* parse_flag_cl() of the client over the same getopt(argc, argv, "sqf").  *)
(* No key has an argument for getopt(): both take argv[optind] themselves, *)
(* the server's -f as a word that getopt() then passes over, the client's  *)
(* keys as a word that getopt() will still see.                            *)
(*                                                                         *)
(* A word is its text, its letters if it begins with a dash, and what      *)
(* strtol() makes of it: the segment that has this number as its id, or 0, *)
(* or -1 for all that is negative.  The word "--" is left out.             *)
(***************************************************************************)
EXTENDS Integers, SequencesExt

Word(text, letters, number) ==
  [text |-> text, letters |-> letters, number |-> number]

\* What lies behind the NULL at the end of argv is the environment.
Environment == Word("environment", << >>, 0)

Refused == [key |-> "refused", word |-> Environment]

\* The letters of a command line in the order of getopt(): word, place in it.
Letters(line) ==
  FlattenSeq([k \in DOMAIN line |-> [j \in DOMAIN line[k].letters |-> <<k, j>>]])

\* optind once getopt() has returned the letter: it passes over words without
\* a dash, and over this word after its last letter.
OptindAfter(line, st, k, j) ==
  (IF j = 1 THEN k ELSE st.optind) + (IF j = Len(line[k].letters) THEN 1 ELSE 0)

\* One round of the loop: taking are the keys that look at argv[optind], and
\* passed is what the program then adds to optind.
OneLetter(line, taking, passed, st, k, j) ==
  LET key == line[k].letters[j]
      optind == OptindAfter(line, st, k, j)
      word == IF optind <= Len(line) THEN line[optind] ELSE Environment
      noWord == key \in taking /\ optind = Len(line) + 1
      noId == key \in taking \ {"f"} /\ word.number = -1
  IN IF key \notin {"s", "q", "f"} \/ st.key \notin {"none", key} \/ noWord \/ noId
     THEN [st EXCEPT !.key = "refused"]
     ELSE IF key \in taking
     THEN [key |-> key, optind |-> optind + passed, at |-> k, word |-> word]
     ELSE [st EXCEPT !.key = key, !.optind = optind, !.at = k]

\* getopt() goes on behind optind, or in the word it has begun.
Scanned(st, k, j) == IF j = 1 THEN k >= st.optind ELSE k = st.at

Parse(line, taking, passed) ==
  LET begin == [key |-> "none", optind |-> 1, at |-> 0, word |-> Environment]
      end == FoldLeft(LAMBDA st, p :
                        IF st.key # "refused" /\ Scanned(st, p[1], p[2])
                        THEN OneLetter(line, taking, passed, st, p[1], p[2])
                        ELSE st,
                      begin, Letters(line))
  IN IF end.key \in {"none", "refused"} THEN Refused
     ELSE [key |-> end.key, word |-> end.word]

ParseFlag(line) == Parse(line, {"f"}, 1)

\* Mutant: the client takes the word of its own key.
ParseFlagClOwnWord(line) ==
  LET choice == Parse(line, {"s", "q", "f"}, 0) IN
  IF choice = Refused THEN Refused ELSE [choice EXCEPT !.word = Head(line)]

ParseFlagCl(line) == Parse(line, {"s", "q", "f"}, 0)

=============================================================================
