-------------------------------- MODULE MCCat --------------------------------
(* Command lines, disks and streams small enough for TLC.                   *)
EXTENDS Cat

\* Each key alone, clusters in which COUNT cannot be seen or is seen late, and
\* an unknown key; -l and -d with every kind of COUNT, and numbers no key takes.
Parts == {<<Keys(<<k>>)>> : k \in {"n", "b", "e", "h"}}
         \union {<<Keys(<<k>>), Count(n)>> : k \in {"l", "d"}, n \in 0..2}
Odd == {<<Keys(<<k>>)>> : k \in {"l", "d", "z"}}
       \union {<<Keys(c), Count(1)>> : c \in {<<"l", "n">>, <<"e", "d">>, <<"b", "n">>}}
       \union {<<Keys(<<k>>), Count(-1)>> : k \in {"l", "d"}}
       \union {<<Keys(<<"n">>), Count(1)>>, <<Keys(<<"l">>), Count(1), Count(1)>>}
       \union {<<>>}
Two == {p \o q : p, q \in Parts}
FileLines == {p \o <<Name("f")>> : p \in Two}
             \union {p \o <<Name("f"), Name("g")>> : p \in Parts \union Odd}

TextsUpTo(n) == UNION {[1..k -> {"x", NL}] : k \in 0..n}

\* The surroundings of a buffer hold any byte.
FilesUpTo(n) == {Text(t, b, b) : t \in TextsUpTo(n), b \in Byte}
Disk(f, g) == [n \in {"f", "g"} |-> IF n = "f" THEN f ELSE g]
SomeDisks ==
  {Disk(f, g) : f \in FilesUpTo(3) \union {Absent, Directory},
                g \in {Text(<<"x", NL>>, NUL, NUL), Absent}}

\* Without files: standard input is all there is.
StdinLines == {<<>>} \union Parts \union Odd \union Two

\* Sizes and counts an int or one read() does not hold, and lines and words
\* that run a counter or str[] over.
Mixed(n) == [k \in 1..n |-> IF k % 3 = 0 THEN NL ELSE "x"]
Ended(n) == [k \in 1..n |-> NL]
Large == {Text(Mixed(n), NUL, NUL) :
            n \in {ReadMax, ReadMax + 1, IntMax + 1, Word - 2, Word - 1, Word, Word + 3}}
LargeDisks == {Disk(f, Text(<<"x", NL>>, NUL, NUL)) : f \in Large}
              \union {Disk(Text(Ended(n), NUL, NUL), Text(Ended(9), NUL, NUL)) : n \in 5..7}
LargeLines == {p \o <<Name("f"), Name("g")>> : p \in Parts \union Odd}
              \union {<<Keys(<<"n">>), Name("f"), Name("g"), Name("f")>>}
LongTexts == {[k \in 1..StrSize |-> "x"],
              [k \in 1..(2 * IntMax + 4) |-> IF k % 2 = 0 THEN NL ELSE "x"]}
LargeCounts == {<<Keys(<<k>>), Count(n)>> :
                  k \in {"l", "d"}, n \in {IntMax, IntMax + 1, Word - 1, Word + 1, -Word + 2}}

SomeInputs == (FileLines \X SomeDisks \X {<<>>})
              \union (LargeLines \X LargeDisks \X {<<>>})
              \union ({p \o <<Name("f")>> : p \in LargeCounts} \X SomeDisks \X {<<>>})
              \union (StdinLines \X {Disk(Absent, Absent)} \X TextsUpTo(4))
              \union ((StdinLines \union LargeCounts) \X {Disk(Absent, Absent)} \X LongTexts)
=============================================================================
