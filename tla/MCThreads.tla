----------------------------- MODULE MCThreads -----------------------------
(***************************************************************************)
(* Threads with every command line of at most five words: a number, a word *)
(* that is no number, each key, a letter that is no key and a cluster.     *)
(***************************************************************************)
EXTENDS Threads

Words ==
  {[letters |-> << >>, number |-> n] : n \in BOOLEAN}
    \cup {[letters |-> <<l>>, number |-> TRUE] : l \in {"1", "2", "3", "4"}}
    \cup {[letters |-> <<"x">>, number |-> FALSE],
          [letters |-> <<"4", "3">>, number |-> TRUE]}

SomeCommandLines == UNION {[1 .. n -> Words] : n \in 0 .. 5}

=============================================================================
