---------------------------- MODULE MCSharedParam ----------------------------
(* The servers are interchangeable: each is started at most once, and the   *)
(* name of a segment moves with its server.                                 *)
EXTENDS SharedParam, TLC

S == Word("-s", <<"s">>, 0)
F == Word("-f", <<"f">>, 0)
SF == Word("-sf", <<"s", "f">>, 0)
A == Word("a", << >>, 0)
Minus == Word("-1", <<"1">>, -1)
Id(s) == Word(s, << >>, s)

\* As the usage has it; a file with a dash; two keys in one or two words; a
\* missing word, an id that is no number or negative.
SomeLines ==
  {<<S>>, <<F>>, <<A>>, <<F, A>>, <<F, F, A>>, <<SF, A>>, <<S, F, A>>,
   <<S, A>>, <<S, Minus>>}
  \union {<<S, Id(s)>> : s \in Servers}

Symmetry == Permutations(Servers) \union Permutations(Clients)
=============================================================================
