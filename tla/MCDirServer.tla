---------------------------- MODULE MCDirServer ----------------------------
(***************************************************************************)
(* Paths for the runs of DirServer: a client may be given several paths,   *)
(* one, or none (client.c never calls check_args()).                       *)
(***************************************************************************)
EXTENDS DirServer

\* One client of three is given two paths, the first or the last.
AsksOfThree ==
  {[c \in 1 .. 3 |-> IF c = k THEN <<"a", "b">> ELSE << >>] : k \in {1, 3}}

=============================================================================
