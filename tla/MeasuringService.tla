--------------------------- MODULE MeasuringService ---------------------------
(***************************************************************************)
(* What a server and its clients promise together, whatever carries the    *)
(* questions: the message queue of part_1 and the unix socket of part_3    *)
(* both implement it.  Measurements are numbered as they are made; a       *)
(* client asks twice and prints the second answer.                         *)
(***************************************************************************)
EXTENDS Integers, Sequences

CONSTANT Clients

Nothing == 0       \* a call came back without an answer

VARIABLES
  now,     \* number of measurements made
  died,    \* a server was ended
  stage,   \* what a client is doing
  since,   \* what a client prints was measured later than this
  got      \* the answers of a client's calls

vars == <<now, died, stage, since, got>>

Init ==
  /\ now = 0 /\ died = FALSE
  /\ stage = [c \in Clients |-> "off"]
  /\ since = [c \in Clients |-> 0]
  /\ got = [c \in Clients |-> << >>]

Measure ==
  /\ now' = now + 1
  /\ UNCHANGED <<died, stage, since, got>>

Die ==
  /\ died' = TRUE
  /\ UNCHANGED <<now, stage, since, got>>

Given == UNION {{got[c][k] : k \in DOMAIN got[c]} : c \in Clients}

\* A client is promised fresh answers, unless one that started before it has
\* not come to its end, or was killed on its way there.
Start(c) ==
  /\ stage[c] = "off"
  /\ stage' = [stage EXCEPT ![c] = "asking"]
  /\ \/ since' = [since EXCEPT ![c] = now]
     \/ /\ \E d \in Clients : stage[d] \in {"asking", "gone"}
        /\ since' = [since EXCEPT ![c] = 0]
  /\ UNCHANGED <<now, died, got>>

\* A call comes back with m; the second one prints it.
Return(c, m) ==
  /\ stage[c] = "asking"
  /\ got' = [got EXCEPT ![c] = Append(@, m)]
  /\ stage' = [stage EXCEPT ![c] = IF got[c] = << >> THEN "asking" ELSE "printed"]
  /\ UNCHANGED <<now, died, since>>

\* No measurement is given to two calls.
Take(c) ==
  \E m \in 1 .. now :
    /\ m \notin Given
    /\ got[c] # << >> => m > since[c]
    /\ Return(c, m)

\* Only the end of a server leaves a call without an answer.
Miss(c) == died /\ Return(c, Nothing)

\* A client fails or is killed, and what it was told goes with it.
Leave(c) ==
  /\ stage[c] = "asking"
  /\ stage' = [stage EXCEPT ![c] = "gone"]
  /\ since' = [since EXCEPT ![c] = 0]
  /\ got' = [got EXCEPT ![c] = << >>]
  /\ UNCHANGED <<now, died>>

Next ==
  \/ Measure
  \/ Die
  \/ \E c \in Clients : Start(c) \/ Take(c) \/ Miss(c) \/ Leave(c)

Spec == Init /\ [][Next]_vars

=============================================================================
