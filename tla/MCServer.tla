------------------------------ MODULE MCServer ------------------------------
(***************************************************************************)
(* Server.tla on small instances.                                          *)
(***************************************************************************)
EXTENDS Server, TLC

CONSTANTS s1, s2, w1, w2

Post(body, keep_alive) ==
  [method |-> "POST", target |-> TRUE, keep_alive |-> keep_alive, body |-> body]

\* A GET (or an illegal target), a body that calculate_result rejects, and a good one.
\* Only after the last does the connection go on.
SomeRequests ==
  { Post("good", TRUE), Post("rejected", FALSE),
    [method |-> "GET", target |-> TRUE, keep_alive |-> FALSE, body |-> "good"] }

\* A good body, one that is not JSON and one that does not fit the schema.
SomeBodies == { Post("good", TRUE), Post("malformed", FALSE), Post("nonconforming", FALSE) }

Symmetry == Permutations(Sessions) \cup Permutations(Workers)
=============================================================================
