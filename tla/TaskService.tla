---------------------------- MODULE TaskService ----------------------------
(***************************************************************************)
(* What the worker pool promises its callers (server/ThreadPool.hpp),      *)
(* with no thread, mutex or condition variable: a first-come first-served  *)
(* service with a bounded waiting line and a bounded number of tasks in    *)
(* progress, that finishes what it accepted even after it was closed.      *)
(***************************************************************************)
EXTENDS Naturals, Sequences, FiniteSets

CONSTANTS Calls,       \* the requests for service
          MaxWaiting,  \* the capacity of the waiting line
          Capacity     \* how many tasks can be in progress at a time

VARIABLES line,     \* the waiting line
          serving,  \* the tasks in progress
          served,   \* the finished tasks
          refused,  \* the requests that were turned away
          open      \* whether the service still accepts tasks

svars == <<line, serving, served, refused, open>>

Waiting == {line[i] : i \in DOMAIN line}
Unseen == Calls \ (Waiting \cup serving \cup served \cup refused)

SInit ==
  /\ line = <<>>
  /\ serving = {}
  /\ served = {}
  /\ refused = {}
  /\ open = TRUE

Admit(c) ==
  /\ open
  /\ c \in Unseen
  /\ Len(line) < MaxWaiting
  /\ line' = Append(line, c)
  /\ UNCHANGED <<serving, served, refused, open>>

\* A request is turned away only for one of the two reasons the code gives.
TurnAway(c) ==
  /\ c \in Unseen
  /\ ~open \/ Len(line) >= MaxWaiting
  /\ refused' = refused \cup {c}
  /\ UNCHANGED <<line, serving, served, open>>

Serve ==
  /\ line # <<>>
  /\ Cardinality(serving) < Capacity
  /\ serving' = serving \cup {Head(line)}
  /\ line' = Tail(line)
  /\ UNCHANGED <<served, refused, open>>

Finish(c) ==
  /\ c \in serving
  /\ serving' = serving \ {c}
  /\ served' = served \cup {c}
  /\ UNCHANGED <<line, refused, open>>

Close ==
  /\ open
  /\ open' = FALSE
  /\ UNCHANGED <<line, serving, served, refused>>

SNext ==
  \/ \E c \in Calls : Admit(c) \/ TurnAway(c) \/ Finish(c)
  \/ Serve
  \/ Close

SSafe == SInit /\ [][SNext]_svars

SSpec == SSafe /\ WF_svars(Serve) /\ \A c \in Calls : WF_svars(Finish(c))
=============================================================================
