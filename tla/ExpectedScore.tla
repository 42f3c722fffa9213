---------------------------- MODULE ExpectedScore ----------------------------
(***************************************************************************)
(* calc_stats, between the search of ScoreGraph and the answers: for every *)
(* turn, from the last to the first, one parallel loop over the draw nodes *)
(* and one over the discard nodes.  With OpenMP the iterations of a loop   *)
(* are divided among threads in consecutive chunks (schedule static), and  *)
(* a loop ends when all have ended; without it there is one thread.        *)
(*                                                                         *)
(* A value of turn t is the code's times Scale(t), so that it is a natural *)
(* number: dividing by sum - t is left to the end.  Rounding of doubles is *)
(* not modelled.                                                           *)
(***************************************************************************)
EXTENDS ScoreGraph

\* The turns and the number of tiles are numbers, and somebody runs the loops.
ASSUME TurnsAssumption ==
  \A i \in Inputs : /\ i.t_min \in Int /\ i.t_max \in Int /\ i.sum \in Int
                    /\ i.threads \in Nat \ {0}

VARIABLES
  loop,       \* "none" before the evaluation, "draw", "discard", "over"
  turn,       \* t
  at,         \* of each thread: its next iteration
  val         \* of each vertex: tenpai_prob, win_prob and exp_score by turn

evaluation == <<loop, turn, at, val>>

Fields == {"tenpai_prob", "win_prob", "exp_score"}
Turns == input.t_min..input.t_max
Threads == 1..input.threads      \* as many as the OpenMP runtime provides, or one

\* config.sum, or what there is in the wall.
WallTotal == IF input.sum # 0 THEN input.sum ELSE SumFunctionOnSet(wall, Kinds)

\* 1.0 at turn t.
Scale(t) ==
  LET product[u \in Turns] == IF u = input.t_max THEN 1 ELSE product[u + 1] * (WallTotal - u)
  IN  product[t]

-----------------------------------------------------------------------------
(* build_edge_csr: the edges of a vertex, by source and by target.         *)

draw_edges(v) == {e \in edges : e.source = v}
selection_edges(v) == {e \in edges : e.target = v}

\* Mutant of Loop: the second loop is over all vertices.
LoopOverAll == IF loop = "draw" THEN draw_vertices ELSE [i \in DOMAIN vertices |-> i]

Loop == IF loop = "draw" THEN draw_vertices ELSE discard_vertices

\* The iterations of a thread: of n, every thread gets as many, the first ones one more.
ChunkEnd(p, n) == LET k == Cardinality(Threads)
                  IN  p * (n \div k) + (IF p < n % k THEN p ELSE n % k)
ChunkStart(p, n) == 1 + (IF p = 1 THEN 0 ELSE ChunkEnd(p - 1, n))
Active(p) == at[p] <= ChunkEnd(p, Len(Loop))
Vertex(p) == Loop[at[p]]

StartLoop(l, t, loop_vertices) ==
  /\ loop' = l /\ turn' = t
  /\ at' = [p \in Threads |-> ChunkStart(p, Len(loop_vertices))]

-----------------------------------------------------------------------------
\* Mutant of Reward: the values of the turn in progress are used.
RewardSameTurn(field, e, t) ==
  LET next == val[e.target][field][t]
      points == (IF e.score[3] THEN 2 ELSE 1) * Scale(t + 1)
  IN  IF e.score = <<>> THEN next
      ELSE IF field # "exp_score" THEN Scale(t + 1)
      ELSE IF points > next THEN points ELSE next

Reward(field, e, t) ==
  LET next == val[e.target][field][t + 1]
      points == (IF e.score[3] THEN 2 ELSE 1) * Scale(t + 1)   \* more with riichi
  IN  IF e.score = <<>> THEN next
      ELSE IF field # "exp_score" THEN Scale(t + 1)
      ELSE IF points > next THEN points ELSE next

\* Mutant of DrawValue: drawing a tile is not in place of waiting.
DrawValueAdded(field, v, t) ==
  IF field = "tenpai_prob" /\ vertices[v].tenpai THEN Scale(t)
  ELSE IF t = input.t_max THEN 0
  ELSE val[v][field][t + 1] * (WallTotal - t)
       + SumFunction([e \in draw_edges(v) |-> e.weight * Reward(field, e, t)])

\* The value of a draw node: that of waiting, and what each draw adds to it.
DrawValue(field, v, t) ==
  IF field = "tenpai_prob" /\ vertices[v].tenpai THEN Scale(t)
  ELSE IF t = input.t_max THEN 0
  ELSE val[v][field][t + 1] * (WallTotal - t)
       + SumFunction([e \in draw_edges(v) |-> e.weight * (Reward(field, e, t) - val[v][field][t + 1])])

\* The value of a discard node: the best of its discards, by each field on its own.
DiscardValue(field, v, t) == Max({0} \cup {val[e.source][field][t] : e \in selection_edges(v)})

Set(v, F(_)) == val' = [val EXCEPT ![v] = [f \in Fields |-> [val[v][f] EXCEPT ![turn] = F(f)]]]

\* The loops start when the search has returned.
BeginStats ==
  /\ phase = "search" /\ frames = <<>> /\ loop = "none"
  /\ StartLoop("draw", input.t_max, draw_vertices)
  /\ val' = [v \in DOMAIN vertices |-> [f \in Fields |-> [t \in Turns |-> 0]]]
  /\ UNCHANGED vars

DrawIteration(p) ==
  /\ loop = "draw" /\ Active(p)
  /\ Set(Vertex(p), LAMBDA f : DrawValue(f, Vertex(p), turn))
  /\ at' = [at EXCEPT ![p] = @ + 1]
  /\ UNCHANGED <<vars, loop, turn>>

DrawLoopEnds ==
  /\ loop = "draw" /\ \A p \in Threads : ~Active(p)
  /\ StartLoop("discard", turn, discard_vertices)
  /\ UNCHANGED <<vars, val>>

DiscardIteration(p) ==
  /\ loop = "discard" /\ Active(p)
  /\ Set(Vertex(p), LAMBDA f : DiscardValue(f, Vertex(p), turn))
  /\ at' = [at EXCEPT ![p] = @ + 1]
  /\ UNCHANGED <<vars, loop, turn>>

\* Mutant of DiscardLoopEnds: the turn does not advance.
DiscardLoopRepeats ==
  /\ loop = "discard" /\ \A p \in Threads : ~Active(p)
  /\ IF turn > input.t_min THEN StartLoop("draw", turn, draw_vertices)
     ELSE loop' = "over" /\ UNCHANGED <<turn, at>>
  /\ UNCHANGED <<vars, val>>

DiscardLoopEnds ==
  /\ loop = "discard" /\ \A p \in Threads : ~Active(p)
  /\ IF turn > input.t_min THEN StartLoop("draw", turn - 1, draw_vertices)
     ELSE loop' = "over" /\ UNCHANGED <<turn, at>>
  /\ UNCHANGED <<vars, val>>

StatsInit ==
  /\ Init
  /\ loop = "none" /\ turn = input.t_max /\ at = [p \in Threads |-> 1] /\ val = <<>>

\* The answers are read off the evaluated graph.
Searching ==
  /\ Start \/ Shallow \/ DrawHit \/ DrawNew \/ DiscardHit \/ DiscardNew \/ DrawTile
       \/ DiscardTile \/ DrawBack \/ DiscardBack \/ Done
  /\ UNCHANGED evaluation
Reporting ==
  /\ loop = "over" /\ (ReportDraw \/ ReportDiscards)
  /\ UNCHANGED evaluation

StatsNext ==
  \/ Searching \/ Reporting \/ BeginStats
  \/ \E p \in Threads : DrawIteration(p) \/ DiscardIteration(p)
  \/ DrawLoopEnds \/ DiscardLoopEnds
  \/ Finished /\ UNCHANGED evaluation

\* The thread that serves the call keeps running: weak fairness of StatsNext, which
\* is enabled until the call is done.
KeepsRunning == <>[](phase = "done") \/ []<><<StatsNext>>_<<vars, evaluation>>
StatsSpec == StatsInit /\ [][StatsNext]_<<vars, evaluation>> /\ KeepsRunning

-----------------------------------------------------------------------------
(* What an iteration reads and writes, as <<vertex, turn>>.                *)
Reads(v) ==
  IF loop = "draw" THEN {<<v, turn + 1>>} \cup {<<e.target, turn + 1>> : e \in draw_edges(v)}
  ELSE {<<e.source, turn>> : e \in selection_edges(v)}

\* Two iterations that may run at the same time never touch what the other one
\* writes: a loop reads nodes of the other kind, or turns of the loops before it.
NoDataRace ==
  loop \in {"draw", "discard"} =>
    \A p, q \in Threads : p # q /\ Active(p) /\ Active(q) =>
      Vertex(p) # Vertex(q) /\ <<Vertex(q), turn>> \notin Reads(Vertex(p))

\* The recursion over turns and hands that the loops stand for, evaluated one value after
\* the other: a draw node averages what its draws lead to one turn later, a discard node
\* chooses.  The average is the code's, over sum - t tiles; docs/expected_score_calculation.md
\* keeps the total of the wall the same at every turn.
Gain(E, f, t, e) ==
  IF e.score = <<>> THEN E[<<f, t + 1, e.target>>]
  ELSE IF f # "exp_score" THEN Scale(t + 1)
  ELSE Max({E[<<f, t + 1, e.target>>], (IF e.score[3] THEN 2 ELSE 1) * Scale(t + 1)})

Sequential(E, f, t, v) ==
  IF vertices[v].node = "discard_node"
  THEN Max({0} \cup {E[<<f, t, e.source>>] : e \in selection_edges(v)})
  ELSE IF f = "tenpai_prob" /\ vertices[v].tenpai THEN Scale(t)
  ELSE IF t = input.t_max THEN 0
  ELSE LET others == WallTotal - t - SumFunction([e \in draw_edges(v) |-> e.weight])
       IN  others * E[<<f, t + 1, v>>]
           + SumFunction([e \in draw_edges(v) |-> e.weight * Gain(E, f, t, e)])

Expected ==
  LET E[x \in Fields \X Turns \X DOMAIN vertices] == Sequential(E, x[1], x[2], x[3])
  IN  E

\* However the threads interleave, the loops compute what evaluating the code's recursion
\* over turns and hands sequentially gives: none of them reads a value that is not there
\* yet or has been overwritten.
StatsAreTheRecursion ==
  phase = "done" /\ input.calc_stats =>
    \A v \in DOMAIN vertices, f \in Fields, t \in Turns : val[v][f][t] = Expected[<<f, t, v>>]

\* The search and the evaluation end, and the call is answered: the hands form
\* cycles, and the loops of all threads must come to their ends.
CalcReturns == <>(phase = "done")
=============================================================================
