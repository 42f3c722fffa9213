----------------------------- MODULE ScoreGraph -----------------------------
(***************************************************************************)
(* ExpectedScoreCalculator::calc: from a hand, a wall and a configuration  *)
(* to the graph of hands that can be reached, and to the list of answers.  *)
(* draw_node and discard_node call each other recursively; frames is the   *)
(* call stack.  Both work on one hand and one wall, which they change in   *)
(* place before a call and restore after it, and on caches that a vertex   *)
(* enters before the calls made for it return.  The probabilities that     *)
(* calc_stats computes on the finished graph are not part of this module.  *)
(***************************************************************************)
EXTENDS HandShape, SequencesExt

CONSTANTS Inputs  \* the calls of calc

\* What the validation of a request and the types guarantee: a red five of the hand is
\* counted as a five too, hand and wall have no tile more often than there is, and the
\* hand has no more than 14 tiles with its melds.
Validated(i) ==
  /\ i.hand \in [Tiles -> Nat] /\ i.wall \in [Tiles -> Nat]
  /\ \A r \in Reds : i.hand[r] <= i.hand[Five(r)] /\ i.hand[r] + i.wall[r] <= 1
  /\ \A k \in Kinds : i.hand[k] + i.wall[k] <= 4
  /\ SumFunctionOnSet(i.hand, Kinds) + 3 * (4 - NumGroups) <= 14
  /\ i.extra \in Int

ASSUME InputAssumption == \A i \in Inputs : Validated(i)

Null == 37        \* Tile::Null

VARIABLES
  input,                     \* the arguments of calc
  phase,                     \* "start", "search", "done"
  wall,                      \* the wall after normalisation
  hand,                      \* player.hand: a red five is counted as a five too
  hand_counts, wall_counts,  \* the same with red fives counted once
  hand_org, shanten_org,     \* the hand the search starts from
  frames, returned,          \* calls in progress; the vertex a call has just returned
  vertices, edges,           \* the graph, vertices with the hands they were made for
  cache1, cache2,            \* draw nodes and discard nodes by hand
  draw_vertices, discard_vertices,  \* draw nodes and discard nodes, oldest first
  stats

vars == <<input, phase, wall, hand, hand_counts, wall_counts, hand_org, shanten_org,
          frames, returned, vertices, edges, cache1, cache2, draw_vertices,
          discard_vertices, stats>>
tiles == <<hand, hand_counts, wall_counts>>
nodes == <<cache1, cache2, draw_vertices, discard_vertices>>
graph == <<vertices, edges, nodes>>
given == <<input, wall, hand_org, shanten_org>>

None == 0

-----------------------------------------------------------------------------
(* Counting tiles.                                                         *)

to_merged_count(h) == [t \in Tiles |-> IF \E r \in Reds : t = Five(r)
                                       THEN h[t] + h[CHOOSE r \in Reds : t = Five(r)] ELSE h[t]]
to_separated_count(h) == [t \in Tiles |-> IF \E r \in Reds : t = Five(r) /\ h[r] > 0
                                          THEN h[t] - 1
                                          ELSE IF t \in Reds /\ h[t] > 0 THEN 1 ELSE h[t]]
normalize_red_fives(h) == [t \in Tiles |-> IF t \in Reds THEN 0 ELSE h[t]]

\* Mutant of Change: a red five is not counted as a five.
ChangeIgnoringRed(h, t, n) == [k \in Tiles |-> IF k = t THEN h[k] + n ELSE h[k]]

\* What drawing (n = 1) or discarding (n = -1) a tile does to player.hand.
Change(h, t, n) ==
  [k \in Tiles |-> IF k = t \/ (t \in Reds /\ k = Five(t)) THEN h[k] + n ELSE h[k]]

draw(t) ==
  /\ hand_counts' = [hand_counts EXCEPT ![t] = @ + 1]
  /\ wall_counts' = [wall_counts EXCEPT ![t] = @ - 1]
  /\ hand' = Change(hand, t, 1)

discard(t) ==
  /\ hand_counts' = [hand_counts EXCEPT ![t] = @ - 1]
  /\ wall_counts' = [wall_counts EXCEPT ![t] = @ + 1]
  /\ hand' = Change(hand, t, -1)

distance(h, org) == SumFunction([t \in Tiles |-> IF h[t] > org[t] THEN h[t] - org[t] ELSE 0])

\* Mutant of add_red5_flags: the flags are not set.
add_no_flags(K) == K

add_red5_flags(K) == K \cup {r \in Reds : Five(r) \in K}

-----------------------------------------------------------------------------
(* CacheKey: four integers of octal digits, with flags above the honours.  *)

Octal(h, first, last) ==
  SumFunction([t \in Tiles \cap (first..last) |-> h[t] * 8 ^ (last - t)])

\* The flags of the red fives.
Flags(h) == SumFunction([r \in Reds |-> h[r] * 2 ^ (21 + r - 34)])

\* Mutant of CacheKey: red fives and fives share a digit.
CacheKeyMerged(h, riichi) ==
  LET m == to_merged_count(h)
  IN  <<Octal(m, 0, 8), Octal(m, 9, 17), Octal(m, 18, 26),
        Octal(m, 27, 33) + (IF riichi THEN 2 ^ 24 ELSE 0)>>

\* Mutant of CacheKey: riichi is forgotten.
CacheKeyOfHand(h, riichi) ==
  <<Octal(h, 0, 8), Octal(h, 9, 17), Octal(h, 18, 26),
    Octal(h, 27, 33) + Flags(h)>>

CacheKey(h, riichi) ==
  <<Octal(h, 0, 8), Octal(h, 9, 17), Octal(h, 18, 26),
    Octal(h, 27, 33) + Flags(h) + (IF riichi THEN 2 ^ 24 ELSE 0)>>

-----------------------------------------------------------------------------
(* calc: from the arguments to the first call.                             *)

Call(node, riichi) ==
  [node |-> node, riichi |-> riichi, pc |-> "enter", vertex |-> None, shanten |-> 0,
   useful |-> {}, any |-> FALSE, at |-> -1, weight |-> 0]

Init ==
  /\ input \in Inputs
  /\ phase = "start" /\ wall = input.wall /\ hand = input.hand
  /\ hand_counts = input.hand /\ wall_counts = input.wall
  /\ hand_org = input.hand /\ shanten_org = 0
  /\ frames = <<>> /\ returned = None
  /\ vertices = <<>> /\ edges = {} /\ cache1 = <<>> /\ cache2 = <<>>
  /\ draw_vertices = <<>> /\ discard_vertices = <<>>
  /\ stats = {}

num_tiles(h) == SumFunctionOnSet(h, Kinds) + 3 * (4 - NumGroups)

Prepare(w, h) ==
  /\ wall' = w /\ hand' = h
  /\ wall_counts' = to_separated_count(w)
  /\ hand_counts' = to_separated_count(h)
  /\ hand_org' = to_separated_count(h)
  /\ shanten_org' = Shanten(h)
  /\ frames' = <<Call(IF num_tiles(h) = 13 THEN "draw_node" ELSE "discard_node", FALSE)>>

Start ==
  /\ phase = "start" /\ input.calc_stats
  /\ IF input.reddora THEN Prepare(input.wall, input.hand)
     ELSE Prepare(normalize_red_fives(input.wall), normalize_red_fives(input.hand))
  /\ phase' = "search"
  /\ UNCHANGED <<input, returned, graph, stats>>

-----------------------------------------------------------------------------
(* The recursion.                                                          *)

Top == Last(frames)
Running(node, pc) == phase = "search" /\ frames # <<>> /\ Top.node = node /\ Top.pc = pc
Become(frame) == frames' = Append(Front(frames), frame)
Push(frame, callee) == frames' = Front(frames) \o <<frame, callee>>
Return(v) == frames' = Front(frames) /\ returned' = v

\* The search may leave the original hand behind only so far.
can_extend_search(shanten) == distance(hand_counts, hand_org) + shanten < shanten_org + input.extra

\* A new vertex for the hand, with the tiles that are worth trying.
Expand(shanten, useful, allowed) ==
  /\ vertices' = Append(vertices, [node |-> Top.node, hand |-> hand_counts, riichi |-> Top.riichi,
                                   tenpai |-> shanten = 0])
  /\ Become([Top EXCEPT !.pc = "loop", !.vertex = Len(vertices) + 1, !.shanten = shanten,
                        !.useful = add_red5_flags(useful),
                        !.any = allowed /\ ~Top.riichi /\ can_extend_search(shanten)])
  /\ UNCHANGED <<phase, given, tiles, returned, edges, stats>>

\* A cache with the new vertex.
Entered(cache, key) ==
  [k \in DOMAIN cache \cup {key} |-> IF k = key THEN Len(vertices) + 1 ELSE cache[k]]

DrawHit ==
  /\ Running("draw_node", "enter")
  /\ LET key == CacheKey(hand_counts, Top.riichi)
     IN key \in DOMAIN cache1 /\ Return(cache1[key])
  /\ UNCHANGED <<phase, given, tiles, graph, stats>>

\* Mutant of DrawNew: the vertex is not entered into the cache.
DrawNewUncached ==
  /\ Running("draw_node", "enter")
  /\ CacheKey(hand_counts, Top.riichi) \notin DOMAIN cache1
  /\ draw_vertices' = Append(draw_vertices, Len(vertices) + 1)
  /\ Expand(Shanten(hand), Necessary(hand), input.tegawari)
  /\ UNCHANGED <<cache1, cache2, discard_vertices>>

DrawNew ==
  /\ Running("draw_node", "enter")
  /\ LET key == CacheKey(hand_counts, Top.riichi)
     IN key \notin DOMAIN cache1 /\ cache1' = Entered(cache1, key)
  /\ draw_vertices' = Append(draw_vertices, Len(vertices) + 1)
  /\ Expand(Shanten(hand), Necessary(hand), input.tegawari)
  /\ UNCHANGED <<cache2, discard_vertices>>

DiscardHit ==
  /\ Running("discard_node", "enter")
  /\ LET key == CacheKey(hand_counts, Top.riichi)
     IN key \in DOMAIN cache2 /\ Return(cache2[key])
  /\ UNCHANGED <<phase, given, tiles, graph, stats>>

DiscardNew ==
  /\ Running("discard_node", "enter")
  /\ LET key == CacheKey(hand_counts, Top.riichi)
     IN key \notin DOMAIN cache2 /\ cache2' = Entered(cache2, key)
  /\ discard_vertices' = Append(discard_vertices, Len(vertices) + 1)
  /\ Expand(Shanten(hand), Unnecessary(hand), input.shanten_down)
  /\ UNCHANGED <<cache1, draw_vertices>>

\* Mutant of Remaining: a tile is tried whether there is one or not.
RemainingOfAny(counts) == {t \in Tiles : t > Top.at /\ (Top.any \/ t \in Top.useful)}

\* The tiles the loop of the top frame has still to try, given what there is of each.
Remaining(counts) ==
  {t \in Tiles : t > Top.at /\ counts[t] # 0 /\ (Top.any \/ t \in Top.useful)}

\* Mutant of DrawTile: the weight is read after the draw.
DrawTileThenWeigh ==
  /\ Running("draw_node", "loop") /\ Remaining(wall_counts) # {}
  /\ LET t == Min(Remaining(wall_counts))
     IN  /\ draw(t)
         /\ Push([Top EXCEPT !.pc = "await", !.at = t, !.weight = wall_counts'[t]],
                 Call("discard_node", Top.riichi))
  /\ returned' = None
  /\ UNCHANGED <<phase, given, graph, stats>>

DrawTile ==
  /\ Running("draw_node", "loop") /\ Remaining(wall_counts) # {}
  /\ LET t == Min(Remaining(wall_counts))
     IN  /\ draw(t)
         /\ Push([Top EXCEPT !.pc = "await", !.at = t, !.weight = wall_counts[t]],
                 Call("discard_node", Top.riichi))
  /\ returned' = None
  /\ UNCHANGED <<phase, given, graph, stats>>

\* A discard that keeps a closed hand tenpai declares riichi.
call_riichi(t) == (input.closed /\ Top.shanten = 0 /\ t \in Top.useful) \/ Top.riichi

DiscardTile ==
  /\ Running("discard_node", "loop") /\ Remaining(hand_counts) # {}
  /\ LET t == Min(Remaining(hand_counts))
     IN  /\ discard(t)
         /\ Push([Top EXCEPT !.pc = "await", !.at = t, !.weight = wall_counts'[t]],
                 Call("draw_node", call_riichi(t)))
  /\ returned' = None
  /\ UNCHANGED <<phase, given, graph, stats>>

\* The score of a complete hand, as what it depends on; <<>> is 0, for a hand without yaku.
calc_score(h, t, riichi) == IF input.closed \/ input.yaku THEN <<h, t, riichi>> ELSE <<>>

has_edge(s, t) == \E e \in edges : e.source = s /\ e.target = t

AddEdge(s, t, score) ==
  edges' = IF has_edge(s, t) THEN edges
           ELSE edges \cup {[source |-> s, target |-> t, weight |-> Top.weight, score |-> score]}

\* Mutant of DrawBack: the hand is not restored when the edge is there already.
DrawBackEarly ==
  /\ Running("draw_node", "await") /\ returned # None
  /\ AddEdge(Top.vertex, returned,
             IF Top.shanten = 0 /\ Top.at \in Top.useful
             THEN calc_score(hand_counts, Top.at, Top.riichi) ELSE <<>>)
  /\ IF has_edge(Top.vertex, returned) THEN UNCHANGED tiles ELSE discard(Top.at)
  /\ Become([Top EXCEPT !.pc = "loop"]) /\ returned' = None
  /\ UNCHANGED <<phase, given, vertices, nodes, stats>>

DrawBack ==
  /\ Running("draw_node", "await") /\ returned # None
  /\ AddEdge(Top.vertex, returned,
             IF Top.shanten = 0 /\ Top.at \in Top.useful
             THEN calc_score(hand_counts, Top.at, Top.riichi) ELSE <<>>)
  /\ discard(Top.at)
  /\ Become([Top EXCEPT !.pc = "loop"]) /\ returned' = None
  /\ UNCHANGED <<phase, given, vertices, nodes, stats>>

\* Mutant of DiscardBack: only draw_node computes scores.
DiscardBackUnscored ==
  /\ Running("discard_node", "await") /\ returned # None
  /\ draw(Top.at)
  /\ AddEdge(returned, Top.vertex, <<>>)
  /\ Become([Top EXCEPT !.pc = "loop"]) /\ returned' = None
  /\ UNCHANGED <<phase, given, vertices, nodes, stats>>

DiscardBack ==
  /\ Running("discard_node", "await") /\ returned # None
  /\ draw(Top.at)
  /\ AddEdge(returned, Top.vertex,
             IF Top.shanten = -1 THEN calc_score(hand_counts', Top.at, Top.riichi) ELSE <<>>)
  /\ Become([Top EXCEPT !.pc = "loop"]) /\ returned' = None
  /\ UNCHANGED <<phase, given, vertices, nodes, stats>>

Done ==
  /\ phase = "search" /\ frames # <<>> /\ Top.pc = "loop"
  /\ Remaining(IF Top.node = "draw_node" THEN wall_counts ELSE hand_counts) = {}
  /\ Return(Top.vertex)
  /\ UNCHANGED <<phase, given, tiles, graph, stats>>

-----------------------------------------------------------------------------
(* The answers: for 13 tiles one, for 14 one per tile that can be          *)
(* discarded and leads to a draw node the search has met.                  *)

\* h is player.hand after the discard.
StatWith(t, v, h, w) ==
  [tile |-> t, vertex |-> v, shanten |-> Shanten(h),
   necessary_tiles |-> {<<k, w[k]>> : k \in Necessary(h)}]
Stat(t, v, h) == StatWith(t, v, h, wall)

ReportDraw ==
  /\ phase = "search" /\ frames = <<>> /\ num_tiles(hand) = 13
  /\ stats' = {Stat(Null, returned, hand)}
  /\ phase' = "done"
  /\ UNCHANGED <<given, tiles, frames, returned, graph>>

\* Mutant of KeyAfter: the node is looked up as if no discard declared riichi.
KeyAfterWithoutRiichi(t) == CacheKey([hand_counts EXCEPT ![t] = @ - 1], FALSE)

\* The draw node calc_discard_hand looks up for a tile.
KeyAfter(t) ==
  CacheKey([hand_counts EXCEPT ![t] = @ - 1],
           input.closed /\ Shanten(hand) = 0 /\ t \in add_red5_flags(Unnecessary(hand)))

ReportDiscards ==
  /\ phase = "search" /\ frames = <<>> /\ num_tiles(hand) # 13
  /\ stats' = {Stat(t, cache1[KeyAfter(t)], Change(hand, t, -1)) :
                 t \in {u \in Tiles : hand_counts[u] > 0 /\ KeyAfter(u) \in DOMAIN cache1}}
  /\ phase' = "done"
  /\ UNCHANGED <<given, tiles, frames, returned, graph>>

\* Without statistics there is no search: one answer, or one per tile of the hand.
Answer(w, h, counts) ==
  /\ wall' = w /\ hand' = h /\ wall_counts' = to_separated_count(w) /\ hand_counts' = counts
  /\ stats' = IF num_tiles(h) = 13 THEN {StatWith(Null, None, h, w)}
              ELSE {StatWith(t, None, Change(h, t, -1), w) : t \in {u \in Tiles : counts[u] > 0}}

Shallow ==
  /\ phase = "start" /\ ~input.calc_stats
  /\ LET h == IF input.reddora THEN input.hand ELSE normalize_red_fives(input.hand)
         w == IF input.reddora THEN input.wall ELSE normalize_red_fives(input.wall)
     IN  Answer(w, h, to_separated_count(h))
  /\ phase' = "done"
  /\ UNCHANGED <<input, hand_org, shanten_org, frames, returned, graph>>

Finished == phase = "done" /\ UNCHANGED vars

Next ==
  \/ Start \/ Shallow \/ DrawHit \/ DrawNew \/ DiscardHit \/ DiscardNew
  \/ DrawTile \/ DiscardTile \/ DrawBack \/ DiscardBack \/ Done
  \/ ReportDraw \/ ReportDiscards \/ Finished

Spec == Init /\ [][Next]_vars

-----------------------------------------------------------------------------
(* Properties.                                                             *)

\* All there is of each tile: what is not in the hand is in the wall.
Total == [t \in Tiles |-> hand_org[t] + to_separated_count(wall)[t]]

Is(v, node, h, riichi) ==
  v \in DOMAIN vertices /\ vertices[v].node = node /\ vertices[v].hand = h /\ vertices[v].riichi = riichi

\* Discarded tiles go back to the wall and none is drawn that is not there; the hand
\* that the shanten calculators see (red fives counted twice) and the one that is
\* the key of the caches (counted once) never drift apart.
TilesConserved ==
  phase = "search" =>
    /\ \A t \in Tiles : hand_counts[t] >= 0 /\ wall_counts[t] >= 0
    /\ \A t \in Tiles : hand_counts[t] + wall_counts[t] = Total[t]
    /\ hand = to_merged_count(hand_counts)

\* A call that returns has undone every change of the hand, and what it returns is
\* the vertex of the hand and riichi it was called with, whether it was found in the
\* cache or has just been built by calls that changed the same hand many times.  No
\* hand has two vertices, however many paths lead to it and although the paths have
\* cycles: the caches are filled before the calls below, not after.
NodesOwnTheirHands ==
  /\ phase = "search" =>
       IF frames = <<>> THEN Is(returned, vertices[1].node, hand_org, FALSE)
       ELSE /\ Top.pc = "loop" => Is(Top.vertex, Top.node, hand_counts, Top.riichi)
            /\ Top.pc = "await" =>
                 IF Top.node = "draw_node" THEN Is(returned, "discard_node", hand_counts, Top.riichi)
                 ELSE Is(returned, "draw_node", hand_counts, call_riichi(Top.at))
  /\ \A i, j \in DOMAIN vertices :
       vertices[i].node = vertices[j].node /\ vertices[i].riichi = vertices[j].riichi
         /\ vertices[i].hand = vertices[j].hand => i = j

Completes(h) == Shanten(to_merged_count(h)) = -1

\* An edge may be added by the node that draws a tile or by the one that discards
\* it, whichever comes first: either way it joins two hands that differ by one tile,
\* weighs as much as there is of that tile in the wall when it is drawn, and has a
\* score exactly if the draw completes the hand.
EdgesAreDraws ==
  phase = "done" =>
    \A e \in edges :
      LET s == vertices[e.source]
          d == vertices[e.target]
      IN  /\ s.node = "draw_node" /\ d.node = "discard_node"
          /\ \E t \in Tiles :
               /\ d.hand = [s.hand EXCEPT ![t] = @ + 1]
               /\ e.weight = Total[t] - s.hand[t]
               /\ e.score = IF Completes(d.hand) THEN calc_score(d.hand, t, d.riichi) ELSE <<>>

Kind(t) == IF t \in Reds THEN Five(t) ELSE t

\* Which draws and discards the search is meant to consider, by the hand alone.
Wants(v, allowed, useful) ==
  LET h == to_merged_count(v.hand)
  IN  IF allowed /\ ~v.riichi
           /\ distance(v.hand, hand_org) + Shanten(h) < shanten_org + input.extra
      THEN Tiles ELSE {t \in Tiles : Kind(t) \in useful}

Declares(v, t) ==
  LET h == to_merged_count(v.hand)
  IN  v.riichi \/ (input.closed /\ Shanten(h) = 0 /\ Kind(t) \in Unnecessary(h))

\* Although every call is answered from a half-filled cache, the finished graph has
\* all the draws and all the discards of each of its hands, and only those.
GraphIsComplete ==
  phase = "done" /\ input.calc_stats =>
    LET Key(v) == <<v.hand, v.riichi>>
        Joins == {<<Key(vertices[e.source]), Key(vertices[e.target])>> : e \in edges}
        Draws(v) == {<<Key(v), <<[v.hand EXCEPT ![t] = @ + 1], v.riichi>> >> :
                       t \in {u \in Wants(v, input.tegawari, Necessary(to_merged_count(v.hand))) :
                                Total[u] > v.hand[u]}}
        Discards(v) == {<< <<[v.hand EXCEPT ![t] = @ - 1], Declares(v, t)>>, Key(v)>> :
                          t \in {u \in Wants(v, input.shanten_down, Unnecessary(to_merged_count(v.hand))) :
                                   v.hand[u] > 0}}
    IN  Joins = UNION {IF v.node = "draw_node" THEN Draws(v) ELSE Discards(v) : v \in Range(vertices)}

\* With 14 tiles the answers are the choices of the first node: a tile has one exactly
\* if the search considered discarding it first, and it is the value of the hand that
\* discard leads to (with riichi, if it declares it).
AnswersAreChoices ==
  phase = "done" /\ input.calc_stats /\ vertices[1].node = "discard_node" =>
    {<<s.tile, s.vertex>> : s \in stats} =
      {p \in Tiles \X DOMAIN vertices :
         LET t == p[1]
         IN  /\ t \in Wants(vertices[1], input.shanten_down, Unnecessary(to_merged_count(hand_org)))
             /\ hand_org[t] > 0
             /\ Is(p[2], "draw_node", [hand_org EXCEPT ![t] = @ - 1], Declares(vertices[1], t))}

\* After a riichi only a tile that completes the hand is drawn to be looked at; any
\* other one is discarded at once and changes nothing.
RiichiIsFinal ==
  phase = "done" =>
    \A e \in edges : vertices[e.source].riichi => Completes(vertices[e.target].hand)
=============================================================================
