# TLA+ models of mahjong-cpp

Specifications, model-checking configurations and proofs for
[mahjong-cpp](https://github.com/nekobean/mahjong-cpp): a library that computes
shanten numbers, hand scores and expected scores of mahjong hands, an HTTP server
that offers the calculation, and tools that read Tenhou game logs.

Paths below are relative to the repository's `src/` directory unless they start
with `docs/`.

## 1. The system

| Component | State it keeps | Operations | Interacts by |
| --- | --- | --- | --- |
| Worker pool, `server/ThreadPool.hpp` | queue of tasks, `active_tasks`, `stop`, worker threads, one mutex, one condition variable | constructor and worker loop, `enqueue_with_status`, destructor | futures to callers |
| HTTP server, `server/server.cpp` | one detached thread per connection, a static `Server` with the pool (3 workers, 20 waiting) | `do_session`, `handle_request`, `process_http_post`, `process_request`, `run`, `main` | sockets, the pool, the static schema |
| Request parsing, `server/json_parser.cpp` | a function-local static schema | `parse_json`, `deserialize_request` and its checks, `build_*_response` | called by pool workers |
| Request processor, `server/request_processor.cpp` | none | `calculate_result` | calls the calculators, refuses complete hands |
| Expected score calculator, `mahjong/core/expected_score_calculator.cpp` | per call: a graph of hands (draw and discard nodes with caches), statistics per turn | `draw_node` / `discard_node`, `build_edge_csr`, `calc_stats` (OpenMP loops), `calc_uradora_score`, `create_wall` | calls shanten, tile and score calculators |
| Shanten, necessary and unnecessary tiles, `mahjong/core/*_calculator.cpp` | static distance tables | `calc` | tables of `table.cpp` |
| Hand separator, `mahjong/core/hand_separator.cpp` | static pattern tables shared by all threads | `separate` | called by the score calculator |
| Score calculator, `mahjong/core/score_calculator.cpp`, `score_table.hpp` | none | `calc`, `calc_fast`, `get_up_scores`: yaku, fu, dora, payments, choice of the best decomposition | hand separator, score tables |
| Tiles, `mahjong/types/tile.hpp`, `mahjong/core/utils.hpp` | none | codes, order of dora, counting | used everywhere |
| Tenhou replay builder, `tools/tenhou/replay_builder.cpp` | the record under construction: per round the first and last snapshot, events, results | `build_replay`, one handler per kind of event, decoders of tile and call numbers | events of the log reader |
| Log reader, `tools/tenhou/mjlog_*.cpp`, `xml_utils.cpp` | none | compressed XML to typed events | file I/O |
| Table generator, `tools/shanten_table` | the winning patterns of a suit and of the honors | compares every count with every pattern and writes the distance tables | files |
| Score test tool, `tools/score_testcase` | none | records to test cases | files |

Where it is hard:

* **Concurrency and shutdown.** Workers, session threads and the thread that
  destroys the pool interleave. `notify_one` is called outside the mutex,
  `active_tasks` is raised and lowered in different critical sections, session
  threads are detached and outlive `Server::run`, the schema is a static whose
  initialiser can throw.
* **Limits.** The queue refuses work at its limit; `will_wait` and the warning
  logged from it are derived from counters that other threads change.
* **Protocols of events.** A replay is correct only for sequences: a riichi
  is logged twice and may be cancelled in between, a pon may become a kan, a nuki
  leaves no event, UN is repeated when a player reconnects, the liable player of a
  yakuman has to be inferred from payments.
* **Encodings.** Calls are 16-bit numbers in five overlapping layouts; red fives
  have codes of their own and are counted differently in different places.
* **Shared tables.** Pattern tables are static maps that every worker reads with
  `operator[]`; the loops over the graph run on several threads.
* **Tables written by hand.** Points, limits, yaku values, tile masks and the
  distances of the manzu of three-player games are literals: one wrong number shows
  for one hand only.
* **Three ideas of a complete hand.** The distance tables, the pattern tables and
  the tables of special forms each have their own, and are used one after another.
* **Search with undo.** The expected score search changes one hand and one wall
  in place and relies on restoring them, while caches fill up; an edge of its graph
  stands for a draw and for the discard before it, and either side may add it.

What correctness means for each component: *pool* - each accepted task is run
exactly once, in order, nobody sleeps while there is work, destruction drains and
ends; *server* - each client gets the answers of its own requests in order,
and no load or bad request takes the process down; *replay* - the
record agrees with the table after each event and with the log's own summary at
the end; *calculators* - equal to a reference definition, no state left behind by
the search, no iteration of a loop reading what another one writes; *scores* - what
the rules pay, whatever the suit, and the best reading of a hand; *requests* - in what
is accepted nothing is overdrawn, an answer repeats what it answers, and what it says of
the hand is so.

## 2. Modules

| Module | Models |
| --- | --- |
| `ThreadPool` | `server/ThreadPool.hpp` completely |
| `TaskService` | what the pool promises: a first-come first-served service, no threads |
| `MCThreadPool` | an instance of the pool |
| `ThreadPool_proofs` | theorems about `ThreadPool` |
| `Server_proofs` | theorems about `Server`, from those about the pool |
| `Server` | `server/server.cpp` and the control of `json_parser.cpp` and `request_processor.cpp`, composed with `ThreadPool` |
| `MCServer` | instances of the server |
| `Mjlog` | decoding of tile and call numbers in `replay_builder.cpp` |
| `MeldCodes` | every call of a game, as the log encodes it (external), and what decoding should make of it |
| `ReplayBuilder` | `build_replay` and its handlers, as functions on records |
| `ReplayedGame` | a Tenhou game (external) whose events `build_replay` reads |
| `MCReplayedGame` | small deals |
| `Replay_proofs` | theorems about `ReplayedGame` and the handlers of `ReplayBuilder`: events, points, snapshots; calls, their decoding, the hands they leave, and the hand of a winner |
| `HandShape` | what the shanten, necessary and unnecessary tile calculators return, by definition |
| `ScoreGraph` | `ExpectedScoreCalculator::calc`: the recursive search and the answers |
| `ExpectedScore` | between search and answers: `calc_stats` with its parallel loops; extends `ScoreGraph` |
| `ScoreGraph_proofs` | theorems about `HandShape` and `ScoreGraph`: what one tile does to the distance of a hand, the moves of the search; its caches, nodes and edges |
| `ExpectedScore_proofs` | theorems about the answers of `ScoreGraph` and about `ExpectedScore` |
| `MCScoreGraph` | small hands |
| `Tiles` | `tile.hpp` and the counting of `utils.hpp` |
| `ScoreTable` | `score_table.hpp` |
| `HandSeparator` | the decomposition of a hand into blocks |
| `HandSeparator_proofs` | lemmas about lists of tiles: what `to_hand` counts, what flattening gives |
| `ScoreCalculator` | `score_calculator.cpp`: yaku, fu, dora, the choice of the reading, payments |
| `Uradora` | the score of a win in the expected score calculator, averaged over ura dora |
| `Wins`, `MCWins` | complete hands put to `ScoreCalculator` and `Uradora`; families of hands |
| `Wins_proofs` | theorems about the answers of `ScoreCalculator`, for any family of hands |
| `SeparatorTables`, `MCSeparatorTables` | the static maps of `hand_separator.cpp`, shared by the server's workers |
| `ShantenTables` | the table generator, the tables and the three calculators that join them |
| `Requests`, `MCRequests` | a request from parsed document to answer: `json_parser.cpp`, `request_processor.cpp`, `create_wall` |
| `Requests_proofs` | theorems about `Requests`, from the lemmas of `HandSeparator_proofs`, and from what the entries of the tables and their joins are |

Definitions named "... Mutant of X" are slips a programmer could make in the code
X models. They are used by no specification; putting one in X's place must
break the property it is listed with in `PROJECT.json`.

### ThreadPool

The variables are the members of the class (`tasks`, `active_tasks`, `stop`), a
position `pc` and the local `task` per worker, how far each call of
`enqueue_with_status` and the destructor have come, and the set `ready` of calls
whose future has a value. Each block of code that holds `queue_mutex` is one
action: `Sleep`, `Exit` and `Take` are the three outcomes of the first block of the
worker loop, `Retire` is the second, `RefuseStopped`, `RefuseFull` and `Accept`
are the outcomes of the block in `enqueue_with_status`, `Stop` the one in the
destructor. The mutex itself is not a variable: a block that holds it touches
nothing another thread can see in between. What the code does without the mutex
is an action of its own: `Run` (the task), `NotifyAll`, `NotifyOne`, `StopNotify`,
`Join`. A notified worker goes back to `lock` and competes for the mutex with
everybody else. Spurious wakeups are allowed. The limit of waiting tasks is the
parameter `MaxWaiting`.

`TaskService` has a waiting line, tasks in progress, finished and refused ones.
Under the mapping `Service` of `ThreadPool` a task is in progress from `Take` to `Run`.

### Server

A session is the loop of `do_session`: `Read`, then `Enqueue` / `Busy` / `Abort`
(the three outcomes of the pool's critical section as `process_http_post` sees
them), `Notify`, `Get` (`future.get()`), `Write` or `WriteFails`. A worker's task is
`process_request`: `Parse`, `GetSchema`, `LoadSchema` or `LoadFails`, `Validate`,
`Calculate`; each error path stores an error document in the future (`Respond`).
The variable `schema` is the static of `get_request_schema` with the guard the
language gives it: one thread initialises, others block, an exception leaves it
unset. `AcceptFails`, `DestroySchema`, `Destroy` and `Exit` are the end of `main`: `run`
returns, the statics are destroyed while sessions and workers may go on, then the
process is gone. Statics go in the reverse order of their construction, so the schema,
which the first request constructs, goes before the `Server` with its pool: at once
(`AcceptFails`), or, if it was still being loaded, when it is there before the
destructor of the `Server` begins (`DestroySchema`). A worker that then validates with the
destroyed schema is undefined behaviour: it dies (`ValidateCrashes`) or gives an answer
of any kind, `undefined` (`Validate`). `Abort` is `std::terminate`: "enqueue on stopped
ThreadPool" is caught by nobody.

Requests are records of what the code branches on: method, whether the target is
legal, keep-alive and the fate of the body (not JSON; not conforming to the
schema; rejected by a later check; good). The member `ip`, which `process_request`
reads between parsing and deserialising, is only logged and is left out.

### Mjlog and MeldCodes

`decode_chi`, `decode_pon`, `decode_kakan` and `decode_kan` are the branches of
`decode_meld`, `Decoded` the body of the loop of `decode_melds`; masks and shifts are
`Bits(v, lo, n)`. The encoders belong to the log's producer and are external.
`MeldCodes` has no state: `DecodedAsMade`, stated with the properties of
`ReplayedGame`, compares the calls a game can have with their decoding.

### ReplayBuilder and ReplayedGame

`ReplayBuilder` maps a record and an event to the record the code leaves; names are
the code's. Left out are members copied without a decision: rules, ranks, yaku,
fu, limits, ura dora. `e.pao_yaku` stands for "the winner's yaku contain one that
knows liability". Assertions of the code (a tile removed is there, a call decodes)
follow from `RecordFollowsTable` and `DecodedAsMade`.

`ReplayedGame` plays a round by the rules, in tile numbers: hands `held`, the call
codes a winner's AGARI would list, points, deposits. Each action logs its event
and applies `build_replay` to the record. Events come in the orders the log can
have: REACH 1, discard, then either a win on it or REACH 2; kan, draw and dora; two
AGARI after one discard; UN in the middle of a round. Not played: the rules that
decide whether a hand is complete (any hand may win), furiten, seat-dependent
amounts (only signs and sums matter to the builder), a tsumo with several yakuman of
which somebody is liable for one (the others pay their part of the rest, and
`replay_builder.cpp:168` takes nobody for liable), draws by nine terminals,
four winds, four riichi and three rons.

### HandShape and ScoreGraph

`HandShape` says what the three calculators mean: the distance of a hand to the
closest complete hands, the tiles these have and the hand lacks, and the other way
round. `ShantenTables` is how the code finds this from tables, and
`CalculatorsFindTheClosest` compares the two.

`ScoreGraph` runs `calc`. `hand` is `player.hand`, where a red five counts as a five
as well; `hand_counts` and `wall_counts` count it once; `cache1` and `cache2` are
the caches of draw and discard nodes, keyed by the packed `CacheKey`. `frames` is
the call stack of `draw_node` and `discard_node`; a frame holds the locals that live
across a call (riichi, vertex, shanten, the tiles worth trying, the loop index, the
weight) and a position: `enter`, `loop` or `await`. `DrawHit` / `DrawNew` are the
cache hit and the expansion, `DrawTile` the part of the loop before the recursive
call, `DrawBack` the part after it, `Done` the return; likewise for discards.
`returned` is the value of the call that has just returned. At the end
`ReportDraw` or `ReportDiscards` collect the answers; `Shallow` is `calc` without
statistics.

A vertex carries the hand and riichi it was made for, which the code does not
store; they serve the properties and no action reads them. `draw_vertices` and
`discard_vertices` are the code's lists of the vertices of each kind, over which the
evaluation loops. The chains of edges are a set. A score of the graph is the triple it is computed from (complete hand, winning tile,
riichi), `<<>>` for a hand without yaku: a closed hand always has one (it is won by
tsumo), for an open one it is a parameter. What such a win is worth is the subject
of `Uradora`.

### ExpectedScore

The evaluation starts when the search is over (`BeginStats`) and ends before the
answers are read off. Turns run from `t_max` down to `t_min`; each has a loop over
the draw nodes and one over the discard nodes. `DrawIteration(p)` and
`DiscardIteration(p)` are one iteration of thread `p`; the iterations of a loop are
divided into consecutive chunks (OpenMP's static schedule, external), and
`DrawLoopEnds` / `DiscardLoopEnds` are the barrier. `val` has the three statistics
of each vertex by turn. A value is multiplied with `Scale(t)`, the product of the
numbers of tiles left from turn `t` on, so that all are natural numbers; rounding of
doubles is therefore not modelled. A win after riichi is worth 2, others 1.

### Tiles, ScoreTable, HandSeparator, ScoreCalculator

Operators with the code's names. A hand is a function of the 37 codes in which a red
five counts under two of them, as in the code. Yaku are strings, a set of them in
place of a bit mask; the han of a yaku, open and closed, are two functions.
`create_block_patterns` is a recursive function over the blocks in the order of the
code; a pattern file's content is defined by `SuitPatterns` and `HonorPatterns` (all
splits of a count). Lookups outside a table (`fu_to_index` is -1) give any of the
values of `Garbage`, and `calc` returns the set of its possible answers: one
everywhere else. The masks for tiles of a kind (terminals, green tiles, simples) are
sets that are the same for every suit; the code's octal literals are not written
digit by digit, so a wrong digit in one of them is outside of what `SuitsAreAlike` can
see. Left out: messages of failed calls and the text of results.

### Uradora

`calc_uradora_distribution` folds `TakeIndicators` over the 34 kinds; a
choice is a number of indicators taken, of ura dora they show (12 at most), and of
ways to do so. Probabilities are left as numbers of ways, out of `AllWays`.

### Wins

A hand is collected group by group (`Collect`), then a concealed tile of it is the
winning tile in one of the situations of its family (`Win`); `NextHand` begins
again. Families are chosen in `MCWins` so that each yaku, kind of wait, block and
limit occurs, red fives, double indicators and three-player games included.

### SeparatorTables

`Search` is `std::map::operator[]` finding a key or finding that it is not there;
`Insert` is entering it. Key 0 (an empty suit) is in neither of the pattern files: of
the 21742 keys of `suits_patterns.json` and the 497 of `honors_patterns.json`, none
is 0, and they are exactly the counts that can be split into groups and a pair.

### ShantenTables and Requests

`Entry` is what the generator writes for a count and a number of groups, with or
without a pair: the distance to the closest patterns, the tiles these have and lack.
The tables hold the entries that the requests at hand look up. Masks of tiles are
sets. `add1` and `add2` are the joins of the code; joining in place from the highest
index down is joining from the old values, which is how they are written. The table of
manzu for three-player games is the literal of `table.cpp`.

A state of `Requests` is one request: `MakeRequest`, three validations in order,
`Calculate` (refusing complete hands), `Respond`. Any check that fails leads to
`Refuse`. A wall the client sends replaces the generated one. `build_success_response`
writes the request back: `serialize_input` has the game, the indicators, the hand, the melds, the
norths and the wall, and none of the options; those are in the configuration that the
answer states beside the input, of which the model has the red fives, the turns and the
number of tiles. Winds of round and seat, the version, and the options about ura dora
and the search are copied and decide nothing here; they are left out. `SchemaAssumption`: documents
have the types and ranges of `request_schema.json`. `LookupsAssumption`: what the
calculators look up for an accepted document (`Needed`), for open hands also with a tile
drawn or discarded (`Neighbors`), is among `Lookups`. In the code
the tables have every count of a suit and of the honors; `Lookups` only bounds how much of
them TLC computes.

## 3. Runs

| Run | Instance | Shows |
| --- | --- | --- |
| `pool` | 3 workers, 3 calls, 2 waiting, fairness | `TypeOK`, `ActiveTasksExact`, `ExactlyOnce`, `NoLostWakeup`, `NotWaitingIsTrue`, `DrainedBeforeDestroyed`, `DestructorReturns`, `ImplementsTaskService` |
| `server` | 2 sessions with 2 requests each of 3 kinds (GET, rejected, good), 2 workers, 1 waiting | `OwnAnswer`, `EveryTaskIsAwaited`, `AbortOnlyInShutdown` |
| `server_liveness` | 2 sessions with 1 request each of 3 kinds (malformed, nonconforming, good), 2 workers, 1 waiting, fairness | `EveryRequestIsServed`, `ShutdownEnds` |
| `replay` | all 7028 calls; 4 players, 4 deals of 1 to 3 tiles, walls of 3 to 6; 3 players, 2 deals; 4 players, 2 rounds of 2 draws, 1 reconnection | `DecodedAsMade`, `RecordFollowsTable`, `WinnerAgrees`, `EventsReproduceLast`, `PaoRecovered`, `PointsAddUp` |
| `score_graph` | 61 hands of 4 and 5 tiles, 20 configurations on one thread and 2 on three, 3 turns | `TilesConserved`, `NodesOwnTheirHands`, `EdgesAreDraws`, `GraphIsComplete`, `AnswersAreChoices`, `NoDataRace`, `StatsAreTheRecursion`, `CalcReturns` |
| `riichi_final` | the same hands | violation: see 5 |
| `scoring` | 16 families of hands, 1 to 11 situations each | `PaidByTheRules`, `SplitsTheHand`, `BestReadingIsPaid`, `SuitsAreAlike`, `EveryDoraCounts`, `CallingNeverPays`, `UradoraIsAverage` |
| `scoring_high_fu` | one hand of 110 fu and two han | violation: see 5 |
| `nuki_uradora` | one three-player hand with an extracted north | violation: see 5 |
| `requests` | 708 requests | `NothingIsOverdrawn`, `AnswerRepeatsInput`, `CompleteIsRefused`, `TilesMoveTheHand`, `CalculatorsFindTheClosest`, `SanmaTableIsComputed` |
| `short_wall` | one request with a wall of five tiles | violation: see 5 |
| `pattern_race` | 2 workers | violation: see 5 |

**Bounds.** In the pool, 3 calls against 2 waiting places and 3 workers let
the queue fill up while the workers are slow, a call be refused, and the queue drain
through all workers; a worker can be at each position while another one is. The
theorems of section 4 lift the safety properties to any numbers. In the server
one waiting place lets both sessions meet a full queue only while both workers are
slow, so it needs a second request; that is why sessions make two. The kinds of
request are divided between the two runs: each has one for every way a session or
worker can take with it, and both have the good one, after which the connection goes on. `Calls` is
`Sessions \X 1..MaxRequests`: the n-th request of a session. Replay deals are small because `build_replay` does nothing
that depends on the size of a hand; the deals were chosen so that each kind of
call, red fives in and out of a call, a kan after a pon, a win on the added tile
and a riichi won on its own discard all occur. The draw by four kans needs as
many kans as `KansToAbort` says (1 in these deals).

The hands of `score_graph` have three melds, so a group and a pair are to be made
from four or five tiles, and consist of manzu 4, 5, red 5 and 6 and the east wind.
That is enough for shanten numbers from 2 to -1, waits on one and on several tiles,
a red five beside its kind, hands that are reached along several paths and from
themselves, and graphs of dozens of nodes. Neighbouring manzu 3 and 7 are in `Kinds`
although the wall has none: with them the closest complete hands are as among
all 34 kinds, as far as the tiles in play and the hand are concerned. The search is
deterministic, so a run is the set of all its searches. `extra` is 0 or 1.

The evaluation has 3 turns and a wall of 12 tiles (`t_max`, `sum`): the last turn,
a turn that reads it, and one that reads a computed turn. Three threads divide loops
into chunks of different sizes; hands are few, so that some loops have fewer
iterations than threads.

In `requests`, four and five tiles over six kinds beside three melds reach every
shanten number from 3 down to a complete hand, in runs with a gap, in suits that stand
alone and in honors; seven and eight tiles over three kinds make the division of
groups between suits and the place of the pair matter; closed hands cover the
special forms with threes, fours and more than seven kinds. `CalculatorsFindTheClosest`
compares with a search through all complete hands, which is possible for one group
(section 4 has it for every hand);
`TilesMoveTheHand` needs no such search and covers all of them. Single requests of
`Odd` break one validation each.

In `scoring` the situations cross winds, tsumo and ron, honba, deposits, indicators
and extracted norths. `UradoraIsAverage` tries every choice of one or two
indicators from the tiles not seen.

**Symmetry** is used only in `server`, which has no liveness property; workers and
sessions are interchangeable there and no property tells them apart.

**Deadlock** is checked wherever something runs for ever or ends in an explicit
stuttering action (`Terminated`, `Ended`, `Finished`). It is not for the replay (a
log ends) and for `requests` (a request is answered).

**Fairness.** `WF_vars(Loop(w))`: a worker inside the pool's code keeps going. That
includes entering the mutex: weak fairness suffices because a worker at `lock`
can always take its step when the mutex is free, which assumes that
`std::mutex` does not starve a thread for ever. A task terminates (`Run`):
calculations are finite. Calls and the destructor keep going likewise. Nothing
obliges clients to send, anybody to destroy the pool, `accept` to fail, or a
wakeup to be spurious. `KeepsRunning` of `ExpectedScore` is weak fairness of its
whole next-state relation: the thread that serves a call goes on. It is written out
as `<>[](phase = "done") \/ []<><<StatsNext>>_<<vars, evaluation>>`, since a
step is possible until the call is done.

## 4. Proofs

**`ThreadPool_proofs`** holds for any finite non-empty set of workers, any set of
calls and any limit (`PoolAssumption`).

* `TypeCorrect`: `Spec => []TypeOK`. That `active_tasks`, an unsigned member,
  stays a natural number when `Retire` lowers it needs `ActiveTasksExact`.
* `ActiveTasksCorrect`: `Spec => []ActiveTasksExact`. Both come from one inductive
  invariant, `CoreInv`: the types, `Holding` (a worker holds a task exactly while
  it runs or retires it) and `ActiveTasksExact`. `QuietStep` gathers the steps
  that leave the set of busy workers and the counter alone; `Take` and `Retire`
  change both by one, by the cardinality lemmas of `FiniteSetTheorems`.
* `ExactlyOnceCorrect`: inductive together with `CoreInv`. `TakeFirst` and
  `AddLast` say what `Tail` and `Append` do to a sequence without repetitions;
  `Take` moves the head from the queue to one worker, `Run` from the worker to
  `ready`, and `Accept` adds a call that was in no place because it was still new.
* `NotWaitingCorrect`: needs `ExactlyOnce`, since the task that leaves the queue
  must not be in it a second time, and the type of `active_tasks`. `Accept` is the
  only step that can make the promise, `Take` the only one that could break it.
* `WakeupsCorrect`: `NoLostWakeup` is inductive with the finiteness of
  `Notifying`, which holds although `Calls` may be infinite. `Take` uses up one
  waiting task and one wakeup, `NotifyOne` turns the wakeup of a call into that of
  a worker, `Accept` brings one of each.
* `NobodySleepsCorrect` (`NobodySleepsInJoin`: no worker sleeps while `join` waits,
  the safety side of `DestructorReturns`) and `DrainedCorrect`: from `EndInv` (`stop` is set exactly
  once the destructor runs; a worker ends only on an empty queue, which then stays
  empty; `join` has waited for all). `DrainedCorrect` also needs `ExactlyOnce`: a
  task that is neither queued nor held must be finished.
* `PoolIsTaskService`: `Spec => Service!SSafe`. `StepSimulation` maps `Take` to
  `Serve`, `Run` to `Finish`, `Accept` to `Admit`, the refusals to `TurnAway`,
  `Stop` to `Close` and the rest to stuttering. It uses `ExactlyOnce` before the
  step (`UnseenIsNew`: a call the service has not seen is a new one) and
  `RoomForOne`: a worker at the queue holds nothing, so fewer tasks are in
  progress than there are workers.

So every safety property that the run `pool` checks on a small instance is
proved for every instance.

**`Server_proofs`** holds for any sessions, any number of requests and whatever
the pool theorems hold for (`ServerAssumption`).

* `ServerRunsThePool`: `Spec => Pool!Spec` without fairness. Every step of the
  server takes one step of `ThreadPool` or none; the only fact it needs is
  `SessionInv`, that a session calls the pool only for a request it has read. The
  pool's theorems thereby hold of the server (`Pooled`).
* `AbortOnlyInShutdownCorrect`: from `PoolInv`, where `stop` is set exactly once the
  destructor runs; the other way to die needs a destroyed schema.
* `EveryTaskIsAwaitedCorrect`: from `TaskInv`, which relates the position of a
  session to the state of its current call; `Pending`, the accepted calls without a
  value, is the set that a step of the pool may only shrink or extend by that call.
* `OwnAnswerCorrect`: from `AnswerInv`. A session has answered as many requests as
  it has read, or one fewer while it is at work; a future with a value holds what
  the request of that call is worth; `unread` futures are ready ones. What a request
  deserves depends on the schema being gone, so `DeservedStays` needs that a destroyed
  schema is never set again: while a thread loads it, nobody has it yet (`LoaderInv`).

**The search** (`ScoreGraph_proofs`) holds for
any tiles in play, any non-empty set of complete hands (`ShapeAssumption`) and any set
of inputs that pass `Validated` (`InputAssumption`).

* `ScoreGraph_proofs` begins with the lemmas on sums of a function over a finite set, each by a
  smallest counterexample, and those on one tile: a tile more takes a hand no
  farther away, and it is unnecessary exactly if the hand is as close without it
  (`TileMore`); a draw completes a hand exactly if the hand waited for it (`OneMore`).
* `MovesCancel` is the inductive invariant of the moves. `Fits`: nothing is below zero
  or above what was dealt. `Tallied`: wall and hand add up to what was dealt.
  `FrameInv`: each frame that waits for a call is one draw or discard away from the
  hand that its vertex stands for. `TilesConservedCorrect` follows.
* `CachesAnswerRight` says that a cache has the hand of the vertex it returns. That a
  key stands for one hand is arithmetic: nine octal digits per suit, seven for the
  honours, and above them the flags of the red fives and riichi; no digit is above
  four and no flag above one. `NodesOwnTheirHandsCorrect` follows.
* `EdgesKeepUp`: `Trials` are the tiles a node has to try; each of them has its edge
  or is `Pending` in a frame of that vertex, and every edge comes from a
  trial of one of its ends (`EdgeInv`). Frames hold what the node's hand implies
  (`LooksInv`). The number of tiles of a hand and of its node's kind agree
  (`SizeInv`), which with `OneMore` makes the score of an edge the same from either
  side. `EdgesAreDrawsCorrect` and `GraphIsCompleteCorrect` follow.
* `AnswersAreChoicesCorrect` needs where the search started (`RootInv`) and, when
  discards may not take the hand farther away, that no hand of the graph is
  farther than the first one (`LowInv`). `ExcessBound` is the reason why
  `can_extend_search` then never applies: a hand is closer than another one by no
  more tiles than it has beyond it.

The theorems on sums, caches, edges and answers, and those on the evaluation below, assume `FivesInWall`: the wall has no red five
without its kind. Validation does not guarantee it. A generated wall breaks it exactly if
four ordinary fives of a suit are shown (`NothingIsOverdrawn`), and a client's wall is not
examined for it; then a count in `wall_counts` is negative, and the digits of a key may
run into each other. `MovesCancel` does not assume it.

**The evaluation** (`ExpectedScore_proofs`), for any turns, any number of tiles left
and any number of threads (`TurnsAssumption`).

* `StatsRefineTheSearch`: `StatsSpec => Spec`, so the theorems above hold with the
  evaluation running; `EvaluationKeepsTheGraph` collects them.
* `NoDataRaceCorrect`: `ListInv` (a list has the nodes of its kind, none of them
  twice) and `LoopInv` (each thread is at or behind the start of its chunk) with
  `ChunksApart`, that static chunks are disjoint; and edges lead from draw nodes
  to discard nodes, so that no loop reads the kind it writes at its own turn.
* `StatsAreTheRecursionCorrect`: `Computed` says that each value that is `Settled` (of
  a later turn, of the draw nodes in the second loop, or of an iteration that a
  thread has done) satisfies the equation of the recursion for the values as they
  are. `ComputedMore`: what an iteration writes satisfies it (`DrawFollows`,
  `DiscardFollows`; the code adds to the value of waiting what each draw gains,
  the recursion takes the average, and `WaitOrDraw` shows that they
  are equal), and no settled value reads what is being written. At a barrier all
  of the loop's nodes have been done, since the chunks cover the list (`SomeChunk`).
  At the end every value is settled, and two functions that satisfy the equation
  everywhere are equal (`SolutionUnique`, by the smallest rank of a difference: twice
  the number of turns to go, plus one for a discard node).

**Requests** (`Requests_proofs` and `HandSeparator_proofs`), for any set of documents that the schema accepts
(`SchemaAssumption`), with hands, melds and indicators of any length.

* `HandCounts`: `to_hand` of a list counts every code as often as the list has it, a
  red five under both of its codes. `to_hand` is a fold in an arbitrary order;
  `FoldExists` and `FoldCounts` show, by the smallest set of positions, that it
  does not matter. `CountConcat` and `FlattenPrefixes` carry it over to lists put
  one after the other.
* `ReqInvHolds`: in every phase the request is the one made of the document, and has
  passed the validations before that phase.
* `NothingIsOverdrawnCorrect`: `WallOf` says what `create_wall` leaves of each code,
  `ShownCounts` that what is shown are the tiles it subtracts and the extracted norths.
  `validate_tile_counts` compares the request's wall with what is left, `validate_sanma_tiles`
  rules out the tiles that `create_wall` passes over (`SanmaAbsent`). `SeparatedFive` says what
  `to_separated_count` takes off a five: with a generated wall the result is negative
  exactly if all four ordinary fives are shown and the red one is not.
* `AnswerRepeatsInputCorrect`: `SerializedHand` follows the hand that `serialize_input`
  writes, code by code. A five is written as often as it is in the hand less its red
  ones, which `check_hand` has made sure is not negative, and counting
  the list gives the hand back. The wall of an answer is never left out, so it is
  not worked out a second time. The option comes from the configuration of the answer,
  which `calculate_result` has taken from the request (`ResultHasOption`, `ResponseParts`).
* `CalculatorsFindTheClosestCorrect`: `Away` counts the tiles a pattern has and the hand
  lacks, as cells, so that it adds up over kinds (`AwayUnion`) and does not care where a suit
  begins (`AwayMoved`). `EntryIs` reads `Entry` as such a minimum with the tiles of all patterns that reach it,
  `SuitsTable` and `HonorsTable` that the patterns of the generator are all groups
  and pairs of the area (`WinPatternsAre`, `TableShapes`). `JoinedRegion` and `JoinedTiles` are about one join:
  if two regions have the right entries, the join has them for the patterns glued
  together (`JoinedDistance`, `ClosestGlue`, `ClosestSplit`); since no sequence crosses the end of a
  suit (`GroupsInOne`), these are all patterns of the union (`GluedShapes`). `AllJoined` goes through
  the three joins in both orders, `CompleteShapes` and `SumIsAway` say that `HandShape` compares with the same
  patterns and measures the same distance. The theorem is about three melds, as the property is:
  one group and a pair. Nothing is assumed of the hand except that it was accepted.
* `TilesMoveTheHandCorrect`: for any number of groups it does not matter which patterns the tables
  stand for, only that they are the same before and after the tile. `Towers` says that each
  entry of a table is made of patterns with its number of tiles, `JoinedFinds` takes one join
  as above, `LastJoin` the last one, `RegularFinds` puts them together: the answer is the
  distance to a fixed set of patterns of the tiles in play, and the tiles it names
  are those that some closest pattern has more or fewer of. `DrawnEntry` and `DiscardedEntry` say
  what one tile does to such a distance. Seven pairs and thirteen orphans are counts
  of kinds held once and twice (`SevenPairsAre`, `OrphansAre`), which a tile changes by one
  (`DrawnCounts`); that no hand of seven pairs draws follows from the number of its tiles (`PairsAreTiles`).
  `TwoMove` carries it over to the nearer of two types, where the tiles of both count if they are level.
* `SanmaTableIsComputedCorrect`: `SanmaPatterns` says what can be made of two kinds of tile
  without sequences, at each index two patterns at most, `ComputedFinds` what `Entry`
  finds of them; `SanmaTable` goes through the 25 rows of the literal. It also carries `TilesMoveTheHandCorrect` over
  to games of three.
* `CompleteIsRefusedCorrect` compares two ways to find what a complete hand is: the tables are filled from
  patterns made of one group after the other, the separator chooses triplets and a pair and solves for the sequences.
  `PatternIs` says that the patterns of an index are the counts of `SizeOf` it that split (`HasSplit`) into triplets,
  sequences and at most one pair; a group is added or taken away in `GroupAdded` and `GroupTaken`, so the four steps of
  `WinPatterns` need no induction. `SuitSplits` and `HonorsSplit` say the same of the separator's patterns, since the
  equations of `SequencesLeft` have one solution (`SolvedRuns`, `RunsSolved`). A join keeps patterns with their sizes
  (`SizedJoin`): a size says whether a side has the pair, and two pairs fit no index. After three joins the
  patterns are the hands whose suits and honors all split, one of them with the pair (`ShapeIsComplete`), which is what the
  separator asks for (`CompleteIs`). A hand with no more tiles than a pattern, of which it lacks none, is the
  pattern (`NothingMissing`), and that accepted hands have no more is what `validate_tile_counts` makes sure of;
  so the calculators say -1 exactly of complete hands (`RegularSays`, `SevenPairsSay`,
  `OrphansSay`, `CalcSays`). `RefusedInv` is the inductive invariant: what is calculated was not
  said to be complete, and a request refused though its document is acceptable was.

**The replay** (`Replay_proofs`) holds for games of three or four players with any deals,
any indicators, any number of rounds and of players who come back (`SetupsAssumption`:
hands and walls are lists of tile numbers, and no tile is dealt twice).

* `RecordCorrect` is the inductive invariant. `TableInv` has the types of the table
  that the code of a call and the payments depend on. `RecordInv` has the record:
  `IsGame` (each round and each state in it is of the form the handlers read),
  `History` (a round starts with the `Balance` of the one before) and `Follows` (the
  balance of the round being played, less what its results have not paid yet, is what the players
  have; deposits and results agree with the table's). `QuietEvents` are the events that
  leave points alone, `FollowsRiichi` the deposit, `FollowsWin` and `FollowsDraw`
  the results.
* Each handler is written out once (`DrawIs`, `DiscardIs`, `CallIs`, `NukiIs`, `DoraIs`,
  `ReachIs`, `ResultEvents`), down to the tiles of a call (`DecodedTiles`). Folds over
  events and over changes of points get their equation for one more item
  from `FoldIs`, by the smallest set of positions at which it fails.
* `PointsAddUpCorrect` follows from `History` and `Follows`, `PaoRecoveredCorrect` from
  `PaoRead`: whoever was liable is the only one besides the discarder with a loss on a
  ron, and the only one at all on a tsumo; without a liable player a tsumo
  has two or three payers.
* `EventsReproduceLastCorrect`: `ClosedInv` is inductive with `RecordCorrect`. `Restored`
  gives players their nuki back; `EventCloses` shows for each handler that restoring
  what it leaves is the same as applying the event it enters to what was restored
  before (`TileReproduced`, `CallCloses`, `TableCloses`, `ResultCloses`), and that
  `apply_nuki_event`, which enters none, leaves the restored state as it was.

**The hands of the replay** (also in `Replay_proofs`): this part builds on `RecordCorrect`
and holds for the same games.

* `DecodedAsMadeCorrect`: every code that the log can write for a call is decoded to
  that call. One lemma per encoder (`ChiDecoded`, `PonDecoded`, `KakanDecoded`,
  `KanDecoded`, `NukiUndone` and its kin) takes the fields of the code apart, bit
  field by bit field, and shows that the tests for the kinds of call that come
  earlier fail. `SortedIs` says that listing tiles by their numbers lists each of them
  once.
* `TilesInv` is the inductive invariant of the table: a tile is in one place, the wall,
  a hand or the tile last discarded, and all of them are `Ids` of the deal. It is
  needed because the record keeps counts and the table keeps sets: taking tiles off the
  counts is taking them out of the hand only if each of them is there, once, and not
  also the tile just discarded. `NoneReturns` says that a tile that has left them never
  comes back.
* `RecordFollowsTableCorrect`: `HeldInv` says that each hand of the record counts the
  tiles the player holds. The lemmas `ChiCall`, `PonCall`, `DaiminkanCall`, `AnkanCall`,
  `KakanCall` and `NukiCall` show that what `remove_meld_tiles` takes away for the decoded
  call are the tiles that leave the caller's hand: all but the called one for a
  chi, a pon and an open kan, all four for a closed one, the added one for a kan made of
  a pon. `CountChanges` turns that into counts, in which a red five is a kind of its own.
* `WinnerAgreesCorrect`: the log states the winner's hand, and a replay arrives at it by
  another road. The two lists of melds differ where a pon became a kan: its code is
  replaced (`GivesWay`), its meld stays in the record beside the kan. `KindsInv` says that
  this is no ambiguity: of a kind, a player has one code that is a pon or the kan made of
  it, and once it is there one tile of the kind is left at most (`PonSpends`, from `TilesInv`
  and `NoneReturns`), too few for a second pon. `MeldsInv` then says that the melds of
  the record without the extended pons are what the codes stand for, and that nuki are
  counted alike, after every event. `CodesRead` shows that `decode_melds` reads exactly
  that from the codes, by prefixes of its fold, and `WinInv` that the hands
  agree for every win, up to the tile a ron was called on.

**Wins** (`Wins_proofs`), for any family of groups and situations in which a group has at
most one red five, norths are extracted one at a time and indicators are tiles of the game played
(`FamilyAssumption`); nothing is assumed of what the groups make up.

* `EveryDoraCountsCorrect`: `WinInv` says that the answers in the state are those of `calc` for
  the hand and the situation in the state. The two sides count in different ways: `count_dora`
  walks over the indicators, looks each one up in the tables of `tile.hpp` and adds what the hand, a
  count per code, and the melds have of it, with the norths apart; `DoraTiles` has a list
  of all tiles and counts pairs of an indicator and a tile. Both are brought to `Upto`, a number of
  units under a curve: `SumUpto` for sums over a list, `ValueConcat` and `FlattenNumber`
  for lists put one after the other. `GroupNumbers` splits the tiles of a win into those
  of the hand and those of the melds, `DoraFollows` compares the tables with the
  order of the tiles for three and four players, `RedsOfGroups` shows that asking each meld whether it
  has a red five counts them (where the assumption on groups is needed), `BothLists` joins the two
  lists of indicators, which the code counts one after the other and the property as one.
  `BonusIsDora` puts these together, and `AnswerHan` says that the han of an
  answer without yakuman are those of its yaku and the bonus, for whichever reading it chose.

**Model-checked only.** Liveness (`DestructorReturns`, the fairness part of
`ImplementsTaskService`, `EveryRequestIsServed`, `ShutdownEnds`, `CalcReturns`):
fairness is out of the prover's reach. The properties of `scoring`
and its kin (`PaidByTheRules`, `SplitsTheHand`, `BestReadingIsPaid`, `SuitsAreAlike`,
`CallingNeverPays`, `UradoraIsAverage`) stay with TLC. Two of them hold for the families of these runs
and not for every family: `scoring_high_fu` and `nuki_uradora` are hands that break `PaidByTheRules` and
`UradoraIsAverage`. The others compare what the case distinctions over all yaku say
of all readings of a hand, of one hand and of another made of it; we have no proof of them.

## 5. Where code and words differ

* `riichi_final`: a discard that declares riichi is entered as an edge from the draw
  node with riichi to the discard node without (`discard_node`), and `calc_stats`
  follows the edges of a draw node as draws: after riichi, drawing the discarded
  tile again reopens the choice of discards. `docs/expected_score_calculation.md`
  says that such a tile is discarded and the state stays.
* `scoring_high_fu`: the table of what players who are not the dealer pay for the
  tsumo of another one has 800 for 110 fu and two han (`score_table.hpp:159`), where
  the rules and the other tables have 1800.
* `nuki_uradora`: `calc_uradora_score` counts ura dora in the hand and the melds, not
  among extracted norths, which `ScoreCalculator::aggregate` does count; the expected
  score of a three-player hand with riichi is too low when a west may be turned over.
* `short_wall`: a request may bring a wall that has fewer tiles than there are turns.
  `calc_stats` divides by the number of tiles left, which is zero at one of them. (The
  documentation has a total that is the same at every turn, see below; with it there
  would be no such division.)
* `pattern_race`: `separate` enters the key of an empty suit into a static map that
  other workers are reading.

Seen while modelling, without a run of their own:

* The draw type `kan4` of `docs/tenhou_mjlog.md` (line 776) becomes an exhaustive draw
  (`to_ryukyoku_type`).
* The warning "Request queued because all calculation workers are busy"
  (`server/server.cpp`, `process_http_post`) is logged whenever the queue was
  not empty, which it also is while workers are on their way to it.
* `DiscardEvent::tsumogiri` (`round_event.hpp`) is always false in a replay.
* `PlayerState::num_tiles` misses red fives of replayed hands, which count them under
  codes 34 to 36 only; hands of the calculators count them under both codes.
* `calc_stats` divides by the number of tiles left at a turn, `sum - t`, while
  `docs/expected_score_calculation.md:25` takes the total as the same at every turn, and so
  do its formulas (lines 60 to 101). `StatsAreTheRecursion` is about the code's
  recursion, `Sequential`, not about the documented one.
* A request with red fives that shows all four ordinary fives of a suit, in the hand, melds and
  indicators together, is accepted. The generated wall then has the red five and no five: there
  would be five of the kind, and `wall_counts` counts -1 ordinary fives. `validate_tile_counts`
  compares the kind and the red five with their limits one by one. `NothingIsOverdrawn` says
  that this is the only case for a generated wall; a client's wall is not examined for it at all.
* At exit the schema is destroyed before the `Server` whose workers use it
  (`json_parser.cpp:26` is constructed later than `server.cpp:45`): a calculation that is
  running when `accept` fails may read a destroyed object. `AbortOnlyInShutdown` allows it.
* The input repeated in an answer is not a request: `serialize_input` writes neither the
  version nor the options that `request_schema.json` requires. `AnswerRepeatsInput` takes the option
  that matters from the answer's configuration.
* `fu_to_index` has no row for 120 fu and more: a hand of three closed kans of
  terminals (four han of yaku) reads `IsMangan` out of bounds.
* `Table::initialize` returns whether the files could be loaded and nobody looks.
* Open hands asked for seven pairs or thirteen orphans only report shanten 100;
  requests with 1, 4, 7 or 10 tiles and no melds are accepted and answered as if it
  were the turn to discard.
* `draw_node` scores a hand in the forms it waited for, `discard_node` in the forms
  it has. An enumeration of the hands that can tell the two apart (six pairs and a
  single tile) found no difference, and `UradoraIsAverage` checks both.

Not a contradiction, but worth knowing when reading a record: `score` in the last
snapshot of a round is the score at its start (deposits and results are not applied
to it), and a pon extended to a kan leaves both melds in it.

## 6. Not modelled, and the plan

Left out for good: the log reader (compressed XML to events), JSON text and the
rules of the schema, `string.cpp` (text of hands and results), `constants.hpp` (names),
`nyanten_table.hpp` (data of a build option that no build file sets), the score test
tool and the samples. None of them changes a state or decides anything but text.

Left out of modelled parts: rounding of doubles in `calc_stats`; yaku lists, limits,
fu and rules that the replay builder copies without looking at them; default values
of optional request fields; the statistics part of an answer; log lines and HTTP
headers.

What would come next: wins of replayed games against `ScoreCalculator`, that is fu, han and
payments of the log and of `calc`.
