---------------------------- MODULE MCScoreGraph ----------------------------
(***************************************************************************)
(* Hands of four and five tiles (three melds) over manzu 4, 5, red 5 and 6 *)
(* and the east wind, with a wall of a few of these.                       *)
(***************************************************************************)
EXTENDS ExpectedScore

Some == {2, 3, 4, 5, 6, 27}

\* a of manzu 4, b of manzu 5 and r red ones of them, c of manzu 6, e of east.
Held(a, b, r, c, e) ==
  [t \in Tiles |-> CASE t = 3 -> a [] t = 4 -> b [] t = 34 -> r [] t = 5 -> c [] t = 27 -> e [] OTHER -> 0]

Config(h, w, closed, yaku, extra, tegawari, down, red, deep) ==
  [hand |-> h, wall |-> w, closed |-> closed, yaku |-> yaku, extra |-> extra,
   tegawari |-> tegawari, shanten_down |-> down, reddora |-> red, calc_stats |-> deep,
   t_min |-> 1, t_max |-> 3, sum |-> 12, threads |-> 1]

\* Every hand of four or five tiles that leaves some wall.
Hands ==
  {h \in {Held(a, b, r, c, e) : a \in 0..2, b \in 0..2, r \in 0..1, c \in 0..2, e \in 0..2} :
     h[34] <= h[4] /\ h[3] + h[4] + h[5] + h[27] \in {4, 5}}
Rest(h) == [t \in Tiles |-> Held(2, 3, 1, 2, 2)[t] - h[t]]

\* Searches with every configuration, open hands with and without yaku, and no red fives.
AllInputs ==
  {Config(h, Rest(h), closed, TRUE, extra, tegawari, down, TRUE, TRUE) :
     h \in Hands, closed \in BOOLEAN, extra \in {0, 1}, tegawari \in BOOLEAN, down \in BOOLEAN}
  \cup {Config(h, Rest(h), FALSE, FALSE, 1, FALSE, TRUE, red, deep) :
     h \in Hands, red \in BOOLEAN, deep \in BOOLEAN}

\* Evaluations on three threads.
Parallel == {[i EXCEPT !.threads = 3] : i \in
               {Config(h, Rest(h), closed, TRUE, 0, FALSE, FALSE, TRUE, TRUE) : h \in Hands, closed \in BOOLEAN}}
MCInputs == AllInputs \cup Parallel
=============================================================================
