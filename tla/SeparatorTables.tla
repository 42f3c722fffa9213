--------------------------- MODULE SeparatorTables ---------------------------
(***************************************************************************)
(* The two maps of mahjong/core/hand_separator.cpp as the workers of the   *)
(* server share them.  They are filled by the constructor of a static      *)
(* object, before main.  separate then looks up four keys, one per suit    *)
(* and one for the honors, with operator[]: it searches the map, and it    *)
(* enters a key that is not there.  Nothing guards the maps.               *)
(***************************************************************************)
EXTENDS Naturals, Sequences, FiniteSets

CONSTANTS Workers,
          Listed,   \* for each map, the keys in its file
          Hands     \* for each call, the map and the key of its four lookups, in order

VARIABLES
  keys,       \* the keys of each map
  lookups,    \* what each worker has yet to look up for its call
  pc          \* "idle", "search", "insert"
vars == <<keys, lookups, pc>>

Maps == {"s_tbl_", "z_tbl_"}

\* initialize and make_table have run.
Init ==
  /\ keys = Listed
  /\ lookups = [w \in Workers |-> << >>] /\ pc = [w \in Workers |-> "idle"]

Lookup(w) == Head(lookups[w])

\* The lookup is over: the next one, or back to the caller.
Found(w) ==
  /\ lookups' = [lookups EXCEPT ![w] = Tail(@)]
  /\ pc' = [pc EXCEPT ![w] = IF Len(lookups[w]) = 1 THEN "idle" ELSE "search"]

Separate(w) ==
  /\ pc[w] = "idle"
  /\ \E h \in Hands : lookups' = [lookups EXCEPT ![w] = h]
  /\ pc' = [pc EXCEPT ![w] = "search"]
  /\ UNCHANGED keys

Search(w) ==
  /\ pc[w] = "search"
  /\ IF Lookup(w).key \in keys[Lookup(w).map] THEN Found(w)
     ELSE pc' = [pc EXCEPT ![w] = "insert"] /\ UNCHANGED lookups
  /\ UNCHANGED keys

Insert(w) ==
  /\ pc[w] = "insert"
  /\ keys' = [keys EXCEPT ![Lookup(w).map] = @ \cup {Lookup(w).key}]
  /\ Found(w)

Next == \E w \in Workers : Separate(w) \/ Search(w) \/ Insert(w)
Spec == Init /\ [][Next]_vars

\* The maps are initialised once: no worker enters a key while another one searches
\* the same map or enters a key of its own.
NoTableRace ==
  \A v, w \in Workers :
    v # w /\ pc[v] = "insert" /\ pc[w] # "idle" => Lookup(v).map # Lookup(w).map
=============================================================================
