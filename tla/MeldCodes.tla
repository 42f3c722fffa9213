------------------------------ MODULE MeldCodes ------------------------------
(***************************************************************************)
(* Every call a game can contain, written as the log writes it, to be      *)
(* decoded as tools/tenhou/replay_builder.cpp decodes it.                  *)
(***************************************************************************)
EXTENDS Mjlog

LoggedCall(type, ids, called, from, code) ==
  [type |-> type, ids |-> ids, called |-> called, from |-> from, code |-> code]

Kinds == 0..33
Nths == 0..3
Sequences3 == {k \in 0..26 : k % 9 <= 6}

\* The log lists tiles by their numbers.
Sorted(S) == [i \in 1..Cardinality(S) |-> CHOOSE x \in S : Cardinality({y \in S : y < x}) = i - 1]

\* A chi takes the tile of the player to the left (3).
ChiCalls ==
  {LET ids == [i \in 1..3 |-> 4 * (c.low + i - 1) + c.idx[i]]
   IN  LoggedCall("Chi", ids, ids[c.called], 3, ChiCode(3, c.low, c.idx, c.called)) :
     c \in [low : Sequences3, idx : [1..3 -> Nths], called : 1..3]}

PonCalls ==
  {LET ids == Sorted({4 * c.kind + n : n \in Nths \ {c.unused}})
   IN  LoggedCall("Pon", ids, ids[c.called], c.from, PonCode(c.from, c.kind, c.unused, c.called)) :
     c \in [kind : Kinds, unused : Nths, called : 1..3, from : 1..3]}

KakanCalls ==
  {LoggedCall("Kakan", FourFrom(4 * c.kind), 4 * c.kind + c.added, c.from,
        KakanCode(c.from, c.kind, c.added, c.called)) :
     c \in [kind : Kinds, added : Nths, called : 1..3, from : 1..3]}

DaiminkanCalls ==
  {LoggedCall("Daiminkan", FourFrom(c.id - (c.id % 4)), c.id, c.from, KanCode(c.from, c.id)) :
     c \in [id : 0..135, from : 1..3]}

AnkanCalls == {LoggedCall("Ankan", FourFrom(id - (id % 4)), Null, 0, KanCode(0, id)) : id \in 0..135}

NukiCalls == {LoggedCall("Nuki", <<id>>, Null, 0, NukiCode(id)) : id \in 120..123}

MadeCalls == ChiCalls \cup PonCalls \cup KakanCalls \cup DaiminkanCalls \cup AnkanCalls \cup NukiCalls

\* What decode_meld should make of a call.
AsMade(call) ==
  IF call.type = "Nuki" THEN NoMeld
  ELSE [type |-> call.type, tiles |-> to_tiles(call.ids),
        discarded_tile |-> IF call.called = Null THEN Null ELSE to_tile(call.called),
        from |-> to_meld_from_seat(call.from)]
=============================================================================
