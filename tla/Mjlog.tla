-------------------------------- MODULE Mjlog --------------------------------
(***************************************************************************)
(* How the replay tool reads the numbers of a Tenhou game log              *)
(* (tools/tenhou/replay_builder.cpp): tile numbers 0..135 and the 16-bit   *)
(* codes of calls, as docs/tenhou_mjlog.md lays them out.                  *)
(***************************************************************************)
EXTENDS Integers, SequencesExt

Null == -1

\* Tile codes of mahjong/types/tile.hpp the module needs by name.
North == 30
RedManzu5 == 34
RedPinzu5 == 35
RedSouzu5 == 36
TileCodes == 0..36

to_tile(tile136) ==
  CASE tile136 = 16 -> RedManzu5
    [] tile136 = 52 -> RedPinzu5
    [] tile136 = 88 -> RedSouzu5
    [] OTHER -> tile136 \div 4

to_tiles(s) == [i \in DOMAIN s |-> to_tile(s[i])]

\* The n bits of v from bit lo on: (v & mask) >> lo.
Bits(v, lo, n) == (v \div 2^lo) % 2^n

\* The seat called from, relative to the caller (SeatType).
to_meld_from_seat(b) == CASE b = 0 -> "Self"    [] b = 1 -> "Shimocha"
                          [] b = 2 -> "Toimen"  [] b = 3 -> "Kamicha"

Meld(type, ids, called, v) ==
  [type |-> type, tiles |-> to_tiles(ids), discarded_tile |-> called,
   from |-> to_meld_from_seat(Bits(v, 0, 2))]

is_nuki(v) == Bits(v, 2, 4) = 8
is_chi(v) == Bits(v, 2, 1) = 1
is_pon(v) == Bits(v, 2, 2) = 2
is_kakan(v) == Bits(v, 4, 1) = 1 /\ Bits(v, 2, 1) = 0

\* Mutant of decode_chi: the nine ranks of a suit are used where the seven
\* possible first tiles of a sequence are meant.
decode_chi_by_nine(v) ==
  LET encoded == Bits(v, 10, 6)
      base == (((encoded \div 3) \div 9) * 9 + ((encoded \div 3) % 9)) * 4
      ids == << base + Bits(v, 3, 2), base + 4 + Bits(v, 5, 2), base + 8 + Bits(v, 7, 2) >>
  IN  Meld("Chi", ids, to_tile(ids[(encoded % 3) + 1]), v)

decode_chi(v) ==
  LET encoded == Bits(v, 10, 6)
      base == (((encoded \div 3) \div 7) * 9 + ((encoded \div 3) % 7)) * 4
      ids == << base + Bits(v, 3, 2), base + 4 + Bits(v, 5, 2), base + 8 + Bits(v, 7, 2) >>
  IN  Meld("Chi", ids, to_tile(ids[(encoded % 3) + 1]), v)

\* The three of the four equal tiles that are not the unused one, in order.
decode_pon(v) ==
  LET encoded == Bits(v, 9, 7)
      base == (encoded \div 3) * 4
      unused == Bits(v, 5, 2)
      ids == [i \in 1..3 |-> base + (IF i <= unused THEN i - 1 ELSE i)]
  IN  Meld("Pon", ids, to_tile(ids[(encoded % 3) + 1]), v)

FourFrom(base) == << base, base + 1, base + 2, base + 3 >>

decode_kakan(v) ==
  LET base == (Bits(v, 9, 7) \div 3) * 4
  IN  Meld("Kakan", FourFrom(base), to_tile(base + Bits(v, 5, 2)), v)

decode_kan(v) ==
  LET raw == Bits(v, 8, 8)
      base == raw - (raw % 4)
  IN  IF Bits(v, 0, 2) = 0
      THEN Meld("Ankan", FourFrom(base), Null, v)
      ELSE Meld("Daiminkan", FourFrom(base), to_tile(raw), v)

NoMeld == [type |-> "none"]

\* The order of the tests is the order of the early returns; a nuki is no meld.
decode_meld(v) ==
  IF is_nuki(v) THEN NoMeld
  ELSE IF is_chi(v) THEN decode_chi(v)
  ELSE IF is_pon(v) THEN decode_pon(v)
  ELSE IF is_kakan(v) THEN decode_kakan(v)
  ELSE decode_kan(v)

\* decode_melds: the melds of a winner's call codes, in order, and the number of
\* nuki among them, one code after the other.
Decoded(found, code) ==
  LET meld == decode_meld(code)
  IN  IF meld = NoMeld THEN << found[1], found[2] + 1 >> ELSE << Append(found[1], meld), found[2] >>

decode_melds(codes) == FoldLeft(Decoded, << << >>, 0 >>, codes)

\* Draws of the doc's table that the code knows; anything else is "Exhaustive".
to_ryukyoku_type(type) ==
  CASE type = "yao9" -> "NineTerminals"
    [] type = "kaze4" -> "FourWinds"
    [] type = "reach4" -> "FourRiichi"
    [] type = "ron3" -> "ThreeRon"
    [] type = "nm" -> "Null"
    [] OTHER -> "Exhaustive"

-----------------------------------------------------------------------------
(* How the log writes a call (external: the log's producer).               *)

ChiCode(from, low, idx, called) ==
  from + 4 + 8 * idx[1] + 32 * idx[2] + 128 * idx[3]
    + 1024 * (3 * (7 * (low \div 9) + (low % 9)) + called - 1)

PonCode(from, kind, unused, called) ==
  from + 8 + 32 * unused + 512 * (3 * kind + called - 1)

KakanCode(from, kind, added, called) ==
  from + 16 + 32 * added + 512 * (3 * kind + called - 1)

KanCode(from, id) == from + 256 * id

NukiCode(id) == 32 + 256 * id
=============================================================================
