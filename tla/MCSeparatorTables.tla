-------------------------- MODULE MCSeparatorTables --------------------------
(***************************************************************************)
(* Two workers, and hands in two suits and honors: the key of an empty     *)
(* suit, 0, is in neither file.                                            *)
(***************************************************************************)
EXTENDS SeparatorTables

In(map, key) == [map |-> map, key |-> key]
MCListed == [m \in Maps |-> {1, 2}]
MCHands == {<<In("s_tbl_", m), In("s_tbl_", p), In("s_tbl_", s), In("z_tbl_", z)>> :
              m \in {0, 1}, p \in {1, 2}, s \in {0, 2}, z \in {0, 1}}
=============================================================================
