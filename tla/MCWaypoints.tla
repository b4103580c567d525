---------------------------- MODULE MCWaypoints ----------------------------
(***************************************************************************)
(* Two waypoints, one of each kind at first.  Two positions on earth that  *)
(* differ in both coordinates, and the origin as the offset that is        *)
(* written: places and offsets mix them when a part is written alone or    *)
(* the origin moves.                                                       *)
(***************************************************************************)
EXTENDS Waypoints

Diagonal == {[c \in Coord |-> n] : n \in {0, 1}}
AtOrigin == {[c \in Coord |-> 0]}
=============================================================================
