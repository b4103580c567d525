----------------------------- MODULE Waypoints -----------------------------
(***************************************************************************)
(* The waypoints of modules/nav/waypoints.c and the origin of the local    *)
(* frame they are relative to, which the flight plan resets through        *)
(* navigation.c and the GPS callback through ins_int.c.                    *)
(*                                                                         *)
(* Data: a position is a horizontal and a vertical coordinate, since the   *)
(* code writes either part alone; east and north, or latitude and          *)
(* longitude, are one number.  The conversion between the frames is a      *)
(* shift by the origin.  enu_i and enu_f are always written together and   *)
(* are one field.  An index past the last waypoint changes nothing.        *)
(***************************************************************************)
EXTENDS Integers

CONSTANTS
  WP,            (* the waypoints                                          *)
  Global,        (* those the flight plan gives by latitude and longitude  *)
  Place,         (* positions on earth: of the vehicle, of messages        *)
  Offset,        (* positions relative to the origin                       *)
  Reach          (* bound: coordinates that partial writes may drift to    *)

Coord == {"xy", "z"}
Position == [Coord -> Int]

ASSUME PositionsAreIntegers ==
  Place \subseteq Position /\ Offset \subseteq Position /\ Global \subseteq WP

VARIABLES
  waypoints,
  origin,            (* state.ned_origin_i                                 *)
  ned_initialized,   (* state.ned_initialized_i                            *)
  ltp_initialized,   (* ins_int.ltp_initialized                            *)
  meant,             (* history: where on earth a coordinate of a global   *)
                     (* waypoint was last put, {} if that is not known     *)
  stale,             (* history: coordinates whose offset is not the one   *)
                     (* of their latitude, longitude or altitude           *)
  lost               (* history: coordinates that were computed back from  *)
                     (* a stale offset                                     *)

frame   == <<origin, ned_initialized, ltp_initialized>>
history == <<meant, stale, lost>>
vars    == <<waypoints, frame, history>>

Zero == [c \in Coord |-> 0]
Plus(a, b)  == [c \in Coord |-> a[c] + b[c]]
Minus(a, b) == [c \in Coord |-> a[c] - b[c]]

(* The two flags say which representation has been set or computed.        *)
Waypoint == [global : BOOLEAN, ENU : BOOLEAN, LLA : BOOLEAN,
             enu : Position, lla : Position]

-----------------------------------------------------------------------------
(* Functions on one waypoint, in a frame that is initialized or not.  Both *)
(* conversions compute every coordinate.                                   *)

waypoint_globalize(w, initialized, o) ==
  IF initialized THEN [w EXCEPT !.lla = Plus(w.enu, o), !.LLA = TRUE] ELSE w

waypoint_localize(w, initialized, o) ==
  IF initialized THEN [w EXCEPT !.enu = Minus(w.lla, o), !.ENU = TRUE] ELSE w

set_enu(w, enu) ==
  waypoint_globalize([w EXCEPT !.enu = enu, !.ENU = TRUE, !.LLA = FALSE],
                     ned_initialized, origin)

set_part(w, c, v) ==
  waypoint_globalize([w EXCEPT !.enu[c] = v], ned_initialized, origin)

set_lla(w, lla) ==
  waypoint_localize([w EXCEPT !.lla = lla, !.LLA = TRUE], ned_initialized, origin)

Unset == [global |-> FALSE, ENU |-> FALSE, LLA |-> FALSE, enu |-> Zero, lla |-> Zero]

Nowhere == [c \in Coord |-> {}]
At(place) == [c \in Coord |-> {place[c]}]

(* waypoints_init, before or after an origin has been taken from the plan. *)
Init ==
  /\ ned_initialized \in BOOLEAN /\ ltp_initialized = ned_initialized
  /\ origin \in IF ned_initialized THEN Place ELSE {Zero}
  /\ \E lla \in [Global -> Place], enu \in [WP -> Offset] :
       /\ waypoints = [w \in WP |-> IF w \in Global
                                    THEN set_lla([Unset EXCEPT !.global = TRUE], lla[w])
                                    ELSE set_enu(Unset, enu[w])]
       /\ meant = [w \in WP |-> IF w \in Global THEN At(lla[w]) ELSE Nowhere]
  /\ stale = [w \in WP |-> IF w \in Global /\ ~ned_initialized THEN Coord ELSE {}]
  /\ lost = [w \in WP |-> {}]

-----------------------------------------------------------------------------
(* Writes: by navigation, modules and messages.                            *)

(* A global waypoint is meant to be at a place on earth, which an offset   *)
(* given to it names once there is an origin.                              *)
Names(w, c, place) == IF waypoints[w].global THEN {place} ELSE {}
NamesByOffset(w, c, v) == IF ned_initialized THEN Names(w, c, v + origin[c]) ELSE {}

(* waypoint_set_enu, waypoint_set_enu_i, waypoint_move_enu_i               *)
waypoint_set_enu(w, enu) ==
  /\ waypoints' = [waypoints EXCEPT ![w] = set_enu(@, enu)]
  /\ meant' = [meant EXCEPT ![w] = [c \in Coord |-> NamesByOffset(w, c, enu[c])]]
  /\ stale' = [stale EXCEPT ![w] = {}]
  /\ lost' = [lost EXCEPT ![w] = {}]
  /\ UNCHANGED frame

(* Only one part of the offset is written, but the place is computed from  *)
(* all of it: the other part loses its place if its offset is stale.  Such *)
(* parts drift with every origin, which Reach bounds.                      *)
PutPart(w, c, v) ==
  /\ ned_initialized => \A k \in Coord : set_part(waypoints[w], c, v).lla[k] \in Reach
  /\ waypoints' = [waypoints EXCEPT ![w] = set_part(@, c, v)]
  /\ meant' = [meant EXCEPT ![w][c] = NamesByOffset(w, c, v)]
  /\ stale' = [stale EXCEPT ![w] = IF ned_initialized THEN {} ELSE @ \ {c}]
  /\ lost' = [lost EXCEPT ![w] = (IF ned_initialized THEN @ \cup stale[w] ELSE @) \ {c}]
  /\ UNCHANGED frame

(* waypoint_set_xy_i, waypoint_move_xy_i                                   *)
waypoint_set_xy_i(w, xy) == PutPart(w, "xy", xy)

(* waypoint_set_alt, waypoint_set_alt_i                                    *)
waypoint_set_alt(w, alt) == PutPart(w, "z", alt)

(* Coordinates C of the place are written, the others keep theirs.         *)
PutPlace(w, C, lla) ==
  /\ waypoints' = [waypoints EXCEPT ![w] =
                     set_lla(@, [c \in Coord |-> IF c \in C THEN lla[c] ELSE @.lla[c]])]
  /\ meant' = [meant EXCEPT ![w] =
                 [c \in Coord |-> IF c \in C THEN Names(w, c, lla[c]) ELSE @[c]]]
  /\ stale' = [stale EXCEPT ![w] = IF ned_initialized THEN {} ELSE @ \cup C]
  /\ lost' = [lost EXCEPT ![w] = @ \ C]
  /\ UNCHANGED frame

(* waypoint_set_lla, waypoint_move_lla                                     *)
waypoint_set_lla(w, lla) == PutPlace(w, Coord, lla)

waypoint_set_latlon(w, lla) == PutPlace(w, {"xy"}, lla)

(* Without an origin the local position is zero.                           *)
EnuOf(here) == IF ned_initialized THEN Minus(here, origin) ELSE Zero

waypoint_set_here(w, here) ==
  IF waypoints[w].global THEN waypoint_set_lla(w, here)
                         ELSE waypoint_set_enu(w, EnuOf(here))

waypoint_set_here_2d(w, here) ==
  IF waypoints[w].global THEN waypoint_set_latlon(w, here)
                         ELSE waypoint_set_xy_i(w, EnuOf(here)["xy"])

waypoint_copy(dest, src) ==
  /\ waypoints' = [waypoints EXCEPT ![dest] = waypoints[src]]
  /\ meant' = [meant EXCEPT ![dest] = meant[src]]
  /\ stale' = [stale EXCEPT ![dest] = stale[src]]
  /\ lost' = [lost EXCEPT ![dest] = lost[src]]
  /\ UNCHANGED frame

(* The horizontal parts of both representations are copied, without flags. *)
waypoint_position_copy(dest, src) ==
  LET As(now, of) == (now \ {"xy"}) \cup (of \cap {"xy"}) IN
  /\ waypoints' = [waypoints EXCEPT ![dest].enu["xy"] = waypoints[src].enu["xy"],
                                    ![dest].lla["xy"] = waypoints[src].lla["xy"]]
  /\ meant' = [meant EXCEPT ![dest]["xy"] =
                 IF waypoints[dest].global THEN meant[src]["xy"] ELSE {}]
  /\ stale' = [stale EXCEPT ![dest] = As(@, stale[src])]
  /\ lost' = [lost EXCEPT ![dest] = As(@, lost[src])]
  /\ UNCHANGED frame

(* Reads compute a representation that is not there.                       *)

(* waypoint_get_lla, waypoint_get_lat_deg, waypoint_get_lon_deg            *)
waypoint_get_lla(w) ==
  /\ ~waypoints[w].global /\ ~waypoints[w].LLA
  /\ waypoints' = [waypoints EXCEPT ![w] = waypoint_globalize(@, ned_initialized, origin)]
  /\ UNCHANGED <<frame, history>>

(* waypoint_get_enu_f, waypoint_get_enu_i                                  *)
waypoint_get_enu_i(w) ==
  /\ waypoints[w].global /\ ~waypoints[w].ENU
  /\ waypoints' = [waypoints EXCEPT ![w] = waypoint_localize(@, ned_initialized, origin)]
  /\ stale' = [stale EXCEPT ![w] = IF ned_initialized THEN {} ELSE @]
  /\ UNCHANGED <<frame, meant, lost>>

-----------------------------------------------------------------------------
(* The origin.  The vehicle may be at any place, with a fix or without.    *)

(* A vertical reset keeps the horizontal part of the origin.               *)
SetLocalOrigin(here, C) ==
  /\ origin' = [c \in Coord |-> IF c \in C THEN here[c] ELSE origin[c]]
  /\ ned_initialized' = TRUE

LocalizeEach(W) ==
  /\ waypoints' = [w \in WP |->
       IF w \in W THEN waypoint_localize(waypoints[w], ned_initialized', origin')
                  ELSE waypoints[w]]
  /\ stale' = [w \in WP |-> IF w \in W /\ ned_initialized' THEN {} ELSE stale[w]]

(* Faulty variant: the local waypoints are localized instead.              *)
LocalizeLocals == LocalizeEach({w \in WP : ~waypoints[w].global})

waypoints_localize_all == LocalizeEach({w \in WP : waypoints[w].global})

(* ins_reset_local_origin leaves the origin alone without a fix, and asks  *)
(* for another at the next one.                                            *)
nav_reset_reference(here, fix) ==
  /\ ltp_initialized' = fix
  /\ IF fix THEN SetLocalOrigin(here, Coord) ELSE UNCHANGED <<origin, ned_initialized>>
  /\ waypoints_localize_all
  /\ UNCHANGED <<meant, lost>>

nav_reset_alt(here, fix) ==
  /\ IF fix THEN SetLocalOrigin(here, {"z"}) ELSE UNCHANGED <<origin, ned_initialized>>
  /\ waypoints_localize_all
  /\ UNCHANGED <<ltp_initialized, meant, lost>>

(* ins_int_update_gps, with a fix: waypoints are not localized here.       *)
ins_int_update_gps(here) ==
  /\ ~ltp_initialized
  /\ ltp_initialized' = TRUE
  /\ SetLocalOrigin(here, Coord)
  /\ stale' = [w \in WP |-> Coord \ lost[w]]
  /\ UNCHANGED <<waypoints, meant, lost>>

-----------------------------------------------------------------------------
Write(w) ==
  \/ \E enu \in Offset : \/ waypoint_set_enu(w, enu)
                        \/ waypoint_set_xy_i(w, enu["xy"])
                        \/ waypoint_set_alt(w, enu["z"])
  \/ \E lla \in Place : waypoint_set_lla(w, lla) \/ waypoint_set_latlon(w, lla)
  \/ \E here \in Place : waypoint_set_here(w, here) \/ waypoint_set_here_2d(w, here)
  \/ \E src \in WP : waypoint_copy(w, src) \/ waypoint_position_copy(w, src)

Read(w) == waypoint_get_lla(w) \/ waypoint_get_enu_i(w)

Next ==
  \/ \E w \in WP : Write(w) \/ Read(w)
  \/ \E here \in Place :
       \/ \E fix \in BOOLEAN : nav_reset_reference(here, fix) \/ nav_reset_alt(here, fix)
       \/ ins_int_update_gps(here)

Spec == Init /\ [][Next]_vars

-----------------------------------------------------------------------------
TypeOK ==
  /\ waypoints \in [WP -> Waypoint]
  /\ origin \in Position
  /\ ned_initialized \in BOOLEAN /\ ltp_initialized \in BOOLEAN
  /\ meant \in [WP -> [Coord -> SUBSET Int]]
  /\ stale \in [WP -> SUBSET Coord] /\ lost \in [WP -> SUBSET Coord]

(* Navigation flies to enu, in the frame of the origin.                    *)
InPlace(w, c) == \A place \in meant[w][c] : waypoints[w].enu[c] + origin[c] = place

(* Each coordinate of a global waypoint stays where on earth it was put,   *)
(* whatever writes of all or some coordinates, copies and reads it goes    *)
(* through before and after the origin is set or moved, with the two       *)
(* exceptions the code makes.  It is stale, and the waypoints of the       *)
(* obstacle zone move with the drone, from the moment the GPS callback     *)
(* sets the origin without localizing them to the next reset or write of   *)
(* latitude and longitude.  It is lost if in that time the other           *)
(* coordinate is written as an offset, which computes the whole place from *)
(* stale offsets: no reset brings it back, only a new write of it          *)
(* (waypoints.c:129-347, navigation.c:238-249, ins_int.c:249-285,405-407). *)
GlobalsStayInPlace ==
  ned_initialized =>
    \A w \in WP, c \in Coord :
      waypoints[w].global /\ c \notin stale[w] \cup lost[w] => InPlace(w, c)
=============================================================================
