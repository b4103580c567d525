-------------------------- MODULE NavigationProofs --------------------------
(***************************************************************************)
(* The waypoints, and the flight plan of the course.                       *)
(*                                                                         *)
(* GlobalsStayInPlace, for any number of waypoints, places and offsets.    *)
(* What a coordinate is meant to be has to be what its latitude, longitude *)
(* or altitude says even while its offset is stale, because a reset of the *)
(* origin computes offsets from them; and only a global waypoint may be    *)
(* meant to be at a place.                                                 *)
(*                                                                         *)
(* Type correctness of the course, and ShockOfThisFlight: a flare is ended *)
(* by ground_detected, so what has to be invariant is that a detected      *)
(* ground goes with a shock that counts, and an armed detection with a     *)
(* flare, of this flight.                                                  *)
(***************************************************************************)
EXTENDS Waypoints, Course, TLAPS

USE DEF vars, frame, history

(* Of a waypoint, the places it is meant to be at, its stale and lost      *)
(* coordinates, and the origin if there is one.                            *)
WellPlaced(w, places, s, l, i, o) ==
  /\ ~w.global => \A c \in Coord : places[c] = {}
  /\ \A c \in Coord \ l : \A place \in places[c] : w.lla[c] = place
  /\ i => \A c \in Coord \ (s \cup l) : \A place \in places[c] : w.enu[c] + o[c] = place

AllWellPlaced ==
  \A w \in WP : WellPlaced(waypoints[w], meant[w], stale[w], lost[w],
                           ned_initialized, origin)

IInv == TypeOK /\ AllWellPlaced

(* The invariant implies the property.                                     *)
LEMMA IInvInPlace == IInv => GlobalsStayInPlace
BY DEF IInv, AllWellPlaced, WellPlaced, GlobalsStayInPlace, InPlace

-----------------------------------------------------------------------------
(* What the functions on one waypoint return.                              *)

(* Sums and differences of positions are positions.                        *)
LEMMA Sums ==
  ASSUME NEW a \in Position, NEW b \in Position
  PROVE  /\ Plus(a, b) \in Position /\ Minus(a, b) \in Position
         /\ \A c \in Coord : Plus(a, b)[c] = a[c] + b[c]
         /\ \A c \in Coord : Minus(a, b)[c] + b[c] = a[c]
BY DEF Plus, Minus, Position

(* Computing the local position keeps the global one.                      *)
LEMMA Localized ==
  ASSUME NEW w \in Waypoint, NEW i \in BOOLEAN, NEW o \in Position
  PROVE  /\ waypoint_localize(w, i, o) \in Waypoint
         /\ waypoint_localize(w, i, o).lla = w.lla
         /\ waypoint_localize(w, i, o).global = w.global
         /\ i => \A c \in Coord : waypoint_localize(w, i, o).enu[c] + o[c] = w.lla[c]
<1> DEFINE enu == Minus(w.lla, o)
<1>1. enu \in Position /\ \A c \in Coord : enu[c] + o[c] = w.lla[c]
  BY Sums DEF Waypoint
<1>2. ~i => waypoint_localize(w, i, o) = w
  BY DEF waypoint_localize
<1>3. i => waypoint_localize(w, i, o) = [w EXCEPT !.enu = enu, !.ENU = TRUE]
  BY DEF waypoint_localize
<1> HIDE DEF enu
<1>4. LET l == [w EXCEPT !.enu = enu, !.ENU = TRUE]
      IN  l \in Waypoint /\ l.lla = w.lla /\ l.global = w.global /\ l.enu = enu
  BY <1>1 DEF Waypoint
<1> QED
  BY <1>1, <1>2, <1>3, <1>4

(* Computing the global position keeps the local one.                      *)
LEMMA Globalized ==
  ASSUME NEW w \in Waypoint, NEW i \in BOOLEAN, NEW o \in Position
  PROVE  /\ waypoint_globalize(w, i, o) \in Waypoint
         /\ waypoint_globalize(w, i, o).enu = w.enu
         /\ waypoint_globalize(w, i, o).global = w.global
         /\ ~i => waypoint_globalize(w, i, o).lla = w.lla
         /\ i => \A c \in Coord : waypoint_globalize(w, i, o).lla[c] = w.enu[c] + o[c]
<1> DEFINE lla == Plus(w.enu, o)
<1>1. lla \in Position /\ \A c \in Coord : lla[c] = w.enu[c] + o[c]
  BY Sums DEF Waypoint
<1>2. ~i => waypoint_globalize(w, i, o) = w
  BY DEF waypoint_globalize
<1>3. i => waypoint_globalize(w, i, o) = [w EXCEPT !.lla = lla, !.LLA = TRUE]
  BY DEF waypoint_globalize
<1> HIDE DEF lla
<1>4. LET g == [w EXCEPT !.lla = lla, !.LLA = TRUE]
      IN  g \in Waypoint /\ g.enu = w.enu /\ g.global = w.global /\ g.lla = lla
  BY <1>1 DEF Waypoint
<1> QED
  BY <1>1, <1>2, <1>3, <1>4

(* A waypoint given an offset.                                             *)
LEMMA SetByEnu ==
  ASSUME ned_initialized \in BOOLEAN, origin \in Position,
         NEW w \in Waypoint, NEW enu \in Position
  PROVE  /\ set_enu(w, enu) \in Waypoint
         /\ set_enu(w, enu).enu = enu
         /\ set_enu(w, enu).global = w.global
         /\ ned_initialized => \A c \in Coord : set_enu(w, enu).lla[c] = enu[c] + origin[c]
<1> DEFINE u == [w EXCEPT !.enu = enu, !.ENU = TRUE, !.LLA = FALSE]
<1>1. u \in Waypoint /\ u.enu = enu /\ u.global = w.global
  BY DEF Waypoint
<1>2. set_enu(w, enu) = waypoint_globalize(u, ned_initialized, origin)
  BY DEF set_enu
<1> HIDE DEF u
<1> QED
  BY <1>1, <1>2, Globalized

(* A waypoint given one part of an offset.                                 *)
LEMMA SetPart ==
  ASSUME ned_initialized \in BOOLEAN, origin \in Position,
         NEW w \in Waypoint, NEW c \in Coord, NEW v \in Int
  PROVE  /\ set_part(w, c, v) \in Waypoint
         /\ set_part(w, c, v).enu = [w.enu EXCEPT ![c] = v]
         /\ set_part(w, c, v).global = w.global
         /\ ~ned_initialized => set_part(w, c, v).lla = w.lla
         /\ ned_initialized =>
              \A k \in Coord : set_part(w, c, v).lla[k] = set_part(w, c, v).enu[k] + origin[k]
<1> DEFINE u == [w EXCEPT !.enu[c] = v]
<1>1. /\ u \in Waypoint /\ u.enu = [w.enu EXCEPT ![c] = v]
      /\ u.global = w.global /\ u.lla = w.lla
  BY DEF Waypoint, Position
<1>2. set_part(w, c, v) = waypoint_globalize(u, ned_initialized, origin)
  BY DEF set_part
<1> HIDE DEF u
<1> QED
  BY <1>1, <1>2, Globalized

(* A waypoint given a place.                                               *)
LEMMA SetByLla ==
  ASSUME ned_initialized \in BOOLEAN, origin \in Position,
         NEW w \in Waypoint, NEW lla \in Position
  PROVE  /\ set_lla(w, lla) \in Waypoint
         /\ set_lla(w, lla).lla = lla
         /\ set_lla(w, lla).global = w.global
         /\ ned_initialized => \A c \in Coord : set_lla(w, lla).enu[c] + origin[c] = lla[c]
<1> DEFINE u == [w EXCEPT !.lla = lla, !.LLA = TRUE]
<1>1. u \in Waypoint /\ u.lla = lla /\ u.global = w.global
  BY DEF Waypoint
<1>2. set_lla(w, lla) = waypoint_localize(u, ned_initialized, origin)
  BY DEF set_lla
<1> HIDE DEF u
<1> QED
  BY <1>1, <1>2, Localized

-----------------------------------------------------------------------------
(* Waypoints of the flight plan are set before the first step.             *)
LEMMA InitIInv == Init => IInv
<1> SUFFICES ASSUME Init PROVE IInv
  OBVIOUS
<1>1. Zero \in Position
  BY DEF Zero, Position
<1>2. ned_initialized \in BOOLEAN /\ ltp_initialized \in BOOLEAN /\ origin \in Position
  BY <1>1, PositionsAreIntegers DEF Init
<1>3. PICK lla \in [Global -> Place], enu \in [WP -> Offset] :
        /\ waypoints = [w \in WP |-> IF w \in Global
                                     THEN set_lla([Unset EXCEPT !.global = TRUE], lla[w])
                                     ELSE set_enu(Unset, enu[w])]
        /\ meant = [w \in WP |-> IF w \in Global THEN At(lla[w]) ELSE Nowhere]
  BY DEF Init
<1>4. /\ stale = [w \in WP |-> IF w \in Global /\ ~ned_initialized THEN Coord ELSE {}]
      /\ lost = [w \in WP |-> {}]
  BY DEF Init
<1> DEFINE unset == [Unset EXCEPT !.global = TRUE]
<1>5. Unset \in Waypoint /\ unset \in Waypoint
  BY <1>1 DEF Unset, Waypoint
<1> HIDE DEF unset
<1>6. ASSUME NEW w \in WP
      PROVE  /\ waypoints[w] \in Waypoint
             /\ meant[w] \in [Coord -> SUBSET Int]
             /\ WellPlaced(waypoints[w], meant[w], stale[w], lost[w], ned_initialized, origin)
  <2>1. CASE w \in Global
    <3>1. lla[w] \in Position /\ \A c \in Coord : lla[w][c] \in Int
      BY <2>1, PositionsAreIntegers DEF Position
    <3>2. waypoints[w] = set_lla(unset, lla[w]) /\ meant[w] = At(lla[w])
      BY <1>3, <2>1 DEF unset
    <3>3. unset.global
      BY DEF unset, Unset
    <3>4. /\ waypoints[w] \in Waypoint /\ waypoints[w].lla = lla[w] /\ waypoints[w].global
          /\ ned_initialized => \A c \in Coord : waypoints[w].enu[c] + origin[c] = lla[w][c]
      BY <1>2, <1>5, <3>1, <3>2, <3>3, SetByLla
    <3>5. \A c \in Coord : meant[w][c] = {lla[w][c]}
      BY <3>2 DEF At
    <3>6. meant[w] \in [Coord -> SUBSET Int]
      BY <3>1, <3>2 DEF At
    <3> QED
      BY <3>4, <3>5, <3>6 DEF WellPlaced
  <2>2. CASE w \notin Global
    <3>1. enu[w] \in Position
      BY PositionsAreIntegers
    <3>2. waypoints[w] = set_enu(Unset, enu[w]) /\ meant[w] = Nowhere
      BY <1>3, <2>2
    <3>3. waypoints[w] \in Waypoint
      BY <1>2, <1>5, <3>1, <3>2, SetByEnu
    <3>4. meant[w] \in [Coord -> SUBSET Int] /\ \A c \in Coord : meant[w][c] = {}
      BY <3>2 DEF Nowhere
    <3> QED
      BY <3>3, <3>4 DEF WellPlaced
  <2> QED
    BY <2>1, <2>2
<1>7. waypoints \in [WP -> Waypoint] /\ meant \in [WP -> [Coord -> SUBSET Int]]
  BY <1>3, <1>6
<1>8. stale \in [WP -> SUBSET Coord] /\ lost \in [WP -> SUBSET Coord]
  BY <1>4
<1> QED
  BY <1>2, <1>6, <1>7, <1>8 DEF IInv, TypeOK, AllWellPlaced

-----------------------------------------------------------------------------
(* A step that changes one waypoint keeps the invariant if what it leaves  *)
(* is well placed.                                                         *)
LEMMA OneWaypoint ==
  ASSUME IInv, NEW w \in WP, NEW new \in Waypoint, NEW places \in [Coord -> SUBSET Int],
         NEW s \in SUBSET Coord, NEW l \in SUBSET Coord,
         waypoints' = [waypoints EXCEPT ![w] = new],
         meant' = [meant EXCEPT ![w] = places],
         stale' = [stale EXCEPT ![w] = s],
         lost' = [lost EXCEPT ![w] = l],
         UNCHANGED frame,
         WellPlaced(new, places, s, l, ned_initialized, origin)
  PROVE  IInv'
<1>1. TypeOK'
  BY DEF IInv, TypeOK
<1>2. waypoints'[w] = new /\ meant'[w] = places /\ stale'[w] = s /\ lost'[w] = l
  BY DEF IInv, TypeOK
<1>3. \A v \in WP : v # w => /\ waypoints'[v] = waypoints[v] /\ meant'[v] = meant[v]
                             /\ stale'[v] = stale[v] /\ lost'[v] = lost[v]
  BY DEF IInv, TypeOK
<1>4. ASSUME NEW v \in WP
      PROVE  WellPlaced(waypoints'[v], meant'[v], stale'[v], lost'[v],
                        ned_initialized', origin')
  <2>1. CASE v = w
    BY <1>2, <2>1
  <2>2. CASE v # w
    BY <1>3, <2>2 DEF IInv, AllWellPlaced
  <2> QED
    BY <2>1, <2>2
<1> QED
  BY <1>1, <1>4 DEF IInv, AllWellPlaced

(* What a write says of the waypoint it is for.                            *)
LEMMA Before ==
  ASSUME IInv, NEW w \in WP
  PROVE  /\ waypoints[w] \in Waypoint
         /\ waypoints[w].enu \in Position /\ waypoints[w].lla \in Position
         /\ meant[w] \in [Coord -> SUBSET Int]
         /\ stale[w] \in SUBSET Coord /\ lost[w] \in SUBSET Coord
         /\ WellPlaced(waypoints[w], meant[w], stale[w], lost[w], ned_initialized, origin)
         /\ ned_initialized \in BOOLEAN /\ origin \in Position
         /\ \A c \in Coord : origin[c] \in Int
BY DEF IInv, TypeOK, AllWellPlaced, Waypoint, Position

(* The place an offset names.                                              *)
LEMMA Named ==
  ASSUME IInv, NEW w \in WP, NEW c \in Coord, NEW v \in Int
  PROVE  /\ NamesByOffset(w, c, v) \in SUBSET Int
         /\ ~waypoints[w].global => NamesByOffset(w, c, v) = {}
         /\ \A place \in NamesByOffset(w, c, v) : ned_initialized /\ place = v + origin[c]
<1>1. v + origin[c] \in Int
  BY Before
<1> QED
  BY <1>1 DEF NamesByOffset, Names

(* Messages that move a waypoint by a whole offset move the place it is    *)
(* meant to be at with it.                                                 *)
LEMMA ByEnu ==
  ASSUME IInv, NEW w \in WP, NEW enu \in Position, waypoint_set_enu(w, enu)
  PROVE  IInv'
<1> DEFINE new == set_enu(waypoints[w], enu)
           places == [c \in Coord |-> NamesByOffset(w, c, enu[c])]
<1>1. /\ new \in Waypoint /\ new.enu = enu /\ new.global = waypoints[w].global
      /\ ned_initialized => \A c \in Coord : new.lla[c] = enu[c] + origin[c]
  BY Before, SetByEnu
<1>2. \A c \in Coord : enu[c] \in Int
  BY DEF Position
<1>3. /\ places \in [Coord -> SUBSET Int]
      /\ ~waypoints[w].global => \A c \in Coord : places[c] = {}
      /\ \A c \in Coord : \A place \in places[c] :
           ned_initialized /\ place = enu[c] + origin[c]
  BY <1>2, Named
<1>4. /\ waypoints' = [waypoints EXCEPT ![w] = new]
      /\ meant' = [meant EXCEPT ![w] = places]
      /\ stale' = [stale EXCEPT ![w] = {}]
      /\ lost' = [lost EXCEPT ![w] = {}]
      /\ UNCHANGED frame
  BY DEF waypoint_set_enu
<1> HIDE DEF new, places
<1>5. WellPlaced(new, places, {}, {}, ned_initialized, origin)
  BY <1>1, <1>3 DEF WellPlaced
<1>6. {} \in SUBSET Coord
  OBVIOUS
<1> QED
  BY <1>1, <1>3, <1>4, <1>5, <1>6, OneWaypoint

(* Messages that write one part of an offset: the other part keeps its     *)
(* place if its offset is not stale.                                       *)
LEMMA ByPart ==
  ASSUME IInv, NEW w \in WP, NEW c \in Coord, NEW v \in Int, PutPart(w, c, v)
  PROVE  IInv'
<1> DEFINE new == set_part(waypoints[w], c, v)
           places == [meant[w] EXCEPT ![c] = NamesByOffset(w, c, v)]
           s == IF ned_initialized THEN {} ELSE stale[w] \ {c}
           l == (IF ned_initialized THEN lost[w] \cup stale[w] ELSE lost[w]) \ {c}
<1>1. /\ new \in Waypoint /\ new.global = waypoints[w].global
      /\ new.enu = [waypoints[w].enu EXCEPT ![c] = v]
      /\ ~ned_initialized => new.lla = waypoints[w].lla
      /\ ned_initialized => \A k \in Coord : new.lla[k] = new.enu[k] + origin[k]
  BY Before, SetPart
<1>2. /\ new.enu[c] = v
      /\ \A k \in Coord : k # c => new.enu[k] = waypoints[w].enu[k]
  BY <1>1, Before DEF Position
<1>3. /\ NamesByOffset(w, c, v) \in SUBSET Int
      /\ ~waypoints[w].global => NamesByOffset(w, c, v) = {}
      /\ \A place \in NamesByOffset(w, c, v) : ned_initialized /\ place = v + origin[c]
  BY Named
<1>4. /\ places \in [Coord -> SUBSET Int]
      /\ places[c] = NamesByOffset(w, c, v)
      /\ \A k \in Coord : k # c => places[k] = meant[w][k]
  BY <1>3, Before
<1>5. s \in SUBSET Coord /\ l \in SUBSET Coord
  BY Before
<1>6. /\ waypoints' = [waypoints EXCEPT ![w] = new]
      /\ meant' = [meant EXCEPT ![w] = places]
      /\ stale' = [stale EXCEPT ![w] = s]
      /\ lost' = [lost EXCEPT ![w] = l]
      /\ UNCHANGED frame
  BY DEF PutPart, IInv, TypeOK
<1>7. WellPlaced(waypoints[w], meant[w], stale[w], lost[w], ned_initialized, origin)
  BY Before
<1>8. ~new.global => \A k \in Coord : places[k] = {}
  BY <1>1, <1>3, <1>4, <1>7 DEF WellPlaced
<1>9. /\ \A k \in Coord \ l : \A place \in places[k] : new.lla[k] = place
      /\ ned_initialized =>
           \A k \in Coord \ (s \cup l) : \A place \in places[k] : new.enu[k] + origin[k] = place
  <2> HIDE DEF new, places
  <2>1. CASE ned_initialized
    <3>1. ASSUME NEW k \in Coord \ l, NEW place \in places[k]
          PROVE  new.enu[k] + origin[k] = place
      <4>1. CASE k = c
        BY <1>2, <1>3, <1>4, <4>1
      <4>2. CASE k # c
        <5>1. k \in Coord \ (stale[w] \cup lost[w])
          BY <2>1, <4>2
        <5> QED
          BY <1>2, <1>4, <1>7, <2>1, <4>2, <5>1 DEF WellPlaced
      <4> QED
        BY <4>1, <4>2
    <3> QED
      BY <1>1, <2>1, <3>1
  <2>2. CASE ~ned_initialized
    <3>1. ASSUME NEW k \in Coord \ l, NEW place \in places[k]
          PROVE  new.lla[k] = place
      <4>1. k # c
        BY <1>3, <1>4, <2>2
      <4>2. k \in Coord \ lost[w]
        BY <2>2, <4>1
      <4> QED
        BY <1>1, <1>4, <1>7, <2>2, <4>1, <4>2 DEF WellPlaced
    <3> QED
      BY <2>2, <3>1
  <2> QED
    BY <2>1, <2>2
<1> HIDE DEF new, places, s, l
<1>10. WellPlaced(new, places, s, l, ned_initialized, origin)
  BY <1>8, <1>9 DEF WellPlaced
<1> QED
  BY <1>1, <1>4, <1>5, <1>6, <1>10, OneWaypoint

(* Messages that give a waypoint a place, or its horizontal part.          *)
LEMMA ByLla ==
  ASSUME IInv, NEW w \in WP, NEW C \in SUBSET Coord, NEW lla \in Position,
         PutPlace(w, C, lla)
  PROVE  IInv'
<1> DEFINE mixed == [c \in Coord |-> IF c \in C THEN lla[c] ELSE waypoints[w].lla[c]]
           new == set_lla(waypoints[w], mixed)
           places == [c \in Coord |-> IF c \in C THEN Names(w, c, lla[c]) ELSE meant[w][c]]
           s == IF ned_initialized THEN {} ELSE stale[w] \cup C
           l == lost[w] \ C
<1>1. mixed \in Position /\ \A c \in Coord : lla[c] \in Int
  BY Before DEF Position
<1>2. /\ new \in Waypoint /\ new.lla = mixed /\ new.global = waypoints[w].global
      /\ ned_initialized => \A c \in Coord : new.enu[c] + origin[c] = mixed[c]
  <2> HIDE DEF mixed
  <2> QED
    BY <1>1, Before, SetByLla
<1>3. /\ places \in [Coord -> SUBSET Int]
      /\ ~waypoints[w].global => \A c \in Coord : places[c] = {}
  BY <1>1, Before DEF Names, WellPlaced
<1>4. s \in SUBSET Coord /\ l \in SUBSET Coord
  BY Before
<1>5. /\ waypoints' = [waypoints EXCEPT ![w] = new]
      /\ meant' = [meant EXCEPT ![w] = places]
      /\ stale' = [stale EXCEPT ![w] = s]
      /\ lost' = [lost EXCEPT ![w] = l]
      /\ UNCHANGED frame
  BY DEF PutPlace, IInv, TypeOK
<1>6. \A c \in Coord \ l : \A p \in places[c] : mixed[c] = p
  <2>1. WellPlaced(waypoints[w], meant[w], stale[w], lost[w], ned_initialized, origin)
    BY Before
  <2>2. ASSUME NEW c \in Coord \ l, NEW p \in places[c] PROVE mixed[c] = p
    <3>1. CASE c \in C
      BY <2>2, <3>1 DEF Names
    <3>2. CASE c \notin C
      BY <2>1, <2>2, <3>2 DEF WellPlaced
    <3> QED
      BY <3>1, <3>2
  <2> QED
    BY <2>2
<1> HIDE DEF mixed, new, places, s, l
<1>7. WellPlaced(new, places, s, l, ned_initialized, origin)
  BY <1>2, <1>3, <1>6 DEF WellPlaced
<1> QED
  BY <1>2, <1>3, <1>4, <1>5, <1>7, OneWaypoint

(* The waypoint is put where the vehicle is.                               *)
LEMMA Here ==
  ASSUME IInv, NEW w \in WP, NEW here \in Place,
         waypoint_set_here(w, here) \/ waypoint_set_here_2d(w, here)
  PROVE  IInv'
<1>1. here \in Position /\ Zero \in Position
  BY PositionsAreIntegers DEF Zero, Position
<1>2. EnuOf(here) \in Position
  BY <1>1, Before, Sums DEF EnuOf
<1>3. EnuOf(here)["xy"] \in Int /\ "xy" \in Coord /\ {"xy"} \in SUBSET Coord
  BY <1>2 DEF Position, Coord
<1>4. \/ PutPlace(w, Coord, here) \/ PutPlace(w, {"xy"}, here)
      \/ waypoint_set_enu(w, EnuOf(here)) \/ PutPart(w, "xy", EnuOf(here)["xy"])
  BY DEF waypoint_set_here, waypoint_set_here_2d, waypoint_set_lla,
         waypoint_set_latlon, waypoint_set_xy_i
<1>5. PICK enu \in Position :
        /\ enu["xy"] \in Int
        /\ \/ PutPlace(w, Coord, here) \/ PutPlace(w, {"xy"}, here)
           \/ waypoint_set_enu(w, enu) \/ PutPart(w, "xy", enu["xy"])
  BY <1>2, <1>3, <1>4
<1>6. PICK v \in Int : v = enu["xy"]
  BY <1>5
<1>7. \/ PutPlace(w, Coord, here) \/ PutPlace(w, {"xy"}, here)
      \/ waypoint_set_enu(w, enu) \/ PutPart(w, "xy", v)
  BY <1>5, <1>6
<1>8. Coord \in SUBSET Coord
  OBVIOUS
<1> QED
  BY <1>1, <1>3, <1>7, <1>8, ByLla, ByEnu, ByPart

(* A waypoint becomes as global as the one it is copied from.              *)
LEMMA Copied ==
  ASSUME IInv, NEW dest \in WP, NEW src \in WP, waypoint_copy(dest, src)
  PROVE  IInv'
BY Before, OneWaypoint DEF waypoint_copy

(* The horizontal part is copied with what is known of it; a local         *)
(* waypoint is meant to be nowhere on earth.                               *)
LEMMA PositionCopied ==
  ASSUME IInv, NEW dest \in WP, NEW src \in WP, waypoint_position_copy(dest, src)
  PROVE  IInv'
<1> DEFINE As(now, of) == (now \ {"xy"}) \cup (of \cap {"xy"})
           new == [waypoints[dest] EXCEPT !.enu["xy"] = waypoints[src].enu["xy"],
                                          !.lla["xy"] = waypoints[src].lla["xy"]]
           places == [meant[dest] EXCEPT !["xy"] =
                        IF waypoints[dest].global THEN meant[src]["xy"] ELSE {}]
           s == As(stale[dest], stale[src])
           l == As(lost[dest], lost[src])
<1>1. /\ new \in Waypoint /\ new.global = waypoints[dest].global
      /\ new.enu["xy"] = waypoints[src].enu["xy"] /\ new.enu["z"] = waypoints[dest].enu["z"]
      /\ new.lla["xy"] = waypoints[src].lla["xy"] /\ new.lla["z"] = waypoints[dest].lla["z"]
  <2> DEFINE enu == [waypoints[dest].enu EXCEPT !["xy"] = waypoints[src].enu["xy"]]
             lla == [waypoints[dest].lla EXCEPT !["xy"] = waypoints[src].lla["xy"]]
  <2>1. /\ waypoints[dest] \in Waypoint
        /\ waypoints[dest].enu \in Position /\ waypoints[src].enu \in Position
        /\ waypoints[dest].lla \in Position /\ waypoints[src].lla \in Position
    BY Before
  <2>2. /\ enu \in Position /\ enu["xy"] = waypoints[src].enu["xy"]
        /\ enu["z"] = waypoints[dest].enu["z"]
    BY <2>1 DEF Position, Coord
  <2>3. /\ lla \in Position /\ lla["xy"] = waypoints[src].lla["xy"]
        /\ lla["z"] = waypoints[dest].lla["z"]
    BY <2>1 DEF Position, Coord
  <2>4. new = [waypoints[dest] EXCEPT !.enu = enu, !.lla = lla]
    BY <2>1 DEF Waypoint
  <2> HIDE DEF enu, lla, new
  <2>5. /\ new \in Waypoint /\ new.global = waypoints[dest].global
        /\ new.enu = enu /\ new.lla = lla
    BY <2>1, <2>2, <2>3, <2>4 DEF Waypoint
  <2> QED
    BY <2>2, <2>3, <2>5
<1>2. /\ places \in [Coord -> SUBSET Int]
      /\ places["xy"] = IF waypoints[dest].global THEN meant[src]["xy"] ELSE {}
      /\ places["z"] = meant[dest]["z"]
  BY Before DEF Coord
<1>3. /\ s \in SUBSET Coord /\ l \in SUBSET Coord
      /\ "xy" \in s <=> "xy" \in stale[src]
      /\ "z" \in s <=> "z" \in stale[dest]
      /\ "xy" \in l <=> "xy" \in lost[src]
      /\ "z" \in l <=> "z" \in lost[dest]
  BY Before DEF Coord
<1>4. /\ waypoints' = [waypoints EXCEPT ![dest] = new]
      /\ meant' = [meant EXCEPT ![dest] = places]
      /\ stale' = [stale EXCEPT ![dest] = s]
      /\ lost' = [lost EXCEPT ![dest] = l]
      /\ UNCHANGED frame
  BY DEF waypoint_position_copy, IInv, TypeOK, Waypoint
<1>5. /\ WellPlaced(waypoints[dest], meant[dest], stale[dest], lost[dest],
                    ned_initialized, origin)
      /\ WellPlaced(waypoints[src], meant[src], stale[src], lost[src],
                    ned_initialized, origin)
  BY Before
<1> HIDE DEF new, places, s, l
<1>6. WellPlaced(new, places, s, l, ned_initialized, origin)
  BY <1>1, <1>2, <1>3, <1>5 DEF WellPlaced, Coord
<1> QED
  BY <1>1, <1>2, <1>3, <1>4, <1>6, OneWaypoint

-----------------------------------------------------------------------------
(* Reading a position may compute a representation.                        *)
LEMMA ReadIInv ==
  ASSUME IInv, NEW w \in WP, Read(w)
  PROVE  IInv'
<1>1. WellPlaced(waypoints[w], meant[w], stale[w], lost[w], ned_initialized, origin)
  BY Before
<1>2. /\ meant' = [meant EXCEPT ![w] = meant[w]] /\ lost' = [lost EXCEPT ![w] = lost[w]]
      /\ UNCHANGED frame
  BY DEF Read, waypoint_get_lla, waypoint_get_enu_i, IInv, TypeOK
<1>3. CASE waypoint_get_enu_i(w)
  <2> DEFINE new == waypoint_localize(waypoints[w], ned_initialized, origin)
             s == IF ned_initialized THEN {} ELSE stale[w]
  <2>1. /\ new \in Waypoint /\ new.lla = waypoints[w].lla /\ new.global = waypoints[w].global
        /\ ned_initialized => \A c \in Coord : new.enu[c] + origin[c] = waypoints[w].lla[c]
    BY Before, Localized
  <2>2. /\ waypoints' = [waypoints EXCEPT ![w] = new]
        /\ stale' = [stale EXCEPT ![w] = s]
        /\ s \in SUBSET Coord
    BY <1>3, Before DEF waypoint_get_enu_i
  <2> HIDE DEF new, s
  <2>3. WellPlaced(new, meant[w], s, lost[w], ned_initialized, origin)
    BY <1>1, <2>1 DEF WellPlaced
  <2> QED
    BY <1>2, <2>1, <2>2, <2>3, Before, OneWaypoint
<1>4. CASE waypoint_get_lla(w)
  <2> DEFINE new == waypoint_globalize(waypoints[w], ned_initialized, origin)
  <2>1. new \in Waypoint /\ new.global = waypoints[w].global
    BY Before, Globalized
  <2>2. /\ waypoints' = [waypoints EXCEPT ![w] = new]
        /\ stale' = [stale EXCEPT ![w] = stale[w]]
        /\ ~waypoints[w].global
    BY <1>4 DEF waypoint_get_lla, IInv, TypeOK
  <2> HIDE DEF new
  <2>3. WellPlaced(new, meant[w], stale[w], lost[w], ned_initialized, origin)
    BY <1>1, <2>1, <2>2 DEF WellPlaced
  <2> QED
    BY <1>2, <2>1, <2>2, <2>3, Before, OneWaypoint
<1> QED
  BY <1>3, <1>4 DEF Read

-----------------------------------------------------------------------------
(* A new origin moves the local position of the global waypoints only.     *)
LEMMA Reset ==
  ASSUME IInv, waypoints_localize_all, UNCHANGED <<meant, lost>>,
         origin' \in Position, ned_initialized' \in BOOLEAN, ltp_initialized' \in BOOLEAN,
         ned_initialized => ned_initialized',
         ~ned_initialized' => UNCHANGED stale
  PROVE  IInv'
<1> DEFINE Local(w) == waypoint_localize(waypoints[w], ned_initialized', origin')
<1>1. ASSUME NEW w \in WP
      PROVE  /\ Local(w) \in Waypoint
             /\ Local(w).lla = waypoints[w].lla /\ Local(w).global = waypoints[w].global
             /\ ned_initialized' =>
                  \A c \in Coord : Local(w).enu[c] + origin'[c] = waypoints[w].lla[c]
  BY Before, Localized
<1>2. /\ \A w \in WP : waypoints'[w] = IF waypoints[w].global THEN Local(w) ELSE waypoints[w]
      /\ waypoints' = [w \in WP |-> waypoints'[w]]
      /\ stale' = [w \in WP |-> IF waypoints[w].global /\ ned_initialized' THEN {} ELSE stale[w]]
  BY DEF waypoints_localize_all, LocalizeEach
<1> HIDE DEF Local
<1>3. \A w \in WP : waypoints'[w] \in Waypoint
  BY <1>1, <1>2, Before
<1>4. waypoints' \in [WP -> Waypoint] /\ stale' \in [WP -> SUBSET Coord]
  BY <1>2, <1>3, Before
<1>5. TypeOK'
  BY <1>4 DEF IInv, TypeOK
<1>6. ASSUME NEW w \in WP
      PROVE  WellPlaced(waypoints'[w], meant'[w], stale'[w], lost'[w],
                        ned_initialized', origin')
  <2>1. WellPlaced(waypoints[w], meant[w], stale[w], lost[w], ned_initialized, origin)
    BY Before
  <2>2. meant'[w] = meant[w] /\ lost'[w] = lost[w]
    OBVIOUS
  <2>3. CASE waypoints[w].global
    BY <1>1, <1>2, <2>1, <2>2, <2>3 DEF WellPlaced
  <2>4. CASE ~waypoints[w].global
    BY <1>2, <2>1, <2>2, <2>4 DEF WellPlaced
  <2> QED
    BY <2>3, <2>4
<1> QED
  BY <1>5, <1>6 DEF IInv, AllWellPlaced

(* The GPS callback leaves no coordinate fresh.                            *)
LEMMA Callback ==
  ASSUME IInv, NEW here \in Place, ins_int_update_gps(here)
  PROVE  IInv'
<1>1. here \in Position
  BY PositionsAreIntegers
<1>2. /\ origin' \in Position /\ ned_initialized' \in BOOLEAN /\ ltp_initialized' \in BOOLEAN
      /\ waypoints' = waypoints /\ meant' = meant /\ lost' = lost
      /\ stale' = [w \in WP |-> Coord \ lost[w]]
  BY <1>1 DEF ins_int_update_gps, SetLocalOrigin, Position, IInv, TypeOK
<1>3. TypeOK'
  BY <1>2 DEF IInv, TypeOK
<1>4. ASSUME NEW w \in WP
      PROVE  WellPlaced(waypoints'[w], meant'[w], stale'[w], lost'[w],
                        ned_initialized', origin')
  BY <1>2, Before DEF WellPlaced
<1> QED
  BY <1>3, <1>4 DEF IInv, AllWellPlaced

(* One case per action of the waypoints.                                   *)
LEMMA NextIInv == IInv /\ [Next]_vars => IInv'
<1> SUFFICES ASSUME IInv, [Next]_vars PROVE IInv'
  OBVIOUS
<1>1. ASSUME NEW w \in WP, Write(w) PROVE IInv'
  <2>1. ASSUME NEW enu \in Offset,
               \/ waypoint_set_enu(w, enu)
               \/ waypoint_set_xy_i(w, enu["xy"]) \/ waypoint_set_alt(w, enu["z"])
        PROVE  IInv'
    <3>1. /\ enu \in Position /\ "xy" \in Coord /\ "z" \in Coord
          /\ enu["xy"] \in Int /\ enu["z"] \in Int
      BY PositionsAreIntegers DEF Position, Coord
    <3>2. PICK xy \in Int, z \in Int : xy = enu["xy"] /\ z = enu["z"]
      BY <3>1
    <3>3. waypoint_set_enu(w, enu) \/ PutPart(w, "xy", xy) \/ PutPart(w, "z", z)
      BY <2>1, <3>2 DEF waypoint_set_xy_i, waypoint_set_alt
    <3> QED
      BY <3>1, <3>3, ByEnu, ByPart
  <2>2. ASSUME NEW lla \in Place, waypoint_set_lla(w, lla) \/ waypoint_set_latlon(w, lla)
        PROVE  IInv'
    <3>1. PutPlace(w, Coord, lla) \/ PutPlace(w, {"xy"}, lla)
      BY <2>2 DEF waypoint_set_lla, waypoint_set_latlon
    <3>2. lla \in Position /\ Coord \in SUBSET Coord /\ {"xy"} \in SUBSET Coord
      BY PositionsAreIntegers DEF Coord
    <3> QED
      BY <3>1, <3>2, ByLla
  <2>3. ASSUME NEW here \in Place,
               waypoint_set_here(w, here) \/ waypoint_set_here_2d(w, here)
        PROVE  IInv'
    BY <2>3, Here
  <2>4. ASSUME NEW src \in WP, waypoint_copy(w, src) PROVE IInv'
    BY <2>4, Copied
  <2>5. ASSUME NEW src \in WP, waypoint_position_copy(w, src) PROVE IInv'
    BY <2>5, PositionCopied
  <2> QED
    BY <1>1, <2>1, <2>2, <2>3, <2>4, <2>5 DEF Write
<1>2. ASSUME NEW w \in WP, Read(w) PROVE IInv'
  BY <1>2, ReadIInv
<1>3. ASSUME NEW here \in Place, NEW fix \in BOOLEAN,
             nav_reset_reference(here, fix) \/ nav_reset_alt(here, fix)
      PROVE  IInv'
  <2>1. here \in Position
    BY PositionsAreIntegers
  <2>2. /\ origin' \in Position /\ ned_initialized' \in BOOLEAN /\ ltp_initialized' \in BOOLEAN
        /\ ned_initialized => ned_initialized'
        /\ waypoints_localize_all /\ UNCHANGED <<meant, lost>>
    BY <1>3, <2>1 DEF nav_reset_reference, nav_reset_alt, SetLocalOrigin, Position,
                      IInv, TypeOK
  <2>3. ~ned_initialized' => UNCHANGED stale
    BY <2>2 DEF waypoints_localize_all, LocalizeEach, IInv, TypeOK
  <2> QED
    BY <2>2, <2>3, Reset
<1>4. ASSUME NEW here \in Place, ins_int_update_gps(here) PROVE IInv'
  BY <1>4, Callback
<1>5. CASE UNCHANGED vars
  BY <1>5 DEF IInv, TypeOK, AllWellPlaced
<1> QED
  BY <1>1, <1>2, <1>3, <1>4, <1>5 DEF Next

(* Every representation of every waypoint stays well formed, and every     *)
(* origin is a position (waypoints.c:51-422, ins_int.c:249-289).           *)
THEOREM WaypointsTyping == Spec => []TypeOK
<1>1. IInv => TypeOK
  BY DEF IInv
<1> QED
  BY <1>1, InitIInv, NextIInv, PTL DEF Spec

(* Each coordinate of a global waypoint stays where on earth it was put    *)
(* unless it is stale or lost, for any waypoints, places and offsets, and  *)
(* whatever parts are written alone (waypoints.c:129-347,                  *)
(* navigation.c:238-249, ins_int.c:249-285,405-407).                       *)
THEOREM WaypointsInPlace == Spec => []GlobalsStayInPlace
BY IInvInPlace, InitIInv, NextIInv, PTL DEF Spec

-----------------------------------------------------------------------------
(* The flight plan of the course.                                          *)

(* The blocks of the flight plan, one by one.                              *)
LEMMA BlocksAre ==
  Blocks = {"Wait GPS", "Geo init", "Holding point", "Start Engine", "Takeoff",
    "Standby", "START", "STOP", "land here", "Land", "Flare", "Landed", "HOME"}
<1> DEFINE names == <<"Wait GPS", "Geo init", "Holding point", "Start Engine", "Takeoff",
    "Standby", "START", "STOP", "land here", "Land", "Flare", "Landed", "HOME">>
<1>1. Blocks = {names[i] : i \in 1..13}
  BY DEF Blocks, BlockNames
<1>2. /\ names[1] = "Wait GPS" /\ names[2] = "Geo init" /\ names[3] = "Holding point"
      /\ names[4] = "Start Engine" /\ names[5] = "Takeoff" /\ names[6] = "Standby"
      /\ names[7] = "START" /\ names[8] = "STOP" /\ names[9] = "land here"
      /\ names[10] = "Land" /\ names[11] = "Flare" /\ names[12] = "Landed"
      /\ names[13] = "HOME"
  OBVIOUS
<1> HIDE DEF names
<1>3. \A i \in 1..13 : i \in {1, 2, 3, 4, 5, 6, 7, 8, 9, 10, 11, 12, 13}
  OBVIOUS
<1>4. ASSUME NEW b \in Blocks
      PROVE  b \in {names[1], names[2], names[3], names[4], names[5], names[6], names[7],
                    names[8], names[9], names[10], names[11], names[12], names[13]}
  <2>1. PICK i \in 1..13 : b = names[i]
    BY <1>1
  <2> QED BY <2>1, <1>3
<1>5. \A i \in 1..13 : names[i] \in Blocks
  BY <1>1
<1>6. {names[1], names[2], names[3], names[4], names[5], names[6], names[7],
       names[8], names[9], names[10], names[11], names[12], names[13]} \subseteq Blocks
  BY <1>5
<1> QED BY <1>2, <1>4, <1>6

(* A jump leads to a block of the plan, whatever its name.                 *)
LEMMA GotoTyped ==
  ASSUME NEW name, nav_goto_block(name)
  PROVE  /\ nav_block' \in Blocks /\ nav_stage' \in 0..2 /\ block_time' \in 0..2 
         /\ arrived' \in BOOLEAN
         /\ name \in Blocks => nav_block' = name
<1>1. BlockNames[Len(BlockNames)] \in Blocks
  <2>1. Len(BlockNames) = 13
    BY DEF BlockNames
  <2>2. BlockNames[13] = "HOME"
    BY DEF BlockNames
  <2> QED BY <2>1, <2>2, BlocksAre
<1>2. /\ nav_block' = IF name \in Blocks THEN name ELSE BlockNames[Len(BlockNames)]
      /\ nav_stage' = 0 /\ block_time' = 0 /\ arrived' = FALSE
  BY DEF nav_goto_block
<1>3. nav_block' \in Blocks /\ (name \in Blocks => nav_block' = name)
  BY <1>1, <1>2
<1>4. nav_stage' \in 0..2 /\ block_time' \in 0..2
  BY <1>2
<1>5. arrived' \in BOOLEAN
  BY <1>2
<1> QED BY <1>3, <1>4, <1>5

(* Neither a detected ground nor an armed detection is left over from      *)
(* another flight.                                                         *)
GroundIsShock ==
  /\ ground_detected => felt = "shock"
  /\ detect_ground_once => felt \in {"armed", "shock"}

CourseInv == CourseTypeOK /\ GroundIsShock

(* What a pass of the plan leaves behind; only ground_detected ends the    *)
(* flare, and only its first stage arms the detection.                     *)
Passed ==
  /\ nav_block' \in Blocks /\ nav_stage' \in 0..2 /\ block_time' \in 0..2
  /\ arrived' \in BOOLEAN
  /\ vertical' \in {"hold", "climb", "descend", "off"}
  /\ motors_on' \in BOOLEAN
  /\ ground_detected' \in BOOLEAN /\ detect_ground_once' \in BOOLEAN
  /\ ground_detected' => ground_detected /\ in_flight
  /\ detect_ground_once' => in_flight /\ (detect_ground_once \/ FlareArms)
  /\ nav_block = "Flare" /\ nav_block' = "Holding point" => ground_detected

(* A period keeps a detected ground in flight only.                        *)
LEMMA GroundTyped ==
  ASSUME in_flight \in BOOLEAN, NEW d \in BOOLEAN, NEW o \in BOOLEAN, GroundIs(d, o)
  PROVE  /\ ground_detected' \in BOOLEAN /\ detect_ground_once' \in BOOLEAN
         /\ ground_detected' => d /\ in_flight
         /\ detect_ground_once' => o /\ in_flight
BY DEF GroundIs

(* Motors are on or off.                                                   *)
LEMMA MotorsTyped ==
  ASSUME NEW on, MotorsAre(on)
  PROVE  motors_on' \in BOOLEAN
BY DEF MotorsAre

(* The exceptions of the plan and of its blocks.                           *)
LEMMA ExceptionPass ==
  ASSUME CourseTypeOK, GlobalException \/ BlockException
  PROVE  Passed
<1> USE DEF CourseTypeOK
<1>1. CASE GlobalException
  <2>1. /\ nav_block' \in {"land here", "Landed"} /\ nav_block' \in Blocks
        /\ nav_stage' \in 0..2 /\ block_time' \in 0..2 /\ arrived' \in BOOLEAN
    <3>1. CASE nav_goto_block("land here")
      BY <3>1, GotoTyped, BlocksAre
    <3>2. CASE nav_goto_block("Landed")
      BY <3>2, GotoTyped, BlocksAre
    <3> QED BY <1>1, <3>1, <3>2 DEF GlobalException
  <2>2. motors_on' \in BOOLEAN
    BY <1>1, MotorsTyped DEF GlobalException
  <2>3. /\ ground_detected' \in BOOLEAN /\ detect_ground_once' \in BOOLEAN
        /\ ground_detected' => ground_detected /\ in_flight
        /\ detect_ground_once' => detect_ground_once /\ in_flight
    BY <1>1, GroundTyped DEF GlobalException
  <2> QED BY <1>1, <2>1, <2>2, <2>3 DEF Passed, GlobalException
<1>2. CASE BlockException
  <2>1. /\ nav_block' \in Blocks /\ nav_stage' \in 0..2 /\ block_time' \in 0..2
        /\ arrived' \in BOOLEAN
        /\ nav_block' = "Holding point" => ground_detected
    <3>1. CASE nav_goto_block("Standby")
      <4>1. nav_block' = "Standby"
        BY <3>1, GotoTyped, BlocksAre
      <4>2. nav_block' # "Holding point"
        BY <4>1
      <4> QED BY <3>1, <4>2, GotoTyped
    <3>2. CASE Touched /\ nav_goto_block("Holding point")
      BY <3>2, GotoTyped, BlocksAre DEF Touched
    <3>3. CASE nav_goto_block("Landed")
      <4>1. nav_block' = "Landed"
        BY <3>3, GotoTyped, BlocksAre
      <4>2. nav_block' # "Holding point"
        BY <4>1
      <4> QED BY <3>3, <4>2, GotoTyped
    <3> QED BY <1>2, <3>1, <3>2, <3>3 DEF BlockException
  <2>2. motors_on' \in BOOLEAN
    BY <1>2, MotorsTyped DEF BlockException
  <2>3. /\ ground_detected' \in BOOLEAN /\ detect_ground_once' \in BOOLEAN
        /\ ground_detected' => ground_detected /\ in_flight
        /\ detect_ground_once' => detect_ground_once /\ in_flight
    <3>1. (ground_detected /\ ~Touched) \in BOOLEAN
      OBVIOUS
    <3>2. GroundIs(ground_detected /\ ~Touched, detect_ground_once)
      BY <1>2 DEF BlockException
    <3> QED BY <3>1, <3>2, GroundTyped
  <2> QED BY <1>2, <2>1, <2>2, <2>3 DEF Passed, BlockException
<1> QED BY <1>1, <1>2

(* What a stage leaves behind: the flare is not left by its stages.        *)
StageTyped ==
  /\ nav_block' \in Blocks /\ nav_stage' \in 0..2 /\ block_time' \in 0..2
  /\ arrived' \in BOOLEAN
  /\ vertical' \in {"hold", "climb", "descend", "off"}
  /\ motors_on' \in BOOLEAN
  /\ nav_block = "Flare" => nav_block' = "Flare" /\ nav_stage' = 1

(* The stages keep or choose the block. *)
LEMMA StageKeeps ==
  ASSUME CourseTypeOK, Stage
  PROVE  StageTyped
<1>0. CourseTypeOK
  OBVIOUS
<1> USE DEF StageTyped
<1>a. ASSUME Stays
      PROVE  /\ nav_block' \in Blocks /\ nav_stage' \in 0..2 /\ block_time' \in 0..2
             /\ arrived' \in BOOLEAN /\ nav_block' = nav_block /\ nav_stage' = 1
  BY <1>0, <1>a DEF Stays, CourseTypeOK
<1>1. CASE WaitGps
  <2>1. motors_on' \in BOOLEAN
    BY <1>1, MotorsTyped DEF WaitGps, NavKillThrottle
  <2>2. CASE Stays
    BY <1>0, <1>1, <2>1, <2>2, <1>a DEF WaitGps, CourseTypeOK
  <2>3. CASE nav_goto_block("Geo init")
    BY <1>0, <1>1, <2>1, <2>3, GotoTyped DEF WaitGps, CourseTypeOK
  <2> QED BY <1>1, <2>2, <2>3 DEF WaitGps
<1>2. CASE GeoInit
  <2>1. motors_on' \in BOOLEAN
    BY <1>2, MotorsTyped DEF GeoInit
  <2>2. /\ nav_block' \in Blocks /\ nav_stage' \in 0..2 /\ block_time' \in 0..2
        /\ arrived' \in BOOLEAN
    <3>1. CASE Stays
      BY <1>a, <3>1
    <3>2. CASE nav_goto_block("Holding point")
      BY <3>2, GotoTyped
    <3>3. CASE block_time < 2 /\ nav_stage' = 1 /\ block_time' = block_time + 1
               /\ UNCHANGED <<nav_block, arrived>>
      BY <1>0, <3>3 DEF CourseTypeOK
    <3> QED BY <1>2, <3>1, <3>2, <3>3 DEF GeoInit
  <2> QED BY <1>0, <1>2, <2>1, <2>2 DEF GeoInit, CourseTypeOK
<1>3. CASE Unpower
  <2>1. motors_on' \in BOOLEAN
    BY <1>3, MotorsTyped DEF Unpower, NavKillThrottle, NavResurrect
  <2> QED BY <1>3, <2>1, <1>a DEF Unpower
<1>4. CASE Hover
  <2>1. motors_on' \in BOOLEAN
    BY <1>4, MotorsTyped DEF Hover
  <2> QED BY <1>4, <2>1, <1>a DEF Hover
<1>5. CASE Go
  <2>1. motors_on' \in BOOLEAN
    BY <1>5, MotorsTyped DEF Go
  <2>2. CASE nav_goto_block("Flare") /\ UNCHANGED vertical
    BY <1>0, <1>5, <2>1, <2>2, GotoTyped DEF Go, CourseTypeOK
  <2>3. CASE nav_stage' = 2 /\ UNCHANGED <<nav_block, block_time, arrived, vertical>>
    <3>1. nav_block' \in Blocks /\ nav_block' = nav_block /\ block_time' \in 0..2
      BY <1>0, <2>3 DEF CourseTypeOK
    <3>2. arrived' \in BOOLEAN /\ vertical' \in {"hold", "climb", "descend", "off"}
      BY <1>0, <2>3 DEF CourseTypeOK
    <3>3. nav_block # "Flare"
      BY <1>5 DEF Go
    <3> QED BY <2>1, <2>3, <3>1, <3>2, <3>3
  <2>4. CASE Stays /\ vertical' = "hold"
    BY <1>5, <2>1, <2>4, <1>a DEF Go
  <2> QED BY <1>5, <2>2, <2>3, <2>4 DEF Go
<1>6. CASE Flare
  <2>1. motors_on' \in BOOLEAN
    BY <1>6, MotorsTyped DEF Flare
  <2> QED BY <1>6, <2>1, <1>a DEF Flare
<1> QED BY <1>1, <1>2, <1>3, <1>4, <1>5, <1>6 DEF Stage

(* A stage of the block that is active.                                    *)
LEMMA StagePass ==
  ASSUME CourseTypeOK, Stage
  PROVE  Passed
<1>0. CourseTypeOK
  OBVIOUS
<1>7. StageTyped
  BY StageKeeps
<1>8. /\ ground_detected' \in BOOLEAN /\ detect_ground_once' \in BOOLEAN
      /\ ground_detected' => ground_detected /\ in_flight
      /\ detect_ground_once' =>
           in_flight /\ (detect_ground_once \/ (nav_block = "Flare" /\ nav_stage = 0))
  <2>1. /\ in_flight \in BOOLEAN /\ ground_detected \in BOOLEAN
        /\ (detect_ground_once \/ (nav_block = "Flare" /\ nav_stage = 0)) \in BOOLEAN
    BY <1>0 DEF CourseTypeOK
  <2>2. GroundIs(ground_detected,
              detect_ground_once \/ (nav_block = "Flare" /\ nav_stage = 0))
    BY DEF Stage
  <2> QED BY <2>1, <2>2, GroundTyped
<1>9. nav_block = "Flare" /\ nav_stage = 0 => FlareArms
  BY <1>7 DEF StageTyped, FlareArms
<1> QED BY <1>7, <1>8, <1>9 DEF Passed, StageTyped

(* Either an exception is raised or a stage runs.                          *)
LEMMA PlanPass ==
  ASSUME CourseTypeOK, auto_nav
  PROVE  Passed
BY ExceptionPass, StagePass DEF auto_nav

(* No ground has been detected at first.                                   *)
LEMMA CourseBegins == CourseInit => CourseInv
<1> SUFFICES ASSUME CourseInit PROVE CourseInv
  OBVIOUS
<1>1. nav_block \in Blocks /\ mode \in Modes
  BY BlocksAre DEF CourseInit, Modes
<1>2. nav_stage \in 0..2 /\ block_time \in 0..2 /\ altitude \in 0..4 /\ period \in {0, 1}
  <2>1. nav_stage = 0 /\ block_time = 0 /\ altitude = 0 /\ period = 0
    BY DEF CourseInit
  <2> QED BY <2>1
<1>3. /\ ground_detected \in BOOLEAN /\ detect_ground_once \in BOOLEAN
      /\ motors_on \in BOOLEAN /\ in_flight \in BOOLEAN /\ alarm \in BOOLEAN
      /\ arrived \in BOOLEAN /\ felt \in {"no", "armed", "shock"}
      /\ vertical \in {"hold", "climb", "descend", "off"}
      /\ ~ground_detected /\ ~detect_ground_once
  BY DEF CourseInit
<1> QED BY <1>1, <1>2, <1>3 DEF CourseInv, CourseTypeOK, GroundIsShock

(* The end of a period, after whatever the plan has set.                   *)
LEMMA PeriodGood ==
  ASSUME CourseInv, PeriodEnds,
         nav_block' \in Blocks, nav_stage' \in 0..2, block_time' \in 0..2,
         arrived' \in BOOLEAN, vertical' \in {"hold", "climb", "descend", "off"},
         motors_on' \in BOOLEAN, ground_detected' \in BOOLEAN,
         detect_ground_once' \in BOOLEAN,
         ground_detected' => ground_detected /\ in_flight,
         detect_ground_once' => in_flight /\ (detect_ground_once \/ FlareArms)
  PROVE  CourseInv'
<1>1. CourseTypeOK /\ GroundIsShock
  BY DEF CourseInv
<1>2. period' \in {0, 1}
  BY <1>1 DEF CourseTypeOK, PeriodEnds
<1>3. mode' \in Modes
  BY <1>1 DEF CourseTypeOK, PeriodEnds, Modes
<1>4. /\ felt' \in {"no", "armed", "shock"}
      /\ ground_detected' => felt' = "shock"
      /\ detect_ground_once' => felt' \in {"armed", "shock"}
  <2>1. felt' = IF ~in_flight THEN "no"
                ELSE IF felt = "no" /\ FlareArms THEN "armed" ELSE felt
    BY DEF PeriodEnds
  <2> HIDE DEF FlareArms
  <2> QED
    BY <1>1, <2>1 DEF CourseTypeOK, GroundIsShock
<1>5. in_flight' \in BOOLEAN /\ altitude' \in 0..4 /\ alarm' \in BOOLEAN
  BY <1>1 DEF CourseTypeOK, PeriodEnds, surroundings
<1> QED BY <1>2, <1>3, <1>4, <1>5 DEF CourseInv, CourseTypeOK, GroundIsShock

(* One case per action of the course.                                      *)
LEMMA CourseStep ==
  ASSUME CourseInv, [CourseNext]_courseVars
  PROVE  CourseInv'
<1>0. CourseTypeOK /\ GroundIsShock
  BY DEF CourseInv
<1> USE DEF plan, ground, surroundings
<1>1. CASE PeriodWithPlan
  <2>1. Passed /\ PeriodEnds
    BY <1>0, <1>1, PlanPass DEF PeriodWithPlan
  <2> QED BY <2>1, PeriodGood DEF Passed
<1>2. CASE PeriodWithoutPlan
  <2>1. motors_on' \in BOOLEAN
    BY <1>2, MotorsTyped DEF PeriodWithoutPlan
  <2>2. /\ ground_detected' \in BOOLEAN /\ detect_ground_once' \in BOOLEAN
        /\ ground_detected' => ground_detected /\ in_flight
        /\ detect_ground_once' => detect_ground_once /\ in_flight
    BY <1>0, <1>2, GroundTyped DEF PeriodWithoutPlan, CourseTypeOK
  <2>3. /\ nav_block' \in Blocks /\ nav_stage' \in 0..2 /\ block_time' \in 0..2
        /\ arrived' \in BOOLEAN /\ vertical' \in {"hold", "climb", "descend", "off"}
    BY <1>0, <1>2 DEF PeriodWithoutPlan, CourseTypeOK
  <2> QED BY <1>2, <2>1, <2>2, <2>3, PeriodGood DEF PeriodWithoutPlan
<1>3. CASE CheckInFlight
  BY <1>0, <1>3 DEF CheckInFlight, CourseInv, CourseTypeOK, GroundIsShock
<1>4. CASE autopilot_event
  BY <1>0, <1>4 DEF autopilot_event, CourseInv, CourseTypeOK, GroundIsShock
<1>5. ASSUME NEW name, nav_parse_BLOCK(name) PROVE CourseInv'
  <2>1. /\ nav_block' \in Blocks /\ nav_stage' \in 0..2 /\ block_time' \in 0..2
        /\ arrived' \in BOOLEAN
    BY <1>5, GotoTyped DEF nav_parse_BLOCK
  <2> QED BY <1>0, <1>5, <2>1 DEF nav_parse_BLOCK, CourseInv, CourseTypeOK, GroundIsShock
<1>6. ASSUME NEW m \in Modes, SetMode(m) PROVE CourseInv'
  BY <1>0, <1>6 DEF SetMode, CourseInv, CourseTypeOK, GroundIsShock
<1>7. CASE SetMotors
  BY <1>0, <1>7 DEF SetMotors, CourseInv, CourseTypeOK, GroundIsShock
<1>8. CASE Sink
  BY <1>0, <1>8 DEF Sink, CourseInv, CourseTypeOK, GroundIsShock
<1>9. CASE Rise
  BY <1>0, <1>9 DEF Rise, CourseInv, CourseTypeOK, GroundIsShock
<1>10. CASE Arrive
  <2>1. arrived' \in BOOLEAN
    BY <1>10 DEF Arrive
  <2> QED BY <1>0, <1>10, <2>1 DEF Arrive, CourseInv, CourseTypeOK, GroundIsShock
<1>11. CASE Alarm
  <2>1. alarm' \in BOOLEAN
    BY <1>11 DEF Alarm
  <2> QED BY <1>0, <1>11, <2>1 DEF Alarm, CourseInv, CourseTypeOK, GroundIsShock
<1>12. CASE UNCHANGED courseVars
  BY <1>0, <1>12 DEF courseVars, CourseInv, CourseTypeOK, GroundIsShock
<1> QED
  BY <1>1, <1>2, <1>3, <1>4, <1>5, <1>6, <1>7, <1>8, <1>9, <1>10, <1>11, <1>12
     DEF CourseNext, Commands

(* The invariant holds in every state.                                     *)
THEOREM CourseInvariance == CourseSpec => []CourseInv
<1>1. CourseInv /\ [CourseNext]_courseVars => CourseInv'
  BY CourseStep
<1> QED BY CourseBegins, <1>1, PTL DEF CourseSpec

(* Type correctness: every jump of the flight plan stays in the plan       *)
(* (nav_goto_block).                                                       *)
THEOREM CourseTyping == CourseSpec => []CourseTypeOK
<1>1. CourseInv => CourseTypeOK
  BY DEF CourseInv
<1> QED BY CourseInvariance, <1>1, PTL

(* A flare that gives way to the holding point in flight was ended by a    *)
(* shock of this flight, after its own flare armed the detection or in     *)
(* FAILSAFE (autopilot_event, autopilot_static_periodic).                  *)
THEOREM CourseShock == CourseSpec => ShockOfThisFlight
<1>1. ASSUME CourseInv, [CourseNext]_courseVars
      PROVE  [nav_block = "Flare" /\ nav_block' = "Holding point" /\ in_flight
              /\ PeriodWithPlan => felt = "shock"]_courseVars
  <2>1. CASE PeriodWithPlan
    <3>1. Passed
      BY <1>1, <2>1, PlanPass DEF PeriodWithPlan, CourseInv
    <3> QED BY <1>1, <3>1 DEF Passed, CourseInv, GroundIsShock
  <2> QED BY <2>1
<1> QED BY <1>1, CourseInvariance, PTL DEF CourseSpec, ShockOfThisFlight
=============================================================================
