------------------------------ MODULE RowScan ------------------------------
(***************************************************************************)
(* find_object_centroid of cv_detect_color_object.c: the scan that turns   *)
(* an image into the row of the best direction.  The image is rotated, so  *)
(* a row is a vertical strip of what the drone sees.  A row is "ground"    *)
(* when its lower half holds a pixel of the floor's edge colours, and      *)
(* "plant" when its upper half holds enough green pixels; the pixels       *)
(* themselves are abstracted to these two facts.  One step scans one row.  *)
(***************************************************************************)
EXTENDS Integers, FiniteSets

CONSTANTS
  Height,        (* img->h                                                 *)
  Tolerance,     (* 35: obstacles of at most this many rows are ignored    *)
  RowKinds       (* the rows an image may be made of                       *)

RowType == [ground : BOOLEAN, plant : BOOLEAN]

ASSUME ImageAssumption ==
  /\ Height \in Nat \ {0}
  /\ Tolerance \in Nat
  /\ RowKinds \subseteq RowType

VARIABLES
  image,
  y,             (* the next row                                           *)
  cnt, cnt_max, obs_size, new_dir

scanVars == <<image, y, cnt, cnt_max, obs_size, new_dir>>

ScanInit ==
  /\ image \in [0..(Height - 1) -> RowKinds]
  /\ y = 0
  /\ cnt = 0 /\ cnt_max = 0 /\ obs_size = 0
  /\ new_dir = Height \div 2

IsObstacle(row) == ~row.ground \/ row.plant

(* A ground pixel adds the row to the free strip, before the green pixels  *)
(* are looked at.                                                          *)
Counted(row) == IF row.ground THEN cnt + 1 ELSE cnt

(* Faulty variant: the strip is taken to lie after the row.                *)
MiddleAfter(n) == y + n \div 2

(* The row proposed for a strip of n rows that the obstacle row y ends.    *)
Middle(n) == IF y % 2 = 0 THEN y - n \div 2 ELSE y - (n - 1) \div 2

(* Faulty variant: a plant takes back an obstacle row never counted.       *)
ScanObstacleTakesBack(row) ==
  LET n == Counted(row)
  IN  /\ IsObstacle(row)
      /\ cnt_max' = IF n > cnt_max THEN n ELSE cnt_max
      /\ new_dir' = IF n > cnt_max THEN Middle(n) ELSE new_dir
      /\ cnt' = IF row.plant THEN 0 ELSE n
      /\ obs_size' = IF row.plant THEN obs_size - 1 ELSE obs_size + 1

ScanObstacle(row) ==
  LET n == Counted(row)
  IN  /\ IsObstacle(row)
      /\ cnt_max' = IF n > cnt_max THEN n ELSE cnt_max
      /\ new_dir' = IF n > cnt_max THEN Middle(n) ELSE new_dir
      /\ cnt' = IF row.plant THEN 0 ELSE n
      /\ obs_size' = IF row.plant THEN obs_size ELSE obs_size + 1

(* Faulty variant: an obstacle of exactly Tolerance rows is kept.          *)
ScanFreeStrict(row) ==
  LET n == Counted(row)
  IN  /\ ~IsObstacle(row)
      /\ cnt' = IF obs_size >= Tolerance THEN 1 ELSE n + obs_size
      /\ obs_size' = 0
      /\ UNCHANGED <<cnt_max, new_dir>>

ScanFree(row) ==
  LET n == Counted(row)
  IN  /\ ~IsObstacle(row)
      /\ cnt' = IF obs_size > Tolerance THEN 1 ELSE n + obs_size
      /\ obs_size' = 0
      /\ UNCHANGED <<cnt_max, new_dir>>

ScanRow ==
  /\ y < Height
  /\ ScanObstacle(image[y]) \/ ScanFree(image[y])
  /\ y' = y + 1
  /\ UNCHANGED image

ScanNext == ScanRow

ScanSpec == ScanInit /\ [][ScanNext]_scanVars

Done == y = Height

-----------------------------------------------------------------------------
ScanTypeOK ==
  /\ image \in [0..(Height - 1) -> RowType]
  /\ y \in 0..Height
  /\ cnt \in Nat /\ cnt_max \in Nat /\ obs_size \in Nat
  /\ new_dir \in Int

(* The row handed to the avoider is a row of the image, for every image:   *)
(* the subtraction of half the strip never goes below zero, however        *)
(* obstacles, ignored obstacles and plants alternate                       *)
(* (cv_detect_color_object.c:297-306,321-327).                             *)
DirectionInImage == new_dir \in 0..(Height - 1)

(* Reference for images without plants.  Rows a..b may form one strip when *)
(* every run of obstacle rows inside is short enough to be ignored.        *)
FreeAt(i) == ~IsObstacle(image[i])
Ignorable(a, b) ==
  \A i, j \in a..b : i <= j /\ (\A k \in i..j : ~FreeAt(k)) => j - i + 1 <= Tolerance

(* Strips that an obstacle row ends, and that nothing lengthens backwards. *)
Strip(a, b) ==
  /\ b + 1 < Height /\ FreeAt(b) /\ ~FreeAt(b + 1)
  /\ Ignorable(a, b)
  /\ \/ a = 0
     \/ FreeAt(a) /\ ~Ignorable(a - 1, b)
     \/ FreeAt(a) /\ \E i \in 0..(a - 1) : \A k \in i..(a - 1) : ~FreeAt(k) /\ a - i > Tolerance

Strips == {s \in (0..(Height - 1)) \X (0..(Height - 1)) : s[1] <= s[2] /\ Strip(s[1], s[2])}
StripLength(s) == s[2] - s[1] + 1
Longest(s) == \A t \in Strips : StripLength(t) <= StripLength(s)
NoPlants == \A i \in 0..(Height - 1) : ~image[i].plant

(* Without plants, the scan finds the first longest of the strips of free  *)
(* rows, ignored obstacles included, that an obstacle ends, and returns a  *)
(* row at most 3/2 past its middle; without any such strip it returns the  *)
(* middle of the image.  A strip that reaches the last row is not one of   *)
(* them, as it is compared with no other: see GreatestFreeRun              *)
(* (cv_detect_color_object.c:297-327).                                     *)
FindsLongestStrip ==
  Done /\ NoPlants =>
    IF Strips = {} THEN cnt_max = 0 /\ new_dir = Height \div 2
    ELSE \E s \in Strips :
           /\ Longest(s)
           /\ \A t \in Strips : Longest(t) => s[2] <= t[2]
           /\ cnt_max = StripLength(s)
           /\ 2 * new_dir - (s[1] + s[2]) \in 1..3

(* The comment on cnt_max: the greatest number of rows uninterrupted       *)
(* without obstacle.  It does not hold: only an obstacle row compares the  *)
(* strip before it with cnt_max, so one that reaches the last row is never *)
(* looked at, however long (cv_detect_color_object.c:216,297-306).         *)
GreatestFreeRun ==
  Done => \A a, b \in 0..(Height - 1) :
            a <= b /\ (\A i \in a..b : FreeAt(i)) => b - a + 1 <= cnt_max
=============================================================================
