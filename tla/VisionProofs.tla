---------------------------- MODULE VisionProofs ----------------------------
(***************************************************************************)
(* From the image to the avoider's decision.                               *)
(*                                                                         *)
(* The scan, for images of every height, every tolerance and every         *)
(* sequence of rows: it is well typed, it returns a row of the image, and  *)
(* without plants it finds the first longest free strip.                   *)
(*                                                                         *)
(* The detector, for one camera or two, any rows and any number of frames: *)
(* it is well typed and its threads exclude one another.  MutexProtects is *)
(* inductive once TypeOK is known: the mutex names its holder, and no two  *)
(* cameras share a name.                                                   *)
(*                                                                         *)
(* The pipeline of detector and avoider: each evaluation rests on a fresh  *)
(* frame, and the composition implements each of its components.           *)
(***************************************************************************)
EXTENDS AvoiderPipeline, RowScan, TLAPS

-----------------------------------------------------------------------------
(* A row lengthens the strip or the obstacle, never both: together they    *)
(* are no longer than the part of the image scanned.                       *)
StripFits == cnt + obs_size <= y

ScanInv == ScanTypeOK /\ DirectionInImage /\ StripFits

(* Half a strip of at most y + 1 rows that ends at row y lies inside the   *)
(* image.                                                                  *)
LEMMA MiddleInside ==
  ASSUME y \in Nat, NEW n \in Nat \ {0}, n <= y + 1
  PROVE  Middle(n) \in 0..y
BY DEF Middle

(* Before the first row nothing is counted.                                *)
LEMMA ScanBegins ==
  ASSUME ScanInit
  PROVE  ScanInv
<1>1. image \in [0..(Height - 1) -> RowType] /\ Height \in Nat \ {0}
  BY ImageAssumption DEF ScanInit
<1> QED BY <1>1 DEF ScanInit, ScanInv, ScanTypeOK, DirectionInImage, StripFits

(* One row more, whatever it holds.                                        *)
LEMMA ScanStep ==
  ASSUME ScanInv, [ScanNext]_scanVars
  PROVE  ScanInv'
<1> USE ImageAssumption
<1>1. CASE ScanRow
  <2> DEFINE row == image[y]
  <2> DEFINE n == Counted(row)
  <2>1. /\ y \in 0..(Height - 1) /\ y' = y + 1 /\ image' = image
        /\ cnt \in Nat /\ cnt_max \in Nat /\ obs_size \in Nat
        /\ cnt + obs_size <= y
    BY <1>1 DEF ScanRow, ScanInv, ScanTypeOK, StripFits
  <2>2. n \in Nat /\ n >= cnt /\ n <= cnt + 1
    BY <2>1 DEF Counted
  <2>3. CASE ScanObstacle(row)
    <3>1. cnt' \in Nat /\ obs_size' \in Nat /\ cnt_max' \in Nat
      BY <2>1, <2>2, <2>3 DEF ScanObstacle
    <3>2. cnt' + obs_size' <= y'
      <4>1. CASE row.plant
        BY <2>1, <2>2, <2>3, <4>1 DEF ScanObstacle
      <4>2. CASE ~row.plant
        <5>1. n = cnt
          BY <2>3, <4>2 DEF ScanObstacle, IsObstacle, Counted
        <5> QED
          BY <2>1, <2>3, <4>2, <5>1 DEF ScanObstacle
      <4> QED
        BY <4>1, <4>2
    <3>3. new_dir' \in 0..(Height - 1)
      <4>1. CASE n > cnt_max
        <5>1. n \in Nat \ {0} /\ n <= y + 1
          BY <2>1, <2>2, <4>1
        <5>2. new_dir' = Middle(n)
          BY <2>3, <4>1 DEF ScanObstacle
        <5> QED
          BY <2>1, <5>1, <5>2, MiddleInside
      <4>2. CASE ~(n > cnt_max)
        BY <2>3, <4>2 DEF ScanObstacle, ScanInv, DirectionInImage
      <4> QED
        BY <4>1, <4>2
    <3> QED
      <4>1. ScanTypeOK'
        BY <2>1, <3>1, <3>3 DEF ScanInv, ScanTypeOK
      <4> QED
        BY <3>2, <3>3, <4>1 DEF ScanInv, DirectionInImage, StripFits
  <2>4. CASE ScanFree(row)
    <3>1. cnt' \in Nat /\ obs_size' = 0 /\ cnt' <= y + 1
      BY <2>1, <2>2, <2>4 DEF ScanFree
    <3> QED
      BY <2>1, <2>4, <3>1
         DEF ScanFree, ScanInv, ScanTypeOK, DirectionInImage, StripFits
  <2> QED
    BY <1>1, <2>3, <2>4 DEF ScanRow
<1>2. CASE UNCHANGED scanVars
  BY <1>2 DEF scanVars, ScanInv, ScanTypeOK, DirectionInImage, StripFits
<1> QED
  BY <1>1, <1>2 DEF ScanNext

(* The scan never leaves the image (find_object_centroid).                 *)
THEOREM ScanInvariance == ScanSpec => []ScanInv
BY ScanBegins, ScanStep, PTL DEF ScanSpec

(* Type correctness of the scan.                                           *)
THEOREM ScanTyping == ScanSpec => []ScanTypeOK
<1>1. ScanInv => ScanTypeOK
  BY DEF ScanInv
<1> QED
  BY ScanInvariance, <1>1, PTL

(* The row handed to the avoider is a row of the image, for every image.   *)
THEOREM ScanDirection == ScanSpec => []DirectionInImage
<1>1. ScanInv => DirectionInImage
  BY DEF ScanInv
<1> QED
  BY ScanInvariance, <1>1, PTL

-----------------------------------------------------------------------------
(* The longest strip, in images without plants.  The counters mean this:   *)
(* the last obs_size rows are obstacles, and the cnt rows before them are  *)
(* the strip in hand, as long as it can be made.                           *)
End       == y - obs_size
Beginning == End - cnt

(* Nothing lengthens a strip that starts here backwards.                   *)
StartsHere(a) ==
  \/ a = 0
  \/ FreeAt(a) /\ \E i \in 0..(a - 1) : (\A k \in i..(a - 1) : ~FreeAt(k)) /\ a - i > Tolerance

(* The obstacle in hand.                                                   *)
ObstacleRun == End \in 0..y /\ \A k \in End..(y - 1) : ~FreeAt(k)

(* The strip in hand.                                                      *)
CurrentStrip ==
  /\ cnt = 0 => End = 0
  /\ cnt > 0 => /\ Beginning \in 0..(End - 1) /\ FreeAt(End - 1)
                /\ Ignorable(Beginning, End - 1)
                /\ StartsHere(Beginning)
  /\ obs_size > 0 => cnt <= cnt_max

(* Strips whose obstacle the scan has met.                                 *)
Closed(t) == t \in Strips /\ t[2] + 1 < y

(* What FindsLongestStrip says, of the rows scanned so far.                *)
Best ==
  IF \A t \in Strips : ~Closed(t) THEN cnt_max = 0 /\ new_dir = Height \div 2
  ELSE \E s \in Strips :
         /\ Closed(s)
         /\ \A t \in Strips : Closed(t) =>
              \/ StripLength(t) < cnt_max
              \/ StripLength(t) = cnt_max /\ s[2] <= t[2]
         /\ cnt_max = StripLength(s)
         /\ 2 * new_dir - (s[1] + s[2]) \in 1..3

(* The invariant: FindsLongestStrip is about the last state only.          *)
ScanGood == ScanInv /\ (NoPlants => ObstacleRun /\ CurrentStrip /\ Best)

(* Of the three ways to start, the second is an instance of the third.     *)
LEMMA StripIs ==
  ASSUME NEW a \in 0..(Height - 1), NEW b \in 0..(Height - 1), a <= b
  PROVE  Strip(a, b) <=>
           /\ b + 1 < Height /\ FreeAt(b) /\ ~FreeAt(b + 1)
           /\ Ignorable(a, b)
           /\ StartsHere(a)
<1>1. ASSUME FreeAt(a), Ignorable(a, b), ~Ignorable(a - 1, b), a # 0
      PROVE  ~FreeAt(a - 1) /\ Tolerance = 0
  <2>1. PICK i \in (a - 1)..b, j \in (a - 1)..b :
           i <= j /\ (\A k \in i..j : ~FreeAt(k)) /\ ~(j - i + 1 <= Tolerance)
    BY <1>1 DEF Ignorable, FreeAt
  <2>2. i = a - 1
    <3>1. CASE i >= a
      BY <1>1, <2>1, <3>1 DEF Ignorable, FreeAt
    <3> QED BY <3>1
  <2>3. j = a - 1
    <3>1. CASE j >= a
      BY <1>1, <2>1, <2>2, <3>1
    <3> QED BY <3>1
  <2> QED BY <2>1, <2>2, <2>3, ImageAssumption
<1>2. ASSUME FreeAt(a), Ignorable(a, b), ~Ignorable(a - 1, b), a # 0
      PROVE  StartsHere(a)
  <2>1. /\ a - 1 \in 0..(a - 1) /\ a - (a - 1) > Tolerance
        /\ \A k \in (a - 1)..(a - 1) : ~FreeAt(k)
    BY <1>1, <1>2
  <2> QED BY <1>2, <2>1 DEF StartsHere
<1>3. (\E i \in 0..(a - 1) : \A k \in i..(a - 1) : ~FreeAt(k) /\ a - i > Tolerance)
      <=> \E i \in 0..(a - 1) : (\A k \in i..(a - 1) : ~FreeAt(k)) /\ a - i > Tolerance
  <2>1. \A i \in 0..(a - 1) : a - 1 \in i..(a - 1)
    OBVIOUS
  <2> QED BY <2>1
<1> QED BY <1>2, <1>3 DEF Strip, StartsHere, FreeAt

(* A strip is determined by where it ends.                                 *)
LEMMA OneStart ==
  ASSUME NEW b \in Nat, NEW a \in 0..b, NEW c \in 0..b, a < c,
         Ignorable(a, b), StartsHere(a), StartsHere(c)
  PROVE  FALSE
<1>1. PICK i \in 0..(c - 1) : (\A k \in i..(c - 1) : ~FreeAt(k)) /\ c - i > Tolerance
  BY DEF StartsHere
<1>2. CASE i >= a
  <2>1. i \in a..b /\ c - 1 \in a..b /\ i <= c - 1
    BY <1>2
  <2>2. (c - 1) - i + 1 <= Tolerance
    BY <1>1, <2>1 DEF Ignorable, FreeAt
  <2> QED BY <1>1, <2>2, ImageAssumption
<1>3. CASE i < a
  <2>1. a \in i..(c - 1) /\ a # 0
    BY <1>3
  <2>2. FreeAt(a)
    BY <2>1 DEF StartsHere
  <2> QED BY <1>1, <2>1, <2>2
<1> QED BY <1>2, <1>3

(* The row returned for a strip of n rows that ends before row y.          *)
LEMMA MiddleOf ==
  ASSUME y \in Nat, NEW n \in Nat \ {0}
  PROVE  2 * Middle(n) - ((y - n) + (y - 1)) \in 1..3
<1>1. CASE y % 2 = 0
  BY <1>1 DEF Middle
<1>2. CASE y % 2 # 0
  <2>1. y % 2 = 1
    BY <1>2
  <2> QED BY <2>1 DEF Middle
<1> QED BY <1>1, <1>2

(* The strips depend on the image only.                                    *)
LEMMA SameImage ==
  ASSUME image' = image
  PROVE  /\ \A i : FreeAt(i)' <=> FreeAt(i)
         /\ \A a, b : Ignorable(a, b)' <=> Ignorable(a, b)
         /\ \A a : StartsHere(a)' <=> StartsHere(a)
         /\ Strips' = Strips
         /\ NoPlants' <=> NoPlants
BY DEF FreeAt, IsObstacle, Ignorable, StartsHere,
       Strips, Strip, NoPlants

(* A strip and its length.                                                 *)
LEMMA StripPair ==
  ASSUME NEW t \in Strips
  PROVE  /\ t = <<t[1], t[2]>> /\ t[1] \in 0..t[2] /\ t[2] \in 0..(Height - 1)
         /\ t[2] + 1 < Height /\ FreeAt(t[2]) /\ ~FreeAt(t[2] + 1)
         /\ Ignorable(t[1], t[2]) /\ StartsHere(t[1])
         /\ StripLength(t) \in Nat /\ StripLength(t) = t[2] - t[1] + 1
<1>1. /\ t \in (0..(Height - 1)) \X (0..(Height - 1))
      /\ t[1] <= t[2] /\ Strip(t[1], t[2])
  BY DEF Strips
<1>2. t = <<t[1], t[2]>> /\ t[1] \in 0..(Height - 1) /\ t[2] \in 0..(Height - 1)
  BY <1>1
<1>3. Height \in Nat
  BY ImageAssumption
<1>4. t[1] \in 0..t[2]
  BY <1>1, <1>2, <1>3
<1>5. StripLength(t) \in Nat /\ StripLength(t) = t[2] - t[1] + 1
  BY <1>2, <1>3, <1>4 DEF StripLength
<1> QED BY <1>1, <1>2, <1>4, <1>5, StripIs

(* A row that ends no strip keeps the best one.                            *)
LEMMA BestKept ==
  ASSUME Best, y \in Nat, y' = y + 1, image' = image,
         cnt_max' = cnt_max, new_dir' = new_dir,
         \A t \in Strips : t[2] \in Nat /\ t[2] + 1 # y
  PROVE  Best'
<1>1. Strips' = Strips
  BY SameImage
<1>2. \A t \in Strips : Closed(t)' <=> Closed(t)
  BY <1>1 DEF Closed
<1>3. \A t : StripLength(t)' = StripLength(t)
  BY DEF StripLength
<1>4. CASE \A t \in Strips : ~Closed(t)
  BY <1>1, <1>2, <1>4 DEF Best
<1>5. CASE ~(\A t \in Strips : ~Closed(t))
  <2>1. PICK s \in Strips :
         /\ Closed(s)
         /\ \A t \in Strips : Closed(t) =>
              \/ StripLength(t) < cnt_max
              \/ StripLength(t) = cnt_max /\ s[2] <= t[2]
         /\ cnt_max = StripLength(s)
         /\ 2 * new_dir - (s[1] + s[2]) \in 1..3
    BY <1>5 DEF Best
  <2> QED BY <1>1, <1>2, <1>3, <2>1 DEF Best
<1> QED BY <1>4, <1>5

(* An obstacle ends the strip in hand, the only one that ends there; it is *)
(* taken if it is longer than the best so far, and not if it is as long.   *)
LEMMA BestImproved ==
  ASSUME Best, y \in 0..(Height - 1), y' = y + 1, image' = image,
         cnt \in Nat \ {0}, cnt <= y, cnt_max \in Nat,
         FreeAt(y - 1), ~FreeAt(y), Ignorable(y - cnt, y - 1), StartsHere(y - cnt),
         cnt_max' = IF cnt > cnt_max THEN cnt ELSE cnt_max,
         new_dir' = IF cnt > cnt_max THEN Middle(cnt) ELSE new_dir
  PROVE  Best'
<1> DEFINE a == y - cnt
           b == y - 1
           u == <<a, b>>
<1>0. /\ Height \in Nat /\ y \in Nat /\ a \in 0..b /\ b \in 0..(Height - 1)
      /\ b + 1 = y /\ b - a + 1 = cnt
  BY ImageAssumption
<1>1. Strips' = Strips
  BY SameImage
<1>2. u \in Strips
  <2>1. Strip(a, b)
    <3>1. FreeAt(b) /\ ~FreeAt(b + 1) /\ Ignorable(a, b) /\ StartsHere(a)
      BY <1>0
    <3>2. a \in 0..(Height - 1) /\ b + 1 < Height /\ a <= b
      BY <1>0
    <3> HIDE DEF a, b
    <3> QED BY <1>0, <3>1, <3>2, StripIs
  <2> HIDE DEF a, b
  <2>2. u \in (0..(Height - 1)) \X (0..(Height - 1)) /\ u[1] = a /\ u[2] = b
    BY <1>0
  <2> HIDE DEF u
  <2> QED BY <1>0, <2>1, <2>2 DEF Strips
<1>3. ASSUME NEW t \in Strips, t[2] + 1 = y PROVE t = u
  <2>1. /\ t = <<t[1], t[2]>> /\ t[1] \in 0..t[2] /\ t[2] = b
        /\ Ignorable(t[1], b) /\ StartsHere(t[1])
    BY <1>0, <1>3, StripPair
  <2>2. Ignorable(a, b) /\ StartsHere(a)
    OBVIOUS
  <2> HIDE DEF a, b
  <2>3. t[1] = a
    <3>1. ~(t[1] < a) /\ ~(a < t[1])
      BY <1>0, <2>1, <2>2, OneStart
    <3> QED BY <1>0, <2>1, <3>1
  <2> QED BY <2>1, <2>3
<1>4. \A t \in Strips : t[2] \in Nat /\ StripLength(t) \in Nat
  BY <1>0, StripPair
<1>5. \A t \in Strips : (Closed(t)' <=> Closed(t) \/ t = u)
  <2>1. u[2] = b
    OBVIOUS
  <2> HIDE DEF u
  <2>2. ASSUME NEW t \in Strips
        PROVE  (t[2] + 1 < y + 1) <=> (t[2] + 1 < y \/ t[2] + 1 = y)
    BY <1>0, <1>4
  <2>3. \A t \in Strips :
          (Closed(t)' <=> t[2] + 1 < y + 1) /\ (Closed(t) <=> t[2] + 1 < y)
    BY <1>1 DEF Closed
  <2> QED BY <1>0, <1>3, <2>1, <2>2, <2>3
<1>6. \A t : StripLength(t)' = StripLength(t)
  BY DEF StripLength
<1>7. StripLength(u) = cnt /\ u[1] = a /\ u[2] = b
  BY <1>0 DEF StripLength
<1> HIDE DEF u
<1>8. CASE cnt > cnt_max
  <2>0. PICK s \in Strips : s = u
    BY <1>2
  <2>1. cnt_max' = cnt /\ new_dir' = Middle(cnt)
    BY <1>8
  <2>2. 2 * new_dir' - (s[1] + s[2]) \in 1..3
    BY <1>0, <1>7, <2>0, <2>1, MiddleOf
  <2>3. ASSUME NEW t \in Strips, Closed(t)
        PROVE  StripLength(t) < cnt_max'
    <3>1. StripLength(t) <= cnt_max
      BY <1>4, <2>3 DEF Best
    <3> QED BY <1>4, <1>8, <2>1, <3>1
  <2>4. ASSUME NEW t \in Strips, Closed(t)'
        PROVE  \/ StripLength(t)' < cnt_max'
               \/ StripLength(t)' = cnt_max' /\ s[2] <= t[2]
    <3>1. CASE t = u
      BY <1>0, <1>6, <1>7, <2>0, <2>1, <3>1
    <3>2. CASE Closed(t)
      BY <1>6, <2>3, <3>2
    <3> QED BY <1>5, <2>4, <3>1, <3>2
  <2>5. s \in Strips' /\ Closed(s)'
    BY <1>1, <1>5, <2>0
  <2>6. cnt_max' = StripLength(s)'
    BY <1>6, <1>7, <2>0, <2>1
  <2> QED BY <1>1, <2>2, <2>4, <2>5, <2>6 DEF Best
<1>9. CASE ~(cnt > cnt_max)
  <2>1. cnt_max' = cnt_max /\ new_dir' = new_dir /\ cnt_max # 0
    BY <1>9
  <2>2. PICK s \in Strips :
         /\ Closed(s)
         /\ \A t \in Strips : Closed(t) =>
              \/ StripLength(t) < cnt_max
              \/ StripLength(t) = cnt_max /\ s[2] <= t[2]
         /\ cnt_max = StripLength(s)
         /\ 2 * new_dir - (s[1] + s[2]) \in 1..3
    BY <2>1 DEF Best
  <2>3. s[2] \in Nat /\ s[2] <= b
    BY <1>0, <1>4, <2>2 DEF Closed
  <2>4. ASSUME NEW t \in Strips, Closed(t)'
        PROVE  \/ StripLength(t)' < cnt_max'
               \/ StripLength(t)' = cnt_max' /\ s[2] <= t[2]
    <3>1. CASE t = u
      BY <1>0, <1>6, <1>7, <1>9, <2>1, <2>3, <3>1
    <3>2. CASE Closed(t)
      BY <1>6, <2>1, <2>2, <3>2
    <3> QED BY <1>5, <2>4, <3>1, <3>2
  <2>5. s \in Strips' /\ Closed(s)' /\ cnt_max' = StripLength(s)'
        /\ 2 * new_dir' - (s[1] + s[2]) \in 1..3
    BY <1>1, <1>5, <1>6, <2>1, <2>2
  <2> QED BY <1>1, <2>4, <2>5 DEF Best
<1> QED BY <1>8, <1>9

(* Without plants, a row is free or an obstacle.                           *)
LEMMA PlantFree ==
  ASSUME ScanTypeOK, NoPlants, ScanRow
  PROVE  /\ y \in 0..(Height - 1) /\ y' = y + 1 /\ image' = image
         /\ \/ /\ ~FreeAt(y) /\ cnt' = cnt /\ obs_size' = obs_size + 1
               /\ cnt_max' = IF cnt > cnt_max THEN cnt ELSE cnt_max
               /\ new_dir' = IF cnt > cnt_max THEN Middle(cnt) ELSE new_dir
            \/ /\ FreeAt(y) /\ obs_size' = 0
               /\ cnt' = IF obs_size > Tolerance THEN 1 ELSE cnt + 1 + obs_size
               /\ cnt_max' = cnt_max /\ new_dir' = new_dir
<1>1. y \in 0..(Height - 1) /\ y' = y + 1 /\ image' = image
  BY ImageAssumption DEF ScanTypeOK, ScanRow
<1>2. ~image[y].plant
  BY <1>1 DEF NoPlants
<1> DEFINE row == image[y]
<1>3. CASE ScanObstacle(row)
  <2>1. ~row.ground
    BY <1>2, <1>3 DEF ScanObstacle, IsObstacle
  <2>2. Counted(row) = cnt
    BY <2>1 DEF Counted
  <2>3. ~FreeAt(y)
    BY <2>1 DEF FreeAt, IsObstacle
  <2> QED BY <1>1, <1>2, <1>3, <2>2, <2>3 DEF ScanObstacle
<1>4. CASE ScanFree(row)
  <2>1. row.ground
    BY <1>4 DEF ScanFree, IsObstacle
  <2>2. Counted(row) = cnt + 1
    BY <2>1 DEF Counted
  <2>3. FreeAt(y)
    BY <1>2, <2>1 DEF FreeAt, IsObstacle
  <2> QED BY <1>1, <1>4, <2>2, <2>3 DEF ScanFree
<1> QED BY <1>3, <1>4 DEF ScanRow

(* Before the first row there is no strip.                                 *)
LEMMA GoodInit ==
  ASSUME ScanInit
  PROVE  ScanGood
<1>1. y = 0 /\ cnt = 0 /\ cnt_max = 0 /\ obs_size = 0 /\ new_dir = Height \div 2
  BY DEF ScanInit
<1>2. ObstacleRun /\ CurrentStrip
  BY <1>1 DEF ObstacleRun, CurrentStrip, End
<1>3. \A t \in Strips : ~Closed(t)
  BY <1>1, StripPair DEF Closed
<1> QED BY <1>1, <1>2, <1>3, ScanBegins DEF ScanGood, Best

(* The row y is an obstacle: the first one after a strip ends it.          *)
LEMMA ObstacleGood ==
  ASSUME ScanInv, ObstacleRun, CurrentStrip, Best,
         y \in 0..(Height - 1), y' = y + 1, image' = image,
         ~FreeAt(y), cnt' = cnt, obs_size' = obs_size + 1,
         cnt_max' = IF cnt > cnt_max THEN cnt ELSE cnt_max,
         new_dir' = IF cnt > cnt_max THEN Middle(cnt) ELSE new_dir
  PROVE  ObstacleRun' /\ CurrentStrip' /\ Best'
<1>1. /\ Height \in Nat /\ y \in Nat /\ cnt \in Nat /\ cnt_max \in Nat /\ obs_size \in Nat
      /\ cnt + obs_size <= y
  BY ImageAssumption DEF ScanInv, ScanTypeOK, StripFits
<1>2. End \in 0..y /\ \A k \in End..(y - 1) : ~FreeAt(k)
  BY DEF ObstacleRun
<1>3. End' = End /\ Beginning' = Beginning
  BY <1>1 DEF End, Beginning
<1>4. ObstacleRun'
  <2>1. \A k \in End..y : ~FreeAt(k)
    BY <1>1, <1>2
  <2>2. y' - 1 = y /\ End \in 0..y'
    BY <1>1, <1>2
  <2> QED BY <1>3, <2>1, <2>2, SameImage DEF ObstacleRun
<1>5. CurrentStrip'
  <2>1. cnt <= cnt_max'
    BY <1>1
  <2>2. (cnt = 0 => End = 0)
        /\ (cnt > 0 => /\ Beginning \in 0..(End - 1) /\ FreeAt(End - 1)
                       /\ Ignorable(Beginning, End - 1) /\ StartsHere(Beginning))
    BY DEF CurrentStrip
  <2> QED BY <1>3, <2>1, <2>2, SameImage DEF CurrentStrip
<1>6. Best'
  <2>1. CASE obs_size = 0 /\ cnt > 0
    <3>1. End = y /\ Beginning = y - cnt
      BY <1>1, <2>1 DEF End, Beginning
    <3>2. FreeAt(y - 1) /\ Ignorable(y - cnt, y - 1) /\ StartsHere(y - cnt)
      BY <2>1, <3>1 DEF CurrentStrip
    <3>3. cnt \in Nat \ {0} /\ cnt <= y
      BY <1>1, <2>1
    <3> QED BY <1>1, <3>2, <3>3, BestImproved
  <2>2. CASE ~(obs_size = 0 /\ cnt > 0)
    <3>1. ~(cnt > cnt_max)
      BY <1>1, <2>2 DEF CurrentStrip
    <3>2. ASSUME NEW t \in Strips, t[2] + 1 = y PROVE FALSE
      <4>1. t[2] \in Nat /\ FreeAt(t[2]) /\ t[2] = y - 1
        BY <1>1, <3>2, StripPair
      <4>2. End <= y - 1
        BY <1>1, <1>2, <2>2, <4>1 DEF End, CurrentStrip
      <4> QED BY <1>1, <1>2, <4>1, <4>2
    <3>3. \A t \in Strips : t[2] \in Nat /\ t[2] + 1 # y
      BY <3>2, StripPair
    <3> QED BY <1>1, <3>1, <3>3, BestKept
  <2> QED BY <2>1, <2>2
<1> QED BY <1>4, <1>5, <1>6

(* The row y is free: after a short obstacle the strip in hand goes on,    *)
(* after a long one a new strip starts.                                    *)
LEMMA FreeGood ==
  ASSUME ScanInv, ObstacleRun, CurrentStrip, Best,
         y \in 0..(Height - 1), y' = y + 1, image' = image,
         FreeAt(y), obs_size' = 0,
         cnt' = IF obs_size > Tolerance THEN 1 ELSE cnt + 1 + obs_size,
         cnt_max' = cnt_max, new_dir' = new_dir
  PROVE  ObstacleRun' /\ CurrentStrip' /\ Best'
<1>1. /\ y \in Nat /\ cnt \in Nat /\ obs_size \in Nat /\ cnt + obs_size <= y
      /\ Tolerance \in Nat
  BY ImageAssumption DEF ScanInv, ScanTypeOK, StripFits
<1>2. End \in 0..y /\ \A k \in End..(y - 1) : ~FreeAt(k)
  BY DEF ObstacleRun
<1>3. End' = y + 1 /\ End' - 1 = y
  BY <1>1 DEF End
<1>4. ObstacleRun'
  <2>1. y' - 1 = y /\ End' \in 0..y'
    BY <1>1, <1>3
  <2>2. \A k \in End'..(y' - 1) : FALSE
    BY <1>1, <1>3, <2>1
  <2> QED BY <2>1, <2>2 DEF ObstacleRun
<1>5. CurrentStrip'
  <2>1. cnt' \in Nat \ {0}
    BY <1>1
  <2>2. CASE obs_size > Tolerance
    <3>1. Beginning' = y
      BY <1>1, <1>3, <2>2 DEF Beginning
    <3>2. Ignorable(y, y)
      BY <1>1 DEF Ignorable, FreeAt
    <3>3. StartsHere(y)
      <4>1. End \in 0..(y - 1) /\ y - End > Tolerance
        BY <1>1, <1>2, <2>2 DEF End
      <4> QED BY <1>2, <4>1 DEF StartsHere
    <3>4. y \in 0..y
      BY <1>1
    <3> QED BY <1>3, <2>1, <3>1, <3>2, <3>3, <3>4, SameImage DEF CurrentStrip
  <2>3. CASE ~(obs_size > Tolerance)
    <3> DEFINE a == Beginning
    <3>1. Beginning' = a
      BY <1>1, <1>3, <2>3 DEF Beginning, End
    <3>2. cnt = 0 => a = 0 /\ End = 0
      BY <1>1 DEF Beginning, CurrentStrip
    <3>3. a \in 0..y /\ StartsHere(a)
      <4>1. CASE cnt = 0
        BY <1>1, <3>2, <4>1 DEF StartsHere
      <4>2. CASE cnt > 0
        BY <1>1, <1>2, <4>2 DEF CurrentStrip
      <4> QED BY <1>1, <4>1, <4>2
    <3>4. cnt > 0 => FreeAt(End - 1) /\ Ignorable(a, End - 1)
      BY DEF CurrentStrip
    <3>5. End \in Nat /\ y - End = obs_size
      BY <1>1, <1>2 DEF End
    <3> HIDE DEF a
    <3>6. ASSUME NEW i \in a..y, NEW j \in a..y, i <= j, \A k \in i..j : ~FreeAt(k)
          PROVE  j - i + 1 <= Tolerance
      <4>1. i \in Nat /\ j \in Nat /\ j # y
        BY <1>1, <3>3, <3>6
      <4>2. CASE i >= End
        BY <1>1, <2>3, <3>5, <4>1, <4>2
      <4>3. CASE i < End
        <5>1. cnt > 0
          BY <1>1, <3>2, <4>1, <4>3
        <5>2. j < End - 1
          BY <3>4, <3>5, <3>6, <4>1, <4>3, <5>1
        <5>3. i \in a..(End - 1) /\ j \in a..(End - 1)
          BY <3>3, <3>5, <4>1, <4>3, <5>2
        <5> QED BY <3>4, <3>6, <5>1, <5>3 DEF Ignorable, FreeAt
      <4> QED BY <3>5, <4>1, <4>2, <4>3
    <3>7. Ignorable(a, y)
      BY <3>6 DEF Ignorable, FreeAt
    <3> QED BY <1>3, <2>1, <3>1, <3>3, <3>7, SameImage DEF CurrentStrip
  <2> QED BY <2>2, <2>3
<1>6. Best'
  <2>1. \A t \in Strips : t[2] \in Nat /\ t[2] + 1 # y
    BY StripPair
  <2> QED BY <1>1, <2>1, BestKept
<1> QED BY <1>4, <1>5, <1>6

(* One row more.                                                           *)
LEMMA GoodStep ==
  ASSUME ScanGood, [ScanNext]_scanVars
  PROVE  ScanGood'
<1>1. ScanInv /\ ScanInv'
  BY ScanStep DEF ScanGood
<1>2. CASE ScanRow
  <2>1. image' = image
    BY <1>2 DEF ScanRow
  <2>2. ASSUME NoPlants PROVE ObstacleRun' /\ CurrentStrip' /\ Best'
    <3>1. ObstacleRun /\ CurrentStrip /\ Best /\ ScanTypeOK
      BY <1>1, <2>2 DEF ScanGood, ScanInv
    <3> QED BY <1>1, <1>2, <2>2, <3>1, PlantFree, ObstacleGood, FreeGood
  <2> QED BY <1>1, <2>1, <2>2, SameImage DEF ScanGood
<1>3. CASE UNCHANGED scanVars
  <2>1. /\ y' = y /\ image' = image /\ cnt' = cnt /\ cnt_max' = cnt_max
        /\ obs_size' = obs_size /\ new_dir' = new_dir
    BY <1>3 DEF scanVars
  <2>2. ObstacleRun' <=> ObstacleRun
    BY <2>1 DEF ObstacleRun, End, FreeAt, IsObstacle
  <2>3. CurrentStrip' <=> CurrentStrip
    BY <2>1, SameImage DEF CurrentStrip, Beginning, End
  <2>4. Best' <=> Best
    <3>1. \A t : (Closed(t)' <=> Closed(t)) /\ StripLength(t)' = StripLength(t)
      BY <2>1, SameImage DEF Closed, StripLength
    <3> QED BY <2>1, <3>1, SameImage DEF Best
  <2> QED BY <1>1, <2>1, <2>2, <2>3, <2>4, SameImage DEF ScanGood
<1> QED BY <1>2, <1>3 DEF ScanNext

(* When all rows are scanned, every strip was met.                         *)
LEMMA AtTheEnd ==
  ASSUME ScanGood
  PROVE  FindsLongestStrip
<1> SUFFICES ASSUME Done, NoPlants
    PROVE  IF Strips = {} THEN cnt_max = 0 /\ new_dir = Height \div 2
           ELSE \E s \in Strips :
                  /\ Longest(s)
                  /\ \A t \in Strips : Longest(t) => s[2] <= t[2]
                  /\ cnt_max = StripLength(s)
                  /\ 2 * new_dir - (s[1] + s[2]) \in 1..3
  BY DEF FindsLongestStrip
<1>1. Best /\ y = Height /\ cnt_max \in Nat
  BY DEF ScanGood, ScanInv, ScanTypeOK, Done
<1>2. \A t \in Strips : Closed(t) /\ StripLength(t) \in Nat
  BY <1>1, StripPair DEF Closed
<1>3. CASE Strips = {}
  BY <1>1, <1>3 DEF Best
<1>4. CASE Strips # {}
  <2>1. PICK s \in Strips :
         /\ \A t \in Strips :
              \/ StripLength(t) < cnt_max
              \/ StripLength(t) = cnt_max /\ s[2] <= t[2]
         /\ cnt_max = StripLength(s)
         /\ 2 * new_dir - (s[1] + s[2]) \in 1..3
    BY <1>1, <1>2, <1>4 DEF Best
  <2>2. Longest(s)
    BY <1>1, <1>2, <2>1 DEF Longest
  <2>3. ASSUME NEW t \in Strips, Longest(t) PROVE s[2] <= t[2]
    <3>1. StripLength(s) <= StripLength(t)
      BY <2>3 DEF Longest
    <3> QED BY <1>1, <1>2, <2>1, <3>1
  <2> QED BY <1>4, <2>1, <2>2, <2>3
<1> QED BY <1>3, <1>4

(* Without plants, the scan finds the first longest strip of free rows and *)
(* returns a row near its middle, for images of every height and every     *)
(* tolerance (find_object_centroid).                                       *)
THEOREM ScanLongest == ScanSpec => []FindsLongestStrip
BY GoodInit, GoodStep, AtTheEnd, PTL DEF ScanSpec

-----------------------------------------------------------------------------
(* The threads of the detector.                                            *)
DetInv == TypeOK /\ MutexProtects

(* Two cameras are told apart, and from the autopilot.                     *)
LEMMA Holders == /\ \A f \in Filters : Holder(f) \in {"camera1", "camera2"}
         /\ \A f, g \in Filters : Holder(f) = Holder(g) => f = g
BY DetectorAssumption DEF Holder

(* No thread is in its critical section at first.                          *)
LEMMA DetInit ==
  ASSUME Init
  PROVE  DetInv
<1>1. Empty \in Record
  BY DetectorAssumption DEF Empty, Record
<1>2. TypeOK
  BY <1>1, DetectorAssumption DEF Init, TypeOK, NoMessage
<1>3. MutexProtects
  BY Holders
     DEF Init, MutexProtects, InCritical,
         PeriodicCritical
<1> QED BY <1>2, <1>3 DEF DetInv

(* A step of a camera's thread.                                            *)
LEMMA DetVideo ==
  ASSUME DetInv, NEW f \in Filters, Scan(f)
      \/ VideoThread(f)
  PROVE  DetInv'
<1>0. TypeOK /\ MutexProtects
  BY DEF DetInv
<1>1. CASE Scan(f)
  <2>1. frames[f] + 1 \in 0..MaxFrame
    BY <1>0, <1>1, DetectorAssumption DEF TypeOK, Scan
  <2>2. TypeOK'
    BY <1>0, <1>1, <2>1 DEF TypeOK, Scan
  <2>3. MutexProtects'
    BY <1>0, <1>1
       DEF TypeOK, MutexProtects, InCritical,
           PeriodicCritical, Scan
  <2> QED BY <2>2, <2>3 DEF DetInv
<1>2. CASE LockVideo(f)
  <2>1. TypeOK'
    BY <1>0, <1>2, Holders DEF TypeOK, LockVideo
  <2>2. MutexProtects'
    BY <1>0, <1>2, Holders
       DEF TypeOK, MutexProtects, InCritical,
           PeriodicCritical, LockVideo
  <2> QED BY <2>1, <2>2 DEF DetInv
<1>3. CASE StoreCount(f)
  <2> DEFINE r == [global_filters[f] EXCEPT !.color_count = scanned[f],
      !.frame = frames[f]]
  <2>1. /\ global_filters[f] \in Record /\ frames[f] \in 0..MaxFrame
        /\ scanned[f] \in Rows \cup {0}
    BY <1>0 DEF TypeOK
  <2>2. r \in Record
    BY <2>1 DEF Record
  <2>3. global_filters' = [global_filters EXCEPT ![f] = r]
    BY <1>0, <1>3 DEF TypeOK, StoreCount
  <2> HIDE DEF r
  <2>4. \A g \in Filters : global_filters'[g] \in Record
    BY <1>0, <2>2, <2>3 DEF TypeOK
  <2>5. TypeOK'
    BY <1>0, <1>3, <2>4 DEF TypeOK, StoreCount
  <2>6. MutexProtects'
    BY <1>0, <1>3
       DEF TypeOK, MutexProtects, InCritical,
           PeriodicCritical, StoreCount
  <2> QED BY <2>5, <2>6 DEF DetInv
<1>4. CASE StoreUpdated(f)
  <2>1. \A g \in Filters : global_filters'[g] \in Record
    BY <1>0, <1>4 DEF TypeOK, StoreUpdated, Record
  <2>2. TypeOK'
    BY <1>0, <1>4, <2>1 DEF TypeOK, StoreUpdated
  <2>3. MutexProtects'
    BY <1>0, <1>4
       DEF TypeOK, MutexProtects, InCritical,
           PeriodicCritical, StoreUpdated
  <2> QED BY <2>2, <2>3 DEF DetInv
<1>5. CASE UnlockVideo(f)
  <2>1. TypeOK'
    BY <1>0, <1>5 DEF TypeOK, UnlockVideo
  <2>2. MutexProtects'
    BY <1>0, <1>5, Holders
       DEF TypeOK, MutexProtects, InCritical,
           PeriodicCritical, UnlockVideo
  <2> QED BY <2>1, <2>2 DEF DetInv
<1> QED BY <1>1, <1>2, <1>3, <1>4, <1>5 DEF VideoThread

(* A step of the autopilot thread.                                         *)
LEMMA DetPeriodic ==
  ASSUME DetInv, LockPeriodic \/ PeriodicCall
  PROVE  DetInv'
<1>0. TypeOK /\ MutexProtects
  BY DEF DetInv
<1>1. CASE LockPeriodic
  <2>1. TypeOK'
    BY <1>0, <1>1 DEF TypeOK, LockPeriodic, videoVars
  <2>2. MutexProtects'
    BY <1>0, <1>1, Holders
       DEF TypeOK, MutexProtects, InCritical,
           PeriodicCritical, LockPeriodic, videoVars
  <2> QED BY <2>1, <2>2 DEF DetInv
<1>2. CASE CopyFilters
  BY <1>0, <1>2
     DEF DetInv, TypeOK, MutexProtects, InCritical,
         PeriodicCritical, CopyFilters, videoVars
<1>3. CASE UnlockPeriodic
  <2>1. TypeOK'
    BY <1>0, <1>3 DEF TypeOK, UnlockPeriodic, videoVars
  <2>2. MutexProtects'
    BY <1>0, <1>3, Holders
       DEF TypeOK, MutexProtects, InCritical,
           PeriodicCritical, UnlockPeriodic, videoVars
  <2> QED BY <2>1, <2>2 DEF DetInv
<1>4. ASSUME NEW f \in {1, 2}, Send(f) PROVE DetInv'
  <2>0. f \in Filters /\ local_filters[f] \in Record
    BY <1>0, <1>4 DEF Send, Pending, TypeOK
  <2>1. sent' \in [filter : 0..2, color_count : Rows \cup {0}, frame :
      0..MaxFrame]
    BY <1>4, <2>0 DEF Send, Record
  <2>2. \A g \in Filters : local_filters'[g] \in Record
    BY <1>0, <1>4 DEF TypeOK, Send, Record
  <2>3. TypeOK'
    BY <1>0, <1>4, <2>1, <2>2
       DEF TypeOK, Send, videoVars, AfterSend
  <2>4. MutexProtects'
    BY <1>0, <1>4
       DEF MutexProtects, InCritical, PeriodicCritical,
           Send, Sending, AfterSend, videoVars
  <2> QED BY <2>3, <2>4 DEF DetInv
<1>5. ASSUME NEW f \in {1, 2}, SkipSend(f) PROVE DetInv'
  <2>1. TypeOK'
    BY <1>0, <1>5 DEF TypeOK, SkipSend, videoVars, AfterSend
  <2>2. MutexProtects'
    BY <1>0, <1>5
       DEF MutexProtects, InCritical, PeriodicCritical,
           SkipSend, Sending, AfterSend, videoVars
  <2> QED BY <2>1, <2>2 DEF DetInv
<1> QED BY <1>1, <1>2, <1>3, <1>4, <1>5 DEF PeriodicCall

(* A step of any thread.                                                   *)
LEMMA DetStep ==
  ASSUME DetInv, [Next]_vars
  PROVE  DetInv'
<1>1. CASE UNCHANGED vars
  BY <1>1
     DEF vars, videoVars, DetInv, TypeOK, MutexProtects,
         InCritical, PeriodicCritical
<1> QED BY <1>1, DetVideo, DetPeriodic DEF Next

(* The detector is well typed and its mutex names who is inside.           *)
THEOREM DetInvariance == Spec => []DetInv
BY DetInit, DetStep, PTL DEF Spec

(* TypeOK: what is sent is a row the scan may return.                      *)
THEOREM DetectorTyping == Spec => []TypeOK
<1>1. DetInv => TypeOK
  BY DEF DetInv
<1> QED BY <1>1, DetInvariance, PTL

(* No two threads touch global_filters at once, whatever their number and  *)
(* however many frames arrive.                                             *)
THEOREM DetectorExclusion == Spec => []MutexProtects
<1>1. DetInv => MutexProtects
  BY DEF DetInv
<1> QED BY <1>1, DetInvariance, PTL

-----------------------------------------------------------------------------
(* What the detector's records hold.                                       *)
FramesGrow(f) == global_filters[f].frame <= frames[f]

(* Only a record never stored, or half stored, is not marked.              *)
Marked(f) ==
  video[f] # "storing" /\ ~global_filters[f].updated => global_filters[f].frame = 0

(* What is marked is a row that the scan found.                            *)
RowsFound(f) ==
  /\ video[f] # "waiting" => scanned[f] \in Rows
  /\ video[f] = "storing" \/ global_filters[f].updated =>
       global_filters[f].color_count \in Rows
  /\ local_filters[f].updated => local_filters[f].color_count \in Rows

Stores(f) == FramesGrow(f) /\ Marked(f) /\ RowsFound(f)

RecordsGood == \A f \in Filters : Stores(f)

(* The copy is as recent as what was known at the last evaluation.         *)
CopyIsFresh ==
  periodic \in {"copied", "send1"} =>
    /\ local_filters[Camera].frame >= known
    /\ ~local_filters[Camera].updated => known = 0

(* known is in the detector's store, and in the avoider once it was called.*)
Fresh ==
  /\ known \in Nat /\ received \in Nat
  /\ known <= Stored
  /\ periodic = "send2" \/ called => received >= known

(* The invariant: a row stored before the last evaluation is in the copy   *)
(* before anything is sent, and received before the next evaluation.       *)
PipelineInv == DetInv /\ RecordsGood /\ CopyIsFresh /\ Fresh

(* No frame has been taken.                                                *)
LEMMA RecordsInit ==
  ASSUME Init
  PROVE  RecordsGood
<1>1. ASSUME NEW f \in Filters PROVE Stores(f)
  <2>1. /\ global_filters[f] = Empty /\ local_filters[f] = Empty
        /\ frames[f] = 0 /\ video[f] = "waiting"
    BY DEF Init
  <2> QED BY <2>1 DEF Empty, Stores, FramesGrow, Marked, RowsFound
<1> QED BY <1>1 DEF RecordsGood

(* The fields of one filter.                                               *)
LEMMA RecordTyped ==
  ASSUME TypeOK, NEW f \in Filters
  PROVE  /\ global_filters[f] \in Record /\ local_filters[f] \in Record
         /\ global_filters[f].frame \in Nat /\ frames[f] \in Nat
         /\ local_filters[f].frame \in Nat
         /\ global_filters[f].updated \in BOOLEAN /\ local_filters[f].updated \in BOOLEAN
         /\ scanned[f] \in Rows \cup {0}
<1>1. global_filters[f] \in Record /\ local_filters[f] \in Record
  BY DEF TypeOK
<1>2. frames[f] \in Nat /\ scanned[f] \in Rows \cup {0}
  BY DEF TypeOK
<1> QED BY <1>1, <1>2 DEF Record

(* A step of a camera's thread leaves the other camera's data alone.       *)
LEMMA VideoStores ==
  ASSUME DetInv, RecordsGood,
         NEW f \in Filters, Scan(f) \/ VideoThread(f), NEW g \in Filters
  PROVE  Stores(g)' /\ global_filters'[g].frame >= global_filters[g].frame
<1>0. TypeOK /\ Stores(g)
  BY DEF DetInv, RecordsGood
<1>a. /\ global_filters[g] \in Record /\ global_filters[g].frame \in Nat
      /\ frames[g] \in Nat /\ scanned[g] \in Rows \cup {0}
      /\ local_filters[g] \in Record
  BY <1>0, RecordTyped
<1>1. CASE Scan(f)
  <2>1. /\ global_filters'[g] = global_filters[g] /\ local_filters'[g] = local_filters[g]
        /\ frames'[g] \in {frames[g], frames[g] + 1}
    BY <1>0, <1>1 DEF TypeOK, Scan
  <2>2. \/ scanned'[g] = scanned[g] /\ video'[g] = video[g]
        \/ scanned'[g] \in Rows /\ video'[g] = "scanned" /\ video[g] = "waiting"
    BY <1>0, <1>1 DEF TypeOK, Scan
  <2>3. FramesGrow(g)'
    BY <1>0, <1>a, <2>1 DEF Stores, FramesGrow
  <2>4. Marked(g)' /\ RowsFound(g)'
    BY <1>0, <2>1, <2>2 DEF Stores, Marked, RowsFound
  <2> QED BY <1>a, <2>1, <2>3, <2>4 DEF Stores
<1>2. CASE LockVideo(f)
  <2>1. /\ global_filters'[g] = global_filters[g] /\ local_filters'[g] = local_filters[g]
        /\ frames'[g] = frames[g] /\ scanned'[g] = scanned[g]
        /\ \/ video'[g] = video[g]
           \/ video'[g] = "locked" /\ video[g] = "scanned"
    BY <1>0, <1>2 DEF TypeOK, LockVideo
  <2> QED BY <1>0, <1>a, <2>1 DEF Stores, FramesGrow, Marked, RowsFound
<1>3. CASE StoreCount(f)
  <2>1. /\ local_filters'[g] = local_filters[g]
        /\ frames'[g] = frames[g] /\ scanned'[g] = scanned[g]
    BY <1>3 DEF StoreCount
  <2>2. CASE g = f
    <3>1. video[g] = "locked" /\ video'[g] = "storing"
      BY <1>0, <1>3, <2>2 DEF TypeOK, StoreCount
    <3>2. global_filters'[g] = [global_filters[g] EXCEPT !.color_count = scanned[g],
                                                         !.frame = frames[g]]
      BY <1>0, <1>3, <2>2 DEF TypeOK, StoreCount
    <3>3. /\ global_filters'[g].color_count = scanned[g]
          /\ global_filters'[g].frame = frames[g]
          /\ global_filters'[g].updated = global_filters[g].updated
      BY <1>a, <3>2 DEF Record
    <3>4. FramesGrow(g)' /\ global_filters'[g].frame >= global_filters[g].frame
      BY <1>0, <1>a, <2>1, <3>3 DEF Stores, FramesGrow
    <3>5. Marked(g)' /\ RowsFound(g)'
      BY <1>0, <2>1, <3>1, <3>3 DEF Stores, Marked, RowsFound
    <3> QED BY <3>4, <3>5 DEF Stores
  <2>3. CASE g # f
    <3>1. global_filters'[g] = global_filters[g] /\ video'[g] = video[g]
      BY <1>0, <1>3, <2>3 DEF TypeOK, StoreCount
    <3> QED BY <1>0, <1>a, <2>1, <3>1 DEF Stores, FramesGrow, Marked, RowsFound
  <2> QED BY <2>2, <2>3
<1>4. CASE StoreUpdated(f)
  <2>1. /\ local_filters'[g] = local_filters[g]
        /\ frames'[g] = frames[g] /\ scanned'[g] = scanned[g]
    BY <1>4 DEF StoreUpdated
  <2>2. CASE g = f
    <3>1. video[g] = "storing" /\ video'[g] = "stored"
      BY <1>0, <1>4, <2>2 DEF TypeOK, StoreUpdated
    <3>2. global_filters'[g] = [global_filters[g] EXCEPT !.updated = TRUE]
      BY <1>0, <1>4, <2>2 DEF TypeOK, StoreUpdated
    <3>3. /\ global_filters'[g].color_count = global_filters[g].color_count
          /\ global_filters'[g].frame = global_filters[g].frame
          /\ global_filters'[g].updated
      BY <1>a, <3>2 DEF Record
    <3>4. FramesGrow(g)' /\ global_filters'[g].frame >= global_filters[g].frame
      BY <1>0, <1>a, <2>1, <3>3 DEF Stores, FramesGrow
    <3>5. Marked(g)' /\ RowsFound(g)'
      BY <1>0, <2>1, <3>1, <3>3 DEF Stores, Marked, RowsFound
    <3> QED BY <3>4, <3>5 DEF Stores
  <2>3. CASE g # f
    <3>1. global_filters'[g] = global_filters[g] /\ video'[g] = video[g]
      BY <1>0, <1>4, <2>3 DEF TypeOK, StoreUpdated
    <3> QED BY <1>0, <1>a, <2>1, <3>1 DEF Stores, FramesGrow, Marked, RowsFound
  <2> QED BY <2>2, <2>3
<1>5. CASE UnlockVideo(f)
  <2>1. /\ global_filters'[g] = global_filters[g] /\ local_filters'[g] = local_filters[g]
        /\ frames'[g] = frames[g] /\ scanned'[g] = scanned[g]
        /\ \/ video'[g] = video[g]
           \/ video'[g] = "waiting" /\ video[g] = "stored"
    BY <1>0, <1>5 DEF TypeOK, UnlockVideo
  <2> QED BY <1>0, <1>a, <2>1 DEF Stores, FramesGrow, Marked, RowsFound
<1> QED BY <1>1, <1>2, <1>3, <1>4, <1>5 DEF VideoThread

(* The autopilot thread writes the copy only.                              *)
LEMMA PeriodicStores ==
  ASSUME DetInv, RecordsGood, LockPeriodic \/ PeriodicCall, NEW g \in Filters
  PROVE  Stores(g)' /\ global_filters' = global_filters
<1>0. TypeOK /\ Stores(g)
  BY DEF DetInv, RecordsGood
<1>1. /\ global_filters' = global_filters
      /\ frames' = frames /\ scanned' = scanned /\ video' = video
  BY DEF LockPeriodic, PeriodicCall, CopyFilters, UnlockPeriodic, Send,
         SkipSend, videoVars
<1>2. FramesGrow(g)' /\ Marked(g)'
  BY <1>0, <1>1 DEF Stores, FramesGrow, Marked
<1>3. local_filters'[g].updated => local_filters'[g].color_count \in Rows
  <2>1. CASE local_filters' = local_filters
    BY <1>0, <2>1 DEF Stores, RowsFound
  <2>2. CASE CopyFilters
    BY <1>0, <2>2 DEF Stores, RowsFound, CopyFilters
  <2>3. ASSUME NEW f \in {1, 2}, Send(f)
        PROVE  local_filters'[g].updated => local_filters'[g].color_count \in Rows
    <3>1. CASE g = f
      <4>1. local_filters'[g] = [local_filters[g] EXCEPT !.updated = FALSE]
        BY <1>0, <2>3, <3>1 DEF TypeOK, Send
      <4>2. local_filters[g] \in Record
        BY <1>0, RecordTyped
      <4> QED BY <4>1, <4>2 DEF Record
    <3>2. CASE g # f
      <4>1. local_filters'[g] = local_filters[g]
        BY <1>0, <2>3, <3>2 DEF TypeOK, Send
      <4> QED BY <1>0, <4>1 DEF Stores, RowsFound
    <3> QED BY <3>1, <3>2
  <2> QED BY <2>1, <2>2, <2>3
          DEF LockPeriodic, PeriodicCall, UnlockPeriodic, SkipSend
<1>4. RowsFound(g)'
  BY <1>0, <1>1, <1>3 DEF Stores, RowsFound
<1> QED BY <1>1, <1>2, <1>4 DEF Stores

(* The composition takes no step that the detector would not take alone.   *)
LEMMA DetectorSteps ==
  ASSUME PipelineNext
  PROVE  \/ \E f \in Filters : Scan(f) \/ VideoThread(f)
         \/ LockPeriodic \/ PeriodicCall
         \/ UNCHANGED vars
<1>1. ASSUME NEW f \in Filters, VideoStep(f) PROVE Scan(f) \/ VideoThread(f)
  BY <1>1 DEF VideoStep
<1>2. CASE DetectorQuietStep
  BY <1>2 DEF DetectorQuietStep, PeriodicCall
<1>3. CASE DetectorSend
  <2>1. PICK f \in {1, 2} : Send(f)
    BY <1>3, DetectorAssumption DEF DetectorSend, Camera
  <2> QED BY <2>1 DEF PeriodicCall
<1>4. CASE AvoiderPeriodic \/ DroneStep
  BY <1>4 DEF AvoiderPeriodic, DroneStep, detVars, vars, videoVars
<1> QED BY <1>1, <1>2, <1>3, <1>4 DEF PipelineNext

(* Nor does any step of it but the detector's change the detector's state. *)
LEMMA DetectorStep ==
  ASSUME [PipelineNext]_pipelineVars
  PROVE  [Next]_vars
<1>1. CASE UNCHANGED pipelineVars
  BY <1>1 DEF pipelineVars, detVars, vars, videoVars
<1> QED BY <1>1, DetectorSteps DEF Next

(* In the composition the detector does what it does alone: what is proved *)
(* of ColorDetector holds of the pipeline.                                 *)
THEOREM PipelineDetector == PipelineSpec => Spec
<1>1. PipelineInit => Init
  BY DEF PipelineInit
<1> QED BY <1>1, DetectorStep, PTL DEF PipelineSpec, Spec

(* Nothing is known and nothing was received.                              *)
LEMMA PipelineBegins ==
  ASSUME PipelineInit
  PROVE  PipelineInv
<1> USE FrontCameraInUse
<1>1. DetInv /\ RecordsGood
  BY DetInit, RecordsInit DEF PipelineInit
<1>2. periodic = "idle" /\ known = 0 /\ received = 0
  BY DEF PipelineInit, Init
<1>3. Stored \in Nat
  BY <1>1, RecordTyped DEF Stored, DetInv
<1> QED BY <1>1, <1>2, <1>3 DEF PipelineInv, CopyIsFresh, Fresh

(* One step of a thread, of the avoider or of the drone.                   *)
LEMMA PipelineStep ==
  ASSUME PipelineInv, [PipelineNext]_pipelineVars
  PROVE  PipelineInv'
<1> USE FrontCameraInUse
<1>0. DetInv /\ RecordsGood /\ CopyIsFresh /\ Fresh /\ TypeOK
  BY DEF PipelineInv, DetInv
<1>1. DetInv'
  BY <1>0, DetStep, DetectorStep
<1>2. Stored \in Nat /\ local_filters[Camera].frame \in Nat
  BY <1>0, RecordTyped DEF Stored
<1>3. ASSUME NEW f \in Filters, VideoStep(f) PROVE PipelineInv'
  <2>1. Scan(f) \/ VideoThread(f)
    BY <1>3 DEF VideoStep
  <2>2. RecordsGood' /\ Stored' >= Stored
    BY <1>0, <2>1, VideoStores DEF RecordsGood, Stored
  <2>3. /\ called' = called /\ known' = known /\ received' = received
        /\ periodic' = periodic /\ local_filters' = local_filters
    BY <1>3 DEF VideoStep, Scan, VideoThread, LockVideo, StoreCount,
                StoreUpdated, UnlockVideo
  <2>4. CopyIsFresh'
    BY <1>0, <2>3 DEF CopyIsFresh
  <2>5. Stored' \in Nat
    <3>1. global_filters'[Camera] \in Record
      BY <1>1 DEF DetInv, TypeOK
    <3> QED BY <3>1 DEF Stored, Record
  <2>6. Fresh'
    BY <1>0, <1>2, <2>2, <2>3, <2>5 DEF Fresh
  <2> QED BY <1>1, <2>2, <2>4, <2>6 DEF PipelineInv
<1>4. ASSUME LockPeriodic \/ PeriodicCall
      PROVE  RecordsGood' /\ Stored' = Stored
  BY <1>0, <1>4, PeriodicStores DEF RecordsGood, Stored
<1>5. CASE DetectorQuietStep
  <2>1. known' = known /\ received' = received /\ called' = (called \/ periodic = "send2")
    BY <1>5 DEF DetectorQuietStep
  <2>2. RecordsGood' /\ Stored' = Stored
    BY <1>4, <1>5 DEF DetectorQuietStep, PeriodicCall
  <2>3. CASE LockPeriodic
    BY <1>0, <1>1, <2>1, <2>2, <2>3 DEF PipelineInv, CopyIsFresh, Fresh, LockPeriodic
  <2>4. CASE CopyFilters
    <3>1. periodic = "copying" /\ periodic' = "copied" /\ local_filters' = global_filters
      BY <2>4 DEF CopyFilters
    <3>2. video[Camera] # "storing"
      BY <1>0, <3>1, Holders
         DEF DetInv, MutexProtects, InCritical, PeriodicCritical
    <3>3. ~global_filters[Camera].updated => Stored = 0
      BY <1>0, <3>2 DEF RecordsGood, Stores, Marked, Stored
    <3>4. Stored >= known /\ (~global_filters[Camera].updated => known = 0)
      BY <1>0, <1>2, <3>3 DEF Fresh
    <3>5. CopyIsFresh'
      BY <2>1, <3>1, <3>4 DEF CopyIsFresh, Stored
    <3>6. Fresh'
      BY <1>0, <2>1, <2>2, <3>1 DEF Fresh
    <3> QED BY <1>1, <2>2, <3>5, <3>6 DEF PipelineInv
  <2>5. CASE UnlockPeriodic
    BY <1>0, <1>1, <2>1, <2>2, <2>5 DEF PipelineInv, CopyIsFresh, Fresh, UnlockPeriodic
  <2>6. ASSUME NEW f \in {1, 2}, SkipSend(f) PROVE PipelineInv'
    <3>1. CASE f = 1
      <4>1. periodic = "send1" /\ periodic' = "send2" /\ ~local_filters[Camera].updated
        BY <2>6, <3>1
           DEF SkipSend, Sending, AfterSend, Pending, Camera
      <4>2. known = 0
        BY <1>0, <4>1 DEF CopyIsFresh
      <4>3. received >= known
        BY <1>0, <4>2 DEF Fresh
      <4>4. CopyIsFresh'
        BY <4>1 DEF CopyIsFresh
      <4>5. Fresh'
        BY <1>0, <2>1, <2>2, <4>3 DEF Fresh
      <4> QED BY <1>1, <2>2, <4>4, <4>5 DEF PipelineInv
    <3>2. CASE f = 2
      <4>1. periodic = "send2" /\ periodic' = "idle"
        BY <2>6, <3>2 DEF SkipSend, Sending, AfterSend
      <4> QED BY <1>0, <1>1, <2>1, <2>2, <4>1 DEF PipelineInv, CopyIsFresh, Fresh
    <3> QED BY <3>1, <3>2
  <2> QED BY <1>5, <2>3, <2>4, <2>5, <2>6 DEF DetectorQuietStep
<1>6. CASE DetectorSend
  <2>1. known' = known /\ called' = (called \/ periodic = "send2")
    BY <1>6 DEF DetectorSend
  <2>2. RecordsGood' /\ Stored' = Stored
    BY <1>4, <1>6, DetectorAssumption DEF DetectorSend, PeriodicCall, Camera
  <2>3. CASE Send(Camera) /\ received' = sent'.frame
    <3>1. periodic = "send1" /\ periodic' = "send2" /\ received' = local_filters[Camera].frame
      BY <2>3 DEF Send, Sending, AfterSend, Camera
    <3>2. received' \in Nat /\ received' >= known
      BY <1>0, <1>2, <3>1 DEF CopyIsFresh
    <3>3. CopyIsFresh'
      BY <3>1 DEF CopyIsFresh
    <3>4. Fresh'
      BY <1>0, <2>1, <2>2, <3>2 DEF Fresh
    <3> QED BY <1>1, <2>2, <3>3, <3>4 DEF PipelineInv
  <2>4. ASSUME NEW f \in Filters \ {Camera}, Send(f), received' = received
        PROVE  PipelineInv'
    <3>1. f = 2
      BY DetectorAssumption DEF Camera
    <3>2. periodic = "send2" /\ periodic' = "idle"
      BY <2>4, <3>1 DEF Send, Sending, AfterSend
    <3> QED BY <1>0, <1>1, <2>1, <2>2, <2>4, <3>2 DEF PipelineInv, CopyIsFresh, Fresh
  <2> QED BY <1>6, <2>3, <2>4 DEF DetectorSend
<1>7. ASSUME UNCHANGED detVars PROVE RecordsGood' /\ Stored' = Stored
  BY <1>0, <1>7 DEF detVars, vars, videoVars, RecordsGood, Stores, FramesGrow, Marked,
         RowsFound, Stored
<1>8. CASE AvoiderPeriodic
  <2>1. /\ periodic = "idle" /\ periodic' = periodic /\ called' = FALSE
        /\ known' = Stored /\ received' = received
    BY <1>8 DEF AvoiderPeriodic, detVars, vars
  <2>2. RecordsGood' /\ Stored' = Stored
    BY <1>7, <1>8 DEF AvoiderPeriodic
  <2> QED BY <1>0, <1>1, <1>2, <2>1, <2>2 DEF PipelineInv, CopyIsFresh, Fresh
<1>9. CASE DroneStep \/ UNCHANGED pipelineVars
  <2>1. UNCHANGED <<detVars, called, known, received>>
    BY <1>9 DEF DroneStep, pipelineVars
  <2>2. RecordsGood' /\ Stored' = Stored
    BY <1>7, <2>1
  <2>3. periodic' = periodic /\ local_filters' = local_filters
    BY <2>1 DEF detVars, vars
  <2> QED BY <1>0, <1>1, <2>1, <2>2, <2>3 DEF PipelineInv, CopyIsFresh, Fresh
<1> QED BY <1>3, <1>5, <1>6, <1>8, <1>9 DEF PipelineNext

(* The rows on their way from the camera to the avoider.                   *)
THEOREM PipelineInvariance == PipelineSpec => []PipelineInv
BY PipelineBegins, PipelineStep, PTL DEF PipelineSpec

(* An evaluation never rests on a frame older than one that was already    *)
(* stored at the evaluation before it, with one camera or two, for any     *)
(* rows, number of frames and geometry.                                    *)
THEOREM PipelineFresh == PipelineSpec => DecidesOnFreshFrame
<1>1. PipelineInv /\ [PipelineNext]_pipelineVars => [AvoiderPeriodic => received >= known]_pipelineVars
  BY DEF PipelineInv, Fresh, AvoiderPeriodic
<1> QED BY <1>1, PipelineInvariance, PTL DEF PipelineSpec, DecidesOnFreshFrame

(* A message of filter 1 carries a row that the scan found: a detection the*)
(* avoider's specification allows for.                                     *)
LEMMA AvoiderStep ==
  ASSUME PipelineInv, [PipelineNext]_pipelineVars
  PROVE  [Av!Next]_(Av!vars)
<1>1. ASSUME UNCHANGED avVars PROVE UNCHANGED Av!vars
  BY <1>1 DEF avVars, Av!vars, Av!fsmVars, Av!droneVars
<1>2. CASE (\E f \in Filters : VideoStep(f)) \/ DetectorQuietStep \/ UNCHANGED pipelineVars
  BY <1>1, <1>2 DEF VideoStep, DetectorQuietStep, pipelineVars
<1>3. CASE DetectorSend
  <2>1. CASE Send(Camera) /\ Av!color_detection_cb(sent'.color_count)
    <3>1. /\ sent'.color_count = local_filters[Camera].color_count
          /\ local_filters[Camera].updated
      BY <2>1 DEF Send, Pending
    <3>2. sent'.color_count \in Rows
      BY <3>1, FrontCameraInUse DEF PipelineInv, RecordsGood, Stores, RowsFound
    <3> QED BY <2>1, <3>2 DEF Av!Next
  <2>2. CASE UNCHANGED avVars
    BY <1>1, <2>2
  <2> QED BY <1>3, <2>1, <2>2 DEF DetectorSend
<1>4. CASE AvoiderPeriodic
  BY <1>4 DEF AvoiderPeriodic, Av!Next
<1>5. CASE DroneStep
  BY <1>5 DEF DroneStep, Av!Next
<1> QED BY <1>2, <1>3, <1>4, <1>5 DEF PipelineNext

(* In the composition the avoider does what it does alone: what is proved  *)
(* of OrangeAvoider holds of the pipeline.                                 *)
THEOREM PipelineAvoider == PipelineSpec => Av!Spec
<1>1. PipelineInit => Av!Init
  BY DEF PipelineInit
<1> QED BY <1>1, AvoiderStep, PipelineInvariance, PTL DEF PipelineSpec, Av!Spec
=============================================================================
