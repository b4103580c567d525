---------------------------- MODULE ArmingProofs ----------------------------
(***************************************************************************)
(* Both arming schemes, for every arming delay.  The invariant says what   *)
(* the state machine's position tells about the motors, the counter and    *)
(* what has happened before.                                               *)
(***************************************************************************)
EXTENDS ArmingSchemes, TLAPS

Record ==
  [mode : Modes, motors_on : BOOLEAN, arming : ArmingStates[scheme], counter : Int,
   unarmed_in_auto : BOOLEAN]

SchemeOK == scheme \in {"throttle", "switch"}

(* The parts of the invariant that speak of the autopilot alone.           *)
Kill(s) == s.mode = "KILL" => ~s.motors_on

CounterOK(s) ==
  /\ s.counter \in 0..ArmingDelay
  /\ s.arming = "UNARMING" => s.counter >= 1
  /\ s.arming = "ARMING" => s.counter < ArmingDelay

InStepOf(s, c) ==
  IF scheme = "switch" THEN s.motors_on <=> s.arming = "MOTORS_ON"
  ELSE /\ s.motors_on => s.arming \in {"MOTORS_ON", "UNARMING", "MOTORS_OFF_READY"}
       /\ ~c /\ s.arming \in {"MOTORS_ON", "UNARMING"} => s.motors_on

Good(s, c) == s \in Record /\ Kill(s) /\ CounterOK(s) /\ InStepOf(s, c)

(* Those that tie it to the history.                                       *)
ThrottleHistory(s) ==
  scheme = "throttle" =>
    /\ s.arming \in {"MOTORS_OFF_READY", "ARMING"} => lowered
    /\ s.arming = "ARMING" => s.counter + 1 <= valid

SwitchHistory(s) ==
  scheme = "switch" =>
    /\ s.arming \in {"STARTABLE", "MOTORS_ON"} => enabled
    /\ s.unarmed_in_auto => stopped_in = "AUTO"

HistoryTyped ==
  /\ lowered \in BOOLEAN /\ valid \in 0..ArmingDelay + 1
  /\ enabled \in BOOLEAN /\ stopped_in \in Modes /\ cut \in BOOLEAN

IInv ==
  /\ SchemeOK /\ HistoryTyped
  /\ Good(autopilot, cut)
  /\ ThrottleHistory(autopilot) /\ SwitchHistory(autopilot)

-----------------------------------------------------------------------------
LEMMA States ==
  /\ scheme = "throttle" => ArmingStates[scheme] =
       {"UNINIT", "WAITING", "MOTORS_OFF_READY", "ARMING", "MOTORS_ON", "UNARMING"}
  /\ scheme = "switch" => ArmingStates[scheme] = {"UNINIT", "WAITING", "STARTABLE", "MOTORS_ON"}
BY DEF ArmingStates

LEMMA ArmingSet ==
  ASSUME NEW s \in Record, NEW a \in ArmingStates[scheme]
  PROVE  /\ [s EXCEPT !.arming = a] \in Record
         /\ [s EXCEPT !.arming = a].arming = a
         /\ [s EXCEPT !.arming = a].mode = s.mode
         /\ [s EXCEPT !.arming = a].motors_on = s.motors_on
         /\ [s EXCEPT !.arming = a].counter = s.counter
         /\ [s EXCEPT !.arming = a].unarmed_in_auto = s.unarmed_in_auto
BY DEF Record

LEMMA CounterSet ==
  ASSUME NEW s \in Record, NEW n \in Int
  PROVE  /\ Counts(s, n) \in Record
         /\ Counts(s, n).counter = n
         /\ Counts(s, n).mode = s.mode
         /\ Counts(s, n).motors_on = s.motors_on
         /\ Counts(s, n).arming = s.arming
         /\ Counts(s, n).unarmed_in_auto = s.unarmed_in_auto
BY DEF Record, Counts

LEMMA MotorsSet ==
  ASSUME NEW s \in Record, NEW on \in BOOLEAN, NEW p \in BOOLEAN
  PROVE  /\ Motors(s, on, p) \in Record
         /\ Motors(s, on, p).mode = s.mode
         /\ Motors(s, on, p).arming = s.arming
         /\ Motors(s, on, p).counter = s.counter
         /\ Motors(s, on, p).unarmed_in_auto = s.unarmed_in_auto
         /\ ~on => ~Motors(s, on, p).motors_on
         /\ on /\ s.motors_on => Motors(s, on, p).motors_on
BY DEF Record, Motors, Refused

LEMMA AutoSet ==
  ASSUME NEW s \in Record, scheme = "switch"
  PROVE  /\ StopsRememberingAuto(s) \in Record
         /\ StopsRememberingAuto(s).arming = "STARTABLE"
         /\ StopsRememberingAuto(s).unarmed_in_auto <=> s.mode = "AUTO"
         /\ StopsRememberingAuto(s).mode = s.mode
         /\ StopsRememberingAuto(s).motors_on = s.motors_on
         /\ StopsRememberingAuto(s).counter = s.counter
<1> DEFINE auto == s.mode = "AUTO"
           r == [s EXCEPT !.arming = "STARTABLE"]
<1>1. "STARTABLE" \in ArmingStates[scheme]
  BY States
<1>2. r \in Record /\ r.arming = "STARTABLE" /\ r.mode = s.mode /\ r.motors_on = s.motors_on
      /\ r.counter = s.counter
  BY <1>1, ArmingSet
<1>3. StopsRememberingAuto(s) = [r EXCEPT !.unarmed_in_auto = auto]
  BY DEF StopsRememberingAuto
<1>4. auto \in BOOLEAN
  OBVIOUS
<1> HIDE DEF r, auto
<1>5. LET t == [r EXCEPT !.unarmed_in_auto = auto]
      IN  /\ t \in Record /\ t.arming = r.arming /\ t.unarmed_in_auto = auto
          /\ t.mode = r.mode /\ t.motors_on = r.motors_on /\ t.counter = r.counter
  BY <1>2, <1>4 DEF Record
<1> QED
  BY <1>2, <1>3, <1>5 DEF auto

-----------------------------------------------------------------------------
(* What switching the motors and changing the mode may come to.            *)

AfterStop(s) ==
  IF s.arming # "MOTORS_ON" THEN s.arming
  ELSE IF scheme = "throttle" THEN "WAITING" ELSE "STARTABLE"

SameState(s, r) ==
  /\ r.motors_on = s.motors_on /\ r.arming = s.arming
  /\ r.unarmed_in_auto = s.unarmed_in_auto

TurnedOn(s, r) ==
  /\ s.mode # "KILL" /\ r.motors_on /\ r.arming = "MOTORS_ON"
  /\ r.unarmed_in_auto = s.unarmed_in_auto

TurnedOff(s, r) ==
  /\ s.motors_on \/ s.mode = "KILL"
  /\ ~r.motors_on /\ r.arming = AfterStop(s)
  /\ IF s.arming = "MOTORS_ON" /\ scheme = "switch"
     THEN r.unarmed_in_auto <=> s.mode = "AUTO"
     ELSE r.unarmed_in_auto = s.unarmed_in_auto

Switched(s, r) ==
  /\ r \in Record /\ r.counter = s.counter
  /\ SameState(s, r) \/ TurnedOn(s, r) \/ TurnedOff(s, r)

LEMMA SetMotorsOn ==
  ASSUME SchemeOK, NEW s \in Record, NEW on \in BOOLEAN, NEW p \in BOOLEAN
  PROVE  /\ Switched(s, autopilot_set_motors_on(s, on, p))
         /\ autopilot_set_motors_on(s, on, p).mode = s.mode
         /\ ~on => ~autopilot_set_motors_on(s, on, p).motors_on
<1> DEFINE r == autopilot_set_motors_on(s, on, p)
           off == [s EXCEPT !.motors_on = FALSE]
           up == [s EXCEPT !.motors_on = TRUE]
<1> USE DEF SchemeOK
<1>1. CASE Refused(s, on, p)
  <2>1. r = s
    BY <1>1 DEF autopilot_set_motors_on
  <2>2. ~on => ~s.motors_on
    BY <1>1 DEF Refused, Record
  <2> QED
    BY <2>1, <2>2 DEF Switched, SameState
<1>2. CASE ~Refused(s, on, p) /\ on /\ s.mode # "KILL"
  <2>1. r = [up EXCEPT !.arming = "MOTORS_ON"]
    BY <1>2 DEF autopilot_set_motors_on, autopilot_arming_set
  <2>2. /\ up \in Record /\ up.motors_on /\ up.mode = s.mode /\ up.counter = s.counter
        /\ up.unarmed_in_auto = s.unarmed_in_auto
    BY DEF Record
  <2>3. "MOTORS_ON" \in ArmingStates[scheme]
    BY States
  <2> HIDE DEF r, up
  <2>4. /\ r \in Record /\ r.arming = "MOTORS_ON" /\ r.motors_on = up.motors_on
        /\ r.mode = up.mode /\ r.counter = up.counter
        /\ r.unarmed_in_auto = up.unarmed_in_auto
    BY <2>1, <2>2, <2>3, ArmingSet
  <2>5. TurnedOn(s, r)
    BY <1>2, <2>2, <2>4 DEF TurnedOn
  <2> QED
    BY <1>2, <2>2, <2>4, <2>5 DEF Switched, r
<1>3. CASE ~Refused(s, on, p) /\ (~on \/ s.mode = "KILL")
  <2>1. r = autopilot_arming_set(off, FALSE)
    BY <1>3 DEF autopilot_set_motors_on
  <2>2. /\ off \in Record /\ ~off.motors_on /\ off.mode = s.mode /\ off.counter = s.counter
        /\ off.unarmed_in_auto = s.unarmed_in_auto /\ off.arming = s.arming
    BY DEF Record
  <2>3. s.motors_on \/ s.mode = "KILL"
    BY <1>3 DEF Refused, Record
  <2> HIDE DEF r, off
  <2>4. CASE s.arming # "MOTORS_ON"
    <3>1. r = off
      BY <2>1, <2>2, <2>4 DEF autopilot_arming_set
    <3>2. TurnedOff(s, r)
      BY <2>2, <2>3, <2>4, <3>1 DEF TurnedOff, AfterStop
    <3> QED
      BY <2>2, <3>1, <3>2 DEF Switched, r
  <2>5. CASE s.arming = "MOTORS_ON" /\ scheme = "throttle"
    <3>1. r = [off EXCEPT !.arming = "WAITING"] /\ "WAITING" \in ArmingStates[scheme]
      BY <2>1, <2>2, <2>5, States DEF autopilot_arming_set
    <3>2. /\ r \in Record /\ r.arming = "WAITING" /\ r.motors_on = off.motors_on
          /\ r.mode = off.mode /\ r.counter = off.counter
          /\ r.unarmed_in_auto = off.unarmed_in_auto
      BY <2>2, <3>1, ArmingSet
    <3>3. TurnedOff(s, r)
      BY <2>2, <2>3, <2>5, <3>2 DEF TurnedOff, AfterStop
    <3> QED
      BY <2>2, <3>2, <3>3 DEF Switched, r
  <2>6. CASE s.arming = "MOTORS_ON" /\ scheme = "switch"
    <3>1. r = StopsRememberingAuto(off)
      BY <2>1, <2>2, <2>6 DEF autopilot_arming_set
    <3>2. /\ r \in Record /\ r.arming = "STARTABLE" /\ r.motors_on = off.motors_on
          /\ r.mode = off.mode /\ r.counter = off.counter
          /\ r.unarmed_in_auto <=> off.mode = "AUTO"
      BY <2>2, <2>6, <3>1, AutoSet
    <3>3. TurnedOff(s, r)
      BY <2>2, <2>3, <2>6, <3>2 DEF TurnedOff, AfterStop
    <3> QED
      BY <2>2, <3>2, <3>3 DEF Switched, r
  <2> QED
    BY <2>4, <2>5, <2>6
<1> QED
  BY <1>1, <1>2, <1>3

LEMMA SetModeTo ==
  ASSUME SchemeOK, NEW s \in Record, Kill(s), NEW mode \in Modes
  PROVE  /\ Switched(s, autopilot_set_mode(s, mode))
         /\ autopilot_set_mode(s, mode).mode = mode
         /\ Kill(autopilot_set_mode(s, mode))
         /\ ~TurnedOn(s, autopilot_set_mode(s, mode)) \/ SameState(s, autopilot_set_mode(s, mode))
<1> DEFINE r == autopilot_set_mode(s, mode)
           t == autopilot_set_motors_on(s, FALSE, TRUE)
<1>1. /\ Switched(s, t) /\ ~t.motors_on /\ t \in Record
  BY SetMotorsOn DEF Switched
<1>2. ASSUME NEW u \in Record
      PROVE  /\ [u EXCEPT !.mode = mode] \in Record /\ [u EXCEPT !.mode = mode].mode = mode
             /\ SameState(u, [u EXCEPT !.mode = mode])
             /\ [u EXCEPT !.mode = mode].counter = u.counter
  BY DEF Record, SameState
<1>3. CASE mode = "KILL" /\ s.mode # "KILL"
  <2>1. r = [t EXCEPT !.mode = mode]
    BY <1>3 DEF autopilot_set_mode
  <2> HIDE DEF r, t
  <2>2. r \in Record /\ r.mode = mode /\ SameState(t, r) /\ r.counter = t.counter
    BY <1>1, <1>2, <2>1
  <2>3. Switched(s, r) /\ ~r.motors_on
    BY <1>1, <2>2 DEF Switched, SameState, TurnedOn, TurnedOff
  <2> QED
    BY <2>2, <2>3 DEF r, Kill, TurnedOn
<1>4. CASE ~(mode = "KILL" /\ s.mode # "KILL")
  <2>1. r = [s EXCEPT !.mode = mode]
    BY <1>4 DEF autopilot_set_mode
  <2> HIDE DEF r
  <2>2. r \in Record /\ r.mode = mode /\ SameState(s, r) /\ r.counter = s.counter
    BY <1>2, <2>1
  <2>3. Kill(r)
    BY <1>4, <2>2 DEF Kill, SameState
  <2> QED
    BY <2>2, <2>3 DEF r, Switched
<1> QED
  BY <1>3, <1>4

-----------------------------------------------------------------------------
(* Between two frames.                                                     *)
LEMMA SwitchedGood ==
  ASSUME SchemeOK, NEW s \in Record, NEW r, NEW c \in BOOLEAN, Good(s, c), Switched(s, r),
         Kill(r), NEW d \in BOOLEAN,
         d <=> (c \/ (s.motors_on /\ ~r.motors_on /\ r.arming = "UNARMING"))
  PROVE  Good(r, d)
<1> USE DEF SchemeOK
<1>1. r \in Record
  BY DEF Switched
<1>2. CounterOK(r)
  BY DEF Switched, SameState, TurnedOn, TurnedOff, AfterStop, Good, CounterOK
<1>3. InStepOf(r, d)
  <2>1. CASE SameState(s, r)
    BY <2>1 DEF SameState, Good, InStepOf
  <2>2. CASE TurnedOn(s, r)
    BY <2>2 DEF TurnedOn, Good, InStepOf
  <2>3. CASE TurnedOff(s, r)
    BY <2>3 DEF TurnedOff, AfterStop, Good, Kill, InStepOf
  <2> QED
    BY <2>1, <2>2, <2>3 DEF Switched
<1> QED
  BY <1>1, <1>2, <1>3 DEF Good

(* Starting the motors or leaving the two states ends the exemption.       *)
LEMMA ExemptionEnds ==
  ASSUME SchemeOK, NEW r, NEW d \in BOOLEAN, NEW c \in BOOLEAN, Good(r, d),
         d /\ ~r.motors_on /\ r.arming \in {"UNARMING", "MOTORS_ON"} => c
  PROVE  Good(r, c)
<1>1. InStepOf(r, c)
  BY DEF SchemeOK, Good, InStepOf
<1> QED
  BY <1>1 DEF Good

LEMMA OutsideIInv ==
  ASSUME IInv, Switched(autopilot, autopilot'), Kill(autopilot'), FromOutside
  PROVE  IInv'
<1> USE DEF SchemeOK
<1>1. /\ SchemeOK' /\ autopilot \in Record /\ autopilot' \in Record
      /\ UNCHANGED <<scheme, lowered, valid>>
  BY DEF IInv, Good, Switched, FromOutside
<1>2. HistoryTyped'
  BY <1>1 DEF IInv, HistoryTyped, FromOutside, CutIs, Stopped, Record
<1>3. Good(autopilot', cut')
  <2>1. PICK d \in BOOLEAN : d <=> (cut \/ (autopilot.motors_on /\ ~autopilot'.motors_on
                                            /\ autopilot'.arming = "UNARMING"))
    OBVIOUS
  <2>2. cut \in BOOLEAN /\ cut' \in BOOLEAN /\ SchemeOK /\ Good(autopilot, cut)
    BY <1>2 DEF IInv, HistoryTyped
  <2>3. Good(autopilot', d)
    BY <1>1, <2>1, <2>2, SwitchedGood
  <2>4. d /\ ~autopilot'.motors_on /\ autopilot'.arming \in {"UNARMING", "MOTORS_ON"} => cut'
    BY <2>1 DEF FromOutside, CutIs, Stopped
  <2> QED
    BY <2>2, <2>3, <2>4, ExemptionEnds
<1>4. Good(autopilot, cut)'
  BY <1>1, <1>3 DEF Good, Record, Kill, CounterOK, InStepOf
<1>5. ThrottleHistory(autopilot)'
  BY <1>1 DEF IInv, ThrottleHistory, Switched, SameState, TurnedOn, TurnedOff, AfterStop
<1>6. SwitchHistory(autopilot)'
  <2>1. CASE SameState(autopilot, autopilot')
    BY <1>1, <2>1 DEF IInv, SwitchHistory, SameState, FromOutside, Stopped, Good, Record
  <2>2. CASE TurnedOn(autopilot, autopilot')
    BY <1>1, <2>2 DEF IInv, SwitchHistory, TurnedOn, FromOutside, Stopped, Good, Record
  <2>3. CASE TurnedOff(autopilot, autopilot')
    BY <1>1, <2>3 DEF IInv, SwitchHistory, TurnedOff, AfterStop, FromOutside, Stopped, Good,
                      InStepOf, Record
  <2> QED
    BY <2>1, <2>2, <2>3 DEF Switched
<1> QED
  BY <1>1, <1>2, <1>4, <1>5, <1>6 DEF IInv

-----------------------------------------------------------------------------
(* A frame with the throttle scheme, after its mode change.                *)

ThrottleAdvance(s, f) ==
  /\ autopilot'.arming \in {"MOTORS_OFF_READY", "ARMING"}
       => \/ f.throttle = "down"
          \/ s.arming \in {"MOTORS_OFF_READY", "ARMING"} /\ ~autopilot'.motors_on
  /\ autopilot'.arming = "ARMING"
       => /\ ArmingValid(s, f)
          /\ \/ autopilot'.counter = 0
             \/ s.arming = "ARMING" /\ autopilot'.counter = s.counter + 1

ThrottleStart(s, f) ==
  s.arming = "ARMING" /\ ArmingValid(s, f) /\ s.counter + 1 >= ArmingDelay

LEMMA WaitsGood ==
  ASSUME scheme = "throttle", NEW c \in BOOLEAN, NEW s \in Record, Good(s, c),
         s.mode # "KILL", NEW f \in Frame, ThrottleWaits(s, f)
  PROVE  /\ Good(autopilot', c) /\ autopilot'.mode = s.mode
         /\ ~autopilot'.motors_on
         /\ ThrottleAdvance(s, f)
<1> DEFINE o == Off(s)
<1>1. /\ o \in Record /\ ~o.motors_on /\ o.counter = 0 /\ o.mode = s.mode
      /\ o.arming = s.arming
  <2> DEFINE m == Motors(s, FALSE, TRUE)
  <2>1. m \in Record /\ ~m.motors_on /\ m.mode = s.mode /\ m.arming = s.arming
    BY MotorsSet
  <2>2. o = Counts(m, 0)
    BY DEF Off
  <2> HIDE DEF m, o
  <2> QED
    BY <2>1, <2>2, CounterSet
<1>2. ASSUME NEW a \in {"WAITING", "MOTORS_OFF_READY", "ARMING"},
             autopilot' = [o EXCEPT !.arming = a]
      PROVE  /\ autopilot' \in Record /\ ~autopilot'.motors_on /\ autopilot'.counter = 0
             /\ autopilot'.mode = s.mode /\ autopilot'.arming = a
  BY <1>1, <1>2, States, ArmingSet
<1> HIDE DEF o
<1>3. ASSUME NEW a \in {"WAITING", "MOTORS_OFF_READY", "ARMING"},
             /\ autopilot' \in Record /\ ~autopilot'.motors_on /\ autopilot'.counter = 0
             /\ autopilot'.mode = s.mode /\ autopilot'.arming = a,
             a = "MOTORS_OFF_READY" => f.throttle = "down" \/ s.arming = "MOTORS_OFF_READY",
             a = "ARMING" => s.arming = "MOTORS_OFF_READY" /\ ArmingValid(s, f)
      PROVE  /\ Good(autopilot', c) /\ autopilot'.mode = s.mode
             /\ ~autopilot'.motors_on
             /\ ThrottleAdvance(s, f)
  <2>1. CounterOK(autopilot') /\ Kill(autopilot')
    BY <1>3, DelayIsPositive DEF CounterOK, Kill
  <2>2. InStepOf(autopilot', c)
    BY <1>3 DEF InStepOf
  <2> QED
    BY <1>3, <2>1, <2>2 DEF Good, ThrottleAdvance
<1>4. CASE s.arming = "UNINIT"
  <2>1. autopilot' = [o EXCEPT !.arming = "WAITING"]
    BY <1>4 DEF ThrottleWaits, Goes, o
  <2> QED
    BY <1>2, <1>3, <2>1
<1>5. CASE s.arming = "WAITING"
  <2>1. \/ f.throttle = "down" /\ autopilot' = [o EXCEPT !.arming = "MOTORS_OFF_READY"]
        \/ autopilot' = o
    BY <1>5 DEF ThrottleWaits, Goes, o
  <2> QED
    BY <1>1, <1>2, <1>3, <1>5, <2>1
<1>6. CASE s.arming = "MOTORS_OFF_READY"
  <2>1. \/ ArmingValid(s, f) /\ autopilot' = [o EXCEPT !.arming = "ARMING"]
        \/ autopilot' = o
    BY <1>6 DEF ThrottleWaits, Goes, o
  <2> QED
    BY <1>1, <1>2, <1>3, <1>6, <2>1
<1> QED
  BY <1>4, <1>5, <1>6 DEF ThrottleWaits

LEMMA ArmsGood ==
  ASSUME scheme = "throttle", NEW c \in BOOLEAN, NEW s \in Record, Good(s, c),
         s.mode # "KILL", NEW f \in Frame, NEW p \in BOOLEAN, ThrottleArms(s, f, p)
  PROVE  /\ Good(autopilot', c) /\ autopilot'.mode = s.mode
         /\ autopilot'.motors_on => ThrottleStart(s, f)
         /\ ThrottleAdvance(s, f)
<1> DEFINE m == Motors(s, FALSE, TRUE)
           n == s.counter + 1
           u == Counts(m, n)
           started == Motors(u, TRUE, p)
<1>1. s.arming = "ARMING" /\ n \in 1..ArmingDelay /\ s.counter \in Int
  BY DelayIsPositive DEF ThrottleArms, Good, CounterOK
<1>2. m \in Record /\ ~m.motors_on /\ m.mode = s.mode /\ m.arming = s.arming
  BY MotorsSet
<1>3. \/ ~ArmingValid(s, f) /\ autopilot' = [u EXCEPT !.arming = "MOTORS_OFF_READY"]
      \/ ArmingValid(s, f) /\ n < ArmingDelay /\ autopilot' = u
      \/ /\ ArmingValid(s, f) /\ n >= ArmingDelay
         /\ autopilot' = [started EXCEPT !.arming =
                             IF started.motors_on THEN "MOTORS_ON" ELSE "MOTORS_OFF_READY"]
  BY DEF ThrottleArms, Goes
<1> HIDE DEF m
<1>4. u \in Record /\ u.counter = n /\ u.mode = s.mode /\ ~u.motors_on /\ u.arming = "ARMING"
  <2>1. n \in Int
    BY <1>1
  <2> HIDE DEF n
  <2>2. /\ u \in Record /\ u.counter = n /\ u.mode = m.mode /\ u.arming = m.arming
        /\ u.motors_on = m.motors_on
    BY <1>2, <2>1, CounterSet
  <2> QED
    BY <1>1, <1>2, <2>2
<1> HIDE DEF u
<1>5. started \in Record /\ started.counter = n /\ started.mode = s.mode
  BY <1>4, MotorsSet
<1> HIDE DEF started, n
<1>6. CASE ~ArmingValid(s, f) /\ autopilot' = [u EXCEPT !.arming = "MOTORS_OFF_READY"]
  <2>1. /\ autopilot' \in Record /\ autopilot'.arming = "MOTORS_OFF_READY"
        /\ ~autopilot'.motors_on /\ autopilot'.counter = n /\ autopilot'.mode = s.mode
    BY <1>4, <1>6, States, ArmingSet
  <2>2. CounterOK(autopilot') /\ Kill(autopilot') /\ InStepOf(autopilot', c)
    BY <1>1, <2>1 DEF CounterOK, Kill, InStepOf
  <2> QED
    BY <1>1, <2>1, <2>2 DEF Good, ThrottleAdvance
<1>7. CASE ArmingValid(s, f) /\ n < ArmingDelay /\ autopilot' = u
  <2>1. CounterOK(autopilot') /\ Kill(autopilot') /\ InStepOf(autopilot', c)
    BY <1>1, <1>4, <1>7 DEF CounterOK, Kill, InStepOf
  <2> QED
    BY <1>1, <1>4, <1>7, <2>1 DEF Good, ThrottleAdvance, n
<1>8. CASE /\ ArmingValid(s, f) /\ n >= ArmingDelay
           /\ autopilot' = [started EXCEPT !.arming =
                               IF started.motors_on THEN "MOTORS_ON" ELSE "MOTORS_OFF_READY"]
  <2> DEFINE a == IF started.motors_on THEN "MOTORS_ON" ELSE "MOTORS_OFF_READY"
  <2>1. /\ a \in {"MOTORS_ON", "MOTORS_OFF_READY"} /\ a \in ArmingStates[scheme]
        /\ started.motors_on <=> a = "MOTORS_ON"
        /\ autopilot' = [started EXCEPT !.arming = a]
    BY <1>8, States
  <2> HIDE DEF a
  <2>2. /\ autopilot' \in Record /\ autopilot'.arming = a
        /\ autopilot'.motors_on = started.motors_on
        /\ autopilot'.counter = n /\ autopilot'.mode = s.mode
    BY <1>5, <2>1, ArmingSet
  <2>3. autopilot'.motors_on <=> a = "MOTORS_ON"
    BY <2>1, <2>2
  <2>4. CounterOK(autopilot') /\ Kill(autopilot') /\ InStepOf(autopilot', c)
    BY <1>1, <2>1, <2>2, <2>3 DEF CounterOK, Kill, InStepOf
  <2>5. ThrottleStart(s, f)
    BY <1>1, <1>8 DEF ThrottleStart, n
  <2>6. ThrottleAdvance(s, f)
    BY <1>1, <2>1, <2>2, <2>3 DEF ThrottleAdvance
  <2> QED
    BY <2>2, <2>4, <2>5, <2>6 DEF Good
<1> QED
  BY <1>3, <1>6, <1>7, <1>8

LEMMA UnarmsGood ==
  ASSUME scheme = "throttle", NEW c \in BOOLEAN, NEW s \in Record, Good(s, c),
         s.mode # "KILL", NEW f \in Frame, NEW p \in BOOLEAN, ThrottleUnarms(s, f, p)
  PROVE  /\ Good(autopilot', c) /\ autopilot'.mode = s.mode
         /\ s.arming \in {"MOTORS_ON", "UNARMING"}
         /\ ThrottleAdvance(s, f)
<1> DEFINE m == Motors(s, TRUE, p)
<1>1. /\ m \in Record /\ m.mode = s.mode /\ m.arming = s.arming
      /\ s.motors_on => m.motors_on
  BY MotorsSet
<1>2. s.counter \in 0..ArmingDelay /\ (s.arming = "UNARMING" => s.counter >= 1)
  BY DEF Good, CounterOK
<1>3. s.arming \in {"MOTORS_ON", "UNARMING"} /\ (~c => s.motors_on)
  BY DEF ThrottleUnarms, Good, InStepOf
<1> HIDE DEF m
<1>4. ASSUME NEW a \in {"MOTORS_ON", "UNARMING", "MOTORS_OFF_READY"},
             /\ autopilot' \in Record /\ autopilot'.motors_on = m.motors_on
             /\ autopilot'.mode = s.mode /\ autopilot'.arming = a,
             autopilot'.counter \in 0..ArmingDelay,
             a = "UNARMING" => autopilot'.counter >= 1,
             a = "MOTORS_OFF_READY" => f.throttle = "down"
      PROVE  /\ Good(autopilot', c) /\ autopilot'.mode = s.mode
             /\ ThrottleAdvance(s, f)
  <2>1. CounterOK(autopilot') /\ Kill(autopilot')
    BY <1>4 DEF CounterOK, Kill
  <2>2. InStepOf(autopilot', c)
    BY <1>1, <1>3, <1>4 DEF InStepOf
  <2> QED
    BY <1>3, <1>4, <2>1, <2>2 DEF Good, ThrottleAdvance
<1>5. CASE s.arming = "MOTORS_ON"
  <2> DEFINE u == Counts(m, ArmingDelay)
  <2>1. autopilot' = u \/ autopilot' = [u EXCEPT !.arming = "UNARMING"]
    BY <1>5 DEF ThrottleUnarms, Goes, m
  <2>2. /\ u \in Record /\ u.counter = ArmingDelay /\ u.mode = s.mode
        /\ u.arming = "MOTORS_ON" /\ u.motors_on = m.motors_on
    BY <1>1, <1>5, DelayIsPositive, CounterSet
  <2> HIDE DEF u
  <2>3. CASE autopilot' = u
    BY <1>3, <1>4, <2>2, <2>3, DelayIsPositive
  <2>4. CASE autopilot' = [u EXCEPT !.arming = "UNARMING"]
    <3>1. /\ autopilot' \in Record /\ autopilot'.arming = "UNARMING"
          /\ autopilot'.motors_on = u.motors_on /\ autopilot'.counter = u.counter
          /\ autopilot'.mode = u.mode
      BY <2>2, <2>4, States, ArmingSet
    <3> QED
      BY <1>3, <1>4, <2>2, <3>1, DelayIsPositive
  <2> QED
    BY <1>3, <2>1, <2>3, <2>4
<1>6. CASE s.arming = "UNARMING"
  <2> DEFINE n == s.counter - 1
             u == Counts(m, n)
  <2>1. \/ autopilot' = [u EXCEPT !.arming = "MOTORS_ON"]
        \/ n # 0 /\ autopilot' = u
        \/ /\ f.throttle = "down"
           /\ autopilot' = [u EXCEPT !.arming = "MOTORS_OFF_READY",
                                     !.unarmed_in_auto = (s.mode # "MANUAL")]
    BY <1>6 DEF ThrottleUnarms, Goes, m
  <2>2. n \in Int /\ n \in 0..ArmingDelay /\ (n # 0 => n >= 1)
    BY <1>2, <1>6, DelayIsPositive
  <2>3. /\ u \in Record /\ u.counter = n /\ u.mode = s.mode
        /\ u.arming = "UNARMING" /\ u.motors_on = m.motors_on
    BY <1>1, <1>6, <2>2, CounterSet
  <2> HIDE DEF n, u
  <2>4. CASE n # 0 /\ autopilot' = u
    BY <1>3, <1>4, <2>2, <2>3, <2>4
  <2>5. CASE autopilot' = [u EXCEPT !.arming = "MOTORS_ON"]
    <3>1. /\ autopilot' \in Record /\ autopilot'.arming = "MOTORS_ON"
          /\ autopilot'.motors_on = u.motors_on /\ autopilot'.counter = u.counter
          /\ autopilot'.mode = u.mode
      BY <2>3, <2>5, States, ArmingSet
    <3> QED
      BY <1>3, <1>4, <2>2, <2>3, <3>1
  <2>6. CASE /\ f.throttle = "down"
             /\ autopilot' = [u EXCEPT !.arming = "MOTORS_OFF_READY",
                                       !.unarmed_in_auto = (s.mode # "MANUAL")]
    <3> DEFINE auto == s.mode # "MANUAL"
               r == [u EXCEPT !.unarmed_in_auto = auto]
    <3>1. /\ r \in Record /\ r.counter = n /\ r.mode = s.mode /\ r.motors_on = m.motors_on
          /\ autopilot' = [r EXCEPT !.arming = "MOTORS_OFF_READY"]
      <4>1. auto \in BOOLEAN /\ autopilot' = [r EXCEPT !.arming = "MOTORS_OFF_READY"]
        BY <2>3, <2>6 DEF Record
      <4> HIDE DEF auto
      <4>2. /\ r \in Record /\ r.counter = u.counter /\ r.mode = u.mode
            /\ r.motors_on = u.motors_on
        BY <2>3, <4>1 DEF Record
      <4> QED
        BY <2>3, <4>1, <4>2
    <3> HIDE DEF r
    <3>2. /\ autopilot' \in Record /\ autopilot'.arming = "MOTORS_OFF_READY"
          /\ autopilot'.motors_on = r.motors_on /\ autopilot'.counter = r.counter
          /\ autopilot'.mode = r.mode
      BY <3>1, States, ArmingSet
    <3> QED
      BY <1>3, <1>4, <2>2, <2>6, <3>1, <3>2
  <2> QED
    BY <1>3, <2>1, <2>4, <2>5, <2>6
<1> QED
  BY <1>3, <1>5, <1>6

LEMMA ThrottleGood ==
  ASSUME scheme = "throttle", NEW c \in BOOLEAN, NEW s \in Record, Good(s, c),
         NEW f \in Frame, NEW p \in BOOLEAN, ThrottleCheck(s, f, p)
  PROVE  /\ Good(autopilot', c) /\ autopilot'.mode = s.mode
         /\ s.mode = "KILL" => autopilot' = s
         /\ s.mode # "KILL" => ThrottleAdvance(s, f)
         /\ ~c /\ ~s.motors_on /\ autopilot'.motors_on => s.mode # "KILL" /\ ThrottleStart(s, f)
<1>1. CASE s.mode = "KILL"
  BY <1>1 DEF ThrottleCheck
<1>2. CASE s.mode # "KILL" /\ ThrottleWaits(s, f)
  BY <1>2, WaitsGood
<1>3. CASE s.mode # "KILL" /\ ThrottleArms(s, f, p)
  BY <1>3, ArmsGood
<1>4. CASE s.mode # "KILL" /\ ThrottleUnarms(s, f, p)
  <2>1. ~c => s.motors_on
    BY <1>4, UnarmsGood DEF Good, InStepOf
  <2> QED
    BY <1>4, <2>1, UnarmsGood
<1> QED
  BY <1>1, <1>2, <1>3, <1>4 DEF ThrottleCheck

-----------------------------------------------------------------------------
(* A frame with the switch scheme, after its mode change.                  *)

SwitchStart(s) ==
  s.arming = "STARTABLE" /\ s.mode # "KILL" /\ (s.mode = "MANUAL" \/ s.unarmed_in_auto)

SwitchAdvance(s, f) ==
  /\ autopilot'.arming \in {"STARTABLE", "MOTORS_ON"}
       => s.arming \in {"STARTABLE", "MOTORS_ON"} \/ f.switch = "KILL"
  /\ autopilot'.unarmed_in_auto = s.unarmed_in_auto
  /\ autopilot'.motors_on => s.motors_on \/ SwitchStart(s)
  /\ s.motors_on => autopilot'.motors_on

LEMMA SwitchGood ==
  ASSUME scheme = "switch", NEW c \in BOOLEAN, NEW s \in Record, Good(s, c),
         NEW f \in Frame, f.switch = "KILL" => s.mode = "KILL",
         NEW p \in BOOLEAN, SwitchCheck(s, f, p)
  PROVE  /\ Good(autopilot', c) /\ autopilot'.mode = s.mode
         /\ SwitchAdvance(s, f)
<1> DEFINE m == Motors(s, FALSE, TRUE)
<1>1. /\ m \in Record /\ m.mode = s.mode /\ m.arming = s.arming /\ m.counter = s.counter
      /\ m.unarmed_in_auto = s.unarmed_in_auto
  BY MotorsSet
<1>2. ~m.motors_on
  BY MotorsSet
<1>3. /\ s.arming \in {"UNINIT", "WAITING", "STARTABLE", "MOTORS_ON"}
      /\ s.counter \in 0..ArmingDelay
      /\ s.motors_on <=> s.arming = "MOTORS_ON"
  BY States DEF Good, CounterOK, InStepOf, Record
<1> HIDE DEF m
<1>4. ASSUME NEW a \in {"UNINIT", "WAITING", "STARTABLE", "MOTORS_ON"},
             /\ autopilot' \in Record /\ autopilot'.mode = s.mode
             /\ autopilot'.counter = s.counter /\ autopilot'.arming = a,
             autopilot'.motors_on <=> a = "MOTORS_ON",
             a = "MOTORS_ON" => s.mode # "KILL"
      PROVE  Good(autopilot', c)
  <2>1. CounterOK(autopilot') /\ Kill(autopilot')
    BY <1>3, <1>4 DEF CounterOK, Kill
  <2>2. InStepOf(autopilot', c)
    BY <1>4 DEF InStepOf
  <2> QED
    BY <1>4, <2>1, <2>2 DEF Good
<1>5. ASSUME NEW r \in Record, NEW a \in ArmingStates[scheme],
             autopilot' = [r EXCEPT !.arming = a]
      PROVE  /\ autopilot' \in Record /\ autopilot'.arming = a
             /\ autopilot'.mode = r.mode /\ autopilot'.motors_on = r.motors_on
             /\ autopilot'.counter = r.counter
             /\ autopilot'.unarmed_in_auto = r.unarmed_in_auto
  BY <1>5, ArmingSet
<1>6. CASE SwitchWaits(s, f)
  <2>1. s.arming \in {"UNINIT", "WAITING"}
    BY <1>6 DEF SwitchWaits
  <2>2. CASE autopilot' = m
    <3>1. Good(autopilot', c)
      BY <1>1, <1>2, <1>4, <2>1, <2>2
    <3> QED
      BY <1>1, <1>2, <1>3, <2>1, <2>2, <3>1 DEF SwitchAdvance
  <2>3. ASSUME NEW a \in {"WAITING", "STARTABLE"}, autopilot' = [m EXCEPT !.arming = a],
               a = "STARTABLE" => f.switch = "KILL"
        PROVE  Good(autopilot', c) /\ autopilot'.mode = s.mode /\ SwitchAdvance(s, f)
    <3>1. /\ autopilot' \in Record /\ autopilot'.arming = a
          /\ autopilot'.mode = m.mode /\ autopilot'.motors_on = m.motors_on
          /\ autopilot'.counter = m.counter
          /\ autopilot'.unarmed_in_auto = m.unarmed_in_auto
      BY <1>1, <1>5, <2>3, States
    <3>2. ~autopilot'.motors_on
      BY <1>2, <3>1
    <3>3. Good(autopilot', c)
      BY <1>1, <1>4, <3>1, <3>2
    <3> QED
      BY <1>1, <1>3, <2>1, <2>3, <3>1, <3>2, <3>3 DEF SwitchAdvance
  <2>4. \/ autopilot' = m
        \/ \E a \in {"WAITING", "STARTABLE"} :
             autopilot' = [m EXCEPT !.arming = a] /\ (a = "STARTABLE" => f.switch = "KILL")
    BY <1>6 DEF SwitchWaits, Goes, m
  <2> QED
    BY <1>1, <2>2, <2>3, <2>4
<1>7. CASE SwitchStarts(s, f, p)
  <2> DEFINE started == Motors(m, TRUE, p)
  <2>1. s.arming = "STARTABLE"
    BY <1>7 DEF SwitchStarts
  <2>2. /\ started \in Record /\ started.mode = s.mode /\ started.arming = "STARTABLE"
        /\ started.counter = s.counter /\ started.unarmed_in_auto = s.unarmed_in_auto
    BY <1>1, <2>1, MotorsSet
  <2>3. \/ autopilot' = m
        \/ /\ SwitchStart(s)
           /\ autopilot' = IF started.motors_on THEN [started EXCEPT !.arming = "MOTORS_ON"]
                           ELSE started
    BY <1>7 DEF SwitchStarts, SwitchStart, Goes, m
  <2> HIDE DEF started
  <2>4. CASE autopilot' = m
    <3>1. Good(autopilot', c)
      BY <1>1, <1>2, <1>4, <2>1, <2>4
    <3> QED
      BY <1>1, <1>2, <1>3, <2>1, <2>4, <3>1 DEF SwitchAdvance
  <2>5. CASE SwitchStart(s) /\ ~started.motors_on /\ autopilot' = started
    <3>1. Good(autopilot', c)
      BY <1>4, <2>2, <2>5
    <3> QED
      BY <1>3, <2>1, <2>2, <2>5, <3>1 DEF SwitchAdvance
  <2>6. CASE /\ SwitchStart(s) /\ started.motors_on
             /\ autopilot' = [started EXCEPT !.arming = "MOTORS_ON"]
    <3>1. /\ autopilot' \in Record /\ autopilot'.arming = "MOTORS_ON"
          /\ autopilot'.mode = started.mode /\ autopilot'.motors_on = started.motors_on
          /\ autopilot'.counter = started.counter
          /\ autopilot'.unarmed_in_auto = started.unarmed_in_auto
      BY <1>5, <2>2, <2>6, States
    <3>2. autopilot'.motors_on
      BY <2>6, <3>1
    <3>3. s.mode # "KILL"
      BY <2>6 DEF SwitchStart
    <3>4. Good(autopilot', c)
      BY <1>4, <2>2, <3>1, <3>2, <3>3
    <3> QED
      BY <2>1, <2>2, <2>6, <3>1, <3>2, <3>4 DEF SwitchAdvance
  <2> QED
    BY <2>3, <2>4, <2>5, <2>6
<1>8. CASE SwitchStops(s, f, p)
  <2>1. s.arming = "MOTORS_ON" /\ s.motors_on /\ s.mode # "KILL"
    BY <1>3, <1>8 DEF SwitchStops, Good, Kill
  <2>2. autopilot' = Motors(s, TRUE, p)
    BY <1>8, <2>1 DEF SwitchStops
  <2>3. autopilot' = s
    <3>1. s.motors_on = TRUE
      BY <2>1 DEF Record
    <3> QED
      BY <2>2, <3>1 DEF Motors, Refused
  <2> QED
    BY <2>1, <2>3 DEF SwitchAdvance
<1> QED
  BY <1>6, <1>7, <1>8 DEF SwitchCheck

-----------------------------------------------------------------------------
(* A frame: the mode change, then the scheme.                              *)

LEMMA FrameMode ==
  ASSUME IInv, NEW f \in Frame, NEW s \in ModeOfFrame(autopilot, f)
  PROVE  /\ Switched(autopilot, s) /\ Kill(s)
         /\ SameState(autopilot, s) \/ TurnedOff(autopilot, s)
         /\ f.switch = "KILL" => s.mode = "KILL"
         /\ TurnedOff(autopilot, s) /\ ~SameState(autopilot, s) => s.mode = "KILL"
<1>1. autopilot \in Record /\ Kill(autopilot) /\ SchemeOK
  BY DEF IInv, Good
<1>2. f.switch \in Modes
  BY DEF Frame, Modes
<1>3. CASE s = autopilot /\ f.switch = "AUTO"
  BY <1>1, <1>3 DEF Switched, SameState
<1>4. CASE s = autopilot_set_mode(autopilot, f.switch)
  <2>1. /\ Switched(autopilot, s) /\ s.mode = f.switch /\ Kill(s)
        /\ ~TurnedOn(autopilot, s) \/ SameState(autopilot, s)
    BY <1>1, <1>2, <1>4, SetModeTo
  <2>2. ASSUME s.mode # "KILL" PROVE SameState(autopilot, s)
    <3>1. s = [autopilot EXCEPT !.mode = f.switch]
      BY <1>4, <2>1, <2>2 DEF autopilot_set_mode
    <3> QED
      BY <1>1, <3>1 DEF Record, SameState
  <2> QED
    BY <2>1, <2>2 DEF Switched
<1> QED
  BY <1>3, <1>4 DEF ModeOfFrame

(* What the properties say of a frame that starts the motors.              *)
StartOK ==
  ~autopilot.motors_on /\ autopilot'.motors_on
    => /\ scheme = "throttle" /\ ~cut => lowered /\ valid' = ArmingDelay + 1
       /\ scheme = "switch" => enabled /\ (autopilot'.mode = "MANUAL" \/ stopped_in = "AUTO")

LEMMA FrameIInv ==
  ASSUME IInv, NEW f \in Frame, RcFrame(f)
  PROVE  IInv' /\ StartOK
<1> USE DEF SchemeOK
<1>1. PICK s \in ModeOfFrame(autopilot, f), p \in BOOLEAN :
        /\ IF scheme = "throttle" THEN ThrottleCheck(s, f, p) ELSE SwitchCheck(s, f, p)
        /\ valid' = IF s.mode = "KILL" THEN valid
                    ELSE IF ~ArmingValid(s, f) THEN 0
                    ELSE IF valid <= ArmingDelay THEN valid + 1 ELSE valid
  BY DEF RcFrame
<1>2. /\ lowered' = IF autopilot'.mode = "KILL" THEN lowered
                    ELSE f.throttle = "down" \/ (lowered /\ ~autopilot'.motors_on)
      /\ enabled' = (enabled \/ autopilot'.motors_on \/ f.switch = "KILL")
      /\ stopped_in' = IF Stopped THEN autopilot.mode ELSE stopped_in
      /\ CutIs
      /\ UNCHANGED scheme
  BY DEF RcFrame
<1>3. /\ Switched(autopilot, s) /\ Kill(s)
      /\ SameState(autopilot, s) \/ TurnedOff(autopilot, s)
      /\ f.switch = "KILL" => s.mode = "KILL"
      /\ TurnedOff(autopilot, s) /\ ~SameState(autopilot, s) => s.mode = "KILL"
  BY FrameMode
<1>4. /\ SchemeOK /\ SchemeOK' /\ HistoryTyped /\ Good(autopilot, cut)
      /\ ThrottleHistory(autopilot) /\ SwitchHistory(autopilot)
      /\ autopilot \in Record /\ s \in Record
  BY <1>2, <1>3 DEF IInv, Good, Switched
<1>5. HistoryTyped'
  <2>1. valid \in 0..ArmingDelay + 1
    BY <1>4 DEF HistoryTyped
  <2>2. valid' \in 0..ArmingDelay + 1
    BY <1>1, <2>1, DelayIsPositive
  <2>3. stopped_in' \in Modes
    BY <1>2, <1>4 DEF HistoryTyped, Record
  <2>4. lowered' \in BOOLEAN
    BY <1>2, <1>4 DEF HistoryTyped
  <2>5. enabled' \in BOOLEAN
    BY <1>2, <1>4 DEF HistoryTyped
  <2>6. cut' \in BOOLEAN
    BY <1>2, <1>4 DEF HistoryTyped, CutIs
  <2> QED
    BY <2>2, <2>3, <2>4, <2>5, <2>6 DEF HistoryTyped
<1>6. PICK d \in BOOLEAN :
        d <=> (cut \/ (autopilot.motors_on /\ ~s.motors_on /\ s.arming = "UNARMING"))
  OBVIOUS
<1>9. Good(s, d)
  BY <1>3, <1>4, <1>6, SwitchedGood DEF HistoryTyped
<1>10. cut' \in BOOLEAN
  BY <1>5 DEF HistoryTyped
<1>7. CASE scheme = "throttle"
  <2>1. /\ Good(autopilot', d) /\ autopilot'.mode = s.mode
        /\ s.mode = "KILL" => autopilot' = s
        /\ s.mode # "KILL" => ThrottleAdvance(s, f)
        /\ ~d /\ ~s.motors_on /\ autopilot'.motors_on
             => s.mode # "KILL" /\ ThrottleStart(s, f)
    BY <1>1, <1>4, <1>7, <1>9, ThrottleGood
  <2>6. d /\ ~autopilot'.motors_on /\ autopilot'.arming \in {"UNARMING", "MOTORS_ON"} => cut'
    <3>1. CASE cut
      BY <1>2, <3>1 DEF CutIs
    <3>2. CASE autopilot.motors_on /\ ~s.motors_on /\ s.arming = "UNARMING"
      <4>1. autopilot' = s
        BY <1>3, <2>1, <3>2 DEF SameState
      <4> QED
        BY <1>2, <3>2, <4>1 DEF CutIs, Stopped
    <3> QED
      BY <1>6, <3>1, <3>2
  <2>7. Good(autopilot', cut')
    BY <1>4, <1>10, <2>1, <2>6, ExemptionEnds
  <2>2. ThrottleHistory(s)
    <3>1. s.counter = autopilot.counter
      BY <1>3 DEF Switched
    <3>2. CASE SameState(autopilot, s)
      BY <1>4, <3>1, <3>2 DEF ThrottleHistory, SameState
    <3>3. CASE TurnedOff(autopilot, s)
      <4>1. s.arming # autopilot.arming => s.arming = "WAITING"
        BY <1>7, <3>3 DEF TurnedOff, AfterStop
      <4> QED
        BY <1>4, <3>1, <4>1 DEF ThrottleHistory
    <3> QED
      BY <1>3, <3>2, <3>3
  <2>3. ThrottleHistory(autopilot)'
    <3>1. CASE s.mode = "KILL"
      BY <1>1, <1>2, <1>7, <2>1, <2>2, <3>1 DEF ThrottleHistory
    <3>2. CASE s.mode # "KILL"
      <4>1. autopilot'.arming \in {"MOTORS_OFF_READY", "ARMING"} => lowered'
        BY <1>2, <1>7, <2>1, <2>2, <3>2 DEF ThrottleHistory, ThrottleAdvance
      <4>2. autopilot'.arming = "ARMING" => autopilot'.counter + 1 <= valid'
        <5>1. SUFFICES ASSUME autopilot'.arming = "ARMING"
                       PROVE  autopilot'.counter + 1 <= valid'
          OBVIOUS
        <5>2. /\ ArmingValid(s, f)
              /\ \/ autopilot'.counter = 0
                 \/ s.arming = "ARMING" /\ autopilot'.counter = s.counter + 1
          BY <2>1, <3>2, <5>1 DEF ThrottleAdvance
        <5>3. valid' = IF valid <= ArmingDelay THEN valid + 1 ELSE valid
          BY <1>1, <3>2, <5>2
        <5>4. s.arming = "ARMING" => s.counter + 1 <= valid /\ s.counter < ArmingDelay
          BY <1>7, <1>9, <2>2 DEF ThrottleHistory, Good, CounterOK
        <5>5. valid \in 0..ArmingDelay + 1 /\ s.counter \in Int /\ autopilot'.counter < ArmingDelay
          BY <1>4, <1>9, <2>1, <5>1 DEF HistoryTyped, Good, CounterOK
        <5> QED
          BY <5>2, <5>3, <5>4, <5>5, DelayIsPositive
      <4> QED
        BY <4>1, <4>2 DEF ThrottleHistory
    <3> QED
      BY <3>1, <3>2
  <2>4. StartOK
    <3>1. SUFFICES ASSUME ~autopilot.motors_on, autopilot'.motors_on, ~cut
                   PROVE  lowered /\ valid' = ArmingDelay + 1
      BY <1>7 DEF StartOK
    <3>2. ~d /\ ~s.motors_on
      BY <1>3, <1>6, <3>1 DEF SameState, TurnedOff
    <3>3. s.mode # "KILL" /\ ThrottleStart(s, f)
      BY <2>1, <3>1, <3>2
    <3>4. lowered /\ s.counter + 1 <= valid /\ s.counter + 1 >= ArmingDelay /\ s.counter \in Int
      BY <1>7, <1>9, <2>2, <3>3 DEF ThrottleHistory, ThrottleStart, Good, CounterOK
    <3>5. valid' = IF valid <= ArmingDelay THEN valid + 1 ELSE valid
      BY <1>1, <3>3 DEF ThrottleStart
    <3> QED
      BY <1>4, <3>4, <3>5, DelayIsPositive DEF HistoryTyped
  <2>5. Good(autopilot, cut)' /\ SwitchHistory(autopilot)'
    BY <1>2, <1>7, <2>7 DEF Good, Record, Kill, CounterOK, InStepOf, SwitchHistory
  <2> QED
    BY <1>4, <1>5, <2>3, <2>4, <2>5 DEF IInv
<1>8. CASE scheme = "switch"
  <2>1. /\ Good(autopilot', d) /\ autopilot'.mode = s.mode
        /\ SwitchAdvance(s, f)
    BY <1>1, <1>3, <1>4, <1>8, <1>9, SwitchGood
  <2>2. s.motors_on => autopilot.motors_on
    BY <1>3 DEF SameState, TurnedOff
  <2>3. autopilot'.motors_on /\ autopilot.motors_on => s.motors_on
    <3>1. SameState(autopilot, s) \/ s.mode = "KILL"
      BY <1>3
    <3> QED
      BY <2>1, <3>1 DEF SameState, Good, Kill
  <2>4. s.arming \in {"STARTABLE", "MOTORS_ON"} => enabled
    BY <1>3, <1>4, <1>8 DEF SwitchHistory, SameState, TurnedOff, AfterStop
  <2>5. s.unarmed_in_auto => IF autopilot.motors_on /\ ~s.motors_on THEN autopilot.mode = "AUTO"
                             ELSE stopped_in = "AUTO"
    <3>1. CASE SameState(autopilot, s)
      BY <1>4, <1>8, <3>1 DEF SwitchHistory, SameState, Good, Record
    <3>2. CASE TurnedOff(autopilot, s)
      <4>1. autopilot.motors_on <=> autopilot.arming = "MOTORS_ON"
        BY <1>4, <1>8 DEF Good, InStepOf
      <4>2. ~s.motors_on
        BY <3>2 DEF TurnedOff
      <4>3. IF autopilot.arming = "MOTORS_ON" THEN s.unarmed_in_auto <=> autopilot.mode = "AUTO"
            ELSE s.unarmed_in_auto = autopilot.unarmed_in_auto
        BY <1>8, <3>2 DEF TurnedOff
      <4>4. autopilot.unarmed_in_auto => stopped_in = "AUTO"
        BY <1>4, <1>8 DEF SwitchHistory
      <4> QED
        BY <4>1, <4>2, <4>3, <4>4
    <3> QED
      BY <1>3, <3>1, <3>2
  <2>6. SwitchHistory(autopilot)'
    <3>1. autopilot'.arming \in {"STARTABLE", "MOTORS_ON"} => enabled'
      BY <1>2, <2>1, <2>4 DEF SwitchAdvance
    <3>2. Stopped <=> autopilot.motors_on /\ ~s.motors_on
      BY <2>1, <2>2, <2>3 DEF Stopped, SwitchAdvance
    <3>3. autopilot'.unarmed_in_auto => stopped_in' = "AUTO"
      BY <1>2, <2>1, <2>5, <3>2 DEF SwitchAdvance
    <3> QED
      BY <3>1, <3>3 DEF SwitchHistory
  <2>7. StartOK
    <3>1. SUFFICES ASSUME ~autopilot.motors_on, autopilot'.motors_on
                   PROVE  enabled /\ (autopilot'.mode = "MANUAL" \/ stopped_in = "AUTO")
      BY <1>8 DEF StartOK
    <3>2. SwitchStart(s)
      BY <2>1, <2>2, <3>1 DEF SwitchAdvance
    <3> QED
      BY <2>1, <2>4, <2>5, <3>1, <3>2 DEF SwitchStart
  <2>8. Good(autopilot, cut)' /\ ThrottleHistory(autopilot)'
    BY <1>2, <1>8, <1>10, <2>1 DEF Good, Record, Kill, CounterOK, InStepOf, ThrottleHistory
  <2> QED
    BY <1>4, <1>5, <2>6, <2>7, <2>8 DEF IInv
<1> QED
  BY <1>4, <1>7, <1>8

-----------------------------------------------------------------------------
LEMMA InitIInv == Init => IInv
<1> SUFFICES ASSUME Init PROVE IInv
  OBVIOUS
<1>1. autopilot \in Record
  BY States DEF Init, Record, Modes
<1>2. Good(autopilot, cut)
  BY <1>1, DelayIsPositive DEF Init, Good, Kill, CounterOK, InStepOf
<1>3. SchemeOK /\ HistoryTyped
  <2>1. valid \in 0..ArmingDelay + 1
    BY DelayIsPositive DEF Init
  <2>2. stopped_in \in Modes
    BY DEF Init, Modes
  <2>3. lowered \in BOOLEAN /\ enabled \in BOOLEAN /\ cut \in BOOLEAN
    BY DEF Init
  <2>4. SchemeOK
    BY DEF Init, SchemeOK
  <2> QED
    BY <2>1, <2>2, <2>3, <2>4 DEF HistoryTyped
<1>4. ThrottleHistory(autopilot) /\ SwitchHistory(autopilot)
  BY DEF Init, ThrottleHistory, SwitchHistory
<1> QED
  BY <1>2, <1>3, <1>4 DEF IInv

LEMMA SetModeIInv == ASSUME IInv, NEW mode \in Modes, SetMode(mode) PROVE IInv'
<1>1. autopilot' = autopilot_set_mode(autopilot, mode) /\ FromOutside
  BY DEF SetMode
<1>2. Switched(autopilot, autopilot') /\ Kill(autopilot')
  BY <1>1, SetModeTo DEF IInv, Good
<1> QED
  BY <1>1, <1>2, OutsideIInv

LEMMA SetMotorsIInv == ASSUME IInv, NEW on \in BOOLEAN, SetMotors(on) PROVE IInv'
<1>1. PICK p \in BOOLEAN : autopilot' = autopilot_set_motors_on(autopilot, on, p)
  BY DEF SetMotors
<1>2. Switched(autopilot, autopilot') /\ autopilot'.mode = autopilot.mode /\ FromOutside
  BY <1>1, SetMotorsOn DEF IInv, Good, SetMotors
<1>3. Kill(autopilot')
  BY <1>2 DEF IInv, Good, Kill, Switched, SameState, TurnedOn, TurnedOff
<1> QED
  BY <1>2, <1>3, OutsideIInv

LEMMA NextIInv == IInv /\ [Next]_vars => IInv'
<1> SUFFICES ASSUME IInv, [Next]_vars PROVE IInv'
  OBVIOUS
<1>1. CASE UNCHANGED vars
  <2>1. UNCHANGED <<scheme, autopilot, lowered, valid, enabled, stopped_in, cut>>
    BY <1>1 DEF vars, history
  <2>2. SchemeOK' /\ HistoryTyped'
    BY <2>1 DEF IInv, SchemeOK, HistoryTyped
  <2>3. Good(autopilot, cut)'
    BY <2>1 DEF IInv, Good, Record, Kill, CounterOK, InStepOf
  <2>4. ThrottleHistory(autopilot)' /\ SwitchHistory(autopilot)'
    BY <2>1 DEF IInv, ThrottleHistory, SwitchHistory
  <2> QED
    BY <2>2, <2>3, <2>4 DEF IInv
<1> QED
  BY <1>1, FrameIInv, SetModeIInv, SetMotorsIInv DEF Next

(* The state of either scheme stays in its enumeration and its counter in  *)
(* range, for every delay (autopilot_arming_throttle.h:98-171,             *)
(* autopilot_arming_switch.h:79-129).                                      *)
THEOREM ArmingTyping == Spec => []TypeOK
<1>1. IInv => TypeOK
  <2> SUFFICES ASSUME IInv PROVE TypeOK
    OBVIOUS
  <2>1. autopilot \in [mode : Modes, motors_on : BOOLEAN, arming : ArmingStates[scheme],
                       counter : 0..ArmingDelay, unarmed_in_auto : BOOLEAN]
    BY DEF IInv, Good, Record, CounterOK
  <2> QED
    BY <2>1 DEF IInv, TypeOK, HistoryTyped, SchemeOK
<1> QED
  BY <1>1, InitIInv, NextIInv, PTL DEF Spec

(* The motors and the scheme stay in step, and off in KILL mode, for every *)
(* delay; the throttle scheme is exempt from an unarming cut short from    *)
(* outside until it leaves UNARMING and MOTORS_ON or starts the motors     *)
(* (autopilot_arming_throttle.h:57-66, autopilot_arming_switch.h:54-70).   *)
THEOREM ArmingInStep == Spec => []MotorsInStep
<1>1. IInv => MotorsInStep
  BY DEF IInv, Good, Kill, InStepOf, MotorsInStep, KilledIsOff, InStep, SchemeOK
<1> QED
  BY <1>1, InitIInv, NextIInv, PTL DEF Spec

(* By the throttle, every start but the first after an unarming cut short  *)
(* from outside comes after the throttle has been down and then up for the *)
(* whole delay.  That one start is exempt: run arming_cut shows it without *)
(* throttle or delay (autopilot_arming_throttle.h:73-171).                 *)
THEOREM ArmingByThrottle == Spec => StartsByThrottle
<1>1. IInv /\ [Next]_vars
        => [StartedByFrame /\ scheme = "throttle" /\ ~cut
              => lowered /\ valid' = ArmingDelay + 1]_vars
  BY FrameIInv DEF StartedByFrame, StartOK
<1> QED
  BY <1>1, InitIInv, NextIInv, PTL DEF Spec, StartsByThrottle

(* By the switch, they start only after it or they have been on, and in an *)
(* automatic mode only after a stop in one                                 *)
(* (autopilot_arming_switch.h:54-129).                                     *)
THEOREM ArmingBySwitch == Spec => StartsBySwitch
<1>1. IInv /\ [Next]_vars
        => [StartedByFrame /\ scheme = "switch"
              => enabled /\ (autopilot'.mode = "MANUAL" \/ stopped_in = "AUTO")]_vars
  BY FrameIInv DEF StartedByFrame, StartOK
<1> QED
  BY <1>1, InitIInv, NextIInv, PTL DEF Spec, StartsBySwitch
=============================================================================
