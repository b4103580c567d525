--------------------------- MODULE ArmingSchemes ---------------------------
(***************************************************************************)
(* The two arming schemes an airframe may choose in place of the yaw stick *)
(* of module Autopilot: by the throttle (autopilot_arming_throttle.h) and  *)
(* by the kill switch (autopilot_arming_switch.h).  Radio frames run them; *)
(* settings, the flight plan, failsafes and mode changes switch the motors *)
(* beside them.                                                            *)
(*                                                                         *)
(* Data: AUTO stands for every mode besides KILL, FAILSAFE and the one at  *)
(* the manual end of the mode switch; sticks are what the thresholds tell  *)
(* apart; whether preflight checks succeed is chosen at every use.         *)
(***************************************************************************)
EXTENDS Integers

CONSTANT ArmingDelay     (* AUTOPILOT_ARMING_DELAY                          *)

ASSUME DelayIsPositive == ArmingDelay \in Nat \ {0}

VARIABLES
  scheme,          (* the scheme of the build, never changed               *)
  autopilot,       (* struct autopilot and the scheme's static variables   *)
  lowered,         (* history: the throttle has been down since the last   *)
                   (* frame with motors on and throttle up                 *)
  valid,           (* history: frames in a row, KILL mode aside, that meet *)
                   (* the throttle scheme's conditions                     *)
  enabled,         (* history: the kill switch or the motors have been on  *)
  stopped_in,      (* history: the mode the motors were last stopped in    *)
  cut              (* history: an unarming was cut short from outside, and *)
                   (* the scheme has not left it or started motors since   *)

history == <<lowered, valid, enabled, stopped_in, cut>>
vars    == <<scheme, autopilot, history>>

Modes == {"KILL", "FAILSAFE", "MANUAL", "AUTO"}

ArmingStates ==
  [throttle |-> {"UNINIT", "WAITING", "MOTORS_OFF_READY", "ARMING", "MOTORS_ON", "UNARMING"},
   switch   |-> {"UNINIT", "WAITING", "STARTABLE", "MOTORS_ON"}]

Frame == [throttle : {"down", "up"}, centred : BOOLEAN, switch : {"MANUAL", "AUTO", "KILL"}]

-----------------------------------------------------------------------------
(* As in module Autopilot, an operator takes the state it is called in and *)
(* gives the one it returns in.                                            *)

(* Faulty variant: a stop in another mode does not clear the memory.       *)
StopsRememberingOnce(s) ==
  [s EXCEPT !.arming = "STARTABLE", !.unarmed_in_auto = @ \/ s.mode = "AUTO"]

StopsRememberingAuto(s) ==
  [s EXCEPT !.arming = "STARTABLE", !.unarmed_in_auto = (s.mode = "AUTO")]

autopilot_arming_set(s, motors_on) ==
  IF motors_on THEN [s EXCEPT !.arming = "MOTORS_ON"]
  ELSE IF s.arming # "MOTORS_ON" THEN s
  ELSE IF scheme = "throttle" THEN [s EXCEPT !.arming = "WAITING"]
  ELSE StopsRememberingAuto(s)

Refused(s, motors_on, preflight) == s.motors_on = motors_on \/ (motors_on /\ ~preflight)

(* Faulty variant: the arming scheme is not told.                          *)
set_motors_on_silently(s, motors_on, preflight) ==
  IF Refused(s, motors_on, preflight) THEN s
  ELSE [s EXCEPT !.motors_on = motors_on /\ s.mode # "KILL"]

autopilot_set_motors_on(s, motors_on, preflight) ==
  IF Refused(s, motors_on, preflight) THEN s
  ELSE LET on == motors_on /\ s.mode # "KILL"
       IN  autopilot_arming_set([s EXCEPT !.motors_on = on], on)

Motors(s, motors_on, preflight) ==
  IF Refused(s, motors_on, preflight) THEN s ELSE [s EXCEPT !.motors_on = motors_on]

(* The motors are stopped before the mode is stored.                       *)
autopilot_set_mode(s, mode) ==
  IF mode = "KILL" /\ s.mode # "KILL"
  THEN [autopilot_set_motors_on(s, FALSE, TRUE) EXCEPT !.mode = mode]
  ELSE [s EXCEPT !.mode = mode]

-----------------------------------------------------------------------------
(* autopilot_arming_check_motors_on in a frame f.                          *)

(* autopilot_arming_check_valid of the throttle scheme.                    *)
ArmingValid(s, f) ==
  /\ f.centred
  /\ s.mode = "MANUAL" \/ s.unarmed_in_auto
  /\ f.throttle = "up"

Goes(s, condition, arming) == IF condition THEN [s EXCEPT !.arming = arming] ELSE s
Counts(s, n)               == [s EXCEPT !.counter = n]

Off(s) == Counts(Motors(s, FALSE, TRUE), 0)

ThrottleWaits(s, f) ==
  \/ s.arming = "UNINIT" /\ autopilot' = Goes(Off(s), TRUE, "WAITING")
  \/ s.arming = "WAITING" /\ autopilot' = Goes(Off(s), f.throttle = "down", "MOTORS_OFF_READY")
  \/ s.arming = "MOTORS_OFF_READY" /\ autopilot' = Goes(Off(s), ArmingValid(s, f), "ARMING")

(* Faulty variant: the sticks are looked at when the delay is over only.   *)
ThrottleArmsUnwatched(s, f, preflight) ==
  LET n == s.counter + 1
      u == Counts(Motors(s, FALSE, TRUE), n)
      started == Motors(u, TRUE, preflight)
  IN  /\ s.arming = "ARMING"
      /\ \/ n < ArmingDelay /\ autopilot' = u
         \/ n >= ArmingDelay /\ ~ArmingValid(s, f) /\ autopilot' = Goes(u, TRUE, "MOTORS_OFF_READY")
         \/ /\ n >= ArmingDelay /\ ArmingValid(s, f)
            /\ autopilot' = Goes(started, TRUE, IF started.motors_on THEN "MOTORS_ON"
                                                ELSE "MOTORS_OFF_READY")

(* After a failed check the state is AP_ARMING_STATUS_ARMING, a number of  *)
(* another enumeration; it is that of MOTORS_OFF_READY.                    *)
ThrottleArms(s, f, preflight) ==
  LET n == s.counter + 1
      u == Counts(Motors(s, FALSE, TRUE), n)
      started == Motors(u, TRUE, preflight)
  IN  /\ s.arming = "ARMING"
      /\ \/ ~ArmingValid(s, f) /\ autopilot' = Goes(u, TRUE, "MOTORS_OFF_READY")
         \/ ArmingValid(s, f) /\ n < ArmingDelay /\ autopilot' = u
         \/ /\ ArmingValid(s, f) /\ n >= ArmingDelay
            /\ autopilot' = Goes(started, TRUE, IF started.motors_on THEN "MOTORS_ON"
                                                ELSE "MOTORS_OFF_READY")

ThrottleUnarms(s, f, preflight) ==
  \/ /\ s.arming = "MOTORS_ON"
     /\ autopilot' = Goes(Counts(Motors(s, TRUE, preflight), ArmingDelay),
                          f.throttle = "down", "UNARMING")
  \/ LET n == s.counter - 1
         u == Counts(Motors(s, TRUE, preflight), n)
     IN  /\ s.arming = "UNARMING"
         /\ \/ f.throttle = "up" /\ autopilot' = Goes(u, TRUE, "MOTORS_ON")
            \/ f.throttle = "down" /\ n # 0 /\ autopilot' = u
            \/ /\ f.throttle = "down" /\ n = 0
               /\ autopilot' = [u EXCEPT !.arming = "MOTORS_OFF_READY",
                                         !.unarmed_in_auto = (s.mode # "MANUAL")]

ThrottleCheck(s, f, preflight) ==
  IF s.mode = "KILL" THEN autopilot' = s
  ELSE ThrottleWaits(s, f) \/ ThrottleArms(s, f, preflight) \/ ThrottleUnarms(s, f, preflight)

SwitchWaits(s, f) ==
  \/ /\ s.arming = "UNINIT"
     /\ autopilot' = Goes(Motors(s, FALSE, TRUE), TRUE,
                          IF f.switch = "KILL" THEN "STARTABLE" ELSE "WAITING")
  \/ /\ s.arming = "WAITING"
     /\ autopilot' = Goes(Motors(s, FALSE, TRUE), f.switch = "KILL", "STARTABLE")

SwitchStarts(s, f, preflight) ==
  LET u == Motors(s, FALSE, TRUE)
      started == Motors(u, TRUE, preflight)
  IN  /\ s.arming = "STARTABLE"
      /\ IF /\ s.mode # "KILL" /\ f.switch # "KILL"
            /\ f.throttle = "down" /\ f.centred
            /\ s.mode = "MANUAL" \/ s.unarmed_in_auto
         THEN autopilot' = Goes(started, started.motors_on, "MOTORS_ON")
         ELSE autopilot' = u

SwitchStops(s, f, preflight) ==
  /\ s.arming = "MOTORS_ON"
  /\ autopilot' = (IF f.switch = "KILL" THEN StopsRememberingAuto(Motors(s, FALSE, TRUE))
                                        ELSE Motors(s, TRUE, preflight))

SwitchCheck(s, f, preflight) ==
  SwitchWaits(s, f) \/ SwitchStarts(s, f, preflight) \/ SwitchStops(s, f, preflight)

-----------------------------------------------------------------------------
Init ==
  /\ scheme \in {"throttle", "switch"}
  /\ autopilot = [mode |-> "AUTO", motors_on |-> FALSE, arming |-> "UNINIT", counter |-> 0,
                  unarmed_in_auto |-> FALSE]
  /\ lowered = FALSE /\ valid = 0 /\ enabled = FALSE /\ stopped_in = "KILL"
  /\ cut = FALSE

(* The mode a frame asks for; NAV is refused when the GPS is lost.         *)
ModeOfFrame(s, f) ==
  (IF f.switch = "AUTO" /\ s.mode = "FAILSAFE" THEN {} ELSE {autopilot_set_mode(s, f.switch)})
    \cup (IF f.switch = "AUTO" THEN {s} ELSE {})

Stopped == autopilot.motors_on /\ ~autopilot'.motors_on

CutIs ==
  cut' = /\ cut \/ (Stopped /\ autopilot'.arming = "UNARMING")
         /\ ~autopilot'.motors_on /\ autopilot'.arming \in {"UNARMING", "MOTORS_ON"}

RcFrame(f) ==
  /\ \E s \in ModeOfFrame(autopilot, f), preflight \in BOOLEAN :
       /\ IF scheme = "throttle" THEN ThrottleCheck(s, f, preflight)
                                 ELSE SwitchCheck(s, f, preflight)
       /\ valid' = IF s.mode = "KILL" THEN valid
                   ELSE IF ~ArmingValid(s, f) THEN 0
                   ELSE IF valid <= ArmingDelay THEN valid + 1 ELSE valid
  /\ lowered' = IF autopilot'.mode = "KILL" THEN lowered
                ELSE f.throttle = "down" \/ (lowered /\ ~autopilot'.motors_on)
  /\ enabled' = (enabled \/ autopilot'.motors_on \/ f.switch = "KILL")
  /\ stopped_in' = IF Stopped THEN autopilot.mode ELSE stopped_in
  /\ CutIs
  /\ UNCHANGED scheme

(* Settings, the flight plan and failsafes, between two frames.            *)
FromOutside ==
  /\ enabled' = (enabled \/ autopilot'.motors_on)
  /\ stopped_in' = IF Stopped THEN autopilot.mode ELSE stopped_in
  /\ CutIs
  /\ UNCHANGED <<scheme, lowered, valid>>

SetMode(mode) == autopilot' = autopilot_set_mode(autopilot, mode) /\ FromOutside

SetMotors(motors_on) ==
  /\ \E preflight \in BOOLEAN :
       autopilot' = autopilot_set_motors_on(autopilot, motors_on, preflight)
  /\ FromOutside

Next ==
  \/ \E f \in Frame : RcFrame(f)
  \/ \E mode \in Modes : SetMode(mode)
  \/ \E motors_on \in BOOLEAN : SetMotors(motors_on)

Spec == Init /\ [][Next]_vars

-----------------------------------------------------------------------------
TypeOK ==
  /\ scheme \in {"throttle", "switch"}
  /\ autopilot \in [mode : Modes, motors_on : BOOLEAN, arming : ArmingStates[scheme],
                    counter : 0..ArmingDelay, unarmed_in_auto : BOOLEAN]
  /\ lowered \in BOOLEAN /\ valid \in 0..ArmingDelay + 1
  /\ enabled \in BOOLEAN /\ stopped_in \in Modes /\ cut \in BOOLEAN

KilledIsOff == autopilot.mode = "KILL" => ~autopilot.motors_on

InStep ==
  IF scheme = "switch" THEN autopilot.motors_on <=> autopilot.arming = "MOTORS_ON"
  ELSE /\ autopilot.arming \in {"MOTORS_ON", "UNARMING"} => autopilot.motors_on
       /\ autopilot.motors_on
            => autopilot.arming \in {"MOTORS_ON", "UNARMING", "MOTORS_OFF_READY"}

(* Settings and mode changes that switch the motors take the scheme along: *)
(* it does not wait with motors on or fly with motors off, and in KILL     *)
(* mode they are off.  The exception is the throttle scheme from the       *)
(* moment something else stops the motors in UNARMING, which it does not   *)
(* notice, until it leaves that state or starts them again: see            *)
(* StartsOnRequest (autopilot_arming_throttle.h:57-66,102,149-162,         *)
(* autopilot_arming_switch.h:54-70,96-124).                                *)
MotorsInStep == KilledIsOff /\ (scheme = "switch" \/ ~cut => InStep)

StartedByFrame ==
  ~autopilot.motors_on /\ autopilot'.motors_on /\ \E f \in Frame : RcFrame(f)

(* By the throttle a pilot starts the motors only after it has been down   *)
(* and then up for the whole delay with the sticks centred, in the manual  *)
(* mode or after an unarming in another, whatever was switched, stopped or *)
(* killed before, but for one start: the first after an unarming that      *)
(* something else cut short by stopping the motors (see StartsOnRequest).  *)
(* Every start after that one meets the rule again                         *)
(* (autopilot_arming_throttle.h:73-171).                                   *)
StartsByThrottle ==
  [][StartedByFrame /\ scheme = "throttle" /\ ~cut
       => lowered /\ valid' = ArmingDelay + 1]_vars

(* The comment on autopilot_arming_check_motors_on: unkill when applying   *)
(* throttle, other sticks centered, in manual mode; the code adds the      *)
(* modes the motors were unarmed in.  It does not hold: a stop from        *)
(* outside leaves the scheme in UNARMING, where the next frame starts the  *)
(* motors, throttle down and all (autopilot_arming_throttle.h:93-96,149).  *)
StartsOnRequest == [][StartedByFrame /\ scheme = "throttle" => valid' > 0]_vars

(* By the switch a pilot starts them only after the switch, or the motors, *)
(* have been on once, and in an automatic mode only if the last stop was   *)
(* in one (autopilot_arming_switch.h:54-129).                              *)
StartsBySwitch ==
  [][StartedByFrame /\ scheme = "switch"
       => enabled /\ (autopilot'.mode = "MANUAL" \/ stopped_in = "AUTO")]_vars
=============================================================================
