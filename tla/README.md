# Verification of the group 9 obstacle avoider and its autopilot

The repository is a fork of Paparazzi UAV for the TU Delft autonomous-flight
course. Its airborne program for the Bebop flies through an arena, looks for
obstacles with the front camera and turns away from them. This directory holds
TLA+ models of the parts that decide where the vehicle goes and whether its
motors run, the TLC configurations that check them on small instances, and
TLAPS proofs of what holds for every instance.

All paths below are relative to `src/sw/airborne/` unless they start with
`conf/` (`src/conf/`). The configuration modelled is
`conf/airframes/tudelft/bebop_course_orangeavoid.xml` with the flight plan
`conf/flight_plans/tudelft/course_orangeavoid_cyberzoo.xml`. (The airframe file
carries an unresolved merge conflict; the models take its group 9 side, which
loads the detector and the avoider.)

## 1. The system

One process runs an autopilot thread, which calls every `*_periodic` and
`*_event` function one after the other, and for each camera a capture thread
and a video thread.

| Component | State | Operations | Talks to | Modelled in |
|---|---|---|---|---|
| Obstacle avoider, `modules/orange_avoider/orange_avoider.c` | navigation_state, obstacle_free_confidence, last row, heading increment | ABI callback, 4 Hz state machine | waypoints, `nav.heading`, flight plan | OrangeAvoider |
| Colour-object detector, `modules/computer_vision/cv_detect_color_object.c` | global_filters under a mutex, a copy of it | frame callback on a video thread, 50 Hz copy and ABI send | video threads, avoider | ColorDetector, RowScan |
| Mission list, `modules/mission/` | ring of elements, indices, timers | thirteen datalink messages, `mission_run` | datalink, navigation | Mission |
| Rotorcraft autopilot, `autopilot.c`, `firmwares/rotorcraft/autopilot_*.{c,h}` | mode, motors, in-flight counter, arming sequence | radio frame, period, settings | radio control, flight plan, guidance | Autopilot |
| Radio control status | status, frame timer | frame event, 60 Hz task | autopilot | Autopilot |
| Takeoff module, `modules/nav/nav_takeoff_and_landing_rotorcraft.c` | takeoff status | `nav_takeoff_run` from a block | motors, in_flight | Autopilot |
| Camera capture and vision framework, `modules/computer_vision/{video_thread,cv}.c`, `lib/v4l/v4l2.c` | driver's buffers, deq_idx, threads, the listener's copy | capture, hand-over, free, start, stop, asynchronous listener | driver, listeners | Camera, ImageSource |
| Flight plan engine and navigation, `modules/nav/common_flight_plan.c`, `firmwares/rotorcraft/navigation.c`, the plan's XML | block, stage, timers, ground-detect flags | blocks, exceptions, deroutes, block messages, shocks | autopilot, motors, waypoints | Course |
| Waypoints, `modules/nav/waypoints.c`, `modules/ins/ins_int.c` | two representations per waypoint and their flags, the origin | write, read, copy, localize, reset of the origin | flight plan, avoider, GPS | Waypoints |
| MAVLink mission protocol, `modules/datalink/missionlib/` | state, sequence number, one timer | lists, items, counts, requests, acknowledgements, timeout | ground station over a lossy link, waypoints, blocks | MissionLink |
| Throttle and switch arming, `firmwares/rotorcraft/autopilot_arming_{throttle,switch}.h` | arming state, counter, memory of automatic modes | radio frame, `autopilot_arming_set` | autopilot, motors | ArmingSchemes |

PROJECT.json also lists what is not modelled (byte rings, the guided avoider,
telemetry, other links, bus drivers, inter-MCU, loggers, guidance loops, ground
segment) with the reason.

What is hard here, and where the properties aim:

- *Two threads and one array.* A row travels from the video thread to the
  avoider through a mutex, a copy and a mark that is cleared in the copy only.
- *Evidence that outlives its cause.* A confidence built over many images keeps
  moving GOAL after the view has gone bad; it is reset to 1 at the arena's edge.
- *A position test and a move at different distances.* The avoider tests a point
  1.5 times as far as the one it flies to.
- *A ring with one free slot, and messages in any order.* Element timer,
  callbacks with MissionInit and the indices change with every message.
- *Motors switched from five places.* Radio frames, settings, flight plan,
  failsafe and the arming sequence all write motors_on, kill_throttle, in_flight.
- *Buffers passed on by five hands.* Driver, capture thread, deq_idx, video
  thread and a restart move buffers between them, each under its own lock or none.
- *One timer for every transaction.* MAVLink reads and writes share a state and
  a timer that is not moved by starting it again; every message may be lost.
- *Two representations, one place.* A waypoint's offset is right only for the
  origin it was computed for, and the GPS callback moves the origin alone.
- *Detections that outlive a flight.* A shock felt in one flight, block or mode
  must not end the flare of another.
- *Ends that depend on chains.* Radio loss, failsafe, landing detection and KILL
  must follow each other for the motors to stop.

For each component, what makes it correct: the avoider keeps the drone in the
zone, stops after bad evidence and goes on when the view is clear; the detector
returns a row of the image that is the middle of the longest free strip (of
those it compares, see section 4), and each row reaches the avoider; the mission
list is a queue with distinct ids, whose elements start at time 0; the autopilot
has its motors off in KILL, arms only by the stick, notices landings and stops
the motors of a vehicle whose pilot is gone; the camera gives each buffer one
owner and hands out the latest image, once and unchanged; the flight plan ends a
flight with an alarm; global waypoints stay where they are on earth; an
acknowledged upload is complete and a lost link leaves the protocol idle; an
arming scheme starts the motors only by its whole sequence (section 4 has the
exception).

## 2. The modules

**OrangeAvoider** (orange_avoider.c). One action per branch of
`orange_avoider_periodic` (Safe, ObstacleFound, SearchForSafeHeading,
OutOfBounds), each with the updated confidence, `color_detection_cb`, and the
drone around it: flying to GOAL in block START, yawing to `nav.heading`, flying
elsewhere, taking off and landing. Positions are grid points, headings the four
grid directions; distances are counted in a unit of length, `Scaled` being the
factor 1.5f. `heading_increment` is always negative in the code
(`chooseRandomIncrementAvoidance` stores -5 degrees), so turning is one sense.
TRAJECTORY is written and tested in one call and is a local value.
**AvoiderProperties** adds the history `badStreak` and the properties;
**MCOrangeAvoider** a rectangular arena.

**ColorDetector** (object_detector, color_object_detector_periodic). The steps
of a video thread (scan, lock, store count, store mark, unlock) interleave with
those of the periodic call (lock, copy, unlock, send or skip each filter).
Records carry the number of their frame as a history field.

**RowScan** (find_object_centroid). One row per step. A row of the image is
abstracted to the two facts the loop derives from its pixels: whether its lower
half shows the ground's edge, and whether its upper half shows enough green.
Counters keep the code's order of updates, the `y % 2` rounding and the row
that is counted before the plant test.

**AvoiderPipeline** extends ColorDetector by an instance of OrangeAvoider: a
send is the avoider's callback; the two periodic functions share a thread. It
assumes that the front camera, filter 1, is in use (`FrontCameraInUse`).
**MCVision** puts the scan before it: every image is scanned to its end, and
behind one image the threads run. A scan touches nothing they share and ends in
a row, which the detector draws from Rows, so one image is enough for them.

**Mission** (mission_common.c, mission_rotorcraft_nav.c). One action per
insertion mode, for UPDATE, GOTO, NEXT and END messages, for a step of
`mission_run` with an element or without, and for the flight plan entering and
leaving the block. Patterns are abstracted to whether the step was their last.
**MissionQueue** is the abstract specification: a bounded queue.
**OrderedMission** adds the history `disciplined`, true until the ground station
jumps or replaces elements of an empty list, and maps the ring to the queue
while it is (`List`, the elements from current_idx to insert_idx).

**Autopilot** (autopilot.c, autopilot_static.c, autopilot_firmware.c,
autopilot_arming_yaw.h, autopilot_rc_helpers.h, radio_control.c, rc_datalink.c,
nav_takeoff_and_landing_rotorcraft.c). The state of struct autopilot and of the
static variables is one record, because each handler calls several functions
that change it in turn; an operator with the name of a function takes the record
that function is called in and gives the one it returns in, or the set of them
where something outside decides (GPS, geofence, flight plan, guidance). RcFrame
is a radio frame with its callback, autopilot_periodic the whole period from
failsafe checks to commands. Sticks are abstracted to what the thresholds tell
apart; modes that are treated alike are one value.

**ArmingSchemes** (autopilot_arming_throttle.h, autopilot_arming_switch.h) has
the same form: frames that change the mode and run the scheme, with mode changes
and motor switches from outside between them. `scheme` chooses the build.
Histories tell what the pilot has done: `lowered`, `valid`, `enabled`,
`stopped_in`. `cut` is true from the moment something other than the scheme stops
the motors in STATE_UNARMING until the scheme leaves that state for one that
goes with stopped motors, or the motors start.

**Camera** (v4l2.c, video_thread.c, cv.c). The program counters of capture
threads, video threads, the listener and the main thread in v4l2_stop_capture;
each access to shared state is a step. A capture thread carries the name of the
video thread that created it. `dead` is the process after a pthread_cancel or
pthread_join of a handle that is NULL. The driver may refuse every request:
VIDIOC_QBUF, STREAMON, DQBUF and STREAMOFF have their error paths, and a stop
that returns early leaves the capture thread and the stream as they are. With
WaitsForThreads FALSE a start may come while older threads run, and two sessions
share one device. **ImageSource** is the abstract specification: the latest
image and the image each thread holds.

**Course** (the flight plan, common_flight_plan.c, navigation.c). Each block is a
definition named after it; global exceptions come first, then the block's own,
then its stage, as in the generated auto_nav. Altitude is five bands between the
limits the plan tests; datalink, geofence and battery exceptions are one alarm,
because the plan treats them alike. The history `felt` tells what this flight has
felt: nothing, an armed detection once a flare has armed it, or a shock that came
after that or in FAILSAFE. PeriodWithPlan is a period in NAV mode with
the plan, the motors it sets and the resets of ground detection after it.

**Waypoints** (waypoints.c, navigation.c, ins_int.c). A horizontal and a vertical
coordinate of each waypoint, as an offset and as a place on earth, with the flags
that say which is known: the code writes x and y, or z, alone, but converts the
whole position. `meant` is the place where each coordinate was last put, `stale`
the coordinates whose offset is not that of their place, from an origin set by
the GPS callback on, and `lost` those that a partial write has computed back from
a stale offset. **MCWaypoints** gives two places on a diagonal.

**MissionLink** (missionlib). The handlers share one state machine and one
timer; two bounded queues of messages lose their head at any time. The ground
station is external: it reads, writes, repeats its last message when nothing is
under way, and gives up.

The theorems are in **AvoiderProofs**, **VisionProofs** (row scan, detector and
their composition with the avoider), **MissionProofs**, **AutopilotProofs**,
**NavigationProofs** (waypoints and course), **CameraProofs**, **ArmingProofs** and
**MissionLinkProofs**.

Operators commented "Faulty variant" are plausible wrong versions of the
definition they precede. They are used by no specification; PROJECT.json names
for each property the variant that violates it.

## 3. The runs

| Run | Question | Bounds |
|---|---|---|
| avoider | StaysInside, NoAdvanceAfterBadStreak, KeepsExploring, TypeOK | zone 8 x 1 with a margin of one, confidence up to 3, look-ahead 4 |
| avoider_stop | *violated*: ObstacleStopsDrone | zone 6 x 1 |
| vision | MutexProtects, EveryFrameDelivered, DecidesOnFreshFrame, DirectionInImage, FindsLongestStrip, TypeOK, ScanTypeOK | all images of 7 rows, tolerance 2; two cameras, two frames each, one row value, zone of one point |
| rowscan_last | *violated*: GreatestFreeRun | all images of 7 rows, tolerance 2 |
| mission | TimerBelongsToCurrent, UniqueIds, ImplementsQueue, EmptyMissionEnds, TypeOK | ring of 3, 3 ids, timeout 2 |
| autopilot | KilledIsOff, KillThrottleTellsMotors, ArmedByStick, LandingIsNoticed, LostPilotStopsMotors, TypeOK | delays of 3, radio lost after 1 and 2, no takeoff module |
| camera | OneOwner, ImplementsSource, CopyIsStable, HandedImageIsProcessed, ImagesKeepComing, StopClosesCapture, TypeOK | 3 buffers, 2 images, one video thread at a time, any number of restarts |
| course | ShockOfThisFlight, AlarmEndsFlight, CourseTypeOK | five altitude bands, block times up to 2 |
| waypoints | GlobalsStayInPlace | a global and a local waypoint, two coordinates, 2 places, 1 offset, drift within {0, 1} |
| link | AckedUploadIsWritten, TimesOutAfterSilence, LinkLossEnds, TypeOK | 3 waypoints, 2 blocks, timeout 3, 3 messages each way |
| arming | MotorsInStep, StartsByThrottle, StartsBySwitch | delay 3, both schemes |
| arming_cut | *violated*: StartsOnRequest | delay 3, both schemes |

Why the bounds are enough. *avoider*: along the long side there is room for the
largest move (3, tested at 4) from the inside, at the edge and beyond it, and
the confidence crosses 0, the threshold 2 and its cap; the zone is one row wide
so that every heading across it is out of bounds at once. *vision*: 7 rows hold
two strips separated by an obstacle both shorter and longer than the tolerance,
at both parities of y; the second camera competes for the mutex in every state,
and a second frame overtakes an unsent first. What a row says and where the
drone is play no part in delivery and freshness, so one row and one point are
enough for the threads, and their confidence stops at 2. *mission*: a ring
of 3 is empty, half full, full and wrapped. *autopilot*: delays of 3 have a
first, a middle and a last step, each of which a frame or a period may interrupt.
*waypoints*: two places that differ in both coordinates mix when a part is written
alone or the origin moves, and the origin is the one offset written. Coordinates
that are lost drift with each further origin; `Reach` bounds how far.
`MaxTime`, `MaxFrame`, `MaxInFlight` and the saturating `badStreak`, `pushed`,
`valid`, `silence` and `block_time` are bounds of the models only; each saturates
or stops where no guard or property tells values apart any more. Two
configurations switch the deadlock check off: a behaviour of rowscan_last ends
with its image, and the program of camera may end in pthread_cancel or
pthread_join. In vision an image that no thread runs behind is left to stutter.

Fairness. *avoider*: weak fairness of the 4 Hz task and of the heading loop,
both driven by the main loop. The drone's flight, take-off and block changes are
not assumed to happen. *vision*: strong fairness of the video thread's steps
and of the lock in the periodic call, because pthread mutexes do not starve a
waiter for ever when the holder releases it between frames; weak fairness of the
rest of the call; none of `Scan`, so cameras may stall. *autopilot*: weak
fairness of `autopilot_periodic` alone. The variable `period`, the parity of the
periods run, makes each period a step even if it changes nothing else, so the
fairness cannot force a change of thrust. Radio frames and settings may never
come.

## 4. Disagreements found

**OBSTACLE_FOUND does not stop the drone** (run avoider_stop).
`waypoint_move_here_2d` (modules/nav/waypoints.c:302) sends the waypoint's
old coordinates and stores none, while waypoints.h:132-136 promises to set
them. GOAL stays ahead of the drone.

**The last free strip is never compared** (run rowscan_last).
cv_detect_color_object.c:216 calls cnt_max the greatest number of rows
uninterrupted without obstacle, but only an obstacle row compares the strip
before it (line 299). A strip that reaches the last row of the image is ignored,
however long. FindsLongestStrip speaks of the strips that an obstacle row ends,
where the scan is right.

**A kill during unarming is undone without throttle or delay** (run arming_cut).
autopilot_arming_throttle.h:93-96 says that the motors start when throttle is
applied, with the other sticks centered and in manual mode.
`autopilot_arming_set` does not notice that something else stopped the motors in
STATE_UNARMING (lines 57-66), and the first frame that runs the scheme in that
state calls `autopilot_arming_motors_on(true)` (line 150), throttle down. This one
start is the exception, `cut`, of MotorsInStep and StartsByThrottle; it ends with
that start or when the scheme leaves the state.

Three more behaviours are surprising, although no text of the repository
contradicts them in a way a run could quote, or the properties name them as
their exception. The hazards in PROJECT.json give their lines.

- nav_takeoff_run sets in_flight while the counter that ends it is 0, so that a
  landing right after is not noticed; with it the motors may run in KILL mode.
  The run autopilot leaves the takeoff module out (TakeoffModule = FALSE); the
  theorems that do not need this hold with it too.
- Once the arming delay of the yaw scheme is over, the throttle is not looked at
  again before the motors start (autopilot_arming_yaw.h:179).
- The GPS callback sets the origin without localizing the waypoints
  (ins_int.c:405): `stale` in GlobalsStayInPlace. A write of x and y or of z alone
  then computes the whole place from the stale offset (waypoints.c:202,221,231),
  and the other coordinate loses its place for good: `lost`.

Everything else that was stated holds.

## 5. The theorems

Proved by TLAPS for every value of the constants allowed by the modules' named
assumptions, each of which a run evaluates. VisionProofs and NavigationProofs
extend the components they are about; the specifications of RowScan, Course and
AvoiderPipeline carry the component's name (ScanSpec, CourseSpec, PipelineSpec)
so that they can stand beside those of ColorDetector and Waypoints.

*Avoider* (AvoiderProofs). TypeOK; NoAdvanceAfterBadStreak for every
MaxConfidence of at least 2; StaysInside for every rectangular zone and every
tuning. The second needs the invariant `Drained`: the confidence is 0, or at
most MaxConfidence - 2 badStreak, or 1 in SEARCH_FOR_SAFE_HEADING, where
OUT_OF_BOUNDS has put it and from where it cannot reach SAFE without a good
image. The third rests on the lemma that a point between two points of a
rectangle on a common line is in the rectangle, and that the move is never
longer than the distance tested.

*Row scan* (VisionProofs). ScanTypeOK and DirectionInImage, for every height,
tolerance and image with plants. The strengthening bounds cnt + obs_size by the
rows seen, so that half a strip subtracted from y stays in the image.
FindsLongestStrip, for images of every height without plants. It speaks of the
last state only, so the invariant has to say what the counters mean after each
row: the last obs_size rows are obstacles (`ObstacleRun`); the cnt rows before
them are the strip in hand, which ends in a free row, holds no long obstacle and
cannot start earlier (`CurrentStrip`); and cnt_max and new_dir belong to the first
longest of the strips whose obstacle has been met (`Best`). An obstacle row ends
the strip in hand, which is the only strip that ends there because a strip is
determined by its end (`OneStart`); the second and later rows of an obstacle
change nothing because cnt is at most cnt_max by then.

*Detector* (VisionProofs). TypeOK and MutexProtects, for one or two cameras
and any number of frames. MutexProtects states who holds the mutex in both
directions, which makes it inductive.

*Pipeline* (VisionProofs). DecidesOnFreshFrame for one or two cameras, any rows,
frames and geometry. The invariant follows a row on its way: frame numbers in the
store only grow (`FramesGrow`), a record that is not marked was never stored, or
is being stored under the mutex (`Marked`), so the copy made under the mutex is
as recent as what was known at the last evaluation or nothing was known
(`CopyIsFresh`), and so is what the avoider received once the message of filter 1
was sent or skipped (`Fresh`). The pipeline implements both of its components:
PipelineDetector, and PipelineAvoider, which needs that a marked record carries a
row the scan found (`RowsFound`). What is proved of the avoider and of the
detector alone therefore holds of the two together.

*Mission* (MissionProofs). TypeOK and TimerBelongsToCurrent for rings of every
size (at least 3), whatever the messages; UniqueIds under OrderedMission.
TimerBelongsToCurrent is inductive with TypeOK: each message that changes the
current slot also resets the timer. UniqueIds needs that the slots written by
an insertion are outside the list or removed from it. ImplementsQueue, also
under OrderedMission: for each insertion and each step of the index a lemma says
where `SlotAt` has moved and compares the new list with the queue's expression
element by element (`ListBecomes`); everything else leaves the list as it is.

*Autopilot* (AutopilotProofs). TypeOK, KillThrottleTellsMotors and ArmedByStick
for all delays; KilledIsOff as long as the takeoff module is not used (it sets
in_flight by itself). The invariant has two parts. `Good(s)` speaks of one
record: types, the arming counter below its bound where the sequence counts,
motors, thrust and flight off in KILL, kill_throttle the opposite of motors_on.
Every operator between radio frames maps good states to good states and either
leaves the arming sequence alone or resets it (`Resets`), which is proved
operator by operator and then composed along `autopilot_periodic`. `HistoryOk`
ties the arming counter to the history: in OFF_STICK_PUSHED at least
motors_on_counter + 1 frames had the stick pushed. Frames keep it because the
sequence enters and continues in that state only under the sticks (`Sticks`).

*Waypoints* (NavigationProofs). TypeOK and GlobalsStayInPlace, for any waypoints,
places and offsets. The strengthening (`WellPlaced`) says coordinate by coordinate
which representation holds the place meant: the place on earth unless it is lost
or not known, and the offset, once there is an origin, unless it is stale or lost.
A write of one part computes the place of both from the offset, and a read either
representation from the other, so both facts are needed at once. The theorem has
the exceptions of the property: it claims nothing of a coordinate that is stale or
lost, and `stale` and `lost` are set by the GPS callback and by partial writes of
stale waypoints only (and by what copies them).

*Course* (NavigationProofs). CourseTypeOK and ShockOfThisFlight, for every order of
plan, messages, mode changes and shocks. The flare is left by ground_detected,
which is not a fact about shocks until it is known that an armed detection and a
detected ground go with what this flight has felt (`GroundIsShock`):
autopilot_event turns the one into the other, and the end of a period clears both
whenever it ends the flight. If either reset is dropped, what is left over ends
the flare of a later flight. One lemma sums up what a pass of the plan can leave
behind (`Passed`).

*Camera* (CameraProofs). If WaitsForThreads: TypeOK, OneOwner, ImplementsSource
and CopyIsStable for any buffers, images and threads. The invariant says which
program counters hold a buffer (`BuffersAtPcs`), that at most one session is
running (`OneSession`), that a start finds the device clean (`CleanStart`) and
that the places buffers can be in are disjoint (`BuffersApart`). For the
refinement, capture, claim, free and reset are the source's steps and all others
leave the latest and the held images alone: the driver writes only into buffers
that nobody else has. CopyIsStable rests on who holds img_mutex (`MutexInv`).

*Arming schemes* (ArmingProofs). TypeOK, MotorsInStep, StartsByThrottle and
StartsBySwitch for every delay. As for the autopilot, `Good` speaks of one
record and is kept operator by operator; `ThrottleHistory` and `SwitchHistory`
tie it to what the pilot has done: while arming, counter + 1 frames in a row met
the conditions, and unarmed_in_auto is the mode of the last stop. MotorsInStep and
StartsByThrottle exempt what follows an unarming cut short from outside, and no
more: motors that run always go with a state of the scheme in which they may, and
the lemma `ExemptionEnds` shows that the exemption is over with the next start or
with the next state, after which the whole rule holds again.

*Mission protocol* (MissionLinkProofs). TypeOK, TimesOutAfterSilence and
AckedUploadIsWritten, for lists of every length, every timeout and every bound on
the queues. TypeOK says nothing of the messages; the invariant adds that those
under way are for items that exist, that what is under way to the vehicle is the
last thing the ground station said, and that the two take turns: at most one
message or answer is under way (`OneAtATime`). While a list is read, timer and
silence add up to the timeout (`TimerRuns`), because whatever sets the timer ends
the silence. For the upload, `UploadItem` says of the item under way that it is
the one the vehicle waits for, or one it already has, and how many waypoints are
written; `UploadAnswer` says the same of a request under way, and of an
acknowledgement that all are written. A repeated item finds the vehicle one
further, or back in IDLE with the whole list written. The property and this
invariant are about a transaction that the vehicle has not timed out of.

Only model-checked: the liveness properties (KeepsExploring,
EveryFrameDelivered, LandingIsNoticed, LostPilotStopsMotors, EmptyMissionEnds,
HandedImageIsProcessed, ImagesKeepComing, StopClosesCapture, AlarmEndsFlight,
LinkLossEnds), since fairness and ENABLED are out of the prover's reach. Every
invariant and every action property of a passing run is a theorem. The inductive
invariants of the row scan, the pipeline, the course and the mission protocol were
checked by TLC on the instances of the runs before they were proved.

## 6. Not modelled

Pixels, formats, telemetry and logging. The geometry of routes, circles and
ovals, and the control loops: the drone reaches commanded headings and moves
towards GOAL, thrust is above or below one threshold. Flight time, the choice
between guidance loops and autopilot_mode_auto2. In Autopilot the flight plan
may call any of its functions in each period, which contains what the blocks of
the course plan can do; Course has the plan and abstracts the autopilot in turn.
The centroid x_c, y_c of the detector, uninitialized and unused by the
receivers. In Camera, reads that do not block, closing a device, the frame
rate's arithmetic, and a pthread_create that fails. Camera has the starts that
the driver refuses because a buffer is queued already (after a failed STREAMON
or STREAMOFF, a capture thread that ended by itself, or a buffer given back
after STREAMOFF), but no property says that a camera can be started again: it
need not be. StopClosesCapture is stated of programs that do not die of a
cleared thread handle, and of stops that have turned the stream off. In Course,
a vehicle that hovers in HOME or Wait GPS counts as down, since no exception
reaches these blocks. Concurrency of the two avoider inputs is nil: the ABI
callback runs on the autopilot thread.

Whole parts: the byte rings (the Linux UART's receive queue is written and read
under uart_mutex; circular_buffer.c serves only a servo driver of another
airframe), the guided avoider (another airframe's), telemetry and settings dispatch
(generated), bus drivers (their transactions run in interrupt handlers of each
architecture), inter-MCU, loggers, stabilization (continuous control), and the
ground segment, simulators and generators (off board). The vendored and unused
rest of the Paparazzi tree is not part of the course's program.

## 7. Plan

Done: the modules above. What would add most next:

1. *Course with the motors of Autopilot* by INSTANCE, in place of the rules
   Course repeats, once the product is small enough to check.
2. *Guided avoider*: its state machine over velocity set-points, against the
   same arena.
3. *Byte rings*: circular_buffer.c and the UART queues against a sequence.
4. *More proofs*: the safety half of the liveness properties, as steps that bring
   a measure down (the timer of a lost link, the stages of a landing).
