---------------------------- MODULE MissionLink ----------------------------
(***************************************************************************)
(* The MAVLink mission protocol of modules/datalink/missionlib: lists of   *)
(* waypoints and blocks are read, waypoints are written, blocks are chosen *)
(* by a ground station over a link that loses messages.  One state machine *)
(* and one timer serve all of it.                                          *)
(*                                                                         *)
(* The ground station is not in this repository: it repeats its last       *)
(* message, gives up and starts again when no message is under way.  A     *)
(* build that defines AP has no handlers for COUNT, ITEM and ITEM_INT: it  *)
(* behaves as if the link had lost every one of these messages.            *)
(***************************************************************************)
EXTENDS Integers, Sequences

CONSTANTS
  NB_WAYPOINT, NB_BLOCK,
  Timeout,           (* MAVLINK_TIMEOUT, in ticks of the model's clock     *)
  MaxInFlight        (* bound: messages under way in each direction        *)

ASSUME LinkConstants ==
  /\ NB_WAYPOINT \in Nat \ {0} /\ NB_BLOCK \in 1..255
  /\ Timeout \in Nat \ {0} /\ MaxInFlight \in Nat \ {0}

VARIABLES
  state, seq, current_block,        (* mission_mgr                         *)
  timer,             (* its timer: -1 when there is none, ticks left, 0    *)
                     (* when it has elapsed                                *)
  nav_block, waypoints,
  up, down,          (* messages to the vehicle and to the ground          *)
  gcs,               (* the ground station                                 *)
  silence,           (* history: ticks since the manager took a message    *)
  expired            (* history: the write transaction has timed out       *)

manager == <<state, seq, current_block>>
plan    == <<nav_block, waypoints>>
history == <<silence, expired>>
vars    == <<manager, timer, plan, up, down, gcs, history>>

Off   == -1
State == {"IDLE", "SEND_LIST", "SEND_ITEM", "WRITE"}
List  == {"waypoint", "block"}

Msg(type, list, n, value) == [type |-> type, list |-> list, seq |-> n, value |-> value]

(* A message that finds the link full is lost like any other.              *)
Sent(link, msg) == IF Len(link) < MaxInFlight THEN Append(link, msg) ELSE link

Size(list) == IF list = "waypoint" THEN NB_WAYPOINT ELSE NB_BLOCK

-----------------------------------------------------------------------------
(* The vehicle.                                                            *)

Receive(type) == up # <<>> /\ Head(up).type = type /\ up' = Tail(up)

(* sys_time_register_timer; sys_time_update_timer with the duration the    *)
(* timer already has moves its end by nothing.                             *)
mavlink_mission_set_timer(t) == IF t = Off THEN Timeout ELSE t

Heard   == silence' = 0
Ignored == UNCHANGED <<manager, timer, plan, down, history>>

REQUEST_LIST ==
  /\ Receive("REQUEST_LIST")
  /\ IF state = "IDLE"
     THEN /\ state' = "SEND_LIST" /\ seq' = 0
          /\ down' = Sent(down, Msg("COUNT", Head(up).list, Size(Head(up).list), 0))
          /\ timer' = mavlink_mission_set_timer(timer)
          /\ Heard
          /\ UNCHANGED <<current_block, plan, expired>>
     ELSE Ignored
  /\ UNCHANGED gcs

(* The first item, the one sent last again, or the next one.               *)
Expected(n) ==
  \/ state = "SEND_LIST" /\ n = 0
  \/ state = "SEND_ITEM" /\ n \in {seq, seq + 1}

(* A block past the last one is expected but not sent.                     *)
Item(list, n) ==
  IF n >= Size(list) THEN down
  ELSE Sent(down, Msg("ITEM", list, n, IF list = "waypoint" THEN waypoints[n] ELSE 0))

(* Faulty variant: a request leaves the timer as it is.                    *)
RequestKeepsTimer ==
  /\ Receive("REQUEST")
  /\ LET m == Head(up) IN
     IF Expected(m.seq) /\ (m.list = "waypoint" => m.seq < NB_WAYPOINT)
     THEN /\ state' = "SEND_ITEM" /\ seq' = m.seq
          /\ down' = Item(m.list, m.seq)
          /\ timer' = mavlink_mission_set_timer(timer)
          /\ Heard
          /\ UNCHANGED <<current_block, plan, expired>>
     ELSE Ignored
  /\ UNCHANGED gcs

REQUEST ==
  /\ Receive("REQUEST")
  /\ LET m == Head(up) IN
     IF Expected(m.seq) /\ (m.list = "waypoint" => m.seq < NB_WAYPOINT)
     THEN /\ state' = "SEND_ITEM" /\ seq' = m.seq
          /\ down' = Item(m.list, m.seq)
          /\ timer' = mavlink_mission_set_timer(Off)
          /\ Heard
          /\ UNCHANGED <<current_block, plan, expired>>
     ELSE Ignored
  /\ UNCHANGED gcs

COUNT ==
  /\ Receive("COUNT")
  /\ IF state = "IDLE" /\ Head(up).seq = NB_WAYPOINT
     THEN /\ state' = "WRITE" /\ seq' = 0
          /\ down' = Sent(down, Msg("REQUEST", "waypoint", 0, 0))
          /\ timer' = mavlink_mission_set_timer(timer)
          /\ Heard /\ expired' = FALSE
          /\ UNCHANGED <<current_block, plan>>
     ELSE Ignored
  /\ UNCHANGED gcs

Ack == Msg("ACK", "waypoint", 0, 0)

Write(m) == waypoints' = [waypoints EXCEPT ![m.seq] = m.value]

(* A single waypoint, outside any transaction.                             *)
WriteSingle(m) ==
  /\ state = "IDLE"
  /\ Write(m)
  /\ down' = Sent(down, Ack) /\ timer' = Off
  /\ UNCHANGED <<state, seq>>

(* Faulty variant: the transaction ends one waypoint early.                *)
WriteEndsEarly(m) ==
  /\ state = "WRITE" /\ m.seq = seq
  /\ Write(m)
  /\ IF m.seq >= NB_WAYPOINT - 2
     THEN state' = "IDLE" /\ seq' = seq /\ down' = Sent(down, Ack) /\ timer' = Off
     ELSE /\ seq' = m.seq + 1 /\ state' = state
          /\ down' = Sent(down, Msg("REQUEST", "waypoint", m.seq + 1, 0))
          /\ timer' = mavlink_mission_set_timer(timer)

WriteNext(m) ==
  /\ state = "WRITE" /\ m.seq = seq
  /\ Write(m)
  /\ IF m.seq = NB_WAYPOINT - 1
     THEN state' = "IDLE" /\ seq' = seq /\ down' = Sent(down, Ack) /\ timer' = Off
     ELSE /\ seq' = m.seq + 1 /\ state' = state
          /\ down' = Sent(down, Msg("REQUEST", "waypoint", m.seq + 1, 0))
          /\ timer' = mavlink_mission_set_timer(timer)

ITEM ==
  /\ Receive("ITEM")
  /\ LET m == Head(up) IN
     \/ (WriteSingle(m) \/ WriteNext(m)) /\ Heard /\ UNCHANGED <<current_block, nav_block, expired>>
     \/ state # "IDLE" /\ (state = "WRITE" => m.seq # seq) /\ Ignored
  /\ UNCHANGED gcs

(* In any state, without a change of state.                                *)
ITEM_INT ==
  /\ Receive("ITEM_INT")
  /\ Write(Head(up)) /\ down' = Sent(down, Ack)
  /\ UNCHANGED <<manager, timer, nav_block, gcs, history>>

(* Faulty variant: the timer of the acknowledged transaction runs on.      *)
AckKeepsTimer ==
  /\ Receive("ACK")
  /\ state' = "IDLE"
  /\ Heard
  /\ UNCHANGED <<seq, current_block, timer, plan, down, gcs, expired>>

ACK ==
  /\ Receive("ACK")
  /\ state' = "IDLE" /\ timer' = Off
  /\ Heard
  /\ UNCHANGED <<seq, current_block, plan, down, gcs, expired>>

(* nav_goto_block takes eight bits and stops at the last block.            *)
SCRIPT_ITEM ==
  /\ Receive("SCRIPT_ITEM")
  /\ IF state = "IDLE"
     THEN LET b == Head(up).seq % 256 IN
          nav_block' = IF b < NB_BLOCK THEN b ELSE NB_BLOCK - 1
     ELSE UNCHANGED nav_block
  /\ UNCHANGED <<manager, timer, waypoints, down, gcs, history>>

mavlink_mission_message_handler ==
  REQUEST_LIST \/ REQUEST \/ COUNT \/ ITEM \/ ITEM_INT \/ ACK \/ SCRIPT_ITEM

(* Faulty variant: only transactions that read are timed out.              *)
PeriodicKeepsWriting ==
  /\ current_block' = nav_block
  /\ down' = IF current_block # nav_block
             THEN Sent(down, Msg("SCRIPT_CURRENT", "block", nav_block, 0)) ELSE down
  /\ IF timer = 0 /\ state # "WRITE"
     THEN timer' = Off /\ state' = "IDLE" /\ seq' = 0 /\ UNCHANGED expired
     ELSE UNCHANGED <<timer, state, seq, expired>>
  /\ UNCHANGED <<plan, up, gcs, silence>>

mavlink_mission_periodic ==
  /\ current_block' = nav_block
  /\ down' = IF current_block # nav_block
             THEN Sent(down, Msg("SCRIPT_CURRENT", "block", nav_block, 0)) ELSE down
  /\ IF timer = 0
     THEN timer' = Off /\ state' = "IDLE" /\ seq' = 0 /\ expired' = (expired \/ state = "WRITE")
     ELSE UNCHANGED <<timer, state, seq, expired>>
  /\ UNCHANGED <<plan, up, gcs, silence>>

(* sys_tick_handler: an elapsed timer runs on, but stays elapsed.          *)
Tick ==
  /\ timer > 0
  /\ timer' = timer - 1
  /\ silence' = IF silence < Timeout THEN silence + 1 ELSE silence
  /\ UNCHANGED <<manager, plan, up, down, gcs, expired>>

-----------------------------------------------------------------------------
(* The link and the ground station (external).                             *)

Lose ==
  /\ \/ up # <<>> /\ up' = Tail(up) /\ UNCHANGED down
     \/ down # <<>> /\ down' = Tail(down) /\ UNCHANGED up
  /\ UNCHANGED <<manager, timer, plan, gcs, history>>

NoMessage == Msg("none", "waypoint", 0, 0)

(* session: what it is doing; list: the list it reads; next: the item it   *)
(* waits for; value: what it writes; last: what it repeats.                *)
Say(msg, session, list, next, value) ==
  /\ up' = Sent(up, msg)
  /\ gcs' = [session |-> session, list |-> list, next |-> next, value |-> value, last |-> msg]

Quiet == gcs.session = "none" /\ up = <<>> /\ down = <<>>

Start ==
  /\ Quiet
  /\ \/ \E list \in List : Say(Msg("REQUEST_LIST", list, 0, 0), "read", list, 0, gcs.value)
     \/ Say(Msg("COUNT", "waypoint", NB_WAYPOINT, 0), "write", "waypoint", 0, 1 - gcs.value)
     \/ \E type \in {"ITEM", "ITEM_INT"}, n \in 0..NB_WAYPOINT - 1 :
          Say(Msg(type, "waypoint", n, 1 - gcs.value), "single", "waypoint", 0, 1 - gcs.value)
     \/ \E n \in {0, NB_BLOCK - 1, NB_BLOCK, 256} :
          Say(Msg("SCRIPT_ITEM", "block", n, 0), "none", "block", 0, gcs.value)
  /\ UNCHANGED <<manager, timer, plan, down, history>>

Hear(type) == down # <<>> /\ Head(down).type = type /\ down' = Tail(down)

(* Reads: an item asks for the next one, the last one is acknowledged.     *)
Read ==
  /\ gcs.session = "read" /\ Head(down).list = gcs.list
  /\ \/ /\ Hear("COUNT")
        /\ Say(Msg("REQUEST", gcs.list, 0, 0), "read", gcs.list, 0, gcs.value)
     \/ /\ Hear("ITEM") /\ Head(down).seq = gcs.next
        /\ IF gcs.next + 1 < Size(gcs.list)
           THEN Say(Msg("REQUEST", gcs.list, gcs.next + 1, 0), "read", gcs.list,
                    gcs.next + 1, gcs.value)
           ELSE Say(Ack, "none", gcs.list, 0, gcs.value)

WriteItem ==
  /\ gcs.session = "write" /\ Hear("REQUEST")
  /\ Say(Msg("ITEM", "waypoint", Head(down).seq, gcs.value), "write", "waypoint", 0, gcs.value)

Finished == Hear("ACK") /\ gcs' = [gcs EXCEPT !.session = "none"] /\ UNCHANGED up

Hears ==
  /\ down # <<>>
  /\ \/ Read
     \/ WriteItem
     \/ gcs.session \in {"write", "single"} /\ Finished
     \/ down' = Tail(down) /\ UNCHANGED <<up, gcs>>
  /\ UNCHANGED <<manager, timer, plan, history>>

(* Nothing under way and no answer: once more, or no more.                 *)
Retry ==
  /\ up = <<>> /\ down = <<>> /\ gcs.session # "none"
  /\ \/ up' = <<gcs.last>> /\ UNCHANGED gcs
     \/ gcs' = [gcs EXCEPT !.session = "none"] /\ UNCHANGED up
  /\ UNCHANGED <<manager, timer, plan, down, history>>

-----------------------------------------------------------------------------
Init ==
  /\ state = "IDLE" /\ seq = 0 /\ current_block = 0
  /\ timer = Off
  /\ nav_block = 0 /\ waypoints = [n \in 0..NB_WAYPOINT - 1 |-> 0]
  /\ up = <<>> /\ down = <<>>
  /\ gcs = [session |-> "none", list |-> "waypoint", next |-> 0, value |-> 0, last |-> NoMessage]
  /\ silence = 0 /\ expired = FALSE

Next ==
  \/ mavlink_mission_message_handler
  \/ mavlink_mission_periodic
  \/ Tick
  \/ Lose \/ Start \/ Hears \/ Retry

(* The clock and the vehicle's periodic task never stop; messages may.     *)
Fairness == WF_vars(Tick) /\ WF_vars(mavlink_mission_periodic)

Spec == Init /\ [][Next]_vars /\ Fairness

-----------------------------------------------------------------------------
(* Every request is for an item that exists and every transaction has a    *)
(* timer: no state but IDLE without one (mission_manager.c 59-75).         *)
TypeOK ==
  /\ state \in State
  /\ seq \in 0..(IF NB_WAYPOINT > NB_BLOCK THEN NB_WAYPOINT ELSE NB_BLOCK)
  /\ timer \in Off..Timeout
  /\ state = "IDLE" <=> timer = Off
  /\ current_block \in 0..NB_BLOCK - 1 /\ nav_block \in 0..NB_BLOCK - 1
  /\ waypoints \in [0..NB_WAYPOINT - 1 -> 0..1]
  /\ silence \in 0..Timeout /\ expired \in BOOLEAN
  /\ state = "WRITE" => seq < NB_WAYPOINT

(* A write transaction that the ground station sees acknowledged, and that *)
(* the vehicle has not timed out of, has written every waypoint, whatever  *)
(* was lost and repeated in between (waypoints.c 195-285).                 *)
AckedUploadIsWritten ==
  [][gcs.session = "write" /\ gcs'.session = "none" /\ down # <<>> /\ ~expired
     => \A n \in DOMAIN waypoints : waypoints[n] = gcs.value]_vars

(* A reading is only given up after MAVLINK_TIMEOUT without a message from *)
(* the ground that had an effect: every item sent gives the ground the     *)
(* whole time again (mission_manager.c 59-67, blocks.c 107-117).           *)
TimesOutAfterSilence ==
  [][(state \in {"SEND_LIST", "SEND_ITEM"}) /\ state' = "IDLE" /\ up' = up
     => silence = Timeout]_vars

(* Once nothing more reaches the vehicle, it is soon and for ever ready    *)
(* for a new transaction (mission_manager.c 99-106).                       *)
LinkLossEnds ==
  <>[][~mavlink_mission_message_handler]_vars => <>[](state = "IDLE")
=============================================================================
