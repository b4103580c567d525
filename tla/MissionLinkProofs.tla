------------------------- MODULE MissionLinkProofs --------------------------
(***************************************************************************)
(* Type correctness and the two action properties of the mission protocol, *)
(* for lists of every length, every timeout and every bound on what is     *)
(* under way.                                                              *)
(*                                                                         *)
(* AckedUploadIsWritten relates the end of a conversation to all of its    *)
(* messages.  Its invariant says, of each message under way, how much of   *)
(* the list is written when it is; it holds because the two sides take     *)
(* turns: at most one message that needs an answer is under way.           *)
(***************************************************************************)
EXTENDS MissionLink, SequenceTheorems, TLAPS

-----------------------------------------------------------------------------
(* Messages.                                                               *)
MessageType ==
  {"none", "REQUEST_LIST", "REQUEST", "COUNT", "ITEM", "ITEM_INT", "ACK", "SCRIPT_ITEM",
   "SCRIPT_CURRENT"}

Message == [type : MessageType, list : List, seq : Nat, value : 0..1]

(* Messages to the vehicle are for items that exist; so are its requests.  *)
ToVehicle(m) ==
  /\ m.type = "REQUEST" => m.seq < Size(m.list)
  /\ m.type \in {"ITEM", "ITEM_INT"} => m.seq < NB_WAYPOINT
ToGround(m) == m.type = "REQUEST" => m.seq < NB_WAYPOINT

Session == {"none", "read", "write", "single"}
Ground  == [session : Session, list : List, next : Nat, value : 0..1, last : Message]

(* SCRIPT_CURRENT is sent unasked, and asks for nothing.                   *)
Answer(m) == m.type # "SCRIPT_CURRENT"

(* The types of what TypeOK leaves out.  At most one message is under way  *)
(* to the vehicle, the last that the ground station said.                  *)
LinkTyped ==
  /\ down \in Seq(Message) /\ gcs \in Ground
  /\ \A i \in 1..Len(down) : ToGround(down[i])
  /\ ToVehicle(gcs.last)
  /\ up = <<>> \/ up = <<gcs.last>>

(* Vehicle and ground station take turns.                                  *)
OneAtATime ==
  /\ \A i, j \in 1..Len(down) : Answer(down[i]) /\ Answer(down[j]) => i = j
  /\ up # <<>> => \A i \in 1..Len(down) : ~Answer(down[i])

Links == LinkTyped /\ OneAtATime

LinkInv == TypeOK /\ Links

-----------------------------------------------------------------------------
(* Sequences.                                                              *)
(* A message joins the queue, or is lost when the queue is full.           *)
LEMMA SentOne ==
  ASSUME NEW S, NEW s \in Seq(S), NEW m \in S
  PROVE  /\ Sent(s, m) \in Seq(S)
         /\ \A i \in 1..Len(Sent(s, m)) :
              \/ i \in 1..Len(s) /\ Sent(s, m)[i] = s[i]
              \/ i = Len(s) + 1 /\ Sent(s, m)[i] = m
<1>1. CASE Len(s) < MaxInFlight
  <2>1. Sent(s, m) = Append(s, m)
    BY <1>1 DEF Sent
  <2>2. /\ Append(s, m) \in Seq(S)
        /\ Len(Append(s, m)) = Len(s) + 1
        /\ \A i \in 1..Len(s) : Append(s, m)[i] = s[i]
        /\ Append(s, m)[Len(s) + 1] = m
    BY AppendProperties
  <2>3. Len(s) \in Nat
    BY LenProperties
  <2> QED BY <2>1, <2>2, <2>3
<1>2. CASE ~(Len(s) < MaxInFlight)
  BY <1>2 DEF Sent
<1> QED BY <1>1, <1>2

(* The first message of a queue is not lost.                               *)
LEMMA SentFirst ==
  ASSUME NEW m
  PROVE  Sent(<<>>, m) = <<m>>
<1>1. Len(<<>>) < MaxInFlight
  BY LinkConstants
<1>2. Append(<<>>, m) = <<m>>
  OBVIOUS
<1> QED BY <1>1, <1>2 DEF Sent

(* A queue after its first message was taken.                              *)
LEMMA RestOf ==
  ASSUME NEW S, NEW s \in Seq(S), s # <<>>
  PROVE  /\ Tail(s) \in Seq(S) /\ Head(s) = s[1] /\ 1 \in 1..Len(s)
         /\ \A i \in 1..Len(Tail(s)) : i + 1 \in 1..Len(s) /\ Tail(s)[i] = s[i + 1]
<1>1. Len(s) \in Nat \ {0}
  BY EmptySeq
<1>2. /\ Tail(s) \in Seq(S) /\ Len(Tail(s)) = Len(s) - 1
      /\ \A i \in 1..Len(Tail(s)) : Tail(s)[i] = s[i + 1]
  BY HeadTailProperties
<1>3. Head(s) = s[1]
  OBVIOUS
<1> QED BY <1>1, <1>2, <1>3

(* A queue of one.                                                         *)
LEMMA One ==
  ASSUME NEW m
  PROVE  <<m>> # <<>> /\ Head(<<m>>) = m /\ Tail(<<m>>) = <<>>
  OBVIOUS

-----------------------------------------------------------------------------
(* The vehicle takes the message that is under way.                        *)
LEMMA Received ==
  ASSUME LinkTyped, NEW type, Receive(type)
  PROVE  /\ up # <<>> /\ Head(up) = gcs.last /\ gcs.last.type = type
         /\ gcs.last \in Message /\ ToVehicle(gcs.last)
         /\ up' = <<>>
BY One DEF LinkTyped, Receive, Ground

(* The link when nothing is added to it.                                   *)
LEMMA Keeps ==
  ASSUME Links, down' = down, gcs' = gcs, up' = up \/ up' = <<>>
  PROVE  Links'
BY DEF Links, LinkTyped, OneAtATime

(* The vehicle says something when no other answer is under way.           *)
LEMMA Adds ==
  ASSUME Links, gcs' = gcs, up' = up \/ up' = <<>>,
         NEW m \in Message, ToGround(m), down' = Sent(down, m),
         ~Answer(m) \/ (up # <<>> /\ up' = <<>>)
  PROVE  Links'
<1>1. down \in Seq(Message)
  BY DEF Links, LinkTyped
<1>2. /\ down' \in Seq(Message)
      /\ \A i \in 1..Len(down') :
              \/ i \in 1..Len(down) /\ down'[i] = down[i]
              \/ i = Len(down) + 1 /\ down'[i] = m
  BY <1>1, SentOne
<1>3. LinkTyped'
  BY <1>2 DEF Links, LinkTyped, ToGround
<1>4. CASE ~Answer(m)
  <2>1. \A i, j \in 1..Len(down') : Answer(down'[i]) /\ Answer(down'[j]) => i = j
    BY <1>2, <1>4 DEF Links, OneAtATime
  <2>2. up' # <<>> => \A i \in 1..Len(down') : ~Answer(down'[i])
    BY <1>2, <1>4 DEF Links, OneAtATime
  <2> QED BY <1>3, <2>1, <2>2 DEF Links, OneAtATime, Answer
<1>5. CASE up # <<>> /\ up' = <<>>
  <2>1. \A i \in 1..Len(down) : ~Answer(down[i])
    BY <1>5 DEF Links, OneAtATime
  <2>2. \A i, j \in 1..Len(down') : Answer(down'[i]) /\ Answer(down'[j]) => i = j
    BY <1>2, <2>1
  <2> QED BY <1>3, <1>5, <2>2 DEF Links, OneAtATime, Answer
<1> QED BY <1>4, <1>5

(* A message of the vehicle arrives or is lost.                            *)
LEMMA Takes ==
  ASSUME Links, down # <<>>, down' = Tail(down)
  PROVE  /\ down' \in Seq(Message) /\ \A i \in 1..Len(down') : ToGround(down'[i])
         /\ \A i, j \in 1..Len(down') : Answer(down'[i]) /\ Answer(down'[j]) => i = j
         /\ up # <<>> => \A i \in 1..Len(down') : ~Answer(down'[i])
         /\ Answer(Head(down)) => up = <<>> /\ \A i \in 1..Len(down') : ~Answer(down'[i])
         /\ Head(down) \in Message /\ ToGround(Head(down))
<1>1. down \in Seq(Message)
  BY DEF Links, LinkTyped
<1>2. /\ down' \in Seq(Message) /\ Head(down) = down[1] /\ 1 \in 1..Len(down)
      /\ \A i \in 1..Len(down') : i + 1 \in 1..Len(down) /\ down'[i] = down[i + 1]
  BY <1>1, RestOf
<1>3. /\ \A i \in 1..Len(down') : ToGround(down'[i])
      /\ Head(down) \in Message /\ ToGround(Head(down))
  BY <1>1, <1>2, ElementOfSeq DEF Links, LinkTyped
<1>4. ASSUME NEW i \in 1..Len(down'), NEW j \in 1..Len(down'),
             Answer(down'[i]), Answer(down'[j])
      PROVE  i = j
  <2>1. i + 1 = j + 1
    BY <1>2, <1>4 DEF Links, OneAtATime
  <2> QED BY <2>1
<1>5. up # <<>> => \A i \in 1..Len(down') : ~Answer(down'[i])
  BY <1>2 DEF Links, OneAtATime
<1>6. ASSUME Answer(Head(down)), NEW i \in 1..Len(down'), Answer(down'[i])
      PROVE  FALSE
  <2>1. i + 1 = 1
    BY <1>2, <1>6 DEF Links, OneAtATime
  <2> QED BY <2>1
<1>7. Answer(Head(down)) => up = <<>>
  BY <1>2 DEF Links, OneAtATime
<1> QED BY <1>2, <1>3, <1>4, <1>5, <1>6, <1>7

(* The ground station says something when nothing is under way.            *)
LEMMA Says ==
  ASSUME Links, up = <<>>, down' \in Seq(Message),
         \A i \in 1..Len(down') : ToGround(down'[i]) /\ ~Answer(down'[i]),
         NEW msg \in Message, ToVehicle(msg), NEW session \in Session, NEW list \in List,
         NEW next \in Nat, NEW value \in 0..1, Say(msg, session, list, next, value)
  PROVE  Links'
<1>1. up' = <<msg>> /\ gcs' = [session |-> session, list |-> list, next |-> next,
                               value |-> value, last |-> msg]
  BY SentFirst DEF Say
<1>2. gcs' \in Ground /\ gcs'.last = msg
  BY <1>1 DEF Ground
<1>3. LinkTyped'
  BY <1>1, <1>2 DEF LinkTyped, ToGround, ToVehicle, Size
<1>4. OneAtATime'
  BY DEF OneAtATime, Answer
<1> QED BY <1>3, <1>4 DEF Links

-----------------------------------------------------------------------------
(* Typing.                                                                 *)
(* The lists have items, and the counter can name each of them.            *)
LEMMA Sizes ==
  ASSUME NEW list \in List
  PROVE  /\ Size(list) \in Nat \ {0}
         /\ \A n \in Nat : n < Size(list)
              => n \in 0..(IF NB_WAYPOINT > NB_BLOCK THEN NB_WAYPOINT ELSE NB_BLOCK)
BY LinkConstants DEF Size, List

(* Nothing is under way at first.                                          *)
LEMMA LinkInit == Init => LinkInv
<1> SUFFICES ASSUME Init PROVE LinkInv
  OBVIOUS
<1>1. TypeOK
  <2>1. /\ state \in State /\ timer \in Off..Timeout /\ (state = "IDLE" <=> timer = Off)
        /\ (state = "WRITE" => seq < NB_WAYPOINT)
    BY LinkConstants DEF Init, State, Off
  <2>2. seq \in 0..(IF NB_WAYPOINT > NB_BLOCK THEN NB_WAYPOINT ELSE NB_BLOCK)
    BY LinkConstants DEF Init
  <2>3. current_block \in 0..NB_BLOCK - 1 /\ nav_block \in 0..NB_BLOCK - 1
    BY LinkConstants DEF Init
  <2>4. waypoints \in [0..NB_WAYPOINT - 1 -> 0..1]
    BY LinkConstants DEF Init
  <2>5. silence \in 0..Timeout
    BY LinkConstants DEF Init
  <2>6. expired \in BOOLEAN
    BY DEF Init
  <2> QED BY <2>1, <2>2, <2>3, <2>4, <2>5, <2>6 DEF TypeOK
<1>2. NoMessage \in Message /\ ToVehicle(NoMessage)
  BY DEF NoMessage, Msg, Message, MessageType, List, ToVehicle
<1>3. gcs \in Ground /\ gcs.last = NoMessage
  BY <1>2, LinkConstants DEF Init, Ground, Session, List
<1>4. LinkTyped
  BY <1>2, <1>3, EmptySeq DEF Init, LinkTyped
<1>5. OneAtATime
  BY DEF Init, OneAtATime
<1> QED BY <1>1, <1>4, <1>5 DEF LinkInv, Links

(* The timer is set for a whole Timeout, or left as it is.                 *)
LEMMA SetTimer ==
  ASSUME timer \in Off..Timeout, NEW t, t = Off \/ t = timer
  PROVE  /\ mavlink_mission_set_timer(t) \in 0..Timeout
         /\ mavlink_mission_set_timer(Off) = Timeout
BY LinkConstants DEF mavlink_mission_set_timer, Off

(* A message that has no effect.                                           *)
LEMMA IgnoredGood ==
  ASSUME LinkInv, Ignored, gcs' = gcs, up' = <<>>
  PROVE  LinkInv'
<1>1. Links'
  BY Keeps DEF Ignored, LinkInv
<1>2. TypeOK'
  BY DEF Ignored, manager, plan, history, TypeOK, LinkInv
<1> QED BY <1>1, <1>2 DEF LinkInv

(* The messages, one by one (mavlink_mission_message_handler).  The ground *)
(* station asks for a list.                                                *)
LEMMA RequestListGood ==
  ASSUME LinkInv, REQUEST_LIST
  PROVE  LinkInv'
<1>1. TypeOK /\ Links /\ LinkTyped
  BY DEF LinkInv, Links
<1>2. /\ up # <<>> /\ Head(up) = gcs.last /\ gcs.last \in Message /\ up' = <<>> /\ gcs' = gcs
  BY <1>1, Received DEF REQUEST_LIST
<1> DEFINE m == Msg("COUNT", Head(up).list, Size(Head(up).list), 0)
<1>3. CASE state = "IDLE"
  <2>1. /\ state' = "SEND_LIST" /\ seq' = 0
        /\ down' = Sent(down, m)
        /\ timer' = mavlink_mission_set_timer(timer)
        /\ silence' = 0
        /\ UNCHANGED <<current_block, nav_block, waypoints, expired>>
    BY <1>3 DEF REQUEST_LIST, Heard, plan
  <2>2. m \in Message /\ ToGround(m)
    <3>1. Head(up).list \in List
      BY <1>2 DEF Message
    <3> QED BY <3>1, Sizes DEF Msg, Message, MessageType, ToGround
  <2> HIDE DEF m
  <2>3. Links'
    BY <1>1, <1>2, <2>1, <2>2, Adds
  <2>4. timer' \in 0..Timeout
    BY <1>1, <2>1, SetTimer DEF TypeOK
  <2>5. TypeOK'
    BY <1>1, <2>1, <2>4, LinkConstants DEF TypeOK, State, Off
  <2> QED BY <2>3, <2>5 DEF LinkInv
<1>4. CASE state # "IDLE"
  <2>1. Ignored
    BY <1>4 DEF REQUEST_LIST
  <2>2. Links'
    BY <1>1, <1>2, <2>1, Keeps DEF Ignored
  <2>3. TypeOK'
    BY <1>1, <2>1 DEF Ignored, manager, plan, history, TypeOK
  <2> QED BY <2>2, <2>3 DEF LinkInv
<1> QED BY <1>3, <1>4

(* The ground station asks for an item.                                    *)
LEMMA RequestGood ==
  ASSUME LinkInv, REQUEST
  PROVE  LinkInv'
<1>1. TypeOK /\ Links /\ LinkTyped
  BY DEF LinkInv, Links
<1> DEFINE m == Head(up)
           item == Msg("ITEM", m.list, m.seq, IF m.list = "waypoint" THEN waypoints[m.seq] ELSE 0)
<1>2. /\ up # <<>> /\ m = gcs.last /\ gcs.last \in Message /\ up' = <<>> /\ gcs' = gcs
      /\ m.type = "REQUEST" /\ ToVehicle(m)
  BY <1>1, Received DEF REQUEST
<1>3. m.list \in List /\ m.seq \in Nat /\ m.seq < Size(m.list)
  BY <1>2 DEF Message, ToVehicle
<1>4. CASE Expected(m.seq) /\ (m.list = "waypoint" => m.seq < NB_WAYPOINT)
  <2>1. /\ state' = "SEND_ITEM" /\ seq' = m.seq
        /\ down' = Item(m.list, m.seq)
        /\ timer' = mavlink_mission_set_timer(Off)
        /\ silence' = 0
        /\ UNCHANGED <<current_block, nav_block, waypoints, expired>>
    BY <1>4 DEF REQUEST, Heard, plan
  <2>2. item \in Message /\ ToGround(item)
    <3>1. ASSUME m.list = "waypoint" PROVE waypoints[m.seq] \in 0..1
      <4>1. m.seq \in 0..NB_WAYPOINT - 1
        BY <1>3, <3>1, LinkConstants DEF Size
      <4> QED BY <1>1, <4>1 DEF TypeOK
    <3> QED BY <1>3, <3>1 DEF Msg, Message, MessageType, ToGround
  <2>3. down' = Sent(down, item)
    BY <1>3, <2>1, Sizes DEF Item
  <2>4. Links'
    <3> HIDE DEF m, item
    <3> QED BY <1>1, <1>2, <2>2, <2>3, Adds
  <2>5. timer' \in 0..Timeout
    BY <1>1, <2>1, SetTimer DEF TypeOK
  <2>6. seq' \in 0..(IF NB_WAYPOINT > NB_BLOCK THEN NB_WAYPOINT ELSE NB_BLOCK)
    BY <1>3, <2>1, Sizes
  <2>7. TypeOK'
    <3>1. /\ state' \in State /\ timer' \in Off..Timeout /\ (state' = "IDLE" <=> timer' = Off)
          /\ (state' = "WRITE" => seq' < NB_WAYPOINT)
      BY <2>1, <2>5, LinkConstants DEF State, Off
    <3>2. silence' \in 0..Timeout
      BY <2>1, LinkConstants
    <3> HIDE DEF m
    <3> QED BY <1>1, <2>1, <2>6, <3>1, <3>2 DEF TypeOK
  <2> QED BY <2>4, <2>7 DEF LinkInv
<1>5. CASE ~(Expected(m.seq) /\ (m.list = "waypoint" => m.seq < NB_WAYPOINT))
  BY <1>2, <1>5, IgnoredGood DEF REQUEST
<1> QED BY <1>4, <1>5

(* It announces how many waypoints it will send.                           *)
LEMMA CountGood ==
  ASSUME LinkInv, COUNT
  PROVE  LinkInv'
<1>1. TypeOK /\ Links /\ LinkTyped
  BY DEF LinkInv, Links
<1>2. /\ up # <<>> /\ up' = <<>> /\ gcs' = gcs
  BY <1>1, Received DEF COUNT
<1> DEFINE m == Msg("REQUEST", "waypoint", 0, 0)
<1>3. CASE state = "IDLE" /\ Head(up).seq = NB_WAYPOINT
  <2>1. /\ state' = "WRITE" /\ seq' = 0
        /\ down' = Sent(down, m)
        /\ timer' = mavlink_mission_set_timer(timer)
        /\ silence' = 0 /\ expired' = FALSE
        /\ UNCHANGED <<current_block, nav_block, waypoints>>
    BY <1>3 DEF COUNT, Heard, plan
  <2>2. m \in Message /\ ToGround(m)
    BY LinkConstants DEF Msg, Message, MessageType, List, ToGround
  <2> HIDE DEF m
  <2>3. Links'
    BY <1>1, <1>2, <2>1, <2>2, Adds
  <2>4. timer' \in 0..Timeout
    BY <1>1, <2>1, SetTimer DEF TypeOK
  <2>5. TypeOK'
    <3>1. /\ state' \in State /\ timer' \in Off..Timeout /\ (state' = "IDLE" <=> timer' = Off)
          /\ (state' = "WRITE" => seq' < NB_WAYPOINT)
      BY <2>1, <2>4, LinkConstants DEF State, Off
    <3>2. /\ seq' \in 0..(IF NB_WAYPOINT > NB_BLOCK THEN NB_WAYPOINT ELSE NB_BLOCK)
          /\ silence' \in 0..Timeout
      BY <2>1, LinkConstants
    <3>3. expired' \in BOOLEAN
      BY <2>1
    <3> QED BY <1>1, <2>1, <3>1, <3>2, <3>3 DEF TypeOK
  <2> QED BY <2>3, <2>5 DEF LinkInv
<1>4. CASE ~(state = "IDLE" /\ Head(up).seq = NB_WAYPOINT)
  BY <1>2, <1>4, IgnoredGood DEF COUNT
<1> QED BY <1>3, <1>4

(* What the vehicle acknowledges with.                                     *)
LEMMA AckIs == Ack \in Message /\ ToGround(Ack) /\ Ack.type = "ACK"
BY DEF Ack, Msg, Message, MessageType, List, ToGround

(* What a waypoint is written with.                                        *)
LEMMA Writes ==
  ASSUME TypeOK, NEW m \in Message, ToVehicle(m), m.type \in {"ITEM", "ITEM_INT"}, Write(m)
  PROVE  /\ waypoints' \in [0..NB_WAYPOINT - 1 -> 0..1]
         /\ m.seq \in 0..NB_WAYPOINT - 1 /\ m.value \in 0..1
         /\ \A n \in 0..NB_WAYPOINT - 1 :
              waypoints'[n] = IF n = m.seq THEN m.value ELSE waypoints[n]
<1>1. m.seq \in 0..NB_WAYPOINT - 1 /\ m.value \in 0..1
  BY LinkConstants DEF Message, ToVehicle
<1>2. waypoints \in [0..NB_WAYPOINT - 1 -> 0..1]
  BY DEF TypeOK
<1> QED BY <1>1, <1>2 DEF Write

(* It sends a waypoint.                                                    *)
LEMMA ItemGood ==
  ASSUME LinkInv, ITEM
  PROVE  LinkInv'
<1>1. TypeOK /\ Links /\ LinkTyped
  BY DEF LinkInv, Links
<1> DEFINE m == Head(up)
<1>2. /\ up # <<>> /\ m = gcs.last /\ gcs.last \in Message /\ up' = <<>> /\ gcs' = gcs
      /\ m.type = "ITEM" /\ ToVehicle(m)
  BY <1>1, Received DEF ITEM
<1>3. m \in Message
  BY <1>2
<1>4. CASE state # "IDLE" /\ Ignored
  BY <1>2, <1>4, IgnoredGood
<1>5. ASSUME WriteSingle(m) \/ WriteNext(m), Heard,
             UNCHANGED <<current_block, nav_block, expired>>
      PROVE  LinkInv'
  <2>1. /\ waypoints' \in [0..NB_WAYPOINT - 1 -> 0..1] /\ m.seq \in 0..NB_WAYPOINT - 1
    BY <1>1, <1>2, <1>3, <1>5, Writes DEF WriteSingle, WriteNext
  <2> DEFINE Fields == /\ state' \in State
                       /\ seq' \in 0..(IF NB_WAYPOINT > NB_BLOCK THEN NB_WAYPOINT ELSE NB_BLOCK)
                       /\ timer' \in Off..Timeout
                       /\ state' = "IDLE" <=> timer' = Off
                       /\ state' = "WRITE" => seq' < NB_WAYPOINT
  <2> HIDE DEF m
  <2>2. Fields /\ \E r \in Message : ToGround(r) /\ down' = Sent(down, r)
    <3>1. CASE state' = state /\ UNCHANGED seq /\ state = "IDLE"
               /\ down' = Sent(down, Ack) /\ timer' = Off
      <4>1. Fields
        BY <1>1, <3>1, LinkConstants DEF TypeOK, Off
      <4> QED BY <3>1, <4>1, AckIs
    <3>2. CASE state' = "IDLE" /\ seq' = seq /\ down' = Sent(down, Ack) /\ timer' = Off
      <4>1. Fields
        BY <1>1, <3>2, LinkConstants DEF TypeOK, State, Off
      <4> QED BY <3>2, <4>1, AckIs
    <3>3. CASE /\ m.seq # NB_WAYPOINT - 1 /\ state = "WRITE"
               /\ seq' = m.seq + 1 /\ state' = state
               /\ down' = Sent(down, Msg("REQUEST", "waypoint", m.seq + 1, 0))
               /\ timer' = mavlink_mission_set_timer(timer)
      <4>1. m.seq + 1 \in 0..NB_WAYPOINT - 1
        BY <2>1, <3>3, LinkConstants
      <4>2. timer' \in 0..Timeout
        BY <1>1, <3>3, SetTimer DEF TypeOK
      <4>3. Fields
        BY <1>1, <3>3, <4>1, <4>2, LinkConstants DEF TypeOK, State, Off
      <4>4. /\ Msg("REQUEST", "waypoint", m.seq + 1, 0) \in Message
            /\ ToGround(Msg("REQUEST", "waypoint", m.seq + 1, 0))
        BY <4>1, LinkConstants DEF Msg, Message, MessageType, List, ToGround
      <4> QED BY <3>3, <4>3, <4>4
    <3> QED BY <1>5, <3>1, <3>2, <3>3 DEF WriteSingle, WriteNext
  <2>3. Links'
    BY <1>1, <1>2, <2>2, Adds
  <2>4. TypeOK'
    BY <1>1, <1>5, <2>1, <2>2, LinkConstants DEF TypeOK, Heard
  <2> QED BY <2>3, <2>4 DEF LinkInv
<1> QED BY <1>4, <1>5 DEF ITEM

(* It sends a waypoint in the integer encoding.                            *)
LEMMA ItemIntGood ==
  ASSUME LinkInv, ITEM_INT
  PROVE  LinkInv'
<1>1. TypeOK /\ Links /\ LinkTyped
  BY DEF LinkInv, Links
<1>2. /\ up # <<>> /\ Head(up) = gcs.last /\ gcs.last \in Message /\ up' = <<>> /\ gcs' = gcs
      /\ gcs.last.type = "ITEM_INT" /\ ToVehicle(gcs.last)
  BY <1>1, Received DEF ITEM_INT
<1>3. waypoints' \in [0..NB_WAYPOINT - 1 -> 0..1]
  BY <1>1, <1>2, Writes DEF ITEM_INT
<1>4. Links'
  BY <1>1, <1>2, AckIs, Adds DEF ITEM_INT
<1>5. TypeOK'
  BY <1>1, <1>3 DEF ITEM_INT, manager, history, TypeOK
<1> QED BY <1>4, <1>5 DEF LinkInv

(* It acknowledges the list it has read.                                   *)
LEMMA AckGood ==
  ASSUME LinkInv, ACK
  PROVE  LinkInv'
<1>1. TypeOK /\ Links /\ LinkTyped
  BY DEF LinkInv, Links
<1>2. Links'
  BY <1>1, Received, Keeps DEF ACK
<1>3. TypeOK'
  BY <1>1, LinkConstants DEF ACK, Heard, plan, TypeOK, State, Off
<1> QED BY <1>2, <1>3 DEF LinkInv

(* It chooses a block.                                                     *)
LEMMA ScriptItemGood ==
  ASSUME LinkInv, SCRIPT_ITEM
  PROVE  LinkInv'
<1>1. TypeOK /\ Links /\ LinkTyped
  BY DEF LinkInv, Links
<1>2. /\ Head(up) = gcs.last /\ gcs.last \in Message /\ up' = <<>> /\ gcs' = gcs
  BY <1>1, Received DEF SCRIPT_ITEM
<1>3. Links'
  BY <1>1, <1>2, Keeps DEF SCRIPT_ITEM
<1>4. nav_block' \in 0..NB_BLOCK - 1
  <2> DEFINE b == Head(up).seq % 256
  <2>1. Head(up).seq \in Nat
    BY <1>2 DEF Message
  <2>2. \A k \in Nat : k % 256 \in Nat
    OBVIOUS
  <2>3. b \in Nat
    BY <2>1, <2>2
  <2>4. nav_block' = (IF b < NB_BLOCK THEN b ELSE NB_BLOCK - 1) \/ nav_block' = nav_block
    BY DEF SCRIPT_ITEM
  <2> HIDE DEF b
  <2> QED BY <1>1, <2>3, <2>4, LinkConstants DEF TypeOK
<1>5. TypeOK'
  BY <1>1, <1>4 DEF SCRIPT_ITEM, manager, history, TypeOK
<1> QED BY <1>3, <1>5 DEF LinkInv

(* mavlink_mission_periodic.                                               *)
LEMMA PeriodicGood ==
  ASSUME LinkInv, mavlink_mission_periodic
  PROVE  LinkInv'
<1>1. TypeOK /\ Links
  BY DEF LinkInv
<1> DEFINE m == Msg("SCRIPT_CURRENT", "block", nav_block, 0)
<1>2. m \in Message /\ ToGround(m) /\ ~Answer(m)
  <2>1. nav_block \in Nat
    BY <1>1, LinkConstants DEF TypeOK
  <2> QED BY <2>1 DEF Msg, Message, MessageType, List, ToGround, Answer
<1>3. down' = down \/ down' = Sent(down, m)
  BY DEF mavlink_mission_periodic
<1> HIDE DEF m
<1>4. up' = up /\ gcs' = gcs
  BY DEF mavlink_mission_periodic
<1>5. Links'
  BY <1>1, <1>2, <1>3, <1>4, Keeps, Adds
<1>6. TypeOK'
  <2>1. /\ state' \in State /\ timer' \in Off..Timeout /\ (state' = "IDLE" <=> timer' = Off)
        /\ (state' = "WRITE" => seq' < NB_WAYPOINT)
        /\ seq' \in 0..(IF NB_WAYPOINT > NB_BLOCK THEN NB_WAYPOINT ELSE NB_BLOCK)
    <3>1. CASE timer = 0
      <4>1. timer' = Off /\ state' = "IDLE" /\ seq' = 0
        BY <3>1 DEF mavlink_mission_periodic
      <4> QED BY <4>1, LinkConstants DEF State, Off
    <3>2. CASE timer # 0
      <4>1. timer' = timer /\ state' = state /\ seq' = seq
        BY <3>2 DEF mavlink_mission_periodic
      <4> QED BY <1>1, <4>1 DEF TypeOK
    <3> QED BY <3>1, <3>2
  <2>2. expired' \in BOOLEAN
    BY <1>1 DEF TypeOK, mavlink_mission_periodic
  <2>3. UNCHANGED <<nav_block, waypoints, silence>> /\ current_block' = nav_block
    BY DEF mavlink_mission_periodic, plan
  <2> QED BY <1>1, <2>1, <2>2, <2>3 DEF TypeOK
<1> QED BY <1>5, <1>6 DEF LinkInv

(* The clock.                                                              *)
LEMMA TickGood ==
  ASSUME LinkInv, Tick
  PROVE  LinkInv'
<1>1. TypeOK /\ Links
  BY DEF LinkInv
<1>2. Links'
  BY <1>1, Keeps DEF Tick
<1>3. timer' \in 0..Timeout /\ silence' \in 0..Timeout
  BY <1>1, LinkConstants DEF Tick, TypeOK, Off
<1>4. state # "IDLE"
  BY <1>1 DEF Tick, TypeOK, Off
<1>5. TypeOK'
  BY <1>1, <1>3, <1>4 DEF Tick, manager, plan, TypeOK, Off
<1> QED BY <1>2, <1>5 DEF LinkInv

(* Steps that leave the vehicle alone.                                     *)
LEMMA Same ==
  ASSUME TypeOK, UNCHANGED <<manager, timer, plan, history>>
  PROVE  TypeOK'
BY DEF TypeOK, manager, plan, history

(* A message is lost.                                                      *)
LEMMA LoseGood ==
  ASSUME LinkInv, Lose
  PROVE  LinkInv'
<1>1. TypeOK /\ Links
  BY DEF LinkInv
<1>2. TypeOK'
  BY <1>1, Same DEF Lose
<1>3. CASE up # <<>> /\ up' = Tail(up) /\ down' = down
  <2>1. up' = <<>>
    BY <1>1, <1>3, One DEF Links, LinkTyped
  <2>2. Links'
    BY <1>1, <1>3, <2>1, Keeps DEF Lose
  <2> QED BY <1>2, <2>2 DEF LinkInv
<1>4. CASE down # <<>> /\ down' = Tail(down) /\ up' = up
  <2>1. Links'
    BY <1>1, <1>4, Takes DEF Lose, Links, LinkTyped, OneAtATime
  <2> QED BY <1>2, <2>1 DEF LinkInv
<1> QED BY <1>3, <1>4 DEF Lose

-----------------------------------------------------------------------------
(* The ground station.                                                     *)

(* It begins a session.                                                    *)
LEMMA StartGood ==
  ASSUME LinkInv, Start
  PROVE  LinkInv'
<1>1. TypeOK /\ Links /\ gcs \in Ground
  BY DEF LinkInv, Links, LinkTyped
<1>2. up = <<>> /\ down' = <<>> /\ down' \in Seq(Message)
      /\ \A i \in 1..Len(down') : ToGround(down'[i]) /\ ~Answer(down'[i])
  BY EmptySeq DEF Start, Quiet
<1>3. gcs.value \in 0..1 /\ 1 - gcs.value \in 0..1 /\ "waypoint" \in List /\ "block" \in List
      /\ NB_WAYPOINT \in Nat /\ NB_BLOCK \in Nat
      /\ "read" \in Session /\ "write" \in Session /\ "single" \in Session /\ "none" \in Session
  BY <1>1, LinkConstants DEF Ground, List, Session
<1>4. Links'
  <2>1. ASSUME NEW list \in List,
               Say(Msg("REQUEST_LIST", list, 0, 0), "read", list, 0, gcs.value)
        PROVE  Links'
    <3>1. Msg("REQUEST_LIST", list, 0, 0) \in Message /\ ToVehicle(Msg("REQUEST_LIST", list, 0, 0))
      BY DEF Msg, Message, MessageType, ToVehicle
    <3> QED BY <1>1, <1>2, <1>3, <2>1, <3>1, Says
  <2>2. ASSUME Say(Msg("COUNT", "waypoint", NB_WAYPOINT, 0), "write", "waypoint", 0, 1 - gcs.value)
        PROVE  Links'
    <3>1. /\ Msg("COUNT", "waypoint", NB_WAYPOINT, 0) \in Message
          /\ ToVehicle(Msg("COUNT", "waypoint", NB_WAYPOINT, 0))
      BY <1>3 DEF Msg, Message, MessageType, ToVehicle
    <3> QED BY <1>1, <1>2, <1>3, <2>2, <3>1, Says
  <2>3. ASSUME NEW type \in {"ITEM", "ITEM_INT"}, NEW n \in 0..NB_WAYPOINT - 1,
               Say(Msg(type, "waypoint", n, 1 - gcs.value), "single", "waypoint", 0, 1 - gcs.value)
        PROVE  Links'
    <3>1. /\ Msg(type, "waypoint", n, 1 - gcs.value) \in Message
          /\ ToVehicle(Msg(type, "waypoint", n, 1 - gcs.value))
      BY <1>3 DEF Msg, Message, MessageType, ToVehicle
    <3> QED BY <1>1, <1>2, <1>3, <2>3, <3>1, Says
  <2>4. ASSUME NEW n \in {0, NB_BLOCK - 1, NB_BLOCK, 256},
               Say(Msg("SCRIPT_ITEM", "block", n, 0), "none", "block", 0, gcs.value)
        PROVE  Links'
    <3>1. n \in Nat
      BY LinkConstants
    <3>2. Msg("SCRIPT_ITEM", "block", n, 0) \in Message /\ ToVehicle(Msg("SCRIPT_ITEM", "block", n, 0))
      BY <1>3, <3>1 DEF Msg, Message, MessageType, ToVehicle
    <3> QED BY <1>1, <1>2, <1>3, <2>4, <3>2, Says
  <2> QED BY <2>1, <2>2, <2>3, <2>4 DEF Start
<1>5. TypeOK'
  BY <1>1, Same DEF Start
<1> QED BY <1>4, <1>5 DEF LinkInv

(* It reads a list, item by item.                                          *)
LEMMA ReadGood ==
  ASSUME LinkInv, down # <<>>, Read
  PROVE  Links'
<1>1. Links /\ gcs \in Ground
  BY DEF LinkInv, Links, LinkTyped
<1>2. CASE Hear("COUNT") /\ Say(Msg("REQUEST", gcs.list, 0, 0), "read", gcs.list, 0, gcs.value)
  <2>1. down' = Tail(down) /\ Answer(Head(down))
    BY <1>2 DEF Hear, Answer
  <2>2. gcs.list \in List /\ gcs.value \in 0..1 /\ "read" \in Session /\ 0 < Size(gcs.list)
    BY <1>1, Sizes DEF Ground, Session
  <2>3. Msg("REQUEST", gcs.list, 0, 0) \in Message /\ ToVehicle(Msg("REQUEST", gcs.list, 0, 0))
    BY <2>2 DEF Msg, Message, MessageType, ToVehicle
  <2> QED BY <1>1, <1>2, <2>1, <2>2, <2>3, Takes, Says
<1>3. CASE Hear("ITEM") /\ gcs.next + 1 < Size(gcs.list)
           /\ Say(Msg("REQUEST", gcs.list, gcs.next + 1, 0), "read", gcs.list,
                  gcs.next + 1, gcs.value)
  <2>1. down' = Tail(down) /\ Answer(Head(down))
    BY <1>3 DEF Hear, Answer
  <2>2. gcs.list \in List /\ gcs.value \in 0..1 /\ "read" \in Session /\ gcs.next + 1 \in Nat
    BY <1>1 DEF Ground, Session
  <2>3. /\ Msg("REQUEST", gcs.list, gcs.next + 1, 0) \in Message
        /\ ToVehicle(Msg("REQUEST", gcs.list, gcs.next + 1, 0))
    BY <1>3, <2>2 DEF Msg, Message, MessageType, ToVehicle
  <2> QED BY <1>1, <1>3, <2>1, <2>2, <2>3, Takes, Says
<1>4. CASE Hear("ITEM") /\ Say(Ack, "none", gcs.list, 0, gcs.value)
  <2>1. down' = Tail(down) /\ Answer(Head(down))
    BY <1>4 DEF Hear, Answer
  <2>2. gcs.list \in List /\ gcs.value \in 0..1 /\ "none" \in Session
    BY <1>1 DEF Ground, Session
  <2>3. ToVehicle(Ack)
    BY DEF Ack, Msg, ToVehicle
  <2> QED BY <1>1, <1>4, <2>1, <2>2, <2>3, AckIs, Takes, Says
<1> QED BY <1>2, <1>3, <1>4 DEF Read

(* It takes a message of the vehicle.                                      *)
LEMMA HearsGood ==
  ASSUME LinkInv, Hears
  PROVE  LinkInv'
<1>1. TypeOK /\ Links /\ gcs \in Ground /\ down # <<>>
  BY DEF LinkInv, Links, LinkTyped, Hears
<1>2. TypeOK'
  BY <1>1, Same DEF Hears
<1>3. CASE Read
  BY <1>1, <1>2, <1>3, ReadGood DEF LinkInv
<1>4. CASE WriteItem
  <2> DEFINE item == Msg("ITEM", "waypoint", Head(down).seq, gcs.value)
  <2>1. /\ down' = Tail(down) /\ Answer(Head(down)) /\ Head(down).type = "REQUEST"
        /\ Say(item, "write", "waypoint", 0, gcs.value)
    BY <1>4 DEF WriteItem, Hear, Answer
  <2>2. Head(down) \in Message /\ ToGround(Head(down))
    BY <1>1, <2>1, Takes
  <2>3. gcs.value \in 0..1 /\ "write" \in Session /\ "waypoint" \in List
    BY <1>1 DEF Ground, Session, List
  <2>4. item \in Message /\ ToVehicle(item)
    BY <2>1, <2>2, <2>3 DEF Msg, Message, MessageType, ToVehicle, ToGround
  <2> HIDE DEF item
  <2>5. Links'
    BY <1>1, <2>1, <2>3, <2>4, Takes, Says
  <2> QED BY <1>2, <2>5 DEF LinkInv
<1>5. CASE Finished
  <2>1. down' = Tail(down) /\ up' = up /\ gcs' = [gcs EXCEPT !.session = "none"]
    BY <1>5 DEF Finished, Hear
  <2>2. gcs' \in Ground /\ gcs'.last = gcs.last
    BY <1>1, <2>1 DEF Ground, Session
  <2>3. Links'
    BY <1>1, <2>1, <2>2, Takes DEF Links, LinkTyped, OneAtATime
  <2> QED BY <1>2, <2>3 DEF LinkInv
<1>6. CASE down' = Tail(down) /\ UNCHANGED <<up, gcs>>
  <2>1. Links'
    BY <1>1, <1>6, Takes DEF Links, LinkTyped, OneAtATime
  <2> QED BY <1>2, <2>1 DEF LinkInv
<1> QED BY <1>3, <1>4, <1>5, <1>6 DEF Hears

(* It repeats what it said, or gives up.                                   *)
LEMMA RetryGood ==
  ASSUME LinkInv, Retry
  PROVE  LinkInv'
<1>1. TypeOK /\ Links /\ gcs \in Ground
  BY DEF LinkInv, Links, LinkTyped
<1>2. TypeOK'
  BY <1>1, Same DEF Retry
<1>3. down = <<>> /\ down' = <<>> /\ Len(<<>>) = 0
  BY DEF Retry
<1>4. CASE up' = <<gcs.last>> /\ gcs' = gcs
  <2>1. Links'
    BY <1>1, <1>3, <1>4 DEF Links, LinkTyped, OneAtATime
  <2> QED BY <1>2, <2>1 DEF LinkInv
<1>5. CASE gcs' = [gcs EXCEPT !.session = "none"] /\ up' = up
  <2>1. gcs' \in Ground /\ gcs'.last = gcs.last
    BY <1>1, <1>5 DEF Ground, Session
  <2>2. Links'
    BY <1>1, <1>3, <1>5, <2>1 DEF Links, LinkTyped, OneAtATime
  <2> QED BY <1>2, <2>2 DEF LinkInv
<1> QED BY <1>4, <1>5 DEF Retry

-----------------------------------------------------------------------------
(* One case per message and per action.                                    *)
LEMMA LinkStep == LinkInv /\ [Next]_vars => LinkInv'
<1> SUFFICES ASSUME LinkInv, [Next]_vars PROVE LinkInv'
  OBVIOUS
<1>1. CASE mavlink_mission_message_handler
  BY <1>1, RequestListGood, RequestGood, CountGood, ItemGood, ItemIntGood, AckGood, ScriptItemGood
     DEF mavlink_mission_message_handler
<1>2. CASE UNCHANGED vars
  BY <1>2, Same, Keeps DEF LinkInv, vars, history
<1> QED
  BY <1>1, <1>2, PeriodicGood, TickGood, LoseGood, StartGood, HearsGood, RetryGood DEF Next

(* The invariant holds in every state.                                     *)
THEOREM LinkInvariance == Spec => []LinkInv
BY LinkInit, LinkStep, PTL DEF Spec

(* Type correctness: every waypoint asked for exists, and the timer runs   *)
(* in every state but IDLE (mission_manager.c).                            *)
THEOREM LinkTyping == Spec => []TypeOK
<1>1. LinkInv => TypeOK
  BY DEF LinkInv
<1> QED BY <1>1, LinkInvariance, PTL

-----------------------------------------------------------------------------
(* The timer.                                                              *)
(* The timer counts down from the last message that had an effect.         *)
TimerRuns == state \in {"SEND_LIST", "SEND_ITEM"} => timer + silence = Timeout

(* What gives the ground the whole time again also ends its silence.       *)
LEMMA TimerStep == LinkInv /\ TimerRuns /\ [Next]_vars => TimerRuns'
<1> SUFFICES ASSUME LinkInv, TimerRuns, [Next]_vars PROVE TimerRuns'
  OBVIOUS
<1>0. TypeOK
  BY DEF LinkInv
<1>1. CASE UNCHANGED <<state, timer, silence>>
  BY <1>1 DEF TimerRuns
<1>2. CASE mavlink_mission_message_handler
  <2>1. CASE Ignored
    BY <1>1, <2>1 DEF Ignored, manager, history
  <2>2. CASE state' \in {"IDLE", "WRITE"}
    BY <2>2 DEF TimerRuns
  <2>3. CASE silence' = 0 /\ timer' = Timeout
    BY <2>3, LinkConstants DEF TimerRuns
  <2>4. CASE REQUEST_LIST
    <3>1. timer = Off => mavlink_mission_set_timer(timer) = Timeout
      BY DEF mavlink_mission_set_timer
    <3> QED BY <1>0, <2>1, <2>3, <2>4, <3>1 DEF REQUEST_LIST, Heard, TypeOK
  <2>5. CASE REQUEST
    <3>1. mavlink_mission_set_timer(Off) = Timeout
      BY DEF mavlink_mission_set_timer
    <3> QED BY <2>1, <2>3, <2>5, <3>1 DEF REQUEST, Heard
  <2>6. CASE COUNT
    BY <2>1, <2>2, <2>6 DEF COUNT
  <2>7. CASE ITEM
    BY <2>1, <2>2, <2>7 DEF ITEM, WriteSingle, WriteNext
  <2>8. CASE ITEM_INT \/ SCRIPT_ITEM
    BY <1>1, <2>8 DEF ITEM_INT, SCRIPT_ITEM, manager, history
  <2>9. CASE ACK
    BY <2>2, <2>9 DEF ACK
  <2> QED
    BY <1>2, <2>4, <2>5, <2>6, <2>7, <2>8, <2>9 DEF mavlink_mission_message_handler
<1>3. CASE mavlink_mission_periodic
  <2>1. CASE timer = 0
    BY <1>3, <2>1 DEF mavlink_mission_periodic, TimerRuns
  <2>2. CASE timer # 0
    BY <1>1, <1>3, <2>2 DEF mavlink_mission_periodic
  <2> QED BY <2>1, <2>2
<1>4. CASE Tick
  <2>1. ASSUME state \in {"SEND_LIST", "SEND_ITEM"}
        PROVE  timer' + silence' = Timeout
    <3>1. timer \in Int /\ timer > 0 /\ silence \in Nat /\ timer + silence = Timeout
      BY <1>0, <1>4, <2>1, LinkConstants DEF TypeOK, Tick, TimerRuns
    <3> QED BY <1>4, <3>1, LinkConstants DEF Tick
  <2> QED BY <1>4, <2>1 DEF TimerRuns, Tick, manager
<1>5. CASE Lose \/ Start \/ Hears \/ Retry
  BY <1>1, <1>5 DEF Lose, Start, Hears, Retry, manager, history
<1>6. CASE UNCHANGED vars
  BY <1>1, <1>6 DEF vars, manager, history
<1> QED BY <1>2, <1>3, <1>4, <1>5, <1>6 DEF Next

(* TimesOutAfterSilence.                                                   *)
LEMMA TimeOut ==
  ASSUME LinkInv, TimerRuns, [Next]_vars,
         state \in {"SEND_LIST", "SEND_ITEM"}, state' = "IDLE", up' = up
  PROVE  silence = Timeout
<1>1. ~mavlink_mission_message_handler
  BY Received DEF LinkInv, Links, mavlink_mission_message_handler, REQUEST_LIST, REQUEST,
                  COUNT, ITEM, ITEM_INT, ACK, SCRIPT_ITEM
<1>2. state' # state
  OBVIOUS
<1>3. mavlink_mission_periodic /\ timer = 0
  BY <1>1, <1>2 DEF Next, Tick, Lose, Start, Hears, Retry, vars, manager, mavlink_mission_periodic
<1>4. silence \in Nat
  BY LinkConstants DEF LinkInv, TypeOK
<1> QED BY <1>3, <1>4 DEF TimerRuns

(* A reading is only given up after MAVLINK_TIMEOUT of silence, for every  *)
(* timeout and however messages are lost (mavlink_mission_periodic).       *)
THEOREM LinkTimer == Spec => TimesOutAfterSilence
<1>1. Init => TimerRuns
  BY DEF Init, TimerRuns
<1>2. ASSUME LinkInv, TimerRuns, [Next]_vars
      PROVE  [(state \in {"SEND_LIST", "SEND_ITEM"}) /\ state' = "IDLE" /\ up' = up
              => silence = Timeout]_vars
  BY <1>2, TimeOut
<1> QED BY <1>1, <1>2, TimerStep, LinkInvariance, PTL DEF Spec, TimesOutAfterSilence

-----------------------------------------------------------------------------
(* The upload.                                                             *)

(* The first n waypoints are the ground station's.                         *)
Written(n) == \A k \in 0..(n - 1) : waypoints[k] = gcs.value

(* What the ground station said last, during an upload.                    *)
UploadAsks == gcs.session = "write" => gcs.last.type \in {"COUNT", "ITEM"}

(* An item is the one the vehicle waits for, or one it has: every waypoint *)
(* before it is written.                                                   *)
UploadItem ==
  gcs.session = "write" /\ ~expired /\ gcs.last.type = "ITEM" =>
    /\ gcs.last.value = gcs.value
    /\ \/ state = "WRITE" /\ seq = gcs.last.seq /\ Written(seq)
       \/ state = "WRITE" /\ seq = gcs.last.seq + 1 /\ Written(seq)
       \/ state = "IDLE" /\ Written(NB_WAYPOINT)

(* So is every item asked for, and all are before the acknowledgement.     *)
UploadAnswer ==
  gcs.session = "write" /\ ~expired =>
    \A i \in 1..Len(down) :
      /\ down[i].type = "REQUEST" => state = "WRITE" /\ seq = down[i].seq /\ Written(seq)
      /\ down[i].type = "ACK" => Written(NB_WAYPOINT)

Upload == UploadAsks /\ UploadItem /\ UploadAnswer

(* Nothing the vehicle says or does.                                       *)
LEMMA UploadKept ==
  ASSUME Upload, UNCHANGED <<state, seq, waypoints, expired, gcs>>,
         NEW d, down' = d,
         \A i \in 1..Len(d) :
           d[i].type \in {"REQUEST", "ACK"} => \E j \in 1..Len(down) : d[i] = down[j]
  PROVE  Upload'
<1>1. UploadAsks' /\ UploadItem'
  BY DEF Upload, UploadAsks, UploadItem, Written
<1>2. UploadAnswer'
  <2> SUFFICES ASSUME gcs.session = "write", ~expired, NEW i \in 1..Len(d)
               PROVE  /\ d[i].type = "REQUEST" => state = "WRITE" /\ seq = d[i].seq /\ Written(seq)
                      /\ d[i].type = "ACK" => Written(NB_WAYPOINT)
    BY DEF UploadAnswer, Written
  <2> QED BY DEF Upload, UploadAnswer
<1> QED BY <1>1, <1>2 DEF Upload

(* One more, or one less message that does not matter.                     *)
LEMMA UploadTail ==
  ASSUME Links, Upload, UNCHANGED <<state, seq, waypoints, expired, gcs>>,
         down # <<>>, down' = Tail(down)
  PROVE  Upload'
<1>1. \A i \in 1..Len(Tail(down)) : i + 1 \in 1..Len(down) /\ Tail(down)[i] = down[i + 1]
  BY RestOf DEF Links, LinkTyped
<1> QED BY <1>1, UploadKept

(* Steps that touch neither the plan nor the messages.                     *)
LEMMA UploadSame ==
  ASSUME Upload, UNCHANGED <<state, seq, waypoints, expired, gcs, down>>
  PROVE  Upload'
BY UploadKept

(* The vehicle answers: no other answer is under way.                      *)
LEMMA NewAnswer ==
  ASSUME Links, up # <<>>, NEW m \in Message, NEW d, d = Sent(down, m),
         NEW i \in 1..Len(d), d[i].type \in {"REQUEST", "ACK"}
  PROVE  d[i] = m
<1>1. down \in Seq(Message)
  BY DEF Links, LinkTyped
<1>2. \/ i \in 1..Len(down) /\ d[i] = down[i]
      \/ d[i] = m
  BY <1>1, SentOne
<1> QED BY <1>2 DEF Links, OneAtATime, Answer

(* The vehicle is told how many waypoints to expect.                       *)
LEMMA UploadCount ==
  ASSUME LinkInv, Upload, COUNT
  PROVE  Upload'
<1>1. Links /\ LinkTyped
  BY DEF LinkInv, Links
<1>2. up # <<>> /\ gcs.last.type = "COUNT" /\ gcs' = gcs
  BY <1>1, Received DEF COUNT
<1>3. CASE Ignored
  BY <1>2, <1>3, UploadSame DEF Ignored, manager, plan, history
<1>4. CASE /\ state' = "WRITE" /\ seq' = 0
           /\ down' = Sent(down, Msg("REQUEST", "waypoint", 0, 0))
  <2> DEFINE m == Msg("REQUEST", "waypoint", 0, 0)
  <2>1. m \in Message /\ m.type = "REQUEST" /\ m.seq = 0
    BY DEF Msg, Message, MessageType, List
  <2>2. Written(seq)'
    BY <1>4 DEF Written
  <2> HIDE DEF m
  <2>3. ASSUME NEW i \in 1..Len(down')
        PROVE  /\ down'[i].type = "REQUEST" => down'[i].seq = 0
               /\ down'[i].type # "ACK"
    <3>1. down' = Sent(down, m)
      BY <1>4 DEF m
    <3>2. down'[i].type \in {"REQUEST", "ACK"} => down'[i] = m
      BY <1>1, <1>2, <2>1, <3>1, NewAnswer
    <3> QED BY <2>1, <3>2
  <2>4. UploadAnswer'
    BY <1>4, <2>2, <2>3 DEF UploadAnswer
  <2>5. UploadAsks' /\ UploadItem'
    BY <1>2 DEF Upload, UploadAsks, UploadItem
  <2> QED BY <2>4, <2>5 DEF Upload
<1> QED BY <1>3, <1>4 DEF COUNT

(* The vehicle is given a waypoint.                                        *)
LEMMA UploadItems ==
  ASSUME LinkInv, Upload, ITEM
  PROVE  Upload'
<1>1. TypeOK /\ Links /\ LinkTyped
  BY DEF LinkInv, Links
<1>2. /\ up # <<>> /\ Head(up) = gcs.last /\ gcs.last \in Message /\ ToVehicle(gcs.last)
      /\ gcs.last.type = "ITEM" /\ gcs' = gcs
  BY <1>1, Received DEF ITEM
<1>3. CASE Ignored
  BY <1>2, <1>3, UploadSame DEF Ignored, manager, plan, history
<1>4. UploadAsks'
  BY <1>2 DEF Upload, UploadAsks
<1>5. CASE gcs.session # "write" \/ expired'
  BY <1>2, <1>4, <1>5 DEF Upload, UploadItem, UploadAnswer
<1> DEFINE n == gcs.last.seq
<1>6. ASSUME WriteSingle(gcs.last) \/ WriteNext(gcs.last), expired' = expired,
             gcs.session = "write", ~expired
      PROVE  Upload'
  <2>1. /\ n \in 0..NB_WAYPOINT - 1 /\ gcs.last.value = gcs.value
        /\ \A k \in 0..NB_WAYPOINT - 1 : waypoints'[k] = IF k = n THEN gcs.value ELSE waypoints[k]
    BY <1>1, <1>2, <1>6, Writes DEF WriteSingle, WriteNext, Upload, UploadItem
  <2>2. CASE WriteSingle(gcs.last) \/ (WriteNext(gcs.last) /\ n = NB_WAYPOINT - 1)
    <3>1. state' = "IDLE" /\ down' = Sent(down, Ack)
      BY <2>2 DEF WriteSingle, WriteNext
    <3>2. \A k \in 0..(NB_WAYPOINT - 1) : k # n => waypoints[k] = gcs.value
      <4>1. CASE WriteSingle(gcs.last)
        BY <1>2, <1>6, <4>1 DEF WriteSingle, Upload, UploadItem, Written
      <4>2. CASE WriteNext(gcs.last) /\ n = NB_WAYPOINT - 1
        <5>1. Written(n)
          BY <1>2, <1>6, <4>2 DEF WriteNext, Upload, UploadItem
        <5> QED BY <2>1, <4>2, <5>1, LinkConstants DEF Written
      <4> QED BY <2>2, <4>1, <4>2
    <3>3. Written(NB_WAYPOINT)'
      BY <1>2, <2>1, <3>2 DEF Written
    <3>4. UploadItem'
      BY <1>2, <2>1, <3>1, <3>3 DEF UploadItem
    <3>5. ASSUME NEW i \in 1..Len(down') PROVE down'[i].type # "REQUEST"
      BY <1>1, <1>2, <3>1, NewAnswer, AckIs
    <3>6. UploadAnswer'
      BY <3>3, <3>5 DEF UploadAnswer
    <3> QED BY <1>4, <3>4, <3>6 DEF Upload
  <2>3. CASE WriteNext(gcs.last) /\ n # NB_WAYPOINT - 1
    <3> DEFINE r == Msg("REQUEST", "waypoint", n + 1, 0)
    <3>1. /\ seq = n /\ state = "WRITE" /\ seq' = n + 1 /\ state' = "WRITE"
          /\ down' = Sent(down, r)
      BY <2>3 DEF WriteNext
    <3>2. Written(n)
      BY <1>2, <1>6, <3>1, <2>1 DEF Upload, UploadItem
    <3>3. \A k \in 0..n : waypoints'[k] = gcs.value
      BY <2>1, <3>2, LinkConstants DEF Written
    <3>4. Written(seq)'
      BY <1>2, <2>1, <3>1, <3>3 DEF Written
    <3>5. UploadItem'
      BY <1>2, <2>1, <3>1, <3>4 DEF UploadItem
    <3>6. r \in Message /\ r.seq = n + 1 /\ r.type = "REQUEST"
      BY <2>1, LinkConstants DEF Msg, Message, MessageType, List
    <3> HIDE DEF r
    <3>7. ASSUME NEW i \in 1..Len(down')
          PROVE  /\ down'[i].type = "REQUEST" => down'[i].seq = n + 1
                 /\ down'[i].type # "ACK"
      <4>1. down'[i].type \in {"REQUEST", "ACK"} => down'[i] = r
        BY <1>1, <1>2, <3>1, <3>6, NewAnswer
      <4> QED BY <3>6, <4>1
    <3>8. UploadAnswer'
      BY <3>1, <3>4, <3>7 DEF UploadAnswer
    <3> QED BY <1>4, <3>5, <3>8 DEF Upload
  <2> QED BY <1>6, <2>2, <2>3
<1> QED BY <1>1, <1>2, <1>3, <1>5, <1>6 DEF ITEM, TypeOK

(* Nothing else is under way to the vehicle during an upload.              *)
LEMMA UploadOther ==
  ASSUME LinkInv, Upload, REQUEST_LIST \/ REQUEST \/ ITEM_INT \/ ACK \/ SCRIPT_ITEM
  PROVE  Upload'
<1>1. LinkTyped
  BY DEF LinkInv, Links
<1>2. gcs.last.type \notin {"COUNT", "ITEM"} /\ gcs' = gcs
  BY <1>1, Received DEF REQUEST_LIST, REQUEST, ITEM_INT, ACK, SCRIPT_ITEM
<1>3. gcs'.session # "write"
  BY <1>2 DEF Upload, UploadAsks
<1> QED BY <1>3 DEF Upload, UploadAsks, UploadItem, UploadAnswer

(* The vehicle asks again, or gives up.                                    *)
LEMMA UploadPeriodic ==
  ASSUME LinkInv, Upload, mavlink_mission_periodic
  PROVE  Upload'
<1>1. TypeOK /\ Links
  BY DEF LinkInv
<1> DEFINE m == Msg("SCRIPT_CURRENT", "block", nav_block, 0)
<1>2. m \in Message /\ m.type = "SCRIPT_CURRENT"
  <2>1. nav_block \in Nat
    BY <1>1, LinkConstants DEF TypeOK
  <2> QED BY <2>1 DEF Msg, Message, MessageType, List
<1>3. /\ down' = down \/ down' = Sent(down, m)
      /\ UNCHANGED <<waypoints, gcs>>
  BY DEF mavlink_mission_periodic, plan
<1> HIDE DEF m
<1>4. \A i \in 1..Len(down') :
        down'[i].type \in {"REQUEST", "ACK"} => \E j \in 1..Len(down) : down'[i] = down[j]
  <2>1. down \in Seq(Message)
    BY <1>1 DEF Links, LinkTyped
  <2>2. \A i \in 1..Len(Sent(down, m)) :
          \/ i \in 1..Len(down) /\ Sent(down, m)[i] = down[i]
          \/ Sent(down, m)[i] = m
    BY <1>2, <2>1, SentOne
  <2> QED BY <1>2, <1>3, <2>2
<1>5. CASE timer # 0
  BY <1>3, <1>4, <1>5, UploadKept DEF mavlink_mission_periodic
<1>6. CASE timer = 0
  <2>1. expired' = (expired \/ state = "WRITE") /\ state # "IDLE"
    BY <1>1, <1>6 DEF mavlink_mission_periodic, TypeOK, Off
  <2>2. CASE expired'
    BY <1>3, <2>2 DEF Upload, UploadAsks, UploadItem, UploadAnswer
  <2>3. CASE ~expired'
    <3>1. ~expired /\ state \notin {"WRITE", "IDLE"}
      BY <2>1, <2>3
    <3>2. UploadAsks' /\ UploadItem'
      BY <1>3, <3>1 DEF Upload, UploadAsks, UploadItem
    <3>3. UploadAnswer'
      BY <1>3, <1>4, <3>1 DEF Upload, UploadAnswer, Written
    <3> QED BY <3>2, <3>3 DEF Upload
  <2> QED BY <2>2, <2>3
<1> QED BY <1>5, <1>6

(* A new session begins.                                                   *)
LEMMA UploadStart ==
  ASSUME LinkInv, Upload, Start
  PROVE  Upload'
<1>1. down' = <<>> /\ Len(<<>>) = 0
  BY DEF Start, Quiet
<1>2. CASE gcs'.session # "write"
  BY <1>2 DEF Upload, UploadAsks, UploadItem, UploadAnswer
<1>3. CASE Say(Msg("COUNT", "waypoint", NB_WAYPOINT, 0), "write", "waypoint", 0, 1 - gcs.value)
  <2>1. gcs'.last.type = "COUNT"
    BY <1>3 DEF Say, Msg
  <2> QED BY <1>1, <2>1 DEF Upload, UploadAsks, UploadItem, UploadAnswer
<1> QED BY <1>2, <1>3 DEF Start, Say

(* The ground station answers a request, or takes the acknowledgement.     *)
LEMMA UploadHears ==
  ASSUME LinkInv, Upload, Hears
  PROVE  Upload'
<1>1. TypeOK /\ Links /\ gcs \in Ground /\ down # <<>>
  BY DEF LinkInv, Links, LinkTyped, Hears
<1>2. UNCHANGED <<state, seq, waypoints, expired>>
  BY DEF Hears, manager, plan, history
<1>3. CASE gcs'.session # "write"
  BY <1>3 DEF Upload, UploadAsks, UploadItem, UploadAnswer
<1>4. CASE Read
  <2>1. gcs'.session # "write"
    BY <1>4 DEF Read, Say
  <2> QED BY <1>3, <2>1
<1>5. CASE Finished
  <2>1. gcs'.session = "none"
    BY <1>1, <1>5 DEF Finished, Ground
  <2> QED BY <1>3, <2>1
<1>6. CASE down' = Tail(down) /\ gcs' = gcs
  BY <1>1, <1>2, <1>6, UploadTail
<1>7. CASE WriteItem
  <2>1. /\ gcs.session = "write" /\ down' = Tail(down)
        /\ Head(down).type = "REQUEST" /\ Answer(Head(down))
        /\ gcs' = [session |-> "write", list |-> "waypoint", next |-> 0, value |-> gcs.value,
                   last |-> Msg("ITEM", "waypoint", Head(down).seq, gcs.value)]
    BY <1>7 DEF WriteItem, Hear, Answer, Say
  <2>2. /\ gcs'.session = "write" /\ gcs'.value = gcs.value /\ gcs'.last.type = "ITEM"
        /\ gcs'.last.seq = Head(down).seq /\ gcs'.last.value = gcs.value
    BY <2>1 DEF Msg
  <2>3. \A i \in 1..Len(down') : ~Answer(down'[i])
    BY <1>1, <2>1, Takes
  <2>4. UploadAsks' /\ UploadAnswer'
    BY <2>2, <2>3 DEF UploadAsks, UploadAnswer, Answer
  <2>5. ASSUME ~expired PROVE state = "WRITE" /\ seq = Head(down).seq /\ Written(seq)
    <3>1. Head(down) = down[1] /\ 1 \in 1..Len(down)
      BY <1>1, RestOf DEF Links, LinkTyped
    <3> QED BY <2>1, <2>5, <3>1 DEF Upload, UploadAnswer
  <2>6. UploadItem'
    BY <1>2, <2>2, <2>5 DEF UploadItem, Written
  <2> QED BY <2>4, <2>6 DEF Upload
<1> QED BY <1>4, <1>5, <1>6, <1>7 DEF Hears

(* One case per message and per action.                                    *)
LEMMA UploadStep == LinkInv /\ Upload /\ [Next]_vars => Upload'
<1> SUFFICES ASSUME LinkInv, Upload, [Next]_vars PROVE Upload'
  OBVIOUS
<1>0. Links
  BY DEF LinkInv
<1> USE DEF manager, plan, history
<1>1. CASE mavlink_mission_message_handler
  BY <1>1, UploadCount, UploadItems, UploadOther DEF mavlink_mission_message_handler
<1>2. CASE Tick
  BY <1>2, UploadSame DEF Tick
<1>3. CASE Lose
  BY <1>0, <1>3, UploadSame, UploadTail DEF Lose
<1>4. CASE Retry
  <2>1. CASE gcs' = gcs
    BY <1>4, <2>1, UploadSame DEF Retry
  <2>2. CASE gcs' = [gcs EXCEPT !.session = "none"]
    <3>1. gcs'.session # "write"
      BY <1>0, <2>2 DEF Links, LinkTyped, Ground
    <3> QED BY <3>1 DEF Upload, UploadAsks, UploadItem, UploadAnswer
  <2> QED BY <1>4, <2>1, <2>2 DEF Retry
<1>5. CASE UNCHANGED vars
  BY <1>5, UploadSame DEF vars
<1> QED
  BY <1>1, <1>2, <1>3, <1>4, <1>5, UploadPeriodic, UploadStart, UploadHears DEF Next

(* The step in which the ground station takes the acknowledgement.         *)
LEMMA AckMeansWritten ==
  ASSUME LinkInv, Upload, [Next]_vars,
         gcs.session = "write", gcs'.session = "none", down # <<>>, ~expired
  PROVE  \A n \in DOMAIN waypoints : waypoints[n] = gcs.value
<1>1. TypeOK /\ Links /\ LinkTyped
  BY DEF LinkInv, Links
<1>2. gcs' # gcs
  OBVIOUS
<1>3. Hears
  BY <1>2 DEF Next, mavlink_mission_message_handler, REQUEST_LIST, REQUEST, COUNT, ITEM, ITEM_INT,
              ACK, SCRIPT_ITEM, mavlink_mission_periodic, Tick, Lose, Start, Quiet, Retry, vars
<1>4. Hear("ACK")
  BY <1>2, <1>3 DEF Hears, Read, WriteItem, Say, Finished
<1>5. Head(down) = down[1] /\ 1 \in 1..Len(down) /\ Head(down).type = "ACK"
  BY <1>1, <1>4, RestOf DEF LinkTyped, Hear
<1>6. Written(NB_WAYPOINT)
  BY <1>5 DEF Upload, UploadAnswer
<1>7. DOMAIN waypoints = 0..(NB_WAYPOINT - 1)
  BY <1>1 DEF TypeOK
<1> QED BY <1>6, <1>7 DEF Written

(* An acknowledged upload wrote every waypoint, for lists of every length, *)
(* whatever was lost and repeated (mavlink_wp_message_handler).            *)
THEOREM LinkUpload == Spec => AckedUploadIsWritten
<1>1. Init => Upload
  BY DEF Init, Upload, UploadAsks, UploadItem, UploadAnswer
<1>2. ASSUME LinkInv, Upload, [Next]_vars
      PROVE  [gcs.session = "write" /\ gcs'.session = "none" /\ down # <<>> /\ ~expired
              => \A n \in DOMAIN waypoints : waypoints[n] = gcs.value]_vars
  BY <1>2, AckMeansWritten
<1> QED BY <1>1, <1>2, UploadStep, LinkInvariance, PTL DEF Spec, AckedUploadIsWritten
=============================================================================
