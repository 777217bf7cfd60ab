------------------------- MODULE GamepadEventsProofs -------------------------
(***************************************************************************)
(* What holds of GamepadEvents for any device, and a queue of any size.    *)
(***************************************************************************)
EXTENDS GamepadEvents, TLAPS

(* The client listens to everything: what it is not told it cannot know,   *)
(* and without button_press it is told of releases alone.                  *)
ASSUME HearsAll ==
  Listeners = {"button_press", "button_release", "stick_motion", "trigger_motion"}

-----------------------------------------------------------------------------
(* The inductive invariant.                                                *)

(* The events that the device sends.                                       *)
ButtonEvents == [type : {"button"}, number : Buttons, value : {0, 1}]
AxisEvents ==
  {e \in [type : {"axis"}, number : Axes, value : -MaxValue .. MaxValue] :
     e.number \in DpadAxes => e.value \in {-MaxValue, 0, MaxValue}}
Events == ButtonEvents \cup AxisEvents \cup {InitEvent}
QueueTyped == queue \in Seq(Events)
PositionTyped == \A n \in DpadAxes : position[n] \in {-MaxValue, 0, MaxValue}

(* Without a device there are no events; without a connection the client   *)
(* knows of nothing.                                                       *)
AtRestWithout ==
  /\ ~ plugged => queue = <<>> /\ held = {} /\ position = [n \in Axes |-> 0]
  /\ ~ is_connected => ~ plugged /\ pressed = {} /\ motion = AtRest

(* A channel is a button or an axis.  Its events in the queue q lead from  *)
(* what the client was told to what the device has now: the last tells     *)
(* what is now, and without any the client was told what is now.           *)
On(e, type, number) == e.type = type /\ e.number = number
Latest(q, type, number, now) ==
  \A k \in 1 .. Len(q) :
    On(q[k], type, number) /\ (\A j \in k + 1 .. Len(q) : ~ On(q[j], type, number)) =>
      q[k].value = now
Silent(q, type, number) == \A k \in 1 .. Len(q) : ~ On(q[k], type, number)

(* The events of a button, and of an axis of the d-pad that does not flip, *)
(* are zero in turn.                                                       *)
Follows(x, y) == x = 0 <=> y # 0
InTurn(q, type, number, told) ==
  /\ \A k \in 1 .. Len(q) :
       On(q[k], type, number) /\ (\A j \in 1 .. k - 1 : ~ On(q[j], type, number)) =>
         Follows(told, q[k].value)
  /\ \A j, k \in 1 .. Len(q) :
       /\ j < k /\ On(q[j], type, number) /\ On(q[k], type, number)
       /\ \A i \in j + 1 .. k - 1 : ~ On(q[i], type, number)
       => Follows(q[j].value, q[k].value)

Leads(q, type, number, told, now) ==
  /\ Latest(q, type, number, now)
  /\ InTurn(q, type, number, told)
  /\ Silent(q, type, number) => told = now

ToldOfButton(n) == IF ButtonOf(n) \in pressed THEN 1 ELSE 0
Held(n) == IF n \in held THEN 1 ELSE 0
ButtonsLead == \A n \in Buttons : Leads(queue, "button", n, ToldOfButton(n), Held(n))

SideIn(told, positive, negative) ==
  IF <<positive, DPAD>> \in told THEN MaxValue
  ELSE IF <<negative, DPAD>> \in told THEN -MaxValue ELSE 0
ToldOfSide(positive, negative) == SideIn(pressed, positive, negative)
ToldOfAxis(n) ==
  IF n = UP_DOWN_DPAD_AXIS THEN ToldOfSide("DOWN", "UP") ELSE ToldOfSide("RIGHT", "LEFT")
PositionOf(n) == IF n \in Axes THEN position[n] ELSE 0
DpadLeads ==
  \A n \in {LEFT_RIGHT_DPAD_AXIS, UP_DOWN_DPAD_AXIS} :
    Leads(queue, "axis", n, ToldOfAxis(n), PositionOf(n))

(* A flag tells which side of its axis the client takes for pressed.       *)
FlagsTell ==
  /\ dpad_down_pressed <=> <<"DOWN", DPAD>> \in pressed
  /\ dpad_right_pressed <=> <<"RIGHT", DPAD>> \in pressed
  /\ ~ (<<"DOWN", DPAD>> \in pressed /\ <<"UP", DPAD>> \in pressed)
  /\ ~ (<<"RIGHT", DPAD>> \in pressed /\ <<"LEFT", DPAD>> \in pressed)

MotionOf(n, v) == IF n \in Triggers THEN TriggerValue(v) ELSE StickValue(v)
MotionLeads ==
  \A n \in Axes \ DpadAxes :
    /\ Latest(queue, "axis", n, position[n])
    /\ Silent(queue, "axis", n) => motion[n] = MotionOf(n, position[n])

KnownAxes == \A k \in 1 .. Len(queue) :
  queue[k].type = "axis" => queue[k].number <= UP_DOWN_DPAD_AXIS

Undisturbed ==
  undisturbed =>
    /\ FlagsTell
    /\ plugged => ButtonsLead /\ DpadLeads /\ MotionLeads /\ KnownAxes

IInv ==
  TypeOK /\ QueueTyped /\ PositionTyped /\ AtRestWithout /\ Undisturbed /\ ReleasableSides

-----------------------------------------------------------------------------
(* Queues.  The device appends an event; the client takes the first.       *)

LEMMA Appended ==
  ASSUME NEW S, NEW q \in Seq(S), NEW e \in S
  PROVE  /\ Append(q, e) \in Seq(S) /\ Len(Append(q, e)) = Len(q) + 1 /\ Len(q) \in Nat
         /\ \A k \in 1 .. Len(q) : Append(q, e)[k] = q[k]
         /\ Append(q, e)[Len(q) + 1] = e
OBVIOUS

LEMMA Taken ==
  ASSUME NEW S, NEW q \in Seq(S), q # <<>>
  PROVE  /\ Tail(q) \in Seq(S) /\ Len(q) \in Nat /\ Len(q) > 0 /\ Len(Tail(q)) = Len(q) - 1
         /\ \A k \in 1 .. Len(q) - 1 : Tail(q)[k] = q[k + 1]
         /\ Head(q) = q[1]
OBVIOUS

LEMMA Alone == ASSUME NEW S, NEW e \in S PROVE <<e>> \in Seq(S) /\ Len(<<e>>) = 1 /\ <<e>>[1] = e
OBVIOUS

LEMMA LatestAppended ==
  ASSUME NEW S, NEW q \in Seq(S), NEW e \in S, NEW type, NEW number, NEW now,
         Latest(q, type, number, now)
  PROVE  /\ On(e, type, number) => Latest(Append(q, e), type, number, e.value)
         /\ ~ On(e, type, number) => Latest(Append(q, e), type, number, now)
         /\ Silent(Append(q, e), type, number) <=> Silent(q, type, number) /\ ~ On(e, type, number)
<1> USE Appended
<1>1. ASSUME On(e, type, number)
      PROVE  Latest(Append(q, e), type, number, e.value)
  BY <1>1 DEF Latest
<1>2. ASSUME ~ On(e, type, number)
      PROVE  Latest(Append(q, e), type, number, now)
  BY <1>2 DEF Latest
<1>3. Silent(Append(q, e), type, number) <=> Silent(q, type, number) /\ ~ On(e, type, number)
  BY DEF Silent
<1> QED
  BY <1>1, <1>2, <1>3

LEMMA LatestTaken ==
  ASSUME NEW S, NEW q \in Seq(S), q # <<>>, NEW type, NEW number, NEW now,
         Latest(q, type, number, now)
  PROVE  /\ Latest(Tail(q), type, number, now)
         /\ Silent(Tail(q), type, number) /\ On(Head(q), type, number) => Head(q).value = now
         /\ Silent(Tail(q), type, number) /\ ~ On(Head(q), type, number) => Silent(q, type, number)
<1>0. /\ Len(q) \in Nat /\ Len(q) > 0 /\ Len(Tail(q)) = Len(q) - 1 /\ Head(q) = q[1]
      /\ \A k \in 1 .. Len(q) - 1 : Tail(q)[k] = q[k + 1]
  BY Taken
<1>1. Latest(Tail(q), type, number, now)
  <2> SUFFICES ASSUME NEW k \in 1 .. Len(q) - 1, On(q[k + 1], type, number),
                      \A j \in k + 1 .. Len(q) - 1 : ~ On(q[j + 1], type, number)
               PROVE  q[k + 1].value = now
    BY <1>0 DEF Latest
  <2>1. ASSUME NEW j \in (k + 1) + 1 .. Len(q) PROVE ~ On(q[j], type, number)
    <3>1. j - 1 \in k + 1 .. Len(q) - 1 /\ (j - 1) + 1 = j
      BY <1>0
    <3> QED
      BY <3>1
  <2> QED
    BY <1>0, <2>1 DEF Latest
<1>2. ASSUME Silent(Tail(q), type, number), NEW j \in 2 .. Len(q) PROVE ~ On(q[j], type, number)
  <2>1. j - 1 \in 1 .. Len(q) - 1 /\ Tail(q)[j - 1] = q[j]
    BY <1>0
  <2> QED
    BY <1>0, <1>2, <2>1 DEF Silent
<1>3. ASSUME Silent(Tail(q), type, number), On(Head(q), type, number) PROVE Head(q).value = now
  BY <1>0, <1>2, <1>3 DEF Latest
<1>4. ASSUME Silent(Tail(q), type, number), ~ On(Head(q), type, number) PROVE Silent(q, type, number)
  BY <1>0, <1>2, <1>4 DEF Silent
<1> QED
  BY <1>1, <1>3, <1>4

(* What is appended of a channel that takes turns.                         *)
LEMMA LeadsAppended ==
  ASSUME NEW S, NEW q \in Seq(S), NEW e \in S, NEW type, NEW number, NEW told, NEW now,
         Leads(q, type, number, told, now)
  PROVE  /\ On(e, type, number) /\ Follows(now, e.value) =>
              Leads(Append(q, e), type, number, told, e.value)
         /\ ~ On(e, type, number) => Leads(Append(q, e), type, number, told, now)
<1> DEFINE r == Append(q, e)
<1>0. /\ Len(r) = Len(q) + 1 /\ Len(q) \in Nat /\ r[Len(q) + 1] = e
      /\ \A k \in 1 .. Len(q) : r[k] = q[k]
  BY Appended
<1> HIDE DEF r
<1>1. ASSUME On(e, type, number), Follows(now, e.value)
      PROVE  InTurn(r, type, number, told)
  <2>1. ASSUME NEW k \in 1 .. Len(r), On(r[k], type, number),
               \A j \in 1 .. k - 1 : ~ On(r[j], type, number)
        PROVE  Follows(told, r[k].value)
    <3>1. CASE k \in 1 .. Len(q)
      BY <1>0, <2>1, <3>1 DEF Leads, InTurn
    <3>2. CASE k = Len(q) + 1
      <4>1. told = now
        BY <1>0, <2>1, <3>2 DEF Leads, Silent
      <4> QED
        BY <1>0, <1>1, <3>2, <4>1
    <3> QED
      BY <1>0, <3>1, <3>2
  <2>2. ASSUME NEW j \in 1 .. Len(r), NEW k \in 1 .. Len(r), j < k,
               On(r[j], type, number), On(r[k], type, number),
               \A i \in j + 1 .. k - 1 : ~ On(r[i], type, number)
        PROVE  Follows(r[j].value, r[k].value)
    <3>1. CASE k \in 1 .. Len(q)
      <4>1. j \in 1 .. Len(q) /\ \A i \in j + 1 .. k - 1 : ~ On(q[i], type, number)
        BY <1>0, <2>2, <3>1
      <4> QED
        BY <1>0, <2>2, <3>1, <4>1 DEF Leads, InTurn
    <3>2. CASE k = Len(q) + 1
      <4>1. j \in 1 .. Len(q) /\ \A i \in j + 1 .. Len(q) : ~ On(q[i], type, number)
        BY <1>0, <2>2, <3>2
      <4>2. q[j].value = now
        BY <1>0, <2>2, <4>1 DEF Leads, Latest
      <4> QED
        BY <1>0, <1>1, <3>2, <4>1, <4>2
    <3> QED
      BY <1>0, <3>1, <3>2
  <2> QED
    BY <2>1, <2>2 DEF InTurn
<1>2. ASSUME ~ On(e, type, number)
      PROVE  InTurn(r, type, number, told)
  <2>1. ASSUME NEW k \in 1 .. Len(r), On(r[k], type, number),
               \A j \in 1 .. k - 1 : ~ On(r[j], type, number)
        PROVE  Follows(told, r[k].value)
    BY <1>0, <1>2, <2>1 DEF Leads, InTurn
  <2>2. ASSUME NEW j \in 1 .. Len(r), NEW k \in 1 .. Len(r), j < k,
               On(r[j], type, number), On(r[k], type, number),
               \A i \in j + 1 .. k - 1 : ~ On(r[i], type, number)
        PROVE  Follows(r[j].value, r[k].value)
    <3>1. j \in 1 .. Len(q) /\ k \in 1 .. Len(q)
      BY <1>0, <1>2, <2>2
    <3>2. \A i \in j + 1 .. k - 1 : ~ On(q[i], type, number)
      BY <1>0, <2>2, <3>1
    <3> QED
      BY <1>0, <2>2, <3>1, <3>2 DEF Leads, InTurn
  <2> QED
    BY <2>1, <2>2 DEF InTurn
<1> QED
  BY <1>1, <1>2, LatestAppended DEF Leads, r

(* What is taken of a channel that takes turns.                            *)
LEMMA LeadsTaken ==
  ASSUME NEW S, NEW q \in Seq(S), q # <<>>, NEW type, NEW number, NEW told, NEW now,
         Leads(q, type, number, told, now)
  PROVE  /\ On(Head(q), type, number) =>
              /\ Follows(told, Head(q).value)
              /\ Leads(Tail(q), type, number, Head(q).value, now)
         /\ ~ On(Head(q), type, number) => Leads(Tail(q), type, number, told, now)
<1> DEFINE r == Tail(q)
<1>0. /\ Len(q) \in Nat /\ Len(q) > 0 /\ Len(r) = Len(q) - 1 /\ Head(q) = q[1]
      /\ \A k \in 1 .. Len(r) : r[k] = q[k + 1]
  BY Taken
<1> HIDE DEF r
<1>1. ASSUME NEW j \in 1 .. Len(r), NEW k \in 1 .. Len(r), j < k,
             On(r[j], type, number), On(r[k], type, number),
             \A i \in j + 1 .. k - 1 : ~ On(r[i], type, number)
      PROVE  Follows(r[j].value, r[k].value)
  <2>1. ASSUME NEW i \in (j + 1) + 1 .. (k + 1) - 1 PROVE ~ On(q[i], type, number)
    <3>1. i - 1 \in j + 1 .. k - 1 /\ r[i - 1] = q[i]
      BY <1>0
    <3> QED
      BY <1>1, <3>1
  <2>2. j + 1 \in 1 .. Len(q) /\ k + 1 \in 1 .. Len(q) /\ j + 1 < k + 1
    BY <1>0, <1>1
  <2> QED
    BY <1>0, <1>1, <2>1, <2>2 DEF Leads, InTurn
<1>2. ASSUME NEW k \in 1 .. Len(r), On(r[k], type, number),
             \A j \in 1 .. k - 1 : ~ On(r[j], type, number),
             NEW j \in 2 .. k
      PROVE  ~ On(q[j], type, number)
  <2>1. j - 1 \in 1 .. k - 1 /\ r[j - 1] = q[j]
    BY <1>0
  <2> QED
    BY <1>2, <2>1
<1>3. ASSUME On(q[1], type, number)
      PROVE  Follows(told, q[1].value) /\ InTurn(r, type, number, q[1].value)
  <2>1. Follows(told, q[1].value)
    BY <1>0, <1>3 DEF Leads, InTurn
  <2>2. ASSUME NEW k \in 1 .. Len(r), On(r[k], type, number),
               \A j \in 1 .. k - 1 : ~ On(r[j], type, number)
        PROVE  Follows(q[1].value, r[k].value)
    <3>1. 1 \in 1 .. Len(q) /\ k + 1 \in 1 .. Len(q) /\ 1 < k + 1 /\ r[k] = q[k + 1]
      BY <1>0
    <3>2. \A i \in 1 + 1 .. (k + 1) - 1 : ~ On(q[i], type, number)
      BY <1>2, <2>2
    <3> QED
      BY <1>3, <2>2, <3>1, <3>2 DEF Leads, InTurn
  <2> QED
    BY <1>1, <2>1, <2>2 DEF InTurn
<1>4. ASSUME ~ On(q[1], type, number)
      PROVE  InTurn(r, type, number, told)
  <2>1. ASSUME NEW k \in 1 .. Len(r), On(r[k], type, number),
               \A j \in 1 .. k - 1 : ~ On(r[j], type, number)
        PROVE  Follows(told, r[k].value)
    <3>1. k + 1 \in 1 .. Len(q) /\ r[k] = q[k + 1]
      BY <1>0
    <3>2. \A i \in 1 .. (k + 1) - 1 : ~ On(q[i], type, number)
      BY <1>2, <1>4, <2>1
    <3> QED
      BY <2>1, <3>1, <3>2 DEF Leads, InTurn
  <2> QED
    BY <1>1, <2>1 DEF InTurn
<1> QED
  BY <1>0, <1>3, <1>4, LatestTaken DEF Leads, r

-----------------------------------------------------------------------------
(* Types.                                                                  *)

(* The name of a button tells its number, and is none of the d-pad's.      *)
LEMMA ButtonNames ==
  /\ \A n, m \in Nat : ButtonOf(n) = ButtonOf(m) => n = m
  /\ \A n \in Nat : \A side \in {"UP", "DOWN", "LEFT", "RIGHT"} : ButtonOf(n) # <<side, DPAD>>
<1>1. ASSUME NEW n \in Nat PROVE ButtonOf(n)[2] = n
  BY DEF ButtonOf
<1>2. ASSUME NEW side \in {"UP", "DOWN", "LEFT", "RIGHT"} PROVE ButtonOf(255) # <<side, DPAD>>
  BY DEF ButtonOf
<1>3. ASSUME NEW n \in Nat, NEW side PROVE ButtonOf(n) = <<side, DPAD>> => n = 255
  BY <1>1 DEF DPAD
<1> QED
  BY <1>1, <1>2, <1>3

(* What the client is called for.                                          *)
LEMMA Called ==
  ASSUME NEW e \in Events
  PROVE  /\ e.type = "button" =>
              CallFor(e) = <<IF e.value > 0 THEN "press" ELSE "release", ButtonOf(e.number)>>
         /\ IsDpad(e) =>
              CallFor(e) = <<IF e.value # 0 THEN "press" ELSE "release",
                             IF e.number = UP_DOWN_DPAD_AXIS
                             THEN Side("DOWN", "UP", dpad_down_pressed, e.value)
                             ELSE Side("RIGHT", "LEFT", dpad_right_pressed, e.value)>>
         /\ e.type # "button" /\ ~ IsDpad(e) => CallFor(e) = NoCall
<1>1. ASSUME NEW b PROVE /\ button_action(b, TRUE) = <<"press", b>>
                         /\ button_action(b, FALSE) = <<"release", b>>
  BY HearsAll DEF button_action
<1>2. ASSUME e.type = "button"
      PROVE  CallFor(e) = <<IF e.value > 0 THEN "press" ELSE "release", ButtonOf(e.number)>>
  <2>1. CallFor(e) = handle_button_event(e)
    BY <1>2 DEF CallFor, IsDpad
  <2>2. CASE e.value > 0
    <3>1. (e.value > 0) = TRUE
      BY <2>2
    <3> QED
      BY <1>1, <2>1, <2>2, <3>1 DEF handle_button_event
  <2>3. CASE ~ (e.value > 0)
    <3>1. (e.value > 0) = FALSE
      BY <2>3
    <3> QED
      BY <1>1, <2>1, <2>3, <3>1 DEF handle_button_event
  <2> QED
    BY <2>2, <2>3
<1>3. ASSUME IsDpad(e)
      PROVE  CallFor(e) = <<IF e.value # 0 THEN "press" ELSE "release",
                            IF e.number = UP_DOWN_DPAD_AXIS
                            THEN Side("DOWN", "UP", dpad_down_pressed, e.value)
                            ELSE Side("RIGHT", "LEFT", dpad_right_pressed, e.value)>>
  <2>1. CallFor(e) = handle_dpad_event(e)
    BY <1>3 DEF CallFor, IsDpad
  <2>2. CASE e.value # 0
    BY <1>1, <2>1, <2>2 DEF handle_dpad_event
  <2>3. CASE e.value = 0
    BY <1>1, <2>1, <2>3 DEF handle_dpad_event
  <2> QED
    BY <2>2, <2>3
<1>4. ASSUME e.type # "button", ~ IsDpad(e) PROVE CallFor(e) = NoCall
  BY <1>4 DEF CallFor
<1> QED
  BY <1>2, <1>3, <1>4

(* A queue of the device's events is what TypeOK asks for.                 *)
LEMMA QueueTypes ==
  ASSUME NEW q \in Seq(Events)
  PROVE  \A k \in DOMAIN q :
           q[k] \in [type : {"button", "axis", "init"}, number : Buttons \cup Axes \cup {0},
                     value : -MaxValue .. MaxValue]
<1>1. MaxValue \in Nat /\ MaxValue > 0
  BY EventsAssumption
<1> SUFFICES ASSUME NEW e \in Events
             PROVE  e \in [type : {"button", "axis", "init"}, number : Buttons \cup Axes \cup {0},
                           value : -MaxValue .. MaxValue]
  OBVIOUS
<1>2. CASE e \in ButtonEvents
  BY <1>1, <1>2 DEF ButtonEvents
<1>3. CASE e \in AxisEvents
  BY <1>3 DEF AxisEvents
<1>4. CASE e = InitEvent
  BY <1>1, <1>4 DEF InitEvent, Event
<1> QED
  BY <1>2, <1>3, <1>4 DEF Events

(* What an event becomes; as long as nothing disturbs the flags it is      *)
(* appended.                                                               *)
LEMMA Delivered ==
  ASSUME QueueTyped, undisturbed \in BOOLEAN, NEW e \in Events, NEW harmless \in BOOLEAN,
         Deliver(e, harmless)
  PROVE  /\ QueueTyped' /\ undisturbed' \in BOOLEAN
         /\ undisturbed' => undisturbed /\ harmless /\ queue' = Append(queue, e)
<1>1. InitEvent \in Events
  BY DEF Events
<1>2. CASE Overflows
  <2>1. queue' = <<InitEvent>> /\ undisturbed' = FALSE
    BY <1>2 DEF Deliver
  <2> QED
    BY <1>1, <2>1, Alone DEF QueueTyped
<1>3. CASE ~ Overflows
  <2>1. queue' = Append(queue, e) /\ undisturbed' = (undisturbed /\ harmless)
    BY <1>3 DEF Deliver
  <2> QED
    BY <2>1 DEF QueueTyped
<1> QED
  BY <1>2, <1>3

(* A channel of which the queue knows nothing.                             *)
LEMMA LeadsSilent ==
  ASSUME NEW q, NEW type, NEW number, NEW told, Silent(q, type, number)
  PROVE  Leads(q, type, number, told, told) /\ \A now : Latest(q, type, number, now)
BY DEF Leads, Latest, InTurn, Silent

-----------------------------------------------------------------------------
(* The device.                                                             *)

LEMMA InitIInv == Init => IInv
<1> SUFFICES ASSUME Init PROVE IInv
  OBVIOUS
<1>0. MaxValue \in Nat /\ MaxValue > 0
  BY EventsAssumption
<1>1. queue \in Seq(Events) /\ DOMAIN queue = {}
  BY DEF Init
<1>2. TypeOK
  <2>1. AtRest \in [Axes \ DpadAxes -> -MaxValue .. 2 * MaxValue]
    BY <1>0 DEF AtRest
  <2>2. [n \in Axes |-> 0] \in [Axes -> -MaxValue .. MaxValue]
    BY <1>0
  <2> QED
    BY <1>1, <2>1, <2>2 DEF Init, TypeOK
<1> QED
  BY <1>1, <1>2
     DEF Init, IInv, QueueTyped, PositionTyped, AtRestWithout, Undisturbed, FlagsTell,
                    ReleasableSides, DpadAxes

LEMMA ButtonStep ==
  ASSUME IInv, NEW n \in Buttons, Button(n)
  PROVE  IInv'
<1> DEFINE e == Event("button", n, Held(n)')
<1>1. /\ is_connected = TRUE /\ plugged = TRUE
      /\ held' = IF n \in held THEN held \ {n} ELSE held \cup {n}
      /\ UNCHANGED <<plugged, is_connected, dpad_down_pressed, dpad_right_pressed, pressed,
                     motion, position>>
  BY DEF Button, NotDevice, dpadVars, clientVars, IInv, TypeOK
<1>2. Deliver(e, TRUE)
  BY DEF Button, Held
<1>3. e \in Events /\ e.type = "button" /\ e.number = n /\ e.value = Held(n)'
  BY DEF Event, Held, Events, ButtonEvents
<1>4. /\ queue \in Seq(Events) /\ QueueTyped' /\ undisturbed' \in BOOLEAN
      /\ undisturbed' => undisturbed /\ queue' = Append(queue, e)
  BY <1>2, <1>3, Delivered DEF IInv, TypeOK, QueueTyped
<1> HIDE DEF e
<1>5. TypeOK'
  <2>1. held' \subseteq Buttons
    BY <1>1 DEF IInv, TypeOK
  <2>2. \A k \in DOMAIN queue' :
          queue'[k] \in [type : {"button", "axis", "init"}, number : Buttons \cup Axes \cup {0},
                         value : -MaxValue .. MaxValue]
    BY <1>4, QueueTypes DEF QueueTyped
  <2> QED
    BY <1>1, <1>4, <2>1, <2>2 DEF IInv, TypeOK, AllButtons
<1>6. ASSUME undisturbed'
      PROVE  FlagsTell' /\ ButtonsLead' /\ DpadLeads' /\ MotionLeads' /\ KnownAxes'
  <2>0. /\ FlagsTell /\ ButtonsLead /\ DpadLeads /\ MotionLeads /\ KnownAxes
        /\ queue' = Append(queue, e)
    BY <1>1, <1>4, <1>6 DEF IInv, Undisturbed
  <2>1. FlagsTell'
    BY <1>1, <2>0 DEF FlagsTell
  <2>2. ASSUME NEW m \in Buttons
        PROVE  Leads(queue', "button", m, ToldOfButton(m)', Held(m)')
    <3>1. ToldOfButton(m)' = ToldOfButton(m) /\ Leads(queue, "button", m, ToldOfButton(m), Held(m))
      BY <1>1, <2>0 DEF ToldOfButton, ButtonsLead
    <3>2. CASE m = n
      <4>1. Follows(Held(n), Held(n)')
        BY <1>1 DEF Held, Follows
      <4>2. On(e, "button", m)
        BY <1>3, <3>2 DEF On
      <4> QED
        BY <1>3, <1>4, <2>0, <3>1, <3>2, <4>1, <4>2, LeadsAppended
    <3>3. CASE m # n
      <4>1. Held(m)' = Held(m)
        BY <1>1, <3>3 DEF Held
      <4>2. ~ On(e, "button", m)
        BY <1>3, <3>3 DEF On
      <4> QED
        BY <1>3, <1>4, <2>0, <3>1, <4>1, <4>2, LeadsAppended
    <3> QED
      BY <3>2, <3>3
  <2>3. ASSUME NEW m PROVE ~ On(e, "axis", m)
    BY <1>3 DEF On
  <2>4. ASSUME NEW m \in {LEFT_RIGHT_DPAD_AXIS, UP_DOWN_DPAD_AXIS}
        PROVE  Leads(queue', "axis", m, ToldOfAxis(m)', PositionOf(m)')
    <3>1. ToldOfAxis(m)' = ToldOfAxis(m) /\ PositionOf(m)' = PositionOf(m)
      BY <1>1 DEF ToldOfAxis, ToldOfSide, SideIn, PositionOf
    <3>2. Leads(queue, "axis", m, ToldOfAxis(m), PositionOf(m))
      BY <2>0 DEF DpadLeads
    <3> QED
      BY <1>3, <1>4, <2>0, <2>3, <3>1, <3>2, LeadsAppended
  <2>5. MotionLeads'
    <3> SUFFICES ASSUME NEW m \in Axes \ DpadAxes
                 PROVE  /\ Latest(queue', "axis", m, position[m])
                        /\ Silent(queue', "axis", m) => motion[m] = MotionOf(m, position[m])
      BY <1>1 DEF MotionLeads, DpadAxes, MotionOf
    <3>1. /\ Latest(queue, "axis", m, position[m])
          /\ Silent(queue, "axis", m) => motion[m] = MotionOf(m, position[m])
      BY <2>0 DEF MotionLeads
    <3> QED
      BY <1>3, <1>4, <2>0, <2>3, <3>1, LatestAppended
  <2>6. KnownAxes'
    BY <1>3, <1>4, <2>0, Appended DEF KnownAxes
  <2> QED
    BY <2>1, <2>2, <2>4, <2>5, <2>6 DEF ButtonsLead, DpadLeads
<1> QED
  BY <1>1, <1>4, <1>5, <1>6 DEF IInv, PositionTyped, DpadAxes, AtRestWithout, Undisturbed,
                                ReleasableSides

(* An axis of the d-pad that does not flip leaves zero or comes to it.     *)
LEMMA InTurnWithoutFlip ==
  ASSUME NEW x \in {-MaxValue, 0, MaxValue}, NEW v \in {-MaxValue, 0, MaxValue},
         v # x, ~ (v * x < 0)
  PROVE  Follows(x, v)
<1>1. MaxValue \in Int /\ MaxValue > 0
  BY EventsAssumption
<1>2. MaxValue * MaxValue > 0
  BY <1>1
<1>3. (-MaxValue) * MaxValue = -(MaxValue * MaxValue) /\ MaxValue * (-MaxValue) = -(MaxValue * MaxValue)
  BY <1>1
<1>4. (-MaxValue) * MaxValue < 0 /\ MaxValue * (-MaxValue) < 0
  BY <1>1, <1>2, <1>3
<1> QED
  BY <1>1, <1>4 DEF Follows

LEMMA AxisStep ==
  ASSUME IInv, NEW n \in Axes, NEW v \in Values(n), Axis(n, v)
  PROVE  IInv'
<1> DEFINE e == Event("axis", n, v)
           harmless == ~ Flips(n, v) /\ n <= UP_DOWN_DPAD_AXIS
<1>0. /\ MaxValue \in Int /\ MaxValue > 0 /\ n \in Nat
      /\ AnalogValues \subseteq -MaxValue .. MaxValue
  BY EventsAssumption
<1>1. /\ is_connected = TRUE /\ plugged = TRUE /\ v # position[n]
      /\ position' = [position EXCEPT ![n] = v]
      /\ UNCHANGED <<plugged, is_connected, dpad_down_pressed, dpad_right_pressed, pressed,
                     motion, held>>
  BY DEF Axis, NotDevice, dpadVars, clientVars, IInv, TypeOK
<1>2. Deliver(e, harmless)
  BY DEF Axis
<1>3. /\ v \in -MaxValue .. MaxValue
      /\ n \in DpadAxes => v \in {-MaxValue, 0, MaxValue}
  BY <1>0 DEF Values
<1>4. e \in Events /\ e.type = "axis" /\ e.number = n /\ e.value = v
  BY <1>3 DEF Event, Events, AxisEvents
<1>5. harmless \in BOOLEAN
  BY DEF Flips
<1> HIDE DEF e
<1>6. /\ queue \in Seq(Events) /\ QueueTyped' /\ undisturbed' \in BOOLEAN
      /\ undisturbed' => undisturbed /\ harmless /\ queue' = Append(queue, e)
  <2>1. QueueTyped /\ undisturbed \in BOOLEAN
    BY DEF IInv, TypeOK
  <2> HIDE DEF harmless
  <2> QED
    BY <1>2, <1>4, <1>5, <2>1, Delivered DEF QueueTyped
<1>7. position \in [Axes -> -MaxValue .. MaxValue] /\ PositionTyped
  BY DEF IInv, TypeOK
<1>8. /\ position' \in [Axes -> -MaxValue .. MaxValue] /\ position'[n] = v
      /\ \A m \in Axes \ {n} : position'[m] = position[m]
  BY <1>1, <1>3, <1>7
<1>9. TypeOK'
  <2>1. \A k \in DOMAIN queue' :
          queue'[k] \in [type : {"button", "axis", "init"}, number : Buttons \cup Axes \cup {0},
                         value : -MaxValue .. MaxValue]
    BY <1>6, QueueTypes DEF QueueTyped
  <2> QED
    BY <1>1, <1>6, <1>8, <2>1 DEF IInv, TypeOK, AllButtons
<1>10. PositionTyped'
  BY <1>3, <1>7, <1>8 DEF PositionTyped, DpadAxes
<1>11. ASSUME undisturbed'
       PROVE  FlagsTell' /\ ButtonsLead' /\ DpadLeads' /\ MotionLeads' /\ KnownAxes'
  <2>0. /\ FlagsTell /\ ButtonsLead /\ DpadLeads /\ MotionLeads /\ KnownAxes
        /\ queue' = Append(queue, e) /\ ~ Flips(n, v) /\ n <= UP_DOWN_DPAD_AXIS
    BY <1>1, <1>6, <1>11 DEF IInv, Undisturbed
  <2>1. FlagsTell'
    BY <1>1, <2>0 DEF FlagsTell
  <2>2. ASSUME NEW m \in Buttons
        PROVE  Leads(queue', "button", m, ToldOfButton(m)', Held(m)')
    <3>1. /\ ToldOfButton(m)' = ToldOfButton(m) /\ Held(m)' = Held(m)
          /\ Leads(queue, "button", m, ToldOfButton(m), Held(m))
      BY <1>1, <2>0 DEF ToldOfButton, Held, ButtonsLead
    <3>2. ~ On(e, "button", m)
      BY <1>4 DEF On
    <3> QED
      BY <1>4, <1>6, <2>0, <3>1, <3>2, LeadsAppended
  <2>3. ASSUME NEW m PROVE On(e, "axis", m) <=> m = n
    BY <1>4 DEF On
  <2>4. ASSUME NEW m \in {LEFT_RIGHT_DPAD_AXIS, UP_DOWN_DPAD_AXIS}
        PROVE  Leads(queue', "axis", m, ToldOfAxis(m)', PositionOf(m)')
    <3>1. /\ ToldOfAxis(m)' = ToldOfAxis(m)
          /\ Leads(queue, "axis", m, ToldOfAxis(m), PositionOf(m))
      BY <1>1, <2>0 DEF ToldOfAxis, ToldOfSide, SideIn, DpadLeads
    <3>2. CASE m = n
      <4>1. n \in DpadAxes
        BY <1>0, <3>2 DEF DpadAxes, LEFT_RIGHT_DPAD_AXIS, UP_DOWN_DPAD_AXIS
      <4>2. position[n] \in {-MaxValue, 0, MaxValue} /\ v \in {-MaxValue, 0, MaxValue}
        BY <1>3, <1>7, <4>1 DEF PositionTyped
      <4>3. ~ (v * position[n] < 0)
        BY <2>0, <4>1 DEF Flips
      <4>4. Follows(position[n], v)
        BY <1>1, <4>2, <4>3, InTurnWithoutFlip
      <4>5. PositionOf(m) = position[n] /\ PositionOf(m)' = v
        BY <1>8, <3>2 DEF PositionOf
      <4> QED
        BY <1>4, <1>6, <2>0, <2>3, <3>1, <3>2, <4>4, <4>5, LeadsAppended
    <3>3. CASE m # n
      <4>1. PositionOf(m)' = PositionOf(m)
        BY <1>8, <3>3 DEF PositionOf
      <4> QED
        BY <1>4, <1>6, <2>0, <2>3, <3>1, <3>3, <4>1, LeadsAppended
    <3> QED
      BY <3>2, <3>3
  <2>5. MotionLeads'
    <3> SUFFICES ASSUME NEW m \in Axes \ DpadAxes
                 PROVE  /\ Latest(queue', "axis", m, position'[m])
                        /\ Silent(queue', "axis", m) => motion[m] = MotionOf(m, position'[m])
      BY <1>1 DEF MotionLeads, DpadAxes, MotionOf
    <3>1. /\ Latest(queue, "axis", m, position[m])
          /\ Silent(queue, "axis", m) => motion[m] = MotionOf(m, position[m])
      BY <2>0 DEF MotionLeads
    <3> QED
      BY <1>4, <1>6, <1>8, <2>0, <2>3, <3>1, LatestAppended
  <2>6. KnownAxes'
    BY <1>4, <1>6, <2>0, Appended DEF KnownAxes
  <2> QED
    BY <2>1, <2>2, <2>4, <2>5, <2>6 DEF ButtonsLead, DpadLeads
<1>12. AtRestWithout' /\ ReleasableSides' /\ Undisturbed'
  BY <1>1, <1>11 DEF IInv, AtRestWithout, Undisturbed, ReleasableSides
<1> QED
  BY <1>6, <1>9, <1>10, <1>12 DEF IInv

LEMMA UnplugStep ==
  ASSUME IInv, Unplug
  PROVE  IInv'
<1>0. MaxValue \in Int /\ MaxValue > 0
  BY EventsAssumption
<1>1. /\ is_connected = TRUE /\ plugged' = FALSE
      /\ queue' = <<>> /\ held' = {} /\ position' = [m \in Axes |-> 0]
      /\ UNCHANGED <<is_connected, dpad_down_pressed, dpad_right_pressed, pressed, motion,
                     undisturbed>>
  BY DEF Unplug, dpadVars, clientVars, IInv, TypeOK
<1>2. queue' \in Seq(Events) /\ DOMAIN queue' = {}
  BY <1>1
<1>3. /\ position' \in [Axes -> -MaxValue .. MaxValue]
      /\ \A m \in DpadAxes : position'[m] = 0
  BY <1>0, <1>1 DEF DpadAxes
<1>4. TypeOK'
  BY <1>1, <1>2, <1>3 DEF IInv, TypeOK, AllButtons
<1>5. PositionTyped' /\ QueueTyped'
  BY <1>2, <1>3 DEF PositionTyped, QueueTyped, DpadAxes
<1>6. AtRestWithout'
  BY <1>1 DEF AtRestWithout
<1>7. Undisturbed' /\ ReleasableSides'
  BY <1>1 DEF IInv, Undisturbed, FlagsTell, ReleasableSides
<1> QED
  BY <1>4, <1>5, <1>6, <1>7 DEF IInv

(* The device is at rest when it is plugged in, and so is what the client  *)
(* knows of it.                                                            *)
LEMMA PlugStep ==
  ASSUME IInv, Plug
  PROVE  IInv'
<1>0. MaxValue \in Int /\ MaxValue > 0 /\ Deadzone \in Int /\ InitEvent \in Events
  BY EventsAssumption DEF Events
<1>1. /\ plugged' = TRUE /\ is_connected' = TRUE /\ queue' = <<InitEvent>>
      /\ held = {} /\ position = [m \in Axes |-> 0] /\ pressed = {} /\ motion = AtRest
      /\ UNCHANGED <<held, position, dpad_down_pressed, dpad_right_pressed, pressed, motion,
                     undisturbed>>
  BY DEF Plug, dpadVars, clientVars, IInv, AtRestWithout
<1>2. /\ queue' \in Seq(Events) /\ Len(queue') = 1 /\ queue'[1] = InitEvent
  BY <1>0, <1>1, Alone
<1>3. ASSUME NEW m PROVE Silent(queue', "button", m) /\ Silent(queue', "axis", m)
  BY <1>2 DEF Silent, On, InitEvent, Event
<1>4. TypeOK'
  <2>1. \A k \in DOMAIN queue' :
          queue'[k] \in [type : {"button", "axis", "init"}, number : Buttons \cup Axes \cup {0},
                         value : -MaxValue .. MaxValue]
    BY <1>2, QueueTypes
  <2> QED
    BY <1>1, <2>1 DEF IInv, TypeOK, AllButtons
<1>5. ButtonsLead' /\ DpadLeads'
  <2>1. ASSUME NEW m PROVE ToldOfButton(m)' = 0 /\ Held(m)' = 0
    BY <1>1 DEF ToldOfButton, Held
  <2>2. ASSUME NEW m PROVE ToldOfAxis(m)' = 0 /\ PositionOf(m)' = 0
    BY <1>1 DEF ToldOfAxis, ToldOfSide, SideIn, PositionOf
  <2> QED
    BY <1>3, <2>1, <2>2, LeadsSilent DEF ButtonsLead, DpadLeads
<1>6. MotionLeads'
  <2> SUFFICES ASSUME NEW m \in Axes \ DpadAxes
               PROVE  Latest(queue', "axis", m, position'[m]) /\ motion'[m] = MotionOf(m, position'[m])
    BY DEF MotionLeads, DpadAxes, MotionOf
  <2>1. position'[m] = 0 /\ motion'[m] = IF m \in Triggers THEN MaxValue ELSE 0
    BY <1>1 DEF AtRest
  <2>2. MotionOf(m, 0) = IF m \in Triggers THEN MaxValue ELSE 0
    BY <1>0 DEF MotionOf, TriggerValue, StickValue
  <2> QED
    BY <1>3, <2>1, <2>2, LeadsSilent
<1>7. KnownAxes'
  BY <1>2 DEF KnownAxes, InitEvent, Event
<1>8. Undisturbed'
  BY <1>1, <1>5, <1>6, <1>7 DEF IInv, Undisturbed, FlagsTell
<1>9. QueueTyped' /\ PositionTyped' /\ AtRestWithout' /\ ReleasableSides'
  BY <1>1, <1>2 DEF IInv, QueueTyped, PositionTyped, DpadAxes, AtRestWithout, ReleasableSides
<1> QED
  BY <1>4, <1>8, <1>9 DEF IInv

LEMMA DisconnectedStep ==
  ASSUME IInv, Disconnected
  PROVE  IInv'
<1>0. MaxValue \in Nat /\ MaxValue > 0
  BY EventsAssumption
<1>1. /\ plugged = FALSE /\ is_connected' = FALSE /\ pressed' = {} /\ motion' = AtRest
      /\ UNCHANGED <<plugged, held, position, queue, dpad_down_pressed, dpad_right_pressed>>
      /\ undisturbed' \in BOOLEAN
      /\ undisturbed' => ~ dpad_down_pressed /\ ~ dpad_right_pressed
  BY DEF Disconnected, deviceVars, dpadVars, IInv, TypeOK
<1>2. AtRest \in [Axes \ DpadAxes -> -MaxValue .. 2 * MaxValue]
  BY <1>0 DEF AtRest
<1>3. TypeOK'
  BY <1>1, <1>2 DEF IInv, TypeOK, DpadAxes
<1>4. QueueTyped' /\ PositionTyped'
  BY <1>1 DEF IInv, QueueTyped, PositionTyped, DpadAxes
<1>5. AtRestWithout'
  BY <1>1 DEF IInv, AtRestWithout, AtRest, DpadAxes
<1>6. Undisturbed' /\ ReleasableSides'
  BY <1>1 DEF IInv, Undisturbed, FlagsTell, ReleasableSides
<1> QED
  BY <1>3, <1>4, <1>5, <1>6 DEF IInv

-----------------------------------------------------------------------------
(* The client's thread.                                                    *)

(* What holds of the event that is taken, whatever it is.                  *)
LEMMA EventTaken ==
  ASSUME IInv, HandleEvent, NEW e, e = Head(queue)
  PROVE  /\ e \in Events /\ queue # <<>> /\ queue \in Seq(Events)
         /\ queue' = Tail(queue) /\ QueueTyped'
         /\ plugged = TRUE /\ is_connected = TRUE
         /\ UNCHANGED <<plugged, held, position, is_connected, undisturbed>>
         /\ KnownAxes => KnownAxes' /\ (e.type = "axis" => e.number <= UP_DOWN_DPAD_AXIS)
<1>1. /\ queue # <<>> /\ queue \in Seq(Events) /\ queue' = Tail(queue) /\ is_connected = TRUE
      /\ UNCHANGED <<plugged, held, position, is_connected, undisturbed>>
  BY DEF HandleEvent, deviceVars, IInv, QueueTyped, TypeOK
<1>2. plugged = TRUE
  BY <1>1 DEF IInv, AtRestWithout, TypeOK
<1>3. /\ Tail(queue) \in Seq(Events) /\ Len(queue) \in Nat /\ Len(queue) > 0
      /\ Len(Tail(queue)) = Len(queue) - 1
      /\ \A k \in 1 .. Len(queue) - 1 : Tail(queue)[k] = queue[k + 1]
      /\ e = queue[1]
  BY <1>1, Taken
<1>4. e \in Events
  BY <1>1, <1>3
<1>5. ASSUME KnownAxes
      PROVE  KnownAxes' /\ (e.type = "axis" => e.number <= UP_DOWN_DPAD_AXIS)
  BY <1>1, <1>3, <1>5 DEF KnownAxes
<1> QED
  BY <1>1, <1>2, <1>3, <1>4, <1>5 DEF QueueTyped

(* What is left in the queue when the event is taken that is not on a      *)
(* channel of which the client was told.                                   *)
LEMMA MotionsLead ==
  ASSUME IInv, HandleEvent, MotionLeads,
         \A n \in Axes \ DpadAxes :
           motion'[n] = IF On(Head(queue), "axis", n)
                        THEN MotionOf(n, Head(queue).value) ELSE motion[n]
  PROVE  MotionLeads'
<1>1. /\ queue # <<>> /\ queue \in Seq(Events) /\ queue' = Tail(queue) /\ position' = position
  BY EventTaken
<1> SUFFICES ASSUME NEW n \in Axes \ DpadAxes
             PROVE  /\ Latest(queue', "axis", n, position[n])
                    /\ Silent(queue', "axis", n) => motion'[n] = MotionOf(n, position[n])
  BY <1>1 DEF MotionLeads, DpadAxes, MotionOf
<1>2. /\ Latest(queue, "axis", n, position[n])
      /\ Silent(queue, "axis", n) => motion[n] = MotionOf(n, position[n])
  BY DEF MotionLeads
<1> QED
  BY <1>1, <1>2, LatestTaken

(* An event of a button.                                                   *)
LEMMA HandleButton ==
  ASSUME IInv, HandleEvent, NEW e, e = Head(queue), e.type = "button"
  PROVE  IInv'
<1>1. /\ e \in Events /\ queue # <<>> /\ queue \in Seq(Events)
      /\ queue' = Tail(queue) /\ QueueTyped'
      /\ plugged = TRUE /\ is_connected = TRUE
      /\ UNCHANGED <<plugged, held, position, is_connected, undisturbed>>
      /\ KnownAxes => KnownAxes'
  BY EventTaken
<1>2. e.number \in Buttons /\ e.value \in {0, 1} /\ Buttons \subseteq Nat
  BY <1>1, EventsAssumption DEF Events, ButtonEvents, AxisEvents, InitEvent, Event
<1>3. CallFor(e) = <<IF e.value > 0 THEN "press" ELSE "release", ButtonOf(e.number)>>
  BY <1>1, Called
<1>4. pressed' = IF e.value > 0 THEN pressed \cup {ButtonOf(e.number)}
                 ELSE pressed \ {ButtonOf(e.number)}
  <2>1. pressed' = CASE CallFor(e)[1] = "press" -> pressed \cup {CallFor(e)[2]}
                     [] CallFor(e)[1] = "release" -> pressed \ {CallFor(e)[2]}
                     [] OTHER -> pressed
    BY DEF HandleEvent
  <2>2. CASE e.value > 0
    BY <1>3, <2>1, <2>2
  <2>3. CASE ~ (e.value > 0)
    BY <1>3, <2>1, <2>3
  <2> QED
    BY <2>2, <2>3
<1>5. UNCHANGED <<dpad_down_pressed, dpad_right_pressed, motion>>
  BY DEF HandleEvent, IsDpad, IsTrigger, IsStick
<1>6. TypeOK'
  <2>1. \A k \in DOMAIN queue' :
          queue'[k] \in [type : {"button", "axis", "init"}, number : Buttons \cup Axes \cup {0},
                         value : -MaxValue .. MaxValue]
    BY <1>1, QueueTypes DEF QueueTyped
  <2>2. ButtonOf(e.number) \in AllButtons
    BY <1>2 DEF AllButtons
  <2>3. pressed' \subseteq AllButtons
    BY <1>4, <2>2 DEF IInv, TypeOK
  <2> QED
    BY <1>1, <1>5, <2>1, <2>3 DEF IInv, TypeOK, AllButtons
<1>7. /\ \A side \in {"UP", "DOWN", "LEFT", "RIGHT"} :
           <<side, DPAD>> \in pressed' <=> <<side, DPAD>> \in pressed
      /\ \A n \in Buttons : n # e.number => (ButtonOf(n) \in pressed' <=> ButtonOf(n) \in pressed)
  BY <1>2, <1>4, ButtonNames
<1>8. ASSUME undisturbed'
      PROVE  FlagsTell' /\ ButtonsLead' /\ DpadLeads' /\ MotionLeads' /\ KnownAxes'
  <2>0. FlagsTell /\ ButtonsLead /\ DpadLeads /\ MotionLeads /\ KnownAxes
    BY <1>1, <1>8 DEF IInv, Undisturbed
  <2>1. FlagsTell'
    BY <1>5, <1>7, <2>0 DEF FlagsTell
  <2>2. ASSUME NEW n \in Buttons
        PROVE  Leads(queue', "button", n, ToldOfButton(n)', Held(n)')
    <3>1. Held(n)' = Held(n) /\ Leads(queue, "button", n, ToldOfButton(n), Held(n))
      BY <1>1, <2>0 DEF Held, ButtonsLead
    <3>2. CASE n = e.number
      <4>1. On(e, "button", n)
        BY <3>2 DEF On
      <4>2. ToldOfButton(n)' = e.value
        BY <1>2, <1>4, <3>2 DEF ToldOfButton
      <4> QED
        BY <1>1, <3>1, <4>1, <4>2, LeadsTaken
    <3>3. CASE n # e.number
      <4>1. ~ On(e, "button", n)
        BY <3>3 DEF On
      <4>2. ToldOfButton(n)' = ToldOfButton(n)
        BY <1>7, <3>3 DEF ToldOfButton
      <4> QED
        BY <1>1, <3>1, <4>1, <4>2, LeadsTaken
    <3> QED
      BY <3>2, <3>3
  <2>3. ASSUME NEW n PROVE ~ On(e, "axis", n)
    BY DEF On
  <2>4. ASSUME NEW n \in {LEFT_RIGHT_DPAD_AXIS, UP_DOWN_DPAD_AXIS}
        PROVE  Leads(queue', "axis", n, ToldOfAxis(n)', PositionOf(n)')
    <3>1. ToldOfAxis(n)' = ToldOfAxis(n) /\ PositionOf(n)' = PositionOf(n)
      BY <1>1, <1>7 DEF ToldOfAxis, ToldOfSide, SideIn, PositionOf
    <3>2. Leads(queue, "axis", n, ToldOfAxis(n), PositionOf(n))
      BY <2>0 DEF DpadLeads
    <3> QED
      BY <1>1, <2>3, <3>1, <3>2, LeadsTaken
  <2>5. MotionLeads'
    BY <1>5, <2>0, <2>3, MotionsLead
  <2> QED
    BY <1>1, <2>0, <2>1, <2>2, <2>4, <2>5 DEF ButtonsLead, DpadLeads
<1>9. PositionTyped' /\ AtRestWithout' /\ Undisturbed'
  BY <1>1, <1>8 DEF IInv, PositionTyped, DpadAxes, AtRestWithout, Undisturbed
<1>10. ReleasableSides'
  BY <1>5, <1>7 DEF IInv, ReleasableSides
<1> QED
  BY <1>1, <1>6, <1>9, <1>10 DEF IInv

(* An event of a stick or a trigger, or the one that is none's.            *)
LEMMA HandleMotion ==
  ASSUME IInv, HandleEvent, NEW e, e = Head(queue), e.type # "button", ~ IsDpad(e)
  PROVE  IInv'
<1>0. /\ MaxValue \in Int /\ MaxValue > 0 /\ Deadzone \in 0 .. MaxValue /\ Axes \subseteq Nat
      /\ "stick_motion" \in Listeners /\ "trigger_motion" \in Listeners
  BY EventsAssumption, HearsAll
<1>1. /\ e \in Events /\ queue # <<>> /\ queue \in Seq(Events)
      /\ queue' = Tail(queue) /\ QueueTyped'
      /\ plugged = TRUE /\ is_connected = TRUE
      /\ UNCHANGED <<plugged, held, position, is_connected, undisturbed>>
      /\ KnownAxes => KnownAxes'
  BY EventTaken
<1>2. CallFor(e) = NoCall
  BY <1>1, Called
<1>3. UNCHANGED <<pressed, dpad_down_pressed, dpad_right_pressed>>
  BY <1>2 DEF HandleEvent, NoCall
<1>4. motion \in [Axes \ DpadAxes -> -MaxValue .. 2 * MaxValue]
  BY DEF IInv, TypeOK
<1>5. /\ motion' \in [Axes \ DpadAxes -> -MaxValue .. 2 * MaxValue]
      /\ \A n \in Axes \ DpadAxes :
           motion'[n] = IF On(e, "axis", n) THEN MotionOf(n, e.value) ELSE motion[n]
  <2>1. CASE e.type = "axis"
    <3>1. e.number \in Axes \ DpadAxes /\ e.value \in -MaxValue .. MaxValue
      <4>1. e.number \in Axes /\ e.value \in -MaxValue .. MaxValue
        BY <1>1, <2>1 DEF Events, ButtonEvents, AxisEvents, InitEvent, Event
      <4> QED
        BY <1>0, <2>1, <4>1 DEF IsDpad, DpadAxes, Triggers, LEFT_TRIGGER_ID, RIGHT_TRIGGER_ID,
                                LEFT_RIGHT_DPAD_AXIS
    <3>2. motion' = [motion EXCEPT ![e.number] = MotionOf(e.number, e.value)]
      BY <1>0, <2>1 DEF HandleEvent, IsTrigger, IsStick, MotionOf
    <3>3. MotionOf(e.number, e.value) \in -MaxValue .. 2 * MaxValue
      BY <1>0, <3>1 DEF MotionOf, TriggerValue, StickValue
    <3> QED
      BY <1>4, <2>1, <3>1, <3>2, <3>3 DEF On
  <2>2. CASE e.type # "axis"
    BY <1>4, <2>2 DEF HandleEvent, IsTrigger, IsStick, On
  <2> QED
    BY <2>1, <2>2
<1>6. TypeOK'
  <2>1. \A k \in DOMAIN queue' :
          queue'[k] \in [type : {"button", "axis", "init"}, number : Buttons \cup Axes \cup {0},
                         value : -MaxValue .. MaxValue]
    BY <1>1, QueueTypes DEF QueueTyped
  <2> QED
    BY <1>1, <1>3, <1>5, <2>1 DEF IInv, TypeOK, AllButtons, DpadAxes
<1>7. ASSUME undisturbed'
      PROVE  FlagsTell' /\ ButtonsLead' /\ DpadLeads' /\ MotionLeads' /\ KnownAxes'
  <2>0. FlagsTell /\ ButtonsLead /\ DpadLeads /\ MotionLeads /\ KnownAxes
    BY <1>1, <1>7 DEF IInv, Undisturbed
  <2>1. FlagsTell'
    BY <1>3, <2>0 DEF FlagsTell
  <2>2. ASSUME NEW n \in Buttons
        PROVE  Leads(queue', "button", n, ToldOfButton(n)', Held(n)')
    <3>1. /\ Held(n)' = Held(n) /\ ToldOfButton(n)' = ToldOfButton(n)
          /\ Leads(queue, "button", n, ToldOfButton(n), Held(n))
      BY <1>1, <1>3, <2>0 DEF Held, ToldOfButton, ButtonsLead
    <3>2. ~ On(e, "button", n)
      BY DEF On
    <3> QED
      BY <1>1, <3>1, <3>2, LeadsTaken
  <2>3. ASSUME NEW n \in {LEFT_RIGHT_DPAD_AXIS, UP_DOWN_DPAD_AXIS}
        PROVE  Leads(queue', "axis", n, ToldOfAxis(n)', PositionOf(n)')
    <3>1. /\ ToldOfAxis(n)' = ToldOfAxis(n) /\ PositionOf(n)' = PositionOf(n)
          /\ Leads(queue, "axis", n, ToldOfAxis(n), PositionOf(n))
      BY <1>1, <1>3, <2>0 DEF ToldOfAxis, ToldOfSide, SideIn, PositionOf, DpadLeads
    <3>2. ~ On(e, "axis", n)
      BY DEF On, IsDpad, Triggers, LEFT_TRIGGER_ID, RIGHT_TRIGGER_ID, LEFT_RIGHT_DPAD_AXIS,
             UP_DOWN_DPAD_AXIS
    <3> QED
      BY <1>1, <3>1, <3>2, LeadsTaken
  <2>4. MotionLeads'
    BY <1>5, <2>0, MotionsLead
  <2> QED
    BY <1>1, <2>0, <2>1, <2>2, <2>3, <2>4 DEF ButtonsLead, DpadLeads
<1>8. PositionTyped' /\ AtRestWithout' /\ Undisturbed' /\ ReleasableSides'
  BY <1>1, <1>3, <1>7 DEF IInv, PositionTyped, DpadAxes, AtRestWithout, Undisturbed,
                          ReleasableSides
<1> QED
  BY <1>1, <1>6, <1>8 DEF IInv

(* The call for an event of the d-pad whose value is v takes the client    *)
(* from `told' to `told2'.                                                 *)
Tells(positive, negative, flag, v, told, told2) ==
  told2 = IF v # 0 THEN told \cup {Side(positive, negative, flag, v)}
          ELSE told \ {Side(positive, negative, flag, v)}

(* What the client is told of one axis of the d-pad, whose two sides are   *)
(* `positive' and `negative': with a flag that tells, and an event that    *)
(* follows, it is told the event's value.                                  *)
LEMMA SideTold ==
  ASSUME NEW positive, NEW negative, positive # negative,
         NEW flag \in BOOLEAN, NEW v \in {-MaxValue, 0, MaxValue}, NEW told, NEW told2,
         Tells(positive, negative, flag, v, told, told2)
  PROVE  /\ (<<positive, DPAD>> \in told => flag) =>
              (<<positive, DPAD>> \in told2 => FlagAfter(flag, v))
         /\ /\ flag <=> <<positive, DPAD>> \in told
            /\ ~ (<<positive, DPAD>> \in told /\ <<negative, DPAD>> \in told)
            /\ Follows(SideIn(told, positive, negative), v)
            => /\ FlagAfter(flag, v) <=> <<positive, DPAD>> \in told2
               /\ ~ (<<positive, DPAD>> \in told2 /\ <<negative, DPAD>> \in told2)
               /\ SideIn(told2, positive, negative) = v
         /\ \A b : b \notin {<<positive, DPAD>>, <<negative, DPAD>>} =>
              (b \in told2 <=> b \in told)
<1> DEFINE P == <<positive, DPAD>>
           N == <<negative, DPAD>>
<1>0. MaxValue \in Int /\ MaxValue > 0 /\ P # N
  BY EventsAssumption
<1> USE DEF Tells
<1> HIDE DEF P, N
<1>1. CASE v = MaxValue
  <2>1. told2 = told \cup {P} /\ FlagAfter(flag, v) = TRUE /\ v > 0
    BY <1>0, <1>1 DEF Side, FlagAfter, P
  <2> QED
    BY <1>0, <1>1, <2>1 DEF Follows, SideIn, P, N
<1>2. CASE v = -MaxValue
  <2>1. told2 = told \cup {N} /\ v < 0 /\ ~ (v > 0)
    BY <1>0, <1>2 DEF Side, N
  <2>2. FlagAfter(flag, v) <=> flag
    BY <2>1 DEF FlagAfter
  <2> QED
    BY <1>0, <1>2, <2>1, <2>2 DEF Follows, SideIn, P, N
<1>3. CASE v = 0
  <2>1. FlagAfter(flag, v) <=> FALSE
    BY <1>0, <1>3 DEF FlagAfter
  <2>2. CASE flag
    <3>1. told2 = told \ {P}
      BY <1>0, <1>3, <2>2 DEF Side, P
    <3> QED
      BY <1>0, <1>3, <2>1, <2>2, <3>1 DEF Follows, SideIn, P, N
  <2>3. CASE ~ flag
    <3>1. told2 = told \ {N}
      BY <1>0, <1>3, <2>3 DEF Side, N
    <3> QED
      BY <1>0, <1>3, <2>1, <2>3, <3>1 DEF Follows, SideIn, P, N
  <2> QED
    BY <2>2, <2>3
<1> QED
  BY <1>1, <1>2, <1>3

(* An event of the d-pad.                                                  *)
LEMMA HandleDpad ==
  ASSUME IInv, HandleEvent, NEW e, e = Head(queue), IsDpad(e)
  PROVE  IInv'
<1> DEFINE vertical == e.number = UP_DOWN_DPAD_AXIS
<1>1. /\ e \in Events /\ queue # <<>> /\ queue \in Seq(Events)
      /\ queue' = Tail(queue) /\ QueueTyped'
      /\ plugged = TRUE /\ is_connected = TRUE
      /\ UNCHANGED <<plugged, held, position, is_connected, undisturbed>>
      /\ KnownAxes => KnownAxes' /\ (e.type = "axis" => e.number <= UP_DOWN_DPAD_AXIS)
  BY EventTaken
<1>2. e.type = "axis" /\ e.number \in DpadAxes /\ e.value \in {-MaxValue, 0, MaxValue}
  BY <1>1 DEF IsDpad, Events, ButtonEvents, AxisEvents, InitEvent, Event, DpadAxes
<1>3. /\ dpad_down_pressed \in BOOLEAN /\ dpad_right_pressed \in BOOLEAN
      /\ pressed \subseteq AllButtons
  BY DEF IInv, TypeOK
<1>4. /\ motion' = motion
      /\ vertical => /\ dpad_down_pressed' = FlagAfter(dpad_down_pressed, e.value)
                     /\ dpad_right_pressed' = dpad_right_pressed
      /\ ~ vertical => /\ dpad_right_pressed' = FlagAfter(dpad_right_pressed, e.value)
                       /\ dpad_down_pressed' = dpad_down_pressed
  BY DEF HandleEvent, IsDpad, IsTrigger, IsStick
<1> DEFINE side == IF vertical THEN Side("DOWN", "UP", dpad_down_pressed, e.value)
                   ELSE Side("RIGHT", "LEFT", dpad_right_pressed, e.value)
<1>5. pressed' = IF e.value # 0 THEN pressed \cup {side} ELSE pressed \ {side}
  <2>1. CallFor(e) = <<IF e.value # 0 THEN "press" ELSE "release", side>>
    BY <1>1, Called
  <2>2. pressed' = CASE CallFor(e)[1] = "press" -> pressed \cup {CallFor(e)[2]}
                     [] CallFor(e)[1] = "release" -> pressed \ {CallFor(e)[2]}
                     [] OTHER -> pressed
    BY DEF HandleEvent
  <2> HIDE DEF side
  <2>3. CASE e.value # 0
    BY <2>1, <2>2, <2>3
  <2>4. CASE e.value = 0
    BY <2>1, <2>2, <2>4
  <2> QED
    BY <2>3, <2>4
<1>6. TypeOK'
  <2>1. \A k \in DOMAIN queue' :
          queue'[k] \in [type : {"button", "axis", "init"}, number : Buttons \cup Axes \cup {0},
                         value : -MaxValue .. MaxValue]
    BY <1>1, QueueTypes DEF QueueTyped
  <2>2. side \in AllButtons
    BY DEF Side, AllButtons
  <2>3. pressed' \subseteq AllButtons
    BY <1>3, <1>5, <2>2
  <2>4. dpad_down_pressed' \in BOOLEAN /\ dpad_right_pressed' \in BOOLEAN
    BY <1>3, <1>4 DEF FlagAfter
  <2> QED
    BY <1>1, <1>4, <2>1, <2>3, <2>4 DEF IInv, TypeOK, AllButtons
<1>7. \A n \in Buttons : ButtonOf(n) \in pressed' <=> ButtonOf(n) \in pressed
  <2>1. side \in {"UP", "DOWN", "LEFT", "RIGHT"} \X {DPAD}
    BY DEF Side
  <2>2. \A n \in Buttons : ButtonOf(n) # side
    BY <2>1, ButtonNames, EventsAssumption
  <2> QED
    BY <1>5, <2>2
<1>8. ASSUME undisturbed'
      PROVE  /\ FlagsTell /\ ButtonsLead /\ DpadLeads /\ MotionLeads /\ KnownAxes
             /\ e.number \in {LEFT_RIGHT_DPAD_AXIS, UP_DOWN_DPAD_AXIS}
             /\ Follows(ToldOfAxis(e.number), e.value)
  <2>1. FlagsTell /\ ButtonsLead /\ DpadLeads /\ MotionLeads /\ KnownAxes
    BY <1>1, <1>8 DEF IInv, Undisturbed
  <2>2. e.number \in {LEFT_RIGHT_DPAD_AXIS, UP_DOWN_DPAD_AXIS}
    <3>1. e.number \in Nat /\ e.number >= 6
      BY <1>2, EventsAssumption DEF DpadAxes, LEFT_RIGHT_DPAD_AXIS
    <3>2. e.number <= 7
      BY <1>1, <1>2, <2>1 DEF UP_DOWN_DPAD_AXIS
    <3> QED
      BY <3>1, <3>2 DEF LEFT_RIGHT_DPAD_AXIS, UP_DOWN_DPAD_AXIS
  <2>3. Leads(queue, "axis", e.number, ToldOfAxis(e.number), PositionOf(e.number))
    BY <2>1, <2>2 DEF DpadLeads
  <2>4. On(e, "axis", e.number)
    BY <1>2 DEF On
  <2> QED
    BY <1>1, <2>1, <2>2, <2>3, <2>4, LeadsTaken
<1> DEFINE Told(n) == IF n = e.number THEN e.value ELSE ToldOfAxis(n)
<1>9. /\ ReleasableSides'
      /\ undisturbed' => /\ FlagsTell'
                         /\ \A n \in {LEFT_RIGHT_DPAD_AXIS, UP_DOWN_DPAD_AXIS} :
                              ToldOfAxis(n)' = Told(n)
  <2>1. ReleasableSides
    BY DEF IInv
  <2>2. CASE vertical
    <3>1. Tells("DOWN", "UP", dpad_down_pressed, e.value, pressed, pressed')
      BY <1>5, <2>2 DEF Tells
    <3> HIDE DEF side
    <3>2. /\ (<<"DOWN", DPAD>> \in pressed => dpad_down_pressed) =>
               (<<"DOWN", DPAD>> \in pressed' => FlagAfter(dpad_down_pressed, e.value))
          /\ /\ dpad_down_pressed <=> <<"DOWN", DPAD>> \in pressed
             /\ ~ (<<"DOWN", DPAD>> \in pressed /\ <<"UP", DPAD>> \in pressed)
             /\ Follows(SideIn(pressed, "DOWN", "UP"), e.value)
             => /\ FlagAfter(dpad_down_pressed, e.value) <=> <<"DOWN", DPAD>> \in pressed'
                /\ ~ (<<"DOWN", DPAD>> \in pressed' /\ <<"UP", DPAD>> \in pressed')
                /\ SideIn(pressed', "DOWN", "UP") = e.value
          /\ \A b : b \notin {<<"DOWN", DPAD>>, <<"UP", DPAD>>} =>
               (b \in pressed' <=> b \in pressed)
      BY <1>2, <1>3, <3>1, SideTold
    <3>3. /\ <<"RIGHT", DPAD>> \in pressed' <=> <<"RIGHT", DPAD>> \in pressed
          /\ <<"LEFT", DPAD>> \in pressed' <=> <<"LEFT", DPAD>> \in pressed
      BY <3>2
    <3>4. ReleasableSides'
      BY <1>4, <2>1, <2>2, <3>2, <3>3 DEF ReleasableSides
    <3>5. ASSUME undisturbed'
          PROVE  /\ FlagsTell' /\ SideIn(pressed', "DOWN", "UP") = e.value
                 /\ SideIn(pressed', "RIGHT", "LEFT") = SideIn(pressed, "RIGHT", "LEFT")
      <4>1. FlagsTell /\ Follows(SideIn(pressed, "DOWN", "UP"), e.value)
        BY <1>8, <2>2, <3>5 DEF ToldOfAxis, ToldOfSide
      <4>2. FlagsTell'
        BY <1>4, <2>2, <3>2, <3>3, <4>1 DEF FlagsTell
      <4> QED
        BY <3>2, <3>3, <4>1, <4>2 DEF FlagsTell, SideIn
    <3> QED
      BY <2>2, <3>4, <3>5 DEF ToldOfAxis, ToldOfSide, LEFT_RIGHT_DPAD_AXIS, UP_DOWN_DPAD_AXIS
  <2>3. CASE ~ vertical
    <3>1. Tells("RIGHT", "LEFT", dpad_right_pressed, e.value, pressed, pressed')
      BY <1>5, <2>3 DEF Tells
    <3> HIDE DEF side
    <3>2. /\ (<<"RIGHT", DPAD>> \in pressed => dpad_right_pressed) =>
               (<<"RIGHT", DPAD>> \in pressed' => FlagAfter(dpad_right_pressed, e.value))
          /\ /\ dpad_right_pressed <=> <<"RIGHT", DPAD>> \in pressed
             /\ ~ (<<"RIGHT", DPAD>> \in pressed /\ <<"LEFT", DPAD>> \in pressed)
             /\ Follows(SideIn(pressed, "RIGHT", "LEFT"), e.value)
             => /\ FlagAfter(dpad_right_pressed, e.value) <=> <<"RIGHT", DPAD>> \in pressed'
                /\ ~ (<<"RIGHT", DPAD>> \in pressed' /\ <<"LEFT", DPAD>> \in pressed')
                /\ SideIn(pressed', "RIGHT", "LEFT") = e.value
          /\ \A b : b \notin {<<"RIGHT", DPAD>>, <<"LEFT", DPAD>>} =>
               (b \in pressed' <=> b \in pressed)
      BY <1>2, <1>3, <3>1, SideTold
    <3>3. /\ <<"DOWN", DPAD>> \in pressed' <=> <<"DOWN", DPAD>> \in pressed
          /\ <<"UP", DPAD>> \in pressed' <=> <<"UP", DPAD>> \in pressed
      BY <3>2
    <3>4. ReleasableSides'
      BY <1>4, <2>1, <2>3, <3>2, <3>3 DEF ReleasableSides
    <3>5. ASSUME undisturbed'
          PROVE  /\ FlagsTell' /\ SideIn(pressed', "RIGHT", "LEFT") = e.value
                 /\ SideIn(pressed', "DOWN", "UP") = SideIn(pressed, "DOWN", "UP")
                 /\ e.number = LEFT_RIGHT_DPAD_AXIS
      <4>1. FlagsTell /\ Follows(SideIn(pressed, "RIGHT", "LEFT"), e.value)
        BY <1>8, <2>3, <3>5 DEF ToldOfAxis, ToldOfSide
      <4>2. FlagsTell'
        BY <1>4, <2>3, <3>2, <3>3, <4>1 DEF FlagsTell
      <4> QED
        BY <1>8, <2>3, <3>2, <3>3, <3>5, <4>1, <4>2 DEF FlagsTell, SideIn
    <3> QED
      BY <2>3, <3>4, <3>5 DEF ToldOfAxis, ToldOfSide, LEFT_RIGHT_DPAD_AXIS, UP_DOWN_DPAD_AXIS
  <2> QED
    BY <2>2, <2>3
<1>10. ASSUME undisturbed'
       PROVE  FlagsTell' /\ ButtonsLead' /\ DpadLeads' /\ MotionLeads' /\ KnownAxes'
  <2>1. ASSUME NEW n \in Buttons
        PROVE  Leads(queue', "button", n, ToldOfButton(n)', Held(n)')
    <3>1. /\ Held(n)' = Held(n) /\ ToldOfButton(n)' = ToldOfButton(n)
          /\ Leads(queue, "button", n, ToldOfButton(n), Held(n))
      BY <1>1, <1>7, <1>8, <1>10 DEF Held, ToldOfButton, ButtonsLead
    <3>2. ~ On(e, "button", n)
      BY <1>2 DEF On
    <3> QED
      BY <1>1, <3>1, <3>2, LeadsTaken
  <2>2. ASSUME NEW n \in {LEFT_RIGHT_DPAD_AXIS, UP_DOWN_DPAD_AXIS}
        PROVE  Leads(queue', "axis", n, ToldOfAxis(n)', PositionOf(n)')
    <3>1. /\ PositionOf(n)' = PositionOf(n) /\ ToldOfAxis(n)' = Told(n)
          /\ Leads(queue, "axis", n, ToldOfAxis(n), PositionOf(n))
      BY <1>1, <1>8, <1>9, <1>10 DEF PositionOf, DpadLeads
    <3>2. On(e, "axis", n) <=> n = e.number
      BY <1>2 DEF On
    <3> QED
      BY <1>1, <3>1, <3>2, LeadsTaken
  <2>3. MotionLeads'
    <3>1. \A n \in Axes \ DpadAxes : ~ On(e, "axis", n)
      BY <1>2 DEF On
    <3> QED
      BY <1>4, <1>8, <1>10, <3>1, MotionsLead
  <2> QED
    BY <1>1, <1>8, <1>9, <1>10, <2>1, <2>2, <2>3 DEF ButtonsLead, DpadLeads
<1>11. PositionTyped' /\ AtRestWithout' /\ Undisturbed'
  BY <1>1, <1>10 DEF IInv, PositionTyped, DpadAxes, AtRestWithout, Undisturbed
<1> QED
  BY <1>1, <1>6, <1>9, <1>11 DEF IInv

-----------------------------------------------------------------------------
(* What holds in every state that the program reaches.                     *)

LEMMA NextIInv == IInv /\ [Next]_vars => IInv'
<1> SUFFICES ASSUME IInv, [Next]_vars PROVE IInv'
  OBVIOUS
<1>1. ASSUME NEW n \in Buttons, Button(n) PROVE IInv'
  BY <1>1, ButtonStep
<1>2. ASSUME NEW n \in Axes, NEW v \in Values(n), Axis(n, v) PROVE IInv'
  BY <1>2, AxisStep
<1>3. CASE HandleEvent
  BY <1>3, HandleButton, HandleDpad, HandleMotion
<1>4. CASE UNCHANGED vars
  <2>1. UNCHANGED <<plugged, held, position, queue, is_connected, dpad_down_pressed,
                    dpad_right_pressed, pressed, motion, undisturbed>>
    BY <1>4 DEF vars, deviceVars, dpadVars, clientVars
  <2> QED
    BY <2>1 DEF IInv, TypeOK, AllButtons, DpadAxes, QueueTyped, PositionTyped, AtRestWithout,
                Undisturbed, FlagsTell, ButtonsLead, ToldOfButton, Held, DpadLeads, ToldOfAxis,
                ToldOfSide, PositionOf, MotionLeads, MotionOf, KnownAxes, ReleasableSides
<1> QED
  BY <1>1, <1>2, <1>3, <1>4, UnplugStep, PlugStep, DisconnectedStep DEF Next, Device

(* The queue of events leads from what the client was told to what the     *)
(* device has, as long as nothing happened that the flags of the d-pad do  *)
(* not cope with; whatever happens a side that the flags must release can  *)
(* be released.                                                            *)
THEOREM Invariance == Spec => []IInv
BY InitIInv, NextIInv, PTL DEF Spec

(* The variables keep their types (TypeOK).                                *)
THEOREM TypeCorrect == Spec => []TypeOK
<1>1. IInv => TypeOK
  BY DEF IInv
<1> QED
  BY <1>1, Invariance, PTL

(* The client can be told the release of DOWN and of RIGHT                 *)
(* (ReleasableSides), also after flips, lost events and disconnections.    *)
THEOREM SidesReleasable == Spec => []ReleasableSides
<1>1. IInv => ReleasableSides
  BY DEF IInv
<1> QED
  BY <1>1, Invariance, PTL

LEMMA QuietAgrees == IInv => AgreesWhenQuiet
<1> SUFFICES ASSUME IInv, Quiet, undisturbed
             PROVE  /\ pressed = Doing
                    /\ \A n \in DOMAIN motion :
                         motion[n] = IF n \in Triggers THEN MaxValue + position[n]
                                     ELSE IF position[n] \in -(Deadzone - 1) .. Deadzone - 1 THEN 0
                                     ELSE position[n]
  BY DEF AgreesWhenQuiet
<1>0. /\ MaxValue \in Int /\ MaxValue > 0 /\ Deadzone \in Int
      /\ position \in [Axes -> -MaxValue .. MaxValue] /\ pressed \subseteq AllButtons
      /\ held \subseteq Buttons /\ DOMAIN motion = Axes \ DpadAxes
  BY EventsAssumption DEF IInv, TypeOK
<1>1. FlagsTell /\ ButtonsLead /\ DpadLeads /\ MotionLeads
  BY DEF IInv, Undisturbed, Quiet
<1>2. ASSUME NEW type, NEW n PROVE Silent(queue, type, n)
  BY DEF Quiet, Silent
<1>3. \A n \in Buttons : ButtonOf(n) \in pressed <=> n \in held
  BY <1>1, <1>2 DEF ButtonsLead, Leads, ToldOfButton, Held
<1>4. \A n \in {LEFT_RIGHT_DPAD_AXIS, UP_DOWN_DPAD_AXIS} : ToldOfAxis(n) = PositionOf(n)
  BY <1>1, <1>2 DEF DpadLeads, Leads
<1>5. /\ SideIn(pressed, "RIGHT", "LEFT") = PositionOf(LEFT_RIGHT_DPAD_AXIS)
      /\ SideIn(pressed, "DOWN", "UP") = PositionOf(UP_DOWN_DPAD_AXIS)
  BY <1>4 DEF ToldOfAxis, ToldOfSide, LEFT_RIGHT_DPAD_AXIS, UP_DOWN_DPAD_AXIS
<1>6. ASSUME NEW n, NEW positive, NEW negative,
             SideIn(pressed, positive, negative) = PositionOf(n),
             ~ (<<positive, DPAD>> \in pressed /\ <<negative, DPAD>> \in pressed)
      PROVE  \A b \in {<<positive, DPAD>>, <<negative, DPAD>>} :
               b \in pressed <=> b \in Pushed(n, positive, negative)
  BY <1>0, <1>6 DEF SideIn, PositionOf, Pushed
<1>7. /\ \A b \in {<<"RIGHT", DPAD>>, <<"LEFT", DPAD>>} :
           b \in pressed <=> b \in Pushed(LEFT_RIGHT_DPAD_AXIS, "RIGHT", "LEFT")
      /\ \A b \in {<<"DOWN", DPAD>>, <<"UP", DPAD>>} :
           b \in pressed <=> b \in Pushed(UP_DOWN_DPAD_AXIS, "DOWN", "UP")
  BY <1>1, <1>5, <1>6 DEF FlagsTell
<1>8. pressed \subseteq Doing
  <2> SUFFICES ASSUME NEW b \in pressed PROVE b \in Doing
    OBVIOUS
  <2>1. CASE b \in {ButtonOf(n) : n \in Buttons}
    BY <1>3, <2>1 DEF Doing
  <2>2. CASE b \in {"UP", "DOWN", "LEFT", "RIGHT"} \X {DPAD}
    BY <1>7, <2>2 DEF Doing
  <2> QED
    BY <1>0, <2>1, <2>2 DEF AllButtons
<1>9. Doing \subseteq pressed
  <2> SUFFICES ASSUME NEW b \in Doing PROVE b \in pressed
    OBVIOUS
  <2>1. CASE b \in {ButtonOf(n) : n \in held}
    BY <1>0, <1>3, <2>1
  <2>2. CASE b \in Pushed(LEFT_RIGHT_DPAD_AXIS, "RIGHT", "LEFT")
    BY <1>7, <2>2 DEF Pushed
  <2>3. CASE b \in Pushed(UP_DOWN_DPAD_AXIS, "DOWN", "UP")
    BY <1>7, <2>3 DEF Pushed
  <2> QED
    BY <2>1, <2>2, <2>3 DEF Doing
<1>10. ASSUME NEW n \in Axes \ DpadAxes
       PROVE  motion[n] = IF n \in Triggers THEN MaxValue + position[n]
                          ELSE IF position[n] \in -(Deadzone - 1) .. Deadzone - 1 THEN 0
                          ELSE position[n]
  <2>1. motion[n] = MotionOf(n, position[n]) /\ position[n] \in Int
    BY <1>0, <1>1, <1>2 DEF MotionLeads
  <2> QED
    BY <1>0, <2>1 DEF MotionOf, TriggerValue, StickValue
<1> QED
  BY <1>0, <1>8, <1>9, <1>10

(* When all events are handled the client knows the state of the gamepad   *)
(* (AgreesWhenQuiet): with any buttons, axes and deadzone, and however     *)
(* long the queue is.                                                      *)
THEOREM KnowsWhenQuiet == Spec => []AgreesWhenQuiet
BY QuietAgrees, Invariance, PTL

LEMMA StepAlternates ==
  IInv /\ HandleEvent /\ undisturbed =>
    LET call == CallFor(Head(queue)) IN
      /\ call[1] = "press" => call[2] \notin pressed
      /\ call[1] = "release" => call[2] \in pressed
<1> SUFFICES ASSUME IInv, HandleEvent, undisturbed, NEW e, e = Head(queue)
             PROVE  /\ CallFor(e)[1] = "press" => CallFor(e)[2] \notin pressed
                    /\ CallFor(e)[1] = "release" => CallFor(e)[2] \in pressed
  OBVIOUS
<1>0. /\ e \in Events /\ queue # <<>> /\ queue \in Seq(Events) /\ plugged = TRUE
      /\ KnownAxes => KnownAxes' /\ (e.type = "axis" => e.number <= UP_DOWN_DPAD_AXIS)
  BY EventTaken
<1>1. /\ MaxValue \in Int /\ MaxValue > 0 /\ FlagsTell /\ ButtonsLead /\ DpadLeads /\ KnownAxes
  BY <1>0, EventsAssumption DEF IInv, Undisturbed
<1>2. CASE e.type = "button"
  <2>1. e.number \in Buttons /\ e.value \in {0, 1}
    BY <1>0, <1>2 DEF Events, ButtonEvents, AxisEvents, InitEvent, Event
  <2>2. On(e, "button", e.number)
    BY <1>2 DEF On
  <2>3. Leads(queue, "button", e.number, ToldOfButton(e.number), Held(e.number))
    BY <1>1, <2>1 DEF ButtonsLead
  <2>4. Follows(ToldOfButton(e.number), e.value)
    BY <1>0, <2>2, <2>3, LeadsTaken
  <2>5. CallFor(e) = <<IF e.value > 0 THEN "press" ELSE "release", ButtonOf(e.number)>>
    BY <1>0, <1>2, Called
  <2> QED
    BY <2>1, <2>4, <2>5 DEF Follows, ToldOfButton
<1>3. CASE IsDpad(e)
  <2>1. /\ e.type = "axis" /\ e.number \in DpadAxes /\ e.value \in {-MaxValue, 0, MaxValue}
    BY <1>0, <1>3 DEF IsDpad, Events, ButtonEvents, AxisEvents, InitEvent, Event, DpadAxes
  <2>2. e.number \in {LEFT_RIGHT_DPAD_AXIS, UP_DOWN_DPAD_AXIS}
    <3>1. e.number \in Nat /\ e.number >= 6
      BY <2>1, EventsAssumption DEF DpadAxes, LEFT_RIGHT_DPAD_AXIS
    <3>2. e.number <= 7
      BY <1>0, <1>1, <2>1 DEF UP_DOWN_DPAD_AXIS
    <3> QED
      BY <3>1, <3>2 DEF LEFT_RIGHT_DPAD_AXIS, UP_DOWN_DPAD_AXIS
  <2>3. Leads(queue, "axis", e.number, ToldOfAxis(e.number), PositionOf(e.number))
    BY <1>1, <2>2 DEF DpadLeads
  <2>4. On(e, "axis", e.number)
    BY <2>1 DEF On
  <2>5. Follows(ToldOfAxis(e.number), e.value)
    BY <1>0, <2>3, <2>4, LeadsTaken
  <2> DEFINE side == IF e.number = UP_DOWN_DPAD_AXIS
                     THEN Side("DOWN", "UP", dpad_down_pressed, e.value)
                     ELSE Side("RIGHT", "LEFT", dpad_right_pressed, e.value)
  <2>6. CallFor(e) = <<IF e.value # 0 THEN "press" ELSE "release", side>>
    BY <1>0, <1>3, Called
  <2>7. side \in pressed <=> e.value = 0
    <3>1. CASE e.number = UP_DOWN_DPAD_AXIS
      BY <1>1, <2>1, <2>5, <3>1 DEF Follows, FlagsTell, ToldOfAxis, ToldOfSide, SideIn, Side
    <3>2. CASE e.number # UP_DOWN_DPAD_AXIS
      BY <1>1, <2>1, <2>5, <3>2 DEF Follows, FlagsTell, ToldOfAxis, ToldOfSide, SideIn, Side
    <3> QED
      BY <3>1, <3>2
  <2> HIDE DEF side
  <2> QED
    BY <2>6, <2>7
<1>4. CASE e.type # "button" /\ ~ IsDpad(e)
  BY <1>0, <1>4, Called DEF NoCall
<1> QED
  BY <1>2, <1>3, <1>4

(* A press is reported for what was not pressed and a release for what     *)
(* was, in turn (PressesAlternate).                                        *)
THEOREM ReportsInTurn == Spec => PressesAlternate
<1>1. IInv /\ [Next]_vars =>
        [HandleEvent /\ undisturbed =>
           LET call == CallFor(Head(queue)) IN
             /\ call[1] = "press" => call[2] \notin pressed
             /\ call[1] = "release" => call[2] \in pressed]_vars
  BY StepAlternates
<1> QED
  BY <1>1, Invariance, PTL DEF Spec, PressesAlternate
==============================================================================
