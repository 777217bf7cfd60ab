---------------------------- MODULE GamepadEvents ----------------------------
(***************************************************************************)
(* What a gamepad thread makes of the events of its joystick device:       *)
(* handle_gamepad_event and the functions it calls, in                     *)
(* src/orwindow/linux/wayland_gamepad.c, for one slot.                     *)
(*                                                                         *)
(* The device has buttons and axes; the kernel queues an event for each    *)
(* change.  When the device is opened, and again when the queue was full   *)
(* and its events are lost, the kernel tells the state of every button and *)
(* axis in events with the flag JS_EVENT_INIT, one of which stands for all *)
(* here, and queues nothing until they are read.  The thread takes one     *)
(* event after the other and calls the listeners.                          *)
(***************************************************************************)
EXTENDS Integers, Sequences, FiniteSets

CONSTANTS
  Buttons,       (* the numbers of the device's buttons                    *)
  Axes,          (* the numbers of its axes                                *)
  MaxValue,      (* the largest value of an axis, 32767                    *)
  AnalogValues,  (* the values that sticks and triggers take               *)
  Deadzone,      (* stick_deadzone, 2000                                   *)
  QueueSize,     (* how many events the kernel keeps, 64                   *)
  Listeners,     (* which of ORGamepadListeners are not NULL               *)
  Conditions     (* "flip": the d-pad may go from one side to the other at *)
                 (* once; "overflow": events may be lost; "unplug"         *)

ASSUME EventsAssumption ==
  /\ Buttons \subseteq Nat /\ IsFiniteSet(Buttons)
  /\ Axes \subseteq Nat /\ IsFiniteSet(Axes)
  /\ MaxValue \in Nat \ {0} /\ Deadzone \in 0 .. MaxValue
  /\ AnalogValues \subseteq -MaxValue .. MaxValue
  /\ QueueSize \in Nat \ {0}
  /\ Listeners \subseteq {"button_press", "button_release", "stick_motion",
                          "trigger_motion"}
  /\ Conditions \subseteq {"flip", "overflow", "unplug"}

VARIABLES
  plugged, held, position,       (* the device                             *)
  queue,                         (* its events                             *)
  is_connected,                  (* gamepads[].is_connected                *)
  dpad_down_pressed, dpad_right_pressed,     (* of gamepads[]              *)
  pressed, motion,               (* what the client was told               *)
  undisturbed                    (* ghost: did nothing happen that the     *)
                                 (* d-pad's flags do not cope with?        *)

deviceVars == <<plugged, held, position>>
dpadVars == <<dpad_down_pressed, dpad_right_pressed>>
clientVars == <<pressed, motion>>
vars == <<deviceVars, queue, is_connected, dpadVars, clientVars, undisturbed>>

LEFT_TRIGGER_ID == 2
RIGHT_TRIGGER_ID == 5
LEFT_RIGHT_DPAD_AXIS == 6
UP_DOWN_DPAD_AXIS == 7
Triggers == {LEFT_TRIGGER_ID, RIGHT_TRIGGER_ID}
DpadAxes == {n \in Axes : n >= LEFT_RIGHT_DPAD_AXIS}
Values(n) == IF n \in DpadAxes THEN {-MaxValue, 0, MaxValue} ELSE AnalogValues

DPAD == 255      (* the os_button of the d-pad, (uint8_t)(-1)              *)

Event(type, number, value) == [type |-> type, number |-> number, value |-> value]
InitEvent == Event("init", 0, 0)

-----------------------------------------------------------------------------
(* The device and its queue.                                               *)

(* What becomes of event e, if `harmless' says that its content disturbs   *)
(* nothing.                                                                *)
Overflows == queue = <<InitEvent>> \/ Len(queue) = QueueSize
Deliver(e, harmless) ==
  /\ Overflows => "overflow" \in Conditions
  /\ queue' = IF Overflows THEN <<InitEvent>> ELSE Append(queue, e)
  /\ undisturbed' = (undisturbed /\ harmless /\ ~ Overflows)

NotDevice == <<plugged, is_connected, dpadVars, clientVars>>
Button(n) ==
  /\ is_connected /\ plugged
  /\ held' = IF n \in held THEN held \ {n} ELSE held \cup {n}
  /\ UNCHANGED position
  /\ Deliver(Event("button", n, IF n \in held' THEN 1 ELSE 0), TRUE)
  /\ UNCHANGED NotDevice
Flips(n, v) == n \in DpadAxes /\ v * position[n] < 0
Axis(n, v) ==
  /\ is_connected /\ plugged
  /\ v # position[n]
  /\ Flips(n, v) => "flip" \in Conditions
  /\ position' = [position EXCEPT ![n] = v]
  /\ UNCHANGED held
  /\ Deliver(Event("axis", n, v), ~ Flips(n, v) /\ n <= UP_DOWN_DPAD_AXIS)
  /\ UNCHANGED NotDevice

Unplug ==
  /\ "unplug" \in Conditions /\ plugged /\ is_connected
  /\ plugged' = FALSE /\ queue' = <<>>
  /\ held' = {} /\ position' = [n \in Axes |-> 0]
  /\ UNCHANGED <<is_connected, dpadVars, clientVars, undisturbed>>
Plug ==
  /\ ~ plugged /\ ~ is_connected
  /\ plugged' = TRUE /\ is_connected' = TRUE
  /\ queue' = <<InitEvent>>
  /\ UNCHANGED <<held, position, dpadVars, clientVars, undisturbed>>

-----------------------------------------------------------------------------
(* The handlers.  The call that an event leads to is a pair of "press" or  *)
(* "release" and a button, which is a pair <<button, os_button>>.          *)

NoCall == <<"none", "none">>

(* button_action calls button_release for a press as well, if there is no  *)
(* button_press.                                                           *)
button_action(button, press) ==
  CASE press /\ "button_press" \in Listeners -> <<"press", button>>
    [] ~ (press /\ "button_press" \in Listeners) /\ "button_release" \in Listeners ->
         <<"release", button>>
    [] OTHER -> NoCall

(* button_map; numbers above 10 are not looked up.                         *)
button_map ==
  <<"A", "B", "X", "Y", "LB", "RB", "SELECT", "START", "HOME", "L3", "R3",
    "UP", "DOWN", "LEFT", "RIGHT">>
ButtonOf(n) == <<IF n > 10 THEN "UNKNOWN" ELSE button_map[n + 1], n>>
handle_button_event(e) == button_action(ButtonOf(e.number), e.value > 0)

(* handle_dpad_event: zero releases the side that the flag tells; if it    *)
(* tells nothing, the other.                                               *)
NeverReset(flag, value) == value > 0 \/ flag
FlagOfValue(flag, value) == value > 0
FlagAfter(flag, value) == value > 0 \/ (flag /\ value < 0)
SideByValue(positive, negative, flag, value) ==
  <<IF value > 0 THEN positive ELSE negative, DPAD>>
Side(positive, negative, flag, value) ==
  <<IF value > 0 \/ (value = 0 /\ flag) THEN positive ELSE negative, DPAD>>
handle_dpad_event(e) ==
  button_action(IF e.number = UP_DOWN_DPAD_AXIS
                THEN Side("DOWN", "UP", dpad_down_pressed, e.value)
                ELSE Side("RIGHT", "LEFT", dpad_right_pressed, e.value),
                e.value # 0)

(* handle_trigger_event and handle_stick_event; a trigger's value is from  *)
(* 0 to 2 * MaxValue, for 0.0 to 1.0.                                      *)
TriggerLowered(v) == v - MaxValue
TriggerValue(v) == v + MaxValue
StickValue(v) == IF v < Deadzone /\ v > -Deadzone THEN 0 ELSE v

(* handle_gamepad_event and handle_axis_event: which event is whose.       *)
IsDpad(e) == e.type = "axis" /\ e.number \notin Triggers /\ e.number >= LEFT_RIGHT_DPAD_AXIS
IsTrigger(e) == e.type = "axis" /\ e.number \in Triggers
IsStick(e) == e.type = "axis" /\ ~ IsTrigger(e) /\ ~ IsDpad(e)
CallFor(e) ==
  CASE e.type = "button" -> handle_button_event(e)
    [] IsDpad(e) -> handle_dpad_event(e)
    [] OTHER -> NoCall

HandleEvent ==
  LET e == Head(queue)
      call == CallFor(e)
  IN
  /\ is_connected /\ queue # <<>>
  /\ queue' = Tail(queue)
  /\ pressed' = CASE call[1] = "press" -> pressed \cup {call[2]}
                  [] call[1] = "release" -> pressed \ {call[2]}
                  [] OTHER -> pressed
  /\ dpad_down_pressed' = IF IsDpad(e) /\ e.number = UP_DOWN_DPAD_AXIS
                          THEN FlagAfter(dpad_down_pressed, e.value)
                          ELSE dpad_down_pressed
  /\ dpad_right_pressed' = IF IsDpad(e) /\ e.number # UP_DOWN_DPAD_AXIS
                           THEN FlagAfter(dpad_right_pressed, e.value)
                           ELSE dpad_right_pressed
  /\ motion' =
       CASE IsTrigger(e) /\ "trigger_motion" \in Listeners ->
              [motion EXCEPT ![e.number] = TriggerValue(e.value)]
         [] IsStick(e) /\ "stick_motion" \in Listeners ->
              [motion EXCEPT ![e.number] = StickValue(e.value)]
         [] OTHER -> motion
  /\ UNCHANGED <<deviceVars, is_connected, undisturbed>>

(* handle_controller_disconnected.  The client forgets what it was told.   *)
AtRest == [n \in Axes \ DpadAxes |-> IF n \in Triggers THEN MaxValue ELSE 0]
Disconnected ==
  /\ is_connected /\ ~ plugged
  /\ is_connected' = FALSE
  /\ pressed' = {} /\ motion' = AtRest
  /\ undisturbed' = (undisturbed /\ ~ dpad_down_pressed /\ ~ dpad_right_pressed)
  /\ UNCHANGED <<deviceVars, queue, dpadVars>>

-----------------------------------------------------------------------------
Init ==
  /\ plugged = FALSE /\ held = {} /\ position = [n \in Axes |-> 0]
  /\ queue = <<>>
  /\ is_connected = FALSE
  /\ dpad_down_pressed = FALSE /\ dpad_right_pressed = FALSE
  /\ pressed = {}
  /\ undisturbed = TRUE
  /\ motion = AtRest

Device ==
  \/ \E n \in Buttons : Button(n)
  \/ \E n \in Axes : \E v \in Values(n) : Axis(n, v)
  \/ Unplug \/ Plug

Next == Device \/ HandleEvent \/ Disconnected

Spec == Init /\ [][Next]_vars
-----------------------------------------------------------------------------
AllButtons == {ButtonOf(n) : n \in Buttons}
              \cup ({"UP", "DOWN", "LEFT", "RIGHT"} \X {DPAD})

(* Type correctness.                                                       *)
TypeOK ==
  /\ plugged \in BOOLEAN /\ is_connected \in BOOLEAN
  /\ held \subseteq Buttons
  /\ position \in [Axes -> -MaxValue .. MaxValue]
  /\ \A k \in DOMAIN queue :
       queue[k] \in [type : {"button", "axis", "init"}, number : Buttons \cup Axes \cup {0},
                     value : -MaxValue .. MaxValue]
  /\ dpad_down_pressed \in BOOLEAN /\ dpad_right_pressed \in BOOLEAN
  /\ pressed \subseteq AllButtons
  /\ motion \in [Axes \ DpadAxes -> -MaxValue .. 2 * MaxValue]
  /\ undisturbed \in BOOLEAN

(* What the device is doing, as a client should be told.                   *)
Pushed(n, positive, negative) ==
  IF n \notin Axes \/ position[n] = 0 THEN {}
  ELSE {<<IF position[n] > 0 THEN positive ELSE negative, DPAD>>}
Doing ==
  {ButtonOf(n) : n \in held}
  \cup Pushed(LEFT_RIGHT_DPAD_AXIS, "RIGHT", "LEFT")
  \cup Pushed(UP_DOWN_DPAD_AXIS, "DOWN", "UP")
Quiet == is_connected /\ plugged /\ queue = <<>>

(* When all events are handled the client knows what the gamepad is doing, *)
(* whatever the interleaving of its two d-pad axes and buttons: the two    *)
(* flags are enough to tell which side of the d-pad is released; also after *)
(* the device was unplugged, unless one of the flags was set.              *)
AgreesWhenQuiet ==
  Quiet /\ undisturbed =>
           /\ pressed = Doing
           /\ \A n \in DOMAIN motion :
                motion[n] = IF n \in Triggers THEN MaxValue + position[n]
                            ELSE IF position[n] \in -(Deadzone - 1) .. Deadzone - 1 THEN 0
                            ELSE position[n]

(* A press is reported for what was not pressed and a release for what     *)
(* was, in turn.                                                           *)
PressesAlternate ==
  [][HandleEvent /\ undisturbed =>
       LET call == CallFor(Head(queue)) IN
         /\ call[1] = "press" => call[2] \notin pressed
         /\ call[1] = "release" => call[2] \in pressed]_vars

(* What the client was told of DOWN and RIGHT is not forgotten: as long as *)
(* it takes one of them for pressed the flag is there that lets zero       *)
(* release it; also when the d-pad flips, events are lost, or the device   *)
(* is unplugged.                                                           *)
ReleasableSides ==
  /\ <<"DOWN", DPAD>> \in pressed => dpad_down_pressed
  /\ <<"RIGHT", DPAD>> \in pressed => dpad_right_pressed
=============================================================================
