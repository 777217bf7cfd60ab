----------------------------- MODULE InputProofs -----------------------------
(***************************************************************************)
(* What holds of Input for any keyboard and pointer, any number of windows *)
(* and whatever lies past the end of the two maps.                         *)
(***************************************************************************)
EXTENDS Input, TLAPS

(* The client listens to everything; who does not hear of a release, or of *)
(* enter, cannot know.                                                     *)
ASSUME HearsAll ==
  /\ {"key_press", "key_release", "enter"} \subseteq KeyListeners
  /\ {"enter", "move", "button_press", "button_release"} \subseteq PointerListeners

(* What MapThenSumSet adds up it adds up to a number: its definition is    *)
(* recursive, and to prove it takes an induction that is out of reach here.*)
ASSUME ModsType == \A S \in SUBSET Keys : Mods(S) \in Nat

IInv == KeysAgree /\ ButtonsAgree /\ PixelTold

-----------------------------------------------------------------------------
(* A key of the map has its own code, and no other key of the map has it.  *)
LEMMA MapIsInjective ==
  ASSUME NEW key \in Keys, NEW code \in CodesOf(key), InMap(key)
  PROVE  /\ key \in Named => code = key
         /\ code \in Named => code = key
BY DEF CodesOf, InMap, IndexOf, key_map, Named, UNKNOWN

LEMMA NamedInMap ==
  ASSUME NEW k \in Named
  PROVE  InMap(k) /\ CodesOf(k) = {k}
BY DEF CodesOf, InMap, IndexOf, key_map, Named

LEMMA KeyKeepsKeys ==
  ASSUME KeysAgree, NEW key \in Keys, KeyboardKey(key)
  PROVE  KeysAgree'
<1>1. PICK code \in CodesOf(key) :
        /\ keys_pressed' = CASE key \notin keys_down -> keys_pressed \cup {code}
                             [] key \in keys_down -> keys_pressed \ {code}
        /\ keys_astray' = IF InMap(key) THEN keys_astray \ {code} ELSE keys_astray \cup {code}
  BY HearsAll DEF KeyboardKey
<1>2. keyboard_focus /\ keys_down' = Toggled(key, keys_down)
  BY DEF KeyboardKey
<1> SUFFICES ASSUME NEW k \in Named \ keys_astray'
             PROVE  k \in keys_pressed' <=> k \in keys_down'
  BY DEF KeysAgree
<1>3. CASE k = code
  <2>1. InMap(key)
    BY <1>1, <1>3
  <2>2. code = key
    BY <1>3, <2>1, MapIsInjective
  <2> QED
    BY <1>1, <1>2, <1>3, <2>2 DEF Toggled
<1>4. CASE k # code
  <2>1. k # key
    BY <1>4, MapIsInjective, NamedInMap
  <2>2. k \in Named \ keys_astray
    BY <1>1, <1>4
  <2>3. (k \in keys_pressed' <=> k \in keys_pressed) /\ (k \in keys_down' <=> k \in keys_down)
    BY <1>1, <1>2, <1>4, <2>1 DEF Toggled
  <2> QED
    BY <1>2, <2>2, <2>3 DEF KeysAgree
<1> QED
  BY <1>3, <1>4

LEMMA EnterKeepsKeys ==
  ASSUME keyboard_enter
  PROVE  KeysAgree'
<1>1. /\ keys_pressed' = {} /\ keys_down' = keys_down
      /\ keys_astray' = UNION {CodesOf(k) : k \in keys_down}
  BY HearsAll DEF keyboard_enter
<1>2. \A k \in Named : k \in keys_down => k \in keys_astray'
  BY <1>1, NamedInMap
<1> QED
  BY <1>1, <1>2 DEF KeysAgree

LEMMA KeyboardKeeps ==
  ASSUME IInv, KeyboardEvent
  PROVE  IInv'
<1>1. ButtonsAgree' /\ PixelTold'
  BY DEF IInv, KeyboardEvent, pointerVars, ButtonsAgree, PixelTold, OnSurface
<1>2. ASSUME NEW k \in Keys, KeyboardKey(k) PROVE KeysAgree'
  BY <1>2, KeyKeepsKeys DEF IInv
<1>3. ASSUME NEW k \in Keys, KeyElsewhere(k) PROVE KeysAgree'
  BY <1>3 DEF KeyElsewhere, KeysAgree
<1>4. CASE keyboard_enter
  BY <1>1, <1>4, EnterKeepsKeys DEF IInv
<1>5. CASE keyboard_leave
  BY <1>1, <1>5 DEF IInv, keyboard_leave, KeysAgree
<1> QED
  BY <1>1, <1>2, <1>3, <1>4, <1>5 DEF KeyboardEvent, IInv

-----------------------------------------------------------------------------
(* The numbers from BTN_LEFT to BTN_FORWARD, and no others, have the       *)
(* buttons 1 to 6.                                                         *)
LEMMA ButtonMapIsInjective ==
  ASSUME NEW b \in Nat, NEW code \in ButtonsOf(b), InButtonMap(b), code \in 1 .. 6
  PROVE  b = 271 + code
BY DEF ButtonsOf, InButtonMap, IndexOfButton, button_map, MIN_BUTTON_ID

LEMMA NamedButtons ==
  ASSUME NEW n \in 1 .. 6
  PROVE  InButtonMap(271 + n) /\ ButtonsOf(271 + n) = {n}
<1>1. IndexOfButton(271 + n) = n
  BY DEF IndexOfButton, MIN_BUTTON_ID
<1> QED
  BY <1>1 DEF ButtonsOf, InButtonMap, button_map

LEMMA ButtonKeepsButtons ==
  ASSUME ButtonsAgree, ~ crashed', NEW b \in Buttons, PointerButton(b)
  PROVE  ButtonsAgree'
<1>1. PICK code \in ButtonsOf(b) :
        /\ buttons_pressed' = CASE b \notin buttons_down -> buttons_pressed \cup {code}
                                [] b \in buttons_down -> buttons_pressed \ {code}
        /\ buttons_astray' = IF InButtonMap(b) THEN buttons_astray \ {code}
                             ELSE buttons_astray \cup {code}
  BY HearsAll DEF PointerButton
<1>2. /\ pointer_focus
      /\ buttons_down' = IF b \in buttons_down THEN buttons_down \ {b} ELSE buttons_down \cup {b}
  BY DEF PointerButton
<1>5. b \in Nat
  BY InputAssumption
<1> SUFFICES ASSUME NEW n \in (1 .. 6) \ buttons_astray'
             PROVE  n \in buttons_pressed' <=> 271 + n \in buttons_down'
  BY DEF ButtonsAgree
<1>3. CASE n = code
  <2>1. b = 271 + n
    BY <1>1, <1>3, <1>5, ButtonMapIsInjective
  <2> QED
    BY <1>1, <1>2, <1>3, <2>1
<1>4. CASE n # code
  <2>1. b # 271 + n
    BY <1>4, NamedButtons
  <2>2. n \in (1 .. 6) \ buttons_astray
    BY <1>1, <1>4
  <2>3. /\ n \in buttons_pressed' <=> n \in buttons_pressed
        /\ 271 + n \in buttons_down' <=> 271 + n \in buttons_down
    BY <1>1, <1>2, <1>4, <2>1
  <2> QED
    BY <1>2, <2>2, <2>3 DEF ButtonsAgree
<1> QED
  BY <1>3, <1>4

LEMMA EnterKeepsButtons ==
  ASSUME NEW f, pointer_enter(f)
  PROVE  ButtonsAgree'
<1>1. /\ buttons_pressed' = {} /\ buttons_down' = buttons_down
      /\ buttons_astray' = UNION {ButtonsOf(b) : b \in buttons_down}
  BY HearsAll DEF pointer_enter
<1>2. \A n \in 1 .. 6 : 271 + n \in buttons_down => n \in buttons_astray'
  BY <1>1, NamedButtons
<1> QED
  BY <1>1, <1>2 DEF ButtonsAgree

(* On the surface there is nothing to wrap or to round but the fraction.   *)
LEMMA PixelOnSurface ==
  ASSUME NEW f \in Int, OnSurface(f)
  PROVE  Coordinate(f) = f \div Fixed
<1>1. /\ Fixed \in Nat /\ Fixed > 0
      /\ Width \in Nat /\ Width <= 65536
  <2>1. MaxCoordinate \in Nat /\ MaxCoordinate + 1 = 65536
    BY DEF MaxCoordinate
  <2>2. Fixed \in Nat /\ Fixed > 0 /\ Width \in Nat /\ Width <= MaxCoordinate + 1
    BY <2>1, InputAssumption
  <2> QED
    BY <2>1, <2>2
<1>2. Width * Fixed \in Nat
  BY <1>1
<1>3. f \in Nat /\ f < Width * Fixed
  BY <1>2 DEF OnSurface
<1> DEFINE q == f \div Fixed
<1>4. q \in Nat /\ Fixed * q <= f
  BY <1>1, <1>3
<1>5. q < Width
  <2> SUFFICES ASSUME q >= Width PROVE FALSE
    BY <1>1, <1>4
  <2> HIDE DEF q
  <2>1. Fixed * q >= Fixed * Width
    BY <1>1, <1>4
  <2> QED
    BY <1>1, <1>3, <1>4, <2>1
<1>6. q % 65536 = q
  <2> HIDE DEF q
  <2> QED
    BY <1>1, <1>4, <1>5
<1> QED
  BY <1>3, <1>6 DEF Coordinate

LEMMA PointerKeeps ==
  ASSUME IInv, PointerEvent
  PROVE  IInv'
<1>1. KeysAgree'
  BY DEF IInv, PointerEvent, keyboardVars, KeysAgree
<1>2. ASSUME NEW b \in Buttons, PointerButton(b) PROVE ButtonsAgree' /\ PixelTold'
  <2>1. PixelTold'
    BY <1>2 DEF IInv, PointerButton, PixelTold, OnSurface
  <2>2. ButtonsAgree /\ ~ crashed
    BY DEF IInv, PointerEvent
  <2>3. ASSUME ~ crashed' PROVE ButtonsAgree'
    BY <1>2, <2>2, <2>3, ButtonKeepsButtons
  <2>4. ASSUME crashed' PROVE ButtonsAgree'
    <3>1. /\ ~ InButtonMap(b)
          /\ buttons_pressed' = buttons_pressed /\ buttons_astray' = buttons_astray
          /\ pointer_focus
      BY <1>2, <2>2, <2>4 DEF PointerButton
    <3>2. \A n \in 1 .. 6 : 271 + n \in buttons_down' <=> 271 + n \in buttons_down
      BY <1>2, <3>1, NamedButtons DEF PointerButton
    <3> QED
      BY <2>2, <3>1, <3>2 DEF ButtonsAgree
  <2> QED
    BY <2>1, <2>3, <2>4
<1>3. ASSUME NEW b \in Buttons, ButtonElsewhere(b) PROVE ButtonsAgree' /\ PixelTold'
  BY <1>3 DEF ButtonElsewhere, ButtonsAgree, PixelTold
<1>4. ASSUME NEW f \in Positions, pointer_enter(f) \/ pointer_motion(f) PROVE PixelTold'
  <2>1. position' = f /\ told_at' = Coordinate(f)
    BY <1>4, HearsAll DEF pointer_enter, pointer_motion
  <2>2. f \in Int
    BY InputAssumption
  <2> QED
    BY <2>1, <2>2, PixelOnSurface DEF PixelTold, OnSurface
<1>5. ASSUME NEW f \in Positions, pointer_motion(f) PROVE ButtonsAgree'
  BY <1>5 DEF IInv, pointer_motion, ButtonsAgree
<1>6. CASE pointer_leave
  BY <1>1, <1>6 DEF IInv, pointer_leave, ButtonsAgree, PixelTold
<1> QED
  BY <1>1, <1>2, <1>3, <1>4, <1>5, <1>6, EnterKeepsButtons DEF PointerEvent, IInv

-----------------------------------------------------------------------------
(* The invariant the theorems rest on.                                     *)
THEOREM Invariance == Spec => []IInv
<1>1. Init => IInv
  BY DEF Init, KeyboardInit, PointerInit, IInv, KeysAgree, ButtonsAgree, PixelTold
<1>2. IInv /\ [Next]_vars => IInv'
  <2> SUFFICES ASSUME IInv, [Next]_vars PROVE IInv'
    OBVIOUS
  <2>1. CASE CloseWindow
    BY <2>1 DEF CloseWindow, keyboard_leave, pointer_leave, IInv, KeysAgree,
                ButtonsAgree, PixelTold
  <2>2. CASE OpenWindow \/ RegisterSeat \/ UNCHANGED vars
    BY <2>2 DEF OpenWindow, RegisterSeat, vars, keyboardVars, pointerVars, IInv, KeysAgree,
                ButtonsAgree, PixelTold, OnSurface
  <2>3. CASE KeyboardEvent
    BY <2>3, KeyboardKeeps
  <2>4. CASE PointerEvent
    BY <2>4, PointerKeeps
  <2> QED
    BY <2>1, <2>2, <2>3, <2>4 DEF Next
<1> QED
  BY <1>1, <1>2, PTL DEF Spec

(* The client knows which keys are down, for every keyboard.               *)
THEOREM KeysKnown == Spec => []KeysAgree
<1>1. IInv => KeysAgree
  BY DEF IInv
<1> QED
  BY <1>1, Invariance, PTL

(* And which buttons of the pointer are down.                              *)
THEOREM ButtonsKnown == Spec => []ButtonsAgree
<1>1. IInv => ButtonsAgree
  BY DEF IInv
<1> QED
  BY <1>1, Invariance, PTL

(* And on which pixel it is, for every surface whose width fits into       *)
(* uint16_t.                                                               *)
THEOREM PixelKnown == Spec => []PixelTold
<1>1. IInv => PixelTold
  BY DEF IInv
<1> QED
  BY <1>1, Invariance, PTL

-----------------------------------------------------------------------------
(* Types.                                                                  *)

LEMMA KeyboardTypes ==
  ASSUME TypeOK, KeyboardEvent
  PROVE  TypeOK'
<1>1. PointerTypeOK' /\ windows' = windows /\ open' = open /\ bound' = bound
  BY DEF TypeOK, PointerTypeOK, KeyboardEvent, pointerVars, windowVars
<1>2. \A k \in Keys : CodesOf(k) \subseteq Named \cup {UNKNOWN} \cup StrayCodes
  <2>1. \A n \in DOMAIN key_map : key_map[n] \in Named \cup {UNKNOWN}
    BY DEF key_map
  <2> QED
    BY <2>1 DEF CodesOf, InMap
<1>3. ASSUME keys_down' \in SUBSET Keys, keyboard_modifiers PROVE active_mods' \in 0 .. 255
  <2>1. Mods(keys_down') \in Nat
    BY <1>3, ModsType
  <2> QED
    BY <1>3, <2>1 DEF keyboard_modifiers, TruncatedMods
<1>4. ASSUME NEW k \in Keys, KeyboardKey(k) PROVE KeyboardTypeOK'
  <2>1. keys_down' \subseteq Keys
    BY <1>4 DEF KeyboardKey, Toggled, TypeOK, KeyboardTypeOK
  <2>2. PICK code \in CodesOf(k) :
          /\ keys_pressed' \subseteq keys_pressed \cup {code}
          /\ keys_astray' \subseteq keys_astray \cup {code}
    BY <1>4 DEF KeyboardKey
  <2>3. keys_pressed' \cup keys_astray' \subseteq Named \cup {UNKNOWN} \cup StrayCodes
    BY <1>2, <2>2 DEF TypeOK, KeyboardTypeOK
  <2> QED
    BY <1>3, <1>4, <2>1, <2>3 DEF KeyboardKey, Latches, TypeOK, KeyboardTypeOK
<1>5. ASSUME NEW k \in Keys, KeyElsewhere(k) PROVE KeyboardTypeOK'
  BY <1>5 DEF KeyElsewhere, Latches, Toggled, TypeOK, KeyboardTypeOK
<1>6. CASE keyboard_enter
  <2>1. /\ keys_down' \subseteq Keys /\ keys_locked' \subseteq StickyKeys
        /\ keyboard_focus' \in BOOLEAN /\ active_mods' \in 0 .. 255
    BY <1>3, <1>6 DEF keyboard_enter, TypeOK, KeyboardTypeOK
  <2>2. keys_pressed' \cup keys_astray' \subseteq Named \cup {UNKNOWN} \cup StrayCodes
    BY <1>2, <1>6 DEF keyboard_enter, TypeOK, KeyboardTypeOK
  <2> QED
    BY <1>1, <2>1, <2>2 DEF TypeOK, KeyboardTypeOK
<1>7. CASE keyboard_leave
  BY <1>1, <1>7 DEF keyboard_leave, TypeOK, KeyboardTypeOK
<1> QED
  BY <1>1, <1>4, <1>5, <1>6, <1>7 DEF KeyboardEvent, TypeOK

LEMMA PointerTypes ==
  ASSUME TypeOK, PointerEvent
  PROVE  TypeOK'
<1>1. KeyboardTypeOK' /\ windows' = windows /\ open' = open /\ bound' = bound
  BY DEF TypeOK, KeyboardTypeOK, PointerEvent, keyboardVars, windowVars
<1>2. \A b \in Buttons : ButtonsOf(b) \subseteq (0 .. 6) \cup StrayButtons
  BY DEF ButtonsOf, InButtonMap, button_map
<1>3. \A f \in Positions : Coordinate(f) \in 0 .. MaxCoordinate
  <2> SUFFICES ASSUME NEW f \in Positions PROVE Coordinate(f) \in 0 .. MaxCoordinate
    OBVIOUS
  <2>1. f \in Int /\ Fixed \in Int /\ Fixed > 0
    BY InputAssumption
  <2>2. -((-f) \div Fixed) \in Int /\ f \div Fixed \in Int
    BY <2>1
  <2>3. PICK n \in Int : n = IF f < 0 THEN -((-f) \div Fixed) ELSE f \div Fixed
    BY <2>2
  <2>4. Coordinate(f) = n % 65536
    BY <2>3 DEF Coordinate
  <2>5. n % 65536 \in Nat /\ n % 65536 <= MaxCoordinate /\ MaxCoordinate \in Nat
    BY DEF MaxCoordinate
  <2> QED
    BY <2>4, <2>5
<1>4. ASSUME NEW b \in Buttons, PointerButton(b) PROVE PointerTypeOK'
  <2>1. /\ buttons_down' \subseteq Buttons
        /\ UNCHANGED <<pointer_focus, position, told_at>>
    BY <1>4 DEF PointerButton, TypeOK, PointerTypeOK
  <2>2. crashed' \in BOOLEAN
    BY <1>4 DEF PointerButton, TypeOK, PointerTypeOK
  <2>3. buttons_pressed' \cup buttons_astray' \subseteq (0 .. 6) \cup StrayButtons
    <3>1. CASE UNCHANGED <<buttons_pressed, buttons_astray>>
      BY <3>1 DEF TypeOK, PointerTypeOK
    <3>2. CASE \E code \in ButtonsOf(b) :
                 /\ buttons_pressed' \subseteq buttons_pressed \cup {code}
                 /\ buttons_astray' \subseteq buttons_astray \cup {code}
      BY <1>2, <3>2 DEF TypeOK, PointerTypeOK
    <3>3. \/ UNCHANGED <<buttons_pressed, buttons_astray>>
          \/ \E code \in ButtonsOf(b) :
               /\ buttons_pressed' \subseteq buttons_pressed \cup {code}
               /\ buttons_astray' \subseteq buttons_astray \cup {code}
      BY <1>4 DEF PointerButton
    <3> QED
      BY <3>1, <3>2, <3>3
  <2> QED
    BY <2>1, <2>2, <2>3 DEF TypeOK, PointerTypeOK
<1>5. ASSUME NEW b \in Buttons, ButtonElsewhere(b) PROVE PointerTypeOK'
  BY <1>5 DEF ButtonElsewhere, TypeOK, PointerTypeOK
<1>6. ASSUME NEW f \in Positions, pointer_enter(f) PROVE PointerTypeOK'
  <2>1. told_at' \in 0 .. MaxCoordinate /\ position' \in Positions /\ pointer_focus' \in BOOLEAN
    BY <1>3, <1>6 DEF pointer_enter, TypeOK, PointerTypeOK
  <2>2. buttons_pressed' \cup buttons_astray' \subseteq (0 .. 6) \cup StrayButtons
    BY <1>2, <1>6 DEF pointer_enter, TypeOK, PointerTypeOK
  <2> QED
    BY <1>6, <2>1, <2>2 DEF pointer_enter, TypeOK, PointerTypeOK
<1>7. ASSUME NEW f \in Positions, pointer_motion(f) PROVE PointerTypeOK'
  BY <1>3, <1>7 DEF pointer_motion, TypeOK, PointerTypeOK
<1>8. CASE pointer_leave
  BY <1>1, <1>8 DEF pointer_leave, TypeOK, PointerTypeOK
<1> QED
  BY <1>1, <1>4, <1>5, <1>6, <1>7, <1>8 DEF PointerEvent, TypeOK

(* The variables keep their types (TypeOK): what is read past the end of a *)
(* map is all that the client is told beyond the values of the maps.       *)
THEOREM TypeCorrect == Spec => []TypeOK
<1>0. MaxWindows \in Nat
  BY InputAssumption
<1>1. Init => TypeOK
  <2>1. KeyboardInit => KeyboardTypeOK
    <3>1. 0 \in 0 .. 255 /\ {} \subseteq Keys
      OBVIOUS
    <3>2. {} \cup {} \subseteq Named \cup {UNKNOWN} \cup StrayCodes
      OBVIOUS
    <3> QED
      BY <3>1, <3>2 DEF KeyboardInit, KeyboardTypeOK
  <2>2. 0 \in 0 .. MaxCoordinate
    BY DEF MaxCoordinate
  <2>3. PointerInit => PointerTypeOK
    BY <2>2 DEF PointerInit, PointerTypeOK
  <2> QED
    <3>1. 0 \in 0 .. MaxWindows
      BY <1>0
    <3> QED
      BY <2>1, <2>3, <3>1 DEF Init, TypeOK
<1>2. TypeOK /\ [Next]_vars => TypeOK'
  <2> SUFFICES ASSUME TypeOK, [Next]_vars PROVE TypeOK'
    OBVIOUS
  <2>1. CASE OpenWindow \/ RegisterSeat \/ UNCHANGED vars
    <3>1. UNCHANGED <<keyboardVars, pointerVars>>
      BY <2>1 DEF OpenWindow, RegisterSeat, vars
    <3>2. KeyboardTypeOK' /\ PointerTypeOK'
      BY <3>1 DEF keyboardVars, pointerVars, TypeOK, KeyboardTypeOK, PointerTypeOK
    <3>3. windows' \in 0 .. MaxWindows
      BY <1>0, <2>1 DEF OpenWindow, RegisterSeat, vars, windowVars, TypeOK
    <3>4. open' \in BOOLEAN /\ bound' \subseteq {"keyboard", "pointer"}
      BY <2>1 DEF OpenWindow, RegisterSeat, vars, windowVars, TypeOK
    <3> QED
      BY <3>2, <3>3, <3>4 DEF TypeOK
  <2>2. CASE CloseWindow
    <3>1. KeyboardTypeOK' /\ PointerTypeOK'
      BY <2>2 DEF CloseWindow, keyboard_leave, pointer_leave, TypeOK, KeyboardTypeOK,
                  PointerTypeOK
    <3> QED
      BY <2>2, <3>1 DEF CloseWindow, TypeOK
  <2>3. CASE KeyboardEvent \/ PointerEvent
    BY <2>3, KeyboardTypes, PointerTypes
  <2> QED
    BY <2>1, <2>2, <2>3 DEF Next
<1> QED
  BY <1>1, <1>2, PTL DEF Spec
=============================================================================
