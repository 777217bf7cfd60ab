------------------------------ MODULE Pointer ------------------------------
(***************************************************************************)
(* The pointer of a seat as src/orwindow/linux/wayland_pointer.c tells the *)
(* client of it, with one coordinate.  As in Keyboard an event and its     *)
(* handler are one step.                                                   *)
(***************************************************************************)
EXTENDS Integers

CONSTANTS
  Buttons,       (* the kernel's numbers of its buttons; BTN_LEFT is 272   *)
  Positions,     (* where the pointer may be, in 1/Fixed of a pixel        *)
  Fixed,         (* 256 in a wl_fixed_t                                    *)
  Width,         (* of the surface, in pixels                              *)
  PointerListeners, (* which members of the structs of listeners are not NULL *)
  StrayButtons    (* what may be read past the end of a map                 *)

VARIABLES
  buttons_down, pointer_focus, position,    (* as the compositor knows them *)
  told_at,       (* the coordinate the client was told last                *)
  buttons_pressed,  (* the buttons it was told are pressed; it forgets     *)
                    (* them when the window is entered                     *)
  buttons_astray,   (* ghost: those that were down on enter, and those     *)
                    (* read past the end of button_map                     *)
  crashed        (* an address far past the end of button_map was read     *)

pointerVars ==
  <<buttons_down, pointer_focus, position, told_at, buttons_pressed, buttons_astray, crashed>>

OnSurface(f) == f \in 0 .. Width * Fixed - 1

(* wl_fixed_to_int, which rounds towards zero, and the conversion to       *)
(* uint16_t.                                                               *)
MaxCoordinate == 65535
Rounded(f) == ((f + Fixed \div 2) \div Fixed) % 65536
Coordinate(f) == (IF f < 0 THEN -((-f) \div Fixed) ELSE f \div Fixed) % 65536

(* button_map.  The difference is a uint32_t: below zero it wraps, and is  *)
(* as far past the end as can be.                                          *)
MIN_BUTTON_ID == 271
OffByOne(button) == button - MIN_BUTTON_ID - 1
IndexOfButton(button) == button - MIN_BUTTON_ID
button_map == [n \in 0 .. 19 |-> IF n \in 1 .. 6 THEN n ELSE 0]
InButtonMap(button) == IndexOfButton(button) \in DOMAIN button_map
ButtonsOf(button) ==
  IF InButtonMap(button) THEN {button_map[IndexOfButton(button)]} ELSE StrayButtons

(* pointer_button.                                                         *)
PointerButton(b) ==
  /\ pointer_focus
  /\ buttons_down' = IF b \in buttons_down THEN buttons_down \ {b} ELSE buttons_down \cup {b}
  /\ \/ \E code \in ButtonsOf(b) :
          /\ buttons_pressed' = CASE b \notin buttons_down /\ "button_press" \in PointerListeners ->
                                       buttons_pressed \cup {code}
                                  [] b \in buttons_down /\ "button_release" \in PointerListeners ->
                                       buttons_pressed \ {code}
                                  [] OTHER -> buttons_pressed
          /\ buttons_astray' = IF InButtonMap(b) THEN buttons_astray \ {code}
                               ELSE buttons_astray \cup {code}
          /\ UNCHANGED crashed
     \/ /\ ~ InButtonMap(b) /\ crashed' = TRUE
        /\ UNCHANGED <<buttons_pressed, buttons_astray>>
  /\ UNCHANGED <<pointer_focus, position, told_at>>
ButtonElsewhere(b) ==
  /\ ~ pointer_focus
  /\ buttons_down' = IF b \in buttons_down THEN buttons_down \ {b} ELSE buttons_down \cup {b}
  /\ UNCHANGED <<pointer_focus, position, told_at, buttons_pressed, buttons_astray, crashed>>

(* pointer_enter.                                                          *)
pointer_enter(f) ==
  /\ ~ pointer_focus /\ OnSurface(f)
  /\ pointer_focus' = TRUE /\ position' = f
  /\ told_at' = IF "enter" \in PointerListeners THEN Coordinate(f) ELSE told_at
  /\ buttons_pressed' = IF "enter" \in PointerListeners THEN {} ELSE buttons_pressed
  /\ buttons_astray' = UNION {ButtonsOf(b) : b \in buttons_down}
  /\ UNCHANGED <<buttons_down, crashed>>

(* pointer_motion.  With a button down it goes on outside of the surface.  *)
pointer_motion(f) ==
  /\ pointer_focus
  /\ OnSurface(f) \/ buttons_down # {}
  /\ position' = f
  /\ told_at' = IF "move" \in PointerListeners THEN Coordinate(f) ELSE told_at
  /\ UNCHANGED <<buttons_down, pointer_focus, buttons_pressed, buttons_astray, crashed>>

(* pointer_leave; without the event, the end of the window.                *)
pointer_leave ==
  /\ pointer_focus' = FALSE
  /\ UNCHANGED <<buttons_down, position, told_at, buttons_pressed, buttons_astray, crashed>>

PointerInit ==
  /\ buttons_down = {} /\ pointer_focus = FALSE
  /\ position \in {f \in Positions : OnSurface(f)}
  /\ told_at = 0
  /\ buttons_pressed = {} /\ buttons_astray = {}
  /\ crashed = FALSE

PointerTypeOK ==
  /\ buttons_down \subseteq Buttons
  /\ pointer_focus \in BOOLEAN /\ crashed \in BOOLEAN
  /\ position \in Positions /\ told_at \in 0 .. MaxCoordinate
  /\ buttons_pressed \cup buttons_astray \subseteq (0 .. 6) \cup StrayButtons
=============================================================================
