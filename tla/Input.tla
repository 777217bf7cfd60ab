-------------------------------- MODULE Input --------------------------------
(***************************************************************************)
(* Keyboard and Pointer in the life of the program: windows are opened and *)
(* closed one after the other, and in each the seat is announced at some   *)
(* time (register_device in src/orwindow/linux/wayland_client.c).  Keys,   *)
(* buttons and the focus change at any time; what wayland_keyboard.c keeps *)
(* in static variables goes from one window to the next, and so does what  *)
(* the client has been told.                                               *)
(***************************************************************************)
EXTENDS Keyboard, Pointer

CONSTANT MaxWindows    (* bound: how many windows are opened               *)

ASSUME InputAssumption ==
  /\ Keys \subseteq Nat /\ ModBit \in [Keys -> Nat] /\ StickyKeys \subseteq Keys
  /\ StrayCodes \subseteq Nat
  /\ Buttons \subseteq Nat /\ StrayButtons \subseteq Nat
  /\ Positions \subseteq Int /\ Fixed \in Nat \ {0} /\ Width \in 1 .. MaxCoordinate + 1
  /\ MaxWindows \in Nat

VARIABLES
  windows,       (* how many were opened                                   *)
  open,          (* is there a window?                                     *)
  bound          (* the devices of the seat that it listens to             *)

windowVars == <<windows, open, bound>>
vars == <<keyboardVars, pointerVars, windowVars>>

OpenWindow ==
  /\ ~ crashed /\ ~ open /\ windows < MaxWindows
  /\ open' = TRUE /\ windows' = windows + 1
  /\ UNCHANGED <<keyboardVars, pointerVars, bound>>

(* register_device for a wl_seat, at the start or later; either device may *)
(* fail to be had (setup_keyboard and setup_pointer return then).          *)
RegisterSeat ==
  /\ ~ crashed /\ open /\ bound = {}
  /\ bound' \in (SUBSET {"keyboard", "pointer"}) \ {{}}
  /\ UNCHANGED <<keyboardVars, pointerVars, windows, open>>

(* inter_wl_free_window disconnects; no event says that the focus is gone. *)
CloseWindow ==
  /\ ~ crashed /\ open
  /\ open' = FALSE /\ bound' = {}
  /\ keyboard_leave /\ pointer_leave
  /\ UNCHANGED windows

KeyboardEvent ==
  /\ ~ crashed
  /\ \/ \E k \in Keys : KeyboardKey(k) \/ KeyElsewhere(k)
     \/ "keyboard" \in bound /\ keyboard_enter
     \/ keyboard_focus /\ keyboard_leave
  /\ UNCHANGED <<pointerVars, windowVars>>
PointerEvent ==
  /\ ~ crashed
  /\ \/ \E b \in Buttons : PointerButton(b) \/ ButtonElsewhere(b)
     \/ \E f \in Positions : ("pointer" \in bound /\ pointer_enter(f)) \/ pointer_motion(f)
     \/ pointer_focus /\ pointer_leave
  /\ UNCHANGED <<keyboardVars, windowVars>>

Init ==
  /\ KeyboardInit /\ PointerInit
  /\ windows = 0 /\ open = FALSE /\ bound = {}

Next == OpenWindow \/ RegisterSeat \/ CloseWindow \/ KeyboardEvent \/ PointerEvent

Spec == Init /\ [][Next]_vars
-----------------------------------------------------------------------------
(* Type correctness.                                                       *)
TypeOK ==
  /\ KeyboardTypeOK /\ PointerTypeOK
  /\ windows \in 0 .. MaxWindows /\ open \in BOOLEAN
  /\ bound \subseteq {"keyboard", "pointer"}

(* A client that forgets the pressed keys when its window is entered knows *)
(* from then on which keys of the map are down, whatever happened while    *)
(* the focus was elsewhere or in an earlier window; but for those that     *)
(* were down on enter, until their next event, and those that a key        *)
(* outside of the map was taken for.                                       *)
KeysAgree ==
  keyboard_focus => \A k \in Named \ keys_astray : k \in keys_pressed <=> k \in keys_down

(* The same of the pointer's buttons, BTN_LEFT to BTN_FORWARD.             *)
ButtonsAgree ==
  pointer_focus => \A n \in (1 .. 6) \ buttons_astray :
                      n \in buttons_pressed <=> 271 + n \in buttons_down

(* The client is told the pixel the pointer is on, as long as it is on the *)
(* surface, also when it comes back in a drag from outside.                *)
PixelTold == pointer_focus /\ OnSurface(position) => told_at = position \div Fixed
-----------------------------------------------------------------------------
(* What the documents say and the code does not do.                        *)

(* "Modifier key bit flags (following Wayland's modifier mask): ... 2 =    *)
(* Caps Lock ... 16 = Num Lock" (orwindow_keyboard.h:122).  A lock is not  *)
(* depressed: of Caps Lock the client hears only while the key is down, of *)
(* a latched Shift not at all.                                             *)
ModsInForce == keyboard_focus => active_mods = Mods(keys_down \cup keys_locked) % 256
=============================================================================
