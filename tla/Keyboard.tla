------------------------------ MODULE Keyboard ------------------------------
(***************************************************************************)
(* The keyboard of a seat as src/orwindow/linux/wayland_keyboard.c tells   *)
(* the client of it.  Input opens and closes the window.                   *)
(*                                                                         *)
(* An event of the compositor and its handler are one step: the handlers   *)
(* send nothing back, and events come in order.  The compositor tells the  *)
(* modifiers after enter, and after a key that changes them.               *)
(***************************************************************************)
EXTENDS Integers, FiniteSetsExt

CONSTANTS
  Keys,          (* the kernel's numbers of the keyboard's keys            *)
  ModBit,        (* the modifier of each key, a power of two, or 0         *)
  StickyKeys,    (* keys whose modifier may be latched or locked           *)
  KeyListeners,   (* which members of the structs of listeners are not NULL *)
  StrayCodes      (* what may be read past the end of a map                 *)

VARIABLES
  keys_down, keyboard_focus,      (* as the compositor knows them          *)
  keys_locked,   (* the keys whose modifier is latched or locked           *)
  active_mods,
  keys_pressed,  (* the codes the client was told are pressed; it forgets  *)
                 (* them when the window is entered                        *)
  keys_astray    (* ghost: the codes of keys that were down on enter, and  *)
                 (* those read past the end of key_map, until the next     *)
                 (* event of that key                                      *)

keyboardVars == <<keys_down, keyboard_focus, keys_locked, active_mods, keys_pressed,
                  keys_astray>>

Toggled(x, S) == IF x \in S THEN S \ {x} ELSE S \cup {x}
Mods(S) == MapThenSumSet(LAMBDA k : ModBit[k], S)

(* key_map.  A code is the number of its key, and 0 is OR_KEY_UNKNOWN.     *)
UNKNOWN == 0
Named == ((1 .. 68) \ {55}) \cup {87, 88, 97} \cup (102 .. 111)
key_map == [n \in 0 .. 254 |-> IF n \in Named THEN n ELSE UNKNOWN]
LowByte(key) == key % 256
IndexOf(key) == key
InMap(key) == IndexOf(key) \in DOMAIN key_map
CodesOf(key) == IF InMap(key) THEN {key_map[IndexOf(key)]} ELSE StrayCodes

(* keyboard_modifiers is told which modifiers are depressed, which latched *)
(* and which locked, and takes the depressed ones.                         *)
UntruncatedMods(mods) == mods
TruncatedMods(mods) == mods % 256
keyboard_modifiers == active_mods' = TruncatedMods(Mods(keys_down'))

(* What a key latches and locks is the business of the keymap.             *)
Latches == keys_locked' \in SUBSET StickyKeys

(* keyboard_key, and the modifiers after it.                               *)
KeyboardKey(key) ==
  /\ keyboard_focus
  /\ keys_down' = Toggled(key, keys_down)
  /\ \E code \in CodesOf(key) :
       /\ keys_pressed' = CASE key \notin keys_down /\ "key_press" \in KeyListeners ->
                                 keys_pressed \cup {code}
                            [] key \in keys_down /\ "key_release" \in KeyListeners ->
                                 keys_pressed \ {code}
                            [] OTHER -> keys_pressed
       /\ keys_astray' = IF InMap(key) THEN keys_astray \ {code} ELSE keys_astray \cup {code}
  /\ Latches /\ keyboard_modifiers
  /\ UNCHANGED keyboard_focus
KeyElsewhere(key) ==
  /\ ~ keyboard_focus
  /\ keys_down' = Toggled(key, keys_down)
  /\ Latches
  /\ UNCHANGED <<keyboard_focus, active_mods, keys_pressed, keys_astray>>

(* keyboard_enter does not look at the keys that are down.                 *)
keyboard_enter ==
  /\ ~ keyboard_focus /\ keyboard_focus' = TRUE
  /\ keys_pressed' = IF "enter" \in KeyListeners THEN {} ELSE keys_pressed
  /\ keys_astray' = UNION {CodesOf(k) : k \in keys_down}
  /\ UNCHANGED <<keys_down, keys_locked>>
  /\ keyboard_modifiers

(* keyboard_leave; without the event, the end of the window.               *)
keyboard_leave ==
  /\ keyboard_focus' = FALSE
  /\ UNCHANGED <<keys_down, keys_locked, active_mods, keys_pressed, keys_astray>>

KeyboardInit ==
  /\ keys_down = {} /\ keyboard_focus = FALSE /\ keys_locked \in SUBSET StickyKeys
  /\ active_mods = 0
  /\ keys_pressed = {} /\ keys_astray = {}

KeyboardTypeOK ==
  /\ keys_down \subseteq Keys
  /\ keyboard_focus \in BOOLEAN
  /\ keys_locked \subseteq StickyKeys
  /\ active_mods \in 0 .. 255
  /\ keys_pressed \cup keys_astray \subseteq Named \cup {UNKNOWN} \cup StrayCodes
=============================================================================
