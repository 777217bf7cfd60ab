------------------------------- MODULE Window -------------------------------
(***************************************************************************)
(* The window: or_create_window, or_surface_setup, or_start_main_loop,     *)
(* or_toggle_fullscreen and or_destroy_window of src/orwindow/orwindow.c,  *)
(* through orwindow_internal.c to wayland_client.c and wayland_decorator.c.*)
(*                                                                         *)
(* The main thread calls the API in that order and the loop dispatches the *)
(* events of the compositor, one handler at a time: configure, close, and  *)
(* the frame callback that draws.  A window may be destroyed and another   *)
(* one created.                                                            *)
(*                                                                         *)
(* A block of shared memory, its mapping and its pool are one name in      *)
(* MapIds.  The application goes on only when a call returned OR_NO_ERROR, *)
(* and toggles the fullscreen state from a callback of the loop.  What the *)
(* compositor, libdecor and the kernel answer is nondeterministic.         *)
(***************************************************************************)
EXTENDS Integers, FiniteSets

CONSTANTS
  Word,         (* 2^16 in the code: the range of uint16_t; int32_t has      *)
                (* its square                                              *)
  Sizes,        (* the pairs <<width, height>> a window is created with    *)
  ContentSizes, (* the pairs of int that libdecor configures               *)
  MapIds,       (* names of blocks of shared memory                        *)
  MaxWindows,   (* bound on how many windows the application creates       *)
  Gamepads,     (* are gamepad_listeners passed to or_surface_setup?       *)
  MayFail       (* the calls that may fail                                 *)

NULL == "NULL"
FAILED == "MAP_FAILED"

Calls == {"client", "wayland", "libdecor", "bitmap", "display", "registry",
          "compositor", "seat", "base", "frame", "shm_open", "mmap", "munmap",
          "pool", "buffer", "state", "connection"}

ASSUME WindowAssumption ==
  /\ Word \in Nat /\ Word > 4
  /\ Sizes \subseteq (0 .. Word - 1) \X (0 .. Word - 1)
  /\ ContentSizes \subseteq Int \X Int
  /\ MapIds \cap {NULL, FAILED} = {}
  /\ MaxWindows \in Nat
  /\ Gamepads \in BOOLEAN
  /\ MayFail \subseteq Calls

VARIABLES
  app,               (* how far the application is                         *)
  windows,           (* how many windows it has created                    *)
  wlclient,          (* "NULL", without its "wayland", or "whole"          *)
  bitmap,            (* struct ORBitmap                                    *)
  mapped,            (* how many bytes of each block are mapped            *)
  buffer,            (* wayland->buffer                                    *)
  attached,          (* what the compositor has of the surface             *)
  frame,             (* the frame callback: none, requested, or armed by   *)
                     (* the commit after the request                       *)
  acked,             (* was the last configure acknowledged?               *)
  connected,         (* events can still be dispatched                     *)
  condemned,         (* the compositor has met an error of ours: it does   *)
                     (* no more for us, and will end the connection        *)
  is_open, is_fullscreen,       (* InterDecoration                         *)
  shown_fullscreen,  (* is the window fullscreen on the screen?            *)
  gamepads,          (* the gamepad threads: "none", "running", "joined"   *)
  resized,           (* ghost: did the last inter_wl_window_resize return  *)
                     (* OR_NO_ERROR?  Its callers do not look              *)
  fault              (* the process has died                               *)

memoryVars == <<bitmap, mapped, buffer, resized>>
connectionVars == <<connected, condemned>>
surfaceVars == <<memoryVars, attached, frame, acked, connectionVars>>
decorationVars == <<is_open, is_fullscreen, shown_fullscreen>>
vars == <<app, windows, wlclient, surfaceVars, decorationVars, gamepads,
          fault>>

-----------------------------------------------------------------------------
(* or_bitmap_reset.  The product is computed as an int.                    *)

Int32(n) ==
  LET r == n % (Word * Word) IN
  IF 2 * r >= Word * Word THEN r - Word * Word ELSE r

WideStride(w, h) ==
  [width |-> w, height |-> h, mem |-> NULL,
   mem_size |-> Int32(w * h * 4), stride |-> w * 4]
BitmapReset(w, h) ==
  [width |-> w, height |-> h, mem |-> NULL,
   mem_size |-> Int32(w * h * 4), stride |-> (w * 4) % Word]

NoBitmap == BitmapReset(0, 0)

(* wl_buffer: which memory it shows, and how.                              *)
BufferOf(b) == [mem |-> b.mem, width |-> b.width, height |-> b.height,
                stride |-> b.stride]
NoBuffer == BufferOf(NoBitmap)

(* The compositor ends the connection to a client that asks for a buffer   *)
(* whose rows overlap or do not fit in the pool.                           *)
Acceptable(b) ==
  /\ b.width > 0 /\ b.height > 0
  /\ b.stride >= 4 * b.width
  /\ b.stride * b.height <= b.mem_size

Init ==
  /\ app = "new" /\ windows = 0
  /\ wlclient = NULL
  /\ bitmap = NoBitmap
  /\ mapped = [m \in MapIds |-> 0]
  /\ buffer = NoBuffer /\ attached = NoBuffer
  /\ frame = "none" /\ acked = TRUE /\ connected = FALSE /\ condemned = FALSE
  /\ is_open = FALSE /\ is_fullscreen = FALSE /\ shown_fullscreen = FALSE
  /\ gamepads = "none"
  /\ resized = FALSE
  /\ fault = FALSE

-----------------------------------------------------------------------------
Fails(call) == call \in MayFail

(* inter_get_wayland_client: what of the client the arena has room for.    *)
GetWaylandClient ==
  \/ wlclient' = "whole"
  \/ (Fails("client") \/ Fails("libdecor")) /\ wlclient' = NULL
  \/ Fails("wayland") /\ wlclient' = "without wayland"

(* or_create_window.  inter_create_window says OR_NO_ERROR whatever        *)
(* inter_get_wayland_client returned.                                      *)
CreateWindow(w, h) ==
  /\ app \in {"new", "gone"} /\ windows < MaxWindows
  /\ windows' = windows + 1
  /\ \/ /\ Fails("bitmap")
        /\ app' = "stopped"
        /\ UNCHANGED <<wlclient, bitmap>>
     \/ /\ bitmap' = BitmapReset(w, h)
        /\ app' = "created"
        /\ GetWaylandClient
  /\ UNCHANGED <<mapped, buffer, resized, attached, frame, acked, connectionVars,
                 decorationVars, gamepads, fault>>

(* cleanup_gamepads: to join threads that were never created ends the      *)
(* process; to join them again is undefined.                               *)
CleanupGamepads ==
  /\ gamepads' = IF gamepads = "running" THEN "joined" ELSE gamepads
  /\ fault' \in CASE gamepads = "running" -> {FALSE}
                  [] gamepads = "none" -> {TRUE}
                  [] OTHER -> BOOLEAN

(* inter_wl_free_window.                                                   *)
FreeWindow ==
  /\ buffer' = NoBuffer /\ attached' = NoBuffer /\ frame' = "none" /\ acked' = TRUE
  /\ connected' = FALSE /\ condemned' = FALSE
  /\ CleanupGamepads

-----------------------------------------------------------------------------
(* A frame callback is asked for, and armed by the next commit.            *)
ForgetsFrame(f) == f
AskFrame(f) == "requested"
Commit(f) == IF f = "requested" THEN "armed" ELSE f

-----------------------------------------------------------------------------
(* or_surface_setup.                                                       *)

(* inter_surface_setup looks into a client that it does not check.         *)
SetupNoClient ==
  /\ app = "created" /\ wlclient = NULL
  /\ fault' = TRUE
  /\ UNCHANGED <<app, windows, wlclient, surfaceVars, decorationVars, gamepads>>
SetupNoWayland ==
  /\ app = "created" /\ wlclient = "without wayland"
  /\ app' = "stopped"
  /\ UNCHANGED <<windows, wlclient, surfaceVars, decorationVars, gamepads, fault>>

(* init_wayland has no display or no registry.                             *)
SetupNoDisplay ==
  /\ app = "created" /\ wlclient = "whole"
  /\ Fails("display") \/ Fails("registry")
  /\ FreeWindow
  /\ wlclient' = "without wayland"
  /\ app' = "stopped"
  /\ UNCHANGED <<windows, bitmap, mapped, resized, decorationVars>>

(* init_wayland: the registry is read, the surface created and its first   *)
(* frame asked for.  Without a compositor global there is no surface to    *)
(* create, and the call ends the process.  Then init_libdecor.             *)
Setup ==
  /\ app = "created" /\ wlclient = "whole"
  /\ gamepads' \in (IF Gamepads THEN {"running"} ELSE {gamepads})
                   \cup (IF Fails("seat") THEN {gamepads} ELSE {})
  /\ fault' \in {FALSE, Fails("compositor")}
  /\ frame' = AskFrame("none") /\ connected' = TRUE
  /\ is_fullscreen' = FALSE /\ is_open' = FALSE /\ shown_fullscreen' = FALSE
  /\ app' \in {"ready"} \cup (IF Fails("base") \/ Fails("frame")
                              THEN {"stopped"} ELSE {})
  /\ UNCHANGED <<windows, wlclient, memoryVars, attached, acked, condemned>>

(* or_start_main_loop: inter_wl_start_decoration maps the frame, which     *)
(* commits the surface without a buffer.                                   *)
StartDrawing ==
  /\ app = "ready"
  /\ app' = "loop"
  /\ is_open' = TRUE
  /\ frame' = Commit(frame)
  /\ UNCHANGED <<windows, wlclient, memoryVars, attached, acked, connectionVars,
                 is_fullscreen, shown_fullscreen, gamepads, fault>>

-----------------------------------------------------------------------------
(* Drawing and resizing.                                                   *)

(* inter_frame_render draws into the bitmap (of the next state, as the     *)
(* first configure makes it), attaches the buffer and commits, if draw has *)
(* not ended the process.                                                  *)
IsMapped(m) == m \in MapIds /\ mapped'[m] > 0
FrameRender(f) ==
  /\ fault' = ~ IsMapped(bitmap'.mem)
  /\ IF fault' \/ condemned'
     THEN attached' = attached /\ frame' = f
     ELSE attached' = buffer' /\ frame' = Commit(f)

(* inter_wl_window_resize for the bitmap b, when the blocks m are mapped.  *)
(* shm_open may fail, as the name is that of every window on the machine;  *)
(* mmap fails by returning MAP_FAILED, which is not NULL, so the pool and  *)
(* the buffer are made nevertheless.  A pool of no descriptor, or a buffer *)
(* that is not Acceptable, is an error, of which the client learns when it *)
(* has dispatched what was sent before.  (Where the pool or the buffer     *)
(* cannot be made the handler returns without closing the descriptor;      *)
(* descriptors are not modelled.)                                          *)
KeptBuffer(b) == IF buffer = NoBuffer THEN BufferOf(b) ELSE buffer
NewBuffer(b) == BufferOf(b)
UnmapsNew(m, id, size) == IF bitmap.mem = NULL THEN [m EXCEPT ![id] = size] ELSE m
MappedWith(m, id, size) == [m EXCEPT ![id] = size]
CreateBuffer(b) == condemned' = (condemned \/ ~ Acceptable(b))
MappingFails(b, m) ==
  /\ \/ Fails("shm_open") /\ condemned' = TRUE
     \/ (Fails("mmap") \/ b.mem_size <= 0) /\ CreateBuffer(b)
  /\ bitmap' = [b EXCEPT !.mem = FAILED]
  /\ mapped' = m
  /\ buffer' = NewBuffer(bitmap') /\ resized' = TRUE
  /\ UNCHANGED connected
MappingSucceeds(b, m) ==
  /\ b.mem_size > 0
  /\ \E id \in {i \in MapIds : m[i] = 0} :
       /\ bitmap' = [b EXCEPT !.mem = id]
       /\ mapped' = MappedWith(m, id, b.mem_size)
  /\ \/ /\ buffer' = NewBuffer(bitmap') /\ resized' = TRUE
        /\ CreateBuffer(b)
     \/ /\ Fails("pool")
        /\ resized' = FALSE
        /\ UNCHANGED <<buffer, condemned>>
     \/ /\ Fails("buffer")
        /\ buffer' = NoBuffer /\ resized' = FALSE
        /\ UNCHANGED condemned
  /\ UNCHANGED connected
WindowResize(b, m) == MappingFails(b, m) \/ MappingSucceeds(b, m)

(* munmap of the bitmap takes as many bytes as the bitmap says it has.     *)
Kept(mem) == mapped[mem]
Rest(mem) ==
  IF mapped[mem] > bitmap.mem_size THEN mapped[mem] - bitmap.mem_size ELSE 0
Unmapped == [mapped EXCEPT ![bitmap.mem] = Rest(bitmap.mem)]

-----------------------------------------------------------------------------
(* The events of the loop.  Several may be dispatched before the loop      *)
(* looks at is_open again.                                                 *)

Dispatching == app = "loop" /\ connected
NotConfigured == <<app, windows, wlclient, decorationVars, gamepads>>

(* commit_frame acknowledges the configure, if libdecor makes a state.     *)
CommitFrame == acked' = TRUE \/ (Fails("state") /\ acked' = FALSE)

(* decoration_config while there is no memory: the size that is configured *)
(* is not looked at, and the surface is committed before commit_frame.     *)
FirstConfigure ==
  /\ Dispatching
  /\ bitmap.mem = NULL
  /\ WindowResize(bitmap, mapped)
  /\ FrameRender(frame)
  /\ CommitFrame
  /\ UNCHANGED NotConfigured

(* decoration_config with another size, of which or_bitmap_reset takes     *)
(* what fits into uint16_t.  If munmap fails, as it does for MAP_FAILED,   *)
(* the handler returns before commit_frame.                                *)
ResizeConfigure(w, h) ==
  /\ Dispatching
  /\ bitmap.mem # NULL
  /\ w # bitmap.width \/ h # bitmap.height
  /\ \/ /\ bitmap.mem # FAILED
        /\ WindowResize(BitmapReset(w % Word, h % Word), Unmapped)
        /\ CommitFrame
        /\ UNCHANGED <<attached, frame>>
     \/ /\ bitmap.mem = FAILED \/ Fails("munmap")
        /\ acked' = FALSE
        /\ UNCHANGED <<memoryVars, attached, frame, connectionVars>>
  /\ UNCHANGED <<NotConfigured, fault>>

(* decoration_config without a size, or with that which the window has.    *)
SameConfigure ==
  /\ Dispatching
  /\ bitmap.mem # NULL
  /\ CommitFrame
  /\ UNCHANGED <<NotConfigured, memoryVars, attached, frame, connectionVars, fault>>

(* wl_frame_new: the callback is asked for again, and the render commits.  *)
NewFrame ==
  /\ Dispatching
  /\ frame = "armed" /\ attached # NoBuffer
  /\ UNCHANGED <<memoryVars, acked, connectionVars>>
  /\ FrameRender(AskFrame("none"))
  /\ UNCHANGED NotConfigured

(* decoration_close.                                                       *)
Close ==
  /\ Dispatching
  /\ is_open' = FALSE
  /\ UNCHANGED <<app, windows, wlclient, surfaceVars, is_fullscreen,
                 shown_fullscreen, gamepads, fault>>

(* or_toggle_fullscreen, called by a listener.                             *)
ToggleFullscreen ==
  /\ Dispatching
  /\ is_fullscreen' = ~ is_fullscreen
  /\ shown_fullscreen' = is_fullscreen'
  /\ UNCHANGED <<app, windows, wlclient, surfaceVars, is_open, gamepads, fault>>

(* The user of the desktop makes the window fullscreen, or ends that.      *)
DesktopFullscreen ==
  /\ Dispatching
  /\ shown_fullscreen' = ~ shown_fullscreen
  /\ UNCHANGED <<app, windows, wlclient, surfaceVars, is_open, is_fullscreen,
                 gamepads, fault>>

(* The connection ends, for an error of ours or of the compositor.         *)
ConnectionLost ==
  /\ Dispatching
  /\ condemned \/ Fails("connection")
  /\ connected' = FALSE
  /\ UNCHANGED <<app, windows, wlclient, memoryVars, attached, frame, acked, condemned,
                 decorationVars, gamepads, fault>>

(* The loop sees is_open, or wl_display_dispatch fails.                    *)
StopsOnError == ~ connected
StopsDrawing == ~ is_open \/ ~ connected
EndDrawing ==
  /\ app = "loop"
  /\ StopsDrawing
  /\ app' = "ended"
  /\ UNCHANGED <<windows, wlclient, surfaceVars, decorationVars, gamepads, fault>>

(* or_destroy_window: inter_remove_window frees the window and destroys    *)
(* the arena with the bitmap's structure in it; the pixels stay mapped.    *)
DestroyWindow ==
  /\ app = "ended" \/ (app = "stopped" /\ wlclient = "whole")
  /\ FreeWindow
  /\ bitmap' = NoBitmap
  /\ wlclient' = "without wayland"
  /\ app' = "gone"
  /\ UNCHANGED <<windows, mapped, resized, decorationVars>>

Loop ==
  \/ FirstConfigure
  \/ \E s \in ContentSizes : ResizeConfigure(s[1], s[2])
  \/ SameConfigure
  \/ NewFrame \/ Close \/ ToggleFullscreen \/ DesktopFullscreen \/ ConnectionLost

Next ==
  /\ ~ fault
  /\ \/ \E s \in Sizes : CreateWindow(s[1], s[2])
     \/ SetupNoClient \/ SetupNoWayland \/ SetupNoDisplay \/ Setup
     \/ StartDrawing \/ Loop \/ EndDrawing \/ DestroyWindow

(* The main thread goes on, and the compositor asks for frames of a window *)
(* that it shows and ends a connection that it has condemned.              *)
Fairness ==
  /\ WF_vars(~ fault /\ EndDrawing)
  /\ WF_vars(~ fault /\ NewFrame)
  /\ WF_vars(~ fault /\ condemned /\ ConnectionLost)

Spec == Init /\ [][Next]_vars /\ Fairness
-----------------------------------------------------------------------------
Bitmap == [width : 0 .. Word - 1, height : 0 .. Word - 1,
           mem : MapIds \cup {NULL, FAILED}, mem_size : Int, stride : 0 .. Word - 1]
Buffer == [mem : MapIds \cup {NULL, FAILED}, width : 0 .. Word - 1,
           height : 0 .. Word - 1, stride : 0 .. Word - 1]

(* Type correctness.                                                       *)
TypeOK ==
  /\ app \in {"new", "created", "ready", "loop", "ended", "stopped", "gone"}
  /\ windows \in 0 .. MaxWindows
  /\ wlclient \in {NULL, "without wayland", "whole"}
  /\ bitmap \in Bitmap
  /\ mapped \in [MapIds -> Nat]
  /\ buffer \in Buffer /\ attached \in Buffer
  /\ frame \in {"none", "requested", "armed"} /\ acked \in BOOLEAN
  /\ connected \in BOOLEAN /\ condemned \in BOOLEAN
  /\ is_open \in BOOLEAN /\ is_fullscreen \in BOOLEAN
  /\ shown_fullscreen \in BOOLEAN
  /\ gamepads \in {"none", "running", "joined"}
  /\ resized \in BOOLEAN
  /\ fault \in BOOLEAN

(* What is drawn is what is shown: whenever the compositor is given        *)
(* another buffer it is of the memory that draw has just filled, in the    *)
(* size and stride that draw was told, and that memory is mapped; however  *)
(* often the window was resized before, and whichever of the resizes       *)
(* failed half way, but for the last.                                      *)
ShowsWhatIsDrawn ==
  [][app = "loop" /\ attached' # attached /\ resized' =>
       attached' = BufferOf(bitmap') /\ IsMapped(bitmap'.mem)]_vars

(* Nothing is drawn into memory that a resize has taken away: however      *)
(* configure, frame and close events follow each other, and whatever       *)
(* fails, the loop only dies of memory that it never got.                  *)
DrawsMappedMemory == app = "loop" /\ fault => bitmap.mem = FAILED

(* Resizing does not pile up memory: of every window at most the last      *)
(* bitmap stays mapped, in its whole size.                                 *)
ResizeKeepsOneMapping ==
  /\ Cardinality({m \in MapIds : mapped[m] > 0}) <= windows
  /\ bitmap.mem \in MapIds => mapped[bitmap.mem] = bitmap.mem_size

(* The chain of frame callbacks does not break: in the loop one is armed   *)
(* after every event, also when the commit before it attached no buffer,   *)
(* unless the compositor has condemned the connection or the process died. *)
FrameChainUnbroken == app = "loop" /\ ~ condemned /\ ~ fault => frame = "armed"

(* The buffer of a resize is shown in the end, although the handler of     *)
(* configure neither renders nor commits: as long as there is a buffer,    *)
(* and the process has not died of memory that it never got.               *)
ResizeShown ==
  (app = "loop" /\ attached # NoBuffer /\ buffer # NoBuffer /\ attached # buffer)
    ~> (attached = buffer \/ buffer = NoBuffer \/ app # "loop" \/ fault)

(* A close request ends the loop, also among other events.                 *)
CloseEndsLoop == (app = "loop" /\ ~ is_open) ~> (app # "loop" \/ fault)

-----------------------------------------------------------------------------
(* What the documents say and the code does not do.                        *)

(* "Total bytes (width * height * 4)" and "Bytes per row (width * 4)"      *)
(* (doc/architecture.md:212): stride is stored in a uint16_t and wraps     *)
(* from a width of 16384 on, and the product of mem_size overflows an int. *)
RowsAndBytes ==
  /\ bitmap.mem_size = bitmap.width * bitmap.height * 4
  /\ bitmap.stride = bitmap.width * 4
=============================================================================
