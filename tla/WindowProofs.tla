---------------------------- MODULE WindowProofs ----------------------------
(***************************************************************************)
(* What holds of Window for any sizes and any width of an integer, any     *)
(* number of windows, whatever fails.                                      *)
(***************************************************************************)
EXTENDS Window, FiniteSetTheorems, TLAPS

(* The blocks that are mapped.                                             *)
Mapped == {m \in MapIds : mapped[m] > 0}

(* A window has no memory before its first configure, and nothing to show. *)
NothingYet ==
  /\ app \in {"new", "created", "ready", "gone"} => bitmap.mem = NULL
  /\ bitmap.mem = NULL => buffer = NoBuffer /\ attached = NoBuffer

(* A bitmap that has memory has all of it, and of every window before the  *)
(* current one at most one block is left.                                  *)
MapsOne ==
  /\ bitmap.mem \in MapIds => mapped[bitmap.mem] = bitmap.mem_size /\ bitmap.mem_size > 0
  /\ IsFiniteSet(Mapped) /\ Cardinality(Mapped) <= windows
  /\ app \in {"created", "ready", "loop"} /\ bitmap.mem \notin MapIds =>
       Cardinality(Mapped) < windows

(* A frame is asked for before the loop, and each commit in it arms one.   *)
FrameKept ==
  /\ app = "ready" => frame = "requested"
  /\ FrameChainUnbroken

(* Between two events the buffer that the next commit attaches is that of  *)
(* the bitmap, unless the last resize told that it is not.                 *)
NextBuffer == app = "loop" /\ bitmap.mem # NULL /\ resized => buffer = BufferOf(bitmap)

IInv == TypeOK /\ NothingYet /\ MapsOne /\ FrameKept /\ NextBuffer /\ DrawsMappedMemory

(* What a configure that fails to unmap leaves alone.                      *)
Untouched == UNCHANGED <<memoryVars, attached, frame, connectionVars>>

USE DEF memoryVars, connectionVars

-----------------------------------------------------------------------------
(* Bitmaps and blocks.                                                     *)

LEMMA Int32Type ==
  ASSUME NEW n \in Int
  PROVE  Int32(n) \in Int
<1>1. Word * Word \in Nat \ {0}
  BY WindowAssumption
<1>2. n % (Word * Word) \in Int
  BY <1>1
<1> QED
  BY <1>1, <1>2 DEF Int32

LEMMA BitmapResetType ==
  ASSUME NEW w \in 0 .. Word - 1, NEW h \in 0 .. Word - 1
  PROVE  BitmapReset(w, h) \in Bitmap /\ BitmapReset(w, h).mem = NULL
<1>1. (w * 4) % Word \in 0 .. Word - 1
  BY WindowAssumption
<1>2. w * h * 4 \in Int
  BY WindowAssumption
<1> QED
  BY <1>1, <1>2, Int32Type DEF BitmapReset, Bitmap

LEMMA NoBitmapType == NoBitmap \in Bitmap /\ NoBitmap.mem = NULL /\ NoBuffer \in Buffer
BY BitmapResetType, WindowAssumption DEF NoBitmap, NoBuffer, BufferOf, Bitmap, Buffer

(* A resize starts from the blocks m that are mapped, one of which less    *)
(* than there have been windows.  It makes the buffer of what it draws,    *)
(* or tells that it did not, and never leaves the window without memory    *)
(* that it takes for memory.                                               *)
MappedIn(m) == {i \in MapIds : m[i] > 0}

LEMMA ResizeKeeps ==
  ASSUME TypeOK, NEW b \in Bitmap, NEW m \in [MapIds -> Nat], WindowResize(b, m),
         IsFiniteSet(MappedIn(m)), Cardinality(MappedIn(m)) < windows
  PROVE  /\ bitmap' \in Bitmap /\ mapped' \in [MapIds -> Nat]
         /\ buffer' \in Buffer /\ resized' \in BOOLEAN
         /\ connected' = connected /\ condemned' \in BOOLEAN /\ (condemned => condemned')
         /\ bitmap'.mem \in MapIds \cup {FAILED}
         /\ bitmap'.mem \in MapIds =>
              mapped'[bitmap'.mem] = bitmap'.mem_size /\ bitmap'.mem_size > 0
         /\ resized' => buffer' = BufferOf(bitmap')
         /\ IsFiniteSet(MappedIn(mapped')) /\ Cardinality(MappedIn(mapped')) <= windows
         /\ bitmap'.mem \notin MapIds => Cardinality(MappedIn(mapped')) < windows
<1>a. windows \in Nat
  <2>1. windows \in 0 .. MaxWindows
    BY DEF TypeOK
  <2> QED
    BY <2>1, WindowAssumption
<1>b. Cardinality(MappedIn(m)) \in Nat
  BY FS_CardinalityType
<1>c. NULL \notin MapIds /\ FAILED \notin MapIds
  BY WindowAssumption
<1>0. windows \in Nat /\ Cardinality(MappedIn(m)) \in Nat /\ FAILED \notin MapIds
  BY <1>a, <1>b, <1>c
<1>1. CASE MappingFails(b, m)
  <2>1. /\ bitmap' = [b EXCEPT !.mem = FAILED] /\ mapped' = m
        /\ buffer' = BufferOf(bitmap') /\ resized' = TRUE
    BY <1>1 DEF MappingFails, NewBuffer
  <2>2. bitmap' \in Bitmap /\ bitmap'.mem = FAILED
    BY <2>1 DEF Bitmap
  <2>3. BufferOf(bitmap') \in Buffer
    BY <2>2 DEF Bitmap, Buffer, BufferOf
  <2>4. connected' = connected /\ condemned' \in BOOLEAN /\ (condemned => condemned')
    BY <1>1, Zenon DEF MappingFails, CreateBuffer, TypeOK
  <2> QED
    BY <1>0, <2>1, <2>2, <2>3, <2>4
<1>2. CASE MappingSucceeds(b, m)
  <2>1. PICK id \in MapIds :
          /\ m[id] = 0 /\ b.mem_size > 0
          /\ bitmap' = [b EXCEPT !.mem = id]
          /\ mapped' = [m EXCEPT ![id] = b.mem_size]
    BY <1>2 DEF MappingSucceeds, MappedWith
  <2>2. bitmap' \in Bitmap /\ bitmap'.mem = id /\ bitmap'.mem_size = b.mem_size
    BY <2>1 DEF Bitmap
  <2>3. mapped' \in [MapIds -> Nat] /\ mapped'[id] = b.mem_size
    BY <2>1 DEF Bitmap
  <2>4. /\ buffer' = BufferOf(bitmap') \/ buffer' = buffer \/ buffer' = NoBuffer
        /\ (resized' = TRUE /\ buffer' = BufferOf(bitmap')) \/ resized' = FALSE
    BY <1>2 DEF MappingSucceeds, NewBuffer
  <2>5. buffer' \in Buffer
    <3>1. BufferOf(bitmap') \in Buffer
      BY <2>2 DEF Bitmap, Buffer, BufferOf
    <3> QED
      BY <2>4, <3>1, NoBitmapType DEF TypeOK
  <2>6. connected' = connected /\ condemned' \in BOOLEAN /\ (condemned => condemned')
    <3>1. \/ condemned' = (condemned \/ ~ Acceptable(b))
          \/ condemned' = condemned
      BY <1>2, Zenon DEF MappingSucceeds, CreateBuffer
    <3>2. condemned \in BOOLEAN
      BY DEF TypeOK
    <3>3. condemned' \in BOOLEAN
      <4>1. CASE condemned' = condemned
        BY <3>2, <4>1
      <4>2. CASE condemned' = (condemned \/ ~ Acceptable(b))
        BY <3>2, <4>2
      <4> QED
        BY <3>1, <4>1, <4>2
    <3>4. condemned => condemned'
      BY <3>1, Zenon
    <3>5. connected' = connected
      BY <1>2 DEF MappingSucceeds
    <3> QED
      BY <3>3, <3>4, <3>5
  <2>7. MappedIn(mapped') = MappedIn(m) \cup {id} /\ id \notin MappedIn(m)
    BY <2>1, <2>3 DEF MappedIn
  <2>8. /\ IsFiniteSet(MappedIn(mapped'))
        /\ Cardinality(MappedIn(mapped')) = Cardinality(MappedIn(m)) + 1
    BY <2>7, FS_AddElement
  <2>9. resized' \in BOOLEAN /\ (resized' => buffer' = BufferOf(bitmap'))
    BY <2>4, Zenon
  <2>10. /\ bitmap'.mem \in MapIds
         /\ mapped'[bitmap'.mem] = bitmap'.mem_size /\ bitmap'.mem_size > 0
    BY <2>1, <2>2, <2>3
  <2> QED
    BY <1>0, <2>2, <2>3, <2>5, <2>6, <2>8, <2>9, <2>10
<1> QED
  BY <1>1, <1>2 DEF WindowResize

-----------------------------------------------------------------------------
(* The steps of the window.                                                *)

LEMMA InitIInv == Init => IInv
<1> SUFFICES ASSUME Init PROVE IInv
  OBVIOUS
<1>1. TypeOK
  <2>1. /\ bitmap \in Bitmap /\ buffer \in Buffer /\ attached \in Buffer
        /\ mapped \in [MapIds -> Nat] /\ windows \in 0 .. MaxWindows
    BY NoBitmapType, WindowAssumption DEF Init
  <2>2. /\ app = "new" /\ wlclient = NULL /\ frame = "none" /\ gamepads = "none"
    BY DEF Init
  <2>3. /\ connected = FALSE /\ is_open = FALSE /\ is_fullscreen = FALSE
        /\ shown_fullscreen = FALSE /\ resized = FALSE /\ fault = FALSE
        /\ condemned = FALSE /\ acked = TRUE
    BY DEF Init
  <2> QED
    BY <2>1, <2>2, <2>3, Zenon DEF TypeOK
<1>2. NothingYet /\ FrameKept
  BY NoBitmapType DEF Init, NothingYet, FrameKept, FrameChainUnbroken
<1>3. MapsOne
  <2>1. Mapped = {}
    BY DEF Init, Mapped
  <2>2. bitmap.mem \notin MapIds /\ windows = 0 /\ app = "new"
    BY NoBitmapType, WindowAssumption DEF Init
  <2> QED
    BY <2>1, <2>2, FS_EmptySet DEF MapsOne
<1>4. NextBuffer /\ DrawsMappedMemory
  BY DEF Init, NextBuffer, DrawsMappedMemory
<1> QED
  BY <1>1, <1>2, <1>3, <1>4 DEF IInv

LEMMA ControlTypes ==
  ASSUME IInv, Next
  PROVE  /\ app' \in {"new", "created", "ready", "loop", "ended", "stopped", "gone"}
         /\ windows' \in 0 .. MaxWindows
         /\ wlclient' \in {NULL, "without wayland", "whole"}
         /\ frame' \in {"none", "requested", "armed"}
         /\ gamepads' \in {"none", "running", "joined"}
<1>0. /\ app \in {"new", "created", "ready", "loop", "ended", "stopped", "gone"}
      /\ windows \in 0 .. MaxWindows
      /\ wlclient \in {NULL, "without wayland", "whole"}
      /\ frame \in {"none", "requested", "armed"}
      /\ gamepads \in {"none", "running", "joined"}
  BY DEF IInv, TypeOK
<1>1. CASE \E s \in Sizes : CreateWindow(s[1], s[2])
  <2>1. /\ windows < MaxWindows /\ windows' = windows + 1
        /\ app' \in {"stopped", "created"}
        /\ wlclient' \in {wlclient, "whole", NULL, "without wayland"}
        /\ UNCHANGED <<frame, gamepads>>
    BY <1>1, Zenon DEF CreateWindow, GetWaylandClient
  <2>2. windows' \in 0 .. MaxWindows
    <3>1. windows \in 0 .. MaxWindows /\ windows < MaxWindows /\ windows' = windows + 1
      BY <1>0, <2>1
    <3>2. MaxWindows \in Nat
      BY WindowAssumption
    <3> QED
      BY <3>1, <3>2
  <2> QED
    BY <1>0, <2>1, <2>2
<1>2. CASE SetupNoClient \/ SetupNoWayland \/ SetupNoDisplay \/ Setup \/ StartDrawing
  BY <1>0, <1>2
     DEF SetupNoClient, SetupNoWayland, SetupNoDisplay, Setup, StartDrawing, FreeWindow,
    CleanupGamepads, AskFrame, Commit, surfaceVars
<1>3. CASE Loop
  BY <1>0, <1>3 DEF Loop, FirstConfigure, ResizeConfigure, NewFrame, Close,
     ToggleFullscreen, DesktopFullscreen,
    SameConfigure, ConnectionLost, FrameRender, AskFrame, Commit, NotConfigured, surfaceVars
<1>4. CASE EndDrawing \/ DestroyWindow
  BY <1>0, <1>4 DEF EndDrawing, DestroyWindow, FreeWindow, CleanupGamepads, surfaceVars
<1> QED
  BY <1>1, <1>2, <1>3, <1>4 DEF Next

(* What the first configure and a later one make of the memory.            *)
LEMMA FirstConfigureKeeps ==
  ASSUME IInv, FirstConfigure
  PROVE  /\ WindowResize(bitmap, mapped) /\ mapped \in [MapIds -> Nat] /\ bitmap \in Bitmap
         /\ IsFiniteSet(MappedIn(mapped)) /\ Cardinality(MappedIn(mapped)) < windows
         /\ app = "loop" /\ bitmap.mem = NULL
<1>1. /\ WindowResize(bitmap, mapped) /\ app = "loop" /\ bitmap.mem = NULL
  BY DEF FirstConfigure, Dispatching
<1>2. /\ mapped \in [MapIds -> Nat] /\ bitmap \in Bitmap
  BY DEF IInv, TypeOK
<1>3. NULL \notin MapIds
  BY WindowAssumption
<1>4. MappedIn(mapped) = Mapped
  BY DEF MappedIn, Mapped
<1> QED
  BY <1>1, <1>2, <1>3, <1>4 DEF IInv, MapsOne

LEMMA ResizeConfigureKeeps ==
  ASSUME IInv, NEW s \in ContentSizes, ResizeConfigure(s[1], s[2]), ~ Untouched
  PROVE  LET b == BitmapReset(s[1] % Word, s[2] % Word) IN
         /\ WindowResize(b, Unmapped) /\ Unmapped \in [MapIds -> Nat] /\ b \in Bitmap
         /\ IsFiniteSet(MappedIn(Unmapped)) /\ Cardinality(MappedIn(Unmapped)) < windows
         /\ app = "loop" /\ bitmap.mem \in MapIds /\ attached' = attached /\ frame' = frame
<1> DEFINE b == BitmapReset(s[1] % Word, s[2] % Word)
<1>1. /\ WindowResize(b, Unmapped) /\ attached' = attached /\ frame' = frame
      /\ app = "loop" /\ bitmap.mem # NULL /\ bitmap.mem # FAILED
  BY DEF ResizeConfigure, Dispatching, Untouched
<1>2. b \in Bitmap
  BY WindowAssumption, BitmapResetType
<1>3. bitmap.mem \in MapIds
  BY <1>1 DEF IInv, TypeOK, Bitmap
<1>4. /\ mapped \in [MapIds -> Nat] /\ mapped[bitmap.mem] > 0
      /\ Unmapped = [mapped EXCEPT ![bitmap.mem] = 0]
  <2>1. mapped \in [MapIds -> Nat]
    BY DEF IInv, TypeOK
  <2>2. mapped[bitmap.mem] = bitmap.mem_size /\ bitmap.mem_size > 0
    BY <1>3 DEF IInv, MapsOne
  <2> QED
    <3>1. mapped[bitmap.mem] \in Nat
      BY <1>3, <2>1
    <3>2. Rest(bitmap.mem) = 0
      BY <2>2, <3>1 DEF Rest
    <3> QED
      BY <2>1, <2>2, <3>2 DEF Unmapped
<1>5. /\ Unmapped \in [MapIds -> Nat]
      /\ MappedIn(Unmapped) = Mapped \ {bitmap.mem} /\ bitmap.mem \in Mapped
  BY <1>3, <1>4 DEF MappedIn, Mapped
<1>6. /\ IsFiniteSet(Mapped) /\ Cardinality(Mapped) <= windows
  BY DEF IInv, MapsOne
<1>7. /\ IsFiniteSet(MappedIn(Unmapped))
      /\ Cardinality(MappedIn(Unmapped)) = Cardinality(Mapped) - 1
  BY <1>5, <1>6, FS_RemoveElement
<1>8. windows \in Nat /\ Cardinality(Mapped) \in Nat
  <2>1. windows \in 0 .. MaxWindows
    BY DEF IInv, TypeOK
  <2> QED
    BY <2>1, <1>6, WindowAssumption, FS_CardinalityType
<1> QED
  BY <1>1, <1>2, <1>3, <1>5, <1>6, <1>7, <1>8

LEMMA FlagTypes ==
  ASSUME IInv, Next
  PROVE  /\ connected' \in BOOLEAN /\ is_open' \in BOOLEAN /\ is_fullscreen' \in BOOLEAN
         /\ shown_fullscreen' \in BOOLEAN /\ resized' \in BOOLEAN /\ fault' \in BOOLEAN
         /\ condemned' \in BOOLEAN /\ acked' \in BOOLEAN
<1>0. /\ condemned \in BOOLEAN /\ acked \in BOOLEAN
      /\ connected \in BOOLEAN /\ is_open \in BOOLEAN /\ is_fullscreen \in BOOLEAN
      /\ shown_fullscreen \in BOOLEAN /\ resized \in BOOLEAN /\ fault \in BOOLEAN
  BY DEF IInv, TypeOK
<1> USE DEF surfaceVars, decorationVars
<1>1. CASE \E s \in Sizes : CreateWindow(s[1], s[2])
  BY <1>0, <1>1, Zenon DEF CreateWindow
<1>2. CASE SetupNoClient \/ SetupNoWayland \/ SetupNoDisplay \/ Setup \/ StartDrawing \/ EndDrawing \/ DestroyWindow
  <2>1. ASSUME CleanupGamepads PROVE fault' \in BOOLEAN
    <3>1. CASE gamepads = "running"
      BY <2>1, <3>1 DEF CleanupGamepads
    <3>2. CASE gamepads # "running"
      BY <2>1, <3>2 DEF CleanupGamepads
    <3> QED
      BY <3>1, <3>2
  <2>2. CASE Setup
    <3>1. Fails("compositor") = TRUE \/ Fails("compositor") = FALSE
      BY DEF Fails
    <3>2. fault' = FALSE \/ fault' = Fails("compositor")
      BY <2>2, Zenon DEF Setup
    <3>3. fault' \in BOOLEAN
      BY <3>1, <3>2, Zenon
    <3> QED
      BY <1>0, <2>2, <3>3, Zenon DEF Setup
  <2> QED
    BY <1>0, <1>2, <2>1, <2>2, Zenon
       DEF SetupNoClient, SetupNoWayland, SetupNoDisplay, StartDrawing,
      FreeWindow, EndDrawing, DestroyWindow
<1>3. CASE FirstConfigure
  <2>1. resized' \in BOOLEAN /\ connected' = connected /\ condemned' \in BOOLEAN
    BY <1>3, FirstConfigureKeeps, ResizeKeeps DEF IInv
  <2> QED
    BY <1>0, <1>3, <2>1, Zenon DEF FirstConfigure, FrameRender, CommitFrame, NotConfigured
<1>4. ASSUME NEW s \in ContentSizes, ResizeConfigure(s[1], s[2])
      PROVE  /\ connected' \in BOOLEAN /\ resized' \in BOOLEAN
             /\ condemned' \in BOOLEAN /\ acked' \in BOOLEAN
             /\ UNCHANGED <<is_open, is_fullscreen, shown_fullscreen, fault>>
  <2>1. CASE Untouched
    BY <1>0, <1>4, <2>1, Zenon DEF ResizeConfigure, CommitFrame, NotConfigured, Untouched
  <2>2. CASE ~ Untouched
    <3>1. resized' \in BOOLEAN /\ connected' = connected /\ condemned' \in BOOLEAN
      BY <1>4, <2>2, ResizeConfigureKeeps, ResizeKeeps DEF IInv
    <3> QED
      BY <1>0, <1>4, <3>1, Zenon DEF ResizeConfigure, CommitFrame, NotConfigured
  <2> QED
    BY <2>1, <2>2
<1>5. CASE NewFrame \/ Close \/ ToggleFullscreen \/ DesktopFullscreen \/ SameConfigure \/ ConnectionLost
  BY <1>0, <1>5, Zenon DEF NewFrame, Close, ToggleFullscreen, DesktopFullscreen, SameConfigure, ConnectionLost,
    FrameRender, CommitFrame, NotConfigured
<1> QED
  BY <1>0, <1>1, <1>2, <1>3, <1>4, <1>5, Zenon DEF Next, Loop

LEMMA SurfaceTypes ==
  ASSUME IInv, Next
  PROVE  /\ bitmap' \in Bitmap /\ mapped' \in [MapIds -> Nat]
         /\ buffer' \in Buffer /\ attached' \in Buffer
<1>0. bitmap \in Bitmap /\ mapped \in [MapIds -> Nat] /\ buffer \in Buffer /\ attached \in Buffer
  BY DEF IInv, TypeOK
<1>1. ASSUME NEW s \in Sizes, CreateWindow(s[1], s[2])
      PROVE  bitmap' \in Bitmap /\ UNCHANGED <<mapped, buffer, attached>>
  <2>1. BitmapReset(s[1], s[2]) \in Bitmap
    BY BitmapResetType, WindowAssumption
  <2> QED
    BY <1>0, <1>1, <2>1 DEF CreateWindow
<1>2. CASE SetupNoClient \/ SetupNoWayland \/ SetupNoDisplay \/ Setup \/ StartDrawing \/ EndDrawing \/ DestroyWindow
  BY <1>0, <1>2, NoBitmapType
     DEF SetupNoClient, SetupNoWayland, SetupNoDisplay, Setup, StartDrawing, FreeWindow,
    EndDrawing, DestroyWindow, surfaceVars
<1>3. CASE FirstConfigure
  <2>1. bitmap' \in Bitmap /\ mapped' \in [MapIds -> Nat] /\ buffer' \in Buffer
    BY <1>3, FirstConfigureKeeps, ResizeKeeps DEF IInv
  <2> QED
    BY <1>0, <1>3, <2>1 DEF FirstConfigure, FrameRender
<1>4. ASSUME NEW s \in ContentSizes, ResizeConfigure(s[1], s[2])
      PROVE  /\ bitmap' \in Bitmap /\ mapped' \in [MapIds -> Nat]
             /\ buffer' \in Buffer /\ attached' \in Buffer
  <2>1. CASE Untouched
    BY <1>0, <2>1 DEF Untouched
  <2>2. CASE ~ Untouched
    BY <1>0, <1>4, <2>2, ResizeConfigureKeeps, ResizeKeeps DEF IInv
  <2> QED
    BY <2>1, <2>2
<1>5. CASE NewFrame \/ Close \/ ToggleFullscreen \/ DesktopFullscreen \/ SameConfigure \/ ConnectionLost
  BY <1>0, <1>5 DEF NewFrame, Close, ToggleFullscreen, DesktopFullscreen, SameConfigure, ConnectionLost,
    FrameRender, surfaceVars
<1> QED
  BY <1>1, <1>0, <1>2, <1>3, <1>4, <1>5 DEF Next, Loop

LEMMA TypeStep == IInv /\ Next => TypeOK'
<1> SUFFICES ASSUME IInv, Next PROVE TypeOK'
  OBVIOUS
<1> QED
  BY ControlTypes, FlagTypes, SurfaceTypes, Zenon DEF TypeOK

(* Of the other steps, those in the loop leave the memory alone; those     *)
(* outside it have none.                                                   *)
LEMMA NothingStep == IInv /\ Next => NothingYet'
<1> SUFFICES ASSUME IInv, Next PROVE NothingYet'
  OBVIOUS
<1>0. /\ app \in {"new", "created", "ready", "gone"} => bitmap.mem = NULL
      /\ bitmap.mem = NULL => buffer = NoBuffer /\ attached = NoBuffer
  BY DEF IInv, NothingYet
<1>1. ASSUME NEW s \in Sizes, CreateWindow(s[1], s[2]) PROVE NothingYet'
  <2>1. /\ bitmap'.mem = NULL /\ UNCHANGED <<buffer, attached>>
        /\ app \in {"new", "gone"}
    BY <1>0, <1>1, BitmapResetType, WindowAssumption DEF CreateWindow
  <2> QED
    BY <1>0, <2>1 DEF NothingYet
<1>2. CASE SetupNoClient \/ SetupNoWayland \/ SetupNoDisplay \/ Setup \/ StartDrawing \/ EndDrawing \/ DestroyWindow
  BY <1>0, <1>2, NoBitmapType DEF NothingYet, SetupNoClient, SetupNoWayland,
     SetupNoDisplay, Setup, StartDrawing, FreeWindow,
    EndDrawing, DestroyWindow, surfaceVars
<1>3. CASE Loop
  <2>1. app = "loop" /\ app' = "loop"
    BY <1>3 DEF Loop, FirstConfigure, ResizeConfigure, NewFrame, Close, ToggleFullscreen,
       DesktopFullscreen,
      SameConfigure, ConnectionLost, NotConfigured, Dispatching
  <2>2. NULL \notin MapIds \cup {FAILED}
    BY WindowAssumption DEF NULL, FAILED
  <2>3. CASE FirstConfigure
    BY <2>1, <2>2, <2>3, FirstConfigureKeeps, ResizeKeeps DEF NothingYet, IInv
  <2>4. ASSUME NEW s \in ContentSizes, ResizeConfigure(s[1], s[2]) PROVE NothingYet'
    <3>1. CASE Untouched
      BY <1>0, <2>1, <3>1 DEF NothingYet, Untouched
    <3>2. CASE ~ Untouched
      BY <2>1, <2>2, <2>4, <3>2, ResizeConfigureKeeps, ResizeKeeps DEF NothingYet, IInv
    <3> QED
      BY <3>1, <3>2
  <2>5. CASE NewFrame \/ Close \/ ToggleFullscreen \/ DesktopFullscreen \/ SameConfigure \/ ConnectionLost
    BY <1>0, <2>1, <2>5
       DEF NothingYet, NewFrame, Close, ToggleFullscreen, DesktopFullscreen, SameConfigure, ConnectionLost,
      FrameRender, surfaceVars
  <2> QED
    BY <1>3, <2>3, <2>4, <2>5 DEF Loop
<1> QED
  BY <1>1, <1>2, <1>3 DEF Next

LEMMA MapsStep == IInv /\ Next => MapsOne'
<1> SUFFICES ASSUME IInv, Next PROVE MapsOne'
  OBVIOUS
<1>0. MapsOne /\ NothingYet
  BY DEF IInv
<1>a. NULL \notin MapIds /\ FAILED \notin MapIds
  BY WindowAssumption
<1>b. windows \in Nat /\ Cardinality(Mapped) \in Nat
  <2>1. windows \in 0 .. MaxWindows
    BY DEF IInv, TypeOK
  <2> QED
    BY <1>0, <2>1, WindowAssumption, FS_CardinalityType DEF MapsOne
<1>1. ASSUME NEW s \in Sizes, CreateWindow(s[1], s[2]) PROVE MapsOne'
  <2>1. /\ bitmap'.mem = NULL /\ windows' = windows + 1 /\ mapped' = mapped
    BY <1>0, <1>1, BitmapResetType, WindowAssumption DEF CreateWindow, NothingYet
  <2>2. Mapped' = Mapped
    BY <2>1 DEF Mapped
  <2> QED
    BY <1>0, <1>a, <1>b, <2>1, <2>2 DEF MapsOne
<1>2. CASE SetupNoClient \/ SetupNoWayland \/ SetupNoDisplay \/ Setup \/ StartDrawing \/ EndDrawing \/ DestroyWindow
  <2>1. /\ windows' = windows /\ mapped' = mapped
        /\ bitmap' = bitmap \/ (bitmap'.mem = NULL /\ app' = "gone")
        /\ app' \in {"created", "ready", "loop"} => app \in {"created", "ready", "loop"}
    BY <1>2, NoBitmapType
       DEF SetupNoClient, SetupNoWayland, SetupNoDisplay, Setup, StartDrawing,
      EndDrawing, DestroyWindow, surfaceVars
  <2>2. Mapped' = Mapped
    BY <2>1 DEF Mapped
  <2> QED
    BY <1>0, <1>a, <2>1, <2>2 DEF MapsOne
<1>3. CASE Loop
  <2>1. app = "loop" /\ app' = "loop" /\ windows' = windows
    BY <1>3 DEF Loop, FirstConfigure, ResizeConfigure, NewFrame, Close, ToggleFullscreen,
       DesktopFullscreen,
      SameConfigure, ConnectionLost, NotConfigured, Dispatching
  <2>2. Mapped' = MappedIn(mapped')
    BY DEF Mapped, MappedIn
  <2>3. CASE FirstConfigure
    BY <2>1, <2>2, <2>3, FirstConfigureKeeps, ResizeKeeps DEF MapsOne, IInv
  <2>4. ASSUME NEW s \in ContentSizes, ResizeConfigure(s[1], s[2]) PROVE MapsOne'
    <3>1. CASE Untouched
      BY <1>0, <2>1, <3>1 DEF MapsOne, Mapped, Untouched
    <3>2. CASE ~ Untouched
      BY <2>1, <2>2, <2>4, <3>2, ResizeConfigureKeeps, ResizeKeeps DEF MapsOne, IInv
    <3> QED
      BY <3>1, <3>2
  <2>5. CASE NewFrame \/ Close \/ ToggleFullscreen \/ DesktopFullscreen \/ SameConfigure \/ ConnectionLost
    <3>1. UNCHANGED <<bitmap, mapped>>
      BY <2>5
         DEF NewFrame, Close, ToggleFullscreen, DesktopFullscreen, SameConfigure, ConnectionLost, surfaceVars
    <3> QED
      BY <1>0, <2>1, <3>1 DEF MapsOne, Mapped
  <2> QED
    BY <1>3, <2>3, <2>4, <2>5 DEF Loop
<1> QED
  BY <1>1, <1>2, <1>3 DEF Next

LEMMA FrameStep == IInv /\ Next => FrameKept'
<1> SUFFICES ASSUME IInv, Next PROVE FrameKept'
  OBVIOUS
<1>0. FrameKept /\ ~ fault
  BY DEF IInv, Next
<1> USE DEF FrameKept, FrameChainUnbroken
<1>1. CASE FirstConfigure
  <2>1. condemned => condemned'
    BY <1>1, FirstConfigureKeeps, ResizeKeeps DEF IInv
  <2> QED
    BY <1>0, <1>1, <2>1 DEF FirstConfigure, FrameRender, Commit, NotConfigured, Dispatching
<1>2. ASSUME NEW s \in ContentSizes, ResizeConfigure(s[1], s[2]) PROVE FrameKept'
  <2>1. frame' = frame /\ (condemned => condemned')
    <3>1. CASE Untouched
      BY <3>1 DEF Untouched
    <3>2. CASE ~ Untouched
      BY <1>2, <3>2, ResizeConfigureKeeps, ResizeKeeps DEF IInv
    <3> QED
      BY <3>1, <3>2
  <2> QED
    BY <1>0, <1>2, <2>1 DEF ResizeConfigure, NotConfigured, Dispatching
<1>3. CASE NewFrame \/ Close \/ ToggleFullscreen \/ DesktopFullscreen \/ SameConfigure \/ ConnectionLost
  BY <1>0, <1>3
     DEF NewFrame, Close, ToggleFullscreen, DesktopFullscreen, SameConfigure, ConnectionLost,
    FrameRender, AskFrame, Commit, NotConfigured, Dispatching, surfaceVars
<1>4. CASE ~ Loop
  BY <1>0, <1>4
     DEF Next, CreateWindow, SetupNoClient, SetupNoWayland, SetupNoDisplay, Setup,
    StartDrawing, EndDrawing, DestroyWindow, AskFrame, Commit, surfaceVars
<1> QED
  BY <1>1, <1>2, <1>3, <1>4 DEF Loop

LEMMA ShowsStep == IInv /\ Next => NextBuffer'
<1> SUFFICES ASSUME IInv, Next PROVE NextBuffer'
  OBVIOUS
<1>0. NextBuffer /\ NothingYet
  BY DEF IInv
<1>1. CASE ~ Loop
  BY <1>0, <1>1 DEF NextBuffer, NothingYet, Next, CreateWindow, SetupNoClient,
     SetupNoWayland, SetupNoDisplay,
    Setup, StartDrawing, EndDrawing, DestroyWindow, surfaceVars
<1>2. CASE FirstConfigure
  BY <1>2, FirstConfigureKeeps, ResizeKeeps DEF NextBuffer, IInv
<1>3. ASSUME NEW s \in ContentSizes, ResizeConfigure(s[1], s[2]) PROVE NextBuffer'
  <2>1. CASE Untouched
    BY <1>0, <1>3, <2>1
       DEF NextBuffer, ResizeConfigure, NotConfigured, Untouched, BufferOf
  <2>2. CASE ~ Untouched
    BY <1>3, <2>2, ResizeConfigureKeeps, ResizeKeeps DEF NextBuffer, IInv
  <2> QED
    BY <2>1, <2>2
<1>4. CASE NewFrame \/ Close \/ ToggleFullscreen \/ DesktopFullscreen \/ SameConfigure \/ ConnectionLost
  BY <1>0, <1>4 DEF NextBuffer, NewFrame, Close, ToggleFullscreen, DesktopFullscreen,
     SameConfigure, ConnectionLost,
    NotConfigured, surfaceVars, BufferOf
<1> QED
  BY <1>1, <1>2, <1>3, <1>4 DEF Loop

(* draw is called with memory that was just mapped, or with that of the    *)
(* content that the surface has.                                           *)
LEMMA DrawsStep == IInv /\ Next => DrawsMappedMemory'
<1> SUFFICES ASSUME IInv, Next PROVE DrawsMappedMemory'
  OBVIOUS
<1>0. ~ fault
  BY DEF Next
<1>1. CASE ~ Loop
  BY <1>0, <1>1 DEF DrawsMappedMemory, Next, CreateWindow, SetupNoClient, SetupNoWayland,
     SetupNoDisplay, Setup,
    StartDrawing, EndDrawing, DestroyWindow
<1>2. CASE FirstConfigure
  <2>1. /\ bitmap'.mem \in MapIds \cup {FAILED}
        /\ bitmap'.mem \in MapIds => mapped'[bitmap'.mem] > 0
    BY <1>2, FirstConfigureKeeps, ResizeKeeps DEF IInv
  <2>2. fault' => ~ IsMapped(bitmap'.mem)
    BY <1>2 DEF FirstConfigure, FrameRender
  <2> QED
    BY <2>1, <2>2 DEF DrawsMappedMemory, IsMapped
<1>3. CASE NewFrame
  <2>1. /\ attached # NoBuffer /\ UNCHANGED <<bitmap, mapped>>
        /\ fault' => ~ IsMapped(bitmap'.mem)
    BY <1>3 DEF NewFrame, FrameRender
  <2>2. /\ bitmap.mem \in MapIds \cup {FAILED, NULL} /\ bitmap.mem # NULL
    BY <2>1 DEF IInv, TypeOK, Bitmap, NothingYet
  <2>3. bitmap.mem \in MapIds => mapped[bitmap.mem] > 0
    BY DEF IInv, MapsOne
  <2> QED
    BY <2>1, <2>2, <2>3 DEF DrawsMappedMemory, IsMapped
<1>4. ASSUME NEW s \in ContentSizes, ResizeConfigure(s[1], s[2]) PROVE DrawsMappedMemory'
  BY <1>0, <1>4 DEF DrawsMappedMemory, ResizeConfigure
<1>5. CASE Close \/ ToggleFullscreen \/ DesktopFullscreen \/ SameConfigure \/ ConnectionLost
  BY <1>0, <1>5
     DEF DrawsMappedMemory, Close, ToggleFullscreen, DesktopFullscreen, SameConfigure, ConnectionLost
<1> QED
  BY <1>1, <1>2, <1>3, <1>4, <1>5 DEF Loop

-----------------------------------------------------------------------------
(* The invariant holds, however the calls and events follow each other and *)
(* whatever fails.                                                         *)
THEOREM Invariance == Spec => []IInv
<1>1. IInv /\ [Next]_vars => IInv'
  <2> SUFFICES ASSUME IInv, [Next]_vars PROVE IInv'
    OBVIOUS
  <2>1. CASE Next
    BY <2>1, TypeStep, NothingStep, MapsStep, FrameStep, ShowsStep, DrawsStep DEF IInv
  <2>2. CASE UNCHANGED vars
    <3>1. UNCHANGED <<app, windows, wlclient, bitmap, mapped, buffer, resized, attached, frame,
                      acked, connected, condemned, is_open, is_fullscreen, shown_fullscreen, gamepads, fault>>
      BY <2>2 DEF vars, surfaceVars, decorationVars
    <3>2. TypeOK'
      <4>1. /\ connected' = connected /\ is_open' = is_open /\ is_fullscreen' = is_fullscreen
            /\ shown_fullscreen' = shown_fullscreen /\ resized' = resized /\ fault' = fault
            /\ acked' = acked /\ condemned' = condemned
        BY <3>1
      <4>2. /\ connected' \in BOOLEAN /\ is_open' \in BOOLEAN /\ is_fullscreen' \in BOOLEAN
            /\ shown_fullscreen' \in BOOLEAN /\ resized' \in BOOLEAN /\ fault' \in BOOLEAN
            /\ acked' \in BOOLEAN /\ condemned' \in BOOLEAN
        BY <4>1, Zenon DEF IInv, TypeOK
      <4>3. /\ app' = app /\ windows' = windows /\ wlclient' = wlclient /\ bitmap' = bitmap
            /\ mapped' = mapped /\ buffer' = buffer /\ attached' = attached /\ frame' = frame
            /\ gamepads' = gamepads
        BY <3>1
      <4> QED
        BY <4>2, <4>3, Zenon DEF IInv, TypeOK
    <3>3. NothingYet' /\ MapsOne' /\ FrameKept'
      BY <3>1 DEF IInv, NothingYet, MapsOne, Mapped, FrameKept, FrameChainUnbroken
    <3>4. NextBuffer' /\ DrawsMappedMemory'
      BY <3>1 DEF IInv, NextBuffer, DrawsMappedMemory, BufferOf
    <3> QED
      BY <3>2, <3>3, <3>4 DEF IInv
  <2> QED
    BY <2>1, <2>2
<1> QED
  BY InitIInv, <1>1, PTL DEF Spec

(* The variables have their types.                                         *)
THEOREM TypeCorrect == Spec => []TypeOK
<1>1. IInv => TypeOK
  BY DEF IInv
<1> QED
  BY Invariance, <1>1, PTL

(* Nothing is drawn into memory that a resize has taken away.              *)
THEOREM DrawsMapped == Spec => []DrawsMappedMemory
<1>1. IInv => DrawsMappedMemory
  BY DEF IInv
<1> QED
  BY Invariance, <1>1, PTL

(* Resizing does not pile up memory.                                       *)
THEOREM OneMappingEach == Spec => []ResizeKeepsOneMapping
<1>1. IInv => ResizeKeepsOneMapping
  BY DEF IInv, MapsOne, Mapped, ResizeKeepsOneMapping
<1> QED
  BY Invariance, <1>1, PTL

(* As long as the loop runs a frame callback is armed.                     *)
THEOREM ChainUnbroken == Spec => []FrameChainUnbroken
<1>1. IInv => FrameChainUnbroken
  BY DEF IInv, FrameKept, FrameChainUnbroken
<1> QED
  BY Invariance, <1>1, PTL

(* What is drawn is what the compositor is given to show, and is mapped,   *)
(* after any history of resizes.                                           *)
THEOREM ShowsDrawn == Spec => ShowsWhatIsDrawn
<1> DEFINE Shows == app = "loop" /\ attached' # attached /\ resized' =>
                      attached' = BufferOf(bitmap') /\ IsMapped(bitmap'.mem)
<1>1. IInv /\ [Next]_vars => [Shows]_vars
  <2> SUFFICES ASSUME IInv, Next, app = "loop", attached' # attached, resized'
               PROVE  attached' = BufferOf(bitmap') /\ IsMapped(bitmap'.mem)
    OBVIOUS
  <2>1. CASE FirstConfigure
    <3>1. attached' = buffer' /\ IsMapped(bitmap'.mem)
      BY <2>1 DEF FirstConfigure, FrameRender
    <3>2. buffer' = BufferOf(bitmap')
      BY <2>1, FirstConfigureKeeps, ResizeKeeps DEF IInv
    <3> QED
      BY <3>1, <3>2
  <2>2. CASE NewFrame
    <3>1. /\ attached' = buffer' /\ IsMapped(bitmap'.mem) /\ attached # NoBuffer
          /\ bitmap' = bitmap /\ buffer' = buffer /\ resized' = resized
      BY <2>2 DEF NewFrame, FrameRender
    <3>2. bitmap.mem # NULL
      BY <3>1 DEF IInv, NothingYet
    <3>3. buffer = BufferOf(bitmap)
      BY <3>1, <3>2 DEF IInv, NextBuffer
    <3> QED
      BY <3>1, <3>3
  <2>3. ASSUME NEW s \in ContentSizes, ResizeConfigure(s[1], s[2]) PROVE FALSE
    BY <2>3 DEF ResizeConfigure
  <2>4. CASE Close \/ ToggleFullscreen \/ DesktopFullscreen \/ SameConfigure \/ ConnectionLost
    BY <2>4 DEF Close, ToggleFullscreen, DesktopFullscreen, SameConfigure, ConnectionLost, surfaceVars
  <2>5. CASE ~ Loop
    BY <2>5 DEF Next, CreateWindow, SetupNoClient, SetupNoWayland, SetupNoDisplay, Setup,
      StartDrawing, EndDrawing, DestroyWindow, surfaceVars
  <2> QED
    BY <2>1, <2>2, <2>3, <2>4, <2>5 DEF Loop
<1>2. Spec => [][Shows]_vars
  BY Invariance, <1>1, PTL DEF Spec
<1> QED
  BY <1>2 DEF ShowsWhatIsDrawn
=============================================================================
