------------------------ MODULE GamepadThreadsProofs ------------------------
(***************************************************************************)
(* What holds of GamepadThreads for any number of slots, descriptors and   *)
(* events, whatever fails.                                                 *)
(***************************************************************************)
EXTENDS GamepadThreads, FiniteSetTheorems, WellFoundedInduction, TLAPS

(* A second seat would start a second thread for each slot, and forget the *)
(* handle of the first.                                                    *)
ASSUME OneSeat == Seats = 1

-----------------------------------------------------------------------------
(* The inductive invariant.                                                *)

ThreadOf(i) == <<i, 1>>

(* setup_gamepad starts a thread once.                                     *)
Started ==
  /\ seats = 0 => \A t \in Threads : pc[t] = "none"
  /\ main_pc \in Creating =>
       seats = 1 /\ \A t \in Threads : SlotOf(t) >= at => pc[t] = "none"
  /\ \A t \in Threads : thread[SlotOf(t)] \in {NoThread, t}

(* cleanup_gamepads leaves a thread behind when it has ended.              *)
Over(t) == pc[t] = "done" /\ ~ is_connected[SlotOf(t)]
Joined ==
  /\ main_pc = "join" => \A t \in Threads : SlotOf(t) < at => Over(t)
  /\ main_pc \in {"destroy", "gone"} => \A t \in Threads : Over(t)
  /\ ~ arena_mapped => main_pc = "gone"

(* What is_connected and the client know while a thread is at a step.      *)
Reporting ==
  \A t \in Threads :
    LET connected == is_connected[SlotOf(t)]
        told == SlotOf(t) \in reported
    IN
    /\ pc[t] \in {"none", "open", "stat"} => ~ connected /\ ~ told
    /\ pc[t] = "check" => (connected <=> told)
    /\ pc[t] \in {"rumble", "probe", "query", "upload", "report"} => connected /\ ~ told
    /\ pc[t] \in {"read", "close", "disconnect"} => connected /\ told

(* The joystick that a slot has open is the one in its fd.                 *)
Holds(t) == pc[t] = "stat" \/ (is_connected[SlotOf(t)] /\ pc[t] # "disconnect")
DevicesHeld ==
  \A t \in Threads :
    /\ Holds(t) => fd[SlotOf(t)] \in Open("js", SlotOf(t)) \ lost
    /\ Open("js", SlotOf(t)) \subseteq lost \cup {fd[SlotOf(t)]}
    /\ ~ Holds(t) => Open("js", SlotOf(t)) \subseteq lost
LostAreOpen == \A d \in lost : file[d].kind = "js"

(* An event device that the thread of slot i opened is in the candidate of *)
(* the thread, then in ff_fd, where it stays open.  Before the first       *)
(* connection ff_fd is zero, which may be the descriptor of anything; what *)
(* guards it is ff_effect.                                                 *)
Event(d, i) == d \in Descriptors /\ file[d].kind = "event" /\ file[d].by = i
Plays(i) == ff_fd[i] # -1 /\ ff_effect[i] # "NULL"
Probing == {"probe", "query", "upload"}
Rumbling == {"magnitudes", "upload", "play"}
EffectsHeld ==
  /\ \A t \in Threads :
       /\ pc[t] \in Probing => ff_fd[SlotOf(t)] = -1
       /\ pc[t] \in {"query", "upload"} => Event(candidate[t], SlotOf(t))
       /\ pc[t] = "upload" => fault \/ ff_effect[SlotOf(t)] # "NULL"
  /\ \A i \in Slots : Plays(i) => Event(ff_fd[i], i)
  /\ main_pc \in Rumbling => ff_fd[at] = -1 \/ Plays(at)

IInv ==
  TypeOK /\ Started /\ Joined /\ Reporting /\ DevicesHeld /\ LostAreOpen /\ EffectsHeld

-----------------------------------------------------------------------------
(* Threads, descriptors and files.                                         *)

(* There is one thread for each slot.                                      *)
LEMMA Threading ==
  /\ \A i \in Slots : ThreadOf(i) \in Threads /\ SlotOf(ThreadOf(i)) = i
  /\ \A t \in Threads : SlotOf(t) \in Slots /\ ThreadOf(SlotOf(t)) = t
BY OneSeat DEF ThreadOf, Threads, SlotOf

LEMMA ThreadsDiffer ==
  ASSUME NEW t \in Threads, NEW u \in Threads, t # u
  PROVE  SlotOf(t) # SlotOf(u)
BY Threading

(* The descriptor that open returns is one of those it may return.         *)
LEMMA LowestIsIn ==
  ASSUME NEW D, D \subseteq Nat, D # {}
  PROVE  Lowest(D) \in D
<1> DEFINE Below(d) == 0 .. d - 1
           T == {Below(d) : d \in D}
<1>1. T \subseteq FiniteSubsetsOf(Nat) /\ T # {}
  <2>1. ASSUME NEW d \in D PROVE Below(d) \in FiniteSubsetsOf(Nat)
    <3>1. d \in Nat /\ IsFiniteSet(0 .. d - 1)
      BY FS_Interval
    <3> QED
      BY <3>1 DEF FiniteSubsetsOf
  <2> QED
    BY <2>1
<1>2. PICK x \in T : \A y \in T : ~ (<<y, x>> \in StrictSubsetOrdering(Nat))
  BY <1>1, FS_StrictSubsetOrderingWellFounded, WFMin
<1>3. PICK d \in D : x = Below(d)
  BY <1>2
<1>4. ASSUME NEW e \in D PROVE d <= e
  <2>0. d \in Nat /\ e \in Nat
    OBVIOUS
  <2> SUFFICES ASSUME e < d PROVE FALSE
    BY <2>0
  <2>1. Below(e) \subseteq Below(d) /\ e \in Below(d) /\ e \notin Below(e)
    BY <2>0
  <2>2. Below(e) \in SUBSET Nat /\ Below(d) \in SUBSET Nat /\ Below(e) \in T
    BY <2>0
  <2>3. <<Below(e), Below(d)>> \notin StrictSubsetOrdering(Nat)
    BY <1>2, <1>3, <2>2
  <2> QED
    BY <2>1, <2>2, <2>3 DEF StrictSubsetOrdering
<1> QED
  BY <1>4 DEF Lowest

(* What open does to the files.                                            *)
LEMMA OpenedFile ==
  ASSUME TypeOK, Unused # {}, NEW kind \in {"js", "event"}, NEW i \in Slots, NEW k \in Slots
  PROVE  LET n == Lowest(Unused) IN
         /\ n \in Descriptors /\ file[n] = Closed
         /\ Opened(kind, i, k) \in [Descriptors -> File]
         /\ Opened(kind, i, k)[n] = [slot |-> i, kind |-> kind, by |-> k, dead |-> FALSE]
         /\ \A d \in Descriptors \ {n} : Opened(kind, i, k)[d] = file[d]
<1>1. Lowest(Unused) \in Unused
  BY LowestIsIn, GamepadAssumption DEF Unused
<1> QED
  BY <1>1 DEF TypeOK, Unused, IsOpen, Opened, File

(* What close does.                                                        *)
LEMMA ClosedFile ==
  ASSUME TypeOK, NEW d
  PROVE  /\ WithClosed(d) \in [Descriptors -> File]
         /\ \A e \in Descriptors \ {d} : WithClosed(d)[e] = file[e]
         /\ d \in Descriptors => WithClosed(d)[d] = Closed
BY DEF TypeOK, WithClosed, File

(* A device that is pulled out stays open.                                 *)
LEMMA UnpluggedFile ==
  ASSUME TypeOK, NEW i \in Slots, Unplug(i)
  PROVE  /\ file' \in [Descriptors -> File]
         /\ \A d \in Descriptors : /\ file'[d].kind = file[d].kind
                                   /\ file'[d].slot = file[d].slot
                                   /\ file'[d].by = file[d].by
<1>1. ASSUME NEW d \in Descriptors, file[d].slot = i
      PROVE  /\ [file[d] EXCEPT !.dead = TRUE] \in File
             /\ [file[d] EXCEPT !.dead = TRUE].kind = file[d].kind
             /\ [file[d] EXCEPT !.dead = TRUE].slot = file[d].slot
             /\ [file[d] EXCEPT !.dead = TRUE].by = file[d].by
  <2>1. file[d] \in File /\ file[d] # Closed
    BY <1>1 DEF TypeOK, Slots, Closed
  <2> QED
    BY <2>1 DEF File
<1> QED
  BY <1>1 DEF Unplug, TypeOK

-----------------------------------------------------------------------------
(* Type correctness.                                                       *)

LEMMA InitIInv == Init => IInv
<1> SUFFICES ASSUME Init PROVE IInv
  OBVIOUS
<1>1. TypeOK
  <2>1. /\ main_pc \in MainLabels /\ at \in Slots /\ seats \in 0 .. Seats
        /\ pc \in [Threads -> Labels] /\ thread \in [Slots -> Threads \cup {NoThread}]
        /\ event \in [Threads -> Slots \cup {0}]
        /\ candidate \in [Threads -> Descriptors \cup {-1}]
    BY GamepadAssumption DEF Init, Slots, MainLabels, Labels
  <2>2. /\ is_running \in BOOLEAN /\ is_connected \in [Slots -> BOOLEAN]
        /\ arena_mapped \in BOOLEAN /\ plugged \in [Slots -> BOOLEAN]
        /\ fault \in BOOLEAN
    BY DEF Init
  <2>3. /\ fd \in [Slots -> Descriptors \cup {-1, 0}]
        /\ ff_fd \in [Slots -> Descriptors \cup {-1, 0}]
        /\ ff_effect \in [Slots -> {"NULL", "effect"}]
        /\ room \in 0 .. ArenaRoom /\ pending \in [Slots -> 0 .. MaxPending]
    BY GamepadAssumption DEF Init
  <2>4. file \in [Descriptors -> File] /\ reported \subseteq Slots /\ lost \subseteq Descriptors
    BY DEF Init, File
  <2> QED
    BY <2>1, <2>2, <2>3, <2>4 DEF TypeOK
<1>2. Started /\ Joined /\ Reporting
  BY Threading DEF Init, Started, Joined, Reporting, Creating
<1>3. DevicesHeld /\ LostAreOpen
  BY Threading DEF Init, DevicesHeld, LostAreOpen, Holds, Open, Closed
<1>4. EffectsHeld
  BY Threading DEF Init, EffectsHeld, Plays, Probing, Rumbling
<1> QED
  BY <1>1, <1>2, <1>3, <1>4 DEF IInv


LEMMA ControlTypes ==
  ASSUME IInv, Next
  PROVE  /\ main_pc' \in MainLabels /\ at' \in Slots /\ seats' \in 0 .. Seats
         /\ pc' \in [Threads -> Labels]
         /\ event' \in [Threads -> Slots \cup {0}]
         /\ thread' \in [Slots -> Threads \cup {NoThread}]
<1> USE DEF IInv, TypeOK, MainGoto, NotThreads, mainVars, threadVars, Creating, Created
<1>0. 1 \in Slots /\ (at < NumSlots => at + 1 \in Slots)
  BY GamepadAssumption DEF Slots
<1>1. CASE Main
  <2>1. CASE DisplayFails \/ SeatAnnounced \/ ThreadCreateFails \/ StartLoop \/ (\E i \in Slots : RumbleTest(i))
    BY <1>0, <2>1, GamepadAssumption
       DEF DisplayFails, SeatAnnounced, ThreadCreateFails, StartLoop, RumbleTest,
      MainLabels, NextSlot
  <2>2. CASE ThreadCreate
    BY <1>0, <2>2, Threading DEF ThreadCreate, MainLabels, Labels, NextSlot, Started, ThreadOf
  <2>3. CASE RumbleMagnitudes \/ RumbleUpload \/ RumblePlay \/ StopRunning
    BY <1>0, <2>3 DEF RumbleMagnitudes, RumbleUpload, RumblePlay, StopRunning, MainLabels
  <2>4. CASE JoinNoThread \/ JoinAndClose \/ DestroyArena
    BY <1>0, <2>4 DEF JoinNoThread, JoinAndClose, DestroyArena, MainLabels, NextSlot
  <2> QED
    BY <1>1, <2>1, <2>2, <2>3, <2>4 DEF Main
<1>2. ASSUME NEW t \in Threads, Gamepad(t)
      PROVE  /\ main_pc' = main_pc /\ at' = at /\ seats' = seats /\ thread' = thread
             /\ pc' \in [Threads -> Labels] /\ event' \in [Threads -> Slots \cup {0}]
  BY <1>2 DEF Gamepad, NotMain, Goto, IfConnected, Labels, CheckRunning, OpenDevice,
     StatDevice, StatFails,
    ResetRumble, TryDevice, NoForceFeedback, AllocEffect, UploadEffect, UploadFails, LeavesDevice,
    NoMoreDevices, ReportConnected,
    ReadEvent, ReadNothing, ReadGone, CloseDevice, Disconnect
<1>3. ASSUME NEW i \in Slots, Device(i)
      PROVE  UNCHANGED <<main_pc, at, seats, pc, event, thread>>
  BY <1>3 DEF Device, Plug, Unplug, EventArrives, NotDevices
<1> QED
  BY <1>1, <1>2, <1>3 DEF Next

LEMMA FlagTypes ==
  ASSUME IInv, Next
  PROVE  /\ is_running' \in BOOLEAN /\ is_connected' \in [Slots -> BOOLEAN]
         /\ arena_mapped' \in BOOLEAN /\ plugged' \in [Slots -> BOOLEAN]
         /\ fault' \in BOOLEAN
<1> USE DEF IInv, TypeOK, NotThreads, slotVars, deviceVars
<1>1. CASE Main
  BY <1>1, Zenon DEF Main, DisplayFails, SeatAnnounced, ThreadCreate, ThreadCreateFails,
     StartLoop, RumbleTest,
    RumbleMagnitudes, RumbleUpload, RumblePlay, StopRunning, JoinNoThread, JoinAndClose, DestroyArena
<1>2. ASSUME NEW t \in Threads, Gamepad(t)
      PROVE  /\ UNCHANGED <<is_running, arena_mapped, plugged>>
             /\ is_connected' \in [Slots -> BOOLEAN] /\ fault' \in BOOLEAN
  <2>1. CASE StatDevice(t) \/ Disconnect(t)
    BY <2>1, Zenon DEF StatDevice, Disconnect, NotMain
  <2>2. CASE CheckRunning(t) \/ AllocEffect(t)
    BY <2>2, Zenon DEF CheckRunning, AllocEffect, NotMain
  <2> QED
    BY <1>2, <2>1, <2>2, Zenon
       DEF Gamepad, NotMain, OpenDevice, StatFails, ResetRumble, TryDevice,
      NoForceFeedback, UploadEffect, UploadFails, LeavesDevice, NoMoreDevices, ReportConnected, ReadEvent, ReadNothing, ReadGone, CloseDevice
<1>3. ASSUME NEW i \in Slots, Device(i)
      PROVE  /\ UNCHANGED <<is_running, is_connected, arena_mapped, fault>>
             /\ plugged' \in [Slots -> BOOLEAN]
  BY <1>3, Zenon DEF Device, Plug, Unplug, EventArrives, NotDevices
<1> QED
  BY <1>1, <1>2, <1>3, Zenon DEF Next

(* What a slot has.                                                        *)
LEMMA SlotTypes ==
  ASSUME IInv, Next
  PROVE  /\ candidate' \in [Threads -> Descriptors \cup {-1}]
         /\ fd' \in [Slots -> Descriptors \cup {-1, 0}]
         /\ ff_fd' \in [Slots -> Descriptors \cup {-1, 0}]
         /\ ff_effect' \in [Slots -> {"NULL", "effect"}]
         /\ room' \in 0 .. ArenaRoom /\ pending' \in [Slots -> 0 .. MaxPending]
<1> USE DEF IInv, TypeOK, NotThreads, threadVars, slotVars, deviceVars
<1>1. CASE Main
  BY <1>1 DEF Main, DisplayFails, SeatAnnounced, ThreadCreate, ThreadCreateFails,
     StartLoop, RumbleTest,
    RumbleMagnitudes, RumbleUpload, RumblePlay, StopRunning, JoinNoThread, JoinAndClose, DestroyArena
<1>2. ASSUME NEW t \in Threads, Gamepad(t)
      PROVE  /\ candidate' \in [Threads -> Descriptors \cup {-1}]
             /\ fd' \in [Slots -> Descriptors \cup {-1, 0}]
             /\ ff_fd' \in [Slots -> Descriptors \cup {-1, 0}]
             /\ ff_effect' \in [Slots -> {"NULL", "effect"}]
             /\ room' \in 0 .. ArenaRoom /\ pending' \in [Slots -> 0 .. MaxPending]
  <2> USE DEF NotMain, ghosts
  <2>1. CASE OpenDevice(t) \/ TryDevice(t)
    <3>1. Unused # {} => Lowest(Unused) \in Descriptors
      BY OpenedFile, Threading
    <3> QED
      BY <2>1, <3>1 DEF OpenDevice, TryDevice
  <2>2. CASE CheckRunning(t) \/ StatDevice(t) \/ StatFails(t) \/ NoMoreDevices(t) \/ ReportConnected(t)
             \/ ReadNothing(t) \/ ReadGone(t) \/ CloseDevice(t) \/ Disconnect(t)
    BY <2>2
       DEF CheckRunning, StatDevice, StatFails, NoMoreDevices, ReportConnected, ReadNothing,
      ReadGone, CloseDevice, Disconnect
  <2>3. CASE ResetRumble(t) \/ NoForceFeedback(t) \/ UploadEffect(t) \/ UploadFails(t)
    BY <2>3 DEF ResetRumble, NoForceFeedback, UploadEffect, UploadFails, LeavesDevice
  <2>4. CASE ReadEvent(t)
    BY <2>4, GamepadAssumption, Threading DEF ReadEvent, threadVars
  <2>5. CASE AllocEffect(t)
    BY <2>5, GamepadAssumption DEF AllocEffect, HasRoom
  <2> QED
    BY <1>2, <2>1, <2>2, <2>3, <2>4, <2>5 DEF Gamepad
<1>3. ASSUME NEW i \in Slots, Device(i)
      PROVE  /\ UNCHANGED <<candidate, fd, ff_fd, ff_effect, room>>
             /\ pending' \in [Slots -> 0 .. MaxPending]
  BY <1>3, GamepadAssumption DEF Device, Plug, Unplug, EventArrives, NotDevices, threadVars
<1> QED
  BY <1>1, <1>2, <1>3 DEF Next

(* The files.                                                              *)
LEMMA FileTypes ==
  ASSUME IInv, Next
  PROVE  /\ file' \in [Descriptors -> File]
         /\ reported' \subseteq Slots /\ lost' \subseteq Descriptors
<1> USE DEF IInv, TypeOK, NotThreads, ghosts
<1>1. CASE Main
  <2>1. CASE JoinAndClose
    BY <2>1, ClosedFile DEF JoinAndClose
  <2> QED
    BY <1>1, <2>1
       DEF Main, DisplayFails, SeatAnnounced, ThreadCreate, ThreadCreateFails, StartLoop,
      RumbleTest, RumbleMagnitudes, RumbleUpload, RumblePlay, StopRunning, JoinNoThread, DestroyArena
<1>2. ASSUME NEW t \in Threads, Gamepad(t)
      PROVE  /\ file' \in [Descriptors -> File]
             /\ reported' \subseteq Slots /\ lost' \subseteq Descriptors
  <2>1. CASE OpenDevice(t) \/ TryDevice(t)
    <3>1. ASSUME Unused # {}, NEW kind \in {"js", "event"}, NEW i \in Slots, NEW k \in Slots
          PROVE  Opened(kind, i, k) \in [Descriptors -> File]
      BY <3>1, OpenedFile
    <3> QED
      BY <2>1, <3>1, Threading DEF OpenDevice, TryDevice
  <2>2. CASE NoForceFeedback(t) \/ UploadFails(t) \/ CloseDevice(t)
    BY <2>2, ClosedFile DEF NoForceFeedback, UploadFails, LeavesDevice, CloseDevice,
                            ClosedDevice
  <2>3. CASE StatFails(t)
    BY <2>3 DEF StatFails, DevicesHeld, Holds, Open
  <2>4. CASE ReportConnected(t) \/ Disconnect(t)
    BY <2>4, Threading DEF ReportConnected, Disconnect
  <2> QED
    BY <1>2, <2>1, <2>2, <2>3, <2>4
       DEF Gamepad, CheckRunning, StatDevice, ResetRumble, AllocEffect, UploadEffect,
      NoMoreDevices, ReadEvent, ReadNothing, ReadGone
<1>3. ASSUME NEW i \in Slots, Device(i)
      PROVE  file' \in [Descriptors -> File] /\ UNCHANGED <<reported, lost>>
  BY <1>3, UnpluggedFile DEF Device, Plug, Unplug, EventArrives, NotDevices
<1> QED
  BY <1>1, <1>2, <1>3 DEF Next

LEMMA TypeStep == IInv /\ Next => TypeOK'
BY ControlTypes, FlagTypes, SlotTypes, FileTypes DEF TypeOK

-----------------------------------------------------------------------------
(* The threads and the main thread.                                        *)

(* What a gamepad thread or a device does is not seen in the variables of  *)
(* the main thread; a thread that was not started or has ended does        *)
(* nothing, and each changes no pc or is_connected but its own.            *)
LEMMA GamepadKeeps ==
  ASSUME IInv, NEW t \in Threads, Gamepad(t)
  PROVE  /\ UNCHANGED <<main_pc, at, seats, thread, is_running, arena_mapped, plugged>>
         /\ pc[t] \notin {"none", "done"}
         /\ \A u \in Threads \ {t} :
              /\ pc'[u] = pc[u] /\ candidate'[u] = candidate[u]
              /\ is_connected'[SlotOf(u)] = is_connected[SlotOf(u)]
              /\ fd'[SlotOf(u)] = fd[SlotOf(u)] /\ ff_fd'[SlotOf(u)] = ff_fd[SlotOf(u)]
              /\ SlotOf(u) \in reported' <=> SlotOf(u) \in reported
<1> USE DEF IInv, TypeOK, NotMain, Goto, mainVars, threadVars, slotVars, deviceVars, ghosts
<1>1. UNCHANGED <<main_pc, at, seats, thread, is_running, arena_mapped, plugged>>
  BY DEF Gamepad, CheckRunning, OpenDevice, StatDevice, StatFails,
    ResetRumble, TryDevice, NoForceFeedback, AllocEffect, UploadEffect, UploadFails, LeavesDevice,
    NoMoreDevices, ReportConnected,
    ReadEvent, ReadNothing, ReadGone, CloseDevice, Disconnect
<1>2. pc[t] \notin {"none", "done"}
  BY DEF Gamepad, CheckRunning, OpenDevice, StatDevice, StatFails,
    ResetRumble, TryDevice, NoForceFeedback, AllocEffect, UploadEffect, UploadFails, LeavesDevice,
    NoMoreDevices, ReportConnected,
    ReadEvent, ReadNothing, ReadGone, CloseDevice, Disconnect
<1>3. ASSUME NEW u \in Threads \ {t}
      PROVE  /\ pc'[u] = pc[u] /\ candidate'[u] = candidate[u]
             /\ is_connected'[SlotOf(u)] = is_connected[SlotOf(u)]
             /\ fd'[SlotOf(u)] = fd[SlotOf(u)] /\ ff_fd'[SlotOf(u)] = ff_fd[SlotOf(u)]
             /\ SlotOf(u) \in reported' <=> SlotOf(u) \in reported
  <2>1. SlotOf(u) \in Slots /\ SlotOf(t) \in Slots /\ SlotOf(u) # SlotOf(t)
    BY Threading, ThreadsDiffer
  <2> QED
    BY <2>1 DEF Gamepad, CheckRunning, OpenDevice, StatDevice, StatFails,
    ResetRumble, TryDevice, NoForceFeedback, AllocEffect, UploadEffect, UploadFails, LeavesDevice,
    NoMoreDevices, ReportConnected,
    ReadEvent, ReadNothing, ReadGone, CloseDevice, Disconnect
<1> QED
  BY <1>1, <1>2, <1>3

LEMMA DeviceKeeps ==
  ASSUME NEW i \in Slots, Device(i)
  PROVE  UNCHANGED <<main_pc, at, seats, pc, candidate, thread, is_connected, fd, ff_fd,
                     arena_mapped, reported, lost>>
BY DEF Device, Plug, Unplug, EventArrives, NotDevices, mainVars, threadVars, slotVars, ghosts

LEMMA StartedStep == IInv /\ Next => Started'
<1> SUFFICES ASSUME IInv, Next PROVE Started'
  OBVIOUS
<1> USE DEF Started, MainGoto, NotThreads, threadVars, Creating, Created
<1>1. CASE Main
  <2> USE <1>1 DEF IInv, TypeOK
  <2>1. CASE SeatAnnounced
    BY <2>1, OneSeat DEF SeatAnnounced
  <2>2. CASE ThreadCreate
    BY <2>2, Threading, GamepadAssumption DEF ThreadCreate, NextSlot, ThreadOf, Slots
  <2>3. CASE ThreadCreateFails
    BY <2>3, Threading, GamepadAssumption DEF ThreadCreateFails, NextSlot, Slots
  <2>4. CASE DisplayFails \/ StartLoop \/ (\E i \in Slots : RumbleTest(i)) \/ RumbleMagnitudes
             \/ RumbleUpload \/ RumblePlay \/ StopRunning \/ JoinNoThread \/ JoinAndClose \/ DestroyArena
    <3>1. main_pc' \notin Creating /\ UNCHANGED <<seats, pc, thread>>
      BY <2>4
         DEF DisplayFails, StartLoop, RumbleTest, RumbleMagnitudes, RumbleUpload, RumblePlay,
        StopRunning, JoinNoThread, JoinAndClose, DestroyArena, NextSlot, mainVars
    <3> QED
      BY <3>1
  <2> QED
    BY <2>1, <2>2, <2>3, <2>4 DEF Main
<1>2. ASSUME NEW t \in Threads, Gamepad(t) PROVE Started'
  BY <1>2, GamepadKeeps DEF IInv
<1>3. ASSUME NEW i \in Slots, Device(i) PROVE Started'
  BY <1>3, DeviceKeeps DEF IInv
<1> QED
  BY <1>1, <1>2, <1>3 DEF Next

LEMMA JoinedStep == IInv /\ Next => Joined'
<1> SUFFICES ASSUME IInv, Next PROVE Joined'
  OBVIOUS
<1> USE DEF Joined, Over, MainGoto, NotThreads, threadVars, Creating, Created
<1>1. CASE Main
  <2> USE <1>1 DEF IInv, TypeOK
  <2>1. CASE DisplayFails \/ StopRunning
    BY <2>1, Threading DEF DisplayFails, StopRunning, slotVars, Slots
  <2>2. CASE JoinAndClose
    BY <2>2, Threading, GamepadAssumption DEF JoinAndClose, Joinable, NextSlot, Started, Slots
  <2>3. CASE DestroyArena
    BY <2>3 DEF DestroyArena, slotVars
  <2>4. CASE JoinNoThread
    BY <2>4 DEF JoinNoThread, mainVars, slotVars
  <2>5. CASE SeatAnnounced \/ ThreadCreate \/ ThreadCreateFails \/ StartLoop \/ (\E i \in Slots : RumbleTest(i))
             \/ RumbleMagnitudes \/ RumbleUpload \/ RumblePlay
    <3>1. main_pc \notin {"join", "destroy", "gone"} /\ main_pc' \notin {"join", "destroy", "gone"} /\ arena_mapped' = arena_mapped
      BY <2>5 DEF SeatAnnounced, ThreadCreate, ThreadCreateFails, StartLoop, RumbleTest,
        RumbleMagnitudes, RumbleUpload, RumblePlay, NextSlot, mainVars
    <3> QED
      BY <3>1
  <2> QED
    BY <2>1, <2>2, <2>3, <2>4, <2>5 DEF Main
<1>2. ASSUME NEW t \in Threads, Gamepad(t) PROVE Joined'
  BY <1>2, GamepadKeeps DEF IInv
<1>3. ASSUME NEW i \in Slots, Device(i) PROVE Joined'
  BY <1>3, DeviceKeeps DEF IInv
<1> QED
  BY <1>1, <1>2, <1>3 DEF Next

LEMMA ReportingStep == IInv /\ Next => Reporting'
<1> SUFFICES ASSUME IInv, Next PROVE Reporting'
  OBVIOUS
<1> USE DEF Reporting, MainGoto, NotThreads, threadVars
<1>1. CASE Main
  <2> USE <1>1 DEF IInv, TypeOK
  <2>1. CASE ThreadCreate
    <3>1. /\ at \in Slots /\ at >= at /\ seats = 1
          /\ ThreadOf(at) \in Threads /\ SlotOf(ThreadOf(at)) = at
      BY <2>1, Threading DEF ThreadCreate, Started, Slots
    <3>2. pc[ThreadOf(at)] = "none"
      BY <2>1, <3>1 DEF ThreadCreate, Started
    <3>3. pc' = [pc EXCEPT ![ThreadOf(at)] = "check"] /\ UNCHANGED <<is_connected, reported>>
      BY <2>1, <3>1 DEF ThreadCreate, ThreadOf, slotVars, ghosts
    <3> QED
      BY <3>1, <3>2, <3>3
  <2>2. CASE JoinAndClose
    BY <2>2, Threading DEF JoinAndClose, Joinable, Started
  <2>3. CASE DisplayFails \/ SeatAnnounced \/ ThreadCreateFails \/ StartLoop \/ (\E i \in Slots : RumbleTest(i))
             \/ RumbleMagnitudes \/ RumbleUpload \/ RumblePlay \/ StopRunning \/ JoinNoThread \/ DestroyArena
    <3>1. UNCHANGED <<pc, is_connected, reported>>
      BY <2>3 DEF DisplayFails, SeatAnnounced, ThreadCreateFails, StartLoop, RumbleTest,
        RumbleMagnitudes, RumbleUpload, RumblePlay, StopRunning, JoinNoThread, DestroyArena, slotVars, ghosts
    <3> QED
      BY <3>1
  <2> QED
    BY <2>1, <2>2, <2>3 DEF Main
<1>2. ASSUME NEW t \in Threads, Gamepad(t) PROVE Reporting'
  <2>1. SlotOf(t) \in Slots
    BY Threading
  <2>2. LET connected == is_connected'[SlotOf(t)]
            told == SlotOf(t) \in reported'
        IN
        /\ pc'[t] \in {"none", "open", "stat"} => ~ connected /\ ~ told
        /\ pc'[t] = "check" => (connected <=> told)
        /\ pc'[t] \in {"rumble", "probe", "query", "upload", "report"} => connected /\ ~ told
        /\ pc'[t] \in {"read", "close", "disconnect"} => connected /\ told
    BY <1>2, <2>1 DEF IInv, TypeOK, IfConnected, Goto, threadVars, slotVars, ghosts, Gamepad,
       CheckRunning, OpenDevice, StatDevice, StatFails,
    ResetRumble, TryDevice, NoForceFeedback, AllocEffect, UploadEffect, UploadFails, LeavesDevice,
    NoMoreDevices, ReportConnected,
    ReadEvent, ReadNothing, ReadGone, CloseDevice, Disconnect
  <2> QED
    BY <1>2, <2>2, GamepadKeeps DEF IInv
<1>3. ASSUME NEW i \in Slots, Device(i) PROVE Reporting'
  BY <1>3, DeviceKeeps DEF IInv
<1> QED
  BY <1>1, <1>2, <1>3 DEF Next

-----------------------------------------------------------------------------
(* The descriptors.                                                        *)

(* What steps have in common that open or close an event device.           *)
LEMMA DevicesKept ==
  ASSUME TypeOK, DevicesHeld, LostAreOpen, UNCHANGED <<fd, lost>>,
         \A u \in Threads : Holds(u)' <=> Holds(u),
         \A d \in Descriptors :
           \/ file'[d] = file[d]
           \/ file[d].kind # "js" /\ file'[d].kind # "js"
  PROVE  DevicesHeld' /\ LostAreOpen'
<1>1. \A i \in Slots : Open("js", i)' = Open("js", i)
  BY DEF Open
<1>2. DevicesHeld'
  BY <1>1, Threading DEF DevicesHeld
<1>3. LostAreOpen'
  BY DEF LostAreOpen, TypeOK
<1> QED
  BY <1>2, <1>3

(* The steps that close the joystick of a slot.                            *)
LEMMA DeviceClosed ==
  ASSUME TypeOK, DevicesHeld, LostAreOpen, UNCHANGED <<fd, lost>>, NEW t \in Threads,
         fd[SlotOf(t)] \in Open("js", SlotOf(t)) \ lost,
         file' = WithClosed(fd[SlotOf(t)]),
         ~ Holds(t)', \A u \in Threads \ {t} : Holds(u)' <=> Holds(u)
  PROVE  DevicesHeld' /\ LostAreOpen'
<1> DEFINE d == fd[SlotOf(t)]
<1>1. /\ d \in Descriptors /\ file[d].kind = "js" /\ file[d].slot = SlotOf(t) /\ d \notin lost
      /\ file'[d].kind = "none" /\ \A e \in Descriptors \ {d} : file'[e] = file[e]
  BY ClosedFile DEF Open, Closed
<1>2. Open("js", SlotOf(t))' = Open("js", SlotOf(t)) \ {d}
  BY <1>1 DEF Open
<1>3. ASSUME NEW u \in Threads \ {t}
      PROVE  Open("js", SlotOf(u))' = Open("js", SlotOf(u))
  BY <1>1, ThreadsDiffer DEF Open
<1>4. DevicesHeld'
  BY <1>2, <1>3 DEF DevicesHeld
<1>5. LostAreOpen'
  BY <1>1 DEF LostAreOpen, TypeOK
<1> QED
  BY <1>4, <1>5

LEMMA DevicesStep == IInv /\ Next => DevicesHeld' /\ LostAreOpen'
<1> SUFFICES ASSUME IInv, Next PROVE DevicesHeld' /\ LostAreOpen'
  OBVIOUS
<1> USE DEF DevicesHeld, LostAreOpen, Holds, Open, MainGoto, NotThreads, threadVars
<1>1. CASE Main
  <2> USE <1>1 DEF IInv, TypeOK
  <2>1. CASE ThreadCreate
    <3>1. /\ at \in Slots /\ at >= at /\ seats = 1
          /\ ThreadOf(at) \in Threads /\ SlotOf(ThreadOf(at)) = at
      BY <2>1, Threading DEF ThreadCreate, Started, Slots
    <3>2. pc[ThreadOf(at)] = "none"
      BY <2>1, <3>1 DEF ThreadCreate, Started
    <3>3. pc' = [pc EXCEPT ![ThreadOf(at)] = "check"] /\ UNCHANGED <<is_connected, fd, file, lost>>
      BY <2>1, <3>1 DEF ThreadCreate, ThreadOf, slotVars, ghosts
    <3>4. ~ is_connected[at]
      BY <3>1, <3>2 DEF Reporting
    <3> QED
      BY <3>1, <3>2, <3>3, <3>4
  <2>2. CASE JoinAndClose
    <3>1. PICK t \in Threads : SlotOf(t) = at
      BY Threading
    <3>2. pc[t] = "done"
      BY <2>2, <3>1 DEF JoinAndClose, Joinable, Started
    <3>3. CASE is_connected[at]
      <4>1. fd[at] \in Open("js", at) \ lost
        BY <3>1, <3>2, <3>3
      <4>2. UNCHANGED <<pc, fd, lost>> /\ is_connected' = [is_connected EXCEPT ![at] = FALSE]
        BY <2>2 DEF JoinAndClose
      <4>3. \A u \in Threads \ {t} : SlotOf(u) \in Slots /\ SlotOf(u) # at
        BY <3>1, Threading, ThreadsDiffer
      <4>4. ~ Holds(t)' /\ \A u \in Threads \ {t} : Holds(u)' <=> Holds(u)
        BY <3>1, <3>2, <4>2, <4>3
      <4>5. file' = WithClosed(fd[at])
        BY <2>2, <3>3 DEF JoinAndClose
      <4> HIDE DEF DevicesHeld, LostAreOpen, Holds, Open, TypeOK
      <4> QED
        BY <3>1, <4>1, <4>2, <4>4, <4>5, DeviceClosed
    <3>4. CASE ~ is_connected[at]
      <4>1. UNCHANGED <<pc, fd, lost, file>> /\ is_connected' = [is_connected EXCEPT ![at] = FALSE]
        BY <2>2, <3>4 DEF JoinAndClose
      <4> QED
        BY <3>1, <3>2, <3>4, <4>1, Threading, ThreadsDiffer
    <3> QED
      BY <3>3, <3>4
  <2>3. CASE DisplayFails \/ SeatAnnounced \/ ThreadCreateFails \/ StartLoop \/ (\E i \in Slots : RumbleTest(i))
             \/ RumbleMagnitudes \/ RumbleUpload \/ RumblePlay \/ StopRunning \/ JoinNoThread \/ DestroyArena
    <3>1. UNCHANGED <<pc, is_connected, fd, file, lost>>
      BY <2>3 DEF DisplayFails, SeatAnnounced, ThreadCreateFails, StartLoop, RumbleTest,
        RumbleMagnitudes, RumbleUpload, RumblePlay, StopRunning, JoinNoThread, DestroyArena, slotVars, ghosts
    <3> QED
      BY <3>1
  <2> QED
    BY <2>1, <2>2, <2>3 DEF Main
<1>2. ASSUME NEW t \in Threads, Gamepad(t) PROVE DevicesHeld' /\ LostAreOpen'
  <2> DEFINE s == SlotOf(t)
  <2>0. s \in Slots /\ (\A u \in Threads \ {t} : SlotOf(u) \in Slots /\ SlotOf(u) # s)
    BY Threading, ThreadsDiffer
  <2> HIDE DEF s
  <2> USE DEF IInv, TypeOK
  <2>1. CASE OpenDevice(t)
    <3>1. CASE plugged[s] /\ Unused # {}
      <4>1. /\ fd' = [fd EXCEPT ![s] = Lowest(Unused)] /\ file' = Opened("js", s, s)
            /\ pc'[t] = "stat" /\ UNCHANGED lost
        BY <1>2, <2>1, <3>1 DEF OpenDevice, s, Goto, ghosts
      <4>2. pc[t] = "open" /\ ~ is_connected[s]
        BY <2>1 DEF OpenDevice, Reporting, s
      <4>3. /\ Lowest(Unused) \in Descriptors /\ file[Lowest(Unused)] = Closed
            /\ file'[Lowest(Unused)] = [slot |-> s, kind |-> "js", by |-> s, dead |-> FALSE]
            /\ \A d \in Descriptors \ {Lowest(Unused)} : file'[d] = file[d]
        BY <2>0, <3>1, <4>1, OpenedFile
      <4> QED
        BY <1>2, <2>0, <4>1, <4>2, <4>3, GamepadKeeps DEF s, Closed
    <3>2. CASE ~ (plugged[s] /\ Unused # {})
      <4>1. /\ UNCHANGED <<file, lost, is_connected>> /\ pc'[t] = "check"
            /\ pc[t] = "open" /\ ~ is_connected[s]
        BY <2>1, <3>2 DEF OpenDevice, Reporting, s, Goto, IfConnected, ghosts
      <4> QED
        BY <1>2, <2>0, <4>1, GamepadKeeps DEF s
    <3> QED
      BY <3>1, <3>2
  <2>2. CASE TryDevice(t)
    <3>1. PICK j \in Slots : file' = Opened("event", j, s)
      BY <2>2 DEF TryDevice, s
    <3>2. /\ file[Lowest(Unused)] = Closed
          /\ file'[Lowest(Unused)] = [slot |-> j, kind |-> "event", by |-> s, dead |-> FALSE]
          /\ \A d \in Descriptors \ {Lowest(Unused)} : file'[d] = file[d]
      BY <2>0, <2>2, <3>1, OpenedFile DEF TryDevice
    <3>3. UNCHANGED <<fd, is_connected, lost>> /\ pc[t] = "probe" /\ pc'[t] = "query"
      BY <2>2 DEF TryDevice, Goto, slotVars, ghosts
    <3> QED
      <4>1. \A u \in Threads : Holds(u)' <=> Holds(u)
        BY <1>2, <3>3, GamepadKeeps
      <4>2. \A d \in Descriptors :
              \/ file'[d] = file[d]
              \/ file[d].kind # "js" /\ file'[d].kind # "js"
        BY <3>2 DEF Closed
      <4> HIDE DEF DevicesHeld, LostAreOpen, Holds, Open, TypeOK
      <4> QED
        BY <3>3, <4>1, <4>2, DevicesKept
  <2>3. CASE NoForceFeedback(t) \/ UploadFails(t)
    <3>0. LeavesDevice(t) /\ pc[t] \in {"query", "upload"}
      BY <2>3 DEF NoForceFeedback, UploadFails
    <3>1. /\ file[candidate[t]].kind = "event" /\ candidate[t] \in Descriptors
          /\ file'[candidate[t]] = Closed
          /\ \A d \in Descriptors \ {candidate[t]} : file'[d] = file[d]
      BY <3>0, ClosedFile DEF LeavesDevice, EffectsHeld, Event
    <3>2. UNCHANGED <<fd, is_connected, lost>> /\ pc'[t] = "probe"
      BY <2>3 DEF NoForceFeedback, UploadFails, LeavesDevice, Goto, slotVars, ghosts
    <3> QED
      BY <1>2, <2>0, <3>0, <3>1, <3>2, GamepadKeeps DEF s, Closed
  <2>4. CASE CloseDevice(t)
    <3>1. pc[t] = "close" /\ is_connected[s]
      BY <2>4 DEF CloseDevice, Reporting, s
    <3>2. fd[s] \in Open("js", s) \ lost
      BY <3>1 DEF s
    <3>3. UNCHANGED <<fd, is_connected, lost>> /\ pc'[t] = "disconnect"
          /\ file' = WithClosed(fd[s])
      BY <2>4 DEF CloseDevice, ClosedDevice, Goto, slotVars, ghosts, s
    <3>4. ~ Holds(t)' /\ \A u \in Threads \ {t} : Holds(u)' <=> Holds(u)
      BY <1>2, <3>3, GamepadKeeps
    <3> HIDE DEF DevicesHeld, LostAreOpen, Holds, Open, TypeOK
    <3> QED
      BY <3>2, <3>3, <3>4, DeviceClosed DEF s
  <2>5. CASE StatFails(t)
    <3>1. /\ UNCHANGED <<file, fd, is_connected>> /\ pc[t] = "stat" /\ pc'[t] = "check"
          /\ lost' = lost \cup {fd[s]} /\ ~ is_connected[s]
      BY <2>5 DEF StatFails, Reporting, Goto, IfConnected, s, slotVars
    <3>2. fd[s] \in Open("js", s)
      BY <3>1 DEF s
    <3> QED
      BY <1>2, <2>0, <3>1, <3>2, GamepadKeeps DEF s
  <2>6. CASE CheckRunning(t) \/ StatDevice(t) \/ ResetRumble(t) \/ AllocEffect(t)
             \/ UploadEffect(t) \/ NoMoreDevices(t)
             \/ ReportConnected(t) \/ ReadEvent(t) \/ ReadNothing(t) \/ ReadGone(t) \/ Disconnect(t)
    <3>1. UNCHANGED <<file, lost, fd>> /\ (Holds(t)' <=> Holds(t))
      BY <2>0, <2>6
         DEF s, Reporting, CheckRunning, StatDevice, ResetRumble, AllocEffect, UploadEffect, NoMoreDevices,
        ReportConnected, ReadEvent, ReadNothing, ReadGone, Disconnect, Goto, IfConnected, slotVars, ghosts
    <3> QED
      BY <1>2, <3>1, GamepadKeeps
  <2> QED
    BY <1>2, <2>1, <2>2, <2>3, <2>4, <2>5, <2>6 DEF Gamepad
<1>3. ASSUME NEW i \in Slots, Device(i) PROVE DevicesHeld' /\ LostAreOpen'
  <2>1. \A d \in Descriptors : file'[d].kind = file[d].kind /\ file'[d].slot = file[d].slot
    BY <1>3, UnpluggedFile DEF IInv, Device, Plug, EventArrives
  <2> QED
    BY <1>3, <2>1, DeviceKeeps DEF IInv, TypeOK
<1> QED
  BY <1>1, <1>2, <1>3 DEF Next

(* What steps have in common that neither open nor close an event device.  *)
LEMMA EffectsKept ==
  ASSUME TypeOK, EffectsHeld, UNCHANGED <<candidate, ff_fd, ff_effect>>, fault => fault',
         \A t \in Threads : pc'[t] \in Probing => pc'[t] = pc[t],
         main_pc' \in Rumbling => main_pc \in Rumbling /\ at' = at,
         \A d \in Descriptors : file[d].kind = "event" =>
           file'[d].kind = "event" /\ file'[d].by = file[d].by
  PROVE  EffectsHeld'
<1>1. \A d, i : Event(d, i) => Event(d, i)'
  BY DEF Event
<1>2. \A i \in Slots : Plays(i)' <=> Plays(i)
  BY DEF Plays
<1>3. ASSUME NEW t \in Threads
      PROVE  /\ pc'[t] \in Probing => ff_fd'[SlotOf(t)] = -1
             /\ pc'[t] \in {"query", "upload"} => Event(candidate[t], SlotOf(t))'
             /\ pc'[t] = "upload" => fault' \/ ff_effect'[SlotOf(t)] # "NULL"
  BY <1>1 DEF EffectsHeld, Probing, Event
<1>4. \A i \in Slots : Plays(i)' => Event(ff_fd[i], i)'
  BY <1>1, <1>2 DEF EffectsHeld, Event
<1>5. main_pc' \in Rumbling => ff_fd'[at'] = -1 \/ Plays(at)'
  BY <1>2 DEF EffectsHeld, Plays
<1> QED
  BY <1>3, <1>4, <1>5 DEF EffectsHeld

(* The steps that close a joystick close no event device.                  *)
LEMMA JoystickClosed ==
  ASSUME TypeOK, NEW i \in Slots, fd[i] \in Open("js", i),
         NEW d \in Descriptors, file[d].kind = "event"
  PROVE  WithClosed(fd[i])[d] = file[d]
<1>1. d # fd[i]
  BY DEF Open
<1> QED
  BY <1>1, ClosedFile

LEMMA EffectsStep == IInv /\ Next => EffectsHeld'
<1> SUFFICES ASSUME IInv, Next PROVE EffectsHeld'
  OBVIOUS
<1>0. TypeOK /\ EffectsHeld /\ ~ fault
  BY DEF IInv, Next
<1>1. CASE Main
  <2>1. CASE ThreadCreate
    <3>1. /\ UNCHANGED <<candidate, ff_fd, ff_effect, file>>
          /\ main_pc' \notin Rumbling
      BY <2>1 DEF ThreadCreate, NextSlot, slotVars, MainGoto, Creating, Created, Rumbling
    <3>2. \A t \in Threads : pc'[t] \in Probing => pc'[t] = pc[t]
      BY <1>0, <2>1 DEF ThreadCreate, TypeOK, Probing
    <3> QED
      BY <1>0, <3>1, <3>2, EffectsKept
  <2>2. CASE JoinAndClose
    <3>1. PICK t \in Threads : SlotOf(t) = at
      BY <1>0, Threading DEF TypeOK
    <3>2. pc[t] = "done"
      BY <2>2, <3>1 DEF JoinAndClose, Joinable, Started, IInv
    <3>3. \A d \in Descriptors : file[d].kind = "event" => file'[d] = file[d]
      <4>1. is_connected[at] => fd[at] \in Open("js", at)
        BY <3>1, <3>2 DEF DevicesHeld, Holds, IInv
      <4>2. at \in Slots
        BY <1>0 DEF TypeOK
      <4> QED
        BY <1>0, <2>2, <4>1, <4>2, JoystickClosed DEF JoinAndClose
    <3>4. /\ UNCHANGED <<pc, candidate, ff_fd, ff_effect>>
          /\ main_pc' \notin Rumbling
      BY <2>2 DEF JoinAndClose, NextSlot, NotThreads, threadVars, MainGoto, Rumbling
    <3> QED
      BY <1>0, <3>3, <3>4, EffectsKept
  <2>3. ASSUME NEW i \in Slots, RumbleTest(i) PROVE EffectsHeld'
    <3>1. /\ UNCHANGED <<pc, candidate, ff_fd, ff_effect, file, fault>>
          /\ at' = i /\ Plays(i) /\ main_pc' = "magnitudes"
      BY <2>3 DEF RumbleTest, NotThreads, threadVars, slotVars, Plays, MainGoto
    <3> QED
      BY <1>0, <3>1 DEF EffectsHeld, Plays, Event
  <2>4. CASE RumbleMagnitudes \/ RumbleUpload \/ RumblePlay
    <3>1. /\ UNCHANGED <<pc, candidate, ff_fd, ff_effect, file>>
          /\ main_pc' \in Rumbling => main_pc \in Rumbling /\ at' = at
      BY <2>4 DEF RumbleMagnitudes, RumbleUpload, RumblePlay, NotThreads, threadVars, slotVars, MainGoto,
                  Rumbling
    <3> QED
      BY <1>0, <3>1, EffectsKept
  <2>5. CASE DisplayFails \/ SeatAnnounced \/ ThreadCreateFails \/ StartLoop
             \/ StopRunning \/ JoinNoThread \/ DestroyArena
    <3>1. /\ UNCHANGED <<pc, candidate, ff_fd, ff_effect, file>>
          /\ main_pc' \notin Rumbling
      BY <2>5 DEF DisplayFails, SeatAnnounced, ThreadCreateFails, StartLoop, StopRunning,
                  JoinNoThread, DestroyArena, NextSlot, mainVars, threadVars, slotVars, NotThreads,
                  MainGoto, Creating, Created, Rumbling
    <3> QED
      BY <1>0, <3>1, EffectsKept
  <2> QED
    BY <1>1, <2>1, <2>2, <2>3, <2>4, <2>5 DEF Main
<1>2. ASSUME NEW t \in Threads, Gamepad(t) PROVE EffectsHeld'
  <2> DEFINE s == SlotOf(t)
  <2>0. s \in Slots /\ (\A u \in Threads \ {t} : SlotOf(u) \in Slots /\ SlotOf(u) # s)
    BY Threading, ThreadsDiffer
  <2>a. -1 \notin Descriptors
    BY GamepadAssumption
  <2> HIDE DEF s
  <2>1. CASE ResetRumble(t)
    <3>1. /\ ff_fd' = [ff_fd EXCEPT ![s] = -1] /\ pc' = [pc EXCEPT ![t] = "probe"]
          /\ UNCHANGED <<main_pc, at, candidate, ff_effect, file, fault>>
      BY <2>1 DEF ResetRumble, Goto, NotMain, mainVars, s
    <3>2. /\ ff_fd'[s] = -1 /\ ~ Plays(s)' /\ pc'[t] = "probe"
          /\ \A i \in Slots \ {s} : ff_fd'[i] = ff_fd[i] /\ (Plays(i)' <=> Plays(i))
          /\ \A u \in Threads \ {t} : pc'[u] = pc[u]
      BY <1>0, <2>0, <3>1 DEF TypeOK, Plays
    <3>3. \A d, i : Event(d, i)' <=> Event(d, i)
      BY <3>1 DEF Event
    <3>4. main_pc \in Rumbling => ff_fd'[at] = -1 \/ Plays(at)'
      BY <1>0, <3>1, <3>2 DEF EffectsHeld, TypeOK
    <3> QED
      BY <1>0, <2>0, <3>1, <3>2, <3>3, <3>4 DEF EffectsHeld, Event, s
  <2>2. CASE TryDevice(t)
    <3>0. PICK n : n = Lowest(Unused)
      OBVIOUS
    <3>1. PICK j \in Slots : file' = Opened("event", j, s)
      BY <2>2 DEF TryDevice, s
    <3>2. /\ n \in Descriptors /\ file[n] = Closed
          /\ file'[n] = [slot |-> j, kind |-> "event", by |-> s, dead |-> FALSE]
          /\ \A d \in Descriptors \ {n} : file'[d] = file[d]
      BY <1>0, <2>0, <2>2, <3>0, <3>1, OpenedFile DEF TryDevice
    <3>3. /\ candidate' = [candidate EXCEPT ![t] = n] /\ pc' = [pc EXCEPT ![t] = "query"]
          /\ UNCHANGED <<main_pc, at, ff_fd, ff_effect, fault>> /\ pc[t] = "probe"
      BY <2>2, <3>0 DEF TryDevice, Goto, NotMain, mainVars, slotVars
    <3>4. (\A d, i : Event(d, i) => Event(d, i)') /\ Event(n, s)'
      <4>1. file[n].kind = "none" /\ file'[n].kind = "event" /\ file'[n].by = s
        BY <3>2 DEF Closed
      <4> QED
        BY <3>2, <4>1 DEF Event
    <3>5. /\ pc'[t] = "query" /\ candidate'[t] = n /\ ff_fd[s] = -1
          /\ \A u \in Threads \ {t} : pc'[u] = pc[u] /\ candidate'[u] = candidate[u]
      BY <1>0, <3>3 DEF TypeOK, EffectsHeld, Probing, s
    <3>6. \A i : Plays(i)' <=> Plays(i)
      BY <3>3 DEF Plays
    <3> QED
      BY <1>0, <3>3, <3>4, <3>5, <3>6 DEF EffectsHeld, Event, s
  <2>3. CASE NoForceFeedback(t) \/ UploadFails(t)
    <3>1. /\ candidate' = [candidate EXCEPT ![t] = -1] /\ pc' = [pc EXCEPT ![t] = "probe"]
          /\ file' = WithClosed(candidate[t])
          /\ UNCHANGED <<main_pc, at, ff_fd, fault>> /\ pc[t] \in {"query", "upload"}
      BY <2>3 DEF NoForceFeedback, UploadFails, LeavesDevice, Goto, NotMain, mainVars, slotVars
    <3>2. ff_effect' = ff_effect \/ ff_effect' = [ff_effect EXCEPT ![s] = "NULL"]
      BY <2>3 DEF NoForceFeedback, UploadFails, slotVars, s
    <3>3. ff_fd[s] = -1 /\ Event(candidate[t], s)
      BY <1>0, <3>1 DEF EffectsHeld, Probing, s
    <3>4. \A d, i : i # s /\ Event(d, i) => Event(d, i)'
      BY <1>0, <3>1, <3>3, ClosedFile DEF Event
    <3>5. /\ ~ Plays(s)' /\ ~ Plays(s)
          /\ \A i \in Slots \ {s} : ff_effect'[i] = ff_effect[i] /\ (Plays(i)' <=> Plays(i))
      BY <1>0, <2>0, <3>1, <3>2, <3>3 DEF Plays, TypeOK
    <3>6. /\ \A u \in Threads \ {t} : pc'[u] = pc[u] /\ candidate'[u] = candidate[u]
          /\ pc'[t] = "probe"
      BY <1>0, <3>1 DEF TypeOK
    <3>7. main_pc \in Rumbling => ff_fd[at] = -1 \/ Plays(at)'
      BY <1>0, <3>1, <3>5 DEF EffectsHeld, TypeOK
    <3>8. ASSUME NEW u \in Threads
          PROVE  /\ pc'[u] \in Probing => ff_fd'[SlotOf(u)] = -1
                 /\ pc'[u] \in {"query", "upload"} => Event(candidate[u], SlotOf(u))'
                 /\ pc'[u] = "upload" => fault' \/ ff_effect'[SlotOf(u)] # "NULL"
      <4>1. CASE u = t
        BY <3>1, <3>3, <3>6, <4>1 DEF s
      <4>2. CASE u # t
        BY <1>0, <2>0, <3>1, <3>4, <3>5, <3>6, <4>2 DEF EffectsHeld, Event
      <4> QED
        BY <4>1, <4>2
    <3>9. \A i \in Slots : Plays(i)' => Event(ff_fd[i], i)'
      BY <1>0, <3>1, <3>4, <3>5 DEF EffectsHeld, Event
    <3> QED
      BY <3>1, <3>7, <3>8, <3>9 DEF EffectsHeld
  <2>4. CASE UploadEffect(t)
    <3>1. /\ ff_fd' = [ff_fd EXCEPT ![s] = candidate[t]]
          /\ candidate' = [candidate EXCEPT ![t] = -1]
          /\ pc' = [pc EXCEPT ![t] = "report"] /\ pc[t] = "upload"
          /\ UNCHANGED <<main_pc, at, ff_effect, file, fault>>
      BY <2>4 DEF UploadEffect, Goto, NotMain, mainVars, s
    <3>2. /\ Event(candidate[t], s) /\ candidate[t] # -1 /\ ff_effect[s] # "NULL"
      BY <1>0, <2>a, <3>1 DEF EffectsHeld, Event, s
    <3>3. /\ Plays(s)' /\ ff_fd'[s] = candidate[t]
          /\ \A i \in Slots \ {s} : ff_fd'[i] = ff_fd[i] /\ (Plays(i)' <=> Plays(i))
      BY <1>0, <2>0, <3>1, <3>2 DEF TypeOK, Plays
    <3>4. /\ \A u \in Threads \ {t} : pc'[u] = pc[u] /\ candidate'[u] = candidate[u]
          /\ \A d, i : Event(d, i)' <=> Event(d, i)
          /\ pc'[t] = "report"
      BY <1>0, <3>1 DEF Event, TypeOK
    <3>5. ASSUME NEW u \in Threads
          PROVE  /\ pc'[u] \in Probing => ff_fd'[SlotOf(u)] = -1
                 /\ pc'[u] \in {"query", "upload"} => Event(candidate[u], SlotOf(u))'
                 /\ pc'[u] = "upload" => fault' \/ ff_effect'[SlotOf(u)] # "NULL"
      <4>1. CASE u = t
        BY <3>4, <4>1 DEF Probing
      <4>2. CASE u # t
        BY <1>0, <2>0, <3>1, <3>3, <3>4, <4>2 DEF EffectsHeld, Event
      <4> QED
        BY <4>1, <4>2
    <3>6. \A i \in Slots : Plays(i)' => Event(ff_fd[i], i)'
      BY <1>0, <3>2, <3>3, <3>4 DEF EffectsHeld, Event
    <3>7. main_pc \in Rumbling => ff_fd'[at] = -1 \/ Plays(at)'
      BY <1>0, <3>1, <3>3 DEF EffectsHeld, TypeOK
    <3> QED
      BY <3>1, <3>5, <3>6, <3>7 DEF EffectsHeld
  <2>7. CASE AllocEffect(t)
    <3>1. /\ pc' = [pc EXCEPT ![t] = "upload"] /\ pc[t] = "query"
          /\ UNCHANGED <<main_pc, at, candidate, ff_fd, file>>
      BY <2>7 DEF AllocEffect, Goto, NotMain, mainVars, s
    <3>2. \/ ff_effect' = [ff_effect EXCEPT ![s] = "effect"] /\ UNCHANGED fault
          \/ fault' /\ UNCHANGED ff_effect
      BY <2>7 DEF AllocEffect, s
    <3>3. ff_fd[s] = -1 /\ Event(candidate[t], s)
      BY <1>0, <3>1 DEF EffectsHeld, Probing, s
    <3>4. /\ fault' \/ ff_effect'[s] # "NULL"
          /\ \A i \in Slots \ {s} : ff_effect'[i] = ff_effect[i]
          /\ \A i \in Slots : Plays(i)' <=> Plays(i)
      BY <1>0, <2>0, <3>1, <3>2, <3>3 DEF TypeOK, Plays
    <3>5. /\ \A u \in Threads \ {t} : pc'[u] = pc[u]
          /\ \A d, i : Event(d, i)' <=> Event(d, i)
          /\ pc'[t] = "upload"
      BY <1>0, <3>1 DEF Event, TypeOK
    <3>6. ASSUME NEW u \in Threads
          PROVE  /\ pc'[u] \in Probing => ff_fd'[SlotOf(u)] = -1
                 /\ pc'[u] \in {"query", "upload"} => Event(candidate[u], SlotOf(u))'
                 /\ pc'[u] = "upload" => fault' \/ ff_effect'[SlotOf(u)] # "NULL"
      <4>1. CASE u = t
        BY <3>1, <3>3, <3>4, <3>5, <4>1 DEF Event, s
      <4>2. CASE u # t
        BY <1>0, <2>0, <3>1, <3>4, <3>5, <4>2 DEF EffectsHeld, Event
      <4> QED
        BY <4>1, <4>2
    <3>7. \A i \in Slots : Plays(i)' => Event(ff_fd[i], i)'
      BY <1>0, <3>1, <3>4, <3>5 DEF EffectsHeld, Event
    <3>8. main_pc \in Rumbling => ff_fd[at] = -1 \/ Plays(at)'
      BY <1>0, <3>1, <3>4 DEF EffectsHeld, TypeOK
    <3> QED
      BY <3>1, <3>6, <3>7, <3>8 DEF EffectsHeld
  <2>5. CASE OpenDevice(t) \/ CloseDevice(t)
    <3>1. \A d \in Descriptors : file[d].kind = "event" => file'[d] = file[d]
      <4>1. CASE OpenDevice(t)
        <5>1. ASSUME Unused # {}, NEW d \in Descriptors, file[d].kind = "event"
              PROVE  Opened("js", s, s)[d] = file[d]
          <6>1. /\ file[Lowest(Unused)] = Closed
                /\ \A e \in Descriptors \ {Lowest(Unused)} : Opened("js", s, s)[e] = file[e]
            BY <1>0, <2>0, <5>1, OpenedFile
          <6> QED
            BY <5>1, <6>1 DEF Closed
        <5> QED
          BY <4>1, <5>1 DEF OpenDevice, s
      <4>2. CASE CloseDevice(t)
        <5>1. fd[s] \in Open("js", s)
          BY <4>2 DEF CloseDevice, Reporting, DevicesHeld, Holds, s, IInv
        <5> QED
          BY <1>0, <2>0, <4>2, <5>1, JoystickClosed DEF CloseDevice, ClosedDevice, s
      <4> QED
        BY <2>5, <4>1, <4>2
    <3>2. /\ UNCHANGED <<main_pc, at, candidate, ff_fd, ff_effect>>
          /\ \A u \in Threads : pc'[u] \in Probing => pc'[u] = pc[u]
      BY <1>0, <2>5 DEF OpenDevice, CloseDevice, Goto, IfConnected, NotMain, mainVars,
                        threadVars, slotVars, TypeOK, Probing
    <3> QED
      BY <1>0, <3>1, <3>2, EffectsKept
  <2>6. CASE CheckRunning(t) \/ StatDevice(t) \/ StatFails(t) \/ NoMoreDevices(t)
             \/ ReportConnected(t) \/ ReadEvent(t) \/ ReadNothing(t) \/ ReadGone(t)
             \/ Disconnect(t)
    <3>1. /\ UNCHANGED <<main_pc, at, candidate, ff_fd, ff_effect, file>>
          /\ \A u \in Threads : pc'[u] \in Probing => pc'[u] = pc[u]
      BY <1>0, <2>6 DEF CheckRunning, StatDevice, StatFails, NoMoreDevices, ReportConnected,
        ReadEvent, ReadNothing, ReadGone, Disconnect, Goto, IfConnected, NotMain, mainVars,
        threadVars, slotVars, TypeOK, Probing
    <3> QED
      BY <1>0, <3>1, EffectsKept
  <2> QED
    BY <1>2, <2>1, <2>2, <2>3, <2>4, <2>5, <2>6, <2>7 DEF Gamepad
<1>3. ASSUME NEW i \in Slots, Device(i) PROVE EffectsHeld'
  <2>1. \A d \in Descriptors : file'[d].kind = file[d].kind /\ file'[d].by = file[d].by
    BY <1>0, <1>3, UnpluggedFile DEF Device, Plug, EventArrives
  <2>2. UNCHANGED <<ff_effect, fault>>
    BY <1>3 DEF Device, Plug, Unplug, EventArrives, NotDevices, slotVars
  <2> QED
    BY <1>0, <1>3, <2>1, <2>2, DeviceKeeps, EffectsKept
<1> QED
  BY <1>1, <1>2, <1>3 DEF Next

-----------------------------------------------------------------------------
(* The invariant holds, whatever the threads, the devices and the main     *)
(* thread do.                                                              *)
THEOREM Invariance == Spec => []IInv
<1>1. IInv /\ [Next]_vars => IInv'
  <2> SUFFICES ASSUME IInv, [Next]_vars PROVE IInv'
    OBVIOUS
  <2>1. CASE Next
    BY <2>1, TypeStep, StartedStep, JoinedStep, ReportingStep, DevicesStep, EffectsStep DEF IInv
  <2>2. CASE UNCHANGED vars
    <3>1. EffectsHeld'
      BY <2>2, EffectsKept DEF vars, mainVars, threadVars, slotVars, IInv
    <3> QED
      BY <2>2, <3>1 DEF vars, mainVars, threadVars, slotVars, deviceVars, ghosts, IInv, TypeOK, Started,
                        Joined, Over, Reporting, DevicesHeld, Holds, Open, LostAreOpen
  <2> QED
    BY <2>1, <2>2
<1> QED
  BY InitIInv, <1>1, PTL DEF Spec

(* The variables have their types.                                         *)
THEOREM TypeCorrect == Spec => []TypeOK
<1>1. IInv => TypeOK
  BY DEF IInv
<1> QED
  BY Invariance, <1>1, PTL

(* When the arena is destroyed no gamepad thread is left that would read   *)
(* from it, for any number of slots and whatever failed.                   *)
THEOREM EndBeforeArena == Spec => []ThreadsEndBeforeArena
<1>1. IInv => ThreadsEndBeforeArena
  BY DEF IInv, Joined, Over, ThreadsEndBeforeArena
<1> QED
  BY Invariance, <1>1, PTL

(* The client is told connected and disconnected of a slot in turn.        *)
THEOREM InTurn == Spec => ReportsAlternate
<1>1. IInv /\ [Next]_vars =>
        [\A t \in Threads :
           /\ ReportConnected(t) => SlotOf(t) \notin reported
           /\ Disconnect(t) => SlotOf(t) \in reported]_vars
  BY DEF IInv, Reporting, ReportConnected, Disconnect
<1> QED
  BY Invariance, <1>1, PTL DEF Spec, ReportsAlternate

(* A slot has one joystick open at most, and none when the window is gone, *)
(* but for those that fstat failed on.                                     *)
THEOREM OneDevice == Spec => []DescriptorsClosed
<1>1. IInv => DescriptorsClosed
  <2> SUFFICES ASSUME IInv, NEW i \in Slots
               PROVE  /\ Cardinality(Open("js", i) \ lost) <= 1
                      /\ main_pc = "gone" => Open("js", i) \subseteq lost
    BY DEF DescriptorsClosed
  <2>1. PICK t \in Threads : SlotOf(t) = i
    BY Threading
  <2>2. Open("js", i) \ lost \subseteq {fd[i]}
    BY <2>1 DEF IInv, DevicesHeld
  <2>3. Cardinality(Open("js", i) \ lost) <= 1
    <3>1. IsFiniteSet({fd[i]}) /\ Cardinality({fd[i]}) = 1
      BY FS_Singleton
    <3>2. Cardinality(Open("js", i) \ lost) <= Cardinality({fd[i]})
      BY <2>2, <3>1, FS_Subset
    <3> QED
      BY <3>1, <3>2
  <2>4. main_pc = "gone" => ~ Holds(t)
    BY <2>1 DEF IInv, Joined, Over, Holds
  <2> QED
    BY <2>1, <2>3, <2>4 DEF IInv, DevicesHeld
<1> QED
  BY Invariance, <1>1, PTL

(* A descriptor that is closed is a joystick of the slot it is closed for. *)
THEOREM OwnDevice == Spec => ClosesOwnDevice
<1>1. ASSUME IInv, NEW t \in Threads, CloseDevice(t)
      PROVE  fd[SlotOf(t)] \in Open("js", SlotOf(t))
  BY <1>1 DEF IInv, DevicesHeld, Holds, Reporting, CloseDevice
<1>2. ASSUME IInv, JoinAndClose, is_connected[at]
      PROVE  fd[at] \in Open("js", at)
  <2>1. PICK t \in Threads : SlotOf(t) = at
    BY <1>2, Threading DEF IInv, TypeOK
  <2>2. pc[t] = "done"
    BY <1>2, <2>1 DEF IInv, Started, JoinAndClose, Joinable
  <2> QED
    BY <1>2, <2>1, <2>2 DEF IInv, DevicesHeld, Holds
<1>3. IInv /\ [Next]_vars =>
        [/\ \A t \in Threads : CloseDevice(t) => fd[SlotOf(t)] \in Open("js", SlotOf(t))
         /\ JoinAndClose /\ is_connected[at] => fd[at] \in Open("js", at)]_vars
  BY <1>1, <1>2
<1> QED
  BY Invariance, <1>3, PTL DEF Spec, ClosesOwnDevice

(* Rumble is written to an event device that the thread of the slot opened *)
(* itself and has not closed, or to -1: the number was not given away      *)
(* since ff_fd was tested, because UploadFails closes the candidate before *)
(* it gets to ff_fd, and nothing closes ff_fd.                             *)
THEOREM PlaysOnOwnFile == Spec => RumblePlaysOnOwnFile
<1>1. ASSUME IInv, RumblePlay, ff_fd[at] # -1
      PROVE  \E i \in Slots :
               ff_fd[at] \in {d \in Open("event", i) : file[d].by = at}
  <2>1. Event(ff_fd[at], at)
    BY <1>1 DEF IInv, TypeOK, EffectsHeld, RumblePlay, Rumbling
  <2>2. file[ff_fd[at]].slot \in Slots
    BY <1>1, <2>1 DEF IInv, TypeOK, Event, File, Closed
  <2> QED
    BY <2>1, <2>2 DEF Event, Open
<1>2. IInv /\ [Next]_vars =>
        [RumblePlay /\ ff_fd[at] # -1 =>
           \E i \in Slots :
             ff_fd[at] \in {d \in Open("event", i) : file[d].by = at}]_vars
  BY <1>1
<1> QED
  BY Invariance, <1>2, PTL DEF Spec, RumblePlaysOnOwnFile
=============================================================================
