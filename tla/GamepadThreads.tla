--------------------------- MODULE GamepadThreads ---------------------------
(***************************************************************************)
(* The gamepad threads of src/orwindow/linux/wayland_gamepad.c and their   *)
(* life under the window: started by the registry callback of              *)
(* wayland_client.c for each seat, stopped and joined by                   *)
(* inter_wl_free_window, after which inter_remove_window destroys the      *)
(* arena that is_running lives in.                                         *)
(*                                                                         *)
(* One thread per slot polls one joystick device.  It opens the device,    *)
(* looks for an event device to rumble with, reads events until there are  *)
(* none, and sleeps.  Devices come and go at any time.  The main thread    *)
(* may ask for rumble from its draw callback while it runs the loop.       *)
(*                                                                         *)
(* The sleep of one millisecond is the step back to "check".  What an      *)
(* event says is in GamepadEvents.                                         *)
(***************************************************************************)
EXTENDS Integers, FiniteSets

CONSTANTS
  NumSlots,      (* OR_MAX_GAMEPADS                                        *)
  Seats,         (* how many wl_seat the compositor may announce           *)
  Descriptors,   (* the file descriptors that are free when the window is  *)
  NoThread,      (* the zero that a static pthread_t starts with           *)
  ArenaRoom,     (* how many ff_effects fit in the arena                   *)
  MaxPending,    (* how many events a device queues                        *)
  Enabled,       (* did the client pass gamepad_listeners?                 *)
  MaxLost,       (* how often fstat may fail                               *)
  Failures       (* what else may: "display", "seat", "thread"             *)

Slots == 1 .. NumSlots
Threads == Slots \X (1 .. Seats)
SlotOf(t) == t[1]

ASSUME GamepadAssumption ==
  /\ NumSlots \in Nat \ {0}
  /\ Seats \in Nat \ {0}
  /\ Descriptors \subseteq Nat /\ IsFiniteSet(Descriptors)
  /\ NoThread \notin Threads
  /\ ArenaRoom \in Nat
  /\ MaxPending \in Nat /\ MaxLost \in Nat
  /\ Enabled \in BOOLEAN
  /\ Failures \subseteq {"display", "seat", "thread"}

VARIABLES
  main_pc, at, seats,           (* the main thread; its loop index; seats   *)
                                (* announced so far                         *)
  pc, event, candidate,         (* of each gamepad thread; the event device *)
                                (* it looks at; its descriptor              *)
  thread,                       (* gamepad_threads[].thread                 *)
  is_running,                   (* InterWaylandClient                       *)
  is_connected, fd, ff_fd, ff_effect,     (* struct GamepadState            *)
  arena_mapped, room,           (* the arena, and how much is left of it    *)
  file,                         (* what each descriptor refers to           *)
  plugged, pending,             (* the devices, and the events they queue   *)
  fault,                        (* the process has died                     *)
  reported, lost                (* ghosts: slots the client was told about, *)
                                (* descriptors that fstat failed on         *)

mainVars == <<main_pc, at, seats>>
slotVars == <<is_connected, fd, ff_fd, ff_effect>>
deviceVars == <<plugged, pending>>
ghosts == <<reported, lost>>
threadVars == <<pc, event, candidate>>
vars == <<mainVars, threadVars, thread, is_running, slotVars, arena_mapped, room,
          file, deviceVars, fault, ghosts>>

(* An open file is a device of a slot, opened by the thread of a slot.     *)
Closed == [slot |-> 0, kind |-> "none", by |-> 0, dead |-> FALSE]
File == [slot : Slots, kind : {"js", "event"}, by : Slots, dead : BOOLEAN] \cup {Closed}
IsOpen(d) == file[d] # Closed
Open(kind, slot) == {d \in Descriptors : file[d].kind = kind /\ file[d].slot = slot}

(* open returns the lowest descriptor that is free.                        *)
Unused == {d \in Descriptors : ~ IsOpen(d)}
Lowest(D) == CHOOSE d \in D : \A e \in D : d <= e
Opened(kind, slot, by) ==
  [file EXCEPT ![Lowest(Unused)] =
     [slot |-> slot, kind |-> kind, by |-> by, dead |-> FALSE]]

(* close: of a descriptor that is not open it does nothing.                *)
WithClosed(d) == [e \in Descriptors |-> IF e = d THEN Closed ELSE file[e]]

Init ==
  /\ main_pc = "setup" /\ at = 1 /\ seats = 0
  /\ pc = [t \in Threads |-> "none"]
  /\ event = [t \in Threads |-> 0]
  /\ candidate = [t \in Threads |-> -1]
  /\ thread = [i \in Slots |-> NoThread]
  /\ is_running = TRUE
  /\ is_connected = [i \in Slots |-> FALSE]
  /\ fd = [i \in Slots |-> 0]
  /\ ff_fd = [i \in Slots |-> 0]
  /\ ff_effect = [i \in Slots |-> "NULL"]
  /\ arena_mapped = TRUE /\ room = ArenaRoom
  /\ file = [d \in Descriptors |-> Closed]
  /\ plugged \in [Slots -> BOOLEAN]
  /\ pending = [i \in Slots |-> 0]
  /\ fault = FALSE
  /\ reported = {} /\ lost = {}

-----------------------------------------------------------------------------
(* The main thread.                                                        *)

MainGoto(label) == main_pc' = label
NotThreads == <<threadVars, room, fault, reported, lost>>

(* init_wayland has no display: inter_wl_free_window before any seat.      *)
DisplayFails ==
  /\ "display" \in Failures
  /\ main_pc = "setup" /\ seats = 0
  /\ is_running' = FALSE
  /\ MainGoto("join") /\ at' = 1
  /\ UNCHANGED <<seats, thread, slotVars, arena_mapped, file, deviceVars>>
  /\ UNCHANGED NotThreads

(* register_device for a wl_seat, from the round trip of init_wayland or   *)
(* later from the loop's dispatch: setup_gamepad.                          *)
Creating == {"create", "create_late"}
Created == IF main_pc = "create" THEN "setup" ELSE "loop"
SeatAnnounced ==
  /\ main_pc \in {"setup", "loop"} /\ seats < Seats
  /\ seats' = seats + 1
  /\ at' = 1
  /\ IF Enabled THEN MainGoto(IF main_pc = "setup" THEN "create" ELSE "create_late")
                ELSE UNCHANGED main_pc
  /\ UNCHANGED <<thread, is_running, slotVars, arena_mapped, file, deviceVars>>
  /\ UNCHANGED NotThreads

NextSlot(this, next) ==
  IF at < NumSlots THEN at' = at + 1 /\ MainGoto(this)
                   ELSE at' = 1 /\ MainGoto(next)

(* pthread_create of setup_gamepad.  If it fails that is reported, and the *)
(* handle is left as it was.                                               *)
ThreadCreate ==
  LET t == <<at, seats>> IN
  /\ main_pc \in Creating
  /\ pc' = [pc EXCEPT ![t] = "check"]
  /\ thread' = [thread EXCEPT ![at] = t]
  /\ NextSlot(main_pc, Created)
  /\ UNCHANGED <<seats, event, candidate, is_running, slotVars, arena_mapped, room, file,
                 deviceVars, fault, ghosts>>
ThreadCreateFails ==
  /\ "thread" \in Failures
  /\ main_pc \in Creating
  /\ NextSlot(main_pc, Created)
  /\ UNCHANGED <<seats, thread, is_running, slotVars, arena_mapped, file,
                 deviceVars>>
  /\ UNCHANGED NotThreads

(* or_surface_setup has returned, or_start_main_loop is called.            *)
StartLoop ==
  /\ main_pc = "setup"
  /\ "seat" \in Failures \/ seats > 0
  /\ MainGoto("loop")
  /\ UNCHANGED <<at, seats, thread, is_running, slotVars, arena_mapped, file,
                 deviceVars>>
  /\ UNCHANGED NotThreads

(* gamepad_set_rumble(i) from a callback of the main loop: the test, the   *)
(* magnitudes, EVIOCSFF, and the write that plays the effect.              *)
RumbleTest(i) ==
  /\ main_pc = "loop"
  /\ ff_fd[i] >= 0 /\ ff_effect[i] # "NULL"
  /\ MainGoto("magnitudes") /\ at' = i
  /\ UNCHANGED <<seats, thread, is_running, slotVars, arena_mapped, file,
                 deviceVars>>
  /\ UNCHANGED NotThreads
RumbleMagnitudes ==
  /\ main_pc = "magnitudes"
  /\ fault' = (ff_effect[at] = "NULL")
  /\ MainGoto("upload")
  /\ UNCHANGED <<at, seats, threadVars, thread, is_running, slotVars, arena_mapped,
                 room, file, deviceVars, ghosts>>

Usable(d) == d \in Descriptors /\ IsOpen(d) /\ ~ file[d].dead
RumbleUpload ==
  /\ main_pc = "upload"
  /\ IF Usable(ff_fd[at]) /\ ff_effect[at] # "NULL"
     THEN MainGoto("play") /\ UNCHANGED at
     ELSE MainGoto("loop") /\ at' = 1
  /\ UNCHANGED <<seats, thread, is_running, slotVars, arena_mapped, file,
                 deviceVars>>
  /\ UNCHANGED NotThreads
RumblePlay ==
  /\ main_pc = "play"
  /\ fault' = (ff_effect[at] = "NULL")
  /\ MainGoto("loop") /\ at' = 1
  /\ UNCHANGED <<seats, threadVars, thread, is_running, slotVars, arena_mapped,
                 room, file, deviceVars, ghosts>>

(* The loop ends, or_destroy_window: inter_wl_free_window clears           *)
(* is_running, then cleanup_gamepads goes through the slots.               *)
StopRunning ==
  /\ main_pc = "loop"
  /\ is_running' = FALSE
  /\ MainGoto("join") /\ at' = 1
  /\ UNCHANGED <<seats, thread, slotVars, arena_mapped, file, deviceVars>>
  /\ UNCHANGED NotThreads

(* pthread_join waits for the thread to end; a zero handle is the address  *)
(* of no thread, and reading from it ends the process.                     *)
JoinNoThread ==
  /\ main_pc = "join" /\ thread[at] = NoThread
  /\ fault' = TRUE
  /\ UNCHANGED <<mainVars, threadVars, thread, is_running, slotVars, arena_mapped,
                 room, file, deviceVars, ghosts>>

Detached(i) == thread[i] # NoThread
Joinable(i) == thread[i] # NoThread /\ pc[thread[i]] = "done"
JoinAndClose ==
  /\ main_pc = "join" /\ Joinable(at)
  /\ file' = IF is_connected[at] THEN WithClosed(fd[at]) ELSE file
  /\ is_connected' = [is_connected EXCEPT ![at] = FALSE]
  /\ NextSlot("join", "destroy")
  /\ UNCHANGED <<seats, thread, is_running, fd, ff_fd, ff_effect,
                 arena_mapped, deviceVars>>
  /\ UNCHANGED NotThreads

(* inter_remove_window: arena_destroy.                                     *)
DestroyArena ==
  /\ main_pc = "destroy"
  /\ arena_mapped' = FALSE
  /\ MainGoto("gone")
  /\ UNCHANGED <<at, seats, thread, is_running, slotVars, file, deviceVars>>
  /\ UNCHANGED NotThreads

Main ==
  \/ DisplayFails \/ SeatAnnounced \/ ThreadCreate \/ ThreadCreateFails
  \/ StartLoop
  \/ \E i \in Slots : RumbleTest(i)
  \/ RumbleMagnitudes \/ RumbleUpload \/ RumblePlay
  \/ StopRunning \/ JoinNoThread \/ JoinAndClose \/ DestroyArena

-----------------------------------------------------------------------------
(* A gamepad thread: single_gamepad_thread.  Its next label is a function  *)
(* of what it reads, so that the tests of is_connected on lines 336 and    *)
(* 350 are part of the steps before them.                                  *)

Goto(t, label) == pc' = [pc EXCEPT ![t] = label]
AlwaysReopen(t, label) == label
IfConnected(t, label) == IF is_connected[SlotOf(t)] THEN "read" ELSE label
NotMain == <<mainVars, thread, is_running, arena_mapped, deviceVars>>

(* is_running is a field of the client, which lies in the arena.           *)
LoopForever == TRUE
LoopTest == is_running
CheckRunning(t) ==
  /\ pc[t] = "check"
  /\ fault' = ~ arena_mapped
  /\ Goto(t, IF LoopTest THEN IfConnected(t, "open") ELSE "done")
  /\ UNCHANGED <<event, candidate, slotVars, room, file, ghosts>>
  /\ UNCHANGED NotMain

OpenDevice(t) ==
  LET i == SlotOf(t) IN
  /\ pc[t] = "open"
  /\ IF plugged[i] /\ Unused # {}
     THEN /\ file' = Opened("js", i, i)
          /\ fd' = [fd EXCEPT ![i] = Lowest(Unused)]
          /\ Goto(t, "stat")
     ELSE /\ fd' = [fd EXCEPT ![i] = -1]
          /\ Goto(t, IfConnected(t, "check"))
          /\ UNCHANGED file
  /\ UNCHANGED <<event, candidate, is_connected, ff_fd, ff_effect, room, fault, ghosts>>
  /\ UNCHANGED NotMain

(* handle_controller_connected.                                            *)
StatDevice(t) ==
  /\ pc[t] = "stat"
  /\ is_connected' = [is_connected EXCEPT ![SlotOf(t)] = TRUE]
  /\ Goto(t, "rumble")
  /\ UNCHANGED <<event, candidate, fd, ff_fd, ff_effect, room, file, fault, ghosts>>
  /\ UNCHANGED NotMain
StatFails(t) ==
  /\ Cardinality(lost) < MaxLost
  /\ pc[t] = "stat"
  /\ lost' = lost \cup {fd[SlotOf(t)]}
  /\ Goto(t, IfConnected(t, "check"))
  /\ UNCHANGED <<event, candidate, slotVars, room, file, fault, reported>>
  /\ UNCHANGED NotMain

(* setup_gamepad_rumble: a loop over the event devices in their order.     *)
(* Only the major number is compared, which is that of every input device; *)
(* so the devices of all slots are looked at.                              *)
ResetRumble(t) ==
  /\ pc[t] = "rumble"
  /\ ff_fd' = [ff_fd EXCEPT ![SlotOf(t)] = -1]
  /\ Goto(t, "probe")
  /\ UNCHANGED <<event, candidate, is_connected, fd, ff_effect, room, file, fault, ghosts>>
  /\ UNCHANGED NotMain

SameMajor(i, j) == TRUE
TryDevice(t) ==
  LET i == SlotOf(t) IN
  /\ pc[t] = "probe"
  /\ Unused # {}
  /\ \E j \in Slots :
       /\ j > event[t] /\ plugged[j] /\ SameMajor(i, j)
       /\ event' = [event EXCEPT ![t] = j]
       /\ file' = Opened("event", j, i)
  /\ candidate' = [candidate EXCEPT ![t] = Lowest(Unused)]
  /\ Goto(t, "query")
  /\ UNCHANGED <<slotVars, room, fault, ghosts>>
  /\ UNCHANGED NotMain

(* EVIOCGBIT fails, or the device has no force feedback.                   *)
LeavesDevice(t) ==
  /\ file' = WithClosed(candidate[t])
  /\ candidate' = [candidate EXCEPT ![t] = -1]
  /\ Goto(t, "probe")
NoForceFeedback(t) ==
  /\ pc[t] = "query"
  /\ LeavesDevice(t)
  /\ UNCHANGED <<event, slotVars, room, fault, ghosts>>
  /\ UNCHANGED NotMain

RoomUnchecked == arena_mapped
HasRoom == arena_mapped /\ room > 0
AllocEffect(t) ==
  /\ pc[t] = "query" /\ Usable(candidate[t])
  /\ IF HasRoom
     THEN /\ room' = room - 1
          /\ ff_effect' = [ff_effect EXCEPT ![SlotOf(t)] = "effect"]
          /\ UNCHANGED fault
     ELSE /\ fault' = TRUE
          /\ UNCHANGED <<room, ff_effect>>
  /\ Goto(t, "upload")
  /\ UNCHANGED <<event, candidate, is_connected, fd, ff_fd, file, ghosts>>
  /\ UNCHANGED NotMain
UploadEffect(t) ==
  /\ pc[t] = "upload"
  /\ Usable(candidate[t])
  /\ ff_fd' = [ff_fd EXCEPT ![SlotOf(t)] = candidate[t]]
  /\ candidate' = [candidate EXCEPT ![t] = -1]
  /\ Goto(t, "report")
  /\ UNCHANGED <<event, is_connected, fd, ff_effect, room, file, fault, ghosts>>
  /\ UNCHANGED NotMain
UploadFails(t) ==
  /\ pc[t] = "upload"
  /\ ff_effect' = [ff_effect EXCEPT ![SlotOf(t)] = "NULL"]
  /\ LeavesDevice(t)
  /\ UNCHANGED <<event, is_connected, fd, ff_fd, room, fault, ghosts>>
  /\ UNCHANGED NotMain

(* The devices that are left are absent, or cannot be opened.              *)
NoMoreDevices(t) ==
  /\ pc[t] = "probe"
  /\ Goto(t, "report")
  /\ UNCHANGED <<event, candidate, slotVars, room, file, fault, ghosts>>
  /\ UNCHANGED NotMain

(* listeners->connected.                                                   *)
ReportConnected(t) ==
  /\ pc[t] = "report"
  /\ reported' = reported \cup {SlotOf(t)}
  /\ event' = [event EXCEPT ![t] = 0]
  /\ Goto(t, IfConnected(t, "check"))
  /\ UNCHANGED <<candidate, slotVars, room, file, fault, lost>>
  /\ UNCHANGED NotMain

(* The inner loop reads events until there are none (EAGAIN) or the device *)
(* is gone (ENODEV); is_running is not looked at.                          *)
ReadEvent(t) ==
  LET i == SlotOf(t) IN
  /\ pc[t] = "read" /\ Usable(fd[i]) /\ pending[i] > 0
  /\ pending' = [pending EXCEPT ![i] = @ - 1]
  /\ UNCHANGED <<mainVars, threadVars, thread, is_running, slotVars,
                 arena_mapped, room, file, plugged, fault, ghosts>>
GoneNow(d) == /\ d \in Descriptors /\ IsOpen(d) /\ file[d].dead
              /\ ~ plugged[file[d].slot]
Gone(d) == d \in Descriptors /\ IsOpen(d) /\ file[d].dead
ReadNothing(t) ==
  LET i == SlotOf(t) IN
  /\ pc[t] = "read" /\ ~ Gone(fd[i])
  /\ Usable(fd[i]) => pending[i] = 0
  /\ Goto(t, "check")
  /\ UNCHANGED <<event, candidate, slotVars, room, file, fault, ghosts>>
  /\ UNCHANGED NotMain
ReadGone(t) ==
  /\ pc[t] = "read" /\ Gone(fd[SlotOf(t)])
  /\ Goto(t, "close")
  /\ UNCHANGED <<event, candidate, slotVars, room, file, fault, ghosts>>
  /\ UNCHANGED NotMain

NotClosed(i) == file
AlsoRumble(i) == [e \in Descriptors |-> IF e \in {fd[i], ff_fd[i]} THEN Closed ELSE file[e]]
ClosedDevice(i) == WithClosed(fd[i])
CloseDevice(t) ==
  /\ pc[t] = "close"
  /\ file' = ClosedDevice(SlotOf(t))
  /\ Goto(t, "disconnect")
  /\ UNCHANGED <<event, candidate, slotVars, room, fault, ghosts>>
  /\ UNCHANGED NotMain
(* handle_controller_disconnected.                                         *)
Disconnect(t) ==
  /\ pc[t] = "disconnect"
  /\ is_connected' = [is_connected EXCEPT ![SlotOf(t)] = FALSE]
  /\ reported' = reported \ {SlotOf(t)}
  /\ Goto(t, "check")
  /\ UNCHANGED <<event, candidate, fd, ff_fd, ff_effect, room, file, fault, lost>>
  /\ UNCHANGED NotMain

Gamepad(t) ==
  \/ CheckRunning(t) \/ OpenDevice(t) \/ StatDevice(t) \/ StatFails(t)
  \/ ResetRumble(t) \/ TryDevice(t) \/ NoForceFeedback(t) \/ AllocEffect(t)
  \/ UploadEffect(t) \/ UploadFails(t) \/ NoMoreDevices(t) \/ ReportConnected(t)
  \/ ReadEvent(t) \/ ReadNothing(t) \/ ReadGone(t)
  \/ CloseDevice(t) \/ Disconnect(t)

-----------------------------------------------------------------------------
(* The devices.  A descriptor of a device that was pulled out stays dead   *)
(* when the device, or another, is plugged into the slot again.            *)

NotDevices == <<mainVars, threadVars, thread, is_running, slotVars,
                arena_mapped, room, fault, ghosts>>
Plug(i) ==
  /\ ~ plugged[i]
  /\ plugged' = [plugged EXCEPT ![i] = TRUE]
  /\ UNCHANGED <<pending, file>>
  /\ UNCHANGED NotDevices
Unplug(i) ==
  /\ plugged[i]
  /\ plugged' = [plugged EXCEPT ![i] = FALSE]
  /\ pending' = [pending EXCEPT ![i] = 0]
  /\ file' = [d \in Descriptors |-> IF file[d].slot = i
                                    THEN [file[d] EXCEPT !.dead = TRUE]
                                    ELSE file[d]]
  /\ UNCHANGED NotDevices
EventArrives(i) ==
  /\ \E d \in Open("js", i) : ~ file[d].dead
  /\ pending[i] < MaxPending
  /\ pending' = [pending EXCEPT ![i] = @ + 1]
  /\ UNCHANGED <<plugged, file>>
  /\ UNCHANGED NotDevices

Device(i) == Plug(i) \/ Unplug(i) \/ EventArrives(i)

Next ==
  /\ ~ fault
  /\ \/ Main
     \/ \E t \in Threads : Gamepad(t)
     \/ \E i \in Slots : Device(i)

(* The scheduler lets every thread go on, the main thread too once the     *)
(* window is being destroyed; nobody has to close it, and no device has to *)
(* do anything.                                                            *)
Fairness ==
  /\ \A t \in Threads : WF_vars(~ fault /\ Gamepad(t))
  /\ WF_vars(~ fault /\ (JoinNoThread \/ JoinAndClose \/ DestroyArena))

Spec == Init /\ [][Next]_vars /\ Fairness
-----------------------------------------------------------------------------
MainLabels == {"setup", "create", "create_late", "loop", "magnitudes", "upload", "play",
               "join", "destroy", "gone"}
Labels == {"none", "check", "open", "stat", "rumble", "probe", "query",
           "upload", "report", "read", "close", "disconnect", "done"}

(* Type correctness.                                                       *)
TypeOK ==
  /\ main_pc \in MainLabels /\ at \in Slots /\ seats \in 0 .. Seats
  /\ pc \in [Threads -> Labels]
  /\ event \in [Threads -> Slots \cup {0}]
  /\ candidate \in [Threads -> Descriptors \cup {-1}]
  /\ thread \in [Slots -> Threads \cup {NoThread}]
  /\ is_running \in BOOLEAN /\ is_connected \in [Slots -> BOOLEAN]
  /\ fd \in [Slots -> Descriptors \cup {-1, 0}]
  /\ ff_fd \in [Slots -> Descriptors \cup {-1, 0}]
  /\ ff_effect \in [Slots -> {"NULL", "effect"}]
  /\ arena_mapped \in BOOLEAN /\ room \in 0 .. ArenaRoom
  /\ file \in [Descriptors -> File]
  /\ plugged \in [Slots -> BOOLEAN] /\ pending \in [Slots -> 0 .. MaxPending]
  /\ fault \in BOOLEAN
  /\ reported \subseteq Slots /\ lost \subseteq Descriptors

(* When the arena is destroyed no gamepad thread is left that would read   *)
(* is_running or allocate from it.                                         *)
ThreadsEndBeforeArena ==
  ~ arena_mapped => \A t \in Threads : pc[t] \in {"none", "done"}

(* The client is told connected and disconnected in turn, for every slot,  *)
(* however devices come and go.                                            *)
ReportsAlternate ==
  [][\A t \in Threads :
       /\ ReportConnected(t) => SlotOf(t) \notin reported
       /\ Disconnect(t) => SlotOf(t) \in reported]_vars

(* A slot never has two joystick descriptors open, and none is open once   *)
(* the window is gone; except those that fstat failed on, which the code   *)
(* forgets.                                                                *)
DescriptorsClosed ==
  \A i \in Slots :
    /\ Cardinality(Open("js", i) \ lost) <= 1
    /\ main_pc = "gone" => Open("js", i) \subseteq lost

(* No thread closes a descriptor that another thread was given.            *)
ClosesOwnDevice ==
  [][/\ \A t \in Threads : CloseDevice(t) => fd[SlotOf(t)] \in Open("js", SlotOf(t))
     /\ JoinAndClose /\ is_connected[at] => fd[at] \in Open("js", at)]_vars

(* The write that plays an effect goes to an event device that the slot's  *)
(* own thread opened, or to -1, where it fails; never to a file that got   *)
(* the number, nor to what the thread of another slot opened, whatever the *)
(* slot's thread did since gamepad_set_rumble tested ff_fd.                *)
RumblePlaysOnOwnFile ==
  [][RumblePlay /\ ff_fd[at] # -1 =>
       \E i \in Slots :
         ff_fd[at] \in {d \in Open("event", i) : file[d].by = at}]_vars

(* or_destroy_window comes to an end if the devices fall silent: every     *)
(* thread sees is_running and is joined.  The inner read loop does not     *)
(* look at is_running, so a device that never falls silent keeps it.       *)
Silence == <>[][~ \E i \in Slots : EventArrives(i)]_vars
DestroyEnds == Silence => (main_pc = "join" ~> (main_pc = "gone" \/ fault))

(* A device that was pulled out is noticed while the window runs.          *)
DisconnectNoticed ==
  \A i \in Slots :
    (is_connected[i] /\ fd[i] \in Descriptors /\ file[fd[i]].dead) ~>
      (~ is_connected[i] \/ ~ is_running \/ fault)

-----------------------------------------------------------------------------
(* What the documents say and the code does not do.                        *)

(* Input subsystems "can be enabled independently" (README.md:99); the     *)
(* example of README.md ends with or_destroy_window (line 87) and passes   *)
(* no gamepad listeners (line 84).                                         *)
DestroyWithoutGamepads == ~ fault
=============================================================================
