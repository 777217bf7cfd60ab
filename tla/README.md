# A verification of ortilib

ortilib is a small C library for Linux with two parts: `orarena`, a bump
allocator with sub-arenas over `mmap`, and `orwindow`, a Wayland window with
bitmap drawing, keyboard, pointer and gamepads.  This directory holds TLA+
modules that model it, the configurations with which TLC checks them on small
instances, and theorems about every part that TLAPS proves for all instances.
Paths below are relative to the repository.

    tlc -config MCArena.cfg MCArena.tla      check a run
    tlapm ArenaProofs.tla                    check the proofs

`PROJECT.json` is the index: components, runs, mutants (for each property a
plausible slip in the code under which the property fails), the source lines
that each definition models, the hazards, the findings and the theorems.

## The system

| Component | State | Operations | Where it is modelled |
|---|---|---|---|
| Arena allocator, `src/orarena/orarena.c` | `struct ORArena`: total, used and previous size, parent, memory | create, alloc, alloc aligned, pop, reset, create and destroy sub-arenas, destroy | `Allocator` (what it promises), `Arena`, and with threads `SharedArena` |
| Virtual memory, `src/orarena/linux/valloc_internal.c` | the mappings | `virtual_alloc`, `virtual_shared_alloc`, `virtual_free` | `ArenaMapping` |
| Window API and lifecycle, `src/orwindow/orwindow.c`, `linux/orwindow_internal.c` | the client struct, the bitmap, the window's arena | create, set up, main loop, toggle fullscreen, destroy | `Window` |
| Wayland client, `linux/wayland_client.c` | connection, registry, surface, buffer, pixels, frame callback | connect, resize, draw, frame callback, free | `Window` (registry globals: only what setup needs of them), `ShmName`, and the seat in `Input` |
| libdecor decoration, `linux/wayland_decorator.c` | `is_open`, `is_fullscreen`, the frame | configure, close, commit, toggle | `Window` (layout of the decoration is left out) |
| Gamepad threads and rumble, `linux/wayland_gamepad.c` | `gamepads[]`, `gamepad_threads[]`, descriptors | start, poll, connect, disconnect, look for a rumble device, rumble, join | `GamepadThreads` |
| Gamepad events, `linux/wayland_gamepad.c` | flags of the d-pad | buttons, d-pad, triggers, sticks | `GamepadEvents` |
| Keyboard, `linux/wayland_keyboard.c` | key map, modifiers | key, modifiers, enter, leave | `Keyboard`, in `Input` |
| Pointer, `linux/wayland_pointer.c` | button map | enter, leave, motion, button, axis | `Pointer`, in `Input` (axis changes nothing) |
| Tests, CMake files, example | – | – | not modelled; read for what they promise |

How they interact.  `or_create_window` takes memory for the bitmap and the
client from an arena of its own; `or_surface_setup` connects, and the registry
callback for each `wl_seat` sets up the input subsystems whose listeners were
passed, among them one thread per gamepad slot.  The main loop dispatches the
compositor's events: libdecor's configure makes and replaces the pixels, the
frame callback draws, close clears `is_open`.  Gamepad threads read
`is_running` from the client (which lies in the arena), allocate from that
arena, call the gamepad listeners from their own thread, and share
`gamepads[]` with `gamepad_set_rumble` of the main thread.
`or_destroy_window` clears `is_running`, joins the threads, and destroys the
arena.  `PROJECT.json` lists the hazards line by line.

What is hard here:

- the allocator's fields are one level of undo and an account of everything
  that was granted, and clients reset, pop and destroy in orders nobody wrote
  a test for;
- two ways of rounding (length of the mapping, start of the memory), and
  sums of `size_t` that may wrap;
- the gamepad threads and the application allocate from one arena, without a
  lock;
- every program uses one name in `/dev/shm`, and may die before it has removed
  it;
- the keyboard's and pointer's handlers are told of events in the window only:
  keys and buttons change elsewhere, and static variables outlive the window;
- gamepad threads, the main thread and the devices interleave with no lock:
  descriptor numbers that are reused, a rumble in two steps, the end of the
  window while a device is connecting;
- a resize replaces memory and buffer in a handler that does not render, and
  relies on a frame callback to come;
- failures half way: `MAP_FAILED` taken for memory, error paths that join
  threads that do not exist;
- the d-pad, an axis, is turned into presses and releases with a flag that
  says what zero means.

What makes each part correct:

- allocator: no byte is granted twice, what is granted is accounted for, an
  operation takes only what it may take;
- mapping: what the client has is mapped, and no other page is taken; that none is
  lost is what the code does not keep;
- allocator with threads: grants stay inside the arena; that no two threads are
  granted the same bytes is what the code does not keep;
- shared memory: no two programs have the same file, and a name that is left
  behind keeps nobody out;
- keyboard and pointer: after enter the client can know what is down and where
  the pointer is;
- window: what is drawn is mapped memory, and what the compositor is given is
  what was drawn; frames do not stop; closing ends the loop; memory does not pile
  up;
- gamepad threads: they end before their memory goes, close their own
  descriptors, rumble on their own device files, report connections in turn, and
  destroy ends;
- gamepad events: presses and releases alternate and say in the end what the
  device is doing.

## The modules

### Arena

The five fields of `struct ORArena` are five functions on arenas; an address
is an offset from the start of the root's mapping.  One action per function of
`orarena.h`, with the refusals as actions of their own (`AllocFails`,
`SubArenaCreateFails`).  `size_t` arithmetic is modulo `SizeModulus`, and
`AlignUp` is the bit mask, a remainder as alignments are powers of two.
Ghosts: `live` (arenas whose pointer the client may use), `blocks` (memory it
holds), `fresh` (where memory was never written, hence zero), `touched`.
What a reset, pop or destroy makes the client give up leaves `blocks` and
`live`; the code's fields change as in the code and no more.

`previous_size` of a new sub-arena is not assigned by `sub_arena_create`
(line 175): it is any value of `Residue` where the memory was used before, and
zero where not.  The client of `arena` pops an arena only after a first
allocation in it (`PopBeforeAlloc = FALSE`); there is no last allocation to
revert before.

`Allocator` is the abstract specification: arenas are spaces of addresses, a
block is granted where no other block is, a pop gives up the last one, a reset
and a destroy what lies inside.  It knows no `used_size`, no `previous_size`,
no alignment and no header.  `Arena` implements it: `Space` (the memory of each
live arena) is its space, `blocks` what is held, and `KeepsPromise` is its
specification under that mapping.  Actions have no labels there: a pop that
took a sub-arena with it would pass for a destroy, and it is
`PopRevertsLastGrant` that forbids it.

### SharedArena

`arena_alloc_aligned` and `arena_pop` in the loads and stores that the
application and the gamepad threads interleave when they share the arena of
the window.  `to_store` says which of the two fields a call is yet to store,
in either order (the build may swap them); `previous_size` may be stored from
the register or from a second load.  The sum that is tested and the one that
is stored are taken to come from one load of `used_size`, and loads and stores
to be indivisible.  Sums do not wrap here (`Arena` has that).  `block` is what
each thread was granted last: the `ff_effect` of a gamepad, and what the
application would pop.  That is all it takes to see two threads with the same
bytes (`GrantsDisjoint`); what earlier grants become is not followed.

### ArenaMapping

Several root arenas in an address space of pages, with the kernel's table of
which page belongs to whom (`owner`; `Leaked` is a page that is mapped and that
nobody knows).  `MappedLength` is what is asked of `mmap`, `memory` where the
arena's memory starts (`MemoryOffset`, rounded up behind the struct, by
`Padding`), `FreedLength` what is passed to `munmap`.  `mmap` may fail at any
time, `munmap` too.  `Debug` is `OR_DEBUG_MEMORY`.

### GamepadThreads

A process per thread: labels of `single_gamepad_thread` and the functions it
calls, and of the main thread in `setup_gamepad`, `gamepad_set_rumble` and
`cleanup_gamepads`.  A step ends where another thread could see or change what
the next step uses: before and after `open`, `fstat`, the probe, `EVIOCSFF`,
the listener, `read`, `close`, and, in the main thread, between the test of
`ff_fd`, the magnitudes, `EVIOCSFF` and `write`.  A seat may be announced in the
setup or later, from the loop (`create_late`).

`setup_gamepad_rumble` goes through the event devices in their order (`event` is
the one it is at, `candidate` its descriptor): each is opened, asked what it can
do, and closed if that fails or is not force feedback (`NoForceFeedback`); else an
effect is allocated and uploaded (`AllocEffect`, `UploadEffect`, `UploadFails`).
The descriptors of devices that are only looked at take numbers from other
threads for that time.  The 32 event devices are those of the slots; the other
ones could only be opened and closed in the same way.

`file` is what each descriptor refers to and which slot's thread opened it (`by`),
`open` returns the lowest free one, and a descriptor of a device that was pulled
out is dead for ever.  Loads and stores are taken to be atomic and in program
order; `is_running` and `gamepads[]` are plain variables in the code.  That
threads see `is_running` change is thus an assumption of the model; between the
read of one iteration and the next there are system calls.

`SameMajor` is the test of `wayland_gamepad.c:277`; it compares major numbers,
which all input devices share, so it is true of any two.

### GamepadEvents

One slot: the device with its buttons and axes, the kernel's queue, and the
handler of each type of event.  The client is modelled by what it was told
(`pressed`, `motion`).  `Conditions` switches on what devices and the kernel
may do beyond the ordinary: the d-pad flips from side to side between two
reports, the queue overflows, the device is unplugged.  When it is, the client
forgets what it was told of it.

### Window

The calls of the application in the order the README of the repository shows,
and the dispatch loop with the compositor's events in any order, several
between two looks at `is_open`.  A block of shared memory, its mapping and its
pool are one name; `or_bitmap_reset` is modelled to the width of `uint16_t`
and `int` (`Word` and its square), and takes the sizes that libdecor configures
(`ContentSizes`, of type `int`) into the first.  `MayFail` selects the calls that
may fail; what libdecor and the compositor answer is nondeterministic.  The
pixels remain mapped when a window is destroyed, as in the code.

`frame` is the frame callback: requested by `wl_surface_frame`, armed by the next
commit.  `acked` is whether the last configure was acknowledged, which
`commit_frame` does after the first render, and not at all where the handler
returns early (line 52) or libdecor makes no state.  A buffer that the compositor
cannot accept, or a pool of no descriptor, is a protocol error, and the program
learns of it some events later: `condemned` is set when the request is sent,
from then on the compositor does nothing for the window, events that were sent
before are still handled, and `ConnectionLost` ends it.

### ShmName

The first calls of `inter_wl_window_resize` in several programs, a system call
a step, with the death of a program between any two of them.  `CreateExclusively`
is `O_CREAT | O_EXCL`; `Unlink` is called whether `shm_open` succeeded or not,
and removes whoever's name it is.  That call, which looks like an oversight, is
what keeps a left-over name from blocking the next program for ever
(`FailsOncePerName`), and because it only removes names it hurts no program
that has its file open (`FilesPrivate`).

### Keyboard, Pointer, Input

`Keyboard` and `Pointer` hold what the compositor knows (keys and buttons that
are down, keys whose modifier is latched or locked, focus, position), what the
handlers keep (`active_mods`), and what the client was told.  An event and its handler are one step: the handlers send
nothing back and events come in order, so that a queue between them would only
delay.  `Input` composes the two in the life of the program: a window is opened,
its seat is announced (at once or later), it is closed, and another is opened.

The client of the model forgets what is pressed when its window is entered; that
is the only way to get it right, as `keyboard_enter` ignores the list of pressed
keys that the compositor sends.  `keys_astray` and `buttons_astray` are what even
that client cannot know: what was down on enter, until its next event, and what
a key or button past the end of the map was taken for.  A button whose number
is far past the end may also end the process (`crashed`).

`keys_locked` changes with any key as the keymap likes, among `StickyKeys`.
`keyboard_modifiers` is told of the depressed, the latched and the locked
modifiers and takes the depressed ones: what the client is told is in force is
less than what is (`ModsInForce`, among the differences below).

## The runs

Runs that pass:

| Run | Question | Bounds |
|---|---|---|
| `arena` | Is any byte granted twice, is what is granted accounted for and aligned, what do pop and destroy take; does it keep the promise of `Allocator`? | a root of 29 units and two sub-arenas, side by side or nested; a unit is 4 bytes, so that struct, word and `MAX_ALIGNMENT` are 10, 2, 4; alignments up to one that is refused |
| `mapping` | Is what the client has mapped, and does destroy take other pages? | three arenas, five pages of 8 units of 8 bytes; sizes on both sides of every rounding |
| `gamepads` | Do threads end before the arena, are descriptors closed by those who own them, do reports alternate, where does rumble go? | two slots, three descriptors, room for one `ff_effect`; one `fstat` may fail; the seat is announced at once, late or never; devices queue no events |
| `gamepads_live` | Does `or_destroy_window` end, is a device that was pulled out noticed? | two slots, two descriptors, one event in each queue; the display, the seat and `pthread_create` may fail |
| `events` | Does the client know in the end what the gamepad is doing; do presses and releases alternate; can every side of the d-pad be released? | a button that is not in the map, a stick and a trigger of three positions, both axes of the d-pad, a queue of two that may overflow, flips, unplugging |
| `input` | Does the client know which keys and buttons are down, and where the pointer is? | two windows; a shift key that may be latched, one without a name and one past `key_map`, whose modifier does not fit in a byte; three buttons in the same way; four positions on, between and beside two pixels |
| `shm_name` | Can programs get at each other's pixels; what does a name that was left behind do? | four programs, five files: one for each and one that was left behind |
| `shared_arena` | Do grants stay inside the arena when threads allocate without a lock? | the application and two gamepads, an arena of nine units |
| `window` | Is what is drawn mapped, and what the compositor is given; does the frame chain hold; does closing end the loop? | two windows, two blocks of shared memory; three sizes to create one with, one so wide that its stride wraps to zero; four that are configured, of which one becomes smaller and one has no pixels left in `uint16_t`; every call may fail, and a protocol error is noticed at any later time |

Why these are enough.  The allocator's cases depend on the order of marks and
of alignments, and a root of 29 units has room for both sub-arenas (nested or
not) with blocks before, in and after them; the theorems remove the bounds for
the core of it.  Two slots make a second thread whose descriptor may reuse a
number; more slots repeat that.  Three descriptors let `open` fail, and let a
number go from one device to another.  What is queued matters to liveness only,
so `gamepads` leaves it out; one pending event per device is enough for the inner
loop to go round, as events are not told apart there; `GamepadEvents` tells them
apart.  A queue of two has the states empty, partly
full and full.  A window's behaviour depends on the memory before and after a
resize: two sizes give that, and a second window gives every setup with
leftovers of the first, which has one of the two blocks; a third would never be
used (`ResizeKeepsOneMapping`).  In `SharedArena` a third thread is what may come
between the load and the store of one call and its end; nine units hold two or
three blocks with and without a gap.  In `ShmName` one program may be dead, one
between its calls, and two race for the name.  Every property of these runs but
the four of liveness has a theorem without these bounds (below; where a run
does not list `TypeOK` there is only the theorem of the types).

What some of the properties say in particular:

- `DrawsMappedMemory` does not say that the process never dies: it says that
  in the loop it dies of one thing only, memory that `mmap` refused.
- `ShowsWhatIsDrawn` is about the moment when the compositor is given another
  buffer: it is the one of the memory that `draw` has just filled.  After a resize
  that did not return `OR_NO_ERROR` (ghost `resized`) the bitmap is new and the
  buffer old; the next one that succeeds must mend it.  A `MAP_FAILED` counts as
  success in the code, but `draw` does not survive it.
- `FrameChainUnbroken` says that a callback is armed also when `NULL` was
  attached; whether the compositor answers it without content is up to it.
- `ResizeShown` leaves out the window whose buffer could not be made: there is
  nothing to show.
- `AgreesWhenQuiet` and `PressesAlternate` hold as long as nothing happens that
  the d-pad's two flags do not cope with (ghost `undisturbed`): a flip from
  side to side, a lost event, a device unplugged with a flag set, an axis past
  the d-pad.  `ReleasableSides` holds in any case.
- `RumblePlaysOnOwnFile` says whose file it is, not which device: a thread may
  open the event device of another gamepad (`SameMajor`).
- `DescriptorsClosed` leaves out what a failed `fstat` forgets (ghost `lost`), and
  says that nothing else is forgotten on that account.
- `GrantsInside`: a race may grant bytes twice, but never bytes past the end.
- `MappedUpToPadding` is what the code guarantees of a mapping: all but the
  padding between the struct and the memory.

Runs that end in a violation, each of one sentence of the documents, a comment
or an API promise; the finding in `PROJECT.json` quotes it:

| Run | What happens |
|---|---|
| `mapping_leak` | an arena is destroyed, and a page of it stays mapped (orarena.h:52 says that all is freed): `munmap` is passed the size without the struct |
| `gamepads_none` | a window without gamepads joins threads that do not exist (README.md:84 of the repository shows such a window) |
| `shared_overlap` | two threads load `used_size` before either stores it, and are granted the same bytes (doc/architecture.md:19 says that each allocation moves the pointer forward; the note of wayland_gamepad.c:301 is about this) |

`CHECK_DEADLOCK FALSE` stands where the system may stop: the process has died
(`fault`, `crashed`) or ended (the window is gone, no window may be created any more, an
address space is used up).  `Arena`, `SharedArena`, `ShmName` and `GamepadEvents` are checked for
deadlock.

### Other differences from the documents

Met while modelling; the models contain the behaviour, no run is spent on it.
Where a sentence of the documents is quoted, a definition at the end of the
module states it, and TLC refutes it under the cfg of the passing run.

- A reset goes through although a sub-arena is in use
  (`ResetSparesSubArenas` in `Arena`; doc/architecture.md:67 says it cannot).
- `arena_alloc_aligned` aligns the offset in the arena (`orarena.c:135`); the
  memory of a sub-arena follows a header of 40 bytes, so that there an
  alignment of 16 is not kept.  `BlocksAligned` says what is.
- `arena_reset` does not clear `previous_size` (line 161): a pop after it
  raises `used_size`.
- `sub_arena_create` does not set `previous_size` (line 175): a pop of a new
  sub-arena takes `used_size` from old memory.  With `PopBeforeAlloc = TRUE`
  and 20 in `Residue` TLC finds `BlocksAccounted` violated in `Arena`.
- A request near `SIZE_MAX` wraps and is granted (line 136).  With 127 in
  `BlockSizes` TLC finds `BlocksAccounted` violated in `Arena`.
- The mapping of an arena has `initial_size + 40` bytes rounded up to 16, and
  the memory begins at offset 48 (line 81): up to 8 bytes at its end are not
  mapped when the sum ends near a page (`AllMemoryMapped`; orarena.h:35).
  `MappedUpToPadding` says what is.
- A failed `mmap` is written through: `MAP_FAILED` is not NULL
  (`orarena.c:90`, `wayland_client.c:188`).
- With `OR_DEBUG_MEMORY` `arena_destroy` reads the struct that it unmapped
  (line 125; `Debug = TRUE` in `ArenaMapping`).
- Without a display the error path of `or_surface_setup` joins threads that do
  not exist (`wayland_client.c:226`), as in `gamepads_none`.
- With two seats two threads poll each slot, and the handle of the first is lost
  (`wayland_client.c:52`): with `Seats = 2` TLC finds `ReportsAlternate`,
  `ThreadsEndBeforeArena`, `DescriptorsClosed`, `ClosesOwnDevice` and
  `RumblePlaysOnOwnFile` violated in `GamepadThreads`.
- Each reconnection takes another `ff_effect` from the arena; when it is full
  NULL is written through (`wayland_gamepad.c:294`).
- When `fstat` fails the joystick's descriptor is forgotten, and the next poll opens
  another (`wayland_gamepad.c:320`; ghost `lost`).
- With two gamepads the rumble of one may go to the other's device: the test of
  `wayland_gamepad.c:277` compares major numbers ("Check if event device id
  matches joystick device id", line 270).
- A device that is unplugged with the d-pad pressed leaves its flag to the next
  one, whose first release is then reported of the wrong side
  (`wayland_gamepad.c:133`, and 223, where the flags are not reset).
- A d-pad that flips, and a queue that overflows, leave buttons pressed
  (`wayland_gamepad.c:128` and `213`).
- A press calls `button_release` if there is no `button_press`
  (`wayland_gamepad.c:92`); buttons 11 to 14 are in the map and never looked up
  (line 107).
- `inter_create_window` returns `OR_NO_ERROR` with no client, which is then
  read through (`orwindow_internal.c:27` and `35`).
- The close listener is never called (`wayland_decorator.c:68`).
- A toggle after the desktop changed the fullscreen state asks for what is
  there (`wayland_decorator.c:81`).
- Keys held when the focus leaves are never released; a client that does not
  forget them on enter, as that of `orwindow_test.c`, takes them for pressed.
- enter and leave of the window come from the keyboard (`wayland_keyboard.c:112`):
  without keyboard listeners they never come.
- Key codes from 255 on and buttons outside of 271 to 290 index past the end of
  their maps (`wayland_keyboard.c:130`, `wayland_pointer.c:58`).
- Coordinates beside the surface, in a drag, wrap in 16 bits
  (`wayland_pointer.c:41`).
- The vertical wheel calls `scroll_x`, the horizontal one `scroll_y`, and
  fractions of a step are lost (`wayland_pointer.c:71` to 75).
- With two seats the modifiers of one go with the keys of the other
  (`wayland_keyboard.c:13`).
- The name of the window is copied into `strlen` bytes, with no room for the
  terminator (`wayland_client.c:164`).
- The stride and the size in bytes wrap for wide and huge windows
  (`orwindow.c:21` and `22`; `RowsAndBytes` in `Window` has the promise of
  doc/architecture.md:212).
- Where the pool or the buffer cannot be made, the descriptor of the shared memory
  stays open, and the bitmap has new memory that no buffer shows
  (`wayland_client.c:196` to 207).
- Latched and locked modifiers do not reach the client
  (`wayland_keyboard.c:141`; `ModsInForce` in `Input`, orwindow_keyboard.h:122).

## Fairness

`Arena`, `SharedArena`, `ArenaMapping`, `ShmName`, `Input` and `GamepadEvents`
have no liveness and assume none.

`GamepadThreads`: weak fairness of each gamepad thread (the operating system
schedules a thread that can run), and of the main thread while it joins and
destroys.  Nothing is assumed of the main thread before that (the loop may run
for ever) or of devices.  `DestroyEnds` is stated under `Silence`, that devices
queue no more events from some point on: the inner read loop does not test
`is_running`, and a device that always has another event would keep it for
ever.  `DisconnectNoticed` needs no such premise, as a dead descriptor has no
events.

`Window`: weak fairness of `EndDrawing`, as `inter_wl_start_drawing` comes back
to its test after every dispatch, and of `NewFrame`, an assumption on the
compositor: it answers a frame callback of a surface that it shows.  A
compositor that hides the window may withhold it, and then a resize is not
shown until it does.  And of `ConnectionLost` once there was a protocol error:
the compositor ends such a connection, which is not left open for ever.

## The proofs

Each `...Proofs` module holds the theorems of the module it is named after.
They have one form: an inductive invariant `IInv`, a conjunction of named parts
that contains the invariants to be shown; `Init => IInv`; a lemma for each action
or for each part of the invariant; `Invariance`, `Spec => []IInv`; and from it
the properties of the runs.  The hypotheses of a theorem are the assumptions on
the constants, those of the modelled code (`...Assumption`) and the ones named
below.  The MC modules of the modules that assume something more extend the
`...Proofs` module, so that TLC evaluates what they assume in every run.

### ArenaProofs

For every number of sub-arenas nested to any depth and for all sizes and
alignments:

- `TypeCorrect`: `Spec => []TypeOK`;
- `NoOverlap`: `Spec => []BlocksDisjoint`;
- `Accounting`: `Spec => []BlocksAccounted`;
- `PopReverts`: `Spec => PopRevertsLastGrant`;
- `Alignment`: `Spec => []BlocksAligned`;
- `Implements`: `Spec => KeepsPromise`, the refinement of `Allocator`;
- `DestroySpares`: `Spec => DestroySparesSiblings`;
- `PromiseIsEnough` and `HoldsOnce`: what `Allocator` promises is enough, and so
  `Spec => []Promise!NoByteTwice`.

Assumptions: `SmallRequests`, that the sizes the code adds up stay below the
range of `size_t`, and `PopAfterAlloc`, that an arena is popped only after
something was allocated in it.  The code checks neither, and without either
the theorems are false (see the differences above: a pop of a new sub-arena, a request near
`SIZE_MAX`).
For `Alignment` also `HeaderAligned` (the 40 bytes of the struct are a multiple
of `DEFAULT_ALIGNMENT`) and `AlignmentsDivide` (of two powers of two the smaller
divides the larger: it follows from `AlignmentAssumption`, but by an induction
that is out of the prover's reach).

Why `BlocksDisjoint` is not inductive: disjoint blocks say nothing of where
the next one goes.  The allocator only knows `used_size`, so one needs that
all that is held in an arena lies below it, seen from that arena.  Blocks of a
sub-arena lie inside a block of the parent, so "seen from" has three cases
(`Separated`): a block lies outside an arena with its header, encloses it, or
is in the used part of its memory.  A sub-arena is tied to the block it was
carved from (`SubArenasHeld`).  A pop returns to `previous_size`, so above that mark
there is at most one block, of that arena, and no sub-arena (`PopSafe`); this
is where `sub_arena_create` moving its parent's mark is needed.  The root
encloses everything (`Rooted`).  `GrantBounds` is the arithmetic (a request
that fits is granted past `used_size` and within `total_size`),
`NewBlockDisjoint` and `NewBlockElsewhere` the geometry of a new block seen
from each arena, `ForgetKeeps` and `RemovalIInv` what pop, reset and destroy
have in common; then there is one lemma per action.

`Alignment` needs the alignment of the memory itself (`MemoryAligned`): that of
the root starts at a multiple of `MAX_ALIGNMENT`, that of a sub-arena a header
past a block that is aligned by default, and so at a multiple of
`DEFAULT_ALIGNMENT` and no more.  `AlignUpAligns` is the bit mask, and
`DividesSum` and `DividesMultiple` carry a divisor through sums and multiples.

`Implements` has one lemma per action.  That a fresh block is granted as
promised (`FreshIsGranted`) is `Separated` seen from the arena, and that a
forgotten range is given up with its sub-arenas (`ForgetGivesUp`) is
`SubArenasHeld`.  `DestroySpares`: the blocks of one arena are granted in ascending
order; this is proved of the abstract steps (`InOrderKept`) and carried over by
the refinement.  `PromiseIsEnough` is proved of the abstract steps alone, under
the mapping: blocks that are held share no byte, but for those in a sub-arena.
Its invariant adds that each sub-arena has one block, which lives as long as it
does.

### GamepadThreadsProofs

For any number of slots, descriptors and events, whatever fails:

- `TypeCorrect`: `Spec => []TypeOK`;
- `EndBeforeArena`: `Spec => []ThreadsEndBeforeArena`;
- `InTurn`: `Spec => ReportsAlternate`;
- `OneDevice`: `Spec => []DescriptorsClosed`;
- `OwnDevice`: `Spec => ClosesOwnDevice`;
- `PlaysOnOwnFile`: `Spec => RumblePlaysOnOwnFile`.

Assumed, in `OneSeat`, is one seat; with two TLC finds each of these properties but
the types violated (see the differences).  Descriptor zero is like any other: `fd` and `ff_fd` of the static array
start with it, but what tells that they mean something is `is_connected` and
`ff_effect`, also where standard input was closed and a device is given zero.

The invariant relates the step a thread is at to what the rest of the program
has.  `Started` ties a slot to its one thread, which `setup_gamepad` has not
started while its loop has not come to the slot.  `Joined`: the loop of
`cleanup_gamepads` leaves behind threads that have ended, with their device
closed.  `Reporting`: what the client was told, step by step, which is
`is_connected` but between connect and report, and between close and
disconnect.  `DevicesHeld`: the joystick that is open for a slot is the one in
its `fd`, from `open` to `close`; since other threads open and close in between,
it needs that every open joystick of a slot is in `fd` or `lost`, the ghost for
those that a failed `fstat` forgets, and that these stay open (`LostAreOpen`).
`EffectsHeld`: an event device
that a thread opened is its `candidate`, and then in the `ff_fd` of its own slot,
where it is never closed; an `ff_fd` is -1 while its thread looks for a device, and
otherwise, where `ff_effect` is not `NULL`, an event device that this thread
opened (`Plays`).  This is why a rumble in several steps does not meet a number
that was given to another file, or to the thread of another slot.  `LowestIsIn` (what
`open` returns is a free descriptor) takes the well-foundedness of finite sets.

### WindowProofs

For any sizes and width of an integer, any number of windows, and whatever
fails; nothing more is assumed:

- `TypeCorrect`: `Spec => []TypeOK`;
- `DrawsMapped`: `Spec => []DrawsMappedMemory`;
- `OneMappingEach`: `Spec => []ResizeKeepsOneMapping`;
- `ChainUnbroken`: `Spec => []FrameChainUnbroken`;
- `ShowsDrawn`: `Spec => ShowsWhatIsDrawn`.

`ResizeKeepsOneMapping` counts, and a count is not kept by a resize unless the
memory of this window is the one that is given up: `MapsOne` adds that while the
window has none, less blocks are mapped than there were windows.  `NothingYet`:
before the first configure there is no memory, no buffer, nothing attached.
`FrameKept`: a frame is requested before
the loop, and armed in it.  `NextBuffer`: between two events `buffer` is that of the
bitmap, unless the last resize told that it is not; the step in which the
compositor is given a buffer then adds that `draw` had mapped memory, as a step in
which it had not attaches nothing.  `ResizeKeeps` is
`inter_wl_window_resize` with its failures, for the first configure and
for the later ones.

### GamepadEventsProofs

For any set of buttons and axes, any range of values and a queue of any length:

- `TypeCorrect`: `Spec => []TypeOK`;
- `SidesReleasable`: `Spec => []ReleasableSides`;
- `KnowsWhenQuiet`: `Spec => []AgreesWhenQuiet`;
- `ReportsInTurn`: `Spec => PressesAlternate`.

Assumed, in `HearsAll`, is a client that listens to everything.

`AgreesWhenQuiet` speaks of an empty queue, and the invariant must say what a
queue with events in it means.  A button or an axis of the d-pad is a channel,
and its events in the queue lead (`Leads`) from what the client was told to what
the device has: the last one tells what is (`Latest`), zero and not zero come in
turn, beginning with what the client was told (`InTurn`), and where there are no
events the client was told what is.  Turns are what the two flags of the d-pad
rely on: zero after a side releases that side (`FlagsTell`), and a side after
zero presses.  A flip has no zero in between, a queue that overflows drops some:
`Undisturbed` is claimed as long as neither happened.  Of sticks and triggers,
which send what they like, only `Latest` holds (`MotionLeads`).  `LeadsAppended` and
`LeadsTaken` are what an event that is queued and one that is handled do to a
channel; `SideTold` is the table of `gamepad_dpad`.

### The other modules

`ArenaMappingProofs` proves, for any number and sizes of arenas and pages,
`MappedUpToPadding` (`Mapped`), `DestroySparesOthers` (`SparesOthers`) and the
types.  The invariant says that an arena
that the client has owns exactly the pages of its mapping (`PagesMapped`); the
rest is the arithmetic of rounding (`Lengths`): `munmap` of `total_size` never
covers more pages than the mapping has.

`SharedArenaProofs` proves `GrantsInside` (`Inside`) and the types for any number
of threads, sizes and any alignment: what a call carries between its load and
its stores must fit (`CallsInside`), whatever the others stored since.

`ShmNameProofs` proves `FilesPrivate`, `NameIsTransient` and `FailsOncePerName`
for any number of programs and files; the invariant adds that a program whose
`shm_open` failed has its `shm_unlink` yet to come (`FailedUnlinks`).

`InputProofs` proves `KeysAgree`, `ButtonsAgree` and `PixelTold` for
any keyboard, pointer, surface and whatever lies past the end of the maps; their
conjunction is inductive.  Then the types: `active_mods` stays in its eight bits
and a coordinate in its sixteen.  Assumed, in `HearsAll`, is a client that listens
to presses, releases, enter and motion (who does not hear of them cannot know),
and, in `ModsType`, that the modifiers of a set of keys add up to a number, the
range of a recursive sum.

### Only model-checked

Liveness (`DestroyEnds`, `DisconnectNoticed`, `ResizeShown`, `CloseEndsLoop`) stays
with TLC: liveness under fairness is out of the prover's reach.  So do two facts
that are inductions over data, which the proofs assume and TLC evaluates on the
constants of the runs: `AlignmentsDivide` and `ModsType`.

## Plan

Done, in this order: `Arena` and its proofs, `ArenaMapping`, `GamepadThreads`,
`GamepadEvents`, `Window`; the proofs of `ArenaMapping`; then `Allocator` with the
refinement, `SharedArena`, `ShmName`, `Keyboard`, `Pointer` and `Input`, with their
proofs; then the proofs of `GamepadThreads`, `Window` and `GamepadEvents`, the
alignment, and the types of `Input`.  Next:

1. Proofs: an abstract specification of a gamepad slot (connected and
   disconnected in turn, presses in between) that `GamepadEvents` implements, and
   one of the shared arena (grants inside, taken back by their owner).
2. `GamepadThreads` with a second life of the window: `ff_fd` and `ff_effect`
   outlive the arena; rumble asked for by a gamepad listener, on the thread.
3. `Input` with two seats, which share the maps and the modifiers.

## Not modelled

- The pointer's scroll axes and the listener of the keymap: they only call the
  client.
- `gamepad_set_rumble` called by a gamepad listener, and so on the thread of the
  slot, as `orwindow_test.c:139` does: in `GamepadThreads` the main thread is the
  only one to call it.
- The contents of memory, except the word of `previous_size` that is read
  before it is written: no property here is about contents.
- Wayland's protocol beyond the requests the client makes, decoration layout,
  key symbols: code of the compositor, libdecor and xkbcommon.  What they may
  answer is nondeterministic.
- The C memory model: loads and stores in `GamepadThreads` are sequentially
  consistent; `SharedArena` allows the order of the two stores to be swapped, and
  no more.
- Arenas of `arena_create_shared` seen from a forked process: nothing in the
  repository forks.
- Tests, CMake files and the example.
