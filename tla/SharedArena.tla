---------------------------- MODULE SharedArena ----------------------------
(***************************************************************************)
(* One arena and several threads: the application allocates and pops in    *)
(* the arena of its window (src/orarena/orarena.c) while the threads of    *)
(* the gamepads allocate an ff_effect there for each device that connects  *)
(* (setup_gamepad_rumble in src/orwindow/linux/wayland_gamepad.c).  There  *)
(* is no lock.  Arena has these calls in one step each; here they are in   *)
(* the loads and stores that the threads interleave.                       *)
(*                                                                         *)
(* The fields are plain variables, so that the build may store the two of  *)
(* them in either order, and may load used_size once or twice.             *)
(***************************************************************************)
EXTENDS Integers

CONSTANTS
  App,           (* the thread of the application                          *)
  Gamepads,      (* the threads of the gamepads                            *)
  TotalSize,     (* total_size, which nobody changes                       *)
  Alignment,     (* DEFAULT_ALIGNMENT                                      *)
  Sizes,         (* what the application asks for                          *)
  EffectSize     (* sizeof(struct ff_effect)                               *)

ASSUME SharedAssumption ==
  /\ App \notin Gamepads
  /\ TotalSize \in Nat /\ Alignment \in Nat \ {0}
  /\ Sizes \subseteq Nat \ {0} /\ EffectSize \in Nat \ {0}

Threads == {App} \cup Gamepads

VARIABLES
  used_size, previous_size,   (* of the arena                              *)
  call,          (* of each thread, which of the two it is yet to store;   *)
                 (* used_size, or previous_size for a pop, as it read it;  *)
                 (* the size it asked for, 0 for a pop                     *)
  block          (* what each thread was granted last: its ff_effect, and  *)
                 (* what the application would pop                         *)

vars == <<used_size, previous_size, call, block>>

-----------------------------------------------------------------------------
(* align_up, for any alignment.                                            *)
AlignDown(n) == n - (n % Alignment)
AlignUp(n) == n + Alignment - 1 - ((n + Alignment - 1) % Alignment)

NoCall == [to_store |-> {}, loaded |-> 0, size |-> 0]
NoBlock == [lo |-> 0, hi |-> 0]
Idle(t) == call[t] = NoCall
Begins(t, fields, value, n) ==
  /\ Idle(t)
  /\ call' = [call EXCEPT ![t] = [to_store |-> fields, loaded |-> value, size |-> n]]
  /\ UNCHANGED <<used_size, previous_size, block>>
Stored(c, field) ==
  IF c.to_store = {field} THEN NoCall ELSE [c EXCEPT !.to_store = @ \ {field}]
Stores(t, field) ==
  /\ field \in call[t].to_store
  /\ call' = [call EXCEPT ![t] = Stored(call[t], field)]

(* arena_alloc_aligned: up to the test of line 138; a request that does    *)
(* not fit leaves nothing to do.                                           *)
Fits(n) == n <= TotalSize
Request(t) == IF t = App THEN Sizes ELSE {EffectSize}
Load(t, n) ==
  /\ Fits(AlignUp(used_size) + n)
  /\ Begins(t, {"previous_size", "used_size"}, used_size, n)

(* previous_size = used_size, which is in a register or is read again.     *)
StorePrevious(t) ==
  /\ Stores(t, "previous_size")
  /\ \/ previous_size' = call[t].loaded
     \/ previous_size' = used_size /\ "used_size" \in call[t].to_store
  /\ UNCHANGED <<used_size, block>>

(* used_size is stored, by an allocation or a pop.  What was granted       *)
(* before to the thread it no longer uses.                                 *)
StoresUsed(t, value, b) ==
  /\ Stores(t, "used_size")
  /\ used_size' = value
  /\ block' = [block EXCEPT ![t] = b]
  /\ UNCHANGED previous_size
aligned_start(t) == AlignUp(call[t].loaded)
AddedSize(t) == used_size + call[t].size
new_used_size(t) == aligned_start(t) + call[t].size
StoreUsed(t) ==
  /\ call[t].size > 0
  /\ StoresUsed(t, new_used_size(t),
                [lo |-> aligned_start(t), hi |-> new_used_size(t)])

(* arena_pop of the application, a load and a store, by which it means to  *)
(* give up its last block.                                                 *)
LoadPrevious == Begins(App, {"used_size"}, previous_size, 0)
StorePopped ==
  /\ call[App].size = 0
  /\ StoresUsed(App, call[App].loaded, NoBlock)

Init ==
  /\ used_size = 0 /\ previous_size = 0
  /\ call = [t \in Threads |-> NoCall]
  /\ block = [t \in Threads |-> NoBlock]

Next ==
  \/ \E t \in Threads :
       \/ \E n \in Request(t) : Load(t, n)
       \/ StorePrevious(t)
       \/ StoreUsed(t)
  \/ LoadPrevious
  \/ StorePopped

Spec == Init /\ [][Next]_vars
-----------------------------------------------------------------------------
(* Type correctness.                                                       *)
TypeOK ==
  /\ used_size \in Nat /\ previous_size \in Nat
  /\ call \in [Threads -> [to_store : SUBSET {"previous_size", "used_size"},
                           loaded : Nat, size : Nat]]
  /\ block \in [Threads -> [lo : Nat, hi : Nat]]

(* However the calls interleave, and whatever they make of each other's    *)
(* marks, no block is granted past the end of the arena, and used_size     *)
(* does not pass it: the test of line 138 and the store of line 143 use    *)
(* the same sum.                                                           *)
GrantsInside ==
  /\ used_size <= TotalSize /\ previous_size <= TotalSize
  /\ \A t \in Threads : block[t].hi <= TotalSize

-----------------------------------------------------------------------------
(* What the documents say and the code does not do.                        *)

(* "Memory is allocated sequentially from a contiguous block, moving a     *)
(* pointer forward with each allocation" (doc/architecture.md:19): no two  *)
(* threads are granted the same bytes.  Two threads that load used_size    *)
(* before either stores it are; wayland_gamepad.c:301 has a note that the  *)
(* arena should "handle threads".                                          *)
GrantsDisjoint ==
  \A t, u \in Threads :
    t = u \/ block[t].hi <= block[u].lo \/ block[u].hi <= block[t].lo
=============================================================================
