------------------------------- MODULE Arena -------------------------------
(***************************************************************************)
(* The bump allocator of src/orarena/orarena.c: the root arena of one      *)
(* mapping and the sub-arenas carved out of it, nested to any depth.       *)
(*                                                                         *)
(* An address is an offset from the start of the mapping, where the root's *)
(* struct ORArena lies.  The five fields of the struct are the variables   *)
(* total_size .. memory.  The other variables are ghosts: `live' holds the *)
(* arenas whose pointer the client may still use, `blocks' the memory it   *)
(* has been granted and not yet given up, `fresh' the address from which   *)
(* on nothing was written since the mapping was made, `touched' the arenas *)
(* that have granted something since they were created.                    *)
(*                                                                         *)
(* How the mapping itself is obtained and returned is in ArenaMapping.     *)
(***************************************************************************)
EXTENDS Integers, FiniteSets

CONSTANTS
  Root,              (* the arena made by arena_create                     *)
  SubArenas,         (* the arenas made by sub_arena_create                *)
  NoArena,           (* NULL                                               *)
  WordSize,          (* sizeof(size_t), which is also sizeof(void * )      *)
  DefaultAlignment,
  MaxAlignment,
  SizeModulus,       (* 2^w, w the width of size_t                         *)
  ArenaSizes,        (* sizes passed to arena_create                       *)
  SubArenaSizes,     (* sizes passed to sub_arena_create                   *)
  BlockSizes,        (* sizes passed to arena_alloc(_aligned)              *)
  Alignments,        (* alignments passed to arena_alloc_aligned           *)
  Residue,           (* values a word of memory used before may hold       *)
  PopBeforeAlloc     (* may the client pop an arena it never used?         *)

Arenas == {Root} \cup SubArenas

(* The alignment of arena_alloc_aligned "must be power of 2"               *)
(* (include/orarena/orarena.h:74), which makes its bit mask a remainder.   *)
IsPowerOfTwo(n) == \E k \in 0 .. n : 2 ^ k = n

ASSUME ArenaAssumption ==
  /\ Root \notin SubArenas
  /\ NoArena \notin Arenas
  /\ WordSize \in Nat \ {0}
  /\ DefaultAlignment \in Nat \ {0}
  /\ MaxAlignment \in Nat \ {0}
  /\ DefaultAlignment <= MaxAlignment
  /\ SizeModulus \in Nat \ {0}
  /\ ArenaSizes \subseteq 0 .. SizeModulus - 1
  /\ SubArenaSizes \subseteq 0 .. SizeModulus - 1
  /\ BlockSizes \subseteq 0 .. SizeModulus - 1
  /\ Alignments \subseteq Nat \ {0}
  /\ Residue \subseteq 0 .. SizeModulus - 1
  /\ PopBeforeAlloc \in BOOLEAN

ASSUME AlignmentAssumption ==
  \A a \in Alignments \cup {DefaultAlignment, MaxAlignment, SizeModulus} :
    IsPowerOfTwo(a)

VARIABLES
  total_size, used_size, previous_size, parent, memory,  (* struct ORArena *)
  live, blocks, fresh, touched                           (* ghosts         *)

vars == <<total_size, used_size, previous_size, parent, memory,
          live, blocks, fresh, touched>>

-----------------------------------------------------------------------------
(* sizeof(struct ORArena), five words, and where previous_size lies in it. *)
HeaderSize == 5 * WordSize
PreviousSizeField(header) == header + 2 * WordSize

(* align_up, and two ways to get it wrong: the mask without the addition,   *)
(* and no mask.                                                            *)
AlignDown(size, alignment) == size - (size % alignment)
AlignNothing(size, alignment) == size
AlignUp(size, alignment) ==
  LET n == (size + alignment - 1) % SizeModulus IN n - (n % alignment)

(* aligned_start and new_used_size of arena_alloc_aligned, and its two     *)
(* refusals (UncheckedFit forgets the second).                             *)
AlignedStart(h, alignment) == AlignUp(used_size[h], alignment)
NewUsedSize(h, size, alignment) ==
  (AlignedStart(h, alignment) + size) % SizeModulus
UncheckedFit(h, size, alignment) == alignment <= MaxAlignment
Fits(h, size, alignment) ==
  /\ alignment <= MaxAlignment
  /\ NewUsedSize(h, size, alignment) <= total_size[h]

(* The block granted by a successful call, sub-arena `child' in it if the  *)
(* caller is sub_arena_create.  It is as long as the caller asked for.     *)
Grant(h, size, alignment, child) ==
  [owner |-> h, align |-> alignment, child |-> child,
   lo |-> memory[h] + AlignedStart(h, alignment),
   hi |-> memory[h] + AlignedStart(h, alignment) + size]

Larger(m, n) == IF m < n THEN n ELSE m

(* The blocks and the sub-arenas that lie in the addresses lo .. hi - 1.   *)
BlocksIn(lo, hi) == {b \in blocks : lo <= b.lo /\ b.hi <= hi}
ArenasIn(lo, hi) ==
  {s \in live \cap SubArenas :
     lo <= memory[s] - HeaderSize /\ memory[s] + total_size[s] <= hi}

(* The client gives up all it holds in lo .. hi - 1.                       *)
Forget(lo, hi) ==
  /\ blocks' = blocks \ BlocksIn(lo, hi)
  /\ live' = live \ ArenasIn(lo, hi)
  /\ touched' = touched \ ArenasIn(lo, hi)

(* The fields of arenas that are gone: zeroed by the memset of             *)
(* sub_arena_destroy, no longer tracked when the parent was reset.         *)
Cleared(field, gone, value) ==
  [h \in Arenas |-> IF h \in gone THEN value ELSE field[h]]
ClearFixedFields(gone) ==
  /\ total_size' = Cleared(total_size, gone, 0)
  /\ parent' = Cleared(parent, gone, NoArena)
  /\ memory' = Cleared(memory, gone, 0)

-----------------------------------------------------------------------------
Init ==
  /\ total_size = [h \in Arenas |-> 0]
  /\ used_size = [h \in Arenas |-> 0]
  /\ previous_size = [h \in Arenas |-> 0]
  /\ parent = [h \in Arenas |-> NoArena]
  /\ memory = [h \in Arenas |-> 0]
  /\ live = {}
  /\ blocks = {}
  /\ fresh = 0
  /\ touched = {}

(* inter_arena_create on a fresh mapping.  The parent field is not         *)
(* assigned: it is NULL because the pages of the mapping are zero.         *)
ArenaCreate(size) ==
  /\ Root \notin live
  /\ size > 0
  /\ total_size' = [total_size EXCEPT ![Root] = size]
  /\ used_size' = [used_size EXCEPT ![Root] = 0]
  /\ previous_size' = [previous_size EXCEPT ![Root] = 0]
  /\ memory' = [memory EXCEPT ![Root] = AlignUp(HeaderSize, MaxAlignment)]
  /\ live' = {Root}
  /\ UNCHANGED <<parent, blocks, fresh, touched>>

(* arena_alloc_aligned, and with DefaultAlignment arena_alloc.  A grant of *)
(* no bytes is not a block: there is nothing in it to protect.             *)
ArenaAllocAligned(h, size, alignment) ==
  LET b == Grant(h, size, alignment, NoArena) IN
  /\ h \in live
  /\ Fits(h, size, alignment)
  /\ previous_size' = [previous_size EXCEPT ![h] = used_size[h]]
  /\ used_size' = [used_size EXCEPT ![h] = NewUsedSize(h, size, alignment)]
  /\ blocks' = blocks \cup {c \in {b} : c.lo < c.hi}
  /\ fresh' = Larger(fresh, b.hi)
  /\ touched' = touched \cup {h}
  /\ UNCHANGED <<total_size, parent, memory, live>>

(* The call returns NULL.                                                  *)
AllocFails(h, size, alignment) ==
  /\ h \in live
  /\ ~ Fits(h, size, alignment)
  /\ UNCHANGED vars

(* sub_arena_create calls arena_alloc, fills in every field but            *)
(* previous_size, and moves the parent's previous_size past itself.  A     *)
(* word below `fresh' may hold what an earlier owner left there.  Without  *)
(* the last assignment previous_size would be what arena_alloc left.       *)
SubArenaRequest(size) == (HeaderSize + size) % SizeModulus
PreviousSizeOfAlloc(h, size) == used_size[h]
ParentPreviousSize(h, size) ==
  NewUsedSize(h, SubArenaRequest(size), DefaultAlignment)
Uninitialized(field) == IF field >= fresh THEN {0} ELSE Residue

SubArenaCreate(h, s, size) ==
  LET b == Grant(h, HeaderSize + size, DefaultAlignment, s) IN
  /\ h \in live
  /\ s \in SubArenas \ live
  /\ size > 0
  /\ Fits(h, SubArenaRequest(size), DefaultAlignment)
  /\ \E residue \in Uninitialized(PreviousSizeField(b.lo)) :
       previous_size' = [previous_size EXCEPT
                           ![h] = ParentPreviousSize(h, size),
                           ![s] = residue]
  /\ used_size' = [used_size EXCEPT
                     ![h] = NewUsedSize(h, SubArenaRequest(size),
                                        DefaultAlignment),
                     ![s] = 0]
  /\ total_size' = [total_size EXCEPT ![s] = size]
  /\ parent' = [parent EXCEPT ![s] = h]
  /\ memory' = [memory EXCEPT ![s] = b.lo + HeaderSize]
  /\ live' = live \cup {s}
  /\ blocks' = blocks \cup {b}
  /\ fresh' = Larger(fresh, b.hi)
  /\ touched' = touched \cup {h}

SubArenaCreateFails(h, size) ==
  /\ h \in live
  /\ \/ size <= 0
     \/ ~ Fits(h, SubArenaRequest(size), DefaultAlignment)
  /\ UNCHANGED vars

(* arena_pop.  Unless PopBeforeAlloc, the client pops an arena only after  *)
(* an allocation from it: there is no last allocation to revert before.    *)
(* SubtractedSize takes previous_size for the size of the last allocation. *)
SubtractedSize(h) == used_size[h] - previous_size[h]
PoppedSize(h) == previous_size[h]
ArenaPop(h) ==
  /\ h \in live
  /\ PopBeforeAlloc \/ h \in touched
  /\ used_size' = [used_size EXCEPT ![h] = PoppedSize(h)]
  /\ Forget(memory[h] + PoppedSize(h), memory[h] + total_size[h])
  /\ UNCHANGED <<total_size, previous_size, parent, memory, fresh>>

(* arena_reset: used_size only, whatever lies in the arena.                *)
ArenaReset(h) ==
  LET gone == ArenasIn(memory[h], memory[h] + total_size[h]) IN
  /\ h \in live
  /\ used_size' = [Cleared(used_size, gone, 0) EXCEPT ![h] = 0]
  /\ previous_size' = Cleared(previous_size, gone, 0)
  /\ ClearFixedFields(gone)
  /\ Forget(memory[h], memory[h] + total_size[h])
  /\ UNCHANGED fresh

(* sub_arena_destroy: memset over header and memory, which also takes what *)
(* was nested in it.  The parent is not told.  WipedPastEnd counts the  *)
(* length from the memory, not from the header.                            *)
WipedFrom(s) == memory[s] - HeaderSize
WipedPastEnd(s) == memory[s] + total_size[s] + HeaderSize
WipedTo(s) == WipedFrom(s) + total_size[s] + HeaderSize
SubArenaDestroy(s) ==
  LET gone == ArenasIn(WipedFrom(s), WipedTo(s)) IN
  /\ used_size' = Cleared(used_size, gone, 0)
  /\ previous_size' = Cleared(previous_size, gone, 0)
  /\ ClearFixedFields(gone)
  /\ Forget(WipedFrom(s), WipedTo(s))
  /\ UNCHANGED fresh

(* arena_destroy of an arena without a parent: the mapping goes, and       *)
(* everything in it.                                                       *)
RootDestroy ==
  /\ total_size' = [h \in Arenas |-> 0]
  /\ used_size' = [h \in Arenas |-> 0]
  /\ previous_size' = [h \in Arenas |-> 0]
  /\ parent' = [h \in Arenas |-> NoArena]
  /\ memory' = [h \in Arenas |-> 0]
  /\ live' = {}
  /\ blocks' = {}
  /\ fresh' = 0
  /\ touched' = {}

ArenaDestroy(h) ==
  /\ h \in live
  /\ \/ parent[h] # NoArena /\ SubArenaDestroy(h)
     \/ parent[h] = NoArena /\ RootDestroy

Next ==
  \/ \E size \in ArenaSizes : ArenaCreate(size)
  \/ \E h \in Arenas :
       \/ \E size \in BlockSizes, a \in Alignments :
            ArenaAllocAligned(h, size, a) \/ AllocFails(h, size, a)
       \/ \E s \in SubArenas, size \in SubArenaSizes :
            SubArenaCreate(h, s, size)
       \/ \E size \in SubArenaSizes : SubArenaCreateFails(h, size)
       \/ ArenaPop(h)
       \/ ArenaReset(h)
       \/ ArenaDestroy(h)

Spec == Init /\ [][Next]_vars
-----------------------------------------------------------------------------
(* Type correctness.  An address stays below the width of size_t.          *)
TypeOK ==
  /\ total_size \in [Arenas -> 0 .. SizeModulus - 1]
  /\ used_size \in [Arenas -> 0 .. SizeModulus - 1]
  /\ previous_size \in [Arenas -> 0 .. SizeModulus - 1]
  /\ parent \in [Arenas -> Arenas \cup {NoArena}]
  /\ memory \in [Arenas -> Nat]
  /\ live \subseteq Arenas
  /\ touched \subseteq live
  /\ blocks \subseteq [owner : Arenas, align : Nat \ {0},
                       child : SubArenas \cup {NoArena},
                       lo : Nat, hi : Nat]
  /\ fresh \in Nat

Disjoint(b, c) == b.hi <= c.lo \/ c.hi <= b.lo

(* Block b lies in the memory of the sub-arena that c holds.               *)
InPayload(b, c) ==
  /\ c.child # NoArena
  /\ c.lo + HeaderSize <= b.lo
  /\ b.hi <= c.hi

(* Whatever is allocated, popped, reset and destroyed in whatever order, no *)
(* byte the client holds is granted twice: two blocks are disjoint, or one *)
(* was carved out of the sub-arena that the other holds, past its header.  *)
BlocksDisjoint ==
  \A b, c \in blocks :
    b = c \/ Disjoint(b, c) \/ InPayload(b, c) \/ InPayload(c, b)

(* The memory of a live arena is never accounted for less than what the    *)
(* client holds in it, nor for more than it has: every block lies between  *)
(* memory and memory + used_size, and used_size within total_size.         *)
BlocksAccounted ==
  /\ \A h \in live : used_size[h] <= total_size[h]
  /\ \A b \in blocks :
       /\ b.owner \in live
       /\ memory[b.owner] <= b.lo
       /\ b.hi <= memory[b.owner] + used_size[b.owner]

(* A block has the alignment that was asked for in the root arena, and up  *)
(* to the default alignment in a sub-arena, whose memory follows a header  *)
(* that is only a multiple of that.                                        *)
BlocksAligned ==
  \A b \in blocks :
    b.owner = Root \/ b.align <= DefaultAlignment => b.lo % b.align = 0

(* arena_pop reverts at most one grant, the last one of that arena, and    *)
(* never a sub-arena ("Don't allow arena to be reset", orarena.c:179).     *)
PopRevertsLastGrant ==
  [][\A h \in Arenas : ArenaPop(h) =>
       /\ live' = live
       /\ \A b \in blocks \ blocks' :
            /\ b.owner = h
            /\ \A c \in blocks \ {b} : c.owner = h => c.hi <= b.lo]_vars

(* Destroying a sub-arena takes nothing from its parent and its siblings   *)
(* (tests/orarena_tests/orarena_test.c:204).                               *)
DestroySparesSiblings ==
  [][\A s \in SubArenas : ArenaDestroy(s) =>
       /\ \A t \in live \ {s} : parent[t] = parent[s] => t \in live'
       /\ \A b \in blocks :
            b.owner = parent[s] /\ b.child # s => b \in blocks']_vars

(* The allocator keeps the promise of Allocator: the space of an arena is  *)
(* its memory, and every call grants, or gives up, what Allocator says and *)
(* no more.                                                                *)
Space == [h \in live |-> [lo |-> memory[h], hi |-> memory[h] + total_size[h]]]
Promise == INSTANCE Allocator WITH space <- Space, held <- blocks
KeepsPromise == Promise!Spec

-----------------------------------------------------------------------------
(* What comments, docs and tests say and the code does not do.             *)

(* "Parent cannot be reset while sub-arenas exist" (doc/architecture.md    *)
(* line 67); arena_reset does not look.                                    *)
ResetSparesSubArenas ==
  [][\A h \in Arenas : ArenaReset(h) =>
       \A s \in live \cap SubArenas : parent[s] # h]_vars
=============================================================================
