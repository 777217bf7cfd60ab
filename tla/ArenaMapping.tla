---------------------------- MODULE ArenaMapping ----------------------------
(***************************************************************************)
(* How src/orarena obtains the memory of root arenas and gives it back:    *)
(* inter_arena_create and arena_destroy of orarena.c over the mmap and     *)
(* munmap of linux/valloc_internal.c.  What happens inside an arena is in  *)
(* Arena.                                                                  *)
(*                                                                         *)
(* The address space is a row of pages.  `owner' is the kernel's table:    *)
(* which arena's mapping a page belongs to, and `base' the page at which   *)
(* the struct ORArena of a live arena lies (the pointer the client has).   *)
(***************************************************************************)
EXTENDS Integers, FiniteSets

CONSTANTS
  Arenas,
  Unmapped,        (* of a page: in no mapping                             *)
  Leaked,          (* of a page: mapped, and no arena has it any more      *)
  NumPages,
  PageSize,
  HeaderSize,      (* sizeof(struct ORArena)                               *)
  MaxAlignment,
  InitialSizes,    (* sizes passed to arena_create(_shared)                *)
  Debug            (* compiled with OR_DEBUG_MEMORY?                       *)

Pages == 0 .. NumPages - 1

ASSUME MappingAssumption ==
  /\ Unmapped \notin Arenas
  /\ Leaked \notin Arenas \cup {Unmapped}
  /\ NumPages \in Nat \ {0}
  /\ PageSize \in Nat \ {0}
  /\ HeaderSize \in 1 .. PageSize
  /\ MaxAlignment \in 1 .. PageSize - 1
  /\ HeaderSize + MaxAlignment <= PageSize
  /\ InitialSizes \subseteq Nat
  /\ Debug \in BOOLEAN

VARIABLES
  owner,           (* the arena, Leaked or Unmapped, of each page          *)
  live, base,      (* the arenas the client has, and where                 *)
  total_size,      (* field of struct ORArena                              *)
  memory,          (* another: where the memory starts, counted in bytes   *)
                   (* from the struct                                      *)
  fault            (* has the process accessed unmapped memory?            *)

vars == <<owner, live, base, total_size, memory, fault>>

-----------------------------------------------------------------------------
AlignUp(size, alignment) ==
  LET n == size + alignment - 1 IN n - (n % alignment)

(* The kernel maps and unmaps whole pages.                                 *)
PagesOf(length) == AlignUp(length, PageSize) \div PageSize
Extent(p, length) == p .. p + PagesOf(length) - 1

(* What inter_arena_create asks mmap for, and what it would ask for if it  *)
(* forgot the struct.                                                      *)
LengthOfMemory(size) == AlignUp(size, MaxAlignment)
MappedLength(size) == AlignUp(size + HeaderSize, MaxAlignment)

(* The memory starts behind the struct, at a multiple of the alignment.    *)
(* The padding between the two is not in MappedLength.                     *)
MemoryOffset == AlignUp(HeaderSize, MaxAlignment)
Padding == MemoryOffset - HeaderSize

(* What arena_destroy passes to munmap: total_size.  DoubleHeader would    *)
(* count the struct in a size that had it already.                         *)
DoubleHeader(a) == MappedLength(MappedLength(total_size[a]))
FreedLength(a) == total_size[a]

-----------------------------------------------------------------------------
Init ==
  /\ owner = [p \in Pages |-> Unmapped]
  /\ live = {}
  /\ base = [a \in Arenas |-> 0]
  /\ total_size = [a \in Arenas |-> 0]
  /\ memory = [a \in Arenas |-> 0]
  /\ fault = FALSE

(* inter_arena_create when mmap finds room at page p.                      *)
ArenaCreate(a, size, p) ==
  LET extent == Extent(p, MappedLength(size)) IN
  /\ a \notin live
  /\ size > 0
  /\ \A q \in extent : q \in Pages /\ owner[q] = Unmapped
  /\ owner' = [q \in Pages |-> IF q \in extent THEN a ELSE owner[q]]
  /\ live' = live \cup {a}
  /\ base' = [base EXCEPT ![a] = p]
  /\ total_size' = [total_size EXCEPT ![a] = size]
  /\ memory' = [memory EXCEPT ![a] = MemoryOffset]
  /\ UNCHANGED fault

(* mmap may fail at any time.  It then returns MAP_FAILED, which is not    *)
(* NULL: the test on line 90 passes and line 94 writes through it.         *)
ArenaCreateMapFails(a, size) ==
  /\ a \notin live
  /\ size > 0
  /\ fault' = TRUE
  /\ UNCHANGED <<owner, live, base, total_size, memory>>

(* The size is refused, NULL is returned.                                  *)
ArenaCreateInvalid(a, size) ==
  /\ a \notin live
  /\ size <= 0
  /\ UNCHANGED vars

PagesOwned(a) == {p \in Pages : owner[p] = a}

(* Arena a is given up; of its pages those in `gone' are unmapped, and     *)
(* nobody knows the others.                                                *)
GiveUp(a, gone) ==
  /\ owner' = [p \in Pages |-> IF p \in gone THEN Unmapped
                               ELSE IF owner[p] = a THEN Leaked
                               ELSE owner[p]]
  /\ live' = live \ {a}
  /\ base' = [base EXCEPT ![a] = 0]
  /\ total_size' = [total_size EXCEPT ![a] = 0]
  /\ memory' = [memory EXCEPT ![a] = 0]

(* arena_destroy of a root arena.  OR_LOG_DESTROY then reads the struct in *)
(* the first page, which is not there any more.                            *)
ArenaDestroy(a) ==
  LET gone == Extent(base[a], FreedLength(a)) IN
  /\ a \in live
  /\ GiveUp(a, gone)
  /\ fault' = (Debug /\ base[a] \in gone)

(* munmap fails: it returns -1, and line 121 compares with 1.  The call    *)
(* ends as if the memory were gone, and the client gives up the arena.     *)
ArenaDestroyUnmapFails(a) ==
  /\ a \in live
  /\ GiveUp(a, {})
  /\ UNCHANGED fault

Next ==
  /\ ~ fault
  /\ \E a \in Arenas :
       \/ \E size \in InitialSizes :
            \/ \E p \in Pages : ArenaCreate(a, size, p)
            \/ ArenaCreateMapFails(a, size)
            \/ ArenaCreateInvalid(a, size)
       \/ ArenaDestroy(a)
       \/ ArenaDestroyUnmapFails(a)

Spec == Init /\ [][Next]_vars
-----------------------------------------------------------------------------
(* Type correctness.                                                       *)
TypeOK ==
  /\ owner \in [Pages -> Arenas \cup {Unmapped, Leaked}]
  /\ live \subseteq Arenas
  /\ base \in [Arenas -> Pages]
  /\ total_size \in [Arenas -> Nat]
  /\ memory \in [Arenas -> Nat]
  /\ fault \in BOOLEAN

(* The byte `offset' bytes after the start of the struct of arena a lies   *)
(* in a page that was mapped for a.                                        *)
Has(a, offset) ==
  LET p == base[a] + offset \div PageSize IN p \in Pages /\ owner[p] = a

(* While the client has an arena, the struct and its memory but for the    *)
(* last bytes, as many as there are of padding, are mapped to that arena   *)
(* alone, wherever the other arenas are created and destroyed.             *)
MappedUpToPadding ==
  \A a \in live : \A o \in 0 .. memory[a] + total_size[a] - Padding - 1 : Has(a, o)

(* arena_destroy unmaps no page of another arena.                          *)
DestroySparesOthers ==
  [][\A a \in Arenas : ArenaDestroy(a) \/ ArenaDestroyUnmapFails(a) =>
       \A p \in Pages \ PagesOwned(a) : owner'[p] = owner[p]]_vars

-----------------------------------------------------------------------------
(* What the documents say and the code does not do.                        *)

(* The arena has the memory it was asked for: "initial_size Size in bytes  *)
(* for the arena's memory block" (orarena.h:35).                           *)
AllMemoryMapped ==
  \A a \in live : \A o \in memory[a] .. memory[a] + total_size[a] - 1 : Has(a, o)

(* "Destroys an arena and frees all associated memory" (orarena.h:52): no  *)
(* page of an arena stays mapped when munmap did what it was asked for.    *)
DestroyFreesAll ==
  [][\A a \in Arenas : ArenaDestroy(a) =>
       \A p \in PagesOwned(a) : owner'[p] = Unmapped]_vars
=============================================================================
