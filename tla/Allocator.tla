----------------------------- MODULE Allocator -----------------------------
(***************************************************************************)
(* What src/orarena promises to those who allocate from it, without the    *)
(* fields by which src/orarena/orarena.c keeps the promise: there is no    *)
(* used_size, no previous_size, no alignment and no header here.  An arena *)
(* is a space of addresses.  A block is granted somewhere in it where no   *)
(* other block is but those in which the arena itself lies, and beyond the *)
(* blocks that the arena granted before.                                   *)
(***************************************************************************)
EXTENDS Integers

CONSTANTS Root, SubArenas, NoArena

Arenas == {Root} \cup SubArenas

VARIABLES
  space,   (* the addresses of each arena that is in use, lo to hi - 1     *)
  held     (* the blocks that were granted and not given up                *)

vars == <<space, held>>

Regions == [lo : Int, hi : Int]

Live == DOMAIN space
Apart(b, c) == b.hi <= c.lo \/ c.hi <= b.lo
Inside(b, c) == c.lo <= b.lo /\ b.hi <= c.hi

(* Arena h is the one that block c was granted for, or lies in it.         *)
LiesIn(h, c) == c.child \in Live /\ Inside(space[h], space[c.child])

Init ==
  /\ space = [h \in {} |-> 0]
  /\ held = {}

Create(region) ==
  /\ Live = {} /\ region \in Regions
  /\ space' = [h \in {Root} |-> region]
  /\ UNCHANGED held

(* The arena h grants b, for the client or for the sub-arena b.child.      *)
Grant(h, b) ==
  /\ h \in Live
  /\ b.lo \in Int /\ b.hi \in Int
  /\ b.owner = h /\ b.lo < b.hi /\ Inside(b, space[h])
  /\ \A c \in held : Apart(b, c) \/ LiesIn(h, c)
  /\ \A c \in held : c.owner = h => c.hi <= b.lo
  /\ held' = held \cup {b}
GrantBlock(h, b) ==
  /\ Grant(h, b)
  /\ b.child = NoArena
  /\ UNCHANGED space
GrantSubArena(h, b, region) ==
  /\ Grant(h, b)
  /\ b.child \in SubArenas \ Live
  /\ region \in Regions /\ Inside(region, b)
  /\ space' = [k \in Live \cup {b.child} |->
                 IF k = b.child THEN region ELSE space[k]]

(* The blocks R are given up, and the sub-arenas that they were for.       *)
GiveUp(R) ==
  /\ held' = held \ R
  /\ space' = [k \in {k \in Live : \A b \in R : b.child # k} |-> space[k]]

Last(h, b) ==
  b.owner = h /\ b.child = NoArena /\ \A c \in held \ {b} : c.owner = h => c.hi <= b.lo
BlocksOf(h) == {b \in held : Inside(b, space[h])}

Pop(h) == \E b \in held : Last(h, b) /\ GiveUp({b})
Reset(h) == GiveUp(BlocksOf(h))
Destroy(s) == s # Root /\ GiveUp(BlocksOf(s) \cup {b \in held : b.child = s})
DestroyRoot ==
  /\ space' = [h \in {} |-> 0]
  /\ held' = {}

Next ==
  \/ \E region \in {space'[k] : k \in DOMAIN space'} :
       \/ Create(region)
       \/ \E h \in Live, b \in held' : GrantSubArena(h, b, region)
  \/ \E h \in Live :
       \/ \E b \in held' : GrantBlock(h, b)
       \/ Pop(h) \/ Reset(h) \/ Destroy(h)
  \/ Root \in Live /\ DestroyRoot

Spec == Init /\ [][Next]_vars
-----------------------------------------------------------------------------
(* No byte is held twice: of two blocks that are not apart, one lies in    *)
(* the sub-arena that the other was granted for.                           *)
NoByteTwice ==
  \A b, c \in held :
    \/ b = c \/ Apart(b, c)
    \/ c.child \in Live /\ Inside(b, space[c.child])
    \/ b.child \in Live /\ Inside(c, space[b.child])
=============================================================================
