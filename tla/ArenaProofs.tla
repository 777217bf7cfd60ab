---------------------------- MODULE ArenaProofs ----------------------------
(***************************************************************************)
(* What holds of Arena for every number of sub-arenas, nested to any       *)
(* depth, and for every size: type correctness, that no byte is granted    *)
(* twice, that a block stays within what its arena accounts for and has    *)
(* the alignment that was asked for; and that Arena implements Allocator.  *)
(***************************************************************************)
EXTENDS Arena, TLAPS

(* The sums of sizes the code computes do not wrap around, and the client  *)
(* does not pop an arena that it never used.  Neither is checked by the    *)
(* code, and without either the theorems are false.                        *)
ASSUME SmallRequests ==
  \A a \in ArenaSizes \cup SubArenaSizes, b \in BlockSizes \cup SubArenaSizes :
    a + b + HeaderSize + MaxAlignment <= SizeModulus
ASSUME PopAfterAlloc == ~ PopBeforeAlloc

-----------------------------------------------------------------------------
(* The parts of the inductive invariant.                                   *)

Base(h) == memory[h] - HeaderSize
Top(h) == memory[h] + total_size[h]

Outside(c, h) == c.hi <= Base(h) \/ Top(h) <= c.lo
Encloses(c, h) ==
  c.child # NoArena /\ c.lo + HeaderSize <= memory[h] /\ Top(h) <= c.hi
Within(c, h) == memory[h] <= c.lo /\ c.hi <= memory[h] + used_size[h]

(* The root is there as long as anything is, and it is the only one        *)
(* without a parent.                                                       *)
Rooted ==
  /\ live # {} => Root \in live
  /\ \A h \in live : total_size[h] \in ArenaSizes \cup SubArenaSizes
  /\ \A s \in live \cap SubArenas : parent[s] # NoArena
  /\ parent[Root] = NoArena
  /\ \A c \in blocks : Within(c, Root) /\ c.lo < c.hi

(* A live sub-arena fills the block that its parent granted for it, and a  *)
(* block granted for a sub-arena holds one.                                *)
Held(c, s) ==
  c.child = s /\ c.owner = parent[s] /\ c.lo = Base(s) /\ c.hi = Top(s)
SubArenasHeld ==
  /\ \A s \in live \cap SubArenas : \E c \in blocks : Held(c, s)
  /\ \A c \in blocks : c.child # NoArena => c.child \in live /\ Held(c, c.child)

(* Seen from an arena, a block lies outside it, around it, or in the part  *)
(* of its memory that is in use.                                           *)
Separated ==
  \A h \in live, c \in blocks : Outside(c, h) \/ Encloses(c, h) \/ Within(c, h)

(* What lies above the mark that a pop returns to: at most one block, and  *)
(* no part of a block that begins below.                                   *)
Below(c, h) == c.hi <= memory[h] + previous_size[h]
Above(c, h) ==
  /\ memory[h] + previous_size[h] <= c.lo
  /\ c.owner = h
  /\ c.child = NoArena
PopSafe ==
  \A h \in touched :
    /\ previous_size[h] <= total_size[h]
    /\ \A c \in blocks :
         Outside(c, h) \/ Encloses(c, h) \/ Below(c, h) \/ Above(c, h)
    /\ \A c, d \in blocks : Above(c, h) /\ Above(d, h) => c = d

IInv ==
  /\ TypeOK
  /\ Rooted
  /\ SubArenasHeld
  /\ BlocksAccounted
  /\ Separated
  /\ PopSafe
  /\ BlocksDisjoint

-----------------------------------------------------------------------------
(* Arithmetic.                                                             *)

(* The header is not empty.                                                *)
LEMMA HeaderSizeType == HeaderSize \in Nat /\ HeaderSize > 0
  BY ArenaAssumption DEF HeaderSize

(* align_up returns a size no smaller than its argument, and less than one *)
(* alignment larger, if the sum it computes does not wrap around.          *)
LEMMA AlignUpBounds ==
  ASSUME NEW n \in Nat, NEW a \in Nat \ {0}, n + a <= SizeModulus
  PROVE  /\ AlignUp(n, a) \in Nat
         /\ n <= AlignUp(n, a)
         /\ AlignUp(n, a) < n + a
<1> DEFINE m == n + a - 1
<1>1. m \in Nat /\ m < SizeModulus /\ SizeModulus \in Nat
  BY ArenaAssumption
<1>2. m % SizeModulus = m
  BY <1>1
<1>3. m % a \in 0 .. a - 1 /\ m % a <= m
  BY <1>1
<1>4. AlignUp(n, a) = m - (m % a)
  BY <1>2 DEF AlignUp
<1> QED
  BY <1>1, <1>3, <1>4

(* A request that fits is granted past what is in use and within the       *)
(* arena, provided that the sums do not wrap around.                       *)
LEMMA GrantBounds ==
  ASSUME TypeOK, BlocksAccounted, NEW h \in live,
         NEW size \in Nat, NEW a \in Nat \ {0},
         total_size[h] + size + MaxAlignment <= SizeModulus,
         Fits(h, size, a)
  PROVE  /\ AlignedStart(h, a) \in Nat
         /\ used_size[h] <= AlignedStart(h, a)
         /\ NewUsedSize(h, size, a) = AlignedStart(h, a) + size
         /\ AlignedStart(h, a) + size <= total_size[h]
<1>1. /\ used_size[h] \in Nat /\ total_size[h] \in Nat
      /\ used_size[h] <= total_size[h]
  BY DEF TypeOK, BlocksAccounted
<1>2. a <= MaxAlignment /\ NewUsedSize(h, size, a) <= total_size[h]
  BY DEF Fits
<1>3. MaxAlignment \in Nat /\ SizeModulus \in Nat
  BY ArenaAssumption
<1>4. /\ AlignUp(used_size[h], a) \in Nat
      /\ used_size[h] <= AlignUp(used_size[h], a)
      /\ AlignUp(used_size[h], a) < used_size[h] + a
  BY <1>1, <1>2, <1>3, AlignUpBounds
<1>5. AlignUp(used_size[h], a) + size < SizeModulus
  BY <1>1, <1>2, <1>3, <1>4
<1>6. NewUsedSize(h, size, a) = AlignUp(used_size[h], a) + size
  BY <1>3, <1>4, <1>5 DEF NewUsedSize, AlignedStart
<1> QED
  BY <1>2, <1>4, <1>6 DEF AlignedStart

-----------------------------------------------------------------------------
(* Geometry: a new block, and a region given up.                           *)

BlockType == [owner : Arenas, align : Nat \ {0},
              child : SubArenas \cup {NoArena}, lo : Nat, hi : Nat]

(* Block b is granted by arena h from the part of it not yet in use.       *)
Fresh(b, h) ==
  /\ b \in BlockType
  /\ b.lo < b.hi
  /\ memory[h] + used_size[h] <= b.lo
  /\ b.hi <= Top(h)

(* The types the geometry needs.                                           *)
LEMMA FieldTypes ==
  ASSUME TypeOK
  PROVE  /\ \A h \in live :
              /\ h \in Arenas
              /\ memory[h] \in Nat /\ total_size[h] \in Nat
              /\ used_size[h] \in Nat /\ previous_size[h] \in Nat
              /\ Base(h) \in Int /\ Base(h) < memory[h] /\ Top(h) \in Nat
         /\ \A c \in blocks : c \in BlockType /\ c.lo \in Nat /\ c.hi \in Nat
  BY HeaderSizeType DEF TypeOK, Base, Top, BlockType

(* A new block overlaps no block, or lies in the sub-arena it holds.       *)
LEMMA NewBlockDisjoint ==
  ASSUME IInv, NEW h \in live, NEW b, Fresh(b, h), NEW c \in blocks
  PROVE  Disjoint(b, c) \/ InPayload(b, c)
<1>1. Outside(c, h) \/ Encloses(c, h) \/ Within(c, h)
  BY DEF IInv, Separated
<1>2. b.lo \in Nat /\ b.hi \in Nat
  BY DEF Fresh, BlockType
<1> QED
  BY <1>1, <1>2, FieldTypes, HeaderSizeType
  DEF IInv, Outside, Encloses, Within, Fresh, Disjoint, InPayload, Base

(* The block that holds a sub-arena k is outside the arena h, around it or *)
(* in it; and if h lies inside k, then below the mark that a pop of k      *)
(* returns to.                                                             *)
LEMMA NewBlockElsewhere ==
  ASSUME IInv, NEW h \in live, NEW b, Fresh(b, h), NEW k \in live, k # h
  PROVE  \/ Outside(b, k)
         \/ Within(b, k) /\ (k \in touched => Below(b, k))
<1> USE FieldTypes, HeaderSizeType DEF IInv
<1>1. b.lo \in Nat /\ b.hi \in Nat
  BY DEF Fresh, BlockType
<1>2. CASE h = Root
  <2>1. k \in live \cap SubArenas
    BY <1>2 DEF TypeOK, Arenas
  <2>2. PICK c \in blocks : Held(c, k)
    BY <2>1 DEF SubArenasHeld
  <2>3. Within(c, h)
    BY <1>2 DEF Rooted
  <2> QED
    BY <1>1, <2>2, <2>3 DEF Held, Within, Outside, Fresh
<1>3. CASE h # Root
  <2>1. h \in live \cap SubArenas
    BY <1>3 DEF TypeOK, Arenas
  <2>2. PICK c \in blocks : Held(c, h)
    BY <2>1 DEF SubArenasHeld
  <2>3. c.child # NoArena
    BY <2>1, <2>2, ArenaAssumption DEF Held, Arenas
  <2>4. c.lo < b.lo /\ b.hi <= c.hi /\ c.lo < c.hi
    BY <1>1, <2>2 DEF Held, Fresh, BlocksAccounted
  <2>5. CASE Outside(c, k)
    BY <1>1, <2>4, <2>5 DEF Outside
  <2>6. CASE Within(c, k)
    <3>1. Within(b, k)
      BY <1>1, <2>4, <2>6 DEF Within
    <3>2. ASSUME k \in touched PROVE Below(b, k)
      <4>1. Outside(c, k) \/ Encloses(c, k) \/ Below(c, k)
        BY <2>3, <3>2 DEF PopSafe, Above
      <4>2. ~ Outside(c, k) /\ ~ Encloses(c, k)
        BY <2>4, <2>6 DEF Outside, Encloses, Within, BlocksAccounted, Top
      <4> QED
        BY <1>1, <2>4, <4>1, <4>2 DEF Below
    <3> QED
      BY <3>1, <3>2
  <2>7. CASE Encloses(c, k)
    <3>1. k # Root
      BY <2>7 DEF Encloses, Rooted, Within
    <3>2. k \in live \cap SubArenas
      BY <3>1 DEF TypeOK, Arenas
    <3>3. PICK d \in blocks : Held(d, k)
      BY <3>2 DEF SubArenasHeld
    <3>4. CASE Outside(d, h)
      BY <1>1, <3>3, <3>4 DEF Held, Outside, Fresh
    <3>5. CASE Within(d, h)
      BY <1>1, <3>3, <3>5 DEF Held, Outside, Within, Fresh
    <3>6. CASE Encloses(d, h)
      <4>1. c # d
        BY <2>2, <3>3 DEF Held
      <4>2. c.lo = d.lo /\ c.hi = d.hi
        BY <2>2, <2>7, <3>3, <3>6 DEF Held, Encloses, Base, Top
      <4> QED
        BY <2>4, <4>1, <4>2 DEF BlocksDisjoint, Disjoint, InPayload
    <3> QED
      BY <3>4, <3>5, <3>6 DEF Separated
  <2> QED
    BY <2>5, <2>6, <2>7 DEF Separated
<1> QED
  BY <1>2, <1>3

(* After the client gave up a region, what is left is as it was: a         *)
(* sub-arena goes with the block that holds it, and takes with it the      *)
(* blocks in it.                                                           *)
LEMMA ForgetKeeps ==
  ASSUME IInv, NEW lo \in Int, NEW hi \in Int, Forget(lo, hi),
         \A k \in live' : /\ total_size'[k] = total_size[k]
                          /\ memory'[k] = memory[k]
                          /\ parent'[k] = parent[k]
  PROVE  /\ live' \subseteq live /\ blocks' \subseteq blocks
         /\ touched' \subseteq touched /\ touched' \subseteq live'
         /\ SubArenasHeld'
         /\ BlocksDisjoint'
         /\ \A c \in blocks' : c.owner \in live'
         /\ live # {} => Root \in live'
<1> USE FieldTypes, HeaderSizeType DEF IInv
<1>1. /\ live' \subseteq live /\ blocks' \subseteq blocks
      /\ touched' \subseteq touched /\ touched' \subseteq live'
  BY DEF Forget, TypeOK
<1>2. \A k \in live' : Base(k)' = Base(k) /\ Top(k)' = Top(k)
  BY DEF Base, Top, HeaderSize
<1>3. ASSUME NEW s \in live \cap SubArenas, NEW c \in blocks, Held(c, s)
      PROVE  c \in blocks' <=> s \in live'
  BY <1>3 DEF Forget, BlocksIn, ArenasIn, Held, Base, Top
<1>4. SubArenasHeld'
  <2>1. ASSUME NEW s \in live' \cap SubArenas
        PROVE  \E c \in blocks' : Held(c, s)'
    <3>1. PICK c \in blocks : Held(c, s)
      BY <1>1 DEF SubArenasHeld
    <3> QED
      BY <1>1, <1>2, <1>3, <3>1 DEF Held
  <2>2. ASSUME NEW c \in blocks', c.child # NoArena
        PROVE  c.child \in live' /\ Held(c, c.child)'
    <3>1. c \in blocks /\ c.child \in live \cap SubArenas /\ Held(c, c.child)
      BY <1>1, <2>2 DEF SubArenasHeld, BlockType
    <3> QED
      BY <1>2, <1>3, <3>1 DEF Held
  <2> QED
    BY <2>1, <2>2 DEF SubArenasHeld
<1>5. BlocksDisjoint'
  BY <1>1 DEF BlocksDisjoint, Disjoint, InPayload, HeaderSize
<1>6. ASSUME NEW c \in blocks' PROVE c.owner \in live'
  <2>1. c \in blocks /\ c.owner \in live
    BY <1>1 DEF BlocksAccounted
  <2>2. Base(c.owner) <= c.lo /\ c.hi <= Top(c.owner)
    BY <2>1 DEF BlocksAccounted, Top
  <2> QED
    BY <2>1, <2>2 DEF Forget, BlocksIn, ArenasIn, Base, Top
<1>7. ASSUME live # {} PROVE Root \in live'
  BY <1>7, ArenaAssumption DEF Rooted, Forget, ArenasIn
<1> QED
  BY <1>1, <1>4, <1>5, <1>6, <1>7

-----------------------------------------------------------------------------
(* The invariant is established, and preserved by every action.            *)

LEMMA InitIInv == Init => IInv
<1> SUFFICES ASSUME Init PROVE IInv
  OBVIOUS
<1>1. TypeOK
  BY ArenaAssumption DEF Init, TypeOK
<1> QED
  BY <1>1, ArenaAssumption
  DEF Init, IInv, Rooted, SubArenasHeld, BlocksAccounted, Separated, PopSafe,
      BlocksDisjoint, Arenas

LEMMA ArenaCreateIInv ==
  ASSUME IInv, NEW size \in ArenaSizes, ArenaCreate(size)
  PROVE  IInv'
<1> USE DEF IInv, ArenaCreate
<1>1. live = {} /\ blocks = {} /\ touched = {}
  BY DEF Rooted, TypeOK, BlocksAccounted
<1>2. TypeOK'
  <2>1. AlignUp(HeaderSize, MaxAlignment) \in Nat
    <3>1. (HeaderSize + MaxAlignment - 1) % SizeModulus \in Nat
      BY HeaderSizeType, ArenaAssumption
    <3>2. \A n \in Nat : n - (n % MaxAlignment) \in Nat
      BY ArenaAssumption
    <3> QED
      BY <3>1, <3>2 DEF AlignUp
  <2> QED
    BY <1>1, <2>1, ArenaAssumption DEF TypeOK, Arenas
<1>3. Rooted'
  BY <1>1, ArenaAssumption DEF Rooted, TypeOK, Arenas
<1> QED
  BY <1>1, <1>2, <1>3, ArenaAssumption
  DEF SubArenasHeld, BlocksAccounted, Separated, PopSafe, BlocksDisjoint,
      TypeOK, Arenas

(* A grant to the client.                                                  *)
LEMMA AllocIInv ==
  ASSUME IInv, NEW h \in Arenas, NEW size \in BlockSizes,
         NEW a \in Alignments, ArenaAllocAligned(h, size, a)
  PROVE  IInv'
<1> USE FieldTypes, HeaderSizeType DEF IInv
<1> PICK b : b = Grant(h, size, a, NoArena)
  OBVIOUS
<1>1. h \in live /\ size \in Nat /\ a \in Nat \ {0}
  BY ArenaAssumption DEF ArenaAllocAligned
<1>2. /\ AlignedStart(h, a) \in Nat
      /\ used_size[h] <= AlignedStart(h, a)
      /\ NewUsedSize(h, size, a) = AlignedStart(h, a) + size
      /\ AlignedStart(h, a) + size <= total_size[h]
  <2>1. total_size[h] + size + MaxAlignment <= SizeModulus
    BY <1>1, SmallRequests, ArenaAssumption DEF Rooted
  <2> QED
    BY <1>1, <2>1, GrantBounds DEF ArenaAllocAligned
<1>3. /\ b \in BlockType /\ b.owner = h /\ b.child = NoArena
      /\ b.lo = memory[h] + AlignedStart(h, a) /\ b.hi = b.lo + size
  BY <1>1, <1>2 DEF Grant, BlockType
<1>4. /\ memory[h] + used_size[h] <= b.lo /\ b.hi <= Top(h)
      /\ b.hi = memory[h] + used_size'[h]
      /\ used_size'[h] \in Nat
      /\ used_size'[h] <= total_size[h] /\ used_size[h] <= used_size'[h]
  BY <1>1, <1>2, <1>3 DEF ArenaAllocAligned, Top, TypeOK
<1>5. /\ \A c \in blocks' : c \in blocks \/ (c = b /\ b.lo < b.hi)
      /\ blocks \subseteq blocks'
  BY DEF ArenaAllocAligned
<1>6. /\ UNCHANGED <<total_size, memory, parent, live>>
      /\ \A k \in live : Base(k)' = Base(k) /\ Top(k)' = Top(k)
      /\ \A k \in live \ {h} : /\ used_size'[k] = used_size[k]
                               /\ previous_size'[k] = previous_size[k]
      /\ previous_size'[h] = used_size[h]
      /\ touched' = touched \cup {h}
  BY <1>1 DEF ArenaAllocAligned, Base, Top, HeaderSize, TypeOK
<1>7. TypeOK'
  <2>1. blocks' \subseteq BlockType
    BY <1>3, <1>5 DEF TypeOK, BlockType
  <2>2. used_size' \in [Arenas -> 0 .. SizeModulus - 1]
    <3>1. NewUsedSize(h, size, a) \in 0 .. SizeModulus - 1
      BY <1>1, <1>2, ArenaAssumption DEF TypeOK
    <3> QED
      BY <3>1 DEF TypeOK, ArenaAllocAligned
  <2>3. previous_size' \in [Arenas -> 0 .. SizeModulus - 1]
    BY DEF TypeOK, ArenaAllocAligned
  <2>4. fresh' \in Nat
    BY <1>3 DEF TypeOK, ArenaAllocAligned, Larger, BlockType
  <2> QED
    BY <1>1, <2>1, <2>2, <2>3, <2>4 DEF TypeOK, ArenaAllocAligned, BlockType
<1>8. ASSUME b.lo < b.hi PROVE Fresh(b, h)
  BY <1>3, <1>4, <1>8 DEF Fresh
<1>9. ASSUME NEW k \in live, b.lo < b.hi, k # h
      PROVE  Outside(b, k) \/ (Within(b, k) /\ (k \in touched => Below(b, k)))
  BY <1>1, <1>8, <1>9, NewBlockElsewhere
<1>10. Rooted'
  <2>1. ASSUME NEW c \in blocks' PROVE Within(c, Root)' /\ c.lo < c.hi
    <3>1. Root \in live
      BY <1>1 DEF Rooted
    <3>2. CASE c \in blocks
      <4>1. Within(c, Root) /\ c.lo < c.hi
        BY <3>2 DEF Rooted
      <4> QED
        BY <1>4, <1>6, <3>1, <3>2, <4>1 DEF Within, TypeOK
    <3>3. CASE c = b /\ b.lo < b.hi /\ h = Root
      BY <1>3, <1>4, <1>6, <3>1, <3>3 DEF Within, BlockType, TypeOK
    <3>4. CASE c = b /\ b.lo < b.hi /\ h # Root
      <4>1. h \in live \cap SubArenas
        BY <1>1, <3>4 DEF TypeOK, Arenas
      <4>2. PICK d \in blocks : Held(d, h)
        BY <4>1 DEF SubArenasHeld
      <4>3. Within(d, Root)
        BY DEF Rooted
      <4>4. memory[Root] <= b.lo /\ b.hi <= memory[Root] + used_size[Root]
        BY <1>1, <1>2, <1>3, <1>4, <3>1, <4>2, <4>3 DEF Within, Held
      <4>5. memory'[Root] = memory[Root] /\ used_size'[Root] = used_size[Root]
        BY <1>6, <3>1, <3>4
      <4> QED
        BY <3>4, <4>4, <4>5 DEF Within
    <3> QED
      BY <1>5, <3>2, <3>3, <3>4
  <2> QED
    BY <1>6, <2>1 DEF Rooted
<1>11. SubArenasHeld'
  <2>1. \A c \in BlockType, k \in live : Held(c, k)' = Held(c, k)
    BY <1>6 DEF Held
  <2> QED
    BY <1>3, <1>5, <1>6, <2>1 DEF SubArenasHeld
<1>12. BlocksAccounted'
  BY <1>1, <1>3, <1>4, <1>5, <1>6 DEF BlocksAccounted, BlockType
<1>13. Separated'
  <2>1. ASSUME NEW k \in live, NEW c \in blocks
        PROVE  Outside(c, k)' \/ Encloses(c, k)' \/ Within(c, k)'
    <3>1. Outside(c, k) \/ Encloses(c, k) \/ Within(c, k)
      BY DEF Separated
    <3> QED
      BY <1>4, <1>6, <3>1
      DEF Outside, Encloses, Within, HeaderSize, TypeOK
  <2>2. ASSUME NEW k \in live, b.lo < b.hi
        PROVE  Outside(b, k)' \/ Encloses(b, k)' \/ Within(b, k)'
    <3>1. CASE k = h
      BY <1>3, <1>4, <1>6, <3>1 DEF Within, BlockType
    <3>2. CASE k # h
      BY <1>6, <1>9, <2>2, <3>2 DEF Outside, Within
    <3> QED
      BY <3>1, <3>2
  <2> QED
    BY <1>5, <1>6, <2>1, <2>2 DEF Separated
<1>14. BlocksDisjoint'
  <2>1. ASSUME b.lo < b.hi, NEW c \in blocks
        PROVE  Disjoint(b, c) \/ InPayload(b, c)
    BY <1>1, <1>8, <2>1, NewBlockDisjoint
  <2> QED
    BY <1>5, <2>1 DEF BlocksDisjoint, Disjoint, InPayload, HeaderSize
<1>15. PopSafe'
  <2>1. ASSUME NEW k \in touched, k # h
        PROVE  /\ previous_size'[k] <= total_size'[k]
               /\ \A c \in blocks' :
                    Outside(c, k)' \/ Encloses(c, k)' \/ Below(c, k)' \/ Above(c, k)'
               /\ \A c, d \in blocks' : Above(c, k)' /\ Above(d, k)' => c = d
    <3>1. k \in live
      BY DEF TypeOK
    <3>2. b.lo < b.hi => Outside(b, k) \/ Below(b, k)
      BY <1>9, <2>1, <3>1
    <3>3. ASSUME Above(b, k)' PROVE FALSE
      BY <1>3, <2>1, <3>3 DEF Above
    <3> QED
      BY <1>5, <1>6, <2>1, <3>1, <3>2, <3>3
      DEF PopSafe, Outside, Encloses, Below, Above, HeaderSize
  <2>2. ASSUME NEW c \in blocks
        PROVE  /\ Outside(c, h)' \/ Encloses(c, h)' \/ Below(c, h)'
               /\ ~ Above(c, h)'
    <3>1. Outside(c, h) \/ Encloses(c, h) \/ Within(c, h)
      BY <1>1 DEF Separated
    <3>2. ~ Above(c, h)'
      BY <1>1, <1>6, <2>2 DEF Above, BlocksAccounted, Rooted
    <3> QED
      BY <1>1, <1>6, <3>1, <3>2
      DEF Outside, Encloses, Within, Below, HeaderSize
  <2>3. Above(b, h)'
    BY <1>3, <1>4, <1>6 DEF Above
  <2>4. previous_size'[h] <= total_size'[h]
    BY <1>1, <1>6 DEF BlocksAccounted
  <2> QED
    BY <1>5, <1>6, <2>1, <2>2, <2>3, <2>4 DEF PopSafe
<1> QED
  BY <1>7, <1>10, <1>11, <1>12, <1>13, <1>14, <1>15

(* A grant that becomes a sub-arena.                                       *)
LEMMA SubArenaCreateIInv ==
  ASSUME IInv, NEW h \in Arenas, NEW s \in SubArenas,
         NEW size \in SubArenaSizes, SubArenaCreate(h, s, size)
  PROVE  IInv'
<1> USE FieldTypes, HeaderSizeType DEF IInv
<1> PICK b : b = Grant(h, HeaderSize + size, DefaultAlignment, s)
  OBVIOUS
<1>1. /\ h \in live /\ size \in Nat /\ size > 0 /\ DefaultAlignment \in Nat \ {0}
      /\ s \notin live /\ s # h /\ s # Root /\ s \in Arenas /\ s # NoArena
  BY ArenaAssumption DEF SubArenaCreate, Arenas
<1>2. /\ AlignedStart(h, DefaultAlignment) \in Nat
      /\ used_size[h] <= AlignedStart(h, DefaultAlignment)
      /\ SubArenaRequest(size) = HeaderSize + size
      /\ NewUsedSize(h, SubArenaRequest(size), DefaultAlignment)
           = AlignedStart(h, DefaultAlignment) + HeaderSize + size
      /\ AlignedStart(h, DefaultAlignment) + HeaderSize + size <= total_size[h]
  <2>1. total_size[h] + HeaderSize + size + MaxAlignment <= SizeModulus
    BY <1>1, SmallRequests, ArenaAssumption DEF Rooted
  <2>2. SubArenaRequest(size) = HeaderSize + size
    <3>1. HeaderSize + size \in 0 .. SizeModulus - 1
      BY <1>1, <2>1, ArenaAssumption
    <3> QED
      BY <3>1, ArenaAssumption DEF SubArenaRequest
  <2> QED
    BY <1>1, <2>1, <2>2, GrantBounds DEF SubArenaCreate
<1>3. /\ b \in BlockType /\ b.owner = h /\ b.child = s
      /\ b.lo = memory[h] + AlignedStart(h, DefaultAlignment)
      /\ b.hi = b.lo + HeaderSize + size
  BY <1>1, <1>2 DEF Grant, BlockType
<1>4. /\ Fresh(b, h)
      /\ b.hi = memory[h] + used_size'[h] /\ used_size'[h] \in Nat
      /\ used_size'[h] <= total_size[h] /\ used_size[h] <= used_size'[h]
  BY <1>1, <1>2, <1>3 DEF SubArenaCreate, Top, TypeOK, Fresh
<1>5. blocks' = blocks \cup {b} /\ live' = live \cup {s} /\ touched' = touched \cup {h}
  BY DEF SubArenaCreate
<1>6. /\ \A k \in live : /\ memory'[k] = memory[k]
                        /\ total_size'[k] = total_size[k]
                        /\ parent'[k] = parent[k]
                        /\ Base(k)' = Base(k) /\ Top(k)' = Top(k)
      /\ \A k \in live \ {h} : /\ used_size'[k] = used_size[k]
                               /\ previous_size'[k] = previous_size[k]
      /\ previous_size'[h] = used_size'[h]
  BY <1>1 DEF SubArenaCreate, ParentPreviousSize, Base, Top, HeaderSize, TypeOK
<1>7. /\ memory'[s] = b.lo + HeaderSize /\ total_size'[s] = size
      /\ used_size'[s] = 0 /\ parent'[s] = h
      /\ Base(s)' = b.lo /\ Top(s)' = b.hi
  <2>1. /\ memory'[s] = b.lo + HeaderSize /\ total_size'[s] = size
        /\ used_size'[s] = 0 /\ parent'[s] = h
    BY <1>1 DEF SubArenaCreate, TypeOK
  <2> QED
    BY <1>1, <1>3, <2>1 DEF Base, Top, HeaderSize, BlockType
<1>8. TypeOK'
  <2>1. blocks' \subseteq BlockType
    BY <1>3, <1>5 DEF TypeOK, BlockType
  <2>2. used_size' \in [Arenas -> 0 .. SizeModulus - 1]
    <3>1. NewUsedSize(h, SubArenaRequest(size), DefaultAlignment)
            \in 0 .. SizeModulus - 1
      BY <1>1, <1>2, ArenaAssumption DEF TypeOK
    <3>2. 0 \in 0 .. SizeModulus - 1
      BY ArenaAssumption
    <3>3. used_size' = [used_size EXCEPT
            ![h] = NewUsedSize(h, SubArenaRequest(size), DefaultAlignment),
            ![s] = 0]
      BY DEF SubArenaCreate
    <3> QED
      BY <3>1, <3>2, <3>3 DEF TypeOK
  <2>3. previous_size' \in [Arenas -> 0 .. SizeModulus - 1]
    <3>1. ParentPreviousSize(h, size) \in 0 .. SizeModulus - 1
      BY <1>1, <1>2, ArenaAssumption DEF TypeOK, ParentPreviousSize
    <3>2. \A n : Uninitialized(n) \subseteq 0 .. SizeModulus - 1
      BY ArenaAssumption DEF Uninitialized
    <3> QED
      BY <3>1, <3>2 DEF TypeOK, SubArenaCreate
  <2>4. fresh' \in Nat
    BY <1>3 DEF TypeOK, SubArenaCreate, Larger, BlockType
  <2>5. /\ total_size' \in [Arenas -> 0 .. SizeModulus - 1]
        /\ memory' \in [Arenas -> Nat]
        /\ parent' \in [Arenas -> Arenas \cup {NoArena}]
    <3>1. /\ total_size' = [total_size EXCEPT ![s] = size]
          /\ memory' = [memory EXCEPT ![s] = b.lo + HeaderSize]
          /\ parent' = [parent EXCEPT ![s] = h]
      BY DEF SubArenaCreate
    <3>2. size \in 0 .. SizeModulus - 1 /\ b.lo + HeaderSize \in Nat
      BY <1>3, ArenaAssumption DEF BlockType
    <3> QED
      BY <3>1, <3>2 DEF TypeOK
  <2> QED
    BY <1>1, <1>5, <2>1, <2>2, <2>3, <2>4, <2>5 DEF TypeOK, BlockType
<1>9. ASSUME NEW k \in live, k # h
      PROVE  Outside(b, k) \/ (Within(b, k) /\ (k \in touched => Below(b, k)))
  BY <1>1, <1>4, <1>9, NewBlockElsewhere
<1>10. ASSUME NEW c \in blocks
       PROVE  Disjoint(b, c) \/ InPayload(b, c)
  BY <1>1, <1>4, NewBlockDisjoint
<1>11. b.lo < b.hi /\ b.lo \in Nat /\ b.hi \in Nat
  BY <1>1, <1>3 DEF BlockType
<1>12. Rooted'
  <2>1. Root \in live
    BY <1>1 DEF Rooted
  <2>2. ASSUME NEW c \in blocks PROVE Within(c, Root)' /\ c.lo < c.hi
    <3>1. Within(c, Root) /\ c.lo < c.hi
      BY DEF Rooted
    <3> QED
      BY <1>4, <1>6, <2>1, <3>1 DEF Within
  <2>3. Within(b, Root)'
    <3>1. CASE h = Root
      BY <1>3, <1>4, <1>6, <1>11, <2>1, <3>1 DEF Within, Fresh
    <3>2. CASE h # Root
      <4>1. h \in live \cap SubArenas
        BY <1>1, <3>2 DEF Arenas
      <4>2. PICK d \in blocks : Held(d, h)
        BY <4>1 DEF SubArenasHeld
      <4>3. Within(d, Root)
        BY DEF Rooted
      <4>4. memory[Root] <= b.lo /\ b.hi <= memory[Root] + used_size[Root]
        BY <1>1, <1>4, <1>11, <2>1, <4>2, <4>3 DEF Within, Held, Fresh
      <4>5. memory'[Root] = memory[Root] /\ used_size'[Root] = used_size[Root]
        BY <1>6, <2>1, <3>2
      <4> QED
        BY <4>4, <4>5 DEF Within
    <3> QED
      BY <3>1, <3>2
  <2>4. parent'[Root] = NoArena
    BY <1>6, <2>1 DEF Rooted
  <2>5. \A k \in live' : total_size'[k] \in ArenaSizes \cup SubArenaSizes
    BY <1>5, <1>6, <1>7 DEF Rooted
  <2>6. \A k \in live' \cap SubArenas : parent'[k] # NoArena
    BY <1>5, <1>6, <1>7, ArenaAssumption DEF Rooted
  <2> QED
    BY <1>5, <1>11, <2>1, <2>2, <2>3, <2>4, <2>5, <2>6 DEF Rooted
<1>13. SubArenasHeld'
  <2>1. \A c \in BlockType, k \in live : Held(c, k)' = Held(c, k)
    BY <1>6 DEF Held
  <2>2. Held(b, s)'
    BY <1>3, <1>7 DEF Held
  <2> QED
    BY <1>3, <1>5, <2>1, <2>2 DEF SubArenasHeld
<1>14. BlocksAccounted'
  <2>1. \A k \in live' : used_size'[k] <= total_size'[k]
    BY <1>1, <1>4, <1>5, <1>6, <1>7 DEF BlocksAccounted
  <2>2. ASSUME NEW c \in blocks
        PROVE  /\ c.owner \in live' /\ memory'[c.owner] <= c.lo
               /\ c.hi <= memory'[c.owner] + used_size'[c.owner]
    BY <1>1, <1>4, <1>5, <1>6 DEF BlocksAccounted
  <2>3. memory'[h] <= b.lo /\ b.hi <= memory'[h] + used_size'[h]
    BY <1>1, <1>4, <1>6, <1>11 DEF Fresh
  <2> QED
    BY <1>1, <1>3, <1>5, <2>1, <2>2, <2>3 DEF BlocksAccounted
<1>15. Separated'
  <2>1. ASSUME NEW k \in live, NEW c \in blocks
        PROVE  Outside(c, k)' \/ Encloses(c, k)' \/ Within(c, k)'
    <3>1. Outside(c, k) \/ Encloses(c, k) \/ Within(c, k)
      BY DEF Separated
    <3> QED
      BY <1>4, <1>6, <3>1
      DEF Outside, Encloses, Within, HeaderSize
  <2>2. ASSUME NEW k \in live
        PROVE  Outside(b, k)' \/ Within(b, k)'
    <3>1. CASE k = h
      BY <1>4, <1>6, <1>11, <3>1 DEF Within, Fresh
    <3>2. CASE k # h
      BY <1>6, <1>9, <3>2 DEF Outside, Within
    <3> QED
      BY <3>1, <3>2
  <2>3. ASSUME NEW c \in blocks
        PROVE  Outside(c, s)' \/ Encloses(c, s)'
    <3>1. Outside(c, h) \/ Encloses(c, h) \/ Within(c, h)
      BY <1>1 DEF Separated
    <3>2. CASE Outside(c, h)
      BY <1>1, <1>4, <1>7, <1>11, <3>2 DEF Outside, Fresh
    <3>3. CASE Encloses(c, h)
      BY <1>1, <1>4, <1>7, <1>11, <3>3 DEF Encloses, Fresh, HeaderSize
    <3>4. CASE Within(c, h)
      BY <1>1, <1>4, <1>7, <1>11, <3>4 DEF Outside, Within, Fresh
    <3> QED
      BY <3>1, <3>2, <3>3, <3>4
  <2>4. Encloses(b, s)'
    BY <1>1, <1>3, <1>7, <1>11 DEF Encloses, HeaderSize
  <2> QED
    BY <1>5, <2>1, <2>2, <2>3, <2>4 DEF Separated
<1>16. BlocksDisjoint'
  BY <1>5, <1>10 DEF BlocksDisjoint, Disjoint, InPayload, HeaderSize
<1>17. PopSafe'
  <2>1. ASSUME NEW k \in touched, k # h
        PROVE  /\ previous_size'[k] <= total_size'[k]
               /\ \A c \in blocks' :
                    Outside(c, k)' \/ Encloses(c, k)' \/ Below(c, k)' \/ Above(c, k)'
               /\ \A c, d \in blocks' : Above(c, k)' /\ Above(d, k)' => c = d
    <3>1. k \in live
      BY DEF TypeOK
    <3>2. Outside(b, k) \/ Below(b, k)
      BY <1>9, <2>1, <3>1
    <3>3. ~ Above(b, k)'
      BY <1>1, <1>3 DEF Above
    <3>4. /\ memory'[k] = memory[k] /\ previous_size'[k] = previous_size[k]
          /\ total_size'[k] = total_size[k]
          /\ Base(k)' = Base(k) /\ Top(k)' = Top(k)
      BY <1>6, <2>1, <3>1
    <3>5. ASSUME NEW c
          PROVE  /\ Outside(c, k)' <=> Outside(c, k)
                 /\ Encloses(c, k)' <=> Encloses(c, k)
                 /\ Below(c, k)' <=> Below(c, k)
                 /\ Above(c, k)' <=> Above(c, k)
      BY <3>4 DEF Outside, Encloses, Below, Above, HeaderSize
    <3> QED
      BY <1>5, <2>1, <3>2, <3>3, <3>4, <3>5 DEF PopSafe
  <2>2. ASSUME NEW c \in blocks
        PROVE  /\ Outside(c, h)' \/ Encloses(c, h)' \/ Below(c, h)'
               /\ ~ Above(c, h)'
    <3>1. Outside(c, h) \/ Encloses(c, h) \/ Within(c, h)
      BY <1>1 DEF Separated
    <3>2. ~ Above(c, h)'
      BY <1>1, <1>4, <1>6, <2>2 DEF Above, BlocksAccounted, Rooted
    <3> QED
      BY <1>1, <1>4, <1>6, <3>1, <3>2
      DEF Outside, Encloses, Within, Below, HeaderSize
  <2>3. Below(b, h)' /\ ~ Above(b, h)'
    BY <1>1, <1>3, <1>4, <1>6 DEF Below, Above
  <2>4. previous_size'[h] <= total_size'[h]
    BY <1>1, <1>4, <1>6
  <2> QED
    BY <1>5, <2>1, <2>2, <2>3, <2>4 DEF PopSafe
<1> QED
  BY <1>8, <1>12, <1>13, <1>14, <1>15, <1>16, <1>17

(* A region given up, when what is left in the arenas that are left is     *)
(* still accounted for.                                                    *)
LEMMA RemovalIInv ==
  ASSUME IInv, TypeOK', NEW lo \in Int, NEW hi \in Int, Forget(lo, hi),
         parent'[Root] = NoArena,
         \A k \in live' : /\ total_size'[k] = total_size[k]
                          /\ memory'[k] = memory[k]
                          /\ parent'[k] = parent[k]
                          /\ previous_size'[k] = previous_size[k]
                          /\ used_size'[k] <= total_size[k]
                          /\ \A c \in blocks' : Within(c, k) => Within(c, k)'
  PROVE  IInv'
<1> USE DEF IInv
<1>1. /\ live' \subseteq live /\ blocks' \subseteq blocks
      /\ touched' \subseteq touched /\ touched' \subseteq live'
      /\ SubArenasHeld' /\ BlocksDisjoint'
      /\ \A c \in blocks' : c.owner \in live'
      /\ live # {} => Root \in live'
  BY ForgetKeeps
<1>2. \A k \in live' : Base(k)' = Base(k) /\ Top(k)' = Top(k)
  BY DEF Base, Top, HeaderSize
<1>3. ASSUME NEW k \in live', NEW c
      PROVE  /\ Outside(c, k)' <=> Outside(c, k)
             /\ Encloses(c, k)' <=> Encloses(c, k)
             /\ Below(c, k)' <=> Below(c, k)
             /\ Above(c, k)' <=> Above(c, k)
  BY <1>2 DEF Outside, Encloses, Below, Above, HeaderSize
<1>4. Rooted'
  BY <1>1 DEF Rooted, BlocksAccounted
<1>5. BlocksAccounted'
  BY <1>1 DEF BlocksAccounted, Within
<1>6. Separated'
  <2>1. ASSUME NEW k \in live', NEW c \in blocks'
        PROVE  Outside(c, k)' \/ Encloses(c, k)' \/ Within(c, k)'
    BY <1>1, <1>3 DEF Separated
  <2> QED
    BY <2>1 DEF Separated
<1>7. PopSafe'
  <2>1. ASSUME NEW k \in touched'
        PROVE  /\ previous_size'[k] <= total_size'[k]
               /\ \A c \in blocks' :
                    Outside(c, k)' \/ Encloses(c, k)' \/ Below(c, k)' \/ Above(c, k)'
               /\ \A c, d \in blocks' : Above(c, k)' /\ Above(d, k)' => c = d
    BY <1>1, <1>3 DEF PopSafe
  <2> QED
    BY <2>1 DEF PopSafe
<1> QED
  BY <1>1, <1>4, <1>5, <1>6, <1>7

LEMMA PopIInv ==
  ASSUME IInv, NEW h \in Arenas, ArenaPop(h)
  PROVE  IInv'
<1> USE FieldTypes, HeaderSizeType DEF IInv
<1> DEFINE lo == memory[h] + previous_size[h]
           hi == memory[h] + total_size[h]
<1>1. h \in live /\ h \in touched
  BY PopAfterAlloc DEF ArenaPop
<1>2. lo \in Int /\ hi \in Int /\ Forget(lo, hi)
  BY <1>1 DEF ArenaPop, PoppedSize
<1>3. /\ UNCHANGED <<total_size, previous_size, parent, memory, fresh>>
      /\ used_size' = [used_size EXCEPT ![h] = previous_size[h]]
  BY DEF ArenaPop, PoppedSize
<1>4. live' \subseteq live /\ blocks' \subseteq blocks /\ touched' \subseteq live'
  BY <1>2 DEF Forget, TypeOK
<1>5. TypeOK'
  BY <1>1, <1>3, <1>4 DEF TypeOK
<1>6. ASSUME NEW c \in blocks', Within(c, h) PROVE Within(c, h)'
  <2>1. ~ Outside(c, h) /\ ~ Encloses(c, h)
    BY <1>1, <1>4, <1>6
    DEF Within, Outside, Encloses, Rooted, BlocksAccounted, Top
  <2>2. ~ Above(c, h)
    BY <1>1, <1>2, <1>4, <1>6
    DEF Within, Above, Forget, BlocksIn, BlocksAccounted
  <2>3. Below(c, h)
    BY <1>1, <1>4, <2>1, <2>2 DEF PopSafe
  <2> QED
    BY <1>1, <1>3, <1>6, <2>3 DEF Within, Below, TypeOK
<1>7. \A k \in live' : /\ used_size'[k] <= total_size[k]
                       /\ \A c \in blocks' : Within(c, k) => Within(c, k)'
  <2>1. ASSUME NEW k \in live'
        PROVE  /\ used_size'[k] <= total_size[k]
               /\ \A c \in blocks' : Within(c, k) => Within(c, k)'
    <3>1. CASE k = h
      BY <1>1, <1>3, <1>6, <3>1 DEF PopSafe, TypeOK
    <3>2. CASE k # h
      BY <1>3, <1>4, <3>2 DEF Within, BlocksAccounted, TypeOK
    <3> QED
      BY <3>1, <3>2
  <2> QED
    BY <2>1
<1>8. parent'[Root] = NoArena
  BY <1>3 DEF Rooted
<1> QED
  BY <1>2, <1>3, <1>5, <1>7, <1>8, RemovalIInv

LEMMA ResetIInv ==
  ASSUME IInv, NEW h \in Arenas, ArenaReset(h)
  PROVE  IInv'
<1> USE FieldTypes, HeaderSizeType DEF IInv
<1> DEFINE lo == memory[h]
           hi == memory[h] + total_size[h]
           gone == ArenasIn(lo, hi)
<1>1. h \in live /\ h \notin gone /\ gone \subseteq SubArenas
  BY DEF ArenaReset, ArenasIn, Base
<1>2. lo \in Int /\ hi \in Int /\ Forget(lo, hi)
  BY <1>1 DEF ArenaReset
<1>3. /\ total_size' = Cleared(total_size, gone, 0)
      /\ parent' = Cleared(parent, gone, NoArena)
      /\ memory' = Cleared(memory, gone, 0)
      /\ previous_size' = Cleared(previous_size, gone, 0)
      /\ used_size' = [Cleared(used_size, gone, 0) EXCEPT ![h] = 0]
      /\ fresh' = fresh
  BY DEF ArenaReset, ClearFixedFields
<1>4. /\ live' = live \ gone /\ blocks' \subseteq blocks /\ touched' \subseteq live'
      /\ \A c \in blocks' : ~ (lo <= c.lo /\ c.hi <= hi)
  BY <1>2 DEF Forget, TypeOK, BlocksIn
<1>5. /\ \A k \in live' : /\ total_size'[k] = total_size[k]
                          /\ memory'[k] = memory[k]
                          /\ parent'[k] = parent[k]
                          /\ previous_size'[k] = previous_size[k]
      /\ \A k \in live' \ {h} : used_size'[k] = used_size[k]
      /\ used_size'[h] = 0
      /\ parent'[Root] = NoArena
  BY <1>1, <1>3, <1>4, ArenaAssumption DEF Cleared, TypeOK, Rooted, Arenas
<1>6. TypeOK'
  <2>1. 0 \in 0 .. SizeModulus - 1
    BY ArenaAssumption
  <2>2. /\ total_size' \in [Arenas -> 0 .. SizeModulus - 1]
        /\ previous_size' \in [Arenas -> 0 .. SizeModulus - 1]
        /\ parent' \in [Arenas -> Arenas \cup {NoArena}]
        /\ memory' \in [Arenas -> Nat]
    BY <1>3, <2>1 DEF TypeOK, Cleared
  <2>3. used_size' \in [Arenas -> 0 .. SizeModulus - 1]
    BY <1>3, <2>1 DEF TypeOK, Cleared
  <2> QED
    BY <1>3, <1>4, <2>2, <2>3 DEF TypeOK
<1>7. \A k \in live' : /\ used_size'[k] <= total_size[k]
                       /\ \A c \in blocks' : Within(c, k) => Within(c, k)'
  <2>1. ASSUME NEW k \in live'
        PROVE  /\ used_size'[k] <= total_size[k]
               /\ \A c \in blocks' : Within(c, k) => Within(c, k)'
    <3>1. CASE k = h
      BY <1>1, <1>4, <1>5, <3>1 DEF Within, BlocksAccounted
    <3>2. CASE k # h
      BY <1>4, <1>5, <3>2 DEF Within, BlocksAccounted
    <3> QED
      BY <3>1, <3>2
  <2> QED
    BY <2>1
<1> QED
  BY <1>2, <1>5, <1>6, <1>7, RemovalIInv

LEMMA SubArenaDestroyIInv ==
  ASSUME IInv, NEW s \in live \cap SubArenas, SubArenaDestroy(s)
  PROVE  IInv'
<1> USE FieldTypes, HeaderSizeType DEF IInv
<1> DEFINE lo == WipedFrom(s)
           hi == WipedTo(s)
           gone == ArenasIn(lo, hi)
<1>1. gone \subseteq SubArenas
  BY DEF ArenasIn
<1>2. lo \in Int /\ hi \in Int /\ Forget(lo, hi)
  BY DEF SubArenaDestroy, WipedFrom, WipedTo
<1>3. /\ total_size' = Cleared(total_size, gone, 0)
      /\ parent' = Cleared(parent, gone, NoArena)
      /\ memory' = Cleared(memory, gone, 0)
      /\ previous_size' = Cleared(previous_size, gone, 0)
      /\ used_size' = Cleared(used_size, gone, 0)
      /\ fresh' = fresh
  BY DEF SubArenaDestroy, ClearFixedFields
<1>4. live' = live \ gone /\ blocks' \subseteq blocks /\ touched' \subseteq live'
  BY <1>2 DEF Forget, TypeOK
<1>5. /\ \A k \in live' : /\ total_size'[k] = total_size[k]
                          /\ memory'[k] = memory[k]
                          /\ parent'[k] = parent[k]
                          /\ previous_size'[k] = previous_size[k]
                          /\ used_size'[k] = used_size[k]
      /\ parent'[Root] = NoArena
  BY <1>1, <1>3, <1>4, ArenaAssumption DEF Cleared, TypeOK, Rooted, Arenas
<1>6. TypeOK'
  <2>1. 0 \in 0 .. SizeModulus - 1
    BY ArenaAssumption
  <2>2. /\ total_size' \in [Arenas -> 0 .. SizeModulus - 1]
        /\ previous_size' \in [Arenas -> 0 .. SizeModulus - 1]
        /\ used_size' \in [Arenas -> 0 .. SizeModulus - 1]
        /\ parent' \in [Arenas -> Arenas \cup {NoArena}]
        /\ memory' \in [Arenas -> Nat]
    BY <1>3, <2>1 DEF TypeOK, Cleared
  <2> QED
    BY <1>3, <1>4, <2>2 DEF TypeOK
<1>7. \A k \in live' : /\ used_size'[k] <= total_size[k]
                       /\ \A c \in blocks' : Within(c, k) => Within(c, k)'
  BY <1>4, <1>5 DEF Within, BlocksAccounted
<1> QED
  BY <1>2, <1>5, <1>6, <1>7, RemovalIInv

LEMMA RootDestroyIInv ==
  ASSUME IInv, RootDestroy
  PROVE  IInv'
<1>1. TypeOK'
  BY ArenaAssumption DEF RootDestroy, TypeOK
<1> QED
  BY <1>1, ArenaAssumption
  DEF RootDestroy, IInv, Rooted, SubArenasHeld, BlocksAccounted, Separated,
      PopSafe, BlocksDisjoint, Arenas

-----------------------------------------------------------------------------
(* The theorems.                                                           *)

LEMMA NextIInv == IInv /\ [Next]_vars => IInv'
<1> SUFFICES ASSUME IInv, [Next]_vars PROVE IInv'
  OBVIOUS
<1>1. CASE UNCHANGED vars
  BY <1>1
  DEF vars, IInv, TypeOK, Rooted, SubArenasHeld, Held, BlocksAccounted,
      Separated, PopSafe, BlocksDisjoint, Disjoint, InPayload, Outside,
      Encloses, Within, Below, Above, Base, Top, HeaderSize
<1>2. ASSUME NEW size \in ArenaSizes, ArenaCreate(size) PROVE IInv'
  BY <1>2, ArenaCreateIInv
<1>3. ASSUME NEW h \in Arenas, NEW size \in BlockSizes, NEW a \in Alignments,
             ArenaAllocAligned(h, size, a)
      PROVE  IInv'
  BY <1>3, AllocIInv
<1>4. ASSUME NEW h \in Arenas, NEW size \in BlockSizes, NEW a \in Alignments,
             AllocFails(h, size, a)
      PROVE  IInv'
  BY <1>1, <1>4 DEF AllocFails
<1>5. ASSUME NEW h \in Arenas, NEW s \in SubArenas, NEW size \in SubArenaSizes,
             SubArenaCreate(h, s, size)
      PROVE  IInv'
  BY <1>5, SubArenaCreateIInv
<1>6. ASSUME NEW h \in Arenas, NEW size \in SubArenaSizes,
             SubArenaCreateFails(h, size)
      PROVE  IInv'
  BY <1>1, <1>6 DEF SubArenaCreateFails
<1>7. ASSUME NEW h \in Arenas, ArenaPop(h) PROVE IInv'
  BY <1>7, PopIInv
<1>8. ASSUME NEW h \in Arenas, ArenaReset(h) PROVE IInv'
  BY <1>8, ResetIInv
<1>9. ASSUME NEW h \in Arenas, ArenaDestroy(h) PROVE IInv'
  <2>1. CASE parent[h] # NoArena /\ SubArenaDestroy(h)
    <3>1. h \in live \cap SubArenas
      BY <1>9, <2>1 DEF ArenaDestroy, IInv, Rooted, TypeOK, Arenas
    <3> QED
      BY <2>1, <3>1, SubArenaDestroyIInv
  <2>2. CASE RootDestroy
    BY <2>2, RootDestroyIInv
  <2> QED
    BY <1>9, <2>1, <2>2 DEF ArenaDestroy
<1> QED
  BY <1>1, <1>2, <1>3, <1>4, <1>5, <1>6, <1>7, <1>8, <1>9 DEF Next

(* The inductive invariant holds in every reachable state.                 *)
THEOREM Invariance == Spec => []IInv
<1> QED
  BY InitIInv, NextIInv, PTL DEF Spec

(* The fields keep their types, whatever the client calls.                 *)
THEOREM TypeCorrect == Spec => []TypeOK
<1>1. IInv => TypeOK
  BY DEF IInv
<1> QED
  BY <1>1, Invariance, PTL

(* No byte the client holds is granted twice by arena_alloc_aligned or     *)
(* sub_arena_create.                                                       *)
THEOREM NoOverlap == Spec => []BlocksDisjoint
<1>1. IInv => BlocksDisjoint
  BY DEF IInv
<1> QED
  BY <1>1, Invariance, PTL

(* used_size and total_size of an arena account for every block in it.     *)
THEOREM Accounting == Spec => []BlocksAccounted
<1>1. IInv => BlocksAccounted
  BY DEF IInv
<1> QED
  BY <1>1, Invariance, PTL

(* arena_pop gives up at most the last block of its arena, and no          *)
(* sub-arena: what PopSafe says about the mark it returns to.              *)
LEMMA PopStep ==
  ASSUME IInv, NEW h \in Arenas, ArenaPop(h)
  PROVE  /\ live' = live
         /\ \A b \in blocks \ blocks' :
              /\ b.owner = h
              /\ \A c \in blocks \ {b} : c.owner = h => c.hi <= b.lo
<1> USE FieldTypes, HeaderSizeType DEF IInv
<1> DEFINE lo == memory[h] + previous_size[h]
           hi == memory[h] + total_size[h]
<1>1. h \in live /\ h \in touched /\ Forget(lo, hi)
  BY PopAfterAlloc DEF ArenaPop, PoppedSize
<1>2. ASSUME NEW b \in blocks, lo <= b.lo, b.hi <= hi
      PROVE  Above(b, h)
  <2>1. b.lo < b.hi
    BY DEF Rooted
  <2>2. ~ Outside(b, h) /\ ~ Encloses(b, h) /\ ~ Below(b, h)
    BY <1>1, <1>2, <2>1 DEF Outside, Encloses, Below, Top
  <2> QED
    BY <1>1, <2>2 DEF PopSafe
<1>3. ASSUME NEW s \in ArenasIn(lo, hi) PROVE FALSE
  <2>1. s \in live \cap SubArenas /\ lo <= Base(s) /\ Top(s) <= hi
    BY <1>3 DEF ArenasIn, Base, Top
  <2>2. PICK c \in blocks : Held(c, s)
    BY <2>1 DEF SubArenasHeld
  <2>3. Above(c, h)
    BY <1>2, <2>1, <2>2 DEF Held
  <2> QED
    BY <2>1, <2>2, <2>3, ArenaAssumption DEF Above, Held, Arenas
<1>4. live' = live
  BY <1>1, <1>3 DEF Forget
<1>5. ASSUME NEW b \in blocks \ blocks'
      PROVE  /\ b.owner = h
             /\ \A c \in blocks \ {b} : c.owner = h => c.hi <= b.lo
  <2>1. Above(b, h)
    BY <1>1, <1>2 DEF Forget, BlocksIn
  <2>2. ASSUME NEW c \in blocks \ {b}, c.owner = h PROVE c.hi <= b.lo
    <3>1. ~ Above(c, h)
      BY <1>1, <2>1, <2>2 DEF PopSafe
    <3>2. ~ Outside(c, h) /\ ~ Encloses(c, h)
      BY <1>1, <2>2 DEF Rooted, BlocksAccounted, Outside, Encloses, Top
    <3>3. Below(c, h)
      BY <1>1, <3>1, <3>2 DEF PopSafe
    <3> QED
      BY <1>1, <2>1, <3>3 DEF Above, Below
  <2> QED
    BY <2>1, <2>2 DEF Above
<1> QED
  BY <1>4, <1>5

(* The action property that the run arena checks, for every size.          *)
THEOREM PopReverts == Spec => PopRevertsLastGrant
<1>1. IInv /\ [Next]_vars =>
        [\A h \in Arenas : ArenaPop(h) =>
           /\ live' = live
           /\ \A b \in blocks \ blocks' :
                /\ b.owner = h
                /\ \A c \in blocks \ {b} : c.owner = h => c.hi <= b.lo]_vars
  BY PopStep
<1> QED
  BY <1>1, Invariance, PTL DEF Spec, PopRevertsLastGrant
-----------------------------------------------------------------------------
(* Alignment.                                                              *)

(* Of two powers of two the smaller divides the larger, which follows from *)
(* AlignmentAssumption by an induction that is out of reach here; and      *)
(* sizeof(struct ORArena), 40, is a multiple of DEFAULT_ALIGNMENT, 8.      *)
ASSUME AlignmentsDivide ==
  \A a \in Alignments \cup {DefaultAlignment} :
    /\ a <= MaxAlignment => MaxAlignment % a = 0
    /\ a <= DefaultAlignment => DefaultAlignment % a = 0
ASSUME HeaderAligned == HeaderSize % DefaultAlignment = 0

LEMMA DivMod ==
  ASSUME NEW n \in Int, NEW a \in Nat \ {0}
  PROVE  n \div a \in Int /\ n = a * (n \div a) + (n % a) /\ n % a \in 0 .. a - 1
<1>1. a \in Int /\ a > 0
  OBVIOUS
<1>2. ASSUME NEW b \in Int, b > 0 PROVE n = b * (n \div b) + (n % b)
  BY <1>2
<1> QED
  BY <1>1, <1>2

LEMMA MultipleMod ==
  ASSUME NEW k \in Int, NEW a \in Nat \ {0}
  PROVE  (a * k) % a = 0
<1> DEFINE n == a * k
           q == n \div a
           r == n % a
<1>0. n \in Int
  OBVIOUS
<1>1. n \in Int /\ q \in Int /\ r \in 0 .. a - 1 /\ n = a * q + r
  BY <1>0, DivMod
<1> HIDE DEF n, q, r
<1>2. n = a * k
  BY DEF n
<1>3. PICK d \in Int : d = k - q
  BY <1>1
<1>4. a * d = r
  <2>1. a * (k - q) = a * k - a * q
    BY <1>1
  <2> QED
    BY <1>1, <1>2, <1>3, <2>1
<1>5. ~ (d >= 1)
  <2>1. d >= 1 => a * d >= a
    OBVIOUS
  <2> QED
    BY <1>1, <1>4, <2>1
<1>6. ~ (d <= -1)
  <2>1. d <= -1 => a * d <= -a
    OBVIOUS
  <2> QED
    BY <1>1, <1>4, <2>1
<1>7. d = 0
  BY <1>5, <1>6
<1> QED
  BY <1>4, <1>7 DEF r, n

LEMMA DividesSum ==
  ASSUME NEW a \in Nat \ {0}, NEW m \in Int, NEW n \in Int, m % a = 0, n % a = 0
  PROVE  (m + n) % a = 0
<1> DEFINE p == m \div a
           q == n \div a
<1>1. p \in Int /\ q \in Int /\ m = a * p /\ n = a * q
  BY DivMod
<1> HIDE DEF p, q
<1>2. m + n = a * (p + q) /\ p + q \in Int
  BY <1>1
<1> QED
  BY <1>2, MultipleMod

LEMMA DividesMultiple ==
  ASSUME NEW a \in Nat \ {0}, NEW b \in Nat \ {0}, NEW n \in Int, b % a = 0, n % b = 0
  PROVE  n % a = 0
<1> DEFINE p == b \div a
           q == n \div b
<1>1. p \in Int /\ q \in Int /\ b = a * p /\ n = b * q
  BY DivMod
<1> HIDE DEF p, q
<1>2. n = a * (p * q) /\ p * q \in Int
  BY <1>1
<1> QED
  BY <1>2, MultipleMod

(* align_up returns a multiple of the alignment.                           *)
LEMMA AlignUpAligns ==
  ASSUME NEW n \in Nat, NEW a \in Nat \ {0}
  PROVE  AlignUp(n, a) % a = 0 /\ AlignUp(n, a) \in Int
<1> DEFINE m == (n + a - 1) % SizeModulus
<1>1. m \in Int
  BY ArenaAssumption
<1> HIDE DEF m
<1>2. m - (m % a) = a * (m \div a) /\ m \div a \in Int /\ m - (m % a) \in Int
  BY <1>1, DivMod
<1>3. (m - (m % a)) % a = 0 /\ m - (m % a) \in Int
  BY <1>2, MultipleMod
<1> QED
  BY <1>3 DEF AlignUp, m

(* The memory of the root is aligned for any allocation, that of a         *)
(* sub-arena only by default.                                              *)
MemoryAligned ==
  \A h \in live :
    memory[h] % (IF h = Root THEN MaxAlignment ELSE DefaultAlignment) = 0
Aligned == MemoryAligned /\ BlocksAligned

LEMMA AlignedKept ==
  ASSUME Aligned, live' \subseteq live, blocks' \subseteq blocks,
         \A h \in live' : memory'[h] = memory[h]
  PROVE  Aligned'
BY DEF Aligned, MemoryAligned, BlocksAligned

(* A grant of arena h is aligned, if h is the root or the alignment is not *)
(* beyond the default.                                                     *)
LEMMA GrantAligned ==
  ASSUME IInv, Aligned, NEW h \in live, NEW a \in Alignments \cup {DefaultAlignment},
         a <= MaxAlignment, h = Root \/ a <= DefaultAlignment
  PROVE  (memory[h] + AlignedStart(h, a)) % a = 0
<1>1. /\ memory[h] \in Nat /\ used_size[h] \in Nat /\ a \in Nat \ {0}
      /\ MaxAlignment \in Nat \ {0} /\ DefaultAlignment \in Nat \ {0}
  BY FieldTypes, ArenaAssumption DEF IInv
<1>2. AlignedStart(h, a) % a = 0 /\ AlignedStart(h, a) \in Int
  BY <1>1, AlignUpAligns DEF AlignedStart
<1>3. memory[h] % a = 0
  <2>1. CASE h = Root
    <3>1. memory[h] % MaxAlignment = 0 /\ MaxAlignment % a = 0
      BY <2>1, AlignmentsDivide DEF Aligned, MemoryAligned
    <3> QED
      BY <1>1, <3>1, DividesMultiple
  <2>2. CASE h # Root
    <3>1. memory[h] % DefaultAlignment = 0 /\ DefaultAlignment % a = 0
      BY <2>2, AlignmentsDivide DEF Aligned, MemoryAligned
    <3> QED
      BY <1>1, <3>1, DividesMultiple
  <2> QED
    BY <2>1, <2>2
<1> QED
  BY <1>1, <1>2, <1>3, DividesSum

LEMMA NextAligned ==
  ASSUME IInv, Aligned, [Next]_vars
  PROVE  Aligned'
<1> USE FieldTypes DEF IInv
<1>1. ASSUME NEW size \in ArenaSizes, ArenaCreate(size) PROVE Aligned'
  <2>1. blocks' = {} /\ live' = {Root} /\ memory'[Root] = AlignUp(HeaderSize, MaxAlignment)
    BY <1>1 DEF ArenaCreate, Rooted, BlocksAccounted, TypeOK, Arenas
  <2>2. AlignUp(HeaderSize, MaxAlignment) % MaxAlignment = 0
    BY HeaderSizeType, ArenaAssumption, AlignUpAligns
  <2> QED
    BY <2>1, <2>2 DEF Aligned, MemoryAligned, BlocksAligned
<1>2. ASSUME NEW h \in Arenas, NEW size \in BlockSizes, NEW a \in Alignments,
             ArenaAllocAligned(h, size, a)
      PROVE  Aligned'
  <2>1. h \in live /\ a <= MaxAlignment /\ UNCHANGED <<memory, live>>
    BY <1>2 DEF ArenaAllocAligned, Fits
  <2>2. PICK b : b = Grant(h, size, a, NoArena)
    OBVIOUS
  <2>3. blocks' \subseteq blocks \cup {b}
    BY <1>2, <2>2 DEF ArenaAllocAligned
  <2>4. b.owner = h /\ b.align = a /\ b.lo = memory[h] + AlignedStart(h, a)
    BY <2>2 DEF Grant
  <2>5. h = Root \/ a <= DefaultAlignment => b.lo % a = 0
    BY <2>1, <2>4, GrantAligned
  <2> QED
    BY <2>1, <2>3, <2>4, <2>5 DEF Aligned, MemoryAligned, BlocksAligned
<1>3. ASSUME NEW h \in Arenas, NEW s \in SubArenas, NEW size \in SubArenaSizes,
             SubArenaCreate(h, s, size)
      PROVE  Aligned'
  <2>1. /\ h \in live /\ live' = live \cup {s} /\ s # Root
        /\ DefaultAlignment \in Nat \ {0} /\ DefaultAlignment <= MaxAlignment
    BY <1>3, ArenaAssumption DEF SubArenaCreate
  <2>2. PICK b : b = Grant(h, HeaderSize + size, DefaultAlignment, s)
    OBVIOUS
  <2>3. /\ blocks' = blocks \cup {b}
        /\ memory'[s] = b.lo + HeaderSize /\ \A k \in live : memory'[k] = memory[k]
    BY <1>3, <2>2 DEF SubArenaCreate, TypeOK, Arenas
  <2>4. /\ b.owner = h /\ b.align = DefaultAlignment
        /\ b.lo = memory[h] + AlignedStart(h, DefaultAlignment)
    BY <2>2 DEF Grant
  <2>5. b.lo % DefaultAlignment = 0 /\ b.lo \in Int
    <3>1. AlignedStart(h, DefaultAlignment) \in Int /\ memory[h] \in Int
      BY <2>1, AlignUpAligns DEF AlignedStart
    <3> QED
      BY <2>1, <2>4, <3>1, GrantAligned
  <2>6. memory'[s] % DefaultAlignment = 0
    BY <2>1, <2>3, <2>5, HeaderSizeType, HeaderAligned, DividesSum
  <2> QED
    BY <2>1, <2>3, <2>4, <2>5, <2>6 DEF Aligned, MemoryAligned, BlocksAligned
<1>4. ASSUME NEW h \in Arenas, ArenaPop(h) \/ ArenaReset(h) PROVE Aligned'
  <2>1. live' \subseteq live /\ blocks' \subseteq blocks
    BY <1>4 DEF ArenaPop, ArenaReset, Forget
  <2>2. \A k \in live' : memory'[k] = memory[k]
    BY <1>4 DEF ArenaPop, ArenaReset, ClearFixedFields, Cleared, Forget, TypeOK
  <2> QED
    BY <2>1, <2>2, AlignedKept
<1>5. ASSUME NEW h \in Arenas, ArenaDestroy(h) PROVE Aligned'
  <2>1. CASE SubArenaDestroy(h)
    <3>1. live' \subseteq live /\ blocks' \subseteq blocks
      BY <2>1 DEF SubArenaDestroy, Forget
    <3>2. \A k \in live' : memory'[k] = memory[k]
      BY <2>1 DEF SubArenaDestroy, ClearFixedFields, Cleared, Forget, TypeOK
    <3> QED
      BY <3>1, <3>2, AlignedKept
  <2>2. CASE RootDestroy
    BY <2>2, AlignedKept DEF RootDestroy
  <2> QED
    BY <1>5, <2>1, <2>2 DEF ArenaDestroy
<1>6. CASE UNCHANGED vars
  BY <1>6, AlignedKept DEF vars
<1> QED
  BY <1>1, <1>2, <1>3, <1>4, <1>5, <1>6 DEF Next, AllocFails, SubArenaCreateFails

(* A block has the alignment that was asked for in the root arena, and up  *)
(* to the default alignment in a sub-arena (BlocksAligned).                *)
THEOREM Alignment == Spec => []BlocksAligned
<1>1. Init => Aligned
  BY DEF Init, Aligned, MemoryAligned, BlocksAligned
<1>2. IInv /\ Aligned /\ [Next]_vars => Aligned'
  BY NextAligned
<1>3. Aligned => BlocksAligned
  BY DEF Aligned
<1> QED
  BY <1>1, <1>2, <1>3, Invariance, PTL DEF Spec

-----------------------------------------------------------------------------
(* Arena implements Allocator: in the inductive invariant each call is a   *)
(* step of Allocator, or one that Allocator does not see.                  *)

(* The sub-arenas in a region that is given up are those of the blocks in  *)
(* it, so that Forget is GiveUp.                                           *)
LEMMA ForgetGivesUp ==
  ASSUME IInv, NEW lo \in Int, NEW hi \in Int, Forget(lo, hi),
         \A k \in live' : memory'[k] = memory[k] /\ total_size'[k] = total_size[k]
  PROVE  Promise!GiveUp(BlocksIn(lo, hi))
<1> USE FieldTypes, HeaderSizeType DEF IInv
<1>1. ASSUME NEW k \in live
      PROVE  k \in ArenasIn(lo, hi) <=> \E b \in BlocksIn(lo, hi) : b.child = k
  <2>1. ASSUME k \in ArenasIn(lo, hi)
        PROVE  \E b \in BlocksIn(lo, hi) : b.child = k
    <3>1. k \in SubArenas /\ lo <= Base(k) /\ Top(k) <= hi
      BY <2>1 DEF ArenasIn, Base, Top
    <3>2. PICK c \in blocks : Held(c, k)
      BY <3>1 DEF SubArenasHeld
    <3> QED
      BY <3>1, <3>2 DEF Held, BlocksIn
  <2>2. ASSUME NEW b \in BlocksIn(lo, hi), b.child = k
        PROVE  k \in ArenasIn(lo, hi)
    <3>1. b \in blocks /\ b.child # NoArena /\ b.child \in SubArenas
      BY <2>2, ArenaAssumption DEF BlocksIn, TypeOK, Arenas, BlockType
    <3>2. Held(b, k)
      BY <2>2, <3>1 DEF SubArenasHeld
    <3> QED
      BY <2>2, <3>1, <3>2 DEF Held, BlocksIn, ArenasIn, Base, Top
  <2> QED
    BY <2>1, <2>2
<1>2. live' = {k \in live : \A b \in BlocksIn(lo, hi) : b.child # k}
  BY <1>1 DEF Forget
<1>3. Space' = [k \in live' |-> Space[k]]
  BY <1>2 DEF Space
<1>4. DOMAIN Space = live
  BY DEF Space
<1>5. blocks' = blocks \ BlocksIn(lo, hi)
  BY DEF Forget
<1> QED
  BY <1>2, <1>3, <1>4, <1>5 DEF Promise!GiveUp, Promise!Live

(* A fresh block is apart from all but the blocks its arena lies in, and   *)
(* beyond what the arena granted before.                                   *)
LEMMA FreshIsGranted ==
  ASSUME IInv, NEW h \in live, NEW b, Fresh(b, h), b.owner = h,
         blocks' = blocks \cup {b}
  PROVE  Promise!Grant(h, b)
<1> USE FieldTypes, HeaderSizeType DEF IInv
<1>1. b.lo \in Nat /\ b.hi \in Nat /\ b.lo < b.hi
  BY DEF Fresh, BlockType
<1>2. DOMAIN Space = live /\ \A k \in live : Space[k] = [lo |-> memory[k], hi |-> Top(k)]
  BY DEF Space, Top
<1>3. Promise!Inside(b, Space[h])
  BY <1>1, <1>2 DEF Promise!Inside, Fresh, TypeOK
<1>4. ASSUME NEW c \in blocks
      PROVE  Promise!Apart(b, c) \/ Promise!LiesIn(h, c)
  <2>1. CASE Outside(c, h)
    BY <1>1, <2>1 DEF Outside, Fresh, Promise!Apart
  <2>2. CASE Within(c, h)
    BY <1>1, <2>2 DEF Within, Fresh, Promise!Apart
  <2>3. CASE Encloses(c, h)
    <3>1. c.child \in live /\ Held(c, c.child)
      BY <2>3 DEF Encloses, SubArenasHeld
    <3>2. memory[c.child] <= memory[h] /\ Top(h) <= Top(c.child)
      BY <2>3, <3>1 DEF Encloses, Held, Base
    <3>3. Promise!Inside(Space[h], Space[c.child])
      BY <1>2, <3>1, <3>2 DEF Promise!Inside
    <3> QED
      BY <1>2, <3>1, <3>3 DEF Promise!LiesIn, Promise!Live
  <2> QED
    BY <2>1, <2>2, <2>3 DEF Separated
<1>5. \A c \in blocks : c.owner = h => c.hi <= b.lo
  BY <1>1 DEF BlocksAccounted, Fresh
<1> QED
  BY <1>1, <1>2, <1>3, <1>4, <1>5 DEF Promise!Grant, Promise!Live

-----------------------------------------------------------------------------
(* One lemma for each action.                                              *)

LEMMA InitRefines == Init => Promise!Init
  BY DEF Init, Promise!Init, Space

LEMMA CreateRefines ==
  ASSUME IInv, NEW size \in ArenaSizes, ArenaCreate(size)
  PROVE  Promise!Next
<1>1. live = {} /\ live' = {Root}
  BY DEF ArenaCreate, IInv, Rooted
<1>2. Promise!Create(Space'[Root])
  <2>1. Space' = [h \in {Root} |-> Space'[Root]] /\ Promise!Live = {}
    BY <1>1 DEF Promise!Live, Space
  <2>2. Space'[Root] = [lo |-> memory'[Root], hi |-> memory'[Root] + total_size'[Root]]
    BY <1>1 DEF Space
  <2>3. memory'[Root] \in Nat /\ total_size'[Root] \in Nat
    <3>1. AlignUp(HeaderSize, MaxAlignment) \in Nat
      <4>1. (HeaderSize + MaxAlignment - 1) % SizeModulus \in Nat
        BY HeaderSizeType, ArenaAssumption
      <4>2. \A n \in Nat : n - (n % MaxAlignment) \in Nat
        BY ArenaAssumption
      <4> QED
        BY <4>1, <4>2 DEF AlignUp
    <3>2. memory'[Root] = AlignUp(HeaderSize, MaxAlignment) /\ total_size'[Root] = size
      BY DEF ArenaCreate, IInv, TypeOK, Arenas
    <3> QED
      BY <3>1, <3>2, ArenaAssumption
  <2> QED
    BY <2>1, <2>2, <2>3 DEF ArenaCreate, Promise!Create, Promise!Regions
<1>3. Root \in DOMAIN Space'
  BY <1>1 DEF Space
<1> QED
  BY <1>2, <1>3 DEF Promise!Next

LEMMA AllocRefines ==
  ASSUME IInv, NEW h \in Arenas, NEW size \in BlockSizes, NEW a \in Alignments,
         ArenaAllocAligned(h, size, a)
  PROVE  [Promise!Next]_(Promise!vars)
<1> USE FieldTypes, HeaderSizeType DEF IInv
<1> PICK b : b = Grant(h, size, a, NoArena)
  OBVIOUS
<1>1. h \in live /\ size \in Nat /\ a \in Nat \ {0} /\ Space' = Space
  BY ArenaAssumption DEF ArenaAllocAligned, Space
<1>2. total_size[h] + size + MaxAlignment <= SizeModulus
  BY <1>1, SmallRequests, ArenaAssumption DEF Rooted
<1>3. /\ AlignedStart(h, a) \in Nat
      /\ used_size[h] <= AlignedStart(h, a)
      /\ AlignedStart(h, a) + size <= total_size[h]
  BY <1>1, <1>2, GrantBounds DEF ArenaAllocAligned
<1>4. /\ b \in BlockType /\ b.owner = h /\ b.child = NoArena
      /\ b.lo = memory[h] + AlignedStart(h, a) /\ b.hi = b.lo + size
  BY <1>1, <1>3 DEF Grant, BlockType
<1>5. CASE b.lo < b.hi
  <2>1. Fresh(b, h) /\ blocks' = blocks \cup {b}
    BY <1>1, <1>3, <1>4, <1>5 DEF Fresh, Top, ArenaAllocAligned
  <2>2. Promise!GrantBlock(h, b)
    BY <1>1, <1>4, <2>1, FreshIsGranted DEF Promise!GrantBlock
  <2>3. h \in Promise!Live
    BY <1>1 DEF Promise!Live, Space
  <2> QED
    BY <2>1, <2>2, <2>3 DEF Promise!Next
<1>6. CASE ~ b.lo < b.hi
  <2>1. blocks' = blocks
    BY <1>6 DEF ArenaAllocAligned
  <2> QED
    BY <1>1, <2>1 DEF Promise!vars
<1> QED
  BY <1>5, <1>6

LEMMA SubArenaCreateRefines ==
  ASSUME IInv, NEW h \in Arenas, NEW s \in SubArenas,
         NEW size \in SubArenaSizes, SubArenaCreate(h, s, size)
  PROVE  Promise!Next
<1> USE FieldTypes, HeaderSizeType DEF IInv
<1> PICK b : b = Grant(h, HeaderSize + size, DefaultAlignment, s)
  OBVIOUS
<1>1. /\ h \in live /\ size \in Nat /\ size > 0 /\ DefaultAlignment \in Nat \ {0}
      /\ s \notin live /\ s \in Arenas
      /\ live' = live \cup {s} /\ blocks' = blocks \cup {b}
  BY ArenaAssumption DEF SubArenaCreate, Arenas
<1>2. total_size[h] + HeaderSize + size + MaxAlignment <= SizeModulus
  BY <1>1, SmallRequests, ArenaAssumption DEF Rooted
<1>3. SubArenaRequest(size) = HeaderSize + size
  <2>1. HeaderSize + size \in 0 .. SizeModulus - 1
    BY <1>1, <1>2, ArenaAssumption
  <2> QED
    BY <2>1, ArenaAssumption DEF SubArenaRequest
<1>4. /\ AlignedStart(h, DefaultAlignment) \in Nat
      /\ used_size[h] <= AlignedStart(h, DefaultAlignment)
      /\ AlignedStart(h, DefaultAlignment) + HeaderSize + size <= total_size[h]
  BY <1>1, <1>2, <1>3, GrantBounds DEF SubArenaCreate
<1>5. /\ b \in BlockType /\ b.owner = h /\ b.child = s
      /\ b.lo = memory[h] + AlignedStart(h, DefaultAlignment)
      /\ b.hi = b.lo + HeaderSize + size
  BY <1>1, <1>4 DEF Grant, BlockType
<1>6. Promise!Grant(h, b)
  <2>1. Fresh(b, h)
    BY <1>1, <1>4, <1>5 DEF Fresh, Top
  <2> QED
    BY <1>1, <1>5, <2>1, FreshIsGranted
<1>7. /\ \A k \in live : memory'[k] = memory[k] /\ total_size'[k] = total_size[k]
      /\ memory'[s] = b.lo + HeaderSize /\ total_size'[s] = size
  BY <1>1 DEF SubArenaCreate, TypeOK
<1>8. DOMAIN Space = live /\ DOMAIN Space' = live \cup {s}
  BY <1>1 DEF Space
<1>9. Space' = [k \in live \cup {s} |-> IF k = s THEN Space'[s] ELSE Space[k]]
  BY <1>1, <1>7 DEF Space
<1>10. Promise!Inside(Space'[s], b) /\ Space'[s] \in Promise!Regions
  <2>1. Space'[s] = [lo |-> b.lo + HeaderSize, hi |-> b.hi]
    BY <1>1, <1>5, <1>7 DEF Space, BlockType
  <2> QED
    BY <1>5, <2>1, ArenaAssumption DEF Promise!Inside, Promise!Regions, BlockType
<1>11. Promise!GrantSubArena(h, b, Space'[s])
  BY <1>1, <1>5, <1>6, <1>8, <1>9, <1>10
  DEF Promise!GrantSubArena, Promise!Live
<1> QED
  BY <1>1, <1>8, <1>11 DEF Promise!Next, Promise!Live

LEMMA PopRefines ==
  ASSUME IInv, NEW h \in Arenas, ArenaPop(h)
  PROVE  [Promise!Next]_(Promise!vars)
<1> USE FieldTypes, HeaderSizeType DEF IInv
<1> DEFINE lo == memory[h] + previous_size[h]
           hi == memory[h] + total_size[h]
<1>1. h \in live /\ h \in touched /\ Forget(lo, hi) /\ lo \in Int /\ hi \in Int
  BY PopAfterAlloc DEF ArenaPop, PoppedSize
<1>2. Promise!GiveUp(BlocksIn(lo, hi))
  BY <1>1, ForgetGivesUp DEF ArenaPop
<1>3. blocks' = blocks \ BlocksIn(lo, hi) /\ Space' = Space
  BY <1>1, PopStep DEF Forget, ArenaPop, Space
<1>4. ASSUME NEW b \in BlocksIn(lo, hi) PROVE Above(b, h)
  <2>1. b \in blocks /\ lo <= b.lo /\ b.hi <= hi /\ b.lo < b.hi
    BY <1>4 DEF BlocksIn, Rooted
  <2>2. ~ Outside(b, h) /\ ~ Encloses(b, h) /\ ~ Below(b, h)
    BY <1>1, <2>1 DEF Outside, Encloses, Below, Top
  <2> QED
    BY <1>1, <2>1, <2>2 DEF PopSafe
<1>5. CASE BlocksIn(lo, hi) = {}
  BY <1>3, <1>5 DEF Promise!vars
<1>6. CASE BlocksIn(lo, hi) # {}
  <2>1. PICK b : b \in BlocksIn(lo, hi)
    BY <1>6
  <2>2. BlocksIn(lo, hi) = {b} /\ b \in blocks
    BY <1>1, <1>4, <2>1 DEF PopSafe, BlocksIn
  <2>3. Promise!Last(h, b)
    BY <1>4, <2>1, <2>2, <1>3, PopStep DEF Promise!Last, Above
  <2>4. Promise!Pop(h)
    BY <1>2, <2>2, <2>3 DEF Promise!Pop
  <2>5. h \in Promise!Live
    BY <1>1 DEF Promise!Live, Space
  <2> QED
    BY <2>4, <2>5 DEF Promise!Next
<1> QED
  BY <1>5, <1>6

LEMMA ResetRefines ==
  ASSUME IInv, NEW h \in Arenas, ArenaReset(h)
  PROVE  Promise!Next
<1> USE FieldTypes, HeaderSizeType DEF IInv
<1> DEFINE lo == memory[h]
           hi == memory[h] + total_size[h]
<1>1. h \in live /\ Forget(lo, hi) /\ lo \in Int /\ hi \in Int
  BY DEF ArenaReset
<1>2. ASSUME NEW k \in live'
      PROVE  memory'[k] = memory[k] /\ total_size'[k] = total_size[k]
  BY <1>1, <1>2 DEF ArenaReset, ClearFixedFields, Cleared, Forget, TypeOK
<1>3. Promise!GiveUp(BlocksIn(lo, hi))
  BY <1>1, <1>2, ForgetGivesUp
<1>4. Space[h] = [lo |-> lo, hi |-> hi] /\ h \in Promise!Live
  BY <1>1 DEF Space, Promise!Live
<1>5. BlocksIn(lo, hi) = Promise!BlocksOf(h)
  BY <1>1, <1>4 DEF BlocksIn, Promise!BlocksOf, Promise!Inside
<1> QED
  BY <1>3, <1>4, <1>5 DEF Promise!Reset, Promise!Next

(* The blocks that the memset of sub_arena_destroy takes are those in the  *)
(* memory of the sub-arena and the one it was granted.                     *)
LEMMA SubArenaDestroyRefines ==
  ASSUME IInv, NEW s \in live \cap SubArenas, SubArenaDestroy(s)
  PROVE  Promise!Next
<1> USE FieldTypes, HeaderSizeType DEF IInv
<1>1. /\ Forget(Base(s), Top(s)) /\ s # Root /\ s # NoArena
      /\ Base(s) \in Int /\ Top(s) \in Int
  <2>1. WipedFrom(s) = Base(s) /\ WipedTo(s) = Top(s)
    BY DEF WipedFrom, WipedTo, Base, Top
  <2> QED
    BY <2>1, ArenaAssumption DEF SubArenaDestroy, Arenas
<1>2. ASSUME NEW k \in live'
      PROVE  memory'[k] = memory[k] /\ total_size'[k] = total_size[k]
  <2>1. k \notin ArenasIn(WipedFrom(s), WipedTo(s)) /\ k \in Arenas
    BY <1>2 DEF SubArenaDestroy, Forget, TypeOK
  <2> QED
    BY <2>1 DEF SubArenaDestroy, ClearFixedFields, Cleared
<1>3. Promise!GiveUp(BlocksIn(Base(s), Top(s)))
  BY <1>1, <1>2, ForgetGivesUp
<1>4. Space[s] = [lo |-> memory[s], hi |-> Top(s)] /\ s \in Promise!Live
  BY <1>1 DEF Space, Promise!Live, Top
<1>5. PICK c \in blocks : Held(c, s)
  BY DEF SubArenasHeld
<1>6. ASSUME NEW b \in blocks
      PROVE  Base(s) <= b.lo /\ b.hi <= Top(s) <=>
               Promise!Inside(b, Space[s]) \/ b.child = s
  <2>1. ASSUME b.child = s PROVE Base(s) <= b.lo /\ b.hi <= Top(s)
    <3>1. Held(b, s)
      BY <1>1, <2>1 DEF SubArenasHeld
    <3> QED
      BY <3>1 DEF Held
  <2>2. ASSUME Promise!Inside(b, Space[s])
        PROVE  Base(s) <= b.lo /\ b.hi <= Top(s)
    BY <1>4, <2>2 DEF Promise!Inside
  <2>3. ASSUME Base(s) <= b.lo, b.hi <= Top(s), b.child # s
        PROVE  Promise!Inside(b, Space[s])
    <3>1. /\ b # c /\ b.lo < b.hi
          /\ c.lo = Base(s) /\ c.hi = Top(s)
      BY <1>5, <2>3 DEF Held, Rooted
    <3>2. InPayload(b, c)
      BY <1>5, <2>3, <3>1 DEF BlocksDisjoint, Disjoint, InPayload
    <3> QED
      BY <1>4, <3>1, <3>2 DEF InPayload, Promise!Inside, Base
  <2> QED
    BY <2>1, <2>2, <2>3
<1>7. BlocksIn(Base(s), Top(s)) =
        Promise!BlocksOf(s) \cup {b \in blocks : b.child = s}
  BY <1>6 DEF BlocksIn, Promise!BlocksOf
<1>8. Promise!Destroy(s)
  BY <1>1, <1>3, <1>7 DEF Promise!Destroy
<1> QED
  BY <1>4, <1>8 DEF Promise!Next

LEMMA RootDestroyRefines ==
  ASSUME IInv, NEW h \in live, RootDestroy
  PROVE  Promise!Next
<1>1. Root \in Promise!Live
  BY DEF IInv, Rooted, Promise!Live, Space
<1>2. Promise!DestroyRoot
  BY DEF RootDestroy, Promise!DestroyRoot, Space
<1> QED
  BY <1>1, <1>2 DEF Promise!Next

LEMMA NextRefines == IInv /\ [Next]_vars => [Promise!Next]_(Promise!vars)
<1> SUFFICES ASSUME IInv, [Next]_vars PROVE [Promise!Next]_(Promise!vars)
  OBVIOUS
<1>1. CASE UNCHANGED vars
  BY <1>1 DEF vars, Promise!vars, Space
<1>2. ASSUME NEW h \in Arenas, ArenaDestroy(h)
      PROVE  Promise!Next
  <2>1. CASE parent[h] # NoArena /\ SubArenaDestroy(h)
    <3>1. h \in live \cap SubArenas
      BY <1>2, <2>1 DEF ArenaDestroy, IInv, Rooted, TypeOK, Arenas
    <3> QED
      BY <2>1, <3>1, SubArenaDestroyRefines
  <2>2. CASE RootDestroy
    BY <1>2, <2>2, RootDestroyRefines DEF ArenaDestroy
  <2> QED
    BY <1>2, <2>1, <2>2 DEF ArenaDestroy
<1> QED
  BY <1>1, <1>2, CreateRefines, AllocRefines, SubArenaCreateRefines,
     PopRefines, ResetRefines
  DEF Next, AllocFails, SubArenaCreateFails

-----------------------------------------------------------------------------
(* Every behaviour of the allocator is one that Allocator promises.        *)
THEOREM Implements == Spec => KeepsPromise
<1> QED
  BY InitRefines, NextRefines, Invariance, PTL
  DEF Spec, KeepsPromise, Promise!Spec

-----------------------------------------------------------------------------
(* What an arena grants it grants in ascending order, so that two blocks   *)
(* of one arena are disjoint; also if one holds a sub-arena.               *)
InOrder ==
  \A b, c \in blocks : b.owner = c.owner => b = c \/ Disjoint(b, c)

LEMMA InOrderKept ==
  ASSUME InOrder, [Promise!Next]_(Promise!vars)
  PROVE  InOrder'
<1>1. ASSUME NEW h, NEW b, Promise!Grant(h, b)
      PROVE  InOrder'
  BY <1>1 DEF Promise!Grant, InOrder, Disjoint
<1>2. ASSUME NEW R, Promise!GiveUp(R)
      PROVE  InOrder'
  BY <1>2 DEF Promise!GiveUp, InOrder, Disjoint
<1> QED
  BY <1>1, <1>2
  DEF Promise!Next, Promise!vars, Promise!Create, Promise!GrantBlock,
      Promise!GrantSubArena, Promise!Pop, Promise!Reset, Promise!Destroy,
      Promise!DestroyRoot, InOrder, Disjoint

LEMMA SpecInOrder == Spec => []InOrder
<1>1. Init => InOrder
  BY DEF Init, InOrder
<1>2. IInv /\ InOrder /\ [Next]_vars => InOrder'
  BY NextRefines, InOrderKept
<1> QED
  BY <1>1, <1>2, Invariance, PTL DEF Spec

(* No block of its parent, but its own, lies in a sub-arena.               *)
LEMMA NoBlockOfParent ==
  ASSUME IInv, InOrder, NEW s \in live \cap SubArenas,
         NEW b \in BlocksIn(Base(s), Top(s)), b.owner = parent[s]
  PROVE  b.child = s
<1> USE FieldTypes, HeaderSizeType DEF IInv
<1>1. PICK c \in blocks : Held(c, s)
  BY DEF SubArenasHeld
<1>2. b \in blocks /\ b.lo < b.hi /\ c.lo <= b.lo /\ b.hi <= c.hi
  BY <1>1 DEF BlocksIn, Held, Rooted
<1> QED
  BY <1>1, <1>2 DEF InOrder, Held, Disjoint

LEMMA DestroyStep ==
  ASSUME IInv, InOrder, NEW s \in SubArenas, ArenaDestroy(s)
  PROVE  /\ \A t \in live \ {s} : parent[t] = parent[s] => t \in live'
         /\ \A b \in blocks :
              b.owner = parent[s] /\ b.child # s => b \in blocks'
<1> USE FieldTypes, HeaderSizeType DEF IInv
<1>1. s \in live \cap SubArenas /\ parent[s] # NoArena /\ SubArenaDestroy(s)
  BY DEF ArenaDestroy, Rooted
<1>2. Forget(Base(s), Top(s))
  <2>1. WipedFrom(s) = Base(s) /\ WipedTo(s) = Top(s)
    BY <1>1 DEF WipedFrom, WipedTo, Base, Top
  <2> QED
    BY <1>1, <2>1 DEF SubArenaDestroy
<1>3. \A b \in blocks : b.owner = parent[s] /\ b.child # s => b \in blocks'
  BY <1>1, <1>2, NoBlockOfParent DEF Forget
<1>4. ASSUME NEW t \in live \ {s}, parent[t] = parent[s]
      PROVE  t \in live'
  <2>1. t \in SubArenas
    BY <1>1, <1>4 DEF Rooted, TypeOK, Arenas
  <2>2. PICK c \in blocks : Held(c, t)
    BY <1>4, <2>1 DEF SubArenasHeld
  <2>3. c \notin BlocksIn(Base(s), Top(s))
    BY <1>1, <1>4, <2>2, NoBlockOfParent DEF Held
  <2>4. t \notin ArenasIn(Base(s), Top(s))
    BY <2>2, <2>3 DEF ArenasIn, BlocksIn, Held, Base, Top
  <2> QED
    BY <1>2, <1>4, <2>4 DEF Forget
<1> QED
  BY <1>3, <1>4

(* Destroying a sub-arena takes nothing from its parent and its siblings.  *)
THEOREM DestroySpares == Spec => DestroySparesSiblings
<1>1. IInv /\ InOrder /\ [Next]_vars =>
        [\A s \in SubArenas : ArenaDestroy(s) =>
           /\ \A t \in live \ {s} : parent[t] = parent[s] => t \in live'
           /\ \A b \in blocks :
                b.owner = parent[s] /\ b.child # s => b \in blocks']_vars
  BY DestroyStep
<1> QED
  BY <1>1, SpecInOrder, Invariance, PTL DEF Spec, DestroySparesSiblings

-----------------------------------------------------------------------------
(* What Allocator promises is enough: whoever keeps it holds no byte       *)
(* twice.  The argument is of the promise alone, with a much smaller       *)
(* invariant than that of the fields of struct ORArena.                    *)

(* A block for a sub-arena is the only one, and goes with the sub-arena.   *)
OneBlockEach ==
  \A b \in blocks : b.child # NoArena =>
    /\ b.child \in Promise!Live
    /\ \A c \in blocks : c.child = b.child => c = b

SpaceTyped ==
  /\ NoArena \notin Promise!Live
  /\ \A h \in Promise!Live : Space[h] \in Promise!Regions
  /\ \A b \in blocks : b.lo \in Int /\ b.hi \in Int

PromiseInv == Promise!NoByteTwice /\ OneBlockEach /\ SpaceTyped

-----------------------------------------------------------------------------
(* A block that is new lies in every block that its arena lies in.         *)
LEMMA GrantKeeps ==
  ASSUME PromiseInv, NEW h, NEW b, Promise!Grant(h, b),
         \A k \in Promise!Live : k \in Promise!Live' /\ Space'[k] = Space[k]
  PROVE  Promise!NoByteTwice'
<1> SUFFICES ASSUME NEW c \in blocks, c # b
             PROVE  \/ Promise!Apart(b, c)
                    \/ c.child \in Promise!Live /\ Promise!Inside(b, Space[c.child])
  BY DEF PromiseInv, Promise!NoByteTwice, Promise!Grant, Promise!Apart
<1>1. CASE Promise!Apart(b, c)
  BY <1>1
<1>2. CASE Promise!LiesIn(h, c)
  <2>1. /\ c.child \in Promise!Live
        /\ Space[h] \in Promise!Regions /\ Space[c.child] \in Promise!Regions
    BY <1>2 DEF PromiseInv, SpaceTyped, Promise!LiesIn, Promise!Grant
  <2>2. Promise!Inside(b, Space[c.child])
    BY <1>2, <2>1 DEF Promise!LiesIn, Promise!Inside, Promise!Grant, Promise!Regions
  <2> QED
    BY <2>1, <2>2
<1> QED
  BY <1>1, <1>2 DEF Promise!Grant

LEMMA GrantBlockKeeps ==
  ASSUME PromiseInv, NEW h, NEW b, Promise!GrantBlock(h, b)
  PROVE  PromiseInv'
<1>1. Promise!NoByteTwice'
  BY GrantKeeps DEF Promise!GrantBlock, Promise!Live
<1>2. OneBlockEach' /\ SpaceTyped'
  BY DEF Promise!GrantBlock, Promise!Grant, PromiseInv, OneBlockEach, SpaceTyped, Promise!Live
<1> QED
  BY <1>1, <1>2 DEF PromiseInv

LEMMA GrantSubArenaKeeps ==
  ASSUME PromiseInv, NEW h, NEW b, NEW region,
         Promise!GrantSubArena(h, b, region)
  PROVE  PromiseInv'
<1>1. /\ Promise!Live' = Promise!Live \cup {b.child}
      /\ b.child \notin Promise!Live /\ b.child # NoArena
      /\ \A k \in Promise!Live : Space'[k] = Space[k]
      /\ Space'[b.child] = region /\ region \in Promise!Regions
  BY ArenaAssumption DEF Promise!GrantSubArena, Promise!Live, Arenas
<1>2. Promise!NoByteTwice'
  BY <1>1, GrantKeeps DEF Promise!GrantSubArena
<1>3. OneBlockEach'
  BY <1>1 DEF Promise!GrantSubArena, Promise!Grant, PromiseInv, OneBlockEach
<1>4. SpaceTyped'
  BY <1>1 DEF Promise!GrantSubArena, Promise!Grant, PromiseInv, SpaceTyped
<1> QED
  BY <1>2, <1>3, <1>4 DEF PromiseInv

(* What is left when blocks are given up keeps its sub-arena.              *)
LEMMA GiveUpKeeps ==
  ASSUME PromiseInv, NEW R, Promise!GiveUp(R), R \subseteq blocks
  PROVE  PromiseInv'
<1>1. /\ blocks' = blocks \ R
      /\ Promise!Live' = {k \in Promise!Live : \A b \in R : b.child # k}
      /\ \A k \in Promise!Live' : Space'[k] = Space[k]
  BY DEF Promise!GiveUp, Promise!Live
<1>2. ASSUME NEW c \in blocks', c.child \in Promise!Live
      PROVE  c.child \in Promise!Live'
  BY <1>1, <1>2 DEF PromiseInv, OneBlockEach, SpaceTyped
<1>3. Promise!NoByteTwice'
  <2> SUFFICES ASSUME NEW b \in blocks', NEW c \in blocks'
               PROVE  \/ b = c \/ Promise!Apart(b, c)
                      \/ c.child \in Promise!Live' /\ Promise!Inside(b, Space'[c.child])
                      \/ b.child \in Promise!Live' /\ Promise!Inside(c, Space'[b.child])
    BY DEF Promise!NoByteTwice, Promise!Apart, Promise!Inside
  <2> QED
    BY <1>1, <1>2 DEF PromiseInv, Promise!NoByteTwice
<1>4. OneBlockEach' /\ SpaceTyped'
  BY <1>1, <1>2 DEF PromiseInv, OneBlockEach, SpaceTyped
<1> QED
  BY <1>3, <1>4 DEF PromiseInv

LEMMA NextKeeps ==
  ASSUME PromiseInv, [Promise!Next]_(Promise!vars)
  PROVE  PromiseInv'
<1>1. ASSUME NEW region, Promise!Create(region) PROVE PromiseInv'
  <2>1. Promise!Live' = {Root} /\ blocks' = blocks /\ Space'[Root] \in Promise!Regions
    BY <1>1 DEF Promise!Create, Promise!Live
  <2>2. \A b \in blocks : b.child = NoArena
    BY <1>1 DEF Promise!Create, PromiseInv, OneBlockEach
  <2>3. Promise!NoByteTwice'
    BY <1>1, <2>1 DEF Promise!Create, PromiseInv, Promise!NoByteTwice, Promise!Apart
  <2>4. OneBlockEach' /\ SpaceTyped'
    BY <2>1, <2>2, ArenaAssumption DEF PromiseInv, OneBlockEach, SpaceTyped, Arenas
  <2> QED
    BY <2>3, <2>4 DEF PromiseInv
<1>2. ASSUME NEW h, Promise!Pop(h) \/ Promise!Reset(h) \/ Promise!Destroy(h) PROVE PromiseInv'
  BY <1>2, GiveUpKeeps DEF Promise!Pop, Promise!Reset, Promise!Destroy, Promise!BlocksOf
<1>3. CASE Promise!DestroyRoot
  BY <1>3 DEF Promise!DestroyRoot, PromiseInv, Promise!NoByteTwice, OneBlockEach, SpaceTyped,
              Promise!Live
<1>4. CASE UNCHANGED Promise!vars
  BY <1>4 DEF Promise!vars, PromiseInv, Promise!NoByteTwice, OneBlockEach, SpaceTyped, Promise!Live,
              Promise!Apart, Promise!Inside
<1> QED
  BY <1>1, <1>2, <1>3, <1>4, GrantBlockKeeps, GrantSubArenaKeeps DEF Promise!Next

-----------------------------------------------------------------------------
(* Under the promise of Allocator two blocks that are held share no byte,  *)
(* unless one lies in the sub-arena that the other was granted for.        *)
THEOREM PromiseIsEnough == Promise!Spec => []Promise!NoByteTwice
<1>1. Promise!Init => PromiseInv
  BY DEF Promise!Init, PromiseInv, Promise!NoByteTwice, OneBlockEach, SpaceTyped, Promise!Live
<1>2. PromiseInv /\ [Promise!Next]_(Promise!vars) => PromiseInv'
  BY NextKeeps
<1>3. PromiseInv => Promise!NoByteTwice
  BY DEF PromiseInv
<1> QED
  BY <1>1, <1>2, <1>3, PTL DEF Promise!Spec

(* The allocator of the code is one that keeps the promise, and so holds   *)
(* no byte twice in the sense of Allocator.                                *)
THEOREM HoldsOnce == Spec => []Promise!NoByteTwice
BY Implements, PromiseIsEnough, PTL DEF KeepsPromise
=============================================================================
