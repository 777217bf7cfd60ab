------------------------- MODULE ArenaMappingProofs -------------------------
(***************************************************************************)
(* What holds of ArenaMapping for any number of arenas, sizes and pages.   *)
(***************************************************************************)
EXTENDS ArenaMapping, TLAPS

(* The pages of an arena that the client has are those of its mapping, and *)
(* its memory lies where it should in them.                                *)
PagesMapped ==
  /\ \A a \in live :
       /\ total_size[a] > 0 /\ memory[a] = MemoryOffset
       /\ PagesOwned(a) = Extent(base[a], MappedLength(total_size[a]))
  /\ \A a \in Arenas \ live : PagesOwned(a) = {}

IInv == TypeOK /\ PagesMapped

-----------------------------------------------------------------------------
(* Rounding up.                                                            *)
LEMMA Product ==
  ASSUME NEW i \in Int, NEW j \in Int, NEW k \in Nat \ {0}, i * k < j * k
  PROVE  i < j
<1> SUFFICES ASSUME j <= i PROVE FALSE
  OBVIOUS
<1>1. (i - j) * k >= 0
  OBVIOUS
<1>2. (i - j) * k = i * k - j * k
  OBVIOUS
<1> QED
  BY <1>1, <1>2

LEMMA Division ==
  ASSUME NEW n \in Nat, NEW k \in Nat \ {0}
  PROVE  /\ n \div k \in Nat
         /\ (n \div k) * k <= n /\ n < (n \div k) * k + k
         /\ n - (n % k) = (n \div k) * k
OBVIOUS

LEMMA Multiple ==
  ASSUME NEW q \in Nat, NEW k \in Nat \ {0}
  PROVE  (q * k) \div k = q
<1> DEFINE r == (q * k) \div k
<1>1. q * k \in Nat
  OBVIOUS
<1>2. r \in Nat /\ r * k <= q * k /\ q * k < r * k + k
  BY <1>1, Division
<1>3. r * k + k = (r + 1) * k /\ q * k + k = (q + 1) * k
  BY <1>2
<1>4. r * k < (q + 1) * k /\ q * k < (r + 1) * k
  BY <1>2, <1>3
<1>5. r < q + 1 /\ q < r + 1
  BY <1>2, <1>4, Product
<1> QED
  BY <1>2, <1>5

LEMMA AlignUpBounds ==
  ASSUME NEW n \in Nat, NEW k \in Nat \ {0}
  PROVE  AlignUp(n, k) \in Nat /\ n <= AlignUp(n, k) /\ AlignUp(n, k) < n + k
BY DEF AlignUp

(* PagesOf is the least number of pages that hold a length.                *)
LEMMA PagesOfBounds ==
  ASSUME NEW n \in Nat
  PROVE  /\ PagesOf(n) \in Nat
         /\ n <= PagesOf(n) * PageSize
         /\ PagesOf(n) * PageSize < n + PageSize
<1> DEFINE m == n + PageSize - 1
           q == m \div PageSize
<1>1. m \in Nat /\ PageSize \in Nat \ {0}
  BY MappingAssumption
<1>2. q \in Nat /\ q * PageSize <= m /\ m < q * PageSize + PageSize
  BY <1>1, Division
<1>3. PagesOf(n) = q
  <2>1. AlignUp(n, PageSize) = q * PageSize
    BY <1>1, Division DEF AlignUp
  <2> QED
    BY <1>1, <1>2, <2>1, Multiple DEF PagesOf
<1> HIDE DEF q
<1>4. q * PageSize \in Int
  BY <1>1, <1>2
<1> QED
  BY <1>1, <1>2, <1>3, <1>4

(* The mapping has all pages that arena_destroy gives back, and holds the  *)
(* struct and the memory.                                                  *)
LEMMA Lengths ==
  ASSUME NEW size \in Nat, size > 0
  PROVE  /\ MappedLength(size) \in Nat
         /\ PagesOf(size) \in Nat /\ PagesOf(MappedLength(size)) \in Nat
         /\ 1 <= PagesOf(size)
         /\ PagesOf(size) <= PagesOf(MappedLength(size))
         /\ \A o \in 0 .. HeaderSize + size - 1 :
              o \div PageSize \in 0 .. PagesOf(MappedLength(size)) - 1
<1> DEFINE m == MappedLength(size)
           q == PagesOf(m)
           r == PagesOf(size)
<1>1. /\ PageSize \in Nat \ {0} /\ HeaderSize \in Nat \ {0}
      /\ MaxAlignment \in Nat \ {0} /\ HeaderSize + MaxAlignment <= PageSize
  BY MappingAssumption
<1>2. m \in Nat /\ size + HeaderSize <= m /\ m < size + PageSize
  <2>1. size + HeaderSize \in Nat /\ MaxAlignment \in Nat \ {0}
    BY <1>1
  <2>2. m = AlignUp(size + HeaderSize, MaxAlignment)
    BY DEF MappedLength
  <2>3. m \in Nat /\ size + HeaderSize <= m /\ m < size + HeaderSize + MaxAlignment
    BY <2>1, <2>2, AlignUpBounds
  <2> QED
    BY <1>1, <2>3
<1>3. q \in Nat /\ m <= q * PageSize /\ q * PageSize < m + PageSize
  BY <1>2, PagesOfBounds
<1>4. r \in Nat /\ size <= r * PageSize /\ r * PageSize < size + PageSize
  BY PagesOfBounds
<1> HIDE DEF m, q, r
<1>5. q * PageSize \in Int /\ r * PageSize \in Int
  BY <1>1, <1>3, <1>4
<1>6. /\ (q + 1) * PageSize = q * PageSize + PageSize
      /\ 0 * PageSize = 0
  BY <1>1, <1>3, <1>4
<1>7. 0 < r
  <2>1. 0 * PageSize < r * PageSize
    BY <1>4, <1>5, <1>6
  <2> QED
    BY <1>1, <1>4, <2>1, Product
<1>8. r < q + 1
  <2>1. r * PageSize < (q + 1) * PageSize
    BY <1>1, <1>2, <1>3, <1>4, <1>5, <1>6
  <2> QED
    BY <1>1, <1>3, <1>4, <2>1, Product
<1>9. ASSUME NEW o \in 0 .. HeaderSize + size - 1
       PROVE  o \div PageSize \in 0 .. q - 1
  <2> DEFINE d == o \div PageSize
  <2>1. o \in Nat /\ o < HeaderSize + size
    BY <1>1
  <2>2. d \in Nat /\ d * PageSize <= o
    BY <1>1, <2>1, Division
  <2> HIDE DEF d
  <2>3. d * PageSize < q * PageSize
    <3>1. d * PageSize \in Int
      BY <1>1, <2>2
    <3> QED
      BY <1>1, <1>2, <1>3, <1>5, <2>1, <2>2, <3>1
  <2>4. d < q
    BY <1>1, <1>3, <2>2, <2>3, Product
  <2> QED
    BY <1>3, <2>2, <2>4 DEF d
<1> QED
  BY <1>2, <1>3, <1>4, <1>7, <1>8, <1>9 DEF m, q, r

(* The padding is what is between the struct and the memory.               *)
LEMMA OffsetType ==
  /\ MemoryOffset \in Nat
  /\ \A size \in Nat : MemoryOffset + size - Padding - 1 = HeaderSize + size - 1
<1>1. HeaderSize \in Nat /\ MaxAlignment \in Nat \ {0}
  BY MappingAssumption
<1>2. MemoryOffset \in Nat
  BY <1>1, AlignUpBounds DEF MemoryOffset
<1> QED
  BY <1>1, <1>2 DEF Padding

(* What is unmapped belongs to the arena that is destroyed.                *)
LEMMA FreedIsOwned ==
  ASSUME IInv, NEW a \in live
  PROVE  Extent(base[a], FreedLength(a)) \subseteq PagesOwned(a)
<1>1. base[a] \in Nat /\ total_size[a] \in Nat /\ total_size[a] > 0
  BY MappingAssumption DEF IInv, TypeOK, PagesMapped, Pages
<1>2. /\ PagesOf(total_size[a]) \in Nat /\ PagesOf(MappedLength(total_size[a])) \in Nat
      /\ PagesOf(total_size[a]) <= PagesOf(MappedLength(total_size[a]))
  BY <1>1, Lengths
<1> QED
  BY <1>1, <1>2 DEF IInv, PagesMapped, Extent, FreedLength

-----------------------------------------------------------------------------
LEMMA CreateKeeps ==
  ASSUME IInv, NEW a \in Arenas, NEW size \in InitialSizes, NEW p \in Pages,
         ArenaCreate(a, size, p)
  PROVE  IInv'
<1> DEFINE extent == Extent(p, MappedLength(size))
<1>1. /\ size \in Nat /\ size > 0 /\ a \notin live
      /\ \A q \in extent : q \in Pages /\ owner[q] = Unmapped
      /\ owner' = [q \in Pages |-> IF q \in extent THEN a ELSE owner[q]]
      /\ live' = live \cup {a}
      /\ base' = [base EXCEPT ![a] = p]
      /\ total_size' = [total_size EXCEPT ![a] = size]
      /\ memory' = [memory EXCEPT ![a] = MemoryOffset]
      /\ fault' = fault
  BY MappingAssumption DEF ArenaCreate
<1> HIDE DEF extent
<1>2. TypeOK'
  BY <1>1, OffsetType DEF IInv, TypeOK
<1>3. base'[a] = p /\ total_size'[a] = size /\ memory'[a] = MemoryOffset
  BY <1>1 DEF IInv, TypeOK
<1>4. PagesOwned(a)' = extent
  BY <1>1, MappingAssumption DEF IInv, PagesMapped, PagesOwned
<1>5. ASSUME NEW b \in Arenas \ {a}
      PROVE  /\ PagesOwned(b)' = PagesOwned(b)
             /\ base'[b] = base[b] /\ total_size'[b] = total_size[b]
             /\ memory'[b] = memory[b]
  BY <1>1, MappingAssumption DEF IInv, TypeOK, PagesOwned
<1>6. PagesMapped'
  <2>1. ASSUME NEW b \in live'
        PROVE  /\ total_size'[b] > 0 /\ memory'[b] = MemoryOffset
               /\ PagesOwned(b)' = Extent(base'[b], MappedLength(total_size'[b]))
    <3>1. CASE b = a
      BY <1>1, <1>3, <1>4, <3>1 DEF extent
    <3>2. CASE b # a
      <4>1. b \in live /\ b \in Arenas \ {a}
        BY <1>1, <3>2, <2>1 DEF IInv, TypeOK
      <4> QED
        BY <1>5, <4>1 DEF IInv, PagesMapped
    <3> QED
      BY <3>1, <3>2
  <2>2. ASSUME NEW b \in Arenas \ live' PROVE PagesOwned(b)' = {}
    BY <1>1, <1>5, <2>2 DEF IInv, PagesMapped
  <2> QED
    BY <2>1, <2>2 DEF PagesMapped, Extent, PagesOf, MappedLength, MemoryOffset, AlignUp
<1> QED
  BY <1>2, <1>6 DEF IInv

(* A destroy leaves the pages of the others alone, and its own to nobody.  *)
LEMMA DestroyStep ==
  ASSUME IInv, NEW a \in Arenas, ArenaDestroy(a) \/ ArenaDestroyUnmapFails(a)
  PROVE  /\ owner' \in [Pages -> Arenas \cup {Unmapped, Leaked}]
         /\ a \in live /\ live' = live \ {a}
         /\ \A p \in Pages \ PagesOwned(a) : owner'[p] = owner[p]
         /\ \A p \in PagesOwned(a) : owner'[p] \in {Unmapped, Leaked}
<1>1. CASE ArenaDestroy(a)
  <2>1. Extent(base[a], FreedLength(a)) \subseteq PagesOwned(a)
    BY <1>1, FreedIsOwned DEF ArenaDestroy
  <2> QED
    BY <1>1, <2>1 DEF ArenaDestroy, GiveUp, IInv, TypeOK, PagesOwned
<1>2. CASE ArenaDestroyUnmapFails(a)
  BY <1>2 DEF ArenaDestroyUnmapFails, GiveUp, IInv, TypeOK, PagesOwned
<1> QED
  BY <1>1, <1>2

LEMMA DestroyKeeps ==
  ASSUME IInv, NEW a \in Arenas, ArenaDestroy(a) \/ ArenaDestroyUnmapFails(a)
  PROVE  IInv'
<1>1. /\ base' = [base EXCEPT ![a] = 0]
      /\ total_size' = [total_size EXCEPT ![a] = 0]
      /\ memory' = [memory EXCEPT ![a] = 0]
      /\ fault' \in BOOLEAN
  BY MappingAssumption DEF ArenaDestroy, ArenaDestroyUnmapFails, GiveUp, IInv, TypeOK
<1>2. TypeOK'
  BY <1>1, DestroyStep, MappingAssumption DEF IInv, TypeOK, Pages
<1>3. PagesOwned(a)' = {}
  BY DestroyStep, MappingAssumption DEF PagesOwned
<1>4. ASSUME NEW b \in Arenas \ {a}
      PROVE  /\ PagesOwned(b)' = PagesOwned(b)
             /\ base'[b] = base[b] /\ total_size'[b] = total_size[b]
             /\ memory'[b] = memory[b]
  BY <1>1, DestroyStep, MappingAssumption DEF IInv, TypeOK, PagesOwned
<1>5. PagesMapped'
  <2>1. ASSUME NEW b \in live'
        PROVE  /\ total_size'[b] > 0 /\ memory'[b] = MemoryOffset
               /\ PagesOwned(b)' = Extent(base'[b], MappedLength(total_size'[b]))
    <3>1. b \in live /\ b \in Arenas \ {a}
      BY <2>1, DestroyStep DEF IInv, TypeOK
    <3> QED
      BY <1>4, <3>1 DEF IInv, PagesMapped
  <2>2. ASSUME NEW b \in Arenas \ live' PROVE PagesOwned(b)' = {}
    BY <1>3, <1>4, <2>2, DestroyStep DEF IInv, PagesMapped
  <2> QED
    BY <2>1, <2>2 DEF PagesMapped, Extent, PagesOf, MappedLength, MemoryOffset, AlignUp
<1> QED
  BY <1>2, <1>5 DEF IInv

-----------------------------------------------------------------------------
(* The invariant the theorems rest on.                                     *)
THEOREM Invariance == Spec => []IInv
<1>1. Init => IInv
  <2> SUFFICES ASSUME Init PROVE IInv
    OBVIOUS
  <2>1. 0 \in Pages
    BY MappingAssumption DEF Pages
  <2>2. TypeOK
    BY <2>1 DEF Init, TypeOK
  <2>3. PagesMapped
    BY MappingAssumption DEF Init, PagesMapped, PagesOwned
  <2> QED
    BY <2>2, <2>3 DEF IInv
<1>2. IInv /\ [Next]_vars => IInv'
  <2> SUFFICES ASSUME IInv, [Next]_vars PROVE IInv'
    OBVIOUS
  <2>1. ASSUME UNCHANGED <<owner, live, base, total_size, memory>>, fault' \in BOOLEAN
        PROVE  IInv'
    BY <2>1 DEF IInv, TypeOK, PagesMapped, PagesOwned
  <2>2. ASSUME NEW a \in Arenas, NEW size \in InitialSizes,
               ArenaCreateMapFails(a, size) \/ ArenaCreateInvalid(a, size)
        PROVE  IInv'
    BY <2>1, <2>2 DEF ArenaCreateMapFails, ArenaCreateInvalid, vars, IInv, TypeOK
  <2>3. CASE UNCHANGED vars
    BY <2>1, <2>3 DEF vars, IInv, TypeOK
  <2> QED
    BY <2>2, <2>3, CreateKeeps, DestroyKeeps DEF Next
<1> QED
  BY <1>1, <1>2, PTL DEF Spec

(* The table of pages and the fields keep their types.                     *)
THEOREM TypeCorrect == Spec => []TypeOK
<1>1. IInv => TypeOK
  BY DEF IInv
<1> QED
  BY <1>1, Invariance, PTL

(* The struct and the memory but for the length of the padding are mapped  *)
(* for every size.                                                         *)
THEOREM Mapped == Spec => []MappedUpToPadding
<1>1. IInv => MappedUpToPadding
  <2> SUFFICES ASSUME IInv, NEW a \in live,
                      NEW o \in 0 .. memory[a] + total_size[a] - Padding - 1
               PROVE  Has(a, o)
    BY DEF MappedUpToPadding
  <2>1. /\ base[a] \in Nat /\ total_size[a] \in Nat /\ total_size[a] > 0
        /\ memory[a] = MemoryOffset
    BY MappingAssumption DEF IInv, TypeOK, PagesMapped, Pages
  <2>2. o \in 0 .. HeaderSize + total_size[a] - 1
    BY <2>1, OffsetType
  <2>3. /\ PagesOf(MappedLength(total_size[a])) \in Nat
        /\ o \div PageSize \in 0 .. PagesOf(MappedLength(total_size[a])) - 1
    BY <2>1, <2>2, Lengths
  <2>4. base[a] + o \div PageSize \in PagesOwned(a)
    BY <2>1, <2>3 DEF IInv, PagesMapped, Extent
  <2> QED
    BY <2>4 DEF Has, PagesOwned
<1> QED
  BY <1>1, Invariance, PTL

(* No destroy unmaps a page of another arena.                              *)
THEOREM SparesOthers == Spec => DestroySparesOthers
<1>1. IInv => [\A a \in Arenas : ArenaDestroy(a) \/ ArenaDestroyUnmapFails(a) =>
                 \A p \in Pages \ PagesOwned(a) : owner'[p] = owner[p]]_vars
  BY DestroyStep
<1> QED
  BY <1>1, Invariance, PTL DEF DestroySparesOthers
=============================================================================
