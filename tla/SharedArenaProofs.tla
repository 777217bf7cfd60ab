------------------------- MODULE SharedArenaProofs -------------------------
(***************************************************************************)
(* What holds of SharedArena for any number of threads, any size of the    *)
(* arena and any requests: no interleaving grants a block past the end.    *)
(* That two threads may be granted the same bytes is shown by TLC.         *)
(***************************************************************************)
EXTENDS SharedArena, TLAPS

(* What a call has read and will store is within the arena: the test was   *)
(* made, and total_size does not change.                                   *)
CallsInside ==
  \A t \in Threads :
    /\ call[t].loaded <= TotalSize
    /\ call[t].size > 0 => new_used_size(t) <= TotalSize

IInv == TypeOK /\ GrantsInside /\ CallsInside

-----------------------------------------------------------------------------
LEMMA AlignUpBounds ==
  ASSUME NEW n \in Nat
  PROVE  AlignUp(n) \in Nat /\ n <= AlignUp(n)
<1> DEFINE m == n + Alignment - 1
<1>1. m \in Nat /\ Alignment \in Nat \ {0}
  BY SharedAssumption
<1>2. m % Alignment \in 0 .. Alignment - 1 /\ m % Alignment <= m
  BY <1>1
<1>3. AlignUp(n) = m - (m % Alignment)
  BY <1>1, <1>2 DEF AlignUp
<1> QED
  BY <1>1, <1>2, <1>3

LEMMA Types ==
  ASSUME TypeOK, NEW t \in Threads
  PROVE  /\ call[t] \in [to_store : SUBSET {"previous_size", "used_size"},
                         loaded : Nat, size : Nat]
         /\ call[t].loaded \in Nat /\ call[t].size \in Nat
         /\ aligned_start(t) \in Nat /\ call[t].loaded <= aligned_start(t)
         /\ new_used_size(t) \in Nat /\ aligned_start(t) <= new_used_size(t)
         /\ NoCall \in [to_store : SUBSET {"previous_size", "used_size"},
                        loaded : Nat, size : Nat]
<1>1. /\ call[t] \in [to_store : SUBSET {"previous_size", "used_size"},
                      loaded : Nat, size : Nat]
      /\ call[t].loaded \in Nat /\ call[t].size \in Nat
  BY DEF TypeOK
<1>2. aligned_start(t) \in Nat /\ call[t].loaded <= aligned_start(t)
  BY <1>1, AlignUpBounds DEF aligned_start
<1>3. new_used_size(t) \in Nat /\ aligned_start(t) <= new_used_size(t)
  BY <1>1, <1>2 DEF new_used_size
<1> QED
  BY <1>1, <1>2, <1>3 DEF NoCall

(* A store leaves the other calls alone, and ends its own or leaves it     *)
(* with the same loaded and size.                                          *)
LEMMA StoresKeeps ==
  ASSUME TypeOK, CallsInside, NEW t \in Threads, NEW f, Stores(t, f)
  PROVE  /\ call' \in [Threads -> [to_store : SUBSET {"previous_size", "used_size"},
                                   loaded : Nat, size : Nat]]
         /\ \A u \in Threads :
              \/ call'[u] = NoCall
              \/ call'[u].loaded = call[u].loaded /\ call'[u].size = call[u].size
         /\ CallsInside'
<1> DEFINE Calls == [to_store : SUBSET {"previous_size", "used_size"},
                     loaded : Nat, size : Nat]
<1>1. call \in [Threads -> Calls] /\ NoCall \in Calls
  BY Types DEF TypeOK
<1>2. call'[t] = NoCall \/ call'[t] = [call[t] EXCEPT !.to_store = @ \ {f}]
  BY <1>1 DEF Stores, Stored
<1>3. call[t] \in Calls
  BY <1>1
<1>4. /\ [call[t] EXCEPT !.to_store = @ \ {f}] \in Calls
      /\ [call[t] EXCEPT !.to_store = @ \ {f}].loaded = call[t].loaded
      /\ [call[t] EXCEPT !.to_store = @ \ {f}].size = call[t].size
  BY <1>3
<1>5. \A u \in Threads : u # t => call'[u] = call[u]
  BY <1>1 DEF Stores
<1>6. call' \in [Threads -> Calls]
  BY <1>1, <1>2, <1>4 DEF Stores
<1>7. \A u \in Threads :
        \/ call'[u] = NoCall
        \/ call'[u].loaded = call[u].loaded /\ call'[u].size = call[u].size
  BY <1>2, <1>4, <1>5
<1>8. CallsInside'
  BY <1>7, SharedAssumption DEF CallsInside, NoCall, new_used_size, aligned_start
<1> QED
  BY <1>6, <1>7, <1>8

(* A call that begins with what is in the arena.                           *)
LEMMA BeginsKeeps ==
  ASSUME IInv, NEW t \in Threads, NEW value \in Nat, NEW n \in Nat,
         NEW fields \in SUBSET {"previous_size", "used_size"},
         Begins(t, fields, value, n),
         value <= TotalSize,
         n > 0 => AlignUp(value) + n <= TotalSize
  PROVE  IInv'
<1> USE DEF IInv
<1> DEFINE new == [to_store |-> fields, loaded |-> value, size |-> n]
<1>1. /\ call'[t] = new
      /\ \A u \in Threads \ {t} : call'[u] = call[u]
  BY DEF Begins, TypeOK
<1>2. TypeOK'
  BY DEF Begins, TypeOK
<1>3. GrantsInside'
  BY DEF Begins, GrantsInside
<1>4. CallsInside'
  BY <1>1 DEF CallsInside, new_used_size, aligned_start
<1> QED
  BY <1>2, <1>3, <1>4

LEMMA LoadKeeps ==
  ASSUME IInv, NEW t \in Threads, NEW n \in Request(t), Load(t, n)
  PROVE  IInv'
<1>1. n \in Nat
  BY SharedAssumption DEF Request
<1>2. used_size \in Nat /\ used_size <= TotalSize
  BY DEF IInv, TypeOK, GrantsInside
<1> QED
  BY <1>1, <1>2, BeginsKeeps DEF Load, Fits

LEMMA LoadPreviousKeeps ==
  ASSUME IInv, LoadPrevious
  PROVE  IInv'
<1>1. previous_size \in Nat /\ previous_size <= TotalSize
  BY DEF IInv, TypeOK, GrantsInside
<1> QED
  BY <1>1, BeginsKeeps DEF LoadPrevious, Threads

LEMMA StorePreviousKeeps ==
  ASSUME IInv, NEW t \in Threads, StorePrevious(t)
  PROVE  IInv'
<1> USE DEF IInv
<1>1. /\ call[t].loaded \in Nat /\ call[t].loaded <= TotalSize
      /\ used_size \in Nat /\ used_size <= TotalSize
  BY Types DEF CallsInside, GrantsInside, TypeOK
<1>2. Stores(t, "previous_size")
  BY DEF StorePrevious
<1>3. TypeOK'
  BY <1>1, <1>2, StoresKeeps DEF StorePrevious, TypeOK
<1>4. GrantsInside'
  BY <1>1 DEF StorePrevious, GrantsInside
<1>5. CallsInside'
  BY <1>2, StoresKeeps
<1> QED
  BY <1>3, <1>4, <1>5

(* A store of used_size, with what the thread then holds.                  *)
LEMMA StoresUsedKeeps ==
  ASSUME IInv, NEW t \in Threads, NEW value \in Nat, NEW b \in [lo : Nat, hi : Nat],
         StoresUsed(t, value, b),
         value <= TotalSize, b.hi <= TotalSize
  PROVE  IInv'
<1> USE DEF IInv
<1>1. /\ Stores(t, "used_size") /\ used_size' = value
      /\ block' = [block EXCEPT ![t] = b] /\ previous_size' = previous_size
  BY DEF StoresUsed
<1>2. TypeOK'
  BY <1>1, StoresKeeps DEF TypeOK
<1>3. GrantsInside'
  BY <1>1 DEF GrantsInside, TypeOK
<1>4. CallsInside'
  BY <1>1, StoresKeeps
<1> QED
  BY <1>2, <1>3, <1>4

LEMMA StoreUsedKeeps ==
  ASSUME IInv, NEW t \in Threads, StoreUsed(t)
  PROVE  IInv'
<1>1. /\ new_used_size(t) \in Nat /\ new_used_size(t) <= TotalSize
      /\ aligned_start(t) \in Nat
  BY Types DEF IInv, StoreUsed, CallsInside
<1> QED
  BY <1>1, StoresUsedKeeps DEF StoreUsed

LEMMA StorePoppedKeeps ==
  ASSUME IInv, StorePopped
  PROVE  IInv'
<1>1. App \in Threads
  BY DEF Threads
<1>2. call[App].loaded \in Nat /\ call[App].loaded <= TotalSize
  BY <1>1, Types DEF IInv, CallsInside
<1>3. NoBlock \in [lo : Nat, hi : Nat] /\ NoBlock.hi <= TotalSize
  BY SharedAssumption DEF NoBlock
<1> QED
  BY <1>1, <1>2, <1>3, StoresUsedKeeps DEF StorePopped

-----------------------------------------------------------------------------
(* The invariant the theorems rest on.                                     *)
THEOREM Invariance == Spec => []IInv
<1>1. Init => IInv
  <2> SUFFICES ASSUME Init PROVE IInv
    OBVIOUS
  <2>1. TypeOK
    BY DEF Init, TypeOK, NoCall, NoBlock
  <2>2. GrantsInside
    BY SharedAssumption DEF Init, GrantsInside, NoBlock
  <2>3. CallsInside
    BY SharedAssumption DEF Init, CallsInside, NoCall
  <2> QED
    BY <2>1, <2>2, <2>3 DEF IInv
<1>2. IInv /\ [Next]_vars => IInv'
  <2> SUFFICES ASSUME IInv, [Next]_vars PROVE IInv'
    OBVIOUS
  <2>1. ASSUME NEW t \in Threads, NEW n \in Request(t), Load(t, n) PROVE IInv'
    BY <2>1, LoadKeeps
  <2>2. ASSUME NEW t \in Threads, StorePrevious(t) PROVE IInv'
    BY <2>2, StorePreviousKeeps
  <2>3. ASSUME NEW t \in Threads, StoreUsed(t) PROVE IInv'
    BY <2>3, StoreUsedKeeps
  <2>4. CASE LoadPrevious
    BY <2>4, LoadPreviousKeeps
  <2>5. CASE StorePopped
    BY <2>5, StorePoppedKeeps
  <2>6. CASE UNCHANGED vars
    BY <2>6 DEF vars, IInv, TypeOK, GrantsInside, CallsInside, new_used_size,
                aligned_start
  <2> QED
    BY <2>1, <2>2, <2>3, <2>4, <2>5, <2>6 DEF Next
<1> QED
  BY <1>1, <1>2, PTL DEF Spec

(* The fields and the calls keep their types.                              *)
THEOREM TypeCorrect == Spec => []TypeOK
<1>1. IInv => TypeOK
  BY DEF IInv
<1> QED
  BY <1>1, Invariance, PTL

(* However many threads allocate, and in whatever order their loads and    *)
(* stores come, arena_alloc grants nothing past the end of the arena.      *)
THEOREM Inside == Spec => []GrantsInside
<1>1. IInv => GrantsInside
  BY DEF IInv
<1> QED
  BY <1>1, Invariance, PTL
=============================================================================
