---------------------------- MODULE ShmNameProofs ----------------------------
(***************************************************************************)
(* What holds of ShmName for any number of processes and files.            *)
(***************************************************************************)
EXTENDS ShmName, TLAPS

(* A process whose shm_open failed is still to unlink the name.            *)
FailedUnlinks ==
  \A p \in Processes : failed[p] => name # NoFile /\ pc[p] = "unlink"

IInv == TypeOK /\ FilesPrivate /\ NameIsTransient /\ FailedUnlinks

-----------------------------------------------------------------------------
(* A file that is created is in nobody's use.                              *)
LEMMA OpenKeeps ==
  ASSUME IInv, NEW p \in Processes, Open(p)
  PROVE  IInv'
<1> USE NoFileAssumption DEF IInv
<1>1. PICK f \in CreateExclusively :
        /\ fd' = [fd EXCEPT ![p] = f]
        /\ name' = IF f = NoFile THEN name ELSE f
        /\ failed' = [failed EXCEPT ![p] = (f = NoFile)]
  BY DEF Open
<1>2. /\ pc[p] = "idle" /\ pc' = [pc EXCEPT ![p] = "unlink"]
      /\ mapped' = [mapped EXCEPT ![p] = NoFile]
  BY DEF Open, Becomes
<1>3. \/ name = NoFile /\ f \in Files /\ f \notin InUse
      \/ name # NoFile /\ f = NoFile
  BY <1>1 DEF CreateExclusively
<1>4. \A q \in Processes : f # NoFile => fd[q] # f /\ mapped[q] # f
  BY <1>3 DEF InUse
<1>5. /\ fd'[p] = f /\ mapped'[p] = NoFile /\ pc'[p] = "unlink"
      /\ \A q \in Processes \ {p} : fd'[q] = fd[q] /\ mapped'[q] = mapped[q] /\ pc'[q] = pc[q]
  BY <1>1, <1>2 DEF TypeOK
<1>6. TypeOK'
  BY <1>1, <1>2, <1>3, <1>5 DEF TypeOK
<1>7. FilesPrivate'
  BY <1>4, <1>5 DEF FilesPrivate
<1>8. NameIsTransient'
  BY <1>1, <1>3, <1>4, <1>5 DEF NameIsTransient
<1>9. FailedUnlinks'
  BY <1>1, <1>3, <1>5 DEF FailedUnlinks, TypeOK
<1> QED
  BY <1>6, <1>7, <1>8, <1>9

LEMMA UnlinkKeeps ==
  ASSUME IInv, NEW p \in Processes, Unlink(p)
  PROVE  IInv'
<1> USE NoFileAssumption DEF IInv, Unlink, Unlinked, Becomes
<1>1. TypeOK'
  BY DEF TypeOK
<1>2. FilesPrivate' /\ NameIsTransient'
  BY DEF FilesPrivate, NameIsTransient
<1>3. FailedUnlinks'
  BY DEF FailedUnlinks
<1> QED
  BY <1>1, <1>2, <1>3

(* What is mapped has lost its name.                                       *)
LEMMA MapKeeps ==
  ASSUME IInv, NEW p \in Processes, Map(p)
  PROVE  IInv'
<1> USE NoFileAssumption DEF IInv
<1> PICK f \in {fd[p], NoFile}, g \in {fd[p], NoFile} :
      mapped' = [mapped EXCEPT ![p] = f] /\ fd' = [fd EXCEPT ![p] = g]
  BY DEF Map
<1>1. /\ pc[p] = "map" /\ pc' = [pc EXCEPT ![p] = "idle"]
      /\ name' = name /\ failed' = failed
  BY DEF Map, Becomes
<1>2. /\ fd'[p] = g /\ mapped'[p] = f /\ pc'[p] = "idle"
      /\ \A q \in Processes \ {p} : fd'[q] = fd[q] /\ mapped'[q] = mapped[q] /\ pc'[q] = pc[q]
  BY <1>1 DEF TypeOK
<1>3. TypeOK'
  BY <1>1, <1>2 DEF TypeOK
<1>4. FilesPrivate'
  BY <1>2 DEF FilesPrivate
<1>5. NameIsTransient'
  BY <1>1, <1>2 DEF NameIsTransient
<1>6. FailedUnlinks'
  BY <1>1, <1>2 DEF FailedUnlinks
<1> QED
  BY <1>3, <1>4, <1>5, <1>6

LEMMA DieKeeps ==
  ASSUME IInv, NEW p \in Processes, Die(p) \/ Start(p)
  PROVE  IInv'
<1> USE NoFileAssumption DEF IInv
<1>1. /\ (fd'[p] = NoFile /\ mapped'[p] = NoFile) \/ UNCHANGED <<fd, mapped>>
      /\ \A q \in Processes \ {p} :
           fd'[q] = fd[q] /\ mapped'[q] = mapped[q] /\ pc'[q] = pc[q] /\ failed'[q] = failed[q]
      /\ name' = name
  BY DEF Die, Start, Becomes, TypeOK
<1>2. TypeOK'
  BY DEF Die, Start, Becomes, TypeOK
<1>3. FilesPrivate'
  BY <1>1 DEF FilesPrivate
<1>4. NameIsTransient'
  <2>1. CASE Die(p)
    BY <1>1, <2>1 DEF NameIsTransient, Die, TypeOK
  <2>2. CASE Start(p)
    BY <1>1, <2>2 DEF NameIsTransient, Start, TypeOK
  <2> QED
    BY <2>1, <2>2
<1>5. FailedUnlinks'
  <2>1. CASE Die(p)
    BY <1>1, <2>1 DEF FailedUnlinks, Die, TypeOK
  <2>2. CASE Start(p)
    BY <1>1, <2>2 DEF FailedUnlinks, Start, TypeOK
  <2> QED
    BY <2>1, <2>2
<1> QED
  BY <1>2, <1>3, <1>4, <1>5

-----------------------------------------------------------------------------
(* The invariant the theorems rest on.                                     *)
THEOREM Invariance == Spec => []IInv
<1>1. Init => IInv
  BY NoFileAssumption
     DEF Init, IInv, TypeOK, FilesPrivate, NameIsTransient, FailedUnlinks
<1>2. IInv /\ [Next]_vars => IInv'
  <2> SUFFICES ASSUME IInv, [Next]_vars PROVE IInv'
    OBVIOUS
  <2>1. ASSUME NEW p \in Processes,
               Open(p) \/ Unlink(p) \/ Map(p) \/ Die(p) \/ Start(p)
        PROVE  IInv'
    BY <2>1, OpenKeeps, UnlinkKeeps, MapKeeps, DieKeeps
  <2>2. CASE UNCHANGED vars
    BY <2>2 DEF vars, IInv, TypeOK, FilesPrivate, NameIsTransient, FailedUnlinks
  <2> QED
    BY <2>1, <2>2 DEF Next
<1> QED
  BY <1>1, <1>2, PTL DEF Spec

(* No two processes ever have the same file, although all use one name.    *)
THEOREM Private == Spec => []FilesPrivate
<1>1. IInv => FilesPrivate
  BY DEF IInv
<1> QED
  BY <1>1, Invariance, PTL

(* The name is taken only while a resize runs, or was cut short.           *)
THEOREM Transient == Spec => []NameIsTransient
<1>1. IInv => NameIsTransient
  BY DEF IInv
<1> QED
  BY <1>1, Invariance, PTL

(* A name that a dead process left fails each process once.                *)
THEOREM FailsOnce == Spec => FailsOncePerName
<1>1. IInv => [\A p \in Processes : Open(p) /\ failed[p] => ~ failed'[p]]_vars
  BY DEF IInv, FailedUnlinks, Open
<1> QED
  BY <1>1, Invariance, PTL DEF FailsOncePerName
=============================================================================
