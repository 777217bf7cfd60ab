------------------------------ MODULE ShmName ------------------------------
(***************************************************************************)
(* The name "/or-shared-mem", which every process with a window uses for   *)
(* the file of its pixels: the first lines of inter_wl_window_resize in    *)
(* src/orwindow/linux/wayland_client.c, one system call a step.  The       *)
(* processes run at their own pace and may die between any two of them.    *)
(* What follows (pool, buffer, drawing) is in Window.                      *)
(***************************************************************************)
CONSTANTS
  Processes,
  Files,         (* the files that there may be at once in /dev/shm        *)
  NoFile

ASSUME NoFileAssumption == NoFile \notin Files

VARIABLES
  name,          (* the file that has the name                             *)
  pc,            (* of each process, the next call; "idle" between resizes *)
  fd,            (* file_descriptor, NoFile for -1; as long as it is open, *)
                 (* or until the next resize                               *)
  mapped,        (* the file in which its bitmap->mem lies                 *)
  failed         (* ghost: the file that has the name now is why its       *)
                 (* shm_open failed                                        *)

vars == <<name, pc, fd, mapped, failed>>

InUse == {name} \cup {fd[p] : p \in Processes} \cup {mapped[p] : p \in Processes}
Becomes(p, label) == pc' = [pc EXCEPT ![p] = label]

(* The old pixels are unmapped and the file is opened, with O_CREAT and    *)
(* O_EXCL: it is a new one, or there is none.                              *)
OpenOrCreate == IF name = NoFile THEN Files \ InUse ELSE {name}
CreateExclusively == IF name = NoFile THEN Files \ InUse ELSE {NoFile}
Open(p) ==
  /\ pc[p] = "idle"
  /\ \E f \in CreateExclusively :
       /\ fd' = [fd EXCEPT ![p] = f]
       /\ name' = IF f = NoFile THEN name ELSE f
       /\ failed' = [failed EXCEPT ![p] = (f = NoFile)]
  /\ mapped' = [mapped EXCEPT ![p] = NoFile]
  /\ Becomes(p, "unlink")

(* shm_unlink, whether the file was opened or not, and whoever's it is.    *)
NeverUnlinked(p) == name
OnlyOwn(p) == IF fd[p] = NoFile THEN name ELSE NoFile
Unlinked(p) == NoFile
Unlink(p) ==
  /\ pc[p] = "unlink"
  /\ name' = Unlinked(p)
  /\ failed' = IF name' = name THEN failed ELSE [q \in Processes |-> FALSE]
  /\ Becomes(p, "map")
  /\ UNCHANGED <<fd, mapped>>

(* ftruncate and mmap, which fails without a file and may fail with one;   *)
(* close, but not if there is no pool or no buffer.                        *)
Map(p) ==
  /\ pc[p] = "map"
  /\ \E f \in {fd[p], NoFile} : mapped' = [mapped EXCEPT ![p] = f]
  /\ \E f \in {fd[p], NoFile} : fd' = [fd EXCEPT ![p] = f]
  /\ Becomes(p, "idle")
  /\ UNCHANGED <<name, failed>>

(* A process dies (it was killed, or drew where mmap had failed), and the  *)
(* program is started again.                                               *)
Die(p) ==
  /\ pc[p] # "dead"
  /\ fd' = [fd EXCEPT ![p] = NoFile]
  /\ mapped' = [mapped EXCEPT ![p] = NoFile]
  /\ failed' = [failed EXCEPT ![p] = FALSE]
  /\ Becomes(p, "dead")
  /\ UNCHANGED name
Start(p) ==
  /\ pc[p] = "dead"
  /\ Becomes(p, "idle")
  /\ UNCHANGED <<name, fd, mapped, failed>>

Init ==
  /\ name = NoFile
  /\ pc = [p \in Processes |-> "dead"]
  /\ fd = [p \in Processes |-> NoFile]
  /\ mapped = [p \in Processes |-> NoFile]
  /\ failed = [p \in Processes |-> FALSE]

Next == \E p \in Processes : Open(p) \/ Unlink(p) \/ Map(p) \/ Die(p) \/ Start(p)

Spec == Init /\ [][Next]_vars
-----------------------------------------------------------------------------
(* Type correctness; in a resize nothing is mapped yet.                    *)
TypeOK ==
  /\ name \in Files \cup {NoFile}
  /\ pc \in [Processes -> {"idle", "unlink", "map", "dead"}]
  /\ fd \in [Processes -> Files \cup {NoFile}]
  /\ mapped \in [Processes -> Files \cup {NoFile}]
  /\ failed \in [Processes -> BOOLEAN]
  /\ \A p \in Processes : pc[p] \in {"unlink", "map"} => mapped[p] = NoFile

(* However the processes interleave and die, no two of them have the same  *)
(* file: the window of one never shows, or loses, the pixels of another.   *)
FilesPrivate ==
  \A p, q \in Processes : p # q =>
    {fd[p], mapped[p]} \cap {fd[q], mapped[q]} \subseteq {NoFile}

(* A name that is left behind does not keep a program out: between two     *)
(* tries that fail the name was removed, if only by the first of them, so  *)
(* that no process fails twice because of the same file.                   *)
FailsOncePerName ==
  [][\A p \in Processes : Open(p) /\ failed[p] => ~ failed'[p]]_vars

(* A process that has done its resize is in nobody's way: a file with the  *)
(* name is that of a process before its shm_unlink, or of one that died    *)
(* there, and then nobody has it.                                          *)
NameIsTransient ==
  \A p \in Processes : name # NoFile => mapped[p] # name /\ (fd[p] = name => pc[p] = "unlink")
=============================================================================
