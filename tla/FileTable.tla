------------------------------ MODULE FileTable ------------------------------
(***************************************************************************)
(* What a program may assume of its file descriptors: a descriptor is      *)
(* closed or names a file; opening takes the lowest closed one (the test   *)
(* Runtime/POSIX/FDNumbers.c counts on it); a call changes one descriptor  *)
(* at most.  PosixFiles implements this.                                   *)
(***************************************************************************)
EXTENDS Naturals

CONSTANTS Fd, File, Shut

VARIABLE table

Lowest(fd) == table[fd] = Shut /\ \A d \in Fd : d < fd => table[d] # Shut

Open(fd) ==
  /\ Lowest(fd)
  /\ table'[fd] \in File
  /\ table' = [table EXCEPT ![fd] = table'[fd]]
Close(fd) == table' = [table EXCEPT ![fd] = Shut]
Duplicate(old, new) ==
  /\ table[old] # Shut
  /\ table' = [table EXCEPT ![new] = table[old]]

Init == table \in [Fd -> File \cup {Shut}]
Next == \E fd \in Fd : \/ Open(fd)
                       \/ Close(fd)
                       \/ \E new \in Fd : Duplicate(fd, new)
Spec == Init /\ [][Next]_table
=============================================================================
