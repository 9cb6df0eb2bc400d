------------------------------ MODULE FileCopy ------------------------------
(***************************************************************************)
(* The abstract specification of a file transfer in one direction: what    *)
(* the two users can rely on when one of them offers a file and the other  *)
(* accepts it.  Threads, packets and disks are left out.  Once the         *)
(* receiver has agreed, the sender may read the file it has chosen, and    *)
(* the copy grows by one chunk at a time, in order, with the chunks that   *)
(* have been read.                                                         *)
(***************************************************************************)
EXTENDS Integers, Sequences

CONSTANTS
  File,      \* the files that can be offered
  NoFile,    \* nothing has been offered
  Chunks     \* Chunks[f]: the number of chunks in f

VARIABLES
  agreed,    \* the receiver has chosen where the file goes
  offered,   \* the file that the sender has chosen
  read,      \* how many chunks of it have been read; -1: it is not open
  copy       \* what the receiver holds of it

copyVars == <<agreed, offered, read, copy>>

CopyInit ==
  /\ agreed = FALSE
  /\ offered = NoFile
  /\ read = -1
  /\ copy = <<>>

Choose ==
  /\ read = -1
  /\ offered' \in File
  /\ UNCHANGED <<agreed, read, copy>>

Agree ==
  /\ agreed' = TRUE
  /\ UNCHANGED <<offered, read, copy>>

Open ==
  /\ agreed /\ offered # NoFile /\ read = -1
  /\ read' = 0
  /\ UNCHANGED <<agreed, offered, copy>>

Read ==
  /\ read # -1 /\ read < Chunks[offered]
  /\ read' = read + 1
  /\ UNCHANGED <<agreed, offered, copy>>

Store ==
  /\ Len(copy) < read
  /\ copy' = Append(copy, <<offered, Len(copy) + 1>>)
  /\ UNCHANGED <<agreed, offered, read>>

CopyNext == Choose \/ Agree \/ Open \/ Read \/ Store

CopySpec == CopyInit /\ [][CopyNext]_copyVars
=============================================================================
