---------------------------- MODULE FileHandler -----------------------------
(***************************************************************************)
(* The file side of FileHandler.cpp: where a receiver saves the incoming   *)
(* file and what RecvFile does to the disk.  A path is a name picked in    *)
(* the save dialog together with the copy numbers that CanReceiveFiles     *)
(* appends to it: <<name, <<>>>> is "name.ext", <<name, <<2>>>> is         *)
(* "name(2).ext", <<name, <<2, 1>>>> is "name(2)(1).ext".  The content of  *)
(* a file is the sequence of the chunks written to it.                     *)
(***************************************************************************)
EXTENDS Transport

CONSTANTS
  Name,      \* names the user can pick in the save dialog
  NoPath,    \* FilePathOnTarget before a path has been picked
  OldNames   \* OldNames[p]: names that p's disk holds from the start

Path == Name \X Seq(Nat)

ASSUME NameAssumption ==
  /\ IsFiniteSet(Name)
  /\ NoPath \notin Path
  /\ OldNames \in [Peer -> SUBSET Name]

VARIABLES
  filePathOnTarget,   \* IncomingFileRequest.FilePathOnTarget of each peer
  askedPath,          \* local to CanReceiveFiles: the path it asks about
  disk                \* disk[p]: the content of each file that exists at p

fileVars == <<filePathOnTarget, askedPath, disk>>

\* What a chunk leaves on disk; <<NoFile, 0>> is the content of an old file.
Chunk == (File \cup {NoFile}) \X Nat
OldContent == << <<NoFile, 0>> >>
Bare(name) == <<name, <<>>>>
OldPaths(p) == {Bare(name) : name \in OldNames[p]}

FileTypeOK ==
  /\ filePathOnTarget \in [Peer -> Path \cup {NoPath}]
  /\ askedPath \in [Peer -> Path \cup {NoPath}]
  /\ DOMAIN disk = Peer
  /\ \A p \in Peer :
       /\ IsFiniteSet(DOMAIN disk[p])
       /\ DOMAIN disk[p] \subseteq Path
       /\ \A path \in DOMAIN disk[p] : disk[p][path] \in Seq(Chunk)

FileInit ==
  /\ filePathOnTarget = [p \in Peer |-> NoPath]
  /\ askedPath = [p \in Peer |-> NoPath]
  /\ disk = [p \in Peer |-> [path \in OldPaths(p) |-> OldContent]]

Exists(p, path) == path \in DOMAIN disk[p]

Written(p, path) == IF Exists(p, path) THEN disk[p][path] ELSE <<>>

Write(p, path, content) ==
  disk' = [disk EXCEPT ![p] =
             [x \in DOMAIN disk[p] \cup {path} |->
                IF x = path THEN content ELSE disk[p][x]]]

\* Mutant of Truncate: the file is opened for appending.
OpenForAppend(p, path) == Write(p, path, Written(p, path))

\* ofstream(path, binary): the file is created, or emptied.
Truncate(p, path) == Write(p, path, <<>>)

\* Mutant of AppendChunk: the app flag is forgotten.
ChunkReplaces(p, path, pkt) == Write(p, path, << <<pkt.file, pkt.part>> >>)

\* ofstream(path, binary | app) and write: created when it does not exist.
AppendChunk(p, path, pkt) ==
  Write(p, path, Append(Written(p, path), <<pkt.file, pkt.part>>))

\* The loop of CanReceiveFiles: name(1), name(2), ... until one is free.
\* Of any Cardinality(DOMAIN disk[p]) + 1 numbers at least one is free.
Copy(path, n) == <<path[1], Append(path[2], n)>>

FreeNumbers(p, path) ==
  {n \in 1 .. Cardinality(DOMAIN disk[p]) + 1 : ~Exists(p, Copy(path, n))}

\* Mutant of FreshPath: the loop ends before the path is replaced.
SamePath(p, path) == path

FreshPath(p, path) ==
  Copy(path, CHOOSE n \in FreeNumbers(p, path) :
               \A m \in FreeNumbers(p, path) : n <= m)
=============================================================================
