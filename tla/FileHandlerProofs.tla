------------------------- MODULE FileHandlerProofs --------------------------
(***************************************************************************)
(* What the steps of CanReceiveFiles and RecvFile do to the disk, for any  *)
(* disk: the loop that numbers a copy ends, and it ends at a path that no  *)
(* file has.                                                               *)
(***************************************************************************)
EXTENDS FileHandler, FiniteSetTheorems, SequenceTheorems,
        WellFoundedInduction, TLAPS

\* A non-empty set of natural numbers has a least element.
LEMMA LeastNumber ==
  ASSUME NEW S \in SUBSET Nat, S # {}
  PROVE  \E n \in S : \A m \in S : n <= m
<1>1. PICK n \in S : \A m \in S : <<m, n>> \notin OpToRel(<, Nat)
  BY NatLessThanWellFounded, WFMin, Zenon
<1>2. ASSUME NEW m \in S, m < n  PROVE FALSE
  <2>1. m \in Nat /\ n \in Nat
    OBVIOUS
  <2>2. <<m, n>> \in Nat \X Nat
    BY <2>1
  <2>3. <<m, n>>[1] < <<m, n>>[2]
    BY <1>2
  <2>4. <<m, n>> \in OpToRel(<, Nat)
    BY <2>2, <2>3, Zenon DEF OpToRel
  <2>. QED  BY <1>1, <2>4
<1>. QED  BY <1>2

\* One of the numbers that the loop of CanReceiveFiles (FileHandler.cpp:134)
\* counts through is free, however many files there are.
LEMMA SomeNumberIsFree ==
  ASSUME FileTypeOK, NEW p \in Peer, NEW path \in Path
  PROVE  FreeNumbers(p, path) # {}
<1>. DEFINE T == DOMAIN disk[p]
            N == 1 .. Cardinality(T) + 1
            copy == [n \in N |-> Copy(path, n)]
<1>1. IsFiniteSet(T) /\ Cardinality(T) \in Nat
  BY FS_CardinalityType DEF FileTypeOK
<1>2. IsFiniteSet(N) /\ Cardinality(N) = Cardinality(T) + 1
  BY <1>1, FS_Interval
<1>3. SUFFICES ASSUME FreeNumbers(p, path) = {} PROVE FALSE
  OBVIOUS
<1>4. copy \in [N -> T]
  BY <1>3 DEF FreeNumbers, Exists
<1>5. PICK x, y \in N : x # y /\ copy[x] = copy[y]
  <2>1. Cardinality(T) < Cardinality(N)
    BY <1>1, <1>2
  <2>. HIDE DEF N, T, copy
  <2>. QED  BY <1>1, <1>2, <1>4, <2>1, FS_PigeonHole
<1>6. Append(path[2], x) = Append(path[2], y)
  BY <1>5, Zenon DEF Copy
<1>7. path[2] \in Seq(Nat) /\ x \in Nat /\ y \in Nat
  BY <1>1 DEF Path
<1>. QED  BY <1>5, <1>6, <1>7, AppendInjective

\* Answering N to "Do you want to overwrite it?" yields a path where no file
\* exists, so no file that the disk holds is overwritten at that moment.
THEOREM FreshPathIsFree ==
  ASSUME FileTypeOK, NEW p \in Peer, NEW path \in Path
  PROVE  FreshPath(p, path) \in Path /\ ~Exists(p, FreshPath(p, path))
<1>. DEFINE least == CHOOSE n \in FreeNumbers(p, path) :
                       \A m \in FreeNumbers(p, path) : n <= m
<1>1. FreeNumbers(p, path) \in SUBSET Nat
  BY DEF FreeNumbers
<1>2. least \in FreeNumbers(p, path)
  BY <1>1, SomeNumberIsFree, LeastNumber
<1>3. least \in Nat /\ ~Exists(p, Copy(path, least))
  BY <1>1, <1>2 DEF FreeNumbers
<1>4. Copy(path, least) \in Path
  <2>1. path[1] \in Name /\ path[2] \in Seq(Nat)
    BY DEF Path
  <2>2. Append(path[2], least) \in Seq(Nat)
    BY <2>1, <1>3, AppendProperties
  <2>. HIDE DEF least
  <2>. QED  BY <2>1, <2>2, Zenon DEF Copy, Path
<1>. QED  BY <1>3, <1>4 DEF FreshPath
=============================================================================
