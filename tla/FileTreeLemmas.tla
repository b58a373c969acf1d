--------------------------- MODULE FileTreeLemmas ----------------------------
(***************************************************************************)
(* Facts about the tree of files in a disk (IsTree in module FileServer):  *)
(* what is reached from the root, and how one block written at a time      *)
(* leaves it a tree.                                                       *)
(***************************************************************************)
EXTENDS FileServer, QueueLemmas, NaturalsInduction

-----------------------------------------------------------------------------
(* Blocks and what they hold.                                               *)

Disks == [Blocks -> Contents]

IsData(c) == "data" \in DOMAIN c

\* The root inode has a block.
LEMMA BlockZero == 0 \in Blocks
BY SizesAssumption DEF Blocks

\* A block holds an inode, direntries or data, and only one of them.
LEMMA ContentCases ==
  ASSUME NEW c \in Contents
  PROVE  \/ /\ IsInode(c) /\ ~IsDirentries(c) /\ ~IsData(c)
            /\ c.type \in {"f", "d"} /\ c.owner \in STRING /\ c.blocks \in Seq(Blocks)
            /\ Range(c.blocks) \subseteq Blocks
         \/ /\ IsDirentries(c) /\ ~IsInode(c) /\ ~IsData(c)
            /\ c.directory \in [Slots -> [name : STRING, inode_block : Blocks \ {0}] \cup {Unused}]
            /\ DOMAIN c = {"directory"}
         \/ IsData(c) /\ ~IsInode(c) /\ ~IsDirentries(c)
<1>1. CASE c \in [type : {"f", "d"}, owner : STRING, blocks : Seq(Blocks)]
  <2>1. DOMAIN c = {"type", "owner", "blocks"}
    BY <1>1
  <2>2. c.type \in {"f", "d"} /\ c.owner \in STRING /\ c.blocks \in Seq(Blocks)
    BY <1>1
  <2>3. Range(c.blocks) \subseteq Blocks
    BY <2>2 DEF Range
  <2> QED BY <2>1, <2>2, <2>3 DEF IsInode, IsDirentries, IsData
<1>2. CASE c \in [directory :
                    [Slots -> [name : STRING, inode_block : Blocks \ {0}] \cup {Unused}]]
  <2>1. DOMAIN c = {"directory"}
    BY <1>2
  <2> QED BY <1>2, <2>1 DEF IsInode, IsDirentries, IsData
<1>3. CASE c \in [data : STRING]
  <2>1. DOMAIN c = {"data"}
    BY <1>3
  <2> QED BY <2>1 DEF IsInode, IsDirentries, IsData
<1> QED BY <1>1, <1>2, <1>3 DEF Contents

\* Slot k of the direntry block b is in use.
EntryAt(d, b, k) == IsDirentries(d[b]) /\ d[b].directory[k].inode_block # 0

\* A new direntry block has no entry.
LEMMA NewBlock ==
  /\ \A k \in Slots : NewDirentries.directory[k] = Unused
  /\ Unused.inode_block = 0
<1>1. NewDirentries.directory = [k \in Slots |-> Unused]
  BY DEF NewDirentries
<1> QED BY <1>1 DEF Unused

\* The slots of a direntry block hold a name and an inode, or are unused.
LEMMA SlotCases ==
  ASSUME NEW d \in Disks, NEW b \in Blocks, NEW k \in Slots, IsDirentries(d[b])
  PROVE  \/ /\ EntryAt(d, b, k)
            /\ d[b].directory[k].inode_block \in Blocks \ {0}
            /\ d[b].directory[k].name \in STRING
         \/ ~EntryAt(d, b, k) /\ d[b].directory[k] = Unused
<1>1. d[b] \in Contents
  BY DEF Disks
<1>2. PICK e : e = d[b].directory[k]
  OBVIOUS
<1>3. e \in [name : STRING, inode_block : Blocks \ {0}] \cup {Unused}
  BY <1>1, <1>2, ContentCases
<1>4. Unused.inode_block = 0
  BY DEF Unused
<1>5. CASE e = Unused
  BY <1>2, <1>4, <1>5 DEF EntryAt
<1>6. CASE e \in [name : STRING, inode_block : Blocks \ {0}]
  <2>1. e.name \in STRING /\ e.inode_block \in Blocks \ {0}
    BY <1>6
  <2> QED BY <1>2, <2>1 DEF EntryAt
<1> QED BY <1>3, <1>5, <1>6

\* The used direntries of an inode.
LEMMA EntriesDef ==
  ASSUME NEW d, NEW i
  PROVE  \A e : e \in Entries(d, i) <=>
           \E b \in Range(d[i].blocks), k \in Slots : e = <<b, k>> /\ EntryAt(d, b, k)
<1> SUFFICES ASSUME NEW e
             PROVE  e \in Entries(d, i) <=>
                      \E b \in Range(d[i].blocks), k \in Slots :
                        e = <<b, k>> /\ EntryAt(d, b, k)
  OBVIOUS
<1> DEFINE D == {b \in Range(d[i].blocks) : IsDirentries(d[b])}
<1>1. ASSUME e \in Entries(d, i)
      PROVE  \E b \in Range(d[i].blocks), k \in Slots : e = <<b, k>> /\ EntryAt(d, b, k)
  <2>1. e \in D \X Slots /\ d[e[1]].directory[e[2]].inode_block # 0
    BY <1>1 DEF Entries
  <2>2. PICK b \in D, k \in Slots : e = <<b, k>>
    BY <2>1
  <2> QED BY <2>1, <2>2 DEF EntryAt
<1>2. ASSUME NEW b \in Range(d[i].blocks), NEW k \in Slots, e = <<b, k>>, EntryAt(d, b, k)
      PROVE  e \in Entries(d, i)
  <2>1. e \in D \X Slots /\ e[1] = b /\ e[2] = k
    BY <1>2 DEF EntryAt
  <2> QED BY <1>2, <2>1 DEF Entries, EntryAt
<1> QED BY <1>1, <1>2

\* The inodes in a directory are those in its used slots.
LEMMA SubinodesDef ==
  ASSUME NEW d, NEW i, IsInode(d[i])
  PROVE  \A x : x \in Subinodes(d, i) <=>
           /\ d[i].type = "d"
           /\ \E b \in Range(d[i].blocks), k \in Slots :
                EntryAt(d, b, k) /\ x = d[b].directory[k].inode_block
<1> SUFFICES ASSUME NEW x
             PROVE  x \in Subinodes(d, i) <=>
                      /\ d[i].type = "d"
                      /\ \E b \in Range(d[i].blocks), k \in Slots :
                           EntryAt(d, b, k) /\ x = d[b].directory[k].inode_block
  OBVIOUS
<1>1. CASE d[i].type # "d"
  BY <1>1 DEF Subinodes, IsDirectory
<1>2. CASE d[i].type = "d"
  <2>1. Subinodes(d, i) = {Direntry(d, e).inode_block : e \in Entries(d, i)}
    BY <1>2 DEF Subinodes, IsDirectory
  <2>2. ASSUME NEW e \in Entries(d, i), x = Direntry(d, e).inode_block
        PROVE  \E b \in Range(d[i].blocks), k \in Slots :
                 EntryAt(d, b, k) /\ x = d[b].directory[k].inode_block
    <3>1. PICK b \in Range(d[i].blocks), k \in Slots : e = <<b, k>> /\ EntryAt(d, b, k)
      BY <2>2, EntriesDef
    <3>2. e[1] = b /\ e[2] = k
      BY <3>1
    <3> QED BY <2>2, <3>1, <3>2 DEF Direntry
  <2>3. ASSUME NEW b \in Range(d[i].blocks), NEW k \in Slots,
               EntryAt(d, b, k), x = d[b].directory[k].inode_block
        PROVE  \E e \in Entries(d, i) : x = Direntry(d, e).inode_block
    <3>1. PICK e : e = <<b, k>>
      OBVIOUS
    <3>2. e \in Entries(d, i) /\ e[1] = b /\ e[2] = k
      BY <2>3, <3>1, EntriesDef
    <3> QED BY <2>3, <3>2 DEF Direntry
  <2> QED BY <1>2, <2>1, <2>2, <2>3
<1> QED BY <1>1, <1>2

\* An inode has its blocks and its subinodes on the disk.
LEMMA InodeTyped ==
  ASSUME NEW d \in Disks, NEW i \in Blocks
  PROVE  /\ Subinodes(d, i) \subseteq Blocks \ {0}
         /\ IsInode(d[i]) => /\ d[i].type \in {"f", "d"}
                             /\ d[i].owner \in STRING
                             /\ d[i].blocks \in Seq(Blocks)
                             /\ Range(d[i].blocks) \subseteq Blocks
<1>1. d[i] \in Contents
  BY DEF Disks
<1>2. IsInode(d[i]) => /\ d[i].type \in {"f", "d"}
                       /\ d[i].owner \in STRING
                       /\ d[i].blocks \in Seq(Blocks)
                       /\ Range(d[i].blocks) \subseteq Blocks
  BY <1>1, ContentCases
<1>3. ASSUME IsInode(d[i]), NEW x \in Subinodes(d, i) PROVE x \in Blocks \ {0}
  <2>1. PICK b \in Range(d[i].blocks), k \in Slots :
          EntryAt(d, b, k) /\ x = d[b].directory[k].inode_block
    BY <1>3, SubinodesDef
  <2>2. b \in Blocks /\ IsDirentries(d[b])
    BY <1>2, <1>3, <2>1 DEF EntryAt
  <2> QED BY <2>1, <2>2, SlotCases
<1>4. ~IsInode(d[i]) => Subinodes(d, i) = {}
  BY DEF Subinodes, IsDirectory
<1> QED BY <1>2, <1>3, <1>4

-----------------------------------------------------------------------------
(* What the root reaches.                                                   *)

ClosedIn(d, S) == \A i \in S : Subinodes(d, i) \subseteq S

\* The rounds of the search.
LEMMA InodesRounds ==
  ASSUME NEW d \in Disks, NEW N \in Nat \ {0}, N = FS_DISKSIZE
  PROVE  \E R \in [0 .. N - 1 -> SUBSET Blocks] :
           /\ R[0] = {0}
           /\ \A n \in 1 .. N - 1 :
                R[n] = R[n - 1] \cup UNION {Subinodes(d, i) : i \in R[n - 1]}
           /\ Inodes(d) = R[N - 1]
<1> DEFINE children == [i \in Blocks |-> Subinodes(d, i)]
           Round(R, n) == R \cup UNION {children[i] : i \in R}
           Q == CHOOSE g : g = [n \in 0 .. N - 1 |->
                                  IF n = 0 THEN {0} ELSE Round(g[n - 1], n)]
<1>1. Inodes(d) = Q[N - 1]
  BY DEF Inodes
<1>2. FiniteNatInductiveDefHypothesis(Q, {0}, Round, 0, N - 1)
  BY DEF FiniteNatInductiveDefHypothesis
<1> HIDE DEF Q
<1>3. FiniteNatInductiveDefConclusion(Q, {0}, Round, 0, N - 1)
  <2> HIDE DEF Round
  <2> QED BY <1>2, FiniteNatInductiveDef
<1>4. Q = [n \in 0 .. N - 1 |-> IF n = 0 THEN {0} ELSE Round(Q[n - 1], n)]
  BY <1>3 DEF FiniteNatInductiveDefConclusion
<1>5. \A R \in SUBSET Blocks : \A n : /\ Round(R, n) \in SUBSET Blocks
                                       /\ Round(R, n) = R \cup UNION {Subinodes(d, i) : i \in R}
  BY InodeTyped
<1> HIDE DEF Round
<1>6. Q[0] = {0} /\ \A n \in 1 .. N - 1 : Q[n] = Round(Q[n - 1], n)
  <2>1. 0 \in 0 .. N - 1
    OBVIOUS
  <2>2. Q[0] = {0}
    BY <1>4, <2>1
  <2>3. ASSUME NEW n \in 1 .. N - 1 PROVE Q[n] = Round(Q[n - 1], n)
    <3>1. n \in 0 .. N - 1 /\ n # 0
      OBVIOUS
    <3> QED BY <1>4, <3>1
  <2> QED BY <2>2, <2>3
<1>7. \A n \in 0 .. N - 1 : Q[n] \in SUBSET Blocks
  <2> DEFINE T == {n \in 0 .. N - 1 : Q[n] \notin SUBSET Blocks}
  <2> SUFFICES ASSUME T # {} PROVE FALSE
    OBVIOUS
  <2>1. T \in SUBSET Nat
    OBVIOUS
  <2>2. PICK m \in T : \A k \in T : m <= k
    <3> HIDE DEF T
    <3> QED BY <2>1, LeastElement
  <2>3. m # 0
    BY <1>6, <2>2, BlockZero
  <2>4. m \in 1 .. N - 1 /\ m - 1 \in 0 .. N - 1 /\ m - 1 \notin T
    BY <2>2, <2>3
  <2>5. Q[m - 1] \in SUBSET Blocks
    BY <2>4
  <2> QED BY <1>5, <1>6, <2>2, <2>4, <2>5
<1>8. Q \in [0 .. N - 1 -> SUBSET Blocks]
  BY <1>4, <1>7
<1>9. \A n \in 1 .. N - 1 : Q[n] = Q[n - 1] \cup UNION {Subinodes(d, i) : i \in Q[n - 1]}
  <2> SUFFICES ASSUME NEW n \in 1 .. N - 1
               PROVE  Q[n] = Q[n - 1] \cup UNION {Subinodes(d, i) : i \in Q[n - 1]}
    OBVIOUS
  <2>1. n - 1 \in 0 .. N - 1
    OBVIOUS
  <2> QED BY <1>5, <1>6, <1>7, <2>1
<1> QED BY <1>1, <1>6, <1>8, <1>9

\* The inodes of a disk are the least set that holds the root and what is in its
\* directories.
LEMMA InodesLeast ==
  ASSUME NEW d \in Disks
  PROVE  /\ 0 \in Inodes(d)
         /\ Inodes(d) \subseteq Blocks
         /\ ClosedIn(d, Inodes(d))
         /\ \A S : 0 \in S /\ ClosedIn(d, S) => Inodes(d) \subseteq S
<1>1. PICK N \in Nat \ {0} : N = FS_DISKSIZE
  BY SizesAssumption
<1>2. PICK R \in [0 .. N - 1 -> SUBSET Blocks] :
        /\ R[0] = {0}
        /\ \A n \in 1 .. N - 1 :
             R[n] = R[n - 1] \cup UNION {Subinodes(d, i) : i \in R[n - 1]}
        /\ Inodes(d) = R[N - 1]
  BY <1>1, InodesRounds
<1>3. ASSUME NEW S, 0 \in S, ClosedIn(d, S), NEW n \in 0 .. N - 1 PROVE R[n] \subseteq S
  <2> DEFINE T == {k \in 0 .. N - 1 : ~(R[k] \subseteq S)}
  <2> SUFFICES ASSUME T # {} PROVE FALSE
    OBVIOUS
  <2>1. T \in SUBSET Nat
    OBVIOUS
  <2>2. PICK m \in T : \A k \in T : m <= k
    <3> HIDE DEF T
    <3> QED BY <2>1, LeastElement
  <2>3. m # 0
    BY <1>2, <1>3, <2>2
  <2>4. m \in 1 .. N - 1 /\ m - 1 \in 0 .. N - 1 /\ m - 1 \notin T
    BY <2>2, <2>3
  <2>5. R[m - 1] \subseteq S
    BY <2>4
  <2>6. R[m] \subseteq S
    BY <1>2, <1>3, <2>4, <2>5 DEF ClosedIn
  <2> QED BY <2>2, <2>6
<1>4. ASSUME NEW a \in 0 .. N - 1, NEW b \in a .. N - 1 PROVE R[a] \subseteq R[b]
  <2> DEFINE T == {k \in a .. N - 1 : ~(R[a] \subseteq R[k])}
  <2> SUFFICES ASSUME T # {} PROVE FALSE
    OBVIOUS
  <2>1. T \in SUBSET Nat
    OBVIOUS
  <2>2. PICK m \in T : \A k \in T : m <= k
    <3> HIDE DEF T
    <3> QED BY <2>1, LeastElement
  <2>3. m # a
    BY <2>2
  <2>4. m \in 1 .. N - 1 /\ m - 1 \in a .. N - 1 /\ m - 1 \notin T
    BY <2>2, <2>3
  <2>5. R[m - 1] \subseteq R[m]
    BY <1>2, <2>4
  <2> QED BY <2>2, <2>4, <2>5
<1>5. N - 1 \in 0 .. N - 1 /\ 0 \in 0 .. N - 1
  OBVIOUS
<1>6. 0 \in R[N - 1]
  BY <1>2, <1>4, <1>5
<1>7. IsFiniteSet(Blocks) /\ Cardinality(Blocks) = N
  <2>1. Blocks = 0 .. N - 1
    BY <1>1 DEF Blocks
  <2> QED BY <2>1, FS_Interval
<1>8. ASSUME ~ClosedIn(d, R[N - 1]), NEW n \in 0 .. N - 1
      PROVE  Cardinality(R[n]) >= n + 1
  <2> DEFINE T == {k \in 0 .. N - 1 : ~(Cardinality(R[k]) >= k + 1)}
  <2> SUFFICES ASSUME T # {} PROVE FALSE
    OBVIOUS
  <2>1. T \in SUBSET Nat
    OBVIOUS
  <2>2. PICK m \in T : \A k \in T : m <= k
    <3> HIDE DEF T
    <3> QED BY <2>1, LeastElement
  <2>3. m # 0
    <3>1. Cardinality({0}) = 1
      BY FS_Singleton
    <3>2. Cardinality(R[0]) >= 0 + 1
      BY <1>2, <3>1
    <3> QED BY <2>2, <3>2
  <2>4. m \in 1 .. N - 1 /\ m - 1 \in 0 .. N - 1 /\ m - 1 \notin T
    BY <2>2, <2>3
  <2>5. Cardinality(R[m - 1]) >= m
    BY <2>4
  <2>6. R[m - 1] \subseteq R[m]
    BY <1>2, <2>4
  <2>7. R[m] # R[m - 1]
    <3> SUFFICES ASSUME R[m] = R[m - 1] PROVE FALSE
      OBVIOUS
    <3>1. ClosedIn(d, R[m - 1])
      BY <1>2, <2>4 DEF ClosedIn
    <3>2. 0 \in R[m - 1]
      BY <1>2, <1>4, <1>5, <2>4
    <3>3. R[N - 1] \subseteq R[m - 1]
      BY <1>3, <1>5, <3>1, <3>2
    <3>4. R[m - 1] \subseteq R[N - 1]
      <4>1. N - 1 \in m - 1 .. N - 1
        BY <2>4
      <4> QED BY <1>4, <2>4, <4>1
    <3>5. R[m - 1] = R[N - 1]
      BY <3>3, <3>4
    <3> QED BY <1>8, <3>1, <3>5
  <2>8. IsFiniteSet(R[m])
    <3>1. R[m] \subseteq Blocks
      BY <1>2, <2>4
    <3> QED BY <1>7, <3>1, FS_Subset
  <2>9. /\ Cardinality(R[m - 1]) \in Nat /\ Cardinality(R[m]) \in Nat
        /\ Cardinality(R[m - 1]) < Cardinality(R[m])
    BY <2>6, <2>7, <2>8, FS_Subset, FS_CardinalityType
  <2> QED BY <2>2, <2>4, <2>5, <2>9
<1>9. ClosedIn(d, R[N - 1])
  <2> SUFFICES ASSUME ~ClosedIn(d, R[N - 1]) PROVE FALSE
    OBVIOUS
  <2>1. Cardinality(R[N - 1]) >= N
    BY <1>5, <1>8
  <2>2. R[N - 1] \subseteq Blocks
    BY <1>2, <1>5
  <2>3. R[N - 1] = Blocks
    BY <1>7, <2>1, <2>2, FS_Subset, FS_CardinalityType
  <2> QED BY <2>3, InodeTyped DEF ClosedIn
<1> QED BY <1>2, <1>3, <1>5, <1>6, <1>9

-----------------------------------------------------------------------------
(* A tree, seen block by block.                                             *)

Own(d, i) == Range(d[i].blocks)

Target(d, b, k) == d[b].directory[k].inode_block

NameAt(d, b, k) == d[b].directory[k].name

BlocksOn(d, I) == UNION {Own(d, i) : i \in I}

\* Inodes and what belongs to them: I are inodes, and no block is referred to twice.
InodesOn(d, I) ==
  /\ 0 \in I /\ I \subseteq Blocks
  /\ \A i \in I :
       /\ IsInode(d[i])
       /\ IsInjective(d[i].blocks)
       /\ \A b \in Own(d, i) :
            /\ b \notin I
            /\ \A j \in I : b \in Own(d, j) => i = j

\* Blocks are what their inode says.
BlocksTyped(d, I) ==
  \A i \in I : \A b \in Own(d, i) :
    IF d[i].type = "d" THEN IsDirentries(d[b]) /\ d[b] # NewDirentries ELSE IsData(d[b])

\* Direntries lead to inodes, different ones to different inodes, and their names
\* are different within a directory.
EntriesOn(d, I) ==
  /\ \A i \in I : \A b \in Own(d, i) : \A k \in Slots :
       EntryAt(d, b, k) => Target(d, b, k) \in I
  /\ \A i, j \in I : \A b \in Own(d, i), c \in Own(d, j) : \A k, l \in Slots :
       EntryAt(d, b, k) /\ EntryAt(d, c, l) /\ Target(d, b, k) = Target(d, c, l)
         => b = c /\ k = l
  /\ \A i \in I : \A b, c \in Own(d, i) : \A k, l \in Slots :
       EntryAt(d, b, k) /\ EntryAt(d, c, l) /\ NameAt(d, b, k) = NameAt(d, c, l)
         => b = c /\ k = l

\* S has what the direntries of its own inodes lead to.
ClosedOn(d, I, S) ==
  \A i \in I \cap S : \A b \in Own(d, i) : \A k \in Slots :
    EntryAt(d, b, k) => Target(d, b, k) \in S

\* Every inode is reached from the root.
AllReached(d, I) == \A S : 0 \in S /\ ClosedOn(d, I, S) => I \subseteq S

TreeOn(d, I) ==
  InodesOn(d, I) /\ BlocksTyped(d, I) /\ EntriesOn(d, I) /\ AllReached(d, I)

\* Only direntry blocks have entries, so that the type of the inode need not be
\* looked at.
LEMMA ChildIff ==
  ASSUME NEW d \in Disks, NEW I \in SUBSET Blocks, NEW i \in I, IsInode(d[i]),
         BlocksTyped(d, I)
  PROVE  \A x : x \in Subinodes(d, i) <=>
           \E b \in Own(d, i), k \in Slots : EntryAt(d, b, k) /\ x = Target(d, b, k)
<1>1. \A x : x \in Subinodes(d, i) <=>
        /\ d[i].type = "d"
        /\ \E b \in Own(d, i), k \in Slots : EntryAt(d, b, k) /\ x = Target(d, b, k)
  BY SubinodesDef DEF Own, Target
<1>2. ASSUME d[i].type # "d", NEW b \in Own(d, i), NEW k \in Slots PROVE ~EntryAt(d, b, k)
  <2>1. IsData(d[b])
    BY <1>2 DEF BlocksTyped
  <2>2. d[i] \in Contents
    BY DEF Disks
  <2>3. b \in Blocks
    BY <2>2, ContentCases DEF Own
  <2>4. d[b] \in Contents
    BY <2>3 DEF Disks
  <2> QED BY <2>1, <2>4, ContentCases DEF EntryAt
<1> QED BY <1>1, <1>2

\* There is one set of inodes to a disk.
LEMMA TreeInodes ==
  ASSUME NEW d \in Disks, NEW I, TreeOn(d, I)
  PROVE  I = Inodes(d)
<1>1. 0 \in I /\ I \in SUBSET Blocks /\ \A i \in I : IsInode(d[i])
  BY DEF TreeOn, InodesOn
<1>2. \A i \in I : \A x : x \in Subinodes(d, i) <=>
        \E b \in Own(d, i), k \in Slots : EntryAt(d, b, k) /\ x = Target(d, b, k)
  BY <1>1, ChildIff DEF TreeOn
<1>3. I \subseteq Inodes(d)
  <2>1. ClosedOn(d, I, Inodes(d))
    BY <1>2, InodesLeast DEF ClosedOn, ClosedIn
  <2> QED BY <2>1, InodesLeast DEF TreeOn, AllReached
<1>4. ClosedIn(d, I)
  BY <1>2 DEF ClosedIn, TreeOn, EntriesOn
<1> QED BY <1>1, <1>3, <1>4, InodesLeast

\* The places that refer to blocks.
LEMMA ReferencesDef ==
  ASSUME NEW d
  PROVE  \A r : r \in References(d) <=>
           \E i \in Inodes(d) :
             /\ IsInode(d[i])
             /\ \/ \E k \in DOMAIN d[i].blocks : r = <<d[i].blocks[k], <<"block", i, k>> >>
                \/ \E b \in Own(d, i), k \in Slots :
                     EntryAt(d, b, k) /\ r = <<Target(d, b, k), <<"entry", b, k>> >>
<1> DEFINE ByBlock(i) == {<<d[i].blocks[k], <<"block", i, k>> >> : k \in DOMAIN d[i].blocks}
           ByEntry(i) ==
             {<<Direntry(d, e).inode_block, <<"entry", e[1], e[2]>> >> : e \in Entries(d, i)}
<1> SUFFICES ASSUME NEW r
             PROVE  r \in References(d) <=>
               \E i \in Inodes(d) :
                 /\ IsInode(d[i])
                 /\ \/ \E k \in DOMAIN d[i].blocks : r = <<d[i].blocks[k], <<"block", i, k>> >>
                    \/ \E b \in Own(d, i), k \in Slots :
                         EntryAt(d, b, k) /\ r = <<Target(d, b, k), <<"entry", b, k>> >>
  OBVIOUS
<1>1. References(d) = UNION {ByBlock(i) \cup ByEntry(i) : i \in {j \in Inodes(d) : IsInode(d[j])}}
  BY DEF References
<1>2. ASSUME NEW i
      PROVE  r \in ByEntry(i) <=>
               \E b \in Own(d, i), k \in Slots :
                 EntryAt(d, b, k) /\ r = <<Target(d, b, k), <<"entry", b, k>> >>
  <2>1. ASSUME NEW e \in Entries(d, i),
               r = <<Direntry(d, e).inode_block, <<"entry", e[1], e[2]>> >>
        PROVE  \E b \in Own(d, i), k \in Slots :
                 EntryAt(d, b, k) /\ r = <<Target(d, b, k), <<"entry", b, k>> >>
    <3>1. PICK b \in Own(d, i), k \in Slots : e = <<b, k>> /\ EntryAt(d, b, k)
      BY EntriesDef DEF Own
    <3>2. e[1] = b /\ e[2] = k
      BY <3>1
    <3> QED BY <2>1, <3>1, <3>2 DEF Direntry, Target
  <2>2. ASSUME NEW b \in Own(d, i), NEW k \in Slots,
               EntryAt(d, b, k), r = <<Target(d, b, k), <<"entry", b, k>> >>
        PROVE  r \in ByEntry(i)
    <3>1. PICK e : e = <<b, k>>
      OBVIOUS
    <3>2. e[1] = b /\ e[2] = k
      BY <3>1
    <3>3. e \in Entries(d, i)
      BY <2>2, <3>1, EntriesDef DEF Own
    <3> QED BY <2>2, <3>2, <3>3 DEF Direntry, Target
  <2> QED BY <2>1, <2>2
<1>3. ASSUME NEW i
      PROVE  r \in ByBlock(i) <=>
               \E k \in DOMAIN d[i].blocks : r = <<d[i].blocks[k], <<"block", i, k>> >>
  OBVIOUS
<1> HIDE DEF ByBlock, ByEntry
<1> QED BY <1>1, <1>2, <1>3

\* An inode other than the root is in a directory.
LEMMA ParentExists ==
  ASSUME NEW d \in Disks, NEW x \in Inodes(d), x # 0
  PROVE  \E i \in Inodes(d) : x \in Subinodes(d, i)
<1> DEFINE S == {0} \cup UNION {Subinodes(d, i) : i \in Inodes(d)}
<1>1. S \subseteq Inodes(d)
  BY InodesLeast DEF ClosedIn
<1>2. 0 \in S /\ ClosedIn(d, S)
  BY <1>1 DEF ClosedIn
<1>3. Inodes(d) \subseteq S
  <2> HIDE DEF S
  <2> QED BY <1>2, InodesLeast
<1> QED BY <1>3

\* The blocks in use on a disk.
LEMMA UsedDef ==
  ASSUME NEW d \in Disks, NEW I, TreeOn(d, I)
  PROVE  UsedBlocks(d) = I \cup BlocksOn(d, I)
<1>1. I = Inodes(d) /\ \A i \in I : IsInode(d[i])
  BY TreeInodes DEF TreeOn, InodesOn
<1>2. {j \in I : IsInode(d[j])} = I
  BY <1>1
<1> QED BY <1>1, <1>2 DEF UsedBlocks, BlocksOn, Own

\* IsTree, seen block by block.
LEMMA TreeIsOn ==
  ASSUME NEW d \in Disks, IsTree(d)
  PROVE  TreeOn(d, Inodes(d))
<1> DEFINE I == Inodes(d)
           R == References(d)
<1>1. /\ \A r, s \in R : r[1] = s[1] => r = s
      /\ \A r \in R : r[1] # 0
      /\ \A i \in I :
           /\ IsInode(d[i])
           /\ \A b \in Range(d[i].blocks) :
                IF d[i].type = "d" THEN IsDirentries(d[b]) /\ d[b] # NewDirentries
                ELSE "data" \in DOMAIN d[b]
           /\ \A e, f \in Entries(d, i) : Direntry(d, e).name = Direntry(d, f).name => e = f
  BY DEF IsTree
<1>2. 0 \in I /\ I \in SUBSET Blocks /\ ClosedIn(d, I)
  BY InodesLeast
<1>3. BlocksTyped(d, I)
  BY <1>1 DEF BlocksTyped, Own, IsData
<1> HIDE DEF I, R
<1>4. ASSUME NEW i \in I
      PROVE  \A x : x \in Subinodes(d, i) <=>
               \E b \in Own(d, i), k \in Slots : EntryAt(d, b, k) /\ x = Target(d, b, k)
  BY <1>1, <1>2, <1>3, ChildIff
<1>5. ASSUME NEW i \in I, NEW k \in DOMAIN d[i].blocks
      PROVE  <<d[i].blocks[k], <<"block", i, k>> >> \in R
  BY <1>1, ReferencesDef DEF I, R
<1>6. ASSUME NEW i \in I, NEW b \in Own(d, i), NEW k \in Slots, EntryAt(d, b, k)
      PROVE  <<Target(d, b, k), <<"entry", b, k>> >> \in R
  BY <1>1, <1>6, ReferencesDef DEF I, R
<1>7. ASSUME NEW i \in I, NEW j \in I, NEW k \in DOMAIN d[i].blocks, NEW l \in DOMAIN d[j].blocks,
             d[i].blocks[k] = d[j].blocks[l]
      PROVE  i = j /\ k = l
  <2>1. PICK r \in R : r = <<d[i].blocks[k], <<"block", i, k>> >>
    BY <1>5
  <2>2. PICK s \in R : s = <<d[j].blocks[l], <<"block", j, l>> >>
    BY <1>5
  <2>3. r[1] = s[1]
    BY <1>7, <2>1, <2>2
  <2>4. r = s
    BY <1>1, <2>3
  <2> QED BY <2>1, <2>2, <2>4
<1>8. ASSUME NEW i \in I, NEW k \in DOMAIN d[i].blocks PROVE d[i].blocks[k] \notin I
  <2>1. d[i].blocks[k] # 0
    BY <1>1, <1>5
  <2>2. ASSUME d[i].blocks[k] \in I PROVE FALSE
    <3>1. PICK p \in I : d[i].blocks[k] \in Subinodes(d, p)
      BY <2>1, <2>2, ParentExists DEF I
    <3>2. PICK b \in Own(d, p), l \in Slots :
            EntryAt(d, b, l) /\ d[i].blocks[k] = Target(d, b, l)
      BY <1>4, <3>1
    <3>3. PICK r \in R : r = <<d[i].blocks[k], <<"block", i, k>> >>
      BY <1>5
    <3>4. PICK s \in R : s = <<Target(d, b, l), <<"entry", b, l>> >>
      BY <1>6, <3>2
    <3>5. r[1] = s[1]
      BY <3>2, <3>3, <3>4
    <3>6. r = s
      BY <1>1, <3>5
    <3> QED BY <3>3, <3>4, <3>6
  <2> QED BY <2>2
<1>9. InodesOn(d, I)
  <2>1. ASSUME NEW i \in I PROVE IsInjective(d[i].blocks)
    BY <1>7 DEF IsInjective
  <2>2. ASSUME NEW i \in I, NEW b \in Own(d, i) PROVE b \notin I
    BY <1>8 DEF Own, Range
  <2>3. ASSUME NEW i \in I, NEW b \in Own(d, i), NEW j \in I, b \in Own(d, j) PROVE i = j
    <3>1. PICK k \in DOMAIN d[i].blocks : b = d[i].blocks[k]
      BY DEF Own, Range
    <3>2. PICK l \in DOMAIN d[j].blocks : b = d[j].blocks[l]
      BY <2>3 DEF Own, Range
    <3> QED BY <1>7, <3>1, <3>2
  <2> QED BY <1>1, <1>2, <2>1, <2>2, <2>3 DEF InodesOn
<1>10. EntriesOn(d, I)
  <2>1. ASSUME NEW i \in I, NEW b \in Own(d, i), NEW k \in Slots, EntryAt(d, b, k)
        PROVE  Target(d, b, k) \in I
    BY <1>2, <1>4, <2>1 DEF ClosedIn
  <2>2. ASSUME NEW i \in I, NEW j \in I, NEW b \in Own(d, i), NEW c \in Own(d, j),
               NEW k \in Slots, NEW l \in Slots, EntryAt(d, b, k), EntryAt(d, c, l),
               Target(d, b, k) = Target(d, c, l)
        PROVE  b = c /\ k = l
    <3>1. PICK r \in R : r = <<Target(d, b, k), <<"entry", b, k>> >>
      BY <1>6, <2>2
    <3>2. PICK s \in R : s = <<Target(d, c, l), <<"entry", c, l>> >>
      BY <1>6, <2>2
    <3>3. r[1] = s[1]
      BY <2>2, <3>1, <3>2
    <3>4. r = s
      BY <1>1, <3>3
    <3> QED BY <3>1, <3>2, <3>4
  <2>3. ASSUME NEW i \in I, NEW b \in Own(d, i), NEW c \in Own(d, i),
               NEW k \in Slots, NEW l \in Slots, EntryAt(d, b, k), EntryAt(d, c, l),
               NameAt(d, b, k) = NameAt(d, c, l)
        PROVE  b = c /\ k = l
    <3>1. PICK e, f : e = <<b, k>> /\ f = <<c, l>>
      OBVIOUS
    <3>2. e \in Entries(d, i) /\ f \in Entries(d, i)
      BY <2>3, <3>1, EntriesDef DEF Own
    <3>3. e[1] = b /\ e[2] = k /\ f[1] = c /\ f[2] = l
      BY <3>1
    <3>4. Direntry(d, e).name = Direntry(d, f).name
      BY <2>3, <3>3 DEF Direntry, NameAt
    <3>5. e = f
      BY <1>1, <3>2, <3>4
    <3> QED BY <3>3, <3>5
  <2> QED BY <2>1, <2>2, <2>3 DEF EntriesOn
<1>11. AllReached(d, I)
  <2> SUFFICES ASSUME NEW S, 0 \in S, ClosedOn(d, I, S) PROVE I \subseteq S
    BY DEF AllReached
  <2>1. ClosedIn(d, I \cap S)
    BY <1>2, <1>4 DEF ClosedIn, ClosedOn
  <2>2. I \subseteq I \cap S
    BY <1>2, <2>1, InodesLeast DEF I
  <2> QED BY <2>2
<1> QED BY <1>3, <1>9, <1>10, <1>11 DEF TreeOn, I

\* ... and back.
LEMMA OnIsTree ==
  ASSUME NEW d \in Disks, NEW I, TreeOn(d, I)
  PROVE  IsTree(d)
<1>1. I = Inodes(d)
  BY TreeInodes
<1>2. 0 \in I /\ I \in SUBSET Blocks /\ \A i \in I : IsInode(d[i])
  BY DEF TreeOn, InodesOn
<1>3. \A r : r \in References(d) <=>
        \E i \in I :
          \/ \E k \in DOMAIN d[i].blocks : r = <<d[i].blocks[k], <<"block", i, k>> >>
          \/ \E b \in Own(d, i), k \in Slots :
               EntryAt(d, b, k) /\ r = <<Target(d, b, k), <<"entry", b, k>> >>
  BY <1>1, <1>2, ReferencesDef
<1>4. ASSUME NEW i \in I, NEW k \in DOMAIN d[i].blocks
      PROVE  d[i].blocks[k] \in Own(d, i) /\ d[i].blocks[k] \notin I /\ d[i].blocks[k] # 0
  <2>1. d[i].blocks[k] \in Own(d, i)
    BY DEF Own, Range
  <2> QED BY <1>2, <2>1 DEF TreeOn, InodesOn
<1>5. ASSUME NEW i \in I, NEW b \in Own(d, i), NEW k \in Slots, EntryAt(d, b, k)
      PROVE  Target(d, b, k) \in I /\ Target(d, b, k) # 0
  BY <1>5 DEF TreeOn, EntriesOn, EntryAt, Target
<1>6. ASSUME NEW r \in References(d), NEW s \in References(d), r[1] = s[1]
      PROVE  r = s
  <2>1. PICK i \in I :
          \/ \E k \in DOMAIN d[i].blocks : r = <<d[i].blocks[k], <<"block", i, k>> >>
          \/ \E b \in Own(d, i), k \in Slots :
               EntryAt(d, b, k) /\ r = <<Target(d, b, k), <<"entry", b, k>> >>
    BY <1>3
  <2>2. PICK j \in I :
          \/ \E k \in DOMAIN d[j].blocks : s = <<d[j].blocks[k], <<"block", j, k>> >>
          \/ \E b \in Own(d, j), k \in Slots :
               EntryAt(d, b, k) /\ s = <<Target(d, b, k), <<"entry", b, k>> >>
    BY <1>3
  <2>3. ASSUME NEW k \in DOMAIN d[i].blocks, r = <<d[i].blocks[k], <<"block", i, k>> >>,
               NEW l \in DOMAIN d[j].blocks, s = <<d[j].blocks[l], <<"block", j, l>> >>
        PROVE  r = s
    <3>1. d[i].blocks[k] = d[j].blocks[l]
      BY <1>6, <2>3
    <3>2. i = j
      BY <1>4, <3>1 DEF TreeOn, InodesOn
    <3>3. k = l
      BY <3>1, <3>2 DEF TreeOn, InodesOn, IsInjective
    <3> QED BY <2>3, <3>2, <3>3
  <2>4. ASSUME NEW b \in Own(d, i), NEW k \in Slots, EntryAt(d, b, k),
               r = <<Target(d, b, k), <<"entry", b, k>> >>,
               NEW c \in Own(d, j), NEW l \in Slots, EntryAt(d, c, l),
               s = <<Target(d, c, l), <<"entry", c, l>> >>
        PROVE  r = s
    <3>1. Target(d, b, k) = Target(d, c, l)
      BY <1>6, <2>4
    <3>2. b = c /\ k = l
      BY <2>4, <3>1 DEF TreeOn, EntriesOn
    <3> QED BY <2>4, <3>2
  <2>5. ASSUME NEW k \in DOMAIN d[i].blocks, r = <<d[i].blocks[k], <<"block", i, k>> >>,
               NEW c \in Own(d, j), NEW l \in Slots, EntryAt(d, c, l),
               s = <<Target(d, c, l), <<"entry", c, l>> >>
        PROVE  FALSE
    BY <1>4, <1>5, <1>6, <2>5
  <2>6. ASSUME NEW k \in DOMAIN d[j].blocks, s = <<d[j].blocks[k], <<"block", j, k>> >>,
               NEW c \in Own(d, i), NEW l \in Slots, EntryAt(d, c, l),
               r = <<Target(d, c, l), <<"entry", c, l>> >>
        PROVE  FALSE
    BY <1>4, <1>5, <1>6, <2>6
  <2> QED BY <2>1, <2>2, <2>3, <2>4, <2>5, <2>6
<1>7. ASSUME NEW r \in References(d) PROVE r[1] # 0
  BY <1>3, <1>4, <1>5
<1>8. ASSUME NEW i \in I, NEW b \in Range(d[i].blocks)
      PROVE  IF d[i].type = "d" THEN IsDirentries(d[b]) /\ d[b] # NewDirentries
             ELSE "data" \in DOMAIN d[b]
  BY DEF TreeOn, BlocksTyped, Own, IsData
<1>9. ASSUME NEW i \in I, NEW e \in Entries(d, i), NEW f \in Entries(d, i),
             Direntry(d, e).name = Direntry(d, f).name
      PROVE  e = f
  <2>1. PICK b \in Own(d, i), k \in Slots : e = <<b, k>> /\ EntryAt(d, b, k)
    BY EntriesDef DEF Own
  <2>2. PICK c \in Own(d, i), l \in Slots : f = <<c, l>> /\ EntryAt(d, c, l)
    BY EntriesDef DEF Own
  <2>3. e[1] = b /\ e[2] = k /\ f[1] = c /\ f[2] = l
    BY <2>1, <2>2
  <2>4. NameAt(d, b, k) = NameAt(d, c, l)
    BY <1>9, <2>3 DEF Direntry, NameAt
  <2>5. b = c /\ k = l
    BY <2>1, <2>2, <2>4 DEF TreeOn, EntriesOn
  <2> QED BY <2>1, <2>2, <2>5
<1> QED BY <1>1, <1>2, <1>6, <1>7, <1>8, <1>9 DEF IsTree

-----------------------------------------------------------------------------
(* What a change of a tree leaves.  The changes are stated by what they do  *)
(* to the blocks and entries; module FileServerProofs shows that the writes *)
(* of the server do that.                                                   *)

\* The data of a file changes, or a block of data, if any, is appended to it.
LEMMA KeepTree ==
  ASSUME NEW d \in Disks, NEW e \in Disks, NEW I, TreeOn(d, I), NEW i \in I, NEW Z,
         \A x \in I : /\ IsInode(e[x]) /\ e[x].type = d[x].type
                      /\ IsInjective(e[x].blocks)
                      /\ x # i => Own(e, x) = Own(d, x),
         Own(e, i) = Own(d, i) \cup Z,
         \A z \in Z : d[i].type = "f" /\ z \notin I \cup BlocksOn(d, I) /\ IsData(e[z]),
         \A b \in BlocksOn(d, I) : IF IsDirentries(d[b]) THEN e[b] = d[b] ELSE IsData(e[b])
  PROVE  TreeOn(e, I) /\ BlocksOn(e, I) = BlocksOn(d, I) \cup Z
<1>1. InodesOn(d, I) /\ BlocksTyped(d, I) /\ EntriesOn(d, I) /\ AllReached(d, I)
  BY DEF TreeOn
<1>2. I \in SUBSET Blocks /\ 0 \in I /\ \A x \in I : IsInode(d[x])
  BY <1>1 DEF InodesOn
<1>3. \A x \in I : Own(e, x) = IF x = i THEN Own(d, x) \cup Z ELSE Own(d, x)
  OBVIOUS
<1>4. BlocksOn(e, I) = BlocksOn(d, I) \cup Z
  BY <1>3 DEF BlocksOn
<1>5. \A x \in I : Own(e, x) \subseteq Blocks /\ Own(d, x) \subseteq Blocks
                   /\ d[x].type \in {"f", "d"}
  BY <1>2, InodeTyped DEF Own
<1>6. \A z \in Z : ~IsDirentries(e[z])
  <2> SUFFICES ASSUME NEW z \in Z PROVE ~IsDirentries(e[z])
    OBVIOUS
  <2>1. z \in Blocks
    BY <1>3, <1>5
  <2>2. e[z] \in Contents
    BY <2>1 DEF Disks
  <2> QED BY <2>2, ContentCases
<1>7. ASSUME NEW x \in I, NEW b \in Own(d, x), IsDirentries(e[b]) \/ IsDirentries(d[b])
      PROVE  e[b] = d[b]
  <2>1. b \in BlocksOn(d, I) /\ b \in Blocks
    BY <1>5 DEF BlocksOn
  <2>2. e[b] \in Contents
    BY <2>1 DEF Disks
  <2> QED BY <1>7, <2>1, <2>2, ContentCases
<1>8. ASSUME NEW x \in I, NEW b \in Own(e, x), NEW k \in Slots, EntryAt(e, b, k)
      PROVE  /\ b \in Own(d, x) /\ EntryAt(d, b, k)
             /\ Target(e, b, k) = Target(d, b, k) /\ NameAt(e, b, k) = NameAt(d, b, k)
  <2>1. IsDirentries(e[b])
    BY <1>8 DEF EntryAt
  <2>2. b \in Own(d, x)
    BY <1>3, <1>6, <2>1
  <2>3. e[b] = d[b]
    BY <1>7, <2>1, <2>2
  <2> QED BY <1>8, <2>2, <2>3 DEF EntryAt, Target, NameAt
<1>9. ASSUME NEW x \in I, NEW b \in Own(d, x), NEW k \in Slots, EntryAt(d, b, k)
      PROVE  b \in Own(e, x) /\ EntryAt(e, b, k) /\ Target(e, b, k) = Target(d, b, k)
  <2>1. IsDirentries(d[b])
    BY <1>9 DEF EntryAt
  <2>2. e[b] = d[b]
    BY <1>7, <2>1
  <2> QED BY <1>3, <1>9, <2>2 DEF EntryAt, Target
<1>10. InodesOn(e, I)
  <2>1. ASSUME NEW x \in I, NEW b \in Own(e, x) PROVE b \notin I
    <3>1. CASE b \in Own(d, x)
      BY <1>1, <3>1 DEF InodesOn
    <3>2. CASE b \in Z
      BY <3>2
    <3> QED BY <1>3, <3>1, <3>2
  <2>2. ASSUME NEW x \in I, NEW b \in Own(e, x), NEW y \in I, b \in Own(e, y) PROVE x = y
    <3>1. b \in Z => x = i /\ y = i
      BY <1>3, <2>2 DEF BlocksOn
    <3>2. b \notin Z => b \in Own(d, x) /\ b \in Own(d, y)
      BY <1>3, <2>2
    <3> QED BY <1>1, <3>1, <3>2 DEF InodesOn
  <2> QED BY <1>2, <2>1, <2>2 DEF InodesOn
<1>11. BlocksTyped(e, I)
  <2> SUFFICES ASSUME NEW x \in I, NEW b \in Own(e, x)
               PROVE  IF e[x].type = "d" THEN IsDirentries(e[b]) /\ e[b] # NewDirentries
                      ELSE IsData(e[b])
    BY DEF BlocksTyped
  <2>1. CASE b \in Own(d, x)
    <3>1. IF d[x].type = "d" THEN IsDirentries(d[b]) /\ d[b] # NewDirentries ELSE IsData(d[b])
      BY <1>1, <2>1 DEF BlocksTyped
    <3>2. b \in BlocksOn(d, I) /\ b \in Blocks
      BY <1>5, <2>1 DEF BlocksOn
    <3>3. IF IsDirentries(d[b]) THEN e[b] = d[b] ELSE IsData(e[b])
      BY <3>2
    <3>4. d[b] \in Contents
      BY <3>2 DEF Disks
    <3>5. IsData(d[b]) => ~IsDirentries(d[b])
      BY <3>4, ContentCases
    <3>6. e[x].type = d[x].type
      OBVIOUS
    <3> QED BY <3>1, <3>3, <3>5, <3>6
  <2>2. CASE b \notin Own(d, x)
    <3>1. x = i /\ b \in Z
      BY <1>3, <2>2
    <3>2. e[x].type = "f" /\ IsData(e[b])
      BY <3>1
    <3> QED BY <3>2
  <2> QED BY <2>1, <2>2
<1>12. EntriesOn(e, I)
  <2>1. ASSUME NEW x \in I, NEW b \in Own(e, x), NEW k \in Slots, EntryAt(e, b, k)
        PROVE  Target(e, b, k) \in I
    BY <1>1, <1>8, <2>1 DEF EntriesOn
  <2>2. ASSUME NEW x \in I, NEW y \in I, NEW b \in Own(e, x), NEW c \in Own(e, y),
               NEW k \in Slots, NEW l \in Slots, EntryAt(e, b, k), EntryAt(e, c, l),
               Target(e, b, k) = Target(e, c, l)
        PROVE  b = c /\ k = l
    BY <1>1, <1>8, <2>2 DEF EntriesOn
  <2>3. ASSUME NEW x \in I, NEW b \in Own(e, x), NEW c \in Own(e, x),
               NEW k \in Slots, NEW l \in Slots, EntryAt(e, b, k), EntryAt(e, c, l),
               NameAt(e, b, k) = NameAt(e, c, l)
        PROVE  b = c /\ k = l
    BY <1>1, <1>8, <2>3 DEF EntriesOn
  <2> QED BY <2>1, <2>2, <2>3 DEF EntriesOn
<1>13. AllReached(e, I)
  <2> SUFFICES ASSUME NEW S, 0 \in S, ClosedOn(e, I, S) PROVE I \subseteq S
    BY DEF AllReached
  <2>1. ClosedOn(d, I, S)
    BY <1>9 DEF ClosedOn
  <2> QED BY <1>1, <2>1 DEF AllReached
<1> QED BY <1>4, <1>10, <1>11, <1>12, <1>13 DEF TreeOn

\* A tree with inodes I whose blocks are U.
TreeUsing(d, I, U) == TreeOn(d, I) /\ BlocksOn(d, I) = U

\* Inode j, which has no blocks, is put into slot k of block p of directory i, which
\* had the block with the slot unused, or gets it with no other entry in it.
Grows(d, e, I, i, j, p, k) ==
  /\ d[i].type = "d" /\ j \notin I \cup BlocksOn(d, I) /\ p # j /\ p \notin I
  /\ p \in Own(d, i) \/ p \notin BlocksOn(d, I)
  /\ p \in Own(d, i) => ~EntryAt(d, p, k)
  /\ \A x \in I : /\ IsInode(e[x]) /\ e[x].type = d[x].type
                  /\ IsInjective(e[x].blocks)
                  /\ x # i => Own(e, x) = Own(d, x)
  /\ Own(e, i) = Own(d, i) \cup {p}
  /\ IsInode(e[j]) /\ e[j].blocks = <<>>
  /\ \A b \in BlocksOn(d, I) : b # p => e[b] = d[b]
  /\ EntryAt(e, p, k) /\ Target(e, p, k) = j
  /\ \A b \in Own(d, i) : \A l \in Slots :
       EntryAt(d, b, l) => NameAt(d, b, l) # NameAt(e, p, k)
  /\ \A l \in Slots : l # k =>
       IF p \in Own(d, i) THEN e[p].directory[l] = d[p].directory[l] ELSE ~EntryAt(e, p, l)

\* The tree with one more inode is a tree, with the blocks it had and block p.
LEMMA GrowTree ==
  ASSUME NEW d \in Disks, NEW e \in Disks, NEW I, TreeOn(d, I),
         NEW i \in I, NEW j \in Blocks, NEW p \in Blocks, NEW k \in Slots,
         Grows(d, e, I, i, j, p, k)
  PROVE  TreeUsing(e, I \cup {j}, BlocksOn(d, I) \cup {p})
<1> DEFINE J == I \cup {j}
<1> USE DEF Grows
<1>1. InodesOn(d, I) /\ BlocksTyped(d, I) /\ EntriesOn(d, I) /\ AllReached(d, I)
  BY DEF TreeOn
<1>2. I \in SUBSET Blocks /\ 0 \in I /\ \A x \in I : IsInode(d[x])
  BY <1>1 DEF InodesOn
<1>3. Own(e, j) = {} /\ IsInjective(e[j].blocks)
  BY EmptyQueue DEF Own
<1>4. \A x \in J : Own(e, x) = IF x = i THEN Own(d, x) \cup {p}
                               ELSE IF x = j THEN {} ELSE Own(d, x)
  BY <1>3
<1>5. BlocksOn(e, J) = BlocksOn(d, I) \cup {p}
  BY <1>4 DEF BlocksOn
<1>6. IsDirentries(e[p])
  BY DEF EntryAt
<1>7. p \in Own(d, i) => IsDirentries(d[p])
  BY <1>1 DEF BlocksTyped
<1>8. ASSUME NEW x \in J, NEW b \in Own(e, x), NEW l \in Slots, EntryAt(e, b, l)
      PROVE  \/ b = p /\ l = k /\ x = i
             \/ /\ x \in I /\ b \in Own(d, x) /\ EntryAt(d, b, l) /\ ~(b = p /\ l = k)
                /\ Target(e, b, l) = Target(d, b, l) /\ NameAt(e, b, l) = NameAt(d, b, l)
  <2>1. x \in I /\ (b \in Own(d, x) \/ (x = i /\ b = p))
    BY <1>4
  <2>2. CASE b # p
    <3>1. b \in Own(d, x) /\ e[b] = d[b]
      BY <2>1, <2>2 DEF BlocksOn
    <3> QED BY <1>8, <2>1, <2>2, <3>1 DEF EntryAt, Target, NameAt
  <2>3. CASE b = p
    <3>1. x = i
      BY <1>1, <2>1, <2>3 DEF InodesOn, BlocksOn
    <3>2. CASE l = k
      BY <2>3, <3>1, <3>2
    <3>3. CASE l # k
      <4>1. p \in Own(d, i) /\ e[p].directory[l] = d[p].directory[l]
        BY <1>8, <2>3, <3>3
      <4> QED BY <1>7, <1>8, <2>3, <3>1, <3>3, <4>1 DEF EntryAt, Target, NameAt
    <3> QED BY <3>2, <3>3
  <2> QED BY <2>2, <2>3
<1>9. ASSUME NEW x \in I, NEW b \in Own(d, x), NEW l \in Slots, EntryAt(d, b, l)
      PROVE  b \in Own(e, x) /\ EntryAt(e, b, l) /\ Target(e, b, l) = Target(d, b, l)
  <2>1. b \in Own(e, x)
    BY <1>4
  <2>2. CASE b # p
    <3>1. e[b] = d[b]
      BY <2>2 DEF BlocksOn
    <3> QED BY <1>9, <2>1, <3>1 DEF EntryAt, Target
  <2>3. CASE b = p
    <3>1. x = i /\ l # k
      BY <1>1, <1>9, <2>3 DEF InodesOn, BlocksOn
    <3>2. e[p].directory[l] = d[p].directory[l]
      BY <2>3, <3>1
    <3> QED BY <1>6, <1>9, <2>1, <2>3, <3>2 DEF EntryAt, Target
  <2> QED BY <2>2, <2>3
<1>10. InodesOn(e, J)
  <2>1. ASSUME NEW x \in J, NEW b \in Own(e, x) PROVE b \notin J
    <3>1. x \in I /\ (b \in Own(d, x) \/ b = p)
      BY <1>4
    <3> QED BY <1>1, <3>1 DEF InodesOn, BlocksOn
  <2>2. ASSUME NEW x \in J, NEW b \in Own(e, x), NEW y \in J, b \in Own(e, y) PROVE x = y
    <3>1. x \in I /\ y \in I
      BY <1>4, <2>2
    <3>2. CASE b = p
      BY <1>1, <1>4, <2>2, <3>1, <3>2 DEF InodesOn, BlocksOn
    <3>3. CASE b # p
      BY <1>1, <1>4, <2>2, <3>1, <3>3 DEF InodesOn
    <3> QED BY <3>2, <3>3
  <2> QED BY <1>2, <1>3, <2>1, <2>2 DEF InodesOn
<1>11. BlocksTyped(e, J)
  <2> SUFFICES ASSUME NEW x \in J, NEW b \in Own(e, x)
               PROVE  IF e[x].type = "d" THEN IsDirentries(e[b]) /\ e[b] # NewDirentries
                      ELSE IsData(e[b])
    BY DEF BlocksTyped
  <2>1. x \in I /\ e[x].type = d[x].type
    BY <1>4
  <2>2. CASE b = p
    <3>1. x = i
      BY <1>1, <1>4, <2>1, <2>2 DEF InodesOn, BlocksOn
    <3>2. e[p] # NewDirentries
      BY NewBlock DEF EntryAt
    <3> QED BY <1>6, <2>1, <2>2, <3>1, <3>2
  <2>3. CASE b # p
    <3>1. b \in Own(d, x) /\ e[b] = d[b]
      BY <1>4, <2>1, <2>3 DEF BlocksOn
    <3> QED BY <1>1, <2>1, <3>1 DEF BlocksTyped
  <2> QED BY <2>2, <2>3
<1>12. EntriesOn(e, J)
  <2>1. ASSUME NEW x \in J, NEW b \in Own(e, x), NEW l \in Slots, EntryAt(e, b, l)
        PROVE  Target(e, b, l) \in J
    BY <1>1, <1>8, <2>1 DEF EntriesOn
  <2>2. ASSUME NEW x \in J, NEW y \in J, NEW b \in Own(e, x), NEW c \in Own(e, y),
               NEW l \in Slots, NEW m \in Slots, EntryAt(e, b, l), EntryAt(e, c, m),
               Target(e, b, l) = Target(e, c, m)
        PROVE  b = c /\ l = m
    <3>1. \A z \in I : \A a \in Own(d, z) : \A n \in Slots :
            EntryAt(d, a, n) => Target(d, a, n) # j
      BY <1>1 DEF EntriesOn
    <3>2. CASE b = p /\ l = k
      BY <1>8, <2>2, <3>1, <3>2
    <3>3. CASE c = p /\ m = k
      BY <1>8, <2>2, <3>1, <3>3
    <3>4. CASE ~(b = p /\ l = k) /\ ~(c = p /\ m = k)
      <4>1. x \in I /\ b \in Own(d, x) /\ EntryAt(d, b, l) /\ Target(e, b, l) = Target(d, b, l)
        BY <1>8, <2>2, <3>4
      <4>2. y \in I /\ c \in Own(d, y) /\ EntryAt(d, c, m) /\ Target(e, c, m) = Target(d, c, m)
        BY <1>8, <2>2, <3>4
      <4>3. Target(d, b, l) = Target(d, c, m)
        BY <2>2, <4>1, <4>2
      <4>4. EntriesOn(d, I)
        BY <1>1
      <4> QED BY <4>1, <4>2, <4>3, <4>4 DEF EntriesOn
    <3> QED BY <3>2, <3>3, <3>4
  <2>3. ASSUME NEW x \in J, NEW b \in Own(e, x), NEW c \in Own(e, x),
               NEW l \in Slots, NEW m \in Slots, EntryAt(e, b, l), EntryAt(e, c, m),
               NameAt(e, b, l) = NameAt(e, c, m)
        PROVE  b = c /\ l = m
    <3>1. CASE b = p /\ l = k
      BY <1>8, <2>3, <3>1
    <3>2. CASE c = p /\ m = k
      BY <1>8, <2>3, <3>2
    <3>3. CASE ~(b = p /\ l = k) /\ ~(c = p /\ m = k)
      <4>1. x \in I /\ b \in Own(d, x) /\ EntryAt(d, b, l) /\ NameAt(e, b, l) = NameAt(d, b, l)
        BY <1>8, <2>3, <3>3
      <4>2. c \in Own(d, x) /\ EntryAt(d, c, m) /\ NameAt(e, c, m) = NameAt(d, c, m)
        BY <1>8, <2>3, <3>3
      <4> QED BY <1>1, <2>3, <4>1, <4>2 DEF EntriesOn
    <3> QED BY <3>1, <3>2, <3>3
  <2> QED BY <2>1, <2>2, <2>3 DEF EntriesOn
<1>13. AllReached(e, J)
  <2> SUFFICES ASSUME NEW S, 0 \in S, ClosedOn(e, J, S) PROVE J \subseteq S
    BY DEF AllReached
  <2>1. ClosedOn(d, I, S)
    BY <1>9 DEF ClosedOn
  <2>2. I \subseteq S
    BY <1>1, <2>1 DEF AllReached
  <2>3. p \in Own(e, i)
    OBVIOUS
  <2>4. Target(e, p, k) \in S
    BY <2>2, <2>3 DEF ClosedOn
  <2> QED BY <2>2, <2>4
<1> QED BY <1>5, <1>10, <1>11, <1>12, <1>13 DEF TreeOn, TreeUsing

\* Inode j, which has no entries, is taken from slot k of block p of directory i; if
\* it was the only entry the directory may lose the block.
Shrinks(d, e, I, i, j, p, k, Z) ==
  /\ Z = {} \/ Z = {p}
  /\ EntryAt(d, p, k) /\ j = Target(d, p, k)
  /\ \A b \in Own(d, j) : \A l \in Slots : ~EntryAt(d, b, l)
  /\ \A x \in I : /\ IsInode(e[x]) /\ e[x].type = d[x].type
                  /\ IsInjective(e[x].blocks)
                  /\ x # i => Own(e, x) = Own(d, x)
  /\ Own(e, i) = Own(d, i) \ Z
  /\ \A b \in BlocksOn(d, I) : b # p => e[b] = d[b]
  /\ Z = {p} => \A l \in Slots : EntryAt(d, p, l) => l = k
  /\ Z = {} => /\ IsDirentries(e[p]) /\ e[p] # NewDirentries /\ ~EntryAt(e, p, k)
               /\ \A l \in Slots : l # k => e[p].directory[l] = d[p].directory[l]

\* The tree without the inode is a tree, without its blocks and those of Z.
LEMMA ShrinkTree ==
  ASSUME NEW d \in Disks, NEW e \in Disks, NEW I, TreeOn(d, I),
         NEW i \in I, NEW j, NEW p \in Own(d, i), NEW k \in Slots, NEW Z,
         Shrinks(d, e, I, i, j, p, k, Z)
  PROVE  /\ TreeUsing(e, I \ {j}, (BlocksOn(d, I) \ Own(d, j)) \ Z)
         /\ j \in I /\ j # i /\ j # 0
<1> DEFINE J == I \ {j}
<1> USE DEF Shrinks
<1>1. InodesOn(d, I) /\ BlocksTyped(d, I) /\ EntriesOn(d, I) /\ AllReached(d, I)
  BY DEF TreeOn
<1>2. I \in SUBSET Blocks /\ 0 \in I /\ \A x \in I : IsInode(d[x])
  BY <1>1 DEF InodesOn
<1>3. j \in I /\ j # i /\ j # 0
  BY <1>1 DEF EntriesOn, EntryAt, Target
<1>4. \A x \in J : x \in I /\ Own(e, x) = IF x = i THEN Own(d, x) \ Z ELSE Own(d, x)
  OBVIOUS
<1>5. BlocksOn(e, J) = (BlocksOn(d, I) \ Own(d, j)) \ Z
  <2>1. ASSUME NEW x \in J, NEW b \in Own(e, x)
        PROVE  b \in BlocksOn(d, I) /\ b \notin Own(d, j) /\ b \notin Z
    <3>1. b \in Own(d, x) /\ (x = i => b \notin Z)
      BY <1>4
    <3>2. b \notin Own(d, j)
      BY <1>1, <1>3, <3>1 DEF InodesOn
    <3>3. b = p => x = i
      BY <1>1, <3>1 DEF InodesOn
    <3> QED BY <3>1, <3>2, <3>3 DEF BlocksOn
  <2>2. ASSUME NEW b \in BlocksOn(d, I), b \notin Own(d, j), b \notin Z
        PROVE  b \in BlocksOn(e, J)
    BY <1>4, <2>2 DEF BlocksOn
  <2>3. \A b : b \in BlocksOn(e, J) <=> \E x \in J : b \in Own(e, x)
    BY DEF BlocksOn
  <2> HIDE DEF J
  <2> QED BY <2>1, <2>2, <2>3
<1>6. ASSUME NEW x \in J, NEW b \in Own(e, x), b # p PROVE b \in Own(d, x) /\ e[b] = d[b]
  BY <1>4, <1>6 DEF BlocksOn
<1>7. ASSUME NEW x \in J, p \in Own(e, x) PROVE x = i /\ Z = {}
  BY <1>1, <1>4, <1>7 DEF InodesOn
<1>8. IsDirentries(d[p])
  BY DEF EntryAt
<1>9. ASSUME NEW x \in J, NEW b \in Own(e, x), NEW l \in Slots, EntryAt(e, b, l)
      PROVE  /\ b \in Own(d, x) /\ EntryAt(d, b, l) /\ ~(b = p /\ l = k)
             /\ Target(e, b, l) = Target(d, b, l) /\ NameAt(e, b, l) = NameAt(d, b, l)
  <2>1. CASE b # p
    BY <1>6, <1>9, <2>1 DEF EntryAt, Target, NameAt
  <2>2. CASE b = p
    <3>1. x = i /\ Z = {} /\ l # k
      BY <1>7, <1>9, <2>2
    <3>2. e[p].directory[l] = d[p].directory[l]
      BY <3>1
    <3> QED BY <1>8, <1>9, <2>2, <3>1, <3>2 DEF EntryAt, Target, NameAt
  <2> QED BY <2>1, <2>2
<1>10. ASSUME NEW x \in J, NEW b \in Own(d, x), NEW l \in Slots, EntryAt(d, b, l),
              ~(b = p /\ l = k)
       PROVE  b \in Own(e, x) /\ EntryAt(e, b, l) /\ Target(e, b, l) = Target(d, b, l)
  <2>1. CASE b # p
    <3>1. b \in Own(e, x)
      BY <1>4, <2>1
    <3> QED BY <1>6, <1>10, <2>1, <3>1 DEF EntryAt, Target
  <2>2. CASE b = p
    <3>1. Z = {} /\ l # k
      BY <1>10, <2>2
    <3>2. b \in Own(e, x) /\ IsDirentries(e[p]) /\ e[p].directory[l] = d[p].directory[l]
      BY <1>4, <3>1
    <3> QED BY <1>10, <2>2, <3>2 DEF EntryAt, Target
  <2> QED BY <2>1, <2>2
<1>11. InodesOn(e, J)
  <2>1. \A x \in J : Own(e, x) \subseteq Own(d, x)
    BY <1>4
  <2> QED BY <1>1, <1>3, <2>1 DEF InodesOn
<1>12. BlocksTyped(e, J)
  <2> SUFFICES ASSUME NEW x \in J, NEW b \in Own(e, x)
               PROVE  IF e[x].type = "d" THEN IsDirentries(e[b]) /\ e[b] # NewDirentries
                      ELSE IsData(e[b])
    BY DEF BlocksTyped
  <2>1. x \in I /\ e[x].type = d[x].type
    BY <1>4
  <2>2. CASE b = p
    <3>1. x = i /\ Z = {}
      BY <1>7, <2>2
    <3>2. d[i].type = "d"
      <4>1. p \in Blocks
        BY <1>2, InodeTyped DEF Own
      <4>2. d[p] \in Contents
        BY <4>1 DEF Disks
      <4> QED BY <1>1, <1>8, <4>2, ContentCases DEF BlocksTyped
    <3> QED BY <2>1, <2>2, <3>1, <3>2
  <2>3. CASE b # p
    BY <1>1, <1>6, <2>1, <2>3 DEF BlocksTyped
  <2> QED BY <2>2, <2>3
<1>13. EntriesOn(e, J)
  <2>1. ASSUME NEW x \in J, NEW b \in Own(e, x), NEW l \in Slots, EntryAt(e, b, l)
        PROVE  Target(e, b, l) \in J
    <3>1. /\ x \in I /\ b \in Own(d, x) /\ EntryAt(d, b, l) /\ ~(b = p /\ l = k)
          /\ Target(e, b, l) = Target(d, b, l)
      BY <1>9, <2>1
    <3>2. Target(d, b, l) \in I /\ Target(d, b, l) # j
      BY <1>1, <3>1 DEF EntriesOn
    <3> QED BY <3>1, <3>2
  <2>2. ASSUME NEW x \in J, NEW y \in J, NEW b \in Own(e, x), NEW c \in Own(e, y),
               NEW l \in Slots, NEW m \in Slots, EntryAt(e, b, l), EntryAt(e, c, m),
               Target(e, b, l) = Target(e, c, m)
        PROVE  b = c /\ l = m
    BY <1>1, <1>9, <2>2 DEF EntriesOn
  <2>3. ASSUME NEW x \in J, NEW b \in Own(e, x), NEW c \in Own(e, x),
               NEW l \in Slots, NEW m \in Slots, EntryAt(e, b, l), EntryAt(e, c, m),
               NameAt(e, b, l) = NameAt(e, c, m)
        PROVE  b = c /\ l = m
    BY <1>1, <1>9, <2>3 DEF EntriesOn
  <2> QED BY <2>1, <2>2, <2>3 DEF EntriesOn
<1>14. AllReached(e, J)
  <2> SUFFICES ASSUME NEW S, 0 \in S, ClosedOn(e, J, S) PROVE J \subseteq S
    BY DEF AllReached
  <2>1. ClosedOn(d, I, S \cup {j})
    <3> SUFFICES ASSUME NEW x \in I \cap (S \cup {j}), NEW b \in Own(d, x), NEW l \in Slots,
                        EntryAt(d, b, l), ~(b = p /\ l = k)
                 PROVE  Target(d, b, l) \in S
      BY DEF ClosedOn
    <3>1. x \in J \cap S
      OBVIOUS
    <3> QED BY <1>10, <3>1 DEF ClosedOn
  <2>2. I \subseteq S \cup {j}
    BY <1>1, <2>1 DEF AllReached
  <2> QED BY <2>2
<1> QED BY <1>3, <1>5, <1>11, <1>12, <1>13, <1>14 DEF TreeOn, TreeUsing

-----------------------------------------------------------------------------
(* The blocks that the server writes.                                       *)

InodeRecords == [type : {"f", "d"}, owner : STRING, blocks : Seq(Blocks)]

Links == [name : STRING, inode_block : Blocks \ {0}] \cup {Unused}

DirentryRecords == [directory : [Slots -> Links]]

\* An inode and direntries are records.
LEMMA BlockRecords ==
  ASSUME NEW c \in Contents
  PROVE  /\ IsInode(c) => c \in InodeRecords
         /\ IsDirentries(c) => c \in DirentryRecords
<1>1. c \in InodeRecords => DOMAIN c = {"type", "owner", "blocks"}
  BY DEF InodeRecords
<1>2. c \in DirentryRecords => DOMAIN c = {"directory"}
  BY DEF DirentryRecords
<1>3. c \in [data : STRING] => DOMAIN c = {"data"}
  OBVIOUS
<1>4. c \in InodeRecords \/ c \in DirentryRecords \/ c \in [data : STRING]
  BY DEF Contents, InodeRecords, DirentryRecords, Links
<1> QED BY <1>1, <1>2, <1>3, <1>4 DEF IsInode, IsDirentries

\* ... and such records are what a block may hold.
LEMMA RecordsAreContents ==
  /\ \A c \in InodeRecords : c \in Contents /\ IsInode(c)
  /\ \A c \in DirentryRecords : c \in Contents /\ IsDirentries(c)
  /\ \A x \in STRING : [data |-> x] \in Contents /\ IsData([data |-> x])
<1>1. \A c \in InodeRecords : c \in Contents /\ IsInode(c)
  BY DEF InodeRecords, Contents, IsInode
<1>2. \A c \in DirentryRecords : c \in Contents /\ IsDirentries(c)
  BY DEF DirentryRecords, Links, Contents, IsDirentries
<1>3. \A x \in STRING : [data |-> x] \in Contents /\ IsData([data |-> x])
  BY DEF Contents, IsData
<1> QED BY <1>1, <1>2, <1>3

\* An inode with other blocks.
LEMMA WithBlocks ==
  ASSUME NEW c \in Contents, IsInode(c), NEW q \in Seq(Blocks)
  PROVE  /\ [c EXCEPT !.blocks = q] \in Contents
         /\ IsInode([c EXCEPT !.blocks = q])
         /\ [c EXCEPT !.blocks = q].type = c.type
         /\ [c EXCEPT !.blocks = q].blocks = q
<1>1. c \in InodeRecords
  BY BlockRecords
<1>2. [c EXCEPT !.blocks = q] \in InodeRecords
  BY <1>1 DEF InodeRecords
<1>3. /\ [c EXCEPT !.blocks = q].type = c.type
      /\ [c EXCEPT !.blocks = q].blocks = q
  BY <1>1 DEF InodeRecords
<1> QED BY <1>2, <1>3, RecordsAreContents

\* A direntry block with another entry in a slot.
LEMMA WithLink ==
  ASSUME NEW c \in Contents, IsDirentries(c), NEW k \in Slots, NEW x \in Links
  PROVE  /\ [c EXCEPT !.directory[k] = x] \in Contents
         /\ IsDirentries([c EXCEPT !.directory[k] = x])
         /\ [c EXCEPT !.directory[k] = x].directory[k] = x
         /\ \A l \in Slots : l # k =>
              [c EXCEPT !.directory[k] = x].directory[l] = c.directory[l]
<1>1. c \in DirentryRecords
  BY BlockRecords
<1>2. PICK g \in [Slots -> Links] : g = c.directory
  BY <1>1 DEF DirentryRecords
<1>3. PICK h \in [Slots -> Links] : h = [g EXCEPT ![k] = x]
  OBVIOUS
<1>4. [c EXCEPT !.directory[k] = x] = [c EXCEPT !.directory = h]
  BY <1>1, <1>2, <1>3 DEF DirentryRecords
<1>5. [c EXCEPT !.directory = h] \in DirentryRecords
  BY <1>1 DEF DirentryRecords
<1>6. [c EXCEPT !.directory = h].directory = h
  BY <1>1 DEF DirentryRecords
<1>7. h[k] = x /\ \A l \in Slots : l # k => h[l] = g[l]
  BY <1>3
<1> QED BY <1>2, <1>4, <1>5, <1>6, <1>7, RecordsAreContents

\* A block with a new entry.
LEMMA WithEntryFacts ==
  ASSUME NEW c \in Contents, IsDirentries(c), NEW k \in Slots, NEW nm \in STRING,
         NEW f \in Blocks \ {0}
  PROVE  /\ WithEntry(c, k, nm, f) \in Contents
         /\ IsDirentries(WithEntry(c, k, nm, f))
         /\ WithEntry(c, k, nm, f).directory[k].name = nm
         /\ WithEntry(c, k, nm, f).directory[k].inode_block = f
         /\ \A l \in Slots : l # k => WithEntry(c, k, nm, f).directory[l] = c.directory[l]
<1>1. PICK x \in Links : x = [name |-> nm, inode_block |-> f]
  BY DEF Links
<1>2. x.name = nm /\ x.inode_block = f
  BY <1>1
<1>3. WithEntry(c, k, nm, f) = [c EXCEPT !.directory[k] = x]
  BY <1>1 DEF WithEntry
<1> QED BY <1>2, <1>3, WithLink

\* The block that Create_attempt fills when no slot is unused.
LEMMA NewDirentriesFacts ==
  /\ NewDirentries \in Contents
  /\ IsDirentries(NewDirentries)
  /\ 1 \in Slots
<1>1. NewDirentries \in DirentryRecords
  BY DEF NewDirentries, DirentryRecords, Links
<1>2. 1 \in Slots
  BY SizesAssumption DEF Slots
<1> QED BY <1>1, <1>2, RecordsAreContents

\* The blocks of a directory without the one that has become empty.
LEMMA WithoutFacts ==
  ASSUME NEW q \in Seq(Blocks), IsInjective(q), NEW b \in Range(q)
  PROVE  /\ Without(q, b) \in Seq(Blocks)
         /\ IsInjective(Without(q, b))
         /\ Range(Without(q, b)) = Range(q) \ {b}
<1> DEFINE i == CHOOSE k \in DOMAIN q : q[k] = b
<1>1. i \in DOMAIN q /\ q[i] = b
  BY DEF Range
<1> HIDE DEF i
<1>2. PICK n \in Nat : n = Len(q) /\ DOMAIN q = 1 .. n
  OBVIOUS
<1>3. PICK w : w = Without(q, b)
  OBVIOUS
<1>4. w = [k \in 1 .. n - 1 |-> q[IF k < i THEN k ELSE k + 1]]
  BY <1>2, <1>3 DEF Without, i
<1>5. i \in 1 .. n /\ n - 1 \in Nat
  BY <1>1, <1>2
<1>6. ASSUME NEW k \in 1 .. n - 1
      PROVE  \E m \in 1 .. n : /\ m # i /\ w[k] = q[m]
                               /\ m = IF k < i THEN k ELSE k + 1
  BY <1>4, <1>5
<1>7. w \in [1 .. n - 1 -> Blocks]
  <2>1. \A m \in 1 .. n : q[m] \in Blocks
    BY <1>2
  <2> QED BY <1>4, <1>6, <2>1
<1>8. w \in Seq(Blocks) /\ DOMAIN w = 1 .. n - 1
  BY <1>5, <1>7, FunctionQueue
<1>9. IsInjective(w)
  <2> SUFFICES ASSUME NEW k \in 1 .. n - 1, NEW l \in 1 .. n - 1, w[k] = w[l] PROVE k = l
    BY <1>8 DEF IsInjective
  <2>1. PICK m \in 1 .. n : w[k] = q[m] /\ m = IF k < i THEN k ELSE k + 1
    BY <1>6
  <2>2. PICK o \in 1 .. n : w[l] = q[o] /\ o = IF l < i THEN l ELSE l + 1
    BY <1>6
  <2>3. m = o
    BY <1>2, <2>1, <2>2 DEF IsInjective
  <2> QED BY <1>5, <2>1, <2>2, <2>3
<1>10. Range(w) \subseteq Range(q) \ {b}
  <2> SUFFICES ASSUME NEW k \in 1 .. n - 1 PROVE w[k] \in Range(q) /\ w[k] # b
    BY <1>8 DEF Range
  <2>1. PICK m \in 1 .. n : m # i /\ w[k] = q[m]
    BY <1>6
  <2> QED BY <1>1, <1>2, <2>1 DEF Range, IsInjective
<1>11. Range(q) \ {b} \subseteq Range(w)
  <2> SUFFICES ASSUME NEW m \in 1 .. n, q[m] # b PROVE q[m] \in Range(w)
    BY <1>2 DEF Range
  <2>1. m # i
    BY <1>1
  <2>2. PICK k \in 1 .. n - 1 : m = IF k < i THEN k ELSE k + 1
    <3>1. CASE m < i
      <4>1. m \in 1 .. n - 1
        BY <1>5, <3>1
      <4> QED BY <3>1, <4>1
    <3>2. CASE ~(m < i)
      <4>1. m - 1 \in 1 .. n - 1 /\ ~(m - 1 < i) /\ m = (m - 1) + 1
        BY <1>5, <2>1, <3>2
      <4> QED BY <4>1
    <3> QED BY <3>1, <3>2
  <2>3. w[k] = q[m]
    BY <1>4, <2>2
  <2> QED BY <1>8, <2>3 DEF Range
<1> QED BY <1>3, <1>8, <1>9, <1>10, <1>11

-----------------------------------------------------------------------------
(* What the writes of the server leave.                                     *)

\* disk_writeblock.
Put(d, b, c) == [d EXCEPT ![b] = c]

\* A block that is not in use is written: free_inode, free_direntry, or the block to
\* be appended.
LEMMA PutUnused ==
  ASSUME NEW d \in Disks, NEW I, TreeOn(d, I), NEW b \in Blocks, NEW c \in Contents,
         b \notin I \cup BlocksOn(d, I),
         NEW W, W = Put(d, b, c)
  PROVE  /\ W \in Disks /\ TreeUsing(W, I, BlocksOn(d, I))
<1>1. PICK e \in Disks : e = [d EXCEPT ![b] = c]
  BY DEF Disks
<1>2. \A x \in Blocks : x # b => e[x] = d[x]
  BY <1>1 DEF Disks
<1>3. 0 \in I /\ I \subseteq Blocks /\ \A x \in I : IsInode(d[x]) /\ IsInjective(d[x].blocks)
  BY DEF TreeOn, InodesOn
<1>4. \A x \in I : e[x] = d[x] /\ Own(e, x) = Own(d, x) /\ Own(d, x) \subseteq Blocks
  BY <1>2, <1>3, InodeTyped DEF Own
<1>5. \A x \in BlocksOn(d, I) : e[x] = d[x]
  BY <1>2, <1>4 DEF BlocksOn
<1>6. \A x \in BlocksOn(d, I) : IF IsDirentries(d[x]) THEN e[x] = d[x] ELSE IsData(e[x])
  <2> SUFFICES ASSUME NEW y \in I, NEW x \in Own(d, y), ~IsDirentries(d[x])
               PROVE  IsData(e[x])
    BY <1>5 DEF BlocksOn
  <2>1. IsData(d[x])
    BY DEF TreeOn, BlocksTyped
  <2> QED BY <1>5, <2>1 DEF BlocksOn
<1>7. TreeOn(e, I) /\ BlocksOn(e, I) = BlocksOn(d, I) \cup {}
  <2>1. PICK Z : Z = {}
    OBVIOUS
  <2>2. Own(e, 0) = Own(d, 0) \cup Z
    BY <2>1, <1>3, <1>4
  <2>3. \A x \in I : /\ IsInode(e[x]) /\ e[x].type = d[x].type
                     /\ IsInjective(e[x].blocks)
                     /\ x # 0 => Own(e, x) = Own(d, x)
    BY <1>3, <1>4
  <2>4. \A z \in Z : d[0].type = "f" /\ z \notin I \cup BlocksOn(d, I) /\ IsData(e[z])
    BY <2>1
  <2>5. TreeOn(e, I) /\ BlocksOn(e, I) = BlocksOn(d, I) \cup Z
    BY <1>3, <1>6, <2>2, <2>3, <2>4, KeepTree
  <2> QED BY <2>1, <2>5
<1> QED BY <1>1, <1>7 DEF TreeUsing, Put

\* A block of a file is overwritten.
LEMMA PutData ==
  ASSUME NEW d \in Disks, NEW I, TreeOn(d, I), NEW i \in I, d[i].type = "f",
         NEW b \in Own(d, i), NEW c \in Contents, IsData(c),
         NEW W, W = Put(d, b, c)
  PROVE  /\ b \in Blocks
         /\ W \in Disks /\ TreeUsing(W, I, BlocksOn(d, I))
<1>1. PICK e \in Disks : e = [d EXCEPT ![b] = c]
  BY DEF Disks
<1>2. \A x \in Blocks : x # b => e[x] = d[x]
  BY <1>1 DEF Disks
<1>3. I \subseteq Blocks /\ \A x \in I : IsInode(d[x]) /\ IsInjective(d[x].blocks)
  BY DEF TreeOn, InodesOn
<1>4. b \notin I /\ b \in Blocks /\ b \in BlocksOn(d, I)
  BY <1>3, InodeTyped DEF TreeOn, InodesOn, Own, BlocksOn
<1>5. \A x \in I : e[x] = d[x] /\ Own(e, x) = Own(d, x) /\ Own(d, x) \subseteq Blocks
  BY <1>2, <1>3, <1>4, InodeTyped DEF Own
<1>6. e[b] = c
  BY <1>1, <1>4 DEF Disks
<1>7. \A x \in BlocksOn(d, I) : IF IsDirentries(d[x]) THEN e[x] = d[x] ELSE IsData(e[x])
  <2> SUFFICES ASSUME NEW y \in I, NEW x \in Own(d, y)
               PROVE  IF IsDirentries(d[x]) THEN e[x] = d[x] ELSE IsData(e[x])
    BY DEF BlocksOn
  <2>1. x \in Blocks
    BY <1>5
  <2>2. IsData(d[x]) \/ IsDirentries(d[x])
    BY DEF TreeOn, BlocksTyped
  <2>3. CASE x = b
    <3>1. IsData(d[b])
      BY DEF TreeOn, BlocksTyped
    <3>2. d[b] \in Contents
      BY <1>4 DEF Disks
    <3> QED BY <1>6, <2>3, <3>1, <3>2, ContentCases
  <2>4. CASE x # b
    BY <1>2, <2>1, <2>2, <2>4
  <2> QED BY <2>3, <2>4
<1>8. TreeOn(e, I) /\ BlocksOn(e, I) = BlocksOn(d, I) \cup {}
  <2>1. PICK Z : Z = {}
    OBVIOUS
  <2>2. Own(e, i) = Own(d, i) \cup Z
    BY <2>1, <1>5
  <2>3. \A x \in I : /\ IsInode(e[x]) /\ e[x].type = d[x].type
                     /\ IsInjective(e[x].blocks)
                     /\ x # i => Own(e, x) = Own(d, x)
    BY <1>3, <1>5
  <2>4. \A z \in Z : d[i].type = "f" /\ z \notin I \cup BlocksOn(d, I) /\ IsData(e[z])
    BY <2>1
  <2>5. TreeOn(e, I) /\ BlocksOn(e, I) = BlocksOn(d, I) \cup Z
    BY <1>7, <2>2, <2>3, <2>4, KeepTree
  <2> QED BY <2>1, <2>5
<1> QED BY <1>1, <1>4, <1>8 DEF TreeUsing, Put

\* The inode of a file is written with one more block.
LEMMA LinkData ==
  ASSUME NEW d \in Disks, NEW I, TreeOn(d, I), NEW i \in I, d[i].type = "f",
         NEW b \in Blocks, b \notin I \cup BlocksOn(d, I), IsData(d[b]),
         NEW c, c = WithBlock(d[i], b),
         NEW W, W = Put(d, i, c)
  PROVE  /\ c \in Contents
         /\ W \in Disks /\ TreeUsing(W, I, BlocksOn(d, I) \cup {b})
<1>1. I \subseteq Blocks /\ \A x \in I : IsInode(d[x]) /\ IsInjective(d[x].blocks)
  BY DEF TreeOn, InodesOn
<1>2. d[i] \in Contents /\ d[i].blocks \in Seq(Blocks)
  BY <1>1, InodeTyped DEF Disks
<1>3. /\ Append(d[i].blocks, b) \in Seq(Blocks)
      /\ Range(Append(d[i].blocks, b)) = Range(d[i].blocks) \cup {b}
      /\ IsInjective(Append(d[i].blocks, b))
  <2>1. b \notin Range(d[i].blocks)
    BY DEF BlocksOn, Own
  <2> QED BY <1>1, <1>2, <2>1, PushQueue
<1>4. PICK q \in Seq(Blocks) : q = Append(d[i].blocks, b)
  BY <1>3
<1>5. /\ c \in Contents /\ IsInode(c) /\ c.type = d[i].type /\ c.blocks = q
  BY <1>1, <1>2, <1>4, WithBlocks DEF WithBlock
<1>6. PICK e \in Disks : e = [d EXCEPT ![i] = c]
  BY <1>5 DEF Disks
<1>7. e[i] = c /\ \A x \in Blocks : x # i => e[x] = d[x]
  BY <1>1, <1>6 DEF Disks
<1>8. Own(e, i) = Own(d, i) \cup {b}
  BY <1>3, <1>4, <1>5, <1>7 DEF Own
<1>9. \A x \in I : /\ IsInode(e[x]) /\ e[x].type = d[x].type
                   /\ IsInjective(e[x].blocks)
                   /\ x # i => Own(e, x) = Own(d, x)
  BY <1>1, <1>3, <1>4, <1>5, <1>7 DEF Own
<1>10. \A x \in BlocksOn(d, I) : IF IsDirentries(d[x]) THEN e[x] = d[x] ELSE IsData(e[x])
  <2> SUFFICES ASSUME NEW y \in I, NEW x \in Own(d, y)
               PROVE  IF IsDirentries(d[x]) THEN e[x] = d[x] ELSE IsData(e[x])
    BY DEF BlocksOn
  <2>1. x \in Blocks /\ x # i
    BY <1>1, InodeTyped DEF Own, TreeOn, InodesOn
  <2>2. IsData(d[x]) \/ IsDirentries(d[x])
    BY DEF TreeOn, BlocksTyped
  <2> QED BY <1>7, <2>1, <2>2
<1>11. IsData(e[b])
  BY <1>7
<1>12. TreeOn(e, I) /\ BlocksOn(e, I) = BlocksOn(d, I) \cup {b}
  <2>1. PICK Z : Z = {b}
    OBVIOUS
  <2>2. Own(e, i) = Own(d, i) \cup Z
    BY <1>8, <2>1
  <2>3. \A z \in Z : d[i].type = "f" /\ z \notin I \cup BlocksOn(d, I) /\ IsData(e[z])
    BY <1>11, <2>1
  <2>4. TreeOn(e, I) /\ BlocksOn(e, I) = BlocksOn(d, I) \cup Z
    BY <1>9, <1>10, <2>2, <2>3, KeepTree
  <2> QED BY <2>1, <2>4
<1> QED BY <1>5, <1>6, <1>12 DEF TreeUsing, Put

\* No entry of a directory has the name.
NameFree(d, i, nm) ==
  \A b \in Own(d, i) : \A k \in Slots : EntryAt(d, b, k) => NameAt(d, b, k) # nm

\* A direntry block is written with an entry for a new inode in an unused slot.
LEMMA LinkEntry ==
  ASSUME NEW d \in Disks, NEW I, TreeOn(d, I), NEW i \in I, d[i].type = "d",
         NEW b \in Own(d, i), NEW k \in Slots, ~EntryAt(d, b, k),
         NEW nm \in STRING, NameFree(d, i, nm),
         NEW f \in Blocks, f \notin I \cup BlocksOn(d, I), IsInode(d[f]), d[f].blocks = <<>>,
         NEW c, c = WithEntry(d[b], k, nm, f),
         NEW W, W = Put(d, b, c)
  PROVE  /\ b \in Blocks
         /\ c \in Contents
         /\ W \in Disks /\ TreeUsing(W, I \cup {f}, BlocksOn(d, I))
<1>1. 0 \in I /\ I \subseteq Blocks /\ \A x \in I : IsInode(d[x]) /\ IsInjective(d[x].blocks)
  BY DEF TreeOn, InodesOn
<1>2. b \notin I /\ b \in Blocks /\ b \in BlocksOn(d, I) /\ b # f
  BY <1>1, InodeTyped DEF TreeOn, InodesOn, Own, BlocksOn
<1>3. d[b] \in Contents /\ IsDirentries(d[b]) /\ f \in Blocks \ {0}
  BY <1>1, <1>2 DEF Disks, TreeOn, BlocksTyped
<1>4. /\ c \in Contents /\ IsDirentries(c)
      /\ c.directory[k].name = nm /\ c.directory[k].inode_block = f
      /\ \A l \in Slots : l # k => c.directory[l] = d[b].directory[l]
  BY <1>3, WithEntryFacts
<1>5. PICK e \in Disks : e = [d EXCEPT ![b] = c]
  BY <1>4 DEF Disks
<1>6. e[b] = c /\ \A x \in Blocks : x # b => e[x] = d[x]
  BY <1>2, <1>5 DEF Disks
<1>7. \A x \in I : e[x] = d[x] /\ Own(e, x) = Own(d, x) /\ Own(d, x) \subseteq Blocks
  BY <1>1, <1>2, <1>6, InodeTyped DEF Own
<1>8. \A x \in I : /\ IsInode(e[x]) /\ e[x].type = d[x].type
                   /\ IsInjective(e[x].blocks)
                   /\ x # i => Own(e, x) = Own(d, x)
  BY <1>1, <1>7
<1>9. Own(e, i) = Own(d, i) \cup {b}
  BY <1>7
<1>10. IsInode(e[f]) /\ e[f].blocks = <<>>
  BY <1>2, <1>6
<1>11. \A x \in BlocksOn(d, I) : x # b => e[x] = d[x]
  BY <1>6, <1>7 DEF BlocksOn
<1>12. EntryAt(e, b, k) /\ Target(e, b, k) = f /\ NameAt(e, b, k) = nm
  BY <1>3, <1>4, <1>6 DEF EntryAt, Target, NameAt
<1>13. \A a \in Own(d, i) : \A l \in Slots :
         EntryAt(d, a, l) => NameAt(d, a, l) # NameAt(e, b, k)
  BY <1>12 DEF NameFree
<1>14. \A l \in Slots : l # k =>
         IF b \in Own(d, i) THEN e[b].directory[l] = d[b].directory[l] ELSE ~EntryAt(e, b, l)
  BY <1>4, <1>6
<1>15. /\ TreeOn(e, I \cup {f})
       /\ BlocksOn(e, I \cup {f}) = BlocksOn(d, I) \cup {b}
  <2>1. Grows(d, e, I, i, f, b, k)
    BY <1>2, <1>8, <1>9, <1>10, <1>11, <1>12, <1>13, <1>14 DEF Grows
  <2>2. TreeUsing(e, I \cup {f}, BlocksOn(d, I) \cup {b})
    BY <1>2, <2>1, GrowTree
  <2> QED BY <2>2 DEF TreeUsing, Put
<1>16. BlocksOn(d, I) \cup {b} = BlocksOn(d, I)
  BY <1>2
<1> QED BY <1>2, <1>4, <1>5, <1>15, <1>16 DEF TreeUsing, Put

\* The inode of a directory is written with one more block, in which there is one
\* entry, for a new inode.
LEMMA LinkDirentries ==
  ASSUME NEW d \in Disks, NEW I, TreeOn(d, I), NEW i \in I, d[i].type = "d",
         NEW nm \in STRING, NameFree(d, i, nm),
         NEW f \in Blocks, f \notin I \cup BlocksOn(d, I), IsInode(d[f]), d[f].blocks = <<>>,
         NEW g \in Blocks, g \notin I \cup BlocksOn(d, I), g # f,
         d[g] = WithEntry(NewDirentries, 1, nm, f),
         NEW c, c = WithBlock(d[i], g),
         NEW W, W = Put(d, i, c)
  PROVE  /\ c \in Contents
         /\ W \in Disks /\ TreeUsing(W, I \cup {f}, BlocksOn(d, I) \cup {g})
<1>1. 0 \in I /\ I \subseteq Blocks /\ \A x \in I : IsInode(d[x]) /\ IsInjective(d[x].blocks)
  BY DEF TreeOn, InodesOn
<1>2. d[i] \in Contents /\ d[i].blocks \in Seq(Blocks) /\ g \notin Own(d, i)
  BY <1>1, InodeTyped DEF Disks, BlocksOn
<1>3. /\ Append(d[i].blocks, g) \in Seq(Blocks)
      /\ Range(Append(d[i].blocks, g)) = Range(d[i].blocks) \cup {g}
      /\ IsInjective(Append(d[i].blocks, g))
  BY <1>1, <1>2, PushQueue DEF Own
<1>4. PICK q \in Seq(Blocks) : q = Append(d[i].blocks, g)
  BY <1>3
<1>5. c \in Contents /\ IsInode(c) /\ c.type = d[i].type /\ c.blocks = q
  BY <1>1, <1>2, <1>4, WithBlocks DEF WithBlock
<1>6. PICK e \in Disks : e = [d EXCEPT ![i] = c]
  BY <1>5 DEF Disks
<1>7. e[i] = c /\ \A x \in Blocks : x # i => e[x] = d[x]
  BY <1>1, <1>6 DEF Disks
<1>8. Own(e, i) = Own(d, i) \cup {g}
  BY <1>3, <1>4, <1>5, <1>7 DEF Own
<1>9. \A x \in I : /\ IsInode(e[x]) /\ e[x].type = d[x].type
                   /\ IsInjective(e[x].blocks)
                   /\ x # i => Own(e, x) = Own(d, x)
  BY <1>1, <1>3, <1>4, <1>5, <1>7 DEF Own
<1>10. IsInode(e[f]) /\ e[f].blocks = <<>>
  BY <1>7
<1>11. \A x \in BlocksOn(d, I) : x # g => e[x] = d[x]
  <2> SUFFICES ASSUME NEW y \in I, NEW x \in Own(d, y) PROVE e[x] = d[x]
    BY DEF BlocksOn
  <2>1. x \in Blocks /\ x # i
    BY <1>1, InodeTyped DEF Own, TreeOn, InodesOn
  <2> QED BY <1>7, <2>1
<1>12. /\ IsDirentries(d[g])
       /\ d[g].directory[1].name = nm /\ d[g].directory[1].inode_block = f
       /\ \A l \in Slots : l # 1 => d[g].directory[l] = Unused
  <2>1. f \in Blocks \ {0}
    BY <1>1
  <2> QED BY <2>1, NewDirentriesFacts, NewBlock, WithEntryFacts
<1>13. e[g] = d[g] /\ f # 0
  BY <1>1, <1>7
<1>14. EntryAt(e, g, 1) /\ Target(e, g, 1) = f /\ NameAt(e, g, 1) = nm
  BY <1>12, <1>13 DEF EntryAt, Target, NameAt
<1>15. \A a \in Own(d, i) : \A l \in Slots :
         EntryAt(d, a, l) => NameAt(d, a, l) # NameAt(e, g, 1)
  BY <1>14 DEF NameFree
<1>16. \A l \in Slots : l # 1 =>
         IF g \in Own(d, i) THEN e[g].directory[l] = d[g].directory[l] ELSE ~EntryAt(e, g, l)
  BY <1>2, <1>12, <1>13, NewBlock DEF EntryAt
<1>17. TreeOn(e, I \cup {f}) /\ BlocksOn(e, I \cup {f}) = BlocksOn(d, I) \cup {g}
  <2>1. Grows(d, e, I, i, f, g, 1)
    BY <1>2, <1>8, <1>9, <1>10, <1>11, <1>14, <1>15, <1>16 DEF Grows
  <2>2. TreeUsing(e, I \cup {f}, BlocksOn(d, I) \cup {g})
    BY <2>1, NewDirentriesFacts, GrowTree
  <2> QED BY <2>2 DEF TreeUsing, Put
<1> QED BY <1>5, <1>6, <1>17 DEF TreeUsing, Put

\* A file or an empty directory.
IsLeaf(inode) == inode.type # "d" \/ inode.blocks = <<>>

\* They have no entries.
LEMMA NoEntries ==
  ASSUME NEW d \in Disks, NEW I, TreeOn(d, I), NEW j \in I, IsLeaf(d[j])
  PROVE  \A b \in Own(d, j) : \A l \in Slots : ~EntryAt(d, b, l)
<1>1. CASE d[j].blocks = <<>>
  BY <1>1, EmptyQueue DEF Own
<1>2. CASE d[j].type # "d"
  <2> SUFFICES ASSUME NEW b \in Own(d, j) PROVE ~IsDirentries(d[b])
    BY DEF EntryAt
  <2>1. b \in Blocks /\ IsData(d[b])
    BY <1>2, InodeTyped DEF TreeOn, InodesOn, BlocksTyped, Own
  <2>2. d[b] \in Contents
    BY <2>1 DEF Disks
  <2> QED BY <2>1, <2>2, ContentCases
<1> QED BY <1>1, <1>2 DEF IsLeaf

\* The tree W has neither inode j nor its blocks, ...
LeavesOut(d, I, j, W) == TreeUsing(W, I \ {j}, BlocksOn(d, I) \ Own(d, j))

\* ... nor block b.
LeavesOutToo(d, I, j, b, W) == TreeUsing(W, I \ {j}, (BlocksOn(d, I) \ Own(d, j)) \ {b})

\* A direntry block is written without an entry, and other entries stay.
LEMMA DropEntry ==
  ASSUME NEW d \in Disks, NEW I, TreeOn(d, I), NEW i \in I,
         NEW b \in Own(d, i), NEW k \in Slots, EntryAt(d, b, k),
         NEW j, j = Target(d, b, k), IsLeaf(d[j]),
         NEW c, c = WithoutEntry(d[b], k), c # NewDirentries,
         NEW W, W = Put(d, b, c)
  PROVE  /\ b \in Blocks
         /\ c \in Contents
         /\ W \in Disks /\ LeavesOut(d, I, j, W)
         /\ j \in I /\ j # i /\ j # 0
<1>1. 0 \in I /\ I \subseteq Blocks /\ \A x \in I : IsInode(d[x]) /\ IsInjective(d[x].blocks)
  BY DEF TreeOn, InodesOn
<1>2. b \notin I /\ b \in Blocks
  BY <1>1, InodeTyped DEF TreeOn, InodesOn, Own
<1>3. d[b] \in Contents /\ IsDirentries(d[b]) /\ Unused \in Links
  BY <1>2 DEF Disks, EntryAt, Links
<1>4. /\ c \in Contents /\ IsDirentries(c) /\ c.directory[k] = Unused
      /\ \A l \in Slots : l # k => c.directory[l] = d[b].directory[l]
  BY <1>3, WithLink DEF WithoutEntry
<1>5. PICK e \in Disks : e = [d EXCEPT ![b] = c]
  BY <1>4 DEF Disks
<1>6. e[b] = c /\ \A x \in Blocks : x # b => e[x] = d[x]
  BY <1>2, <1>5 DEF Disks
<1>7. \A x \in I : e[x] = d[x] /\ Own(e, x) = Own(d, x) /\ Own(d, x) \subseteq Blocks
  BY <1>1, <1>2, <1>6, InodeTyped DEF Own
<1>8. \A x \in I : /\ IsInode(e[x]) /\ e[x].type = d[x].type
                   /\ IsInjective(e[x].blocks)
                   /\ x # i => Own(e, x) = Own(d, x)
  BY <1>1, <1>7
<1>9. \A x \in BlocksOn(d, I) : x # b => e[x] = d[x]
  BY <1>6, <1>7 DEF BlocksOn
<1>10. j \in I
  BY DEF TreeOn, EntriesOn
<1>11. \A a \in Own(d, j) : \A l \in Slots : ~EntryAt(d, a, l)
  BY <1>10, NoEntries
<1>12. PICK Z : Z = {}
  OBVIOUS
<1>13. Own(e, i) = Own(d, i) \ Z
  BY <1>7, <1>12
<1>14. Z = {b} => \A l \in Slots : EntryAt(d, b, l) => l = k
  BY <1>12
<1>15. Z = {} => /\ IsDirentries(e[b]) /\ e[b] # NewDirentries /\ ~EntryAt(e, b, k)
                 /\ \A l \in Slots : l # k => e[b].directory[l] = d[b].directory[l]
  BY <1>4, <1>6, NewBlock DEF EntryAt
<1>16. /\ TreeOn(e, I \ {j})
       /\ BlocksOn(e, I \ {j}) = (BlocksOn(d, I) \ Own(d, j)) \ Z
       /\ j \in I /\ j # i /\ j # 0
  <2>1. Shrinks(d, e, I, i, j, b, k, Z)
    BY <1>8, <1>9, <1>11, <1>12, <1>13, <1>14, <1>15 DEF Shrinks
  <2>2. /\ TreeUsing(e, I \ {j}, (BlocksOn(d, I) \ Own(d, j)) \ Z)
        /\ j \in I /\ j # i /\ j # 0
    BY <2>1, ShrinkTree
  <2> QED BY <2>2 DEF TreeUsing, Put
<1> QED BY <1>2, <1>4, <1>5, <1>12, <1>16 DEF TreeUsing, Put, LeavesOut

\* The inode of a directory is written without a block whose only entry goes.
LEMMA DropBlock ==
  ASSUME NEW d \in Disks, NEW I, TreeOn(d, I), NEW i \in I,
         NEW b \in Own(d, i), NEW k \in Slots, EntryAt(d, b, k),
         NEW j, j = Target(d, b, k), IsLeaf(d[j]),
         WithoutEntry(d[b], k) = NewDirentries, NEW c, c = WithoutBlock(d[i], b),
         NEW W, W = Put(d, i, c)
  PROVE  /\ b \in Blocks
         /\ c \in Contents
         /\ W \in Disks /\ LeavesOutToo(d, I, j, b, W)
         /\ j \in I /\ j # i /\ j # 0
<1>1. 0 \in I /\ I \subseteq Blocks /\ \A x \in I : IsInode(d[x]) /\ IsInjective(d[x].blocks)
  BY DEF TreeOn, InodesOn
<1>2. b \notin I /\ b \in Blocks
  BY <1>1, InodeTyped DEF TreeOn, InodesOn, Own
<1>3. d[b] \in Contents /\ IsDirentries(d[b]) /\ Unused \in Links
  BY <1>2 DEF Disks, EntryAt, Links
<1>4. \A l \in Slots : EntryAt(d, b, l) => l = k
  <2> SUFFICES ASSUME NEW l \in Slots, EntryAt(d, b, l), l # k PROVE FALSE
    OBVIOUS
  <2>1. [d[b] EXCEPT !.directory[k] = Unused].directory[l] = d[b].directory[l]
    BY <1>3, WithLink
  <2>2. d[b].directory[l] = Unused
    BY <2>1, NewBlock DEF WithoutEntry
  <2> QED BY <2>2, NewBlock DEF EntryAt
<1>5. d[i] \in Contents /\ d[i].blocks \in Seq(Blocks) /\ b \in Range(d[i].blocks)
  BY <1>1, InodeTyped DEF Disks, Own
<1>6. /\ Without(d[i].blocks, b) \in Seq(Blocks)
      /\ Range(Without(d[i].blocks, b)) = Range(d[i].blocks) \ {b}
      /\ IsInjective(Without(d[i].blocks, b))
  BY <1>1, <1>5, WithoutFacts
<1>7. PICK q \in Seq(Blocks) : q = Without(d[i].blocks, b)
  BY <1>6
<1>8. c \in Contents /\ IsInode(c) /\ c.type = d[i].type /\ c.blocks = q
  BY <1>1, <1>5, <1>7, WithBlocks DEF WithoutBlock
<1>9. PICK e \in Disks : e = [d EXCEPT ![i] = c]
  BY <1>8 DEF Disks
<1>10. e[i] = c /\ \A x \in Blocks : x # i => e[x] = d[x]
  BY <1>1, <1>9 DEF Disks
<1>11. PICK Z : Z = {b}
  OBVIOUS
<1>12. Own(e, i) = Own(d, i) \ Z
  BY <1>6, <1>7, <1>8, <1>10, <1>11 DEF Own
<1>13. \A x \in I : /\ IsInode(e[x]) /\ e[x].type = d[x].type
                    /\ IsInjective(e[x].blocks)
                    /\ x # i => Own(e, x) = Own(d, x)
  BY <1>1, <1>6, <1>7, <1>8, <1>10 DEF Own
<1>14. \A x \in BlocksOn(d, I) : x # b => e[x] = d[x]
  <2> SUFFICES ASSUME NEW y \in I, NEW x \in Own(d, y) PROVE e[x] = d[x]
    BY DEF BlocksOn
  <2>1. x \in Blocks /\ x # i
    BY <1>1, InodeTyped DEF Own, TreeOn, InodesOn
  <2> QED BY <1>10, <2>1
<1>15. j \in I
  BY DEF TreeOn, EntriesOn
<1>16. \A a \in Own(d, j) : \A l \in Slots : ~EntryAt(d, a, l)
  BY <1>15, NoEntries
<1>17. Z = {b} => \A l \in Slots : EntryAt(d, b, l) => l = k
  BY <1>4
<1>18. Z = {} => /\ IsDirentries(e[b]) /\ e[b] # NewDirentries /\ ~EntryAt(e, b, k)
                 /\ \A l \in Slots : l # k => e[b].directory[l] = d[b].directory[l]
  BY <1>11
<1>19. /\ TreeOn(e, I \ {j})
       /\ BlocksOn(e, I \ {j}) = (BlocksOn(d, I) \ Own(d, j)) \ Z
       /\ j \in I /\ j # i /\ j # 0
  <2>1. Shrinks(d, e, I, i, j, b, k, Z)
    BY <1>11, <1>12, <1>13, <1>14, <1>16, <1>17, <1>18 DEF Shrinks
  <2>2. /\ TreeUsing(e, I \ {j}, (BlocksOn(d, I) \ Own(d, j)) \ Z)
        /\ j \in I /\ j # i /\ j # 0
    BY <2>1, ShrinkTree
  <2> QED BY <2>2 DEF TreeUsing, Put
<1> QED BY <1>2, <1>8, <1>9, <1>11, <1>19 DEF TreeUsing, Put, LeavesOutToo

-----------------------------------------------------------------------------
\* Of any inodes in a tree there is one that no other of them is in, so that nobody
\* can wait in a circle on the way down.
LEMMA NoCycle ==
  ASSUME NEW d \in Disks, NEW I, TreeOn(d, I), NEW C \in SUBSET I,
         \A x \in C : \E y \in C : y \in Subinodes(d, x)
  PROVE  C = {}
<1>1. 0 \in I /\ I \in SUBSET Blocks /\ \A x \in I : IsInode(d[x])
  BY DEF TreeOn, InodesOn
<1>2. \A i \in I : \A x : x \in Subinodes(d, i) <=>
        \E b \in Own(d, i), k \in Slots : EntryAt(d, b, k) /\ x = Target(d, b, k)
  BY <1>1, ChildIff DEF TreeOn
<1>3. ASSUME NEW x \in I, NEW y \in I, NEW z \in Subinodes(d, x), z \in Subinodes(d, y)
      PROVE  x = y /\ z # 0
  <2>1. PICK b \in Own(d, x), k \in Slots : EntryAt(d, b, k) /\ z = Target(d, b, k)
    BY <1>2
  <2>2. PICK c \in Own(d, y), l \in Slots : EntryAt(d, c, l) /\ z = Target(d, c, l)
    BY <1>2, <1>3
  <2>3. b = c
    BY <2>1, <2>2 DEF TreeOn, EntriesOn
  <2> QED BY <2>1, <2>3 DEF TreeOn, InodesOn, EntryAt, Target
<1>4. PICK child \in [C -> C] : \A x \in C : child[x] \in Subinodes(d, x)
  <2>1. [x \in C |-> CHOOSE y \in C : y \in Subinodes(d, x)] \in [C -> C]
    OBVIOUS
  <2> QED BY <2>1
<1>5. child \in Injection(C, C)
  BY <1>3, <1>4 DEF Injection, IsInjective
<1>6. IsFiniteSet(C)
  <2>1. IsFiniteSet(Blocks)
    <3>1. PICK n \in Int : n = FS_DISKSIZE - 1
      BY SizesAssumption
    <3> QED BY <3>1, FS_Interval DEF Blocks
  <2> QED BY <1>1, <2>1, FS_Subset
<1>7. \A y \in C : \E x \in C : y \in Subinodes(d, x)
  <2>1. child \in Surjection(C, C)
    BY <1>5, <1>6, FS_Injection
  <2> QED BY <1>4, <2>1 DEF Surjection
<1>8. ClosedOn(d, I, I \ C)
  <2> SUFFICES ASSUME NEW i \in I \ C, NEW b \in Own(d, i), NEW k \in Slots, EntryAt(d, b, k),
                      Target(d, b, k) \in C
               PROVE  FALSE
    BY DEF ClosedOn, TreeOn, EntriesOn
  <2>1. Target(d, b, k) \in Subinodes(d, i)
    BY <1>2
  <2>2. PICK x \in C : Target(d, b, k) \in Subinodes(d, x)
    BY <1>7
  <2> QED BY <1>3, <2>1, <2>2
<1>9. 0 \notin C
  BY <1>3, <1>7
<1>10. I \subseteq I \ C
  BY <1>1, <1>8, <1>9 DEF TreeOn, AllReached
<1> QED BY <1>10
=============================================================================
