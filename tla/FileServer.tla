----------------------------- MODULE FileServer ------------------------------
(***************************************************************************)
(* The file server of src/Filesys: one thread per request, which finds the *)
(* file by hand-over-hand locking, takes blocks from and returns blocks to *)
(* the map of free blocks, and changes the disk one block at a time.       *)
(*                                                                         *)
(* A thread reads an inode, its direntry blocks and its data blocks in one *)
(* step while it holds the lock of the inode: no other thread changes them *)
(* then (LockedInodesStable).  Calls under free_block_lock and writes of   *)
(* blocks are steps of their own.  Releasing locks takes no step.          *)
(***************************************************************************)
EXTENDS Naturals, FiniteSets, SequencesExt

CONSTANTS
  Threads,            \* threads started by accept, each for one request
  None,
  FS_DISKSIZE, FS_DIRENTRIES, FS_MAXFILEBLOCKS,
  Requests,           \* requests that clients may send
  InitialDisks,       \* disks the server may start from
  MaxCrashes,         \* bound on the crashes of a behaviour
  CrashesTearDeletes  \* may one come after a delete began to set blocks free?

ASSUME SizesAssumption ==
  /\ FS_DISKSIZE \in Nat \ {0}
  /\ FS_DIRENTRIES \in Nat \ {0}
  /\ FS_MAXFILEBLOCKS \in Nat \ {0}
  /\ MaxCrashes \in Nat
  /\ CrashesTearDeletes \in BOOLEAN

\* What Check_Valid_Request lets pass: no pathname is that of the root.
ASSUME RequestsAssumption ==
  \A r \in Requests :
    /\ r \in [type : {"READ", "WRITE", "CREATE", "DELETE"}, username : STRING,
              pathname : Seq(STRING), block : Nat, inode_type : STRING, data : STRING]
    /\ r.pathname # <<>>
    /\ r.type = "CREATE" => r.inode_type \in {"f", "d"}

VARIABLES
  disk,               \* contents of each block: an inode, direntries or data
  disk_block,         \* is the block free?
  disk_block_lock,    \* the thread that holds the lock of a block
  pc,                 \* what a thread does next
  request,            \* its request, None before it is received and at the end
  local,              \* its local variables
  reply,              \* what its client learns
  crashes

vars == <<disk, disk_block, disk_block_lock, pc, request, local, reply, crashes>>

Blocks == 0 .. FS_DISKSIZE - 1
Slots == 1 .. FS_DIRENTRIES

Unused == [name |-> "", inode_block |-> 0]
NewDirentries == [directory |-> [k \in Slots |-> Unused]]
IsInode(c) == "blocks" \in DOMAIN c
IsDirentries(c) == "directory" \in DOMAIN c

\* What a block may hold.
Contents ==
  [type : {"f", "d"}, owner : STRING, blocks : Seq(Blocks)]
  \cup [directory : [Slots -> [name : STRING, inode_block : Blocks \ {0}] \cup {Unused}]]
  \cup [data : STRING]

Success(data) == [ok |-> TRUE, data |-> data]
Failure == [ok |-> FALSE, data |-> ""]

-----------------------------------------------------------------------------
\* The places <<b, k>> of the used direntries of an inode.
Entries(d, i) ==
  {e \in {b \in Range(d[i].blocks) : IsDirentries(d[b])} \X Slots :
     d[e[1]].directory[e[2]].inode_block # 0}

Direntry(d, e) == d[e[1]].directory[e[2]]

IsDirectory(d, i) == IsInode(d[i]) /\ d[i].type = "d"

\* The inodes in a directory.
Subinodes(d, i) ==
  IF IsDirectory(d, i) THEN {Direntry(d, e).inode_block : e \in Entries(d, i)} ELSE {}

\* The inodes that can be reached from the root, which takes fewer levels than
\* there are blocks.
Inodes(d) ==
  LET children == [i \in Blocks |-> Subinodes(d, i)]
      Reached[n \in 0 .. FS_DISKSIZE - 1] ==
        IF n = 0 THEN {0}
        ELSE LET R == Reached[n - 1] IN R \cup UNION {children[i] : i \in R}
  IN Reached[FS_DISKSIZE - 1]

UsedBlocks(d) ==
  LET I == Inodes(d)
  IN I \cup UNION {Range(d[i].blocks) : i \in {j \in I : IsInode(d[j])}}

\* Mutant: nothing keeps the root inode from being free.
Filesystem_init_root(d) == [b \in Blocks |-> b \notin UsedBlocks(d) \ {0}]

Filesystem_init(d) == [b \in Blocks |-> b \notin UsedBlocks(d)]

-----------------------------------------------------------------------------
NoLocals ==
  [path |-> <<>>,     \* the names Find_target_inode has not looked up yet
   curr |-> 0,        \* curr_disk_block, whose lock is curr_mutex
   next |-> 0,        \* the other block to lock
   reserved |-> {},   \* free_inode, free_direntry, write_disk_block
   frees |-> <<>>,    \* blocks still to be set free
   writes |-> <<>>]   \* blocks still to be written

Init ==
  /\ disk \in InitialDisks
  /\ disk_block = Filesystem_init(disk)
  /\ disk_block_lock = [b \in Blocks |-> None]
  /\ pc = [t \in Threads |-> "idle"]
  /\ request = [t \in Threads |-> None]
  /\ local = [t \in Threads |-> NoLocals]
  /\ reply = [t \in Threads |-> None]
  /\ crashes = 0

FreeBlocks == {b \in Blocks : disk_block[b]}

\* The block Find_free_disk_block returns when there is one.
Find_free_disk_block == CHOOSE b \in FreeBlocks : \A c \in FreeBlocks : b <= c

\* Mutant: directories are open to everybody.
CheckUserValid_open(inode, username) == inode.type = "d" \/ inode.owner = username

CheckUserValid(inode, username) == inode.owner \in {"", username}

\* An inode with one more block.
WithBlock(inode, b) == [inode EXCEPT !.blocks = Append(@, b)]

\* An empty or overlong name is modelled by "".
ValidPathname(r) == "" \notin Range(r.pathname)

TargetPath(r) ==
  IF r.type \in {"READ", "WRITE"} THEN r.pathname ELSE Front(r.pathname)

Curr(t) == disk[local[t].curr]

\* The places of the entries with that name in the directory t has locked.
Find(t, name) == {e \in Entries(disk, local[t].curr) : Direntry(disk, e).name = name}

Unlocked(t) ==
  [b \in Blocks |-> IF disk_block_lock[b] = t THEN None ELSE disk_block_lock[b]]

\* The helper returns or throws and Thread_running comes to its end.
Return(t, answer) ==
  /\ disk_block_lock' = Unlocked(t)
  /\ pc' = [pc EXCEPT ![t] = "done"]
  /\ request' = [request EXCEPT ![t] = None]
  /\ local' = [local EXCEPT ![t] = NoLocals]
  /\ reply' = [reply EXCEPT ![t] = answer]
  /\ UNCHANGED crashes

\* Mutant: Create_helper does not catch the SysError.
Throw_leaks(t) == Return(t, Failure) /\ UNCHANGED <<disk, disk_block>>

\* A SysError: Create_helper still has to give free_inode back.
Throw(t) ==
  /\ IF local[t].reserved = {}
     THEN Return(t, Failure)
     ELSE /\ disk_block_lock' = Unlocked(t)
          /\ pc' = [pc EXCEPT ![t] = "unreserve"]
          /\ local' = [local EXCEPT ![t] = [NoLocals EXCEPT !.reserved = local[t].reserved]]
          /\ UNCHANGED <<request, reply, crashes>>
  /\ UNCHANGED <<disk, disk_block>>

Go(t, where) ==
  /\ pc' = [pc EXCEPT ![t] = where]
  /\ UNCHANGED <<request, reply, crashes>>

-----------------------------------------------------------------------------
Receive(t, r) ==
  /\ pc[t] = "idle"
  /\ pc' = [pc EXCEPT ![t] = IF r.type = "CREATE" THEN "reserve" ELSE "lock_root"]
  /\ request' = [request EXCEPT ![t] = r]
  /\ UNCHANGED <<disk, disk_block, disk_block_lock, local, reply, crashes>>

\* Mutant: a create waits for a free block.
Reserve_waits(t) ==
  /\ pc[t] = "reserve"
  /\ \/ FreeBlocks = {} /\ UNCHANGED vars
     \/ /\ FreeBlocks # {}
        /\ disk_block' = [disk_block EXCEPT ![Find_free_disk_block] = FALSE]
        /\ local' = [local EXCEPT ![t].reserved = {Find_free_disk_block}]
        /\ Go(t, "lock_root")
        /\ UNCHANGED <<disk, disk_block_lock>>

Reserve(t) ==
  /\ pc[t] = "reserve"
  /\ \/ /\ FreeBlocks = {}
        /\ Throw(t)
     \/ /\ FreeBlocks # {}
        /\ disk_block' = [disk_block EXCEPT ![Find_free_disk_block] = FALSE]
        /\ local' = [local EXCEPT ![t].reserved = {Find_free_disk_block}]
        /\ Go(t, "lock_root")
        /\ UNCHANGED <<disk, disk_block_lock>>

\* Create_attempt and Delete_helper parse the pathname before they lock.
LockRoot(t) ==
  /\ pc[t] = "lock_root"
  /\ \/ /\ ~ValidPathname(request[t])
        /\ request[t].type \in {"CREATE", "DELETE"} \/ disk_block_lock[0] = None
        /\ Throw(t)
     \/ /\ ValidPathname(request[t])
        /\ disk_block_lock[0] = None
        /\ disk_block_lock' = [disk_block_lock EXCEPT ![0] = t]
        /\ local' = [local EXCEPT ![t].path = TargetPath(request[t])]
        /\ Go(t, IF TargetPath(request[t]) = <<>> THEN "attempt" ELSE "lookup")
        /\ UNCHANGED <<disk, disk_block>>

Lookup(t) ==
  /\ pc[t] = "lookup"
  /\ LET found == Find(t, Head(local[t].path))
         allowed == CheckUserValid(Curr(t), request[t].username) /\ Curr(t).type = "d"
     IN \/ /\ ~allowed \/ found = {}
           /\ Throw(t)
        \/ /\ allowed
           /\ \E e \in found : local' = [local EXCEPT ![t].next = Direntry(disk, e).inode_block]
           /\ Go(t, "lock_next")
           /\ UNCHANGED <<disk, disk_block, disk_block_lock>>

\* Mutant: the lock of the next inode is not waited for.
LockNext_barges(t) ==
  /\ pc[t] = "lock_next"
  /\ disk_block_lock' = [disk_block_lock EXCEPT ![local[t].next] = t, ![local[t].curr] = None]
  /\ local' = [local EXCEPT ![t].curr = local[t].next, ![t].next = 0, ![t].path = Tail(@)]
  /\ Go(t, IF Len(local[t].path) = 1 THEN "attempt" ELSE "lookup")
  /\ UNCHANGED <<disk, disk_block>>

LockNext(t) ==
  /\ pc[t] = "lock_next"
  /\ disk_block_lock[local[t].next] = None
  /\ disk_block_lock' = [disk_block_lock EXCEPT ![local[t].next] = t, ![local[t].curr] = None]
  /\ local' = [local EXCEPT ![t].curr = local[t].next, ![t].next = 0, ![t].path = Tail(@)]
  /\ Go(t, IF Len(local[t].path) = 1 THEN "attempt" ELSE "lookup")
  /\ UNCHANGED <<disk, disk_block>>

ReadBlock(t) ==
  LET r == request[t]
  IN /\ pc[t] = "attempt" /\ r.type = "READ"
     /\ \/ /\ CheckUserValid(Curr(t), r.username)
           /\ Curr(t).type = "f"
           /\ r.block < Len(Curr(t).blocks)
           /\ Return(t, Success(disk[Curr(t).blocks[r.block + 1]].data))
           /\ UNCHANGED <<disk, disk_block>>
        \/ /\ ~CheckUserValid(Curr(t), r.username) \/ Curr(t).type # "f"
                \/ r.block >= Len(Curr(t).blocks)
           /\ Throw(t)

WriteBlock(t) ==
  LET r == request[t]
      size == Len(Curr(t).blocks)
      allowed == CheckUserValid(Curr(t), r.username) /\ Curr(t).type = "f"
      content == [data |-> r.data]
      end == Find_free_disk_block
      grows == size < FS_MAXFILEBLOCKS /\ r.block = size /\ FreeBlocks # {}
  IN /\ pc[t] = "attempt" /\ r.type = "WRITE"
     /\ \/ /\ allowed /\ r.block < size
           /\ local' = [local EXCEPT
                ![t].writes = << <<Curr(t).blocks[r.block + 1], content>> >>]
           /\ Go(t, "write")
           /\ UNCHANGED <<disk, disk_block, disk_block_lock>>
        \/ /\ allowed /\ r.block >= size /\ grows
           /\ disk_block' = [disk_block EXCEPT ![end] = FALSE]
           /\ local' = [local EXCEPT ![t].reserved = {end},
                ![t].writes = << <<end, content>>,
                  <<local[t].curr, WithBlock(Curr(t), end)>> >>]
           /\ Go(t, "write")
           /\ UNCHANGED <<disk, disk_block_lock>>
        \/ /\ ~allowed \/ (r.block >= size /\ ~grows)
           /\ Throw(t)

\* Mutant: only the first direntry block is searched.
FreeSlots_first(inode) ==
  {e \in (DOMAIN inode.blocks \cap {1}) \X Slots :
     disk[inode.blocks[e[1]]].directory[e[2]].inode_block = 0}

\* The first unused direntry: the order in which Create_attempt looks at them.
FreeSlots(inode) ==
  {e \in (DOMAIN inode.blocks) \X Slots :
     disk[inode.blocks[e[1]]].directory[e[2]].inode_block = 0}

FirstSlot(inode) ==
  CHOOSE e \in FreeSlots(inode) : \A f \in FreeSlots(inode) :
    e[1] < f[1] \/ (e[1] = f[1] /\ e[2] <= f[2])

WithEntry(direntries, k, name, i) ==
  [direntries EXCEPT !.directory[k] = [name |-> name, inode_block |-> i]]

Create_attempt(t) ==
  LET r == request[t]
      free_inode == CHOOSE b \in local[t].reserved : TRUE
      name == Last(r.pathname)
      allowed == /\ CheckUserValid(Curr(t), r.username)
                 /\ Curr(t).type = "d"
                 /\ Find(t, name) = {}
      new_inode == [type |-> r.inode_type, owner |-> r.username, blocks |-> <<>>]
      full == Len(Curr(t).blocks) = FS_MAXFILEBLOCKS \/ FreeBlocks = {}
      slot == FirstSlot(Curr(t))
      direntry_block == Curr(t).blocks[slot[1]]
      free_direntry == Find_free_disk_block
  IN /\ pc[t] = "attempt" /\ r.type = "CREATE"
     /\ \/ /\ ~allowed \/ (FreeSlots(Curr(t)) = {} /\ full)
           /\ Throw(t)
        \/ /\ allowed /\ FreeSlots(Curr(t)) # {}
           /\ local' = [local EXCEPT ![t].next = free_inode,
                ![t].writes = << <<free_inode, new_inode>>,
                  <<direntry_block, WithEntry(disk[direntry_block], slot[2], name, free_inode)>> >>]
           /\ Go(t, "lock_new")
           /\ UNCHANGED <<disk, disk_block, disk_block_lock>>
        \/ /\ allowed /\ FreeSlots(Curr(t)) = {} /\ ~full
           /\ disk_block' = [disk_block EXCEPT ![free_direntry] = FALSE]
           /\ local' = [local EXCEPT ![t].next = free_inode,
                ![t].reserved = @ \cup {free_direntry},
                ![t].writes = << <<free_inode, new_inode>>,
                  <<free_direntry, WithEntry(NewDirentries, 1, name, free_inode)>>,
                  <<local[t].curr, WithBlock(Curr(t), free_direntry)>> >>]
           /\ Go(t, "lock_new")
           /\ UNCHANGED <<disk, disk_block_lock>>

\* create_mutex: a delete may still hold the lock of a block it has set free.
LockNew(t) ==
  /\ pc[t] = "lock_new"
  /\ disk_block_lock[local[t].next] = None
  /\ disk_block_lock' = [disk_block_lock EXCEPT ![local[t].next] = t]
  /\ Go(t, "write")
  /\ UNCHANGED <<disk, disk_block, local>>

Delete_find(t) ==
  LET r == request[t]
      found == Find(t, Last(r.pathname))
      allowed == CheckUserValid(Curr(t), r.username) /\ Curr(t).type = "d"
  IN /\ pc[t] = "attempt" /\ r.type = "DELETE"
     /\ \/ /\ ~allowed \/ found = {}
           /\ Throw(t)
        \/ /\ allowed
           /\ \E e \in found : local' = [local EXCEPT ![t].next = Direntry(disk, e).inode_block]
           /\ Go(t, "lock_victim")
           /\ UNCHANGED <<disk, disk_block, disk_block_lock>>

\* The blocks of the file, its inode, and the direntry block it leaves empty.
ToFree(victim, i, direntry_block, empty) ==
  (IF victim.type = "f" THEN victim.blocks ELSE <<>>) \o <<i>>
    \o (IF empty THEN <<direntry_block>> ELSE <<>>)

\* The later blocks are moved forward.
Without(blocks, b) ==
  LET i == CHOOSE k \in DOMAIN blocks : blocks[k] = b
  IN [k \in 1 .. Len(blocks) - 1 |-> blocks[IF k < i THEN k ELSE k + 1]]

WithoutBlock(inode, b) == [inode EXCEPT !.blocks = Without(@, b)]

WithoutEntry(direntries, k) == [direntries EXCEPT !.directory[k] = Unused]

\* The place of the entry of inode j in directory i.
PlaceOf(d, i, j) == CHOOSE e \in Entries(d, i) : Direntry(d, e).inode_block = j

\* delete_mutex, the checks on the inode to delete, and what is to be done.
Delete_attempt(t) ==
  LET i == local[t].next
      victim == disk[i]
      allowed == /\ CheckUserValid(victim, request[t].username)
                 /\ ~(victim.type = "d" /\ Len(victim.blocks) > 0)
      place == PlaceOf(disk, local[t].curr, i)
      rest == WithoutEntry(disk[place[1]], place[2])
      empty == rest = NewDirentries
  IN /\ pc[t] = "lock_victim"
     /\ disk_block_lock[i] = None
     /\ \/ /\ ~allowed
           /\ Throw(t)
        \/ /\ allowed
           /\ disk_block_lock' = [disk_block_lock EXCEPT ![i] = t]
           /\ local' = [local EXCEPT
                ![t].frees = ToFree(victim, i, place[1], empty),
                ![t].writes = IF empty
                  THEN << <<local[t].curr, WithoutBlock(Curr(t), place[1])>> >>
                  ELSE << <<place[1], rest>> >>]
           /\ Go(t, "free")
           /\ UNCHANGED <<disk, disk_block>>

\* Mutant: only the first block is set free.
SetFree_first(t) ==
  /\ pc[t] = "free"
  /\ disk_block' = [disk_block EXCEPT ![Head(local[t].frees)] = TRUE]
  /\ local' = [local EXCEPT ![t].frees = Tail(@)]
  /\ Go(t, "write")
  /\ UNCHANGED <<disk, disk_block_lock>>

SetFree(t) ==
  /\ pc[t] = "free"
  /\ disk_block' = [disk_block EXCEPT ![Head(local[t].frees)] = TRUE]
  /\ local' = [local EXCEPT ![t].frees = Tail(@)]
  /\ Go(t, IF Len(local[t].frees) = 1 THEN "write" ELSE "free")
  /\ UNCHANGED <<disk, disk_block_lock>>

\* Mutant: the block that links the others is written first.
Write_reversed(t) ==
  /\ pc[t] = "write"
  /\ LET w == Last(local[t].writes)
     IN disk' = [disk EXCEPT ![w[1]] = w[2]]
  /\ UNCHANGED disk_block
  /\ IF Len(local[t].writes) = 1
     THEN Return(t, Success(""))
     ELSE /\ local' = [local EXCEPT ![t].writes = Front(@)]
          /\ UNCHANGED <<disk_block_lock, pc, request, reply, crashes>>

\* disk_writeblock; the locks are released and the answer goes out with the last
\* one (Connection has the requests that are carried out and not answered).
Write(t) ==
  /\ pc[t] = "write"
  /\ LET w == Head(local[t].writes)
     IN disk' = [disk EXCEPT ![w[1]] = w[2]]
  /\ UNCHANGED disk_block
  /\ IF Len(local[t].writes) = 1
     THEN Return(t, Success(""))
     ELSE /\ local' = [local EXCEPT ![t].writes = Tail(@)]
          /\ UNCHANGED <<disk_block_lock, pc, request, reply, crashes>>

Unreserve(t) ==
  /\ pc[t] = "unreserve"
  /\ disk_block' = [b \in Blocks |-> disk_block[b] \/ b \in local[t].reserved]
  /\ Return(t, Failure)
  /\ UNCHANGED disk

\* The delete of t is between its first Set_disk_block_status and its write.
Deleting(t) == request[t] # None /\ request[t].type = "DELETE" /\ pc[t] \in {"free", "write"}

\* The server stops and main starts it again on the disk as it is.
Crash ==
  /\ crashes < MaxCrashes
  /\ CrashesTearDeletes \/ ~\E t \in Threads : Deleting(t)
  /\ crashes' = crashes + 1
  /\ disk_block' = Filesystem_init(disk)
  /\ disk_block_lock' = [b \in Blocks |-> None]
  /\ pc' = [t \in Threads |-> IF pc[t] = "idle" THEN "idle" ELSE "done"]
  /\ request' = [t \in Threads |-> None]
  /\ local' = [t \in Threads |-> NoLocals]
  /\ reply' = [t \in Threads |-> IF pc[t] \in {"idle", "done"} THEN reply[t] ELSE Failure]
  /\ UNCHANGED disk

Step(t) ==
  \/ Reserve(t) \/ LockRoot(t) \/ Lookup(t) \/ LockNext(t)
  \/ ReadBlock(t) \/ WriteBlock(t)
  \/ Create_attempt(t) \/ LockNew(t) \/ Unreserve(t)
  \/ Delete_find(t) \/ Delete_attempt(t) \/ SetFree(t)
  \/ Write(t)

\* Every thread has ended; the server waits for clients the model has not.
Ended == (\A t \in Threads : pc[t] = "done") /\ UNCHANGED vars

Next ==
  \/ \E t \in Threads : (\E r \in Requests : Receive(t, r)) \/ Step(t)
  \/ Crash
  \/ Ended

Spec == Init /\ [][Next]_vars

\* The scheduler runs every thread that can go on; mutexes are not fair.
FairSpec == Spec /\ \A t \in Threads : WF_vars(Step(t))

-----------------------------------------------------------------------------
\* The disk as the other threads may see it: a delete that has begun to set
\* blocks free holds the locks that hide the entry it is about to remove.
Removals(b) == {t \in Threads : Deleting(t) /\ local[t].writes[1][1] = b}

View ==
  [b \in Blocks |-> IF Removals(b) = {} THEN disk[b]
                    ELSE local[CHOOSE t \in Removals(b) : TRUE].writes[1][2]]

\* Who refers to which block, with the place of the reference.
References(d) ==
  UNION {{<<d[i].blocks[k], <<"block", i, k>> >> : k \in DOMAIN d[i].blocks}
           \cup {<<Direntry(d, e).inode_block, <<"entry", e[1], e[2]>> >> : e \in Entries(d, i)} :
         i \in {j \in Inodes(d) : IsInode(d[j])}}

\* The variables have the shapes the code gives them, and a thread has locks,
\* blocks and writes pending only where its code may have them.
TypeOK ==
  /\ DOMAIN disk = Blocks
  /\ disk_block \in [Blocks -> BOOLEAN]
  /\ disk_block_lock \in [Blocks -> Threads \cup {None}]
  /\ \A t \in Threads :
       /\ request[t] = None <=> pc[t] \in {"idle", "done"}
       /\ reply[t] = None <=> pc[t] # "done"
       /\ pc[t] \in {"idle", "reserve", "done"} => local[t] = NoLocals
       /\ local[t].reserved # {} => request[t].type \in {"CREATE", "WRITE"}
       /\ local[t].frees # <<>> <=> pc[t] = "free"
       /\ pc[t] = "write" => local[t].writes # <<>>
  /\ crashes \in 0 .. MaxCrashes

\* The tree in a disk is one: the root is nobody's child, every block is
\* referred to once, as what it is, names are unique in a directory and no
\* direntry block is empty.  Find_target_inode and Delete_attempt rely on it.
IsTree(d) ==
  LET R == References(d)
  IN /\ \A r, s \in R : r[1] = s[1] => r = s
     /\ \A r \in R : r[1] # 0
     /\ \A i \in Inodes(d) :
          /\ IsInode(d[i])
          /\ \A b \in Range(d[i].blocks) :
               IF d[i].type = "d"
               THEN IsDirentries(d[b]) /\ d[b] # NewDirentries
               ELSE "data" \in DOMAIN d[b]
          /\ \A e, f \in Entries(d, i) : Direntry(d, e).name = Direntry(d, f).name => e = f

ASSUME InitialDisksAssumption ==
  \A d \in InitialDisks : d \in [Blocks -> Contents] /\ IsTree(d)

ASSUME NoneAssumption ==
  None \notin Threads \cup Requests \cup [ok : BOOLEAN, data : {""} \cup STRING]

\* What the threads see is a tree at every moment, between the block writes of
\* a create, a write or a delete as well as after a crash.
TreeIntact == IsTree(View)

\* No block is lost or used twice: each is free, or used by the tree, or taken
\* by one thread that has yet to link it, to give it back or to set it free.
BlocksAccounted ==
  LET used == UsedBlocks(View)
  IN \A b \in Blocks :
       Cardinality((IF disk_block[b] THEN {"free"} ELSE {})
                     \cup (IF b \in used THEN {"used"} ELSE {})
                     \cup {<<t>> : t \in {u \in Threads :
                             b \in local[u].reserved \cup Range(local[u].frees)}}) = 1

\* The blocks of an inode are its own ("array of data blocks for this file or
\* directory", fs_server.h:45): none of them is an inode, and no other inode
\* has it, also when the server has started again on the disk it left.
BlocksBelongToFiles ==
  LET files == {i \in Inodes(View) : IsInode(View[i])}
  IN \A i \in files : \A b \in Range(View[i].blocks) :
       /\ ~IsInode(View[b])
       /\ \A j \in files : b \in Range(View[j].blocks) => i = j

WantedLock(t) == IF pc[t] = "lock_root" THEN 0 ELSE local[t].next

WaitsFor(t, u) ==
  /\ pc[t] \in {"lock_root", "lock_next", "lock_new", "lock_victim"}
  /\ disk_block_lock[WantedLock(t)] = u

\* No set of threads waits for locks within itself: a create that waits for
\* the lock of its new inode, and a delete for that of its victim, both hold
\* the lock of the parent (filesys.cpp:158 and :196).
NoWaitingCycle ==
  \A S \in (SUBSET Threads) \ {{}} : \E t \in S : \A u \in S : ~WaitsFor(t, u)

\* Everything that a thread reads under the lock of an inode.
UnderLock(d, i) == <<d[i], [k \in DOMAIN d[i].blocks |-> d[d[i].blocks[k]]]>>

\* While a thread holds the lock of an inode no other thread changes the
\* inode, its direntries or its data, so that what it has read stays true.
\* A delete is exempt once it has begun to set blocks free: it reads nothing
\* more, and a direntry block it has freed may be another request's by then.
LockedInodesStable ==
  [][\A t \in Threads :
       /\ pc[t] \in {"lookup", "lock_next", "attempt", "lock_new", "lock_victim", "write"}
       /\ ~Deleting(t)
       /\ local'[t] = local[t]
       /\ pc'[t] = pc[t]
       => UnderLock(disk', local[t].curr) = UnderLock(disk, local[t].curr)]_vars

\* Every request is answered or its connection closed, although a thread can
\* be overtaken at every lock on its path.
EveryRequestAnswered ==
  \A t \in Threads : (pc[t] # "idle") ~> (pc[t] = "done")

-----------------------------------------------------------------------------
\* The tree as a client sees it: what can be reached from the root, by paths that
\* take two blocks a level.
Children(d, node) ==
  IF IsDirectory(d, node.inode)
  THEN {[path |-> Append(node.path, Direntry(d, e).name),
         inode |-> Direntry(d, e).inode_block] : e \in Entries(d, node.inode)}
  ELSE {}

Nodes(d) ==
  LET Level[n \in 0 .. (FS_DISKSIZE - 1) \div 2] ==
        IF n = 0 THEN {[path |-> <<>>, inode |-> 0]}
        ELSE UNION {Children(d, x) : x \in Level[n - 1]}
  IN UNION {Level[n] : n \in DOMAIN Level}

TreeWith(d, nodes) ==
  [p \in {x.path : x \in nodes} |->
     LET i == d[(CHOOSE x \in nodes : x.path = p).inode]
     IN [type |-> i.type, owner |-> i.owner,
         data |-> IF i.type = "f" THEN [k \in DOMAIN i.blocks |-> d[i.blocks[k]].data]
                  ELSE <<>>]]

\* TreeWith(v, Nodes(v)); TLC evaluates v and its nodes only once in this form.
TreeOf(v) ==
  CHOOSE tree \in UNION {{TreeWith(d, n) : n \in {Nodes(d)}} : d \in {v}} : TRUE

Decided(t) == Deleting(t) \/ pc[t] = "unreserve"

FS == INSTANCE FileSystem WITH
  tree <- TreeOf(View),
  unsettled <- {t \in Threads : Decided(t)},
  request <- [t \in Threads |-> IF Decided(t) THEN None ELSE request[t]],
  result <- [t \in Threads |-> IF Deleting(t) THEN Success("")
               ELSE IF pc[t] = "unreserve" THEN Failure ELSE reply[t]]

\* The server implements the file system of FileSystem: each request takes
\* effect at one moment between its arrival and its answer, whatever the
\* other threads do and whichever of its writes a crash cuts off.
ImplementsFileSystem == FS!Spec
=============================================================================
