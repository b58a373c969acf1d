-------------------------- MODULE FileServerProofs ---------------------------
(***************************************************************************)
(* The file server keeps its tree and its blocks: the theorems for the     *)
(* invariants of FileServer.  They assume that no crash comes in the       *)
(* middle of a delete (~CrashesTearDeletes); a delete that is cut off      *)
(* leaves blocks free that the disk still refers to.                       *)
(***************************************************************************)
EXTENDS FileTreeLemmas

Places == {"idle", "reserve", "lock_root", "lookup", "lock_next", "attempt", "lock_new",
           "lock_victim", "free", "write", "unreserve", "done"}

Answers == [ok : BOOLEAN, data : {""} \cup STRING]

Locals == [path : Seq(STRING), curr : Blocks, next : Blocks, reserved : SUBSET Blocks,
           frees : Seq(Blocks), writes : Seq(Blocks \X Contents)]

TypeInv ==
  /\ disk \in Disks
  /\ disk_block \in [Blocks -> BOOLEAN]
  /\ disk_block_lock \in [Blocks -> Threads \cup {None}]
  /\ pc \in [Threads -> Places]
  /\ request \in [Threads -> Requests \cup {None}]
  /\ local \in [Threads -> Locals]
  /\ reply \in [Threads -> Answers \cup {None}]
  /\ \A t \in Threads : /\ request[t] = None <=> pc[t] \in {"idle", "done"}
                        /\ reply[t] = None <=> pc[t] # "done"
  /\ crashes \in 0 .. MaxCrashes

-----------------------------------------------------------------------------
(* What a thread that has locked an inode of the tree V is about to write.  *)
(* The writes already done show in the blocks it has reserved.              *)

\* An inode, with the blocks that belong to it.
Region(V, i) == {i} \cup Own(V, i)

Link(V, i, b) == <<i, WithBlock(V[i], b)>>

Overwriting(V, l) ==
  \E b \in Own(V, l.curr), x \in STRING :
    /\ V[l.curr].type = "f" /\ l.reserved = {}
    /\ l.writes = << <<b, [data |-> x]>> >>

Appending(V, l) ==
  \E b \in Blocks, x \in STRING :
    /\ V[l.curr].type = "f" /\ l.reserved = {b}
    /\ \/ l.writes = << <<b, [data |-> x]>>, Link(V, l.curr, b) >>
       \/ IsData(V[b]) /\ l.writes = << Link(V, l.curr, b) >>

EmptyInodes == {c \in InodeRecords : c.blocks = <<>>}

\* Inode n gets name nm in slot k of block b.
InsertingAt(V, l, n, b, k, nm) ==
  /\ b \in Own(V, l.curr) /\ V[l.curr].type = "d" /\ l.reserved = {l.next}
  /\ ~EntryAt(V, b, k) /\ NameFree(V, l.curr, nm)
  /\ \/ l.writes = << <<l.next, n>>, <<b, WithEntry(V[b], k, nm, l.next)>> >>
     \/ V[l.next] = n /\ l.writes = << <<b, WithEntry(V[b], k, nm, l.next)>> >>

Inserting(V, l) ==
  \E n \in EmptyInodes, k \in Slots, nm \in STRING : \E b :
    InsertingAt(V, l, n, b, k, nm)

ExtendingAt(V, l, n, g, nm) ==
  /\ V[l.curr].type = "d" /\ l.reserved = {l.next, g} /\ g # l.next
  /\ NameFree(V, l.curr, nm)
  /\ \/ l.writes = << <<l.next, n>>, <<g, WithEntry(NewDirentries, 1, nm, l.next)>>,
                      Link(V, l.curr, g) >>
     \/ /\ V[l.next] = n
        /\ l.writes = << <<g, WithEntry(NewDirentries, 1, nm, l.next)>>, Link(V, l.curr, g) >>
     \/ /\ V[l.next] = n /\ V[g] = WithEntry(NewDirentries, 1, nm, l.next)
        /\ l.writes = << Link(V, l.curr, g) >>

Extending(V, l) ==
  \E n \in EmptyInodes, g \in Blocks, nm \in STRING : ExtendingAt(V, l, n, g, nm)

\* The other threads already see the disk without the file.
Removing(V, l) ==
  \E b \in Region(V, l.curr) : l.reserved = {} /\ l.writes = << <<b, V[b]>> >>

Creating(V, l) == Inserting(V, l) \/ Extending(V, l)

-----------------------------------------------------------------------------
(* The inductive invariant.                                                 *)

HoldsCurr(p) ==
  p \in {"lookup", "lock_next", "attempt", "lock_new", "lock_victim", "free", "write"}

\* create_mutex and delete_mutex.
HoldsNext(p, r) == p = "free" \/ (p = "write" /\ r.type \in {"CREATE", "DELETE"})

HeldBy(p, r, l) ==
  (IF HoldsCurr(p) THEN {l.curr} ELSE {}) \cup (IF HoldsNext(p, r) THEN {l.next} ELSE {})

\* What thread t with request r and local variables l is in the middle of, where I
\* are the inodes of the tree V.
ThreadInv(V, I, p, r, l) ==
  /\ p \in {"idle", "reserve", "done"} => l = NoLocals
  /\ p \in {"lock_root", "unreserve"} => l = [NoLocals EXCEPT !.reserved = l.reserved]
  /\ p \in {"reserve", "lock_new", "unreserve"} => r.type = "CREATE"
  /\ p \in {"lock_victim", "free"} => r.type = "DELETE"
  /\ p \in {"lock_root", "lookup", "lock_next", "attempt", "lock_victim", "unreserve"} =>
       /\ l.frees = <<>> /\ l.writes = <<>>
       /\ IF r.type = "CREATE" THEN \E f \in Blocks : l.reserved = {f} ELSE l.reserved = {}
  /\ p \in {"lookup", "lock_next"} => l.path # <<>>
  /\ HoldsCurr(p) => l.curr \in I
  /\ p \in {"lock_next", "lock_victim"} => l.next \in Subinodes(V, l.curr)
  /\ p = "lock_new" => l.frees = <<>> /\ Creating(V, l)
  /\ p = "free" => l.frees # <<>> /\ Removing(V, l)
  /\ p = "write" =>
       /\ l.frees = <<>>
       /\ \/ r.type = "WRITE" /\ (Overwriting(V, l) \/ Appending(V, l))
          \/ r.type = "CREATE" /\ Creating(V, l)
          \/ r.type = "DELETE" /\ Removing(V, l)

\* A thread has the locks its place in the code calls for, and no others.
LocksInv ==
  \A t \in Threads : \A b \in Blocks :
    disk_block_lock[b] = t <=> b \in HeldBy(pc[t], request[t], local[t])

Removes(t, b) == Deleting(t) /\ local[t].writes[1][1] = b

\* V is the disk as the threads may see it.
OnView(V) ==
  \A b \in Blocks :
    /\ (\A t \in Threads : ~Removes(t, b)) => V[b] = disk[b]
    /\ \A t \in Threads : Removes(t, b) => V[b] = local[t].writes[1][2]

Taken(l) == l.reserved \cup Range(l.frees)

\* Every block is free, in use (U), or taken by one thread.
AccountOn(U) ==
  /\ \A b \in Blocks : disk_block[b] => b \notin U
  /\ \A t \in Threads : \A b \in Taken(local[t]) : ~disk_block[b] /\ b \notin U
  /\ \A t, u \in Threads : t # u => Taken(local[t]) \cap Taken(local[u]) = {}
  /\ \A t \in Threads : IsInjective(local[t].frees)
  /\ \A b \in Blocks : disk_block[b] \/ b \in U \/ \E t \in Threads : b \in Taken(local[t])

InvOn(V, I) ==
  /\ TypeInv
  /\ OnView(V)
  /\ TreeOn(V, I)
  /\ \A t \in Threads : ThreadInv(V, I, pc[t], request[t], local[t])
  /\ LocksInv
  /\ AccountOn(I \cup BlocksOn(V, I))

\* There are a tree and its inodes that explain the state.
Inv == \E V \in Disks : \E I \in SUBSET Blocks : InvOn(V, I)

-----------------------------------------------------------------------------
(* Facts about the operators.                                               *)

\* The tree that explains the state is the view.
LEMMA ViewIs ==
  ASSUME NEW V \in Disks, OnView(V)
  PROVE  V = View
<1>1. ASSUME NEW b \in Blocks PROVE V[b] = View[b]
  <2>1. CASE Removals(b) = {}
    <3>1. \A t \in Threads : ~Removes(t, b)
      BY <2>1 DEF Removals, Removes
    <3> QED BY <2>1, <3>1 DEF OnView, View
  <2>2. CASE Removals(b) # {}
    <3>1. PICK u : u = (CHOOSE t \in Removals(b) : TRUE)
      OBVIOUS
    <3>2. u \in Threads /\ Removes(u, b)
      BY <2>2, <3>1 DEF Removals, Removes
    <3>3. V[b] = local[u].writes[1][2]
      BY <3>2 DEF OnView
    <3> QED BY <2>2, <3>1, <3>3 DEF View
  <2> QED BY <2>1, <2>2
<1>2. View = [b \in Blocks |-> View[b]] /\ V = [b \in Blocks |-> V[b]]
  BY DEF View, Disks
<1> QED BY <1>1, <1>2

\* A block of data holds a text.
LEMMA DataTyped ==
  ASSUME NEW c \in Contents, IsData(c)
  PROVE  c.data \in STRING
BY DEF Contents, IsData

\* What is under an inode depends on its region only.
LEMMA SameRegion ==
  ASSUME NEW d \in Disks, NEW e \in Disks, NEW i \in Blocks, IsInode(d[i]),
         \A b \in Region(d, i) : e[b] = d[b]
  PROVE  /\ Region(d, i) \subseteq Blocks
         /\ e[i] = d[i] /\ Own(e, i) = Own(d, i) /\ Region(e, i) = Region(d, i)
         /\ Entries(e, i) = Entries(d, i)
         /\ \A x \in Entries(d, i) : Direntry(e, x) = Direntry(d, x)
         /\ Subinodes(e, i) = Subinodes(d, i)
         /\ \A nm : NameFree(d, i, nm) => NameFree(e, i, nm)
         /\ \A b \in Own(d, i), k \in Slots : EntryAt(e, b, k) <=> EntryAt(d, b, k)
<1>1. e[i] = d[i] /\ Own(e, i) = Own(d, i) /\ Region(e, i) = Region(d, i)
  BY DEF Region, Own
<1>2. Region(d, i) \subseteq Blocks
  BY InodeTyped DEF Region, Own
<1>3. \A b \in Own(d, i), k \in Slots : EntryAt(e, b, k) <=> EntryAt(d, b, k)
  BY DEF Region, EntryAt
<1>4. Entries(e, i) = Entries(d, i)
  <2>1. \A x : x \in Entries(e, i) <=> x \in Entries(d, i)
    BY <1>1, <1>3, EntriesDef DEF Own
  <2> QED BY <2>1
<1>5. ASSUME NEW x \in Entries(d, i) PROVE Direntry(e, x) = Direntry(d, x)
  <2>1. PICK b \in Own(d, i), k \in Slots : x = <<b, k>>
    BY EntriesDef DEF Own
  <2> QED BY <2>1 DEF Direntry, Region
<1>6. Subinodes(e, i) = Subinodes(d, i)
  BY <1>1, <1>4, <1>5 DEF Subinodes, IsDirectory
<1>7. \A nm : NameFree(d, i, nm) => NameFree(e, i, nm)
  BY <1>1, <1>3 DEF NameFree, NameAt, Region
<1> QED BY <1>1, <1>2, <1>3, <1>4, <1>5, <1>6, <1>7

\* What a thread is about to write depends on its region and its blocks only.
LEMMA SameForms ==
  ASSUME NEW V \in Disks, NEW W \in Disks, NEW l \in Locals, IsInode(V[l.curr]),
         \A b \in Region(V, l.curr) \cup l.reserved : W[b] = V[b]
  PROVE  /\ Overwriting(V, l) => Overwriting(W, l)
         /\ Appending(V, l) => Appending(W, l)
         /\ Inserting(V, l) => Inserting(W, l)
         /\ Extending(V, l) => Extending(W, l)
         /\ Removing(V, l) => Removing(W, l)
<1>1. l.curr \in Blocks /\ \A b \in Region(V, l.curr) : W[b] = V[b]
  BY DEF Locals
<1>2. /\ W[l.curr] = V[l.curr] /\ Own(W, l.curr) = Own(V, l.curr)
      /\ Region(W, l.curr) = Region(V, l.curr)
      /\ \A nm : NameFree(V, l.curr, nm) => NameFree(W, l.curr, nm)
      /\ \A b \in Own(V, l.curr), k \in Slots : EntryAt(W, b, k) <=> EntryAt(V, b, k)
  BY <1>1, SameRegion
<1>3. \A b : Link(W, l.curr, b) = Link(V, l.curr, b)
  BY <1>2 DEF Link
<1>4. \A b \in Own(V, l.curr) : W[b] = V[b]
  BY DEF Region
<1>5. Overwriting(V, l) => Overwriting(W, l)
  BY <1>2 DEF Overwriting
<1>6. Appending(V, l) => Appending(W, l)
  BY <1>2, <1>3 DEF Appending
<1>7. ASSUME Inserting(V, l) PROVE Inserting(W, l)
  <2>1. PICK n \in EmptyInodes, k \in Slots, nm \in STRING : \E b : InsertingAt(V, l, n, b, k, nm)
    BY <1>7 DEF Inserting
  <2>2. PICK b : InsertingAt(V, l, n, b, k, nm)
    BY <2>1
  <2>3. /\ W[b] = V[b] /\ W[l.next] = V[l.next] /\ W[l.curr].type = "d"
        /\ b \in Own(W, l.curr) /\ ~EntryAt(W, b, k) /\ NameFree(W, l.curr, nm)
    BY <1>2, <1>4, <2>2 DEF InsertingAt
  <2>4. InsertingAt(W, l, n, b, k, nm)
    BY <2>2, <2>3 DEF InsertingAt
  <2> QED BY <2>4 DEF Inserting
<1>8. ASSUME Extending(V, l) PROVE Extending(W, l)
  <2>1. PICK n \in EmptyInodes, g \in Blocks, nm \in STRING : ExtendingAt(V, l, n, g, nm)
    BY <1>8 DEF Extending
  <2>2. /\ l.reserved = {l.next, g} /\ W[l.curr].type = "d" /\ NameFree(W, l.curr, nm)
        /\ Link(W, l.curr, g) = Link(V, l.curr, g)
    BY <1>2, <1>3, <2>1 DEF ExtendingAt
  <2>3. W[g] = V[g] /\ W[l.next] = V[l.next]
    BY <2>2
  <2>4. ExtendingAt(W, l, n, g, nm)
    BY <2>1, <2>2, <2>3 DEF ExtendingAt
  <2> QED BY <2>4 DEF Extending
<1>9. Removing(V, l) => Removing(W, l)
  BY <1>2 DEF Removing
<1> QED BY <1>5, <1>6, <1>7, <1>8, <1>9

\* ... and so does all that is known of a thread.
LEMMA SameThread ==
  ASSUME NEW V \in Disks, NEW W \in Disks, NEW I, NEW J, NEW p, NEW r, NEW l \in Locals,
         ThreadInv(V, I, p, r, l),
         HoldsCurr(p) => /\ IsInode(V[l.curr])
                         /\ l.curr \in J
                         /\ \A b \in Region(V, l.curr) \cup l.reserved : W[b] = V[b]
  PROVE  ThreadInv(W, J, p, r, l)
<1>1. CASE ~HoldsCurr(p)
  BY <1>1 DEF ThreadInv, HoldsCurr
<1>2. CASE HoldsCurr(p)
  <2>1. l.curr \in Blocks
    BY DEF Locals
  <2>2. Subinodes(W, l.curr) = Subinodes(V, l.curr)
    BY <1>2, <2>1, SameRegion
  <2>3. /\ Overwriting(V, l) => Overwriting(W, l)
        /\ Appending(V, l) => Appending(W, l)
        /\ Creating(V, l) => Creating(W, l)
        /\ Removing(V, l) => Removing(W, l)
    BY <1>2, SameForms DEF Creating
  <2> QED BY <1>2, <2>2, <2>3 DEF ThreadInv, HoldsCurr
<1> QED BY <1>1, <1>2

\* The first writes of a sequence, and what is left.
LEMMA WritesLeft ==
  /\ \A a : Len(<<a>>) = 1 /\ Head(<<a>>) = a /\ <<a>> # <<>>
  /\ \A a, b : /\ Len(<<a, b>>) = 2 /\ Head(<<a, b>>) = a /\ Tail(<<a, b>>) = <<b>>
               /\ <<a, b>> # <<>>
  /\ \A a, b, c : /\ Len(<<a, b, c>>) = 3 /\ Head(<<a, b, c>>) = a
                  /\ Tail(<<a, b, c>>) = <<b, c>> /\ <<a, b, c>> # <<>>
OBVIOUS

-----------------------------------------------------------------------------
(* What the next write of a WRITE or a create does to the tree.             *)

\* The tree W has the inodes and the blocks of V.
Kept(V, I, W) == W \in Disks /\ TreeUsing(W, I, BlocksOn(V, I))

\* The tree W also has the blocks that were reserved.
Linked(V, I, l, W) ==
  \E J \in SUBSET Blocks :
    /\ W \in Disks /\ TreeOn(W, J) /\ I \subseteq J
    /\ J \cup BlocksOn(W, J) = I \cup BlocksOn(V, I) \cup l.reserved

\* A thread that has local variables l writes content c to block b, which gives W.
Writing(V, I, l, b, c, W) ==
  /\ V \in Disks /\ TreeOn(V, I) /\ l \in Locals /\ l.curr \in I
  /\ l.reserved \cap (I \cup BlocksOn(V, I)) = {}
  /\ b = l.writes[1][1] /\ c = l.writes[1][2]
  /\ W = Put(V, b, c)

\* Its local variables are m then.
Shift(l, m) ==
  /\ m \in Locals /\ m.curr = l.curr /\ m.next = l.next /\ m.reserved = l.reserved
  /\ m.writes = Tail(l.writes)

\* It writes within what it has locked or reserved.
Within(V, l, b, c) ==
  b \in Region(V, l.curr) \cup l.reserved /\ b \in Blocks /\ c \in Contents

\* A block that was reserved is written.
LEMMA ReservedWrite ==
  ASSUME NEW V, NEW I, NEW l, NEW b, NEW c, NEW W, Writing(V, I, l, b, c, W),
         b \in l.reserved, c \in Contents
  PROVE  /\ Within(V, l, b, c) /\ Kept(V, I, W)
         /\ W[b] = c /\ \A x \in Blocks : x # b => W[x] = V[x]
         /\ \A x \in Region(V, l.curr) : W[x] = V[x]
         /\ IsInode(V[l.curr]) /\ l.curr \in Blocks
<1> USE DEF Writing
<1>1. b \in Blocks /\ l.curr \in Blocks /\ b \notin I \cup BlocksOn(V, I)
  BY DEF Locals
<1>2. Kept(V, I, W)
  BY <1>1, PutUnused DEF Kept
<1>3. W[b] = c /\ \A x \in Blocks : x # b => W[x] = V[x]
  BY <1>1 DEF Disks, Put
<1>4. IsInode(V[l.curr])
  BY DEF TreeOn, InodesOn
<1>5. Region(V, l.curr) \subseteq I \cup BlocksOn(V, I)
  BY DEF Region, BlocksOn
<1>6. Region(V, l.curr) \subseteq Blocks
  BY <1>1, <1>4, SameRegion
<1> QED BY <1>1, <1>2, <1>3, <1>4, <1>5, <1>6 DEF Within

\* A WRITE to a block of the file.
LEMMA OverwritingStep ==
  ASSUME NEW V, NEW I, NEW l, NEW b, NEW c, NEW W, Writing(V, I, l, b, c, W),
         Overwriting(V, l)
  PROVE  /\ Within(V, l, b, c) /\ l.writes # <<>>
         /\ Len(l.writes) = 1 /\ Linked(V, I, l, W)
<1>1. PICK a \in Own(V, l.curr), x \in STRING :
        /\ V[l.curr].type = "f" /\ l.reserved = {}
        /\ l.writes = << <<a, [data |-> x]>> >>
  BY DEF Overwriting
<1>2. PICK y : y = [data |-> x]
  OBVIOUS
<1>3. b = a /\ c = y /\ Len(l.writes) = 1 /\ l.writes # <<>>
  BY <1>1, <1>2 DEF Writing
<1>4. y \in Contents /\ IsData(y)
  BY <1>2, RecordsAreContents
<1>5. b \in Blocks /\ W \in Disks /\ TreeUsing(W, I, BlocksOn(V, I))
  BY <1>1, <1>3, <1>4, PutData DEF Writing
<1>6. Within(V, l, b, c)
  BY <1>1, <1>3, <1>4, <1>5 DEF Within, Region
<1>7. I \subseteq Blocks
  BY DEF Writing, TreeOn, InodesOn
<1> QED BY <1>1, <1>3, <1>5, <1>6, <1>7 DEF Linked, TreeUsing

\* A WRITE at the end of the file.
LEMMA AppendingStep ==
  ASSUME NEW V, NEW I, NEW l, NEW b, NEW c, NEW W, Writing(V, I, l, b, c, W),
         Appending(V, l), NEW m, Shift(l, m)
  PROVE  /\ Within(V, l, b, c) /\ l.writes # <<>>
         /\ \/ Len(l.writes) = 1 /\ Linked(V, I, l, W)
            \/ Len(l.writes) # 1 /\ Kept(V, I, W) /\ Appending(W, m)
<1>1. PICK e \in Blocks, x \in STRING :
        /\ V[l.curr].type = "f" /\ l.reserved = {e}
        /\ \/ l.writes = << <<e, [data |-> x]>>, Link(V, l.curr, e) >>
           \/ IsData(V[e]) /\ l.writes = << Link(V, l.curr, e) >>
  BY DEF Appending
<1>2. PICK y : y = [data |-> x]
  OBVIOUS
<1>3. y \in Contents /\ IsData(y)
  BY <1>2, RecordsAreContents
<1>4. CASE l.writes = << <<e, y>>, Link(V, l.curr, e) >>
  <2>1. b = e /\ c = y /\ Len(l.writes) = 2 /\ m.writes = << Link(V, l.curr, e) >>
    BY <1>4, WritesLeft DEF Writing, Shift
  <2>2. /\ Within(V, l, b, c) /\ Kept(V, I, W) /\ W[e] = y
        /\ \A z \in Region(V, l.curr) : W[z] = V[z]
    BY <1>1, <1>3, <2>1, ReservedWrite
  <2>3. W[l.curr] = V[l.curr]
    BY <2>2 DEF Region
  <2>4. Appending(W, m)
    BY <1>1, <1>3, <2>1, <2>2, <2>3 DEF Appending, Shift, Link
  <2> QED BY <1>4, <2>1, <2>2, <2>4
<1>5. CASE IsData(V[e]) /\ l.writes = << Link(V, l.curr, e) >>
  <2>1. b = l.curr /\ c = WithBlock(V[l.curr], e) /\ Len(l.writes) = 1
    BY <1>5 DEF Writing, Link
  <2>2. e \notin I \cup BlocksOn(V, I)
    BY <1>1 DEF Writing
  <2>3. /\ c \in Contents /\ W \in Disks
        /\ TreeUsing(W, I, BlocksOn(V, I) \cup {e})
    BY <1>1, <1>5, <2>1, <2>2, LinkData DEF Writing
  <2>4. I \subseteq Blocks
    BY DEF Writing, TreeOn, InodesOn
  <2>5. Within(V, l, b, c)
    BY <2>1, <2>3 DEF Within, Region, Writing, Locals
  <2>6. Linked(V, I, l, W)
    BY <1>1, <2>3, <2>4 DEF Linked, TreeUsing
  <2> QED BY <1>5, <2>1, <2>5, <2>6
<1> QED BY <1>1, <1>2, <1>4, <1>5

\* A create that uses a slot of a block of the directory.
LEMMA InsertingStep ==
  ASSUME NEW V, NEW I, NEW l, NEW b, NEW c, NEW W, Writing(V, I, l, b, c, W),
         Inserting(V, l), NEW m, Shift(l, m)
  PROVE  /\ Within(V, l, b, c) /\ l.writes # <<>>
         /\ \/ Len(l.writes) = 1 /\ Linked(V, I, l, W)
            \/ Len(l.writes) # 1 /\ Kept(V, I, W) /\ Inserting(W, m)
<1>1. PICK n \in EmptyInodes, k \in Slots, nm \in STRING : \E a : InsertingAt(V, l, n, a, k, nm)
  BY DEF Inserting
<1>2. PICK a \in Own(V, l.curr) :
        /\ V[l.curr].type = "d" /\ l.reserved = {l.next}
        /\ ~EntryAt(V, a, k) /\ NameFree(V, l.curr, nm)
        /\ \/ l.writes = << <<l.next, n>>, <<a, WithEntry(V[a], k, nm, l.next)>> >>
           \/ V[l.next] = n /\ l.writes = << <<a, WithEntry(V[a], k, nm, l.next)>> >>
  BY <1>1 DEF InsertingAt
<1>3. n \in Contents /\ IsInode(n) /\ n.blocks = <<>>
  BY RecordsAreContents DEF EmptyInodes
<1>4. CASE l.writes = << <<l.next, n>>, <<a, WithEntry(V[a], k, nm, l.next)>> >>
  <2>1. /\ b = l.next /\ c = n /\ Len(l.writes) = 2
        /\ m.writes = << <<a, WithEntry(V[a], k, nm, l.next)>> >>
    BY <1>4, WritesLeft DEF Writing, Shift
  <2>2. /\ Within(V, l, b, c) /\ Kept(V, I, W) /\ W[l.next] = n
        /\ \A z \in Region(V, l.curr) : W[z] = V[z]
        /\ IsInode(V[l.curr]) /\ l.curr \in Blocks
    BY <1>2, <1>3, <2>1, ReservedWrite
  <2>3. /\ W[l.curr] = V[l.curr] /\ W[a] = V[a] /\ a \in Own(W, l.curr)
        /\ ~EntryAt(W, a, k) /\ NameFree(W, l.curr, nm)
    <3>1. a \in Region(V, l.curr) /\ l.curr \in Region(V, l.curr)
      BY DEF Region
    <3>2. V \in Disks /\ W \in Disks
      BY <2>2 DEF Writing, Kept
    <3>3. /\ Own(W, l.curr) = Own(V, l.curr)
          /\ \A x : NameFree(V, l.curr, x) => NameFree(W, l.curr, x)
          /\ \A x \in Own(V, l.curr), y \in Slots : EntryAt(W, x, y) <=> EntryAt(V, x, y)
      BY <2>2, <3>2, SameRegion
    <3> QED BY <1>2, <2>2, <3>1, <3>3
  <2>4. m.writes = << <<a, WithEntry(W[a], k, nm, m.next)>> >>
    BY <2>1, <2>3 DEF Shift
  <2>5. /\ W[m.curr].type = "d" /\ m.reserved = {m.next}
        /\ ~EntryAt(W, a, k) /\ NameFree(W, m.curr, nm)
        /\ W[m.next] = n /\ a \in Own(W, m.curr)
    BY <1>2, <2>2, <2>3 DEF Shift
  <2>6. InsertingAt(W, m, n, a, k, nm)
    BY <2>4, <2>5 DEF InsertingAt
  <2>7. Inserting(W, m)
    BY <2>6 DEF Inserting
  <2> QED BY <1>4, <2>1, <2>2, <2>7
<1>5. CASE V[l.next] = n /\ l.writes = << <<a, WithEntry(V[a], k, nm, l.next)>> >>
  <2>1. b = a /\ c = WithEntry(V[a], k, nm, l.next) /\ Len(l.writes) = 1
    BY <1>5, WritesLeft DEF Writing
  <2>2. l.next \in Blocks /\ l.next \notin I \cup BlocksOn(V, I)
    BY <1>2 DEF Writing, Locals
  <2>3. /\ b \in Blocks /\ c \in Contents /\ W \in Disks
        /\ TreeUsing(W, I \cup {l.next}, BlocksOn(V, I))
    <3>1. /\ V \in Disks /\ TreeOn(V, I) /\ l.curr \in I /\ V[l.curr].type = "d"
          /\ b \in Own(V, l.curr) /\ ~EntryAt(V, b, k) /\ NameFree(V, l.curr, nm)
          /\ IsInode(V[l.next]) /\ V[l.next].blocks = <<>>
          /\ c = WithEntry(V[b], k, nm, l.next) /\ W = Put(V, b, c)
      BY <1>2, <1>3, <1>5, <2>1 DEF Writing
    <3> QED BY <2>2, <3>1, LinkEntry
  <2>4. I \subseteq Blocks
    BY DEF Writing, TreeOn, InodesOn
  <2>5. Within(V, l, b, c)
    BY <2>1, <2>3 DEF Within, Region
  <2>6. Linked(V, I, l, W)
    <3> DEFINE J == I \cup {l.next}
    <3>1. J \in SUBSET Blocks /\ I \subseteq J /\ TreeOn(W, J) /\ BlocksOn(W, J) = BlocksOn(V, I)
      BY <2>2, <2>3, <2>4 DEF TreeUsing
    <3>2. J \cup BlocksOn(W, J) = I \cup BlocksOn(V, I) \cup l.reserved
      BY <1>2, <3>1
    <3> QED BY <2>3, <3>1, <3>2 DEF Linked
  <2> QED BY <1>5, <2>1, <2>5, <2>6, WritesLeft
<1> QED BY <1>2, <1>4, <1>5

\* A create that gives the directory a new block.
LEMMA ExtendingStep ==
  ASSUME NEW V, NEW I, NEW l, NEW b, NEW c, NEW W, Writing(V, I, l, b, c, W),
         Extending(V, l), NEW m, Shift(l, m)
  PROVE  /\ Within(V, l, b, c) /\ l.writes # <<>>
         /\ \/ Len(l.writes) = 1 /\ Linked(V, I, l, W)
            \/ Len(l.writes) # 1 /\ Kept(V, I, W) /\ Extending(W, m)
<1>0. PICK n \in EmptyInodes, g \in Blocks, nm \in STRING : ExtendingAt(V, l, n, g, nm)
  BY DEF Extending
<1>1. /\ V[l.curr].type = "d" /\ l.reserved = {l.next, g} /\ g # l.next
      /\ NameFree(V, l.curr, nm)
  BY <1>0 DEF ExtendingAt
<1>2. n \in Contents /\ IsInode(n) /\ n.blocks = <<>>
  BY RecordsAreContents DEF EmptyInodes
<1>3. /\ l.next \in Blocks /\ l.next \notin I \cup BlocksOn(V, I)
      /\ g \notin I \cup BlocksOn(V, I)
  BY <1>1 DEF Writing, Locals
<1>4. PICK w \in Contents : w = WithEntry(NewDirentries, 1, nm, l.next)
  <2>1. l.next # 0
    BY <1>3 DEF Writing, TreeOn, InodesOn
  <2> QED BY <1>3, <2>1, WithEntryFacts, NewDirentriesFacts
<1>5. ASSUME /\ \A z \in Region(V, l.curr) : W[z] = V[z]
             /\ IsInode(V[l.curr]) /\ l.curr \in Blocks /\ Kept(V, I, W)
      PROVE  /\ W[m.curr].type = "d" /\ m.reserved = {m.next, g} /\ g # m.next
             /\ NameFree(W, m.curr, nm)
             /\ Link(W, m.curr, g) = Link(V, l.curr, g)
  <2>1. W[l.curr] = V[l.curr] /\ NameFree(W, l.curr, nm)
    <3>1. l.curr \in Region(V, l.curr)
      BY DEF Region
    <3> QED BY <1>1, <1>5, <3>1, SameRegion DEF Writing, Kept
  <2> QED BY <1>1, <2>1 DEF Shift, Link
<1>6. CASE l.writes = << <<l.next, n>>, <<g, w>>, Link(V, l.curr, g) >>
  <2>1. /\ b = l.next /\ c = n /\ Len(l.writes) = 3
        /\ m.writes = << <<g, w>>, Link(V, l.curr, g) >>
    BY <1>6, WritesLeft DEF Writing, Shift
  <2>2. /\ Within(V, l, b, c) /\ Kept(V, I, W) /\ W[l.next] = n
        /\ \A z \in Region(V, l.curr) : W[z] = V[z]
        /\ IsInode(V[l.curr]) /\ l.curr \in Blocks
    BY <1>1, <1>2, <2>1, ReservedWrite
  <2>3. m.writes = << <<g, w>>, Link(W, m.curr, g) >> /\ W[m.next] = n
    BY <1>5, <2>1, <2>2 DEF Shift
  <2>4. ExtendingAt(W, m, n, g, nm)
    <3>1. /\ W[m.curr].type = "d" /\ m.reserved = {m.next, g} /\ g # m.next
          /\ NameFree(W, m.curr, nm)
      BY <1>5, <2>2
    <3>2. m.next = l.next
      BY DEF Shift
    <3> QED BY <1>4, <2>3, <3>1, <3>2 DEF ExtendingAt
  <2>5. Extending(W, m)
    BY <2>4 DEF Extending
  <2> QED BY <1>6, <2>1, <2>2, <2>5, WritesLeft
<1>7. CASE V[l.next] = n /\ l.writes = << <<g, w>>, Link(V, l.curr, g) >>
  <2>1. b = g /\ c = w /\ Len(l.writes) = 2 /\ m.writes = << Link(V, l.curr, g) >>
    BY <1>7, WritesLeft DEF Writing, Shift
  <2>2. /\ Within(V, l, b, c) /\ Kept(V, I, W) /\ W[g] = w /\ W[l.next] = n
        /\ \A z \in Region(V, l.curr) : W[z] = V[z]
        /\ IsInode(V[l.curr]) /\ l.curr \in Blocks
    BY <1>1, <1>3, <1>7, <2>1, ReservedWrite
  <2>3. m.writes = << Link(W, m.curr, g) >> /\ W[m.next] = n
    BY <1>5, <2>1, <2>2 DEF Shift
  <2>4. ExtendingAt(W, m, n, g, nm)
    <3>1. /\ W[m.curr].type = "d" /\ m.reserved = {m.next, g} /\ g # m.next
          /\ NameFree(W, m.curr, nm)
      BY <1>5, <2>2
    <3>2. m.next = l.next
      BY DEF Shift
    <3> QED BY <1>4, <2>2, <2>3, <3>1, <3>2 DEF ExtendingAt
  <2>5. Extending(W, m)
    BY <2>4 DEF Extending
  <2> QED BY <1>7, <2>1, <2>2, <2>5, WritesLeft
<1>8. CASE V[l.next] = n /\ V[g] = w /\ l.writes = << Link(V, l.curr, g) >>
  <2>1. b = l.curr /\ c = WithBlock(V[l.curr], g) /\ Len(l.writes) = 1
    BY <1>8 DEF Writing, Link
  <2>2. /\ c \in Contents /\ W \in Disks
        /\ TreeUsing(W, I \cup {l.next}, BlocksOn(V, I) \cup {g})
    <3>1. /\ V \in Disks /\ TreeOn(V, I) /\ l.curr \in I /\ V[l.curr].type = "d"
          /\ NameFree(V, l.curr, nm) /\ g # l.next
          /\ IsInode(V[l.next]) /\ V[l.next].blocks = <<>>
          /\ V[g] = WithEntry(NewDirentries, 1, nm, l.next)
          /\ c = WithBlock(V[l.curr], g) /\ W = Put(V, l.curr, c)
      BY <1>1, <1>2, <1>4, <1>8, <2>1 DEF Writing
    <3> QED BY <1>3, <3>1, LinkDirentries
  <2>3. I \subseteq Blocks
    BY DEF Writing, TreeOn, InodesOn
  <2>4. Within(V, l, b, c)
    BY <2>1, <2>2 DEF Within, Region, Writing, Locals
  <2>5. Linked(V, I, l, W)
    <3> DEFINE J == I \cup {l.next}
    <3>1. /\ J \in SUBSET Blocks /\ I \subseteq J /\ TreeOn(W, J)
          /\ BlocksOn(W, J) = BlocksOn(V, I) \cup {g}
      BY <1>3, <2>2, <2>3 DEF TreeUsing
    <3>2. J \cup BlocksOn(W, J) = I \cup BlocksOn(V, I) \cup l.reserved
      BY <1>1, <3>1
    <3> QED BY <2>2, <3>1, <3>2 DEF Linked
  <2> QED BY <1>8, <2>1, <2>4, <2>5
<1> QED BY <1>0, <1>4, <1>6, <1>7, <1>8 DEF ExtendingAt

-----------------------------------------------------------------------------
(* What the invariant says of two threads.                                  *)

\* A thread that holds the lock of an inode of the tree.
LEMMA Holder ==
  ASSUME NEW V \in Disks, NEW I, InvOn(V, I), NEW t \in Threads, HoldsCurr(pc[t])
  PROVE  /\ local[t] \in Locals /\ local[t].curr \in I /\ local[t].curr \in Blocks
         /\ IsInode(V[local[t].curr])
         /\ Region(V, local[t].curr) \subseteq I \cup BlocksOn(V, I)
         /\ Region(V, local[t].curr) \subseteq Blocks
<1>1. local[t] \in Locals /\ ThreadInv(V, I, pc[t], request[t], local[t])
  BY DEF InvOn, TypeInv
<1>2. local[t].curr \in I /\ local[t].curr \in Blocks
  BY <1>1 DEF ThreadInv, Locals
<1>3. IsInode(V[local[t].curr])
  BY <1>2 DEF InvOn, TreeOn, InodesOn
<1>4. Region(V, local[t].curr) \subseteq I \cup BlocksOn(V, I)
  BY <1>2 DEF Region, BlocksOn
<1>5. Region(V, local[t].curr) \subseteq Blocks
  BY <1>2, <1>3, SameRegion
<1> QED BY <1>1, <1>2, <1>3, <1>4, <1>5

\* What two threads have locked has nothing in common.
LEMMA Separate ==
  ASSUME NEW V \in Disks, NEW I, InvOn(V, I), NEW t \in Threads, NEW u \in Threads, t # u,
         HoldsCurr(pc[t]), HoldsCurr(pc[u])
  PROVE  /\ local[t].curr # local[u].curr
         /\ Region(V, local[t].curr) \cap Region(V, local[u].curr) = {}
<1>1. local[t].curr \in I /\ local[u].curr \in I /\ local[t].curr \in Blocks
  BY Holder
<1>2. local[t].curr # local[u].curr
  <2>1. local[t].curr \in HeldBy(pc[t], request[t], local[t])
    BY DEF HeldBy
  <2>2. local[u].curr \in HeldBy(pc[u], request[u], local[u])
    BY DEF HeldBy
  <2> QED BY <1>1, <2>1, <2>2 DEF InvOn, LocksInv
<1>3. InodesOn(V, I)
  BY DEF InvOn, TreeOn
<1>4. \A b \in Own(V, local[t].curr) : b \notin I /\ b \notin Own(V, local[u].curr)
  BY <1>1, <1>2, <1>3 DEF InodesOn
<1>5. \A b \in Own(V, local[u].curr) : b \notin I
  BY <1>1, <1>3 DEF InodesOn
<1> QED BY <1>1, <1>2, <1>4, <1>5 DEF Region

\* ... and what a thread has taken is not in the tree.
LEMMA TakenApart ==
  ASSUME NEW V, NEW I, InvOn(V, I), NEW t \in Threads
  PROVE  Taken(local[t]) \cap (I \cup BlocksOn(V, I)) = {}
BY DEF InvOn, AccountOn

\* A delete has the block that it is going to write locked.
LEMMA Remover ==
  ASSUME NEW V, NEW I, InvOn(V, I), NEW t \in Threads, NEW b, Removes(t, b)
  PROVE  /\ HoldsCurr(pc[t]) /\ b \in Region(V, local[t].curr)
         /\ local[t].writes = << <<b, V[b]>> >>
<1>1. ThreadInv(V, I, pc[t], request[t], local[t])
  BY DEF InvOn
<1>2. Removing(V, local[t]) /\ HoldsCurr(pc[t])
  BY <1>1 DEF Removes, Deleting, ThreadInv, HoldsCurr
<1>3. PICK c \in Region(V, local[t].curr) : local[t].writes = << <<c, V[c]>> >>
  BY <1>2 DEF Removing
<1>4. b = c
  BY <1>3 DEF Removes
<1> QED BY <1>2, <1>3, <1>4

\* A thread reads the tree from the disk, but for a delete that has begun.
LEMMA Agrees ==
  ASSUME NEW V \in Disks, NEW I, InvOn(V, I), NEW t \in Threads, HoldsCurr(pc[t]), ~Deleting(t)
  PROVE  \A b \in Region(V, local[t].curr) : disk[b] = V[b]
<1> SUFFICES ASSUME NEW b \in Region(V, local[t].curr), disk[b] # V[b]
             PROVE  FALSE
  OBVIOUS
<1>1. b \in Blocks
  BY Holder
<1>2. PICK u \in Threads : Removes(u, b)
  BY <1>1 DEF InvOn, OnView
<1>3. u # t
  BY <1>2 DEF Removes
<1>4. HoldsCurr(pc[u]) /\ b \in Region(V, local[u].curr)
  BY <1>2, Remover
<1> QED BY <1>3, <1>4, Separate

\* Blocks that nobody has locked are on the disk as they are in the tree.
LEMMA AgreesOutside ==
  ASSUME NEW V \in Disks, NEW I, InvOn(V, I), NEW b \in Blocks,
         \A u \in Threads : HoldsCurr(pc[u]) /\ Deleting(u) => b \notin Region(V, local[u].curr)
  PROVE  disk[b] = V[b]
<1>1. \A u \in Threads : ~Removes(u, b)
  BY Remover DEF Removes
<1> QED BY <1>1 DEF InvOn, OnView

\* What a thread that holds the lock of a directory or file finds on the disk.
LEMMA Reads ==
  ASSUME NEW V \in Disks, NEW I, InvOn(V, I), NEW t \in Threads, HoldsCurr(pc[t]), ~Deleting(t)
  PROVE  /\ Curr(t) = V[local[t].curr]
         /\ \A b \in Own(V, local[t].curr) : disk[b] = V[b]
         /\ Entries(disk, local[t].curr) = Entries(V, local[t].curr)
         /\ \A e \in Entries(V, local[t].curr) : Direntry(disk, e) = Direntry(V, e)
<1>1. \A b \in Region(V, local[t].curr) : disk[b] = V[b]
  BY Agrees
<1>2. disk \in Disks /\ local[t].curr \in Blocks /\ IsInode(V[local[t].curr])
  BY Holder DEF InvOn, TypeInv
<1>3. local[t].curr \in Region(V, local[t].curr)
      /\ Own(V, local[t].curr) \subseteq Region(V, local[t].curr)
  BY DEF Region
<1> QED BY <1>1, <1>2, <1>3, SameRegion DEF Curr

-----------------------------------------------------------------------------
(* What a step of one thread has to show.                                   *)

Only(t) ==
  \A u \in Threads : u # t =>
    pc'[u] = pc[u] /\ request'[u] = request[u] /\ local'[u] = local[u]

\* A thread takes blocks of the disk only.
LEMMA TakenBlocks ==
  ASSUME NEW l \in Locals
  PROVE  Taken(l) \subseteq Blocks
<1>1. l.reserved \subseteq Blocks /\ l.frees \in Seq(Blocks)
  BY DEF Locals
<1>2. Range(l.frees) \subseteq Blocks
  BY <1>1, RangeQueue
<1> QED BY <1>1, <1>2 DEF Taken

\* Thread t may change what is free, in use and taken by itself as long as every
\* block stays one of them.
LEMMA AccountStep ==
  ASSUME TypeInv, TypeInv', NEW U, NEW U2, AccountOn(U), NEW t \in Threads, Only(t),
         IsInjective(local'[t].frees),
         \A b \in Blocks :
           /\ disk_block'[b] \/ b \in U2 \/ b \in Taken(local'[t])
                <=> disk_block[b] \/ b \in U \/ b \in Taken(local[t])
           /\ disk_block'[b] => b \notin U2
           /\ b \in Taken(local'[t]) => ~disk_block'[b] /\ b \notin U2
  PROVE  AccountOn(U2)'
<1>1. \A u \in Threads : Taken(local'[u]) \subseteq Blocks
  BY TakenBlocks DEF TypeInv
<1>2. \A u \in Threads : u # t => Taken(local'[u]) = Taken(local[u])
  BY DEF Only
<1>3. ASSUME NEW u \in Threads, NEW b \in Taken(local'[u]) PROVE ~disk_block'[b] /\ b \notin U2
  <2>1. b \in Blocks
    BY <1>1
  <2>2. CASE u = t
    BY <2>1, <2>2
  <2>3. CASE u # t
    BY <1>2, <2>1, <2>3 DEF AccountOn
  <2> QED BY <2>2, <2>3
<1>4. ASSUME NEW u \in Threads, NEW v \in Threads, u # v
      PROVE  Taken(local'[u]) \cap Taken(local'[v]) = {}
  <2> SUFFICES ASSUME NEW b \in Taken(local'[u]), b \in Taken(local'[v]) PROVE FALSE
    OBVIOUS
  <2>1. b \in Blocks
    BY <1>1
  <2>2. CASE u = t
    BY <1>2, <1>4, <2>1, <2>2 DEF AccountOn
  <2>3. CASE v = t
    BY <1>2, <1>4, <2>1, <2>3 DEF AccountOn
  <2>4. CASE u # t /\ v # t
    BY <1>2, <1>4, <2>4 DEF AccountOn
  <2> QED BY <2>2, <2>3, <2>4
<1>5. \A u \in Threads : IsInjective(local'[u].frees)
  BY DEF Only, AccountOn
<1>6. ASSUME NEW b \in Blocks
      PROVE  disk_block'[b] \/ b \in U2 \/ \E u \in Threads : b \in Taken(local'[u])
  BY <1>2 DEF AccountOn
<1> QED BY <1>3, <1>4, <1>5, <1>6 DEF AccountOn

\* The step leaves thread t with the locks of H, of which none was taken.
LocksGo(t, H) ==
  \A b \in Blocks :
    IF b \in H
    THEN disk_block_lock[b] \in {None, t} /\ disk_block_lock'[b] = t
    ELSE disk_block_lock'[b] = IF disk_block_lock[b] = t THEN None ELSE disk_block_lock[b]

\* Thread t takes only locks that were not taken.
LEMMA LocksStep ==
  ASSUME TypeInv, TypeInv', LocksInv, NEW t \in Threads, Only(t),
         LocksGo(t, HeldBy(pc'[t], request'[t], local'[t]))
  PROVE  LocksInv'
<1> SUFFICES ASSUME NEW u \in Threads, NEW b \in Blocks
             PROVE  disk_block_lock'[b] = u <=> b \in HeldBy(pc'[u], request'[u], local'[u])
  BY DEF LocksInv
<1>1. t # None /\ u # None
  BY NoneAssumption
<1>2. CASE u = t
  BY <1>1, <1>2 DEF LocksGo
<1>3. CASE u # t
  <2>1. disk_block_lock[b] = u <=> b \in HeldBy(pc'[u], request'[u], local'[u])
    BY <1>3 DEF LocksInv, Only
  <2> QED BY <1>1, <1>3, <2>1 DEF LocksGo
<1> QED BY <1>2, <1>3

\* A step of thread t after which W and J explain the state.
LEMMA StepKeeps ==
  ASSUME NEW V \in Disks, NEW I \in SUBSET Blocks, InvOn(V, I), NEW t \in Threads, Only(t),
         TypeInv', NEW W \in Disks, NEW J \in SUBSET Blocks, TreeOn(W, J), OnView(W)',
         \A u \in Threads : u # t /\ HoldsCurr(pc[u]) =>
           /\ local[u].curr \in J
           /\ \A b \in Region(V, local[u].curr) \cup local[u].reserved : W[b] = V[b],
         ThreadInv(W, J, pc'[t], request'[t], local'[t]),
         LocksInv', AccountOn(J \cup BlocksOn(W, J))'
  PROVE  Inv'
<1>1. ASSUME NEW u \in Threads PROVE ThreadInv(W, J, pc'[u], request'[u], local'[u])
  <2>1. CASE u = t
    BY <2>1
  <2>2. CASE u # t
    <3>1. local[u] \in Locals /\ ThreadInv(V, I, pc[u], request[u], local[u])
      BY DEF InvOn, TypeInv
    <3>2. HoldsCurr(pc[u]) => IsInode(V[local[u].curr])
      BY Holder
    <3>3. ThreadInv(W, J, pc[u], request[u], local[u])
      BY <2>2, <3>1, <3>2, SameThread
    <3> QED BY <2>2, <3>3 DEF Only
  <2> QED BY <2>1, <2>2
<1>2. InvOn(W, J)'
  BY <1>1 DEF InvOn
<1> QED BY <1>2 DEF Inv

\* Thread t goes on to p with local variables l.
Moves(t, p, l) ==
  /\ pc' = [pc EXCEPT ![t] = p] /\ local' = [local EXCEPT ![t] = l]
  /\ UNCHANGED <<request, reply, crashes>>

Running == Places \ {"idle", "done"}

LockTypes == [Blocks -> Threads \cup {None}]

\* What such a step leaves as it was.
LEMMA MoveTyped ==
  ASSUME TypeInv, NEW t \in Threads, NEW p \in Running, NEW l \in Locals, Moves(t, p, l),
         pc[t] \in Running, disk' \in Disks, disk_block' \in [Blocks -> BOOLEAN],
         disk_block_lock' \in LockTypes
  PROVE  /\ TypeInv' /\ Only(t)
         /\ pc'[t] = p /\ local'[t] = l /\ request'[t] = request[t]
<1>1. pc'[t] = p /\ local'[t] = l /\ request'[t] = request[t] /\ Only(t)
  BY DEF Moves, TypeInv, Only
<1>2. /\ pc' \in [Threads -> Places] /\ local' \in [Threads -> Locals]
      /\ request' \in [Threads -> Requests \cup {None}]
      /\ reply' \in [Threads -> Answers \cup {None}] /\ crashes' \in 0 .. MaxCrashes
  BY DEF Moves, TypeInv, Running
<1>3. ASSUME NEW u \in Threads
      PROVE  /\ request'[u] = None <=> pc'[u] \in {"idle", "done"}
             /\ reply'[u] = None <=> pc'[u] # "done"
  <2>1. reply'[u] = reply[u]
    BY DEF Moves
  <2>2. CASE u = t
    BY <1>1, <2>1, <2>2 DEF TypeInv, Running
  <2>3. CASE u # t
    BY <1>1, <2>1, <2>3 DEF TypeInv, Only
  <2> QED BY <2>2, <2>3
<1> QED BY <1>1, <1>2, <1>3 DEF TypeInv, LockTypes

\* A thread that runs nothing has local variables too.
LEMMA NoLocalsTyped == NoLocals \in Locals
BY BlockZero DEF NoLocals, Locals

\* The thread comes to its end.
LEMMA ReturnTyped ==
  ASSUME TypeInv, NEW t \in Threads, NEW answer \in Answers, Return(t, answer),
         disk' \in Disks, disk_block' \in [Blocks -> BOOLEAN]
  PROVE  /\ TypeInv' /\ Only(t)
         /\ pc'[t] = "done" /\ local'[t] = NoLocals /\ request'[t] = None
<1>1. NoLocals \in Locals
  BY NoLocalsTyped
<1>2. /\ pc'[t] = "done" /\ local'[t] = NoLocals /\ request'[t] = None /\ reply'[t] = answer
      /\ Only(t)
      /\ \A u \in Threads : u # t => reply'[u] = reply[u]
  BY DEF Return, TypeInv, Only
<1>3. /\ pc' \in [Threads -> Places] /\ local' \in [Threads -> Locals]
      /\ request' \in [Threads -> Requests \cup {None}]
      /\ reply' \in [Threads -> Answers \cup {None}] /\ crashes' \in 0 .. MaxCrashes
  BY <1>1 DEF Return, TypeInv, Places
<1>4. disk_block_lock' \in [Blocks -> Threads \cup {None}]
  BY DEF Return, TypeInv, Unlocked
<1>5. answer # None
  BY NoneAssumption DEF Answers
<1>6. ASSUME NEW u \in Threads
      PROVE  /\ request'[u] = None <=> pc'[u] \in {"idle", "done"}
             /\ reply'[u] = None <=> pc'[u] # "done"
  <2>1. CASE u = t
    BY <1>2, <1>5, <2>1
  <2>2. CASE u # t
    BY <1>2, <2>2 DEF TypeInv, Only
  <2> QED BY <2>1, <2>2
<1> QED BY <1>2, <1>3, <1>4, <1>6 DEF TypeInv

\* ... and has no lock then.
LEMMA ReturnLocks ==
  ASSUME TypeInv, TypeInv', LocksInv, NEW t \in Threads, Only(t),
         disk_block_lock' = Unlocked(t), ~HoldsCurr(pc'[t])
  PROVE  LocksInv'
<1>1. HeldBy(pc'[t], request'[t], local'[t]) = {}
  BY DEF HeldBy, HoldsCurr, HoldsNext
<1>2. \A b \in Blocks :
        disk_block_lock'[b] = IF disk_block_lock[b] = t THEN None ELSE disk_block_lock[b]
  BY DEF Unlocked
<1> QED BY <1>1, <1>2, LocksStep DEF LocksGo

\* The tree is seen as before when the disk and the deletes are as before.
LEMMA SameView ==
  ASSUME NEW V \in Disks, OnView(V), NEW t \in Threads, Only(t), disk' = disk,
         Deleting(t)' <=> Deleting(t),
         Deleting(t) => local'[t].writes = local[t].writes
  PROVE  OnView(V)'
<1>1. \A u \in Threads : \A b : Removes(u, b)' <=> Removes(u, b)
  <2> SUFFICES ASSUME NEW u \in Threads, NEW b PROVE Removes(u, b)' <=> Removes(u, b)
    OBVIOUS
  <2>1. CASE u = t
    BY <2>1 DEF Removes
  <2>2. CASE u # t
    BY <2>2 DEF Removes, Deleting, Only
  <2> QED BY <2>1, <2>2
<1>2. \A u \in Threads : \A b : Removes(u, b) => local'[u].writes = local[u].writes
  BY DEF Removes, Only
<1> QED BY <1>1, <1>2 DEF OnView

\* A step of thread t that writes no block of the disk.
LEMMA MoveStep ==
  ASSUME NEW V \in Disks, NEW I \in SUBSET Blocks, InvOn(V, I), NEW t \in Threads,
         NEW p \in Running, NEW l \in Locals, Moves(t, p, l), pc[t] \in Running,
         UNCHANGED disk, disk_block' \in [Blocks -> BOOLEAN], disk_block_lock' \in LockTypes,
         request[t].type = "DELETE" =>
           /\ p \in {"free", "write"} <=> pc[t] \in {"free", "write"}
           /\ p \in {"free", "write"} => l.writes = local[t].writes,
         ThreadInv(V, I, p, request[t], l),
         LocksGo(t, HeldBy(p, request[t], l)),
         IsInjective(l.frees),
         \A b \in Blocks :
           /\ disk_block'[b] \/ b \in Taken(l) <=> disk_block[b] \/ b \in Taken(local[t])
           /\ b \in Taken(l) => ~disk_block'[b]
  PROVE  Inv'
<1>1. /\ TypeInv' /\ Only(t)
      /\ pc'[t] = p /\ local'[t] = l /\ request'[t] = request[t]
  BY MoveTyped DEF InvOn, TypeInv
<1>2. OnView(V)'
  <2>1. Deleting(t)' <=> Deleting(t)
    BY <1>1 DEF Deleting
  <2>2. Deleting(t) => local'[t].writes = local[t].writes
    BY <1>1, <2>1 DEF Deleting
  <2> QED BY <1>1, <2>1, <2>2, SameView DEF InvOn
<1>3. LocksInv'
  BY <1>1, LocksStep DEF InvOn
<1>4. AccountOn(I \cup BlocksOn(V, I))'
  <2>1. PICK U : U = I \cup BlocksOn(V, I)
    OBVIOUS
  <2>2. AccountOn(U)
    BY <2>1 DEF InvOn
  <2>3. \A b \in Blocks :
          /\ disk_block[b] => b \notin U
          /\ b \in Taken(local[t]) => b \notin U
    BY <2>2 DEF AccountOn
  <2>4. \A b \in Blocks :
           /\ disk_block'[b] \/ b \in U \/ b \in Taken(local'[t])
                <=> disk_block[b] \/ b \in U \/ b \in Taken(local[t])
           /\ disk_block'[b] => b \notin U
           /\ b \in Taken(local'[t]) => ~disk_block'[b] /\ b \notin U
    BY <1>1, <2>3
  <2>5. TypeInv /\ IsInjective(local'[t].frees)
    BY <1>1 DEF InvOn
  <2>6. AccountOn(U)'
    BY <1>1, <2>2, <2>4, <2>5, AccountStep
  <2> QED BY <2>1, <2>6
<1>5. TreeOn(V, I) /\ \A u \in Threads : HoldsCurr(pc[u]) => local[u].curr \in I
  BY Holder DEF InvOn
<1> QED BY <1>1, <1>2, <1>3, <1>4, <1>5, StepKeeps

\* A thread that has begun no delete ends, and its blocks are free again.
LEMMA Returns ==
  ASSUME NEW V \in Disks, NEW I \in SUBSET Blocks, InvOn(V, I), NEW t \in Threads,
         NEW answer \in Answers, Return(t, answer), ~Deleting(t),
         UNCHANGED disk, disk_block' \in [Blocks -> BOOLEAN],
         \A b \in Blocks : disk_block'[b] <=> disk_block[b] \/ b \in Taken(local[t])
  PROVE  Inv'
<1>1. /\ TypeInv' /\ Only(t)
      /\ pc'[t] = "done" /\ local'[t] = NoLocals /\ request'[t] = None
  BY ReturnTyped DEF InvOn, TypeInv
<1>2. OnView(V)'
  <2>1. Deleting(t)' <=> Deleting(t)
    BY <1>1 DEF Deleting
  <2> QED BY <1>1, <2>1, SameView DEF InvOn
<1>3. LocksInv'
  BY <1>1, ReturnLocks DEF InvOn, HoldsCurr, Return
<1>4. Taken(local'[t]) = {} /\ IsInjective(local'[t].frees)
  BY <1>1, EmptyQueue DEF NoLocals, Taken
<1>5. AccountOn(I \cup BlocksOn(V, I))'
  <2>1. PICK U : U = I \cup BlocksOn(V, I)
    OBVIOUS
  <2>2. AccountOn(U)
    BY <2>1 DEF InvOn
  <2>3. \A b \in Blocks :
          /\ disk_block[b] => b \notin U
          /\ b \in Taken(local[t]) => b \notin U
    BY <2>2 DEF AccountOn
  <2>4. \A b \in Blocks :
           /\ disk_block'[b] \/ b \in U \/ b \in Taken(local'[t])
                <=> disk_block[b] \/ b \in U \/ b \in Taken(local[t])
           /\ disk_block'[b] => b \notin U
           /\ b \in Taken(local'[t]) => ~disk_block'[b] /\ b \notin U
    BY <1>4, <2>3
  <2>5. TypeInv
    BY DEF InvOn
  <2>6. AccountOn(U)'
    BY <1>1, <1>4, <2>2, <2>4, <2>5, AccountStep
  <2> QED BY <2>1, <2>6
<1>6. TreeOn(V, I) /\ \A u \in Threads : HoldsCurr(pc[u]) => local[u].curr \in I
  BY Holder DEF InvOn
<1>7. ThreadInv(V, I, pc'[t], request'[t], local'[t])
  BY <1>1 DEF ThreadInv, HoldsCurr
<1> QED BY <1>1, <1>2, <1>3, <1>5, <1>6, <1>7, StepKeeps

\* What a client learns.
LEMMA AnswerTyped ==
  /\ Failure \in Answers /\ Success("") \in Answers
  /\ \A x \in STRING : Success(x) \in Answers
<1>1. TRUE \in BOOLEAN /\ FALSE \in BOOLEAN
  BY Zenon
<1>2. \A x \in BOOLEAN : \A y \in {""} \cup STRING : [ok |-> x, data |-> y] \in Answers
  BY DEF Answers
<1> QED BY <1>1, <1>2, Zenon DEF Failure, Success

\* The places from which a helper throws.
Throwing == {"reserve", "lock_root", "lookup", "lock_next", "attempt", "lock_victim"}

\* A SysError is thrown before a block is written.
LEMMA Throws ==
  ASSUME NEW V \in Disks, NEW I \in SUBSET Blocks, InvOn(V, I), NEW t \in Threads,
         pc[t] \in Throwing, Throw(t)
  PROVE  Inv'
<1>1. /\ TypeInv /\ ThreadInv(V, I, pc[t], request[t], local[t]) /\ local[t] \in Locals
      /\ disk_block' = disk_block /\ disk' = disk /\ pc[t] \in Running
  BY DEF InvOn, TypeInv, Throw, Throwing, Running, Places
<1>2. local[t].frees = <<>> /\ Taken(local[t]) = local[t].reserved /\ ~Deleting(t)
  <2>1. local[t].frees = <<>>
    BY <1>1 DEF ThreadInv, Throwing, NoLocals
  <2> QED BY <2>1, EmptyQueue DEF Taken, Deleting, Throwing
<1>3. CASE local[t].reserved = {}
  <2>1. PICK answer \in Answers : answer = Failure
    BY AnswerTyped
  <2>2. Return(t, answer)
    BY <1>3, <2>1 DEF Throw
  <2>3. /\ disk_block' \in [Blocks -> BOOLEAN]
        /\ \A b \in Blocks : disk_block'[b] <=> disk_block[b] \/ b \in Taken(local[t])
    BY <1>1, <1>2, <1>3 DEF TypeInv
  <2> QED BY <1>1, <1>2, <2>2, <2>3, Returns
<1>4. CASE local[t].reserved # {}
  <2>1. PICK l \in Locals : l = [NoLocals EXCEPT !.reserved = local[t].reserved]
    <3>1. /\ local[t].reserved \in SUBSET Blocks /\ 0 \in Blocks
          /\ <<>> \in Seq(STRING) /\ <<>> \in Seq(Blocks) /\ <<>> \in Seq(Blocks \X Contents)
      BY <1>1, BlockZero DEF Locals
    <3> QED BY <3>1 DEF Locals, NoLocals
  <2>2. l.reserved = local[t].reserved /\ l.frees = <<>> /\ l.writes = <<>>
    BY <2>1 DEF NoLocals
  <2>3. Moves(t, "unreserve", l)
    BY <1>4, <2>1 DEF Throw, Moves
  <2>4. request[t].type = "CREATE" /\ \E f \in Blocks : local[t].reserved = {f}
    BY <1>1, <1>4 DEF ThreadInv, Throwing, NoLocals
  <2>5. ThreadInv(V, I, "unreserve", request[t], l)
    BY <2>1, <2>2, <2>4 DEF ThreadInv, HoldsCurr
  <2>6. IsInjective(l.frees) /\ Taken(l) = Taken(local[t])
    BY <1>2, <2>2, EmptyQueue DEF Taken
  <2>7. \A b \in Taken(local[t]) : ~disk_block[b]
    BY DEF InvOn, AccountOn
  <2>8. HeldBy("unreserve", request[t], l) = {}
    BY DEF HeldBy, HoldsCurr, HoldsNext
  <2>9. /\ disk_block_lock' \in LockTypes
        /\ \A b \in Blocks :
             disk_block_lock'[b] = IF disk_block_lock[b] = t THEN None ELSE disk_block_lock[b]
    BY <1>1, <1>4 DEF Throw, Unlocked, TypeInv, LockTypes
  <2>10. "unreserve" \in Running /\ disk_block' \in [Blocks -> BOOLEAN]
    BY <1>1 DEF Running, Places, TypeInv
  <2>11. LocksGo(t, HeldBy("unreserve", request[t], l))
    BY <2>8, <2>9 DEF LocksGo
  <2>12. \A b \in Blocks :
           /\ disk_block'[b] \/ b \in Taken(l) <=> disk_block[b] \/ b \in Taken(local[t])
           /\ b \in Taken(l) => ~disk_block'[b]
    BY <1>1, <2>6, <2>7
  <2> QED BY <1>1, <2>3, <2>4, <2>5, <2>6, <2>9, <2>10, <2>11, <2>12, MoveStep
<1> QED BY <1>3, <1>4

-----------------------------------------------------------------------------
(* The server starts, and starts again after a crash.                       *)

\* Nothing runs, and the free blocks are those the tree on the disk does not use.
Fresh ==
  /\ TypeInv /\ IsTree(disk)
  /\ disk_block = Filesystem_init(disk)
  /\ disk_block_lock = [b \in Blocks |-> None]
  /\ \A t \in Threads : pc[t] \in {"idle", "done"} /\ request[t] = None /\ local[t] = NoLocals

\* The invariant holds then, ...
LEMMA FreshInv == Fresh => Inv
<1> SUFFICES ASSUME Fresh PROVE Inv
  OBVIOUS
<1>1. PICK V \in Disks : V = disk
  BY DEF Fresh, TypeInv
<1>2. PICK I : I = Inodes(V)
  OBVIOUS
<1>3. I \in SUBSET Blocks /\ TreeOn(V, I) /\ UsedBlocks(V) = I \cup BlocksOn(V, I)
  BY <1>1, <1>2, InodesLeast, TreeIsOn, UsedDef DEF Fresh
<1>4. OnView(V)
  <2>1. \A t \in Threads : ~Deleting(t)
    BY DEF Fresh, Deleting
  <2> QED BY <1>1, <2>1 DEF OnView, Removes
<1>5. ASSUME NEW t \in Threads PROVE ThreadInv(V, I, pc[t], request[t], local[t])
  BY DEF Fresh, ThreadInv, HoldsCurr
<1>6. LocksInv
  <2> SUFFICES ASSUME NEW t \in Threads, NEW b \in Blocks
               PROVE  disk_block_lock[b] # t /\ b \notin HeldBy(pc[t], request[t], local[t])
    BY DEF LocksInv
  <2>1. disk_block_lock[b] = None /\ t # None
    BY NoneAssumption DEF Fresh
  <2> QED BY <2>1 DEF Fresh, HeldBy, HoldsCurr, HoldsNext
<1>7. AccountOn(I \cup BlocksOn(V, I))
  <2>1. PICK U : U = I \cup BlocksOn(V, I)
    OBVIOUS
  <2>2. \A t \in Threads : Taken(local[t]) = {} /\ IsInjective(local[t].frees)
    BY EmptyQueue DEF Fresh, NoLocals, Taken
  <2>3. \A b \in Blocks : disk_block[b] <=> b \notin U
    BY <1>1, <1>3, <2>1 DEF Fresh, Filesystem_init
  <2>4. AccountOn(U)
    BY <2>2, <2>3 DEF AccountOn
  <2> QED BY <2>1, <2>4
<1>8. InvOn(V, I)
  BY <1>3, <1>4, <1>5, <1>6, <1>7 DEF InvOn, Fresh
<1> QED BY <1>3, <1>8 DEF Inv

\* ... also when then is the next state.
LEMMA FreshNext == Fresh' => Inv'
BY FreshInv, PTL

\* main starts on an intact disk.
LEMMA InitInv == Init => Inv
<1> SUFFICES ASSUME Init PROVE Inv
  OBVIOUS
<1>1. disk \in Disks /\ IsTree(disk)
  BY InitialDisksAssumption DEF Init, Disks
<1>2. NoLocals \in Locals
  BY NoLocalsTyped
<1>3. Filesystem_init(disk) \in [Blocks -> BOOLEAN]
  BY DEF Filesystem_init
<1>4. 0 \in 0 .. MaxCrashes
  BY SizesAssumption
<1>5. TypeInv
  BY <1>1, <1>2, <1>3, <1>4 DEF TypeInv, Init, Places
<1>6. Fresh
  BY <1>1, <1>5 DEF Fresh, Init
<1> QED BY <1>6, FreshInv

\* A crash with no delete under way leaves an intact disk.
LEMMA CrashStep ==
  ASSUME ~CrashesTearDeletes, Inv, Crash
  PROVE  Inv'
<1>1. PICK V \in Disks, I \in SUBSET Blocks : InvOn(V, I)
  BY DEF Inv
<1>2. \A t \in Threads : ~Deleting(t)
  BY DEF Crash
<1>3. V = disk
  <2>1. \A b \in Blocks : V[b] = disk[b]
    BY <1>1, <1>2 DEF InvOn, OnView, Removes
  <2> QED BY <1>1, <2>1 DEF InvOn, TypeInv, Disks
<1>4. IsTree(disk)
  BY <1>1, <1>3, OnIsTree DEF InvOn
<1>5. TypeInv
  BY <1>1 DEF InvOn
<1>6. /\ disk' \in Disks /\ IsTree(disk')
      /\ disk_block' = Filesystem_init(disk') /\ disk_block' \in [Blocks -> BOOLEAN]
  BY <1>4, <1>5 DEF Crash, Filesystem_init, TypeInv
<1>7. NoLocals \in Locals
  BY NoLocalsTyped
<1>8. Failure \in Answers
  BY AnswerTyped
<1>9. crashes' \in 0 .. MaxCrashes
  BY <1>5, SizesAssumption DEF Crash, TypeInv
<1>10. \A t \in Threads : /\ pc'[t] \in {"idle", "done"} /\ request'[t] = None
                          /\ local'[t] = NoLocals
                          /\ reply'[t] = None <=> pc'[t] # "done"
  <2>1. Failure # None
    BY <1>8, NoneAssumption DEF Answers
  <2> QED BY <1>5, <2>1 DEF Crash, TypeInv
<1>11. /\ pc' \in [Threads -> Places] /\ request' \in [Threads -> Requests \cup {None}]
       /\ local' \in [Threads -> Locals] /\ reply' \in [Threads -> Answers \cup {None}]
       /\ disk_block_lock' \in [Blocks -> Threads \cup {None}]
  BY <1>5, <1>7, <1>8 DEF Crash, TypeInv, Places
<1>12. TypeInv'
  BY <1>6, <1>9, <1>10, <1>11 DEF TypeInv
<1>13. Fresh'
  BY <1>6, <1>10, <1>12 DEF Fresh, Crash
<1> QED BY <1>13, FreshNext

-----------------------------------------------------------------------------
(* The steps of a thread that write no block, one by one.                   *)

\* Check_Valid_Request has let the request of a thread that runs pass.
LEMMA RequestTyped ==
  ASSUME TypeInv, NEW t \in Threads, pc[t] \in Running
  PROVE  /\ request[t] \in Requests
         /\ request[t].type \in {"READ", "WRITE", "CREATE", "DELETE"}
         /\ request[t].username \in STRING /\ request[t].data \in STRING
         /\ request[t].block \in Nat
         /\ request[t].type = "CREATE" => request[t].inode_type \in {"f", "d"}
         /\ Last(request[t].pathname) \in STRING
         /\ TargetPath(request[t]) \in Seq(STRING)
<1>1. request[t] \in Requests
  BY DEF TypeInv, Running
<1>2. PICK r \in Requests : r = request[t]
  BY <1>1
<1>3. /\ r.type \in {"READ", "WRITE", "CREATE", "DELETE"}
      /\ r.username \in STRING /\ r.data \in STRING /\ r.block \in Nat
      /\ r.type = "CREATE" => r.inode_type \in {"f", "d"}
      /\ r.pathname \in Seq(STRING) /\ r.pathname # <<>>
  BY RequestsAssumption
<1>4. PICK q \in Seq(STRING) : q = r.pathname
  BY <1>3
<1>5. Last(q) \in STRING /\ Front(q) \in Seq(STRING)
  <2>1. Len(q) \in Nat /\ Len(q) # 0
    BY <1>3, <1>4
  <2> QED BY <2>1 DEF Last, Front
<1> QED BY <1>1, <1>2, <1>3, <1>4, <1>5 DEF TargetPath

\* accept.
LEMMA ReceiveStep ==
  ASSUME NEW V \in Disks, NEW I \in SUBSET Blocks, InvOn(V, I), NEW t \in Threads,
         NEW r \in Requests, Receive(t, r)
  PROVE  Inv'
<1>1. TypeInv /\ local[t] = NoLocals /\ pc[t] = "idle" /\ request[t] = None
  BY DEF InvOn, TypeInv, ThreadInv, Receive
<1>2. r # None
  BY NoneAssumption
<1>3. /\ pc'[t] = (IF r.type = "CREATE" THEN "reserve" ELSE "lock_root") /\ request'[t] = r
      /\ local' = local /\ disk' = disk /\ disk_block' = disk_block /\ reply' = reply
      /\ disk_block_lock' = disk_block_lock /\ crashes' = crashes
      /\ Only(t)
  BY <1>1 DEF Receive, TypeInv, Only
<1>4. TypeInv'
  <2>1. pc' \in [Threads -> Places] /\ request' \in [Threads -> Requests \cup {None}]
    BY <1>1 DEF Receive, TypeInv, Places
  <2>2. ASSUME NEW u \in Threads
        PROVE  /\ request'[u] = None <=> pc'[u] \in {"idle", "done"}
               /\ reply'[u] = None <=> pc'[u] # "done"
    <3>1. CASE u = t
      BY <1>1, <1>2, <1>3, <3>1 DEF TypeInv
    <3>2. CASE u # t
      BY <1>1, <1>3, <3>2 DEF TypeInv, Only
    <3> QED BY <3>1, <3>2
  <2> QED BY <1>1, <1>3, <2>1, <2>2 DEF TypeInv
<1>5. OnView(V)'
  <2>1. ~Deleting(t) /\ ~Deleting(t)'
    BY <1>1, <1>3 DEF Deleting
  <2> QED BY <1>3, <2>1, SameView DEF InvOn
<1>6. LocksInv'
  <2>1. \A u \in Threads :
          HeldBy(pc'[u], request'[u], local'[u]) = HeldBy(pc[u], request[u], local[u])
    <3> SUFFICES ASSUME NEW u \in Threads
                 PROVE  HeldBy(pc'[u], request'[u], local'[u]) = HeldBy(pc[u], request[u], local[u])
      OBVIOUS
    <3>1. CASE u = t
      BY <1>1, <1>3, <3>1 DEF HeldBy, HoldsCurr, HoldsNext
    <3>2. CASE u # t
      BY <1>3, <3>2 DEF Only
    <3> QED BY <3>1, <3>2
  <2> QED BY <1>3, <2>1 DEF InvOn, LocksInv
<1>7. AccountOn(I \cup BlocksOn(V, I))'
  BY <1>3 DEF InvOn, AccountOn
<1>8. ThreadInv(V, I, pc'[t], request'[t], local'[t])
  BY <1>1, <1>3, EmptyQueue DEF ThreadInv, HoldsCurr, NoLocals
<1>9. TreeOn(V, I) /\ \A u \in Threads : HoldsCurr(pc[u]) => local[u].curr \in I
  BY Holder DEF InvOn
<1> QED BY <1>3, <1>4, <1>5, <1>6, <1>7, <1>8, <1>9, StepKeeps

\* Find_free_disk_block finds a free block if there is one.
LEMMA FreeBlock ==
  ASSUME TypeInv, FreeBlocks # {}
  PROVE  Find_free_disk_block \in Blocks /\ disk_block[Find_free_disk_block] = TRUE
<1>1. FreeBlocks \in SUBSET Nat
  BY SizesAssumption DEF FreeBlocks, Blocks
<1>2. \E b \in FreeBlocks : \A c \in FreeBlocks : b <= c
  BY <1>1, LeastElement
<1>3. Find_free_disk_block \in FreeBlocks
  BY <1>2 DEF Find_free_disk_block
<1> QED BY <1>3 DEF FreeBlocks, TypeInv

\* Find_free_disk_block in Create_helper.
LEMMA ReserveStep ==
  ASSUME NEW V \in Disks, NEW I \in SUBSET Blocks, InvOn(V, I), NEW t \in Threads, Reserve(t)
  PROVE  Inv'
<1>1. /\ TypeInv /\ local[t] = NoLocals /\ pc[t] = "reserve" /\ request[t].type = "CREATE"
  BY DEF InvOn, ThreadInv, Reserve
<1>2. CASE Throw(t)
  BY <1>1, <1>2, Throws DEF Throwing
<1>3. CASE /\ FreeBlocks # {}
           /\ disk_block' = [disk_block EXCEPT ![Find_free_disk_block] = FALSE]
           /\ local' = [local EXCEPT ![t].reserved = {Find_free_disk_block}]
           /\ Go(t, "lock_root")
           /\ UNCHANGED <<disk, disk_block_lock>>
  <2>1. PICK f \in Blocks : f = Find_free_disk_block /\ disk_block[f] = TRUE
    BY <1>1, <1>3, FreeBlock
  <2>2. PICK l \in Locals : l = [NoLocals EXCEPT !.reserved = {f}]
    BY NoLocalsTyped DEF Locals
  <2>3. l.reserved = {f} /\ l.frees = <<>> /\ l.writes = <<>>
    BY <2>2 DEF NoLocals
  <2>4. Moves(t, "lock_root", l)
    BY <1>1, <1>3, <2>1, <2>2 DEF Moves, Go
  <2>5. ThreadInv(V, I, "lock_root", request[t], l)
    BY <1>1, <2>2, <2>3 DEF ThreadInv, HoldsCurr
  <2>6. /\ disk_block' \in [Blocks -> BOOLEAN]
        /\ disk_block'[f] = FALSE /\ \A b \in Blocks : b # f => disk_block'[b] = disk_block[b]
    BY <1>1, <1>3, <2>1 DEF TypeInv
  <2>7. IsInjective(l.frees) /\ Taken(l) = {f} /\ Taken(local[t]) = {}
    BY <1>1, <2>3, EmptyQueue DEF Taken, NoLocals
  <2>8. \A b \in Blocks :
          /\ disk_block'[b] \/ b \in Taken(l) <=> disk_block[b] \/ b \in Taken(local[t])
          /\ b \in Taken(l) => ~disk_block'[b]
    BY <2>1, <2>6, <2>7
  <2>9. HeldBy("lock_root", request[t], l) = {} /\ \A b \in Blocks : disk_block_lock[b] # t
    <3>1. \A b \in Blocks : b \notin HeldBy(pc[t], request[t], local[t])
      BY <1>1 DEF HeldBy, HoldsCurr, HoldsNext
    <3> QED BY <3>1 DEF HeldBy, HoldsCurr, HoldsNext, InvOn, LocksInv
  <2>10. /\ "lock_root" \in Running /\ pc[t] \in Running
         /\ disk_block_lock' \in LockTypes /\ disk_block_lock' = disk_block_lock /\ disk' = disk
    BY <1>1, <1>3 DEF Running, Places, LockTypes, TypeInv
  <2>11. LocksGo(t, HeldBy("lock_root", request[t], l))
    BY <2>9, <2>10 DEF LocksGo
  <2> QED BY <1>1, <2>4, <2>5, <2>6, <2>7, <2>8, <2>10, <2>11, MoveStep
<1> QED BY <1>2, <1>3 DEF Reserve

\* A step that also leaves the thread the blocks it has taken.
LEMMA QuietMove ==
  ASSUME NEW V \in Disks, NEW I \in SUBSET Blocks, InvOn(V, I), NEW t \in Threads,
         NEW p \in Running, NEW l \in Locals, Moves(t, p, l), pc[t] \in Running,
         UNCHANGED <<disk, disk_block>>, disk_block_lock' \in LockTypes,
         l.reserved = local[t].reserved, l.frees = local[t].frees,
         request[t].type = "DELETE" =>
           /\ p \in {"free", "write"} <=> pc[t] \in {"free", "write"}
           /\ p \in {"free", "write"} => l.writes = local[t].writes,
         ThreadInv(V, I, p, request[t], l),
         LocksGo(t, HeldBy(p, request[t], l))
  PROVE  Inv'
<1>1. Taken(l) = Taken(local[t])
  BY DEF Taken
<1>2. IsInjective(l.frees) /\ \A b \in Taken(l) : ~disk_block[b]
  BY <1>1 DEF InvOn, AccountOn
<1>3. disk_block' \in [Blocks -> BOOLEAN] /\ disk_block' = disk_block /\ disk' = disk
  BY DEF InvOn, TypeInv
<1>4. \A b \in Blocks :
        /\ disk_block'[b] \/ b \in Taken(l) <=> disk_block[b] \/ b \in Taken(local[t])
        /\ b \in Taken(l) => ~disk_block'[b]
  BY <1>1, <1>2, <1>3
<1> QED BY <1>2, <1>3, <1>4, MoveStep

\* No lock is taken or released.
LEMMA SameLocks ==
  ASSUME NEW V, NEW I, InvOn(V, I), NEW t \in Threads, disk_block_lock' = disk_block_lock,
         NEW H, H = HeldBy(pc[t], request[t], local[t])
  PROVE  /\ disk_block_lock' \in LockTypes
         /\ LocksGo(t, H)
BY DEF InvOn, TypeInv, LockTypes, LocksInv, LocksGo

\* A lock is taken.
LEMMA OneMoreLock ==
  ASSUME NEW V, NEW I, InvOn(V, I), NEW t \in Threads, NEW n \in Blocks,
         disk_block_lock[n] = None, disk_block_lock' = [disk_block_lock EXCEPT ![n] = t],
         NEW H, H = HeldBy(pc[t], request[t], local[t]) \cup {n}
  PROVE  /\ disk_block_lock' \in LockTypes
         /\ LocksGo(t, H)
BY DEF InvOn, TypeInv, LockTypes, LocksInv, LocksGo

\* The lock of the root.
LEMMA LockRootStep ==
  ASSUME NEW V \in Disks, NEW I \in SUBSET Blocks, InvOn(V, I), NEW t \in Threads, LockRoot(t)
  PROVE  Inv'
<1>1. /\ TypeInv /\ ThreadInv(V, I, "lock_root", request[t], local[t])
      /\ local[t] \in Locals /\ pc[t] = "lock_root" /\ pc[t] \in Running
  BY DEF InvOn, TypeInv, LockRoot, Running, Places
<1>2. CASE Throw(t)
  BY <1>1, <1>2, Throws DEF Throwing
<1>3. CASE /\ disk_block_lock[0] = None
           /\ disk_block_lock' = [disk_block_lock EXCEPT ![0] = t]
           /\ local' = [local EXCEPT ![t].path = TargetPath(request[t])]
           /\ Go(t, IF TargetPath(request[t]) = <<>> THEN "attempt" ELSE "lookup")
           /\ UNCHANGED <<disk, disk_block>>
  <2>1. PICK q \in Seq(STRING) : q = TargetPath(request[t])
    BY <1>1, RequestTyped
  <2>2. PICK l \in Locals : l = [local[t] EXCEPT !.path = q]
    BY <1>1 DEF Locals
  <2>3. /\ l.path = q /\ l.curr = local[t].curr /\ l.reserved = local[t].reserved
        /\ l.frees = local[t].frees /\ l.writes = local[t].writes
    BY <1>1, <2>2 DEF Locals
  <2>4. PICK p \in Running : p = IF q = <<>> THEN "attempt" ELSE "lookup"
    BY DEF Running, Places
  <2>5. Moves(t, p, l)
    BY <1>3, <2>1, <2>2, <2>4 DEF Moves, Go
  <2>6. local[t].curr = 0
    BY <1>1 DEF ThreadInv, NoLocals
  <2>7. 0 \in I /\ 0 \in Blocks
    BY BlockZero DEF InvOn, TreeOn, InodesOn
  <2>8. ThreadInv(V, I, p, request[t], l)
    BY <1>1, <2>3, <2>4, <2>6, <2>7 DEF ThreadInv
  <2>9. PICK H : H = HeldBy(p, request[t], l) /\ H = HeldBy(pc[t], request[t], local[t]) \cup {0}
    BY <1>1, <2>3, <2>4, <2>6 DEF HeldBy, HoldsCurr, HoldsNext
  <2>10. ~(p \in {"free", "write"}) /\ ~(pc[t] \in {"free", "write"})
    BY <1>1, <2>4
  <2>11. /\ disk_block_lock' \in LockTypes
         /\ LocksGo(t, H)
    BY <1>3, <2>7, <2>9, OneMoreLock
  <2> QED BY <1>1, <1>3, <2>3, <2>5, <2>8, <2>9, <2>10, <2>11, QuietMove
<1> QED BY <1>2, <1>3 DEF LockRoot

\* What Find finds.
LEMMA Found ==
  ASSUME NEW V \in Disks, NEW I, InvOn(V, I), NEW t \in Threads, HoldsCurr(pc[t]), ~Deleting(t),
         NEW nm, NEW e \in Find(t, nm), Curr(t).type = "d"
  PROVE  /\ Direntry(disk, e).inode_block \in Subinodes(V, local[t].curr)
         /\ Direntry(disk, e).inode_block \in Blocks
<1>1. /\ Curr(t) = V[local[t].curr]
      /\ Entries(disk, local[t].curr) = Entries(V, local[t].curr)
      /\ \A x \in Entries(V, local[t].curr) : Direntry(disk, x) = Direntry(V, x)
  BY Reads
<1>2. e \in Entries(V, local[t].curr)
  BY <1>1 DEF Find
<1>3. IsDirectory(V, local[t].curr)
  BY <1>1, Holder DEF IsDirectory
<1>4. Direntry(V, e).inode_block \in Subinodes(V, local[t].curr)
  BY <1>2, <1>3 DEF Subinodes
<1>5. Subinodes(V, local[t].curr) \subseteq Blocks
  BY Holder, InodeTyped
<1> QED BY <1>1, <1>2, <1>4, <1>5

\* The inode that Find has found is the next to lock.
LEMMA FoundNext ==
  ASSUME NEW V \in Disks, NEW I \in SUBSET Blocks, InvOn(V, I), NEW t \in Threads,
         pc[t] \in {"lookup", "attempt"}, Curr(t).type = "d", NEW nm, NEW e \in Find(t, nm),
         local' = [local EXCEPT ![t].next = Direntry(disk, e).inode_block],
         NEW p \in {"lock_next", "lock_victim"}, Go(t, p),
         UNCHANGED <<disk, disk_block, disk_block_lock>>,
         p = "lock_next" => pc[t] = "lookup",
         p = "lock_victim" => request[t].type = "DELETE"
  PROVE  Inv'
<1>1. /\ TypeInv /\ ThreadInv(V, I, pc[t], request[t], local[t])
      /\ local[t] \in Locals /\ pc[t] \in Running /\ HoldsCurr(pc[t]) /\ ~Deleting(t)
  BY DEF InvOn, TypeInv, Running, Places, HoldsCurr, Deleting
<1>2. PICK n \in Blocks : n = Direntry(disk, e).inode_block /\ n \in Subinodes(V, local[t].curr)
  BY <1>1, Found
<1>3. PICK l \in Locals : l = [local[t] EXCEPT !.next = n]
  BY <1>1 DEF Locals
<1>4. /\ l.next = n /\ l.curr = local[t].curr /\ l.path = local[t].path
      /\ l.reserved = local[t].reserved /\ l.frees = local[t].frees
      /\ l.writes = local[t].writes
  BY <1>1, <1>3 DEF Locals
<1>5. Moves(t, p, l)
  BY <1>2, <1>3 DEF Moves, Go
<1>6. ThreadInv(V, I, p, request[t], l)
  BY <1>1, <1>2, <1>4 DEF ThreadInv, HoldsCurr
<1>7. PICK H : H = HeldBy(p, request[t], l) /\ H = HeldBy(pc[t], request[t], local[t])
  BY <1>4 DEF HeldBy, HoldsCurr, HoldsNext
<1>8. disk_block_lock' \in LockTypes /\ LocksGo(t, H)
  BY <1>7, SameLocks
<1>9. p \in Running /\ ~(p \in {"free", "write"}) /\ ~(pc[t] \in {"free", "write"})
  BY DEF Running, Places
<1> QED BY <1>1, <1>4, <1>5, <1>6, <1>7, <1>8, <1>9, QuietMove

\* Find_target_inode looks a name up.
LEMMA LookupStep ==
  ASSUME NEW V \in Disks, NEW I \in SUBSET Blocks, InvOn(V, I), NEW t \in Threads, Lookup(t)
  PROVE  Inv'
<1>1. CASE Throw(t)
  BY <1>1, Throws DEF Throwing, Lookup
<1>2. CASE ~Throw(t)
  <2>1. PICK nm : nm = Head(local[t].path)
    OBVIOUS
  <2>2. /\ pc[t] = "lookup" /\ Curr(t).type = "d"
        /\ Go(t, "lock_next") /\ UNCHANGED <<disk, disk_block, disk_block_lock>>
        /\ \E e \in Find(t, nm) :
             local' = [local EXCEPT ![t].next = Direntry(disk, e).inode_block]
    BY <1>2, <2>1 DEF Lookup
  <2> QED BY <2>2, FoundNext
<1> QED BY <1>1, <1>2

\* Delete_helper looks the file up.
LEMMA DeleteFindStep ==
  ASSUME NEW V \in Disks, NEW I \in SUBSET Blocks, InvOn(V, I), NEW t \in Threads, Delete_find(t)
  PROVE  Inv'
<1>1. CASE Throw(t)
  BY <1>1, Throws DEF Throwing, Delete_find
<1>2. CASE ~Throw(t)
  <2>1. PICK nm : nm = Last(request[t].pathname)
    OBVIOUS
  <2>2. /\ pc[t] = "attempt" /\ request[t].type = "DELETE" /\ Curr(t).type = "d"
        /\ Go(t, "lock_victim") /\ UNCHANGED <<disk, disk_block, disk_block_lock>>
        /\ \E e \in Find(t, nm) :
             local' = [local EXCEPT ![t].next = Direntry(disk, e).inode_block]
    BY <1>2, <2>1 DEF Delete_find
  <2> QED BY <2>2, FoundNext
<1> QED BY <1>1, <1>2

\* The next inode is locked before the lock of its directory is released.
LEMMA LockNextStep ==
  ASSUME NEW V \in Disks, NEW I \in SUBSET Blocks, InvOn(V, I), NEW t \in Threads, LockNext(t)
  PROVE  Inv'
<1>1. /\ TypeInv /\ ThreadInv(V, I, "lock_next", request[t], local[t])
      /\ local[t] \in Locals /\ pc[t] = "lock_next" /\ pc[t] \in Running /\ HoldsCurr(pc[t])
  BY DEF InvOn, TypeInv, LockNext, Running, Places, HoldsCurr
<1>2. /\ local[t].curr \in I /\ IsInode(V[local[t].curr]) /\ local[t].curr \in Blocks
      /\ local[t].path # <<>> /\ local[t].path \in Seq(STRING)
      /\ local[t].next \in Subinodes(V, local[t].curr) /\ local[t].next \in Blocks
  BY <1>1, Holder DEF ThreadInv, Locals
<1>3. PICK l \in Locals :
        l = [local[t] EXCEPT !.curr = local[t].next, !.next = 0, !.path = Tail(@)]
  <2>1. Tail(local[t].path) \in Seq(STRING)
    BY <1>2, PopQueue
  <2> QED BY <1>1, <1>2, <2>1, BlockZero DEF Locals
<1>4. /\ l.curr = local[t].next /\ l.next = 0 /\ l.path = Tail(local[t].path)
      /\ l.reserved = local[t].reserved /\ l.frees = local[t].frees
      /\ l.writes = local[t].writes
  BY <1>1, <1>3 DEF Locals
<1>5. PICK p \in Running : p = IF Len(local[t].path) = 1 THEN "attempt" ELSE "lookup"
  BY DEF Running, Places
<1>6. Moves(t, p, l)
  <2>1. local' = [local EXCEPT ![t] = l]
    BY <1>1, <1>3 DEF LockNext, TypeInv
  <2> QED BY <1>5, <2>1 DEF Moves, Go, LockNext
<1>7. l.curr \in I
  <2>1. \E b \in Own(V, local[t].curr), k \in Slots :
          EntryAt(V, b, k) /\ local[t].next = Target(V, b, k)
    BY <1>2, ChildIff DEF InvOn, TreeOn
  <2> QED BY <1>2, <1>4, <2>1 DEF InvOn, TreeOn, EntriesOn
<1>8. p = "lookup" => l.path # <<>>
  <2>1. PICK q \in Seq(STRING) : q = local[t].path /\ q # <<>>
    BY <1>2
  <2>2. PICK s \in Seq(STRING) : s = Tail(q)
    BY <2>1, PopQueue
  <2>3. Len(q) # 1 => s # <<>>
    <3>1. /\ Len(q) \in Nat /\ Len(q) # 0 /\ Len(s) = Len(q) - 1
          /\ Len(s) = 0 <=> s = <<>>
      BY <2>1, <2>2, HeadTailProperties, LenProperties, EmptySeq
    <3> QED BY <3>1
  <2> QED BY <1>4, <1>5, <2>1, <2>2, <2>3
<1>9. ThreadInv(V, I, p, request[t], l)
  BY <1>1, <1>4, <1>5, <1>7, <1>8 DEF ThreadInv, HoldsCurr
<1>10. PICK H : H = HeldBy(p, request[t], l) /\ H = {local[t].next}
  BY <1>4, <1>5 DEF HeldBy, HoldsCurr, HoldsNext
<1>11. \A b \in Blocks : disk_block_lock[b] = t <=> b = local[t].curr
  BY <1>1 DEF InvOn, LocksInv, HeldBy, HoldsCurr, HoldsNext
<1>12. t # None
  BY NoneAssumption
<1>13. disk_block_lock' \in LockTypes /\ LocksGo(t, H)
  BY <1>1, <1>2, <1>10, <1>11, <1>12 DEF LockNext, LocksGo, TypeInv, LockTypes
<1>14. UNCHANGED <<disk, disk_block>>
  BY DEF LockNext
<1>15. ~(p \in {"free", "write"}) /\ ~(pc[t] \in {"free", "write"})
  BY <1>1, <1>5
<1> QED BY <1>1, <1>4, <1>6, <1>9, <1>10, <1>13, <1>14, <1>15, QuietMove

\* create_mutex.
LEMMA LockNewStep ==
  ASSUME NEW V \in Disks, NEW I \in SUBSET Blocks, InvOn(V, I), NEW t \in Threads, LockNew(t)
  PROVE  Inv'
<1>1. /\ TypeInv /\ ThreadInv(V, I, "lock_new", request[t], local[t])
      /\ local[t] \in Locals /\ pc[t] = "lock_new" /\ pc[t] \in Running /\ local[t].next \in Blocks
      /\ request[t].type = "CREATE" /\ "write" \in Running
  BY DEF InvOn, TypeInv, LockNew, Running, Places, ThreadInv, Locals
<1>2. Moves(t, "write", local[t])
  BY <1>1 DEF LockNew, Moves, Go, TypeInv
<1>3. ThreadInv(V, I, "write", request[t], local[t])
  BY <1>1 DEF ThreadInv, HoldsCurr
<1>4. PICK H : H = HeldBy("write", request[t], local[t])
               /\ H = HeldBy(pc[t], request[t], local[t]) \cup {local[t].next}
  BY <1>1 DEF HeldBy, HoldsCurr, HoldsNext
<1>5. disk_block_lock' \in LockTypes /\ LocksGo(t, H)
  BY <1>1, <1>4, OneMoreLock DEF LockNew
<1>6. UNCHANGED <<disk, disk_block>>
  BY DEF LockNew
<1> QED BY <1>1, <1>2, <1>3, <1>4, <1>5, <1>6, QuietMove

\* Read_helper.
LEMMA ReadBlockStep ==
  ASSUME NEW V \in Disks, NEW I \in SUBSET Blocks, InvOn(V, I), NEW t \in Threads, ReadBlock(t)
  PROVE  Inv'
<1>1. /\ TypeInv /\ ThreadInv(V, I, pc[t], request[t], local[t])
      /\ local[t] \in Locals /\ pc[t] = "attempt" /\ pc[t] \in Running /\ HoldsCurr(pc[t])
      /\ ~Deleting(t) /\ request[t].type = "READ" /\ request[t].block \in Nat
  BY RequestTyped DEF InvOn, TypeInv, ReadBlock, Running, Places, HoldsCurr, Deleting
<1>2. CASE Throw(t)
  BY <1>1, <1>2, Throws DEF Throwing
<1>3. CASE ~Throw(t)
  <2>1. PICK k : k = request[t].block + 1
    OBVIOUS
  <2>2. /\ Curr(t).type = "f" /\ request[t].block < Len(Curr(t).blocks)
        /\ Return(t, Success(disk[Curr(t).blocks[k]].data))
        /\ UNCHANGED <<disk, disk_block>>
    BY <1>3, <2>1 DEF ReadBlock
  <2>3. PICK i \in I : i = local[t].curr /\ i \in Blocks /\ IsInode(V[i])
    BY <1>1, Holder
  <2>4. Curr(t) = V[i] /\ \A b \in Own(V, i) : disk[b] = V[b]
    BY <1>1, <2>3, Reads
  <2>5. PICK q \in Seq(Blocks) : q = V[i].blocks
    BY <2>3, InodeTyped
  <2>6. k \in 1 .. Len(q)
    BY <1>1, <2>1, <2>2, <2>4, <2>5
  <2>7. PICK b \in Blocks : b = q[k] /\ b \in Range(q)
    BY <2>6 DEF Range
  <2>8. IsData(V[b]) /\ disk[b] = V[b]
    BY <2>2, <2>3, <2>4, <2>5, <2>7 DEF Own, InvOn, TreeOn, BlocksTyped
  <2>9. disk[b].data \in STRING
    BY <2>8, DataTyped DEF Disks
  <2>10. PICK answer \in Answers : answer = Success(disk[b].data)
    BY <2>9, AnswerTyped
  <2>11. Return(t, answer)
    BY <2>2, <2>4, <2>5, <2>7, <2>10
  <2>12. Taken(local[t]) = {}
    BY <1>1, EmptyQueue DEF ThreadInv, Taken
  <2>13. /\ disk_block' \in [Blocks -> BOOLEAN]
         /\ \A x \in Blocks : disk_block'[x] <=> disk_block[x] \/ x \in Taken(local[t])
    BY <1>1, <2>2, <2>12 DEF TypeInv
  <2> QED BY <1>1, <2>2, <2>11, <2>13, Returns
<1> QED BY <1>2, <1>3

\* Create_helper gives free_inode back.
LEMMA UnreserveStep ==
  ASSUME NEW V \in Disks, NEW I \in SUBSET Blocks, InvOn(V, I), NEW t \in Threads, Unreserve(t)
  PROVE  Inv'
<1>1. /\ TypeInv /\ ThreadInv(V, I, "unreserve", request[t], local[t]) /\ pc[t] = "unreserve"
      /\ ~Deleting(t)
  BY DEF InvOn, Unreserve, Deleting
<1>2. PICK answer \in Answers : answer = Failure
  BY AnswerTyped
<1>3. Return(t, answer) /\ UNCHANGED disk
  BY <1>2 DEF Unreserve
<1>4. Taken(local[t]) = local[t].reserved
  BY <1>1, EmptyQueue DEF ThreadInv, Taken
<1>5. /\ disk_block' \in [Blocks -> BOOLEAN]
      /\ \A b \in Blocks : disk_block'[b] <=> disk_block[b] \/ b \in Taken(local[t])
  BY <1>1, <1>4 DEF Unreserve, TypeInv
<1> QED BY <1>1, <1>3, <1>5, Returns

\* One to three writes are a sequence of writes.
LEMMA WritesTyped ==
  ASSUME NEW a \in Blocks \X Contents, NEW b \in Blocks \X Contents, NEW c \in Blocks \X Contents
  PROVE  /\ <<a>> \in Seq(Blocks \X Contents)
         /\ <<a, b>> \in Seq(Blocks \X Contents)
         /\ <<a, b, c>> \in Seq(Blocks \X Contents)
OBVIOUS

\* An inode is written with a block more.
LEMMA LinkTyped ==
  ASSUME NEW V \in Disks, NEW i \in Blocks, IsInode(V[i]), NEW b \in Blocks
  PROVE  /\ WithBlock(V[i], b) \in Contents
         /\ Link(V, i, b) \in Blocks \X Contents
<1>1. PICK q \in Seq(Blocks) : q = V[i].blocks
  BY InodeTyped
<1>2. Append(q, b) \in Seq(Blocks)
  BY <1>1
<1>3. WithBlock(V[i], b) \in Contents
  <2>1. V[i] \in Contents
    BY DEF Disks
  <2>2. [V[i] EXCEPT !.blocks = Append(q, b)] \in Contents
    BY <1>2, <2>1, WithBlocks
  <2> QED BY <1>1, <2>2 DEF WithBlock
<1> QED BY <1>3 DEF Link

\* Write_helper: a block of the file is written, or appended to it.
LEMMA WriteBlockStep ==
  ASSUME NEW V \in Disks, NEW I \in SUBSET Blocks, InvOn(V, I), NEW t \in Threads, WriteBlock(t)
  PROVE  Inv'
<1>1. /\ TypeInv /\ ThreadInv(V, I, pc[t], request[t], local[t])
      /\ local[t] \in Locals /\ pc[t] = "attempt" /\ pc[t] \in Running /\ HoldsCurr(pc[t])
      /\ ~Deleting(t) /\ request[t].type = "WRITE" /\ request[t].block \in Nat
      /\ request[t].data \in STRING /\ "write" \in Running
  BY RequestTyped DEF InvOn, TypeInv, WriteBlock, Running, Places, HoldsCurr, Deleting
<1>2. local[t].reserved = {} /\ local[t].frees = <<>> /\ Taken(local[t]) = {}
  BY <1>1, EmptyQueue DEF ThreadInv, Taken
<1>3. PICK i \in I : i = local[t].curr /\ i \in Blocks /\ IsInode(V[i])
  BY <1>1, Holder
<1>4. Curr(t) = V[i]
  BY <1>1, <1>3, Reads
<1>5. PICK y : y = [data |-> request[t].data] /\ y \in Contents
  BY <1>1, RecordsAreContents
<1>6. CASE Throw(t)
  BY <1>1, <1>6, Throws DEF Throwing
<1>7. CASE /\ Curr(t).type = "f" /\ request[t].block < Len(Curr(t).blocks)
           /\ local' = [local EXCEPT
                ![t].writes = << <<Curr(t).blocks[request[t].block + 1], y>> >>]
           /\ Go(t, "write")
           /\ UNCHANGED <<disk, disk_block, disk_block_lock>>
  <2>1. PICK q \in Seq(Blocks) : q = V[i].blocks
    BY <1>3, InodeTyped
  <2>2. PICK k : k = request[t].block + 1
    OBVIOUS
  <2>3. k \in 1 .. Len(q)
    BY <1>1, <1>4, <1>7, <2>1, <2>2
  <2>4. PICK b \in Blocks : b = q[k] /\ b \in Range(q)
    BY <2>3 DEF Range
  <2>5. PICK l \in Locals : l = [local[t] EXCEPT !.writes = << <<b, y>> >>]
    <3>1. << <<b, y>> >> \in Seq(Blocks \X Contents)
      BY <1>5, WritesTyped
    <3> QED BY <1>1, <3>1 DEF Locals
  <2>6. /\ l.curr = i /\ l.reserved = {} /\ l.frees = <<>> /\ l.writes = << <<b, y>> >>
    BY <1>1, <1>2, <1>3, <2>5 DEF Locals
  <2>7. Moves(t, "write", l)
    BY <1>4, <1>7, <2>1, <2>2, <2>4, <2>5 DEF Moves, Go
  <2>8. Overwriting(V, l)
    BY <1>1, <1>4, <1>5, <1>7, <2>1, <2>4, <2>6 DEF Overwriting, Own
  <2>9. ThreadInv(V, I, "write", request[t], l)
    BY <1>1, <1>3, <2>6, <2>8 DEF ThreadInv, HoldsCurr
  <2>10. PICK H : H = HeldBy("write", request[t], l) /\ H = HeldBy(pc[t], request[t], local[t])
    BY <1>1, <1>3, <2>6 DEF HeldBy, HoldsCurr, HoldsNext
  <2>11. disk_block_lock' \in LockTypes /\ LocksGo(t, H)
    BY <1>7, <2>10, SameLocks
  <2> QED BY <1>1, <1>2, <1>7, <2>6, <2>7, <2>9, <2>10, <2>11, QuietMove
<1>8. CASE /\ Curr(t).type = "f" /\ FreeBlocks # {}
           /\ disk_block' = [disk_block EXCEPT ![Find_free_disk_block] = FALSE]
           /\ local' = [local EXCEPT ![t].reserved = {Find_free_disk_block},
                ![t].writes = << <<Find_free_disk_block, y>>,
                  <<local[t].curr, WithBlock(Curr(t), Find_free_disk_block)>> >>]
           /\ Go(t, "write")
           /\ UNCHANGED <<disk, disk_block_lock>>
  <2>1. PICK e \in Blocks : e = Find_free_disk_block /\ disk_block[e] = TRUE
    BY <1>1, <1>8, FreeBlock
  <2>2. PICK w \in Blocks \X Contents : w = Link(V, i, e) /\ w = <<i, WithBlock(V[i], e)>>
    BY <1>3, LinkTyped DEF Link
  <2>3. PICK l \in Locals : l = [local[t] EXCEPT !.reserved = {e}, !.writes = << <<e, y>>, w >>]
    <3>1. << <<e, y>>, w >> \in Seq(Blocks \X Contents)
      BY <1>5, WritesTyped
    <3> QED BY <1>1, <3>1 DEF Locals
  <2>4. /\ l.curr = i /\ l.reserved = {e} /\ l.frees = <<>> /\ l.writes = << <<e, y>>, w >>
    BY <1>1, <1>2, <1>3, <2>3 DEF Locals
  <2>5. Moves(t, "write", l)
    <3>1. local' = [local EXCEPT ![t].reserved = {e}, ![t].writes = << <<e, y>>, w >>]
      BY <1>3, <1>4, <1>8, <2>1, <2>2
    <3>2. local' = [local EXCEPT ![t] = l]
      BY <1>1, <2>3, <3>1 DEF TypeInv
    <3> QED BY <1>8, <3>2 DEF Moves, Go
  <2>6. Appending(V, l)
    BY <1>1, <1>4, <1>5, <1>8, <2>2, <2>4 DEF Appending
  <2>7. ThreadInv(V, I, "write", request[t], l)
    BY <1>1, <1>3, <2>4, <2>6 DEF ThreadInv, HoldsCurr
  <2>8. PICK H : H = HeldBy("write", request[t], l) /\ H = HeldBy(pc[t], request[t], local[t])
    BY <1>1, <1>3, <2>4 DEF HeldBy, HoldsCurr, HoldsNext
  <2>9. disk_block_lock' \in LockTypes /\ LocksGo(t, H)
    BY <1>8, <2>8, SameLocks
  <2>10. LocksGo(t, HeldBy("write", request[t], l))
    BY <2>8, <2>9
  <2>11. /\ disk_block' \in [Blocks -> BOOLEAN]
         /\ disk_block'[e] = FALSE /\ \A b \in Blocks : b # e => disk_block'[b] = disk_block[b]
    BY <1>1, <1>8, <2>1 DEF TypeInv
  <2>12. IsInjective(l.frees) /\ Taken(l) = {e}
    BY <2>4, EmptyQueue DEF Taken
  <2>13. \A b \in Blocks :
           /\ disk_block'[b] \/ b \in Taken(l) <=> disk_block[b] \/ b \in Taken(local[t])
           /\ b \in Taken(l) => ~disk_block'[b]
    BY <1>2, <2>1, <2>11, <2>12
  <2> QED BY <1>1, <1>8, <2>5, <2>7, <2>9, <2>10, <2>11, <2>12, <2>13, MoveStep
<1>9. Throw(t) \/ <1>7!1 \/ <1>8!1
  BY <1>1, <1>5 DEF WriteBlock, WithBlock
<1> QED BY <1>6, <1>7, <1>8, <1>9

\* Create_attempt looks at the slots in order, so that it comes to a first unused one.
LEMMA FirstUnused ==
  ASSUME NEW q \in Seq(Blocks), NEW c, c.blocks = q, FreeSlots(c) # {}
  PROVE  \E n \in 1 .. Len(q), k \in Slots :
           /\ FirstSlot(c) = <<n, k>>
           /\ disk[q[n]].directory[k].inode_block = 0
<1>1. PICK F : F = FreeSlots(c)
  OBVIOUS
<1>2. /\ DOMAIN q = 1 .. Len(q) /\ Len(q) \in Nat /\ Slots \subseteq Nat
  BY SizesAssumption DEF Slots
<1>3. F \subseteq (1 .. Len(q)) \X Slots
  BY <1>1, <1>2 DEF FreeSlots
<1>4. PICK A : A = {e[1] : e \in F}
  OBVIOUS
<1>5. A \in SUBSET Nat /\ A # {}
  BY <1>1, <1>2, <1>3, <1>4
<1>6. PICK a \in A : \A m \in A : a <= m
  BY <1>5, LeastElement
<1>7. PICK B : B = {k \in Slots : <<a, k>> \in F}
  OBVIOUS
<1>8. B \in SUBSET Nat /\ B # {}
  <2>1. PICK e \in F : a = e[1]
    BY <1>4, <1>6
  <2>2. e = <<a, e[2]>> /\ e[2] \in Slots
    BY <1>3, <2>1
  <2> QED BY <1>2, <1>7, <2>1, <2>2
<1>9. PICK b \in B : \A m \in B : b <= m
  BY <1>8, LeastElement
<1>10. PICK x : x = <<a, b>>
  OBVIOUS
<1>11. x \in F /\ x[1] = a /\ x[2] = b
  BY <1>7, <1>9, <1>10
<1>12. ASSUME NEW f \in F PROVE x[1] < f[1] \/ (x[1] = f[1] /\ x[2] <= f[2])
  <2>1. f = <<f[1], f[2]>> /\ f[1] \in A /\ f[1] \in Nat /\ f[2] \in Slots
    BY <1>3, <1>4, <1>5
  <2>2. a <= f[1] /\ a \in Nat
    BY <1>5, <1>6, <2>1
  <2>3. CASE f[1] = a
    <3>1. f[2] \in B
      BY <1>7, <2>1, <2>3
    <3> QED BY <1>9, <1>11, <2>3, <3>1
  <2>4. CASE f[1] # a
    BY <1>11, <2>1, <2>2, <2>4
  <2> QED BY <2>3, <2>4
<1>13. FirstSlot(c) \in F
  BY <1>1, <1>11, <1>12 DEF FirstSlot
<1>14. PICK n \in 1 .. Len(q), k \in Slots : FirstSlot(c) = <<n, k>>
  BY <1>3, <1>13
<1>15. disk[q[n]].directory[k].inode_block = 0
  BY <1>1, <1>13, <1>14 DEF FreeSlots
<1> QED BY <1>14, <1>15

\* Create_helper: the entry for the new inode goes to an unused slot, or to a new
\* direntry block.
LEMMA CreateStep ==
  ASSUME NEW V \in Disks, NEW I \in SUBSET Blocks, InvOn(V, I), NEW t \in Threads,
         Create_attempt(t)
  PROVE  Inv'
<1>1. /\ TypeInv /\ ThreadInv(V, I, pc[t], request[t], local[t])
      /\ local[t] \in Locals /\ pc[t] = "attempt" /\ pc[t] \in Running /\ HoldsCurr(pc[t])
      /\ ~Deleting(t) /\ request[t].type = "CREATE" /\ "lock_new" \in Running
      /\ request[t].username \in STRING /\ request[t].inode_type \in {"f", "d"}
  BY RequestTyped DEF InvOn, TypeInv, Create_attempt, Running, Places, HoldsCurr, Deleting
<1>2. PICK nm \in STRING : nm = Last(request[t].pathname)
  BY <1>1, RequestTyped
<1>3. /\ local[t].frees = <<>> /\ Taken(local[t]) = local[t].reserved
      /\ \E x \in Blocks : local[t].reserved = {x}
  BY <1>1, EmptyQueue DEF ThreadInv, Taken
<1>4. PICK f \in Blocks : local[t].reserved = {f}
  BY <1>3
<1>5. f # 0 /\ ~disk_block[f] /\ f = CHOOSE b \in local[t].reserved : TRUE
  <2>1. f \notin I /\ 0 \in I
    <3>1. f \notin I
      BY <1>3, <1>4, TakenApart
    <3>2. 0 \in I
      BY DEF InvOn, TreeOn, InodesOn
    <3> QED BY <3>1, <3>2
  <2>2. ~disk_block[f]
    BY <1>3, <1>4 DEF InvOn, AccountOn
  <2> QED BY <1>4, <2>1, <2>2
<1>6. PICK i \in I : i = local[t].curr /\ i \in Blocks /\ IsInode(V[i])
  BY <1>1, Holder
<1>7. /\ Curr(t) = V[i] /\ \A b \in Own(V, i) : disk[b] = V[b]
      /\ Entries(disk, i) = Entries(V, i)
      /\ \A e \in Entries(V, i) : Direntry(disk, e) = Direntry(V, e)
  BY <1>1, <1>6, Reads
<1>8. PICK q \in Seq(Blocks) : q = V[i].blocks /\ Own(V, i) = Range(q)
  BY <1>6, InodeTyped DEF Own
<1>9. PICK n \in EmptyInodes :
        n = [type |-> request[t].inode_type, owner |-> request[t].username, blocks |-> <<>>]
  <2>1. PICK n : n = [type |-> request[t].inode_type, owner |-> request[t].username,
                      blocks |-> <<>>]
    OBVIOUS
  <2>2. n \in InodeRecords /\ n.blocks = <<>>
    <3>1. <<>> \in Seq(Blocks)
      OBVIOUS
    <3> QED BY <1>1, <2>1, <3>1 DEF InodeRecords
  <2> QED BY <2>1, <2>2 DEF EmptyInodes
<1>10. n \in Contents
  BY RecordsAreContents DEF EmptyInodes
<1>11. ASSUME V[i].type = "d" PROVE \A b \in Own(V, i) : b \in Blocks /\ IsDirentries(V[b])
  BY <1>6, <1>8, <1>11, RangeQueue DEF InvOn, TreeOn, BlocksTyped
<1>12. ASSUME Find(t, nm) = {} PROVE NameFree(V, i, nm)
  <2> SUFFICES ASSUME NEW b \in Own(V, i), NEW k \in Slots, EntryAt(V, b, k),
                      NameAt(V, b, k) = nm
               PROVE  FALSE
    BY DEF NameFree
  <2>1. PICK e : e = <<b, k>>
    OBVIOUS
  <2>2. e \in Entries(V, i)
    BY <2>1, EntriesDef DEF Own
  <2>3. Direntry(V, e).name = nm
    BY <2>1 DEF Direntry, NameAt
  <2>4. e \in Find(t, nm)
    BY <1>6, <1>7, <2>2, <2>3 DEF Find
  <2> QED BY <1>12, <2>4
<1>13. CASE Throw(t)
  BY <1>1, <1>13, Throws DEF Throwing
<1>14. CASE /\ Curr(t).type = "d" /\ Find(t, nm) = {} /\ FreeSlots(Curr(t)) # {}
            /\ \E p, k : p = Curr(t).blocks[FirstSlot(Curr(t))[1]] /\ k = FirstSlot(Curr(t))[2]
                 /\ local' = [local EXCEPT ![t].next = f,
                      ![t].writes = << <<f, n>>, <<p, WithEntry(disk[p], k, nm, f)>> >>]
            /\ Go(t, "lock_new")
            /\ UNCHANGED <<disk, disk_block, disk_block_lock>>
  <2>1. PICK z \in 1 .. Len(q), k \in Slots :
          FirstSlot(V[i]) = <<z, k>> /\ disk[q[z]].directory[k].inode_block = 0
    BY <1>7, <1>8, <1>14, FirstUnused
  <2>2. PICK p \in Own(V, i) : p = q[z] /\ p \in Blocks /\ IsDirentries(V[p]) /\ disk[p] = V[p]
    <3>1. q[z] \in Range(q)
      BY DEF Range
    <3> QED BY <1>7, <1>8, <1>11, <1>14, <3>1
  <2>3. ~EntryAt(V, p, k)
    BY <2>1, <2>2 DEF EntryAt
  <2>4. PICK w \in Contents : w = WithEntry(V[p], k, nm, f)
    <3>1. V[p] \in Contents /\ f \in Blocks \ {0}
      BY <1>5, <2>2 DEF Disks
    <3> QED BY <2>2, <3>1, WithEntryFacts
  <2>5. PICK l \in Locals : l = [local[t] EXCEPT !.next = f, !.writes = << <<f, n>>, <<p, w>> >>]
    <3>1. << <<f, n>>, <<p, w>> >> \in Seq(Blocks \X Contents)
      BY <1>10, <2>2, WritesTyped
    <3> QED BY <1>1, <3>1 DEF Locals
  <2>6. /\ l.curr = i /\ l.next = f /\ l.reserved = {f} /\ l.frees = <<>>
        /\ l.writes = << <<f, n>>, <<p, w>> >>
    BY <1>1, <1>3, <1>4, <1>6, <2>5 DEF Locals
  <2>7. Moves(t, "lock_new", l)
    <3>1. local' = [local EXCEPT ![t].next = f, ![t].writes = << <<f, n>>, <<p, w>> >>]
      <4>1. PICK x, j :
              /\ x = Curr(t).blocks[FirstSlot(Curr(t))[1]] /\ j = FirstSlot(Curr(t))[2]
              /\ local' = [local EXCEPT ![t].next = f,
                   ![t].writes = << <<f, n>>, <<x, WithEntry(disk[x], j, nm, f)>> >>]
        BY <1>14
      <4>2. x = p /\ j = k
        BY <1>7, <1>8, <2>1, <2>2, <4>1
      <4>3. WithEntry(disk[x], j, nm, f) = w
        BY <2>2, <2>4, <4>2
      <4> QED BY <4>1, <4>2, <4>3
    <3>2. local' = [local EXCEPT ![t] = l]
      BY <1>1, <2>5, <3>1 DEF TypeInv
    <3> QED BY <1>14, <3>2 DEF Moves, Go
  <2>8. Inserting(V, l)
    <3>1. InsertingAt(V, l, n, p, k, nm)
      BY <1>7, <1>12, <1>14, <2>3, <2>4, <2>6 DEF InsertingAt
    <3> QED BY <3>1 DEF Inserting
  <2>9. ThreadInv(V, I, "lock_new", request[t], l)
    BY <1>1, <2>6, <2>8 DEF ThreadInv, HoldsCurr, Creating
  <2>10. PICK H : H = HeldBy("lock_new", request[t], l) /\ H = HeldBy(pc[t], request[t], local[t])
    BY <1>1, <1>6, <2>6 DEF HeldBy, HoldsCurr, HoldsNext
  <2>11. disk_block_lock' \in LockTypes /\ LocksGo(t, H)
    BY <1>14, <2>10, SameLocks
  <2> QED BY <1>1, <1>3, <1>4, <1>14, <2>6, <2>7, <2>9, <2>10, <2>11, QuietMove
<1>15. CASE /\ Curr(t).type = "d" /\ Find(t, nm) = {} /\ FreeBlocks # {}
            /\ disk_block' = [disk_block EXCEPT ![Find_free_disk_block] = FALSE]
            /\ local' = [local EXCEPT ![t].next = f,
                 ![t].reserved = local[t].reserved \cup {Find_free_disk_block},
                 ![t].writes = << <<f, n>>,
                   <<Find_free_disk_block, WithEntry(NewDirentries, 1, nm, f)>>,
                   <<local[t].curr, WithBlock(Curr(t), Find_free_disk_block)>> >>]
            /\ Go(t, "lock_new")
            /\ UNCHANGED <<disk, disk_block_lock>>
  <2>1. PICK g \in Blocks : g = Find_free_disk_block /\ disk_block[g] = TRUE
    BY <1>1, <1>15, FreeBlock
  <2>2. g # f
    BY <1>5, <2>1
  <2>3. PICK w \in Blocks \X Contents : w = Link(V, i, g) /\ w = <<i, WithBlock(V[i], g)>>
    BY <1>6, LinkTyped DEF Link
  <2>4. PICK y \in Contents : y = WithEntry(NewDirentries, 1, nm, f)
    <3>1. f \in Blocks \ {0}
      BY <1>5
    <3> QED BY <3>1, NewDirentriesFacts, WithEntryFacts
  <2>5. PICK l \in Locals : l = [local[t] EXCEPT !.next = f, !.reserved = {f, g},
                                   !.writes = << <<f, n>>, <<g, y>>, w >>]
    <3>1. << <<f, n>>, <<g, y>>, w >> \in Seq(Blocks \X Contents)
      BY <1>10, WritesTyped
    <3> QED BY <1>1, <3>1 DEF Locals
  <2>6. /\ l.curr = i /\ l.next = f /\ l.reserved = {f, g} /\ l.frees = <<>>
        /\ l.writes = << <<f, n>>, <<g, y>>, w >>
    BY <1>1, <1>3, <1>6, <2>5 DEF Locals
  <2>7. Moves(t, "lock_new", l)
    <3>1. local' = [local EXCEPT ![t].next = f, ![t].reserved = {f, g},
                      ![t].writes = << <<f, n>>, <<g, y>>, w >>]
      <4>1. local[t].reserved \cup {Find_free_disk_block} = {f, g}
        BY <1>4, <2>1
      <4> QED BY <1>6, <1>7, <1>15, <2>1, <2>3, <2>4, <4>1
    <3>2. local' = [local EXCEPT ![t] = l]
      BY <1>1, <2>5, <3>1 DEF TypeInv
    <3> QED BY <1>15, <3>2 DEF Moves, Go
  <2>8. Extending(V, l)
    <3>1. /\ V[l.curr].type = "d" /\ l.reserved = {l.next, g} /\ g # l.next
          /\ NameFree(V, l.curr, nm)
      BY <1>7, <1>12, <1>15, <2>2, <2>6
    <3>2. l.writes = << <<l.next, n>>, <<g, WithEntry(NewDirentries, 1, nm, l.next)>>,
                        Link(V, l.curr, g) >>
      BY <2>3, <2>4, <2>6
    <3>3. ExtendingAt(V, l, n, g, nm)
      BY <3>1, <3>2 DEF ExtendingAt
    <3> QED BY <3>3 DEF Extending
  <2>9. ThreadInv(V, I, "lock_new", request[t], l)
    BY <1>1, <2>6, <2>8 DEF ThreadInv, HoldsCurr, Creating
  <2>10. PICK H : H = HeldBy("lock_new", request[t], l) /\ H = HeldBy(pc[t], request[t], local[t])
    BY <1>1, <1>6, <2>6 DEF HeldBy, HoldsCurr, HoldsNext
  <2>11. disk_block_lock' \in LockTypes /\ LocksGo(t, H)
    BY <1>15, <2>10, SameLocks
  <2>12. LocksGo(t, HeldBy("lock_new", request[t], l))
    BY <2>10, <2>11
  <2>13. /\ disk_block' \in [Blocks -> BOOLEAN]
         /\ disk_block'[g] = FALSE /\ \A b \in Blocks : b # g => disk_block'[b] = disk_block[b]
    BY <1>1, <1>15, <2>1 DEF TypeInv
  <2>14. IsInjective(l.frees) /\ Taken(l) = {f, g}
    BY <2>6, EmptyQueue DEF Taken
  <2>15. \A b \in Blocks :
           /\ disk_block'[b] \/ b \in Taken(l) <=> disk_block[b] \/ b \in Taken(local[t])
           /\ b \in Taken(l) => ~disk_block'[b]
    BY <1>3, <1>4, <1>5, <2>1, <2>13, <2>14
  <2>16. /\ pc[t] \in Running /\ "lock_new" \in Running /\ request[t].type # "DELETE"
         /\ disk' = disk
    BY <1>1, <1>15
  <2> QED BY <2>7, <2>9, <2>11, <2>12, <2>13, <2>14, <2>15, <2>16, MoveStep
<1>16. Throw(t) \/ <1>14!1 \/ <1>15!1
  BY <1>1, <1>2, <1>5, <1>9 DEF Create_attempt, WithBlock
<1> QED BY <1>13, <1>14, <1>15, <1>16

\* Delete_helper sets a block free.
LEMMA SetFreeStep ==
  ASSUME NEW V \in Disks, NEW I \in SUBSET Blocks, InvOn(V, I), NEW t \in Threads, SetFree(t)
  PROVE  Inv'
<1>1. /\ TypeInv /\ ThreadInv(V, I, "free", request[t], local[t])
      /\ local[t] \in Locals /\ pc[t] = "free" /\ pc[t] \in Running
  BY DEF InvOn, TypeInv, SetFree, Running, Places
<1>2. PICK q \in Seq(Blocks) : q = local[t].frees
  BY <1>1 DEF Locals
<1>3. q # <<>> /\ IsInjective(q) /\ Removing(V, local[t])
  BY <1>1, <1>2 DEF ThreadInv, InvOn, AccountOn
<1>4. PICK s \in Seq(Blocks) : s = Tail(q)
  BY <1>2, <1>3, PopQueue
<1>5. PICK h \in Blocks : h = Head(q) /\ h \in Range(q)
  BY <1>3, PopQueue
<1>6. Range(s) = Range(q) \ {h} /\ IsInjective(s)
  BY <1>3, <1>4, <1>5, PopQueue
<1>7. IF Len(q) = 1 THEN s = <<>> ELSE s # <<>>
  <2>1. /\ Len(q) \in Nat /\ Len(q) # 0 /\ Len(s) = Len(q) - 1
        /\ Len(s) = 0 <=> s = <<>>
    BY <1>3, <1>4, HeadTailProperties, LenProperties, EmptySeq
  <2> QED BY <2>1
<1>8. PICK l \in Locals : l = [local[t] EXCEPT !.frees = s]
  BY <1>1 DEF Locals
<1>9. /\ l.frees = s /\ l.curr = local[t].curr /\ l.next = local[t].next
      /\ l.reserved = local[t].reserved /\ l.writes = local[t].writes
  BY <1>1, <1>8 DEF Locals
<1>10. PICK p \in Running : p = IF Len(q) = 1 THEN "write" ELSE "free"
  BY DEF Running, Places
<1>11. Moves(t, p, l)
  BY <1>2, <1>4, <1>8, <1>10 DEF SetFree, Moves, Go
<1>12. local[t].reserved = {}
  BY <1>3 DEF Removing
<1>13. Taken(l) = Range(s) /\ Taken(local[t]) = Range(q)
  BY <1>2, <1>9, <1>12 DEF Taken
<1>14. Removing(V, l)
  BY <1>3, <1>9 DEF Removing
<1>15. ThreadInv(V, I, p, request[t], l)
  BY <1>1, <1>7, <1>9, <1>10, <1>14 DEF ThreadInv, HoldsCurr
<1>16. PICK H : H = HeldBy(p, request[t], l) /\ H = HeldBy(pc[t], request[t], local[t])
  BY <1>1, <1>9, <1>10 DEF HeldBy, HoldsCurr, HoldsNext, ThreadInv
<1>17. UNCHANGED disk /\ disk_block_lock' = disk_block_lock
  BY DEF SetFree
<1>18. disk_block_lock' \in LockTypes /\ LocksGo(t, H)
  BY <1>16, <1>17, SameLocks
<1>19. LocksGo(t, HeldBy(p, request[t], l))
  BY <1>16, <1>18
<1>20. /\ disk_block' \in [Blocks -> BOOLEAN]
       /\ disk_block'[h] = TRUE /\ \A b \in Blocks : b # h => disk_block'[b] = disk_block[b]
  BY <1>1, <1>2, <1>5 DEF SetFree, TypeInv
<1>21. \A b \in Taken(local[t]) : ~disk_block[b]
  BY DEF InvOn, AccountOn
<1>22. \A b \in Blocks :
         /\ disk_block'[b] \/ b \in Taken(l) <=> disk_block[b] \/ b \in Taken(local[t])
         /\ b \in Taken(l) => ~disk_block'[b]
  BY <1>5, <1>6, <1>13, <1>20, <1>21
<1>23. /\ p \in {"free", "write"} <=> pc[t] \in {"free", "write"}
       /\ IsInjective(l.frees)
  BY <1>1, <1>6, <1>9, <1>10
<1> QED BY <1>1, <1>9, <1>11, <1>15, <1>17, <1>18, <1>19, <1>20, <1>22, <1>23, MoveStep

\* What a thread has locked or taken is none of the business of another.
LEMMA Apart ==
  ASSUME NEW V \in Disks, NEW I, InvOn(V, I), NEW t \in Threads, HoldsCurr(pc[t]),
         NEW x \in Region(V, local[t].curr) \cup local[t].reserved, NEW u \in Threads, u # t
  PROVE  /\ ~Removes(u, x)
         /\ HoldsCurr(pc[u]) => x \notin Region(V, local[u].curr) \cup local[u].reserved
<1>1. /\ Taken(local[t]) \cap (I \cup BlocksOn(V, I)) = {}
      /\ Taken(local[u]) \cap (I \cup BlocksOn(V, I)) = {}
      /\ Taken(local[t]) \cap Taken(local[u]) = {}
  BY TakenApart DEF InvOn, AccountOn
<1>2. local[t].reserved \subseteq Taken(local[t]) /\ local[u].reserved \subseteq Taken(local[u])
  BY DEF Taken
<1>3. Region(V, local[t].curr) \subseteq I \cup BlocksOn(V, I)
  BY Holder
<1>4. ASSUME HoldsCurr(pc[u])
      PROVE  x \notin Region(V, local[u].curr) \cup local[u].reserved
  <2>1. Region(V, local[u].curr) \subseteq I \cup BlocksOn(V, I)
    BY <1>4, Holder
  <2>2. Region(V, local[t].curr) \cap Region(V, local[u].curr) = {}
    BY <1>4, Separate
  <2> QED BY <1>1, <1>2, <1>3, <2>1, <2>2
<1>5. ~Removes(u, x)
  BY <1>4, Remover
<1> QED BY <1>4, <1>5

\* Without an entry in directory i the tree W lacks inode j and the blocks F.
Unlinks(V, I, i, j, x, c, F, W) ==
  /\ j \in I /\ j # i /\ x \in Region(V, i) /\ c \in Contents
  /\ W \in Disks /\ W = Put(V, x, c) /\ x \in Region(W, i)
  /\ \E Z \in SUBSET BlocksOn(V, I) :
       /\ TreeUsing(W, I \ {j}, (BlocksOn(V, I) \ Own(V, j)) \ Z)
       /\ F = Own(V, j) \cup {j} \cup Z

\* Thread t goes on to set blocks free, and then to write content c to block x.
Begins(t, j, x, c, l) ==
  /\ pc[t] = "lock_victim" /\ j = local[t].next /\ disk_block_lock[j] = None
  /\ disk_block_lock' = [disk_block_lock EXCEPT ![j] = t]
  /\ Moves(t, "free", l) /\ UNCHANGED <<disk, disk_block>>
  /\ l \in Locals /\ l.curr = local[t].curr /\ l.next = j /\ l.reserved = {}
  /\ l.writes = << <<x, c>> >> /\ l.frees # <<>> /\ IsInjective(l.frees)

\* A delete begins: from now on the threads see the disk as its write will leave it.
LEMMA BeginDelete ==
  ASSUME NEW V \in Disks, NEW I \in SUBSET Blocks, InvOn(V, I), NEW t \in Threads,
         NEW j, NEW x, NEW c, NEW l, Begins(t, j, x, c, l),
         NEW W, Unlinks(V, I, local[t].curr, j, x, c, Range(l.frees), W)
  PROVE  Inv'
<1> USE DEF Begins
<1>1. /\ j \in I /\ j # local[t].curr /\ x \in Region(V, local[t].curr) /\ c \in Contents
      /\ W \in Disks /\ W = Put(V, x, c) /\ x \in Region(W, local[t].curr)
  BY DEF Unlinks
<1>2. PICK Z \in SUBSET BlocksOn(V, I) :
        /\ TreeUsing(W, I \ {j}, (BlocksOn(V, I) \ Own(V, j)) \ Z)
        /\ Range(l.frees) = Own(V, j) \cup {j} \cup Z
  BY DEF Unlinks
<1>3. /\ TypeInv /\ ThreadInv(V, I, "lock_victim", request[t], local[t])
      /\ local[t] \in Locals /\ pc[t] \in Running /\ HoldsCurr(pc[t]) /\ "free" \in Running
      /\ request[t].type = "DELETE" /\ j \in Blocks
  BY DEF InvOn, TypeInv, Running, Places, HoldsCurr, ThreadInv, Locals
<1>4. local[t].reserved = {} /\ Taken(local[t]) = {}
  BY <1>3, EmptyQueue DEF ThreadInv, Taken
<1>5. PICK H : H = HeldBy("free", request[t], l)
               /\ H = HeldBy(pc[t], request[t], local[t]) \cup {j}
  BY <1>3 DEF HeldBy, HoldsCurr, HoldsNext
<1>6. disk_block_lock' \in LockTypes /\ LocksGo(t, H)
  BY <1>3, <1>5, OneMoreLock
<1>7. disk' \in Disks /\ disk_block' \in [Blocks -> BOOLEAN]
  BY <1>3 DEF TypeInv
<1>8. /\ TypeInv' /\ Only(t)
      /\ pc'[t] = "free" /\ local'[t] = l /\ request'[t] = request[t]
  BY <1>3, <1>6, <1>7, MoveTyped
<1>9. LocksInv'
  BY <1>3, <1>5, <1>6, <1>8, LocksStep DEF InvOn
<1>10. x \in Blocks /\ W[x] = c /\ \A b \in Blocks : b # x => W[b] = V[b]
  <2>1. x \in Blocks
    BY <1>1, <1>3, Holder
  <2> QED BY <1>1, <2>1 DEF Put, Disks
<1>11. OnView(W)'
  <2>1. Deleting(t)' /\ ~Deleting(t)
    BY <1>3, <1>8, NoneAssumption DEF Deleting, TypeInv
  <2>2. \A b : Removes(t, b)' <=> b = x
    BY <1>8, <2>1 DEF Removes
  <2>3. \A u \in Threads : u # t =>
          \A b : (Removes(u, b)' <=> Removes(u, b)) /\ local'[u] = local[u]
    BY <1>8 DEF Only, Removes, Deleting
  <2>4. \A u \in Threads : u # t => ~Removes(u, x)
    BY <1>1, <1>3, Apart
  <2>5. \A b \in Blocks :
          /\ (\A u \in Threads : ~Removes(u, b)) => V[b] = disk[b]
          /\ \A u \in Threads : Removes(u, b) => V[b] = local[u].writes[1][2]
    BY DEF InvOn, OnView
  <2>6. \A b : ~Removes(t, b)
    BY <2>1 DEF Removes
  <2> SUFFICES ASSUME NEW b \in Blocks
               PROVE  /\ (\A u \in Threads : ~Removes(u, b)') => W[b] = disk'[b]
                      /\ \A u \in Threads : Removes(u, b)' => W[b] = local'[u].writes[1][2]
    BY DEF OnView
  <2>7. CASE b = x
    BY <1>8, <1>10, <2>2, <2>3, <2>4, <2>7
  <2>8. CASE b # x
    BY <1>10, <2>2, <2>3, <2>5, <2>6, <2>8
  <2> QED BY <2>7, <2>8
<1>12. PICK J \in SUBSET Blocks : J = I \ {j}
  OBVIOUS
<1>13. TreeOn(W, J) /\ BlocksOn(W, J) = (BlocksOn(V, I) \ Own(V, j)) \ Z
  BY <1>2, <1>12 DEF TreeUsing
<1>14. ASSUME NEW u \in Threads, u # t, HoldsCurr(pc[u])
       PROVE  /\ local[u].curr \in J
              /\ \A b \in Region(V, local[u].curr) \cup local[u].reserved : W[b] = V[b]
  <2>1. /\ local[u].curr \in I /\ local[u].curr \in Blocks
        /\ Region(V, local[u].curr) \subseteq Blocks
        /\ local[u].reserved \subseteq Blocks
    BY <1>14, Holder DEF Locals
  <2>2. disk_block_lock[local[u].curr] = u
    BY <1>14, <2>1 DEF InvOn, LocksInv, HeldBy
  <2>3. local[u].curr # j
    BY <2>2, NoneAssumption
  <2>4. x \notin Region(V, local[u].curr) \cup local[u].reserved
    BY <1>1, <1>3, <1>14, Apart
  <2> QED BY <1>10, <1>12, <2>1, <2>3, <2>4
<1>15. ThreadInv(W, J, pc'[t], request'[t], local'[t])
  <2>1. Removing(W, l)
    BY <1>1, <1>10 DEF Removing
  <2>2. l.curr \in J
    BY <1>1, <1>3, <1>12 DEF ThreadInv
  <2> QED BY <1>3, <1>8, <2>1, <2>2 DEF ThreadInv, HoldsCurr
<1>16. AccountOn(J \cup BlocksOn(W, J))'
  <2>1. PICK U : U = I \cup BlocksOn(V, I)
    OBVIOUS
  <2>2. PICK U2 : U2 = J \cup BlocksOn(W, J)
    OBVIOUS
  <2>3. AccountOn(U)
    BY <2>1 DEF InvOn
  <2>4. \A b \in BlocksOn(V, I) : b \notin I
    BY DEF InvOn, TreeOn, InodesOn, BlocksOn
  <2>5. Own(V, j) \subseteq BlocksOn(V, I)
    BY <1>1 DEF BlocksOn
  <2>6. Taken(local'[t]) = Own(V, j) \cup {j} \cup Z
    BY <1>8, <1>2 DEF Taken
  <2>7. \A b : /\ b \in U <=> b \in U2 \/ b \in Taken(local'[t])
               /\ b \in U2 => b \notin Taken(local'[t])
    BY <1>1, <1>12, <1>13, <2>1, <2>2, <2>4, <2>5, <2>6
  <2>8. \A b \in Blocks :
           /\ disk_block'[b] \/ b \in U2 \/ b \in Taken(local'[t])
                <=> disk_block[b] \/ b \in U \/ b \in Taken(local[t])
           /\ disk_block'[b] => b \notin U2
           /\ b \in Taken(local'[t]) => ~disk_block'[b] /\ b \notin U2
    BY <1>4, <2>3, <2>7 DEF AccountOn
  <2>9. IsInjective(local'[t].frees)
    BY <1>8
  <2>10. AccountOn(U2)'
    BY <1>3, <1>8, <2>3, <2>8, <2>9, AccountStep
  <2> QED BY <2>2, <2>10
<1> QED BY <1>1, <1>8, <1>9, <1>11, <1>13, <1>14, <1>15, <1>16, StepKeeps

\* The blocks a delete sets free.
LEMMA ToFreeFacts ==
  ASSUME NEW c, NEW q \in Seq(Blocks), c.blocks = q, c.type \in {"f", "d"},
         IsLeaf(c), IsInjective(q),
         NEW j \in Blocks, j \notin Range(q), NEW b \in Blocks, b \notin Range(q), b # j,
         NEW empty \in BOOLEAN
  PROVE  /\ ToFree(c, j, b, empty) \in Seq(Blocks) /\ ToFree(c, j, b, empty) # <<>>
         /\ IsInjective(ToFree(c, j, b, empty))
         /\ Range(ToFree(c, j, b, empty)) = Range(q) \cup {j} \cup (IF empty THEN {b} ELSE {})
<1>1. \A x \in Blocks : <<x>> \in Seq(Blocks) /\ Range(<<x>>) = {x} /\ IsInjective(<<x>>)
  BY DEF Range, IsInjective
<1>2. <<>> \in Seq(Blocks)
  OBVIOUS
<1>3. PICK o \in Seq(Blocks) : o = <<j>> /\ Range(o) = {j} /\ IsInjective(o)
  BY <1>1
<1>4. PICK p \in Seq(Blocks) : p = q \o o /\ Range(p) = Range(q) \cup {j} /\ IsInjective(p)
  <2>1. Range(o) = {j} /\ IsInjective(o) /\ Range(q) \cap Range(o) = {}
    BY <1>3
  <2>2. /\ q \o o \in Seq(Blocks) /\ IsInjective(q \o o)
        /\ Range(q \o o) = Range(q) \cup Range(o)
    BY <2>1, DrainQueue
  <2> QED BY <2>1, <2>2
<1>5. PICK z \in Seq(Blocks) : z = IF empty THEN <<b>> ELSE <<>>
  BY <1>1, <1>2
<1>6. Range(z) = (IF empty THEN {b} ELSE {}) /\ IsInjective(z)
  BY <1>1, <1>5, EmptyQueue
<1>7. ToFree(c, j, b, empty) = p \o z
  <2>1. (IF c.type = "f" THEN c.blocks ELSE <<>>) = q
    BY DEF IsLeaf
  <2> QED BY <1>3, <1>4, <1>5, <2>1 DEF ToFree
<1>8. Range(p) \cap Range(z) = {}
  BY <1>4, <1>6
<1>9. /\ p \o z \in Seq(Blocks) /\ p \o z # <<>> /\ IsInjective(p \o z)
      /\ Range(p \o z) = Range(p) \cup Range(z)
  <2>1. p # <<>> /\ IsInjective(p) /\ IsInjective(z)
    BY <1>4, <1>6, EmptyQueue
  <2> QED BY <1>8, <2>1, DrainQueue
<1> QED BY <1>4, <1>6, <1>7, <1>9

\* Delete_attempt.
LEMMA DeleteAttemptStep ==
  ASSUME NEW V \in Disks, NEW I \in SUBSET Blocks, InvOn(V, I), NEW t \in Threads,
         Delete_attempt(t)
  PROVE  Inv'
<1>1. /\ TypeInv /\ ThreadInv(V, I, "lock_victim", request[t], local[t])
      /\ local[t] \in Locals /\ pc[t] = "lock_victim" /\ pc[t] \in Running /\ HoldsCurr(pc[t])
      /\ ~Deleting(t)
  BY DEF InvOn, TypeInv, Delete_attempt, Running, Places, HoldsCurr, Deleting
<1>2. CASE Throw(t)
  BY <1>1, <1>2, Throws DEF Throwing
<1>3. CASE ~Throw(t)
  <2>1. PICK j \in Blocks : j = local[t].next /\ disk_block_lock[j] = None
    BY <1>1 DEF Locals, Delete_attempt
  <2>2. PICK i \in I : i = local[t].curr /\ i \in Blocks /\ IsInode(V[i])
    BY <1>1, Holder
  <2>3. j \in Subinodes(V, i) /\ TreeOn(V, I) /\ local[t].reserved = {}
    BY <1>1, <2>1, <2>2 DEF ThreadInv, InvOn, HoldsCurr
  <2>4. PICK b0 \in Own(V, i), k0 \in Slots : EntryAt(V, b0, k0) /\ j = Target(V, b0, k0)
    BY <2>2, <2>3, ChildIff DEF TreeOn
  <2>5. j \in I /\ IsInode(V[j]) /\ IsInjective(V[j].blocks)
    BY <2>2, <2>3, <2>4 DEF TreeOn, EntriesOn, InodesOn
  <2>6. disk[j] = V[j]
    <3>1. ASSUME NEW u \in Threads, HoldsCurr(pc[u])
          PROVE  j \notin Region(V, local[u].curr)
      <4>1. local[u].curr \in I /\ local[u].curr \in Blocks
        BY <3>1, Holder
      <4>2. disk_block_lock[local[u].curr] = u
        BY <3>1, <4>1 DEF InvOn, LocksInv, HeldBy
      <4>3. j # local[u].curr
        BY <2>1, <4>2, NoneAssumption
      <4>4. j \notin Own(V, local[u].curr)
        BY <2>3, <2>5, <4>1 DEF TreeOn, InodesOn
      <4> QED BY <4>3, <4>4 DEF Region
    <3> QED BY <3>1, AgreesOutside
  <2>7. /\ Curr(t) = V[i] /\ \A b \in Own(V, i) : disk[b] = V[b]
        /\ Entries(disk, i) = Entries(V, i)
        /\ \A x \in Entries(V, i) : Direntry(disk, x) = Direntry(V, x)
    BY <1>1, <2>2, Reads
  <2>8. PICK e : e = PlaceOf(disk, local[t].curr, j)
    OBVIOUS
  <2>9. e \in Entries(V, i) /\ Direntry(V, e).inode_block = j
    <3>1. PICK e0 : e0 = <<b0, k0>>
      OBVIOUS
    <3>2. e0 \in Entries(V, i)
      BY <2>4, <3>1, EntriesDef DEF Own
    <3>3. Direntry(V, e0).inode_block = j
      BY <2>4, <3>1 DEF Direntry, Target
    <3>4. \E x \in Entries(disk, local[t].curr) : Direntry(disk, x).inode_block = j
      BY <2>2, <2>7, <3>2, <3>3
    <3>5. e \in Entries(disk, local[t].curr) /\ Direntry(disk, e).inode_block = j
      BY <2>8, <3>4 DEF PlaceOf
    <3> QED BY <2>2, <2>7, <3>5
  <2>10. PICK b \in Own(V, i), k \in Slots : e = <<b, k>> /\ EntryAt(V, b, k)
    BY <2>9, EntriesDef DEF Own
  <2>11. j = Target(V, b, k) /\ disk[b] = V[b] /\ b \in Region(V, i) /\ i \in Region(V, i)
    BY <2>7, <2>9, <2>10 DEF Direntry, Target, Region
  <2>12. PICK rest : rest = WithoutEntry(V[b], k)
    OBVIOUS
  <2>13. PICK empty \in BOOLEAN : empty = (rest = NewDirentries)
    OBVIOUS
  <2>14. /\ ~(V[j].type = "d" /\ Len(V[j].blocks) > 0)
         /\ disk_block_lock' = [disk_block_lock EXCEPT ![j] = t]
         /\ local' = [local EXCEPT
              ![t].frees = ToFree(V[j], j, b, empty),
              ![t].writes = IF empty THEN << <<i, WithoutBlock(V[i], b)>> >>
                            ELSE << <<b, rest>> >>]
         /\ Go(t, "free")
         /\ UNCHANGED <<disk, disk_block>>
    <3>1. e[1] = b /\ WithoutEntry(disk[e[1]], e[2]) = rest
      BY <2>10, <2>11, <2>12
    <3> QED BY <1>3, <2>1, <2>2, <2>6, <2>7, <2>8, <2>13, <3>1 DEF Delete_attempt
  <2>15. IsLeaf(V[j])
    <3>1. PICK q \in Seq(Blocks) : q = V[j].blocks
      BY <2>5, InodeTyped
    <3>2. ~(Len(q) > 0) => q = <<>>
      BY LenProperties, EmptySeq
    <3> QED BY <2>14, <3>1, <3>2 DEF IsLeaf
  <2>16. b \in Blocks /\ b # j /\ b \notin Own(V, j) /\ j \notin Own(V, j) /\ b # i
    <3>1. b \in Blocks /\ b \notin I /\ j \notin Own(V, j)
      BY <2>2, <2>3, <2>5, InodeTyped DEF Own, TreeOn, InodesOn
    <3>2. ASSUME b \in Own(V, j) PROVE FALSE
      <4>1. \A l \in Slots : ~EntryAt(V, b, l)
        BY <2>3, <2>5, <2>15, <3>2, NoEntries
      <4> QED BY <2>10, <4>1
    <3> QED BY <2>5, <3>1, <3>2
  <2>17. PICK q \in Seq(Blocks) :
           q = V[j].blocks /\ Own(V, j) = Range(q) /\ V[j].type \in {"f", "d"}
    BY <2>5, InodeTyped DEF Own
  <2>18. PICK fr \in Seq(Blocks) :
           /\ fr = ToFree(V[j], j, b, empty) /\ fr # <<>> /\ IsInjective(fr)
           /\ Range(fr) = Own(V, j) \cup {j} \cup (IF empty THEN {b} ELSE {})
    BY <2>5, <2>15, <2>16, <2>17, ToFreeFacts
  <2>19. b \in BlocksOn(V, I)
    BY DEF BlocksOn
  <2>20. \A x, c : x \in Blocks /\ c \in Contents
            /\ (IF empty THEN << <<i, WithoutBlock(V[i], b)>> >> ELSE << <<b, rest>> >>)
                 = << <<x, c>> >>
            => \E l : Begins(t, j, x, c, l) /\ l.frees = fr
    <3> SUFFICES ASSUME NEW x \in Blocks, NEW c \in Contents,
                        (IF empty THEN << <<i, WithoutBlock(V[i], b)>> >> ELSE << <<b, rest>> >>)
                          = << <<x, c>> >>
                 PROVE  \E l : Begins(t, j, x, c, l) /\ l.frees = fr
      OBVIOUS
    <3>1. PICK l \in Locals : l = [local[t] EXCEPT !.frees = fr, !.writes = << <<x, c>> >>]
      <4>1. << <<x, c>> >> \in Seq(Blocks \X Contents)
        BY WritesTyped
      <4> QED BY <1>1, <4>1 DEF Locals
    <3>2. /\ l.curr = local[t].curr /\ l.next = j /\ l.reserved = {}
          /\ l.frees = fr /\ l.writes = << <<x, c>> >>
      BY <1>1, <2>1, <2>3, <3>1 DEF Locals
    <3>3. Moves(t, "free", l)
      <4>1. local' = [local EXCEPT ![t].frees = fr, ![t].writes = << <<x, c>> >>]
        BY <2>14, <2>18
      <4>2. local' = [local EXCEPT ![t] = l]
        BY <1>1, <3>1, <4>1 DEF TypeInv
      <4> QED BY <2>14, <4>2 DEF Moves, Go
    <3> QED BY <1>1, <2>1, <2>14, <2>18, <3>2, <3>3 DEF Begins
  <2>21. CASE empty
    <3>1. PICK c : c = WithoutBlock(V[i], b)
      OBVIOUS
    <3>2. PICK W : W = Put(V, i, c)
      OBVIOUS
    <3>3. /\ c \in Contents /\ W \in Disks /\ j # i
          /\ TreeUsing(W, I \ {j}, (BlocksOn(V, I) \ Own(V, j)) \ {b})
      <4>1. WithoutEntry(V[b], k) = NewDirentries
        BY <2>12, <2>13, <2>21
      <4>2. TreeOn(V, I) /\ EntryAt(V, b, k) /\ j = Target(V, b, k)
        BY <2>3, <2>10, <2>11
      <4>3. c \in Contents /\ W \in Disks /\ j # i /\ LeavesOutToo(V, I, j, b, W)
        BY <2>15, <3>1, <3>2, <4>1, <4>2, DropBlock
      <4> QED BY <4>3 DEF LeavesOutToo
    <3>4. PICK l : Begins(t, j, i, c, l) /\ l.frees = fr
      BY <2>2, <2>20, <2>21, <3>1, <3>3
    <3>5. Unlinks(V, I, i, j, i, c, Range(fr), W)
      <4>1. i \in Region(W, i)
        BY DEF Region
      <4>2. Range(fr) = Own(V, j) \cup {j} \cup {b} /\ {b} \in SUBSET BlocksOn(V, I)
        BY <2>18, <2>19, <2>21
      <4> QED BY <2>5, <2>11, <3>2, <3>3, <4>1, <4>2 DEF Unlinks
    <3> QED BY <2>2, <3>4, <3>5, BeginDelete
  <2>22. CASE ~empty
    <3>1. PICK W : W = Put(V, b, rest)
      OBVIOUS
    <3>2. /\ rest \in Contents /\ W \in Disks /\ j # i
          /\ TreeUsing(W, I \ {j}, BlocksOn(V, I) \ Own(V, j))
      <4>1. rest # NewDirentries
        BY <2>13, <2>22
      <4>2. TreeOn(V, I) /\ EntryAt(V, b, k) /\ j = Target(V, b, k)
        BY <2>3, <2>10, <2>11
      <4>3. rest \in Contents /\ W \in Disks /\ j # i /\ LeavesOut(V, I, j, W)
        BY <2>12, <2>15, <3>1, <4>1, <4>2, DropEntry
      <4> QED BY <4>3 DEF LeavesOut
    <3>3. PICK l : Begins(t, j, b, rest, l) /\ l.frees = fr
      BY <2>16, <2>20, <2>22, <3>2
    <3>4. Unlinks(V, I, i, j, b, rest, Range(fr), W)
      <4>1. b \in Region(W, i)
        <5>1. W[i] = V[i]
          BY <2>2, <2>16, <3>1 DEF Put, Disks
        <5> QED BY <5>1 DEF Region, Own
      <4>2. Range(fr) = Own(V, j) \cup {j} \cup {} /\ {} \in SUBSET BlocksOn(V, I)
        BY <2>18, <2>22
      <4>3. TreeUsing(W, I \ {j}, (BlocksOn(V, I) \ Own(V, j)) \ {})
        <5>1. (BlocksOn(V, I) \ Own(V, j)) \ {} = BlocksOn(V, I) \ Own(V, j)
          OBVIOUS
        <5> QED BY <3>2, <5>1
      <4> QED BY <2>5, <2>11, <3>1, <3>2, <4>1, <4>2, <4>3 DEF Unlinks
    <3> QED BY <2>2, <3>3, <3>4, BeginDelete
  <2> QED BY <2>21, <2>22
<1> QED BY <1>2, <1>3

-----------------------------------------------------------------------------
(* disk_writeblock.                                                         *)

\* What a WRITE or a create is about to write.
Form(V, r, l) ==
  \/ r.type = "WRITE" /\ (Overwriting(V, l) \/ Appending(V, l))
  \/ r.type = "CREATE" /\ Creating(V, l)

\* There is something to write.
LEMMA FormWrites ==
  ASSUME NEW V, NEW r, NEW l, Form(V, r, l)
  PROVE  l.writes # <<>>
<1>1. Overwriting(V, l) => l.writes # <<>>
  BY WritesLeft DEF Overwriting
<1>2. Appending(V, l) => l.writes # <<>>
  BY WritesLeft DEF Appending
<1>3. Inserting(V, l) => l.writes # <<>>
  BY WritesLeft DEF Inserting, InsertingAt
<1>4. Extending(V, l) => l.writes # <<>>
  BY WritesLeft DEF Extending, ExtendingAt
<1> QED BY <1>1, <1>2, <1>3, <1>4 DEF Form, Creating

\* The last write links what was reserved, and the others leave the tree as it is.
LEMMA FormStep ==
  ASSUME NEW V, NEW I, NEW l, NEW b, NEW c, NEW W, Writing(V, I, l, b, c, W),
         NEW r, Form(V, r, l), NEW m, Shift(l, m)
  PROVE  /\ Within(V, l, b, c)
         /\ \/ Len(l.writes) = 1 /\ Linked(V, I, l, W)
            \/ Len(l.writes) # 1 /\ Kept(V, I, W) /\ Form(W, r, m)
<1>1. CASE r.type = "WRITE" /\ Overwriting(V, l)
  BY <1>1, OverwritingStep
<1>2. CASE r.type = "WRITE" /\ Appending(V, l)
  <2>1. /\ Within(V, l, b, c)
        /\ \/ Len(l.writes) = 1 /\ Linked(V, I, l, W)
           \/ Len(l.writes) # 1 /\ Kept(V, I, W) /\ Appending(W, m)
    BY <1>2, AppendingStep
  <2> QED BY <1>2, <2>1 DEF Form
<1>3. CASE r.type = "CREATE" /\ Inserting(V, l)
  <2>1. /\ Within(V, l, b, c)
        /\ \/ Len(l.writes) = 1 /\ Linked(V, I, l, W)
           \/ Len(l.writes) # 1 /\ Kept(V, I, W) /\ Inserting(W, m)
    BY <1>3, InsertingStep
  <2> QED BY <1>3, <2>1 DEF Form, Creating
<1>4. CASE r.type = "CREATE" /\ Extending(V, l)
  <2>1. /\ Within(V, l, b, c)
        /\ \/ Len(l.writes) = 1 /\ Linked(V, I, l, W)
           \/ Len(l.writes) # 1 /\ Kept(V, I, W) /\ Extending(W, m)
    BY <1>4, ExtendingStep
  <2> QED BY <1>4, <2>1 DEF Form, Creating
<1> QED BY <1>1, <1>2, <1>3, <1>4 DEF Form, Creating

\* A thread that deletes nothing writes, and the others see it but what they have
\* locked or reserved is as before.
LEMMA WriteView ==
  ASSUME NEW V \in Disks, NEW I \in SUBSET Blocks, InvOn(V, I), NEW t \in Threads,
         HoldsCurr(pc[t]), ~Deleting(t), ~Deleting(t)', Only(t),
         NEW b, NEW c, Within(V, local[t], b, c), disk' = Put(disk, b, c),
         NEW W \in Disks, W = Put(V, b, c)
  PROVE  /\ OnView(W)'
         /\ \A u \in Threads : u # t /\ HoldsCurr(pc[u]) =>
              \A x \in Region(V, local[u].curr) \cup local[u].reserved : W[x] = V[x]
<1>1. b \in Blocks /\ b \in Region(V, local[t].curr) \cup local[t].reserved
  BY DEF Within
<1>2. W[b] = c /\ \A x \in Blocks : x # b => W[x] = V[x]
  BY <1>1 DEF Put, Disks
<1>3. disk'[b] = c /\ \A x \in Blocks : x # b => disk'[x] = disk[x]
  BY <1>1 DEF Put, Disks, InvOn, TypeInv
<1>4. \A u \in Threads : u # t =>
        /\ ~Removes(u, b)
        /\ HoldsCurr(pc[u]) => b \notin Region(V, local[u].curr) \cup local[u].reserved
  BY <1>1, Apart
<1>5. \A u \in Threads : \A x : Removes(u, x)' <=> Removes(u, x)
  <2> SUFFICES ASSUME NEW u \in Threads, NEW x PROVE Removes(u, x)' <=> Removes(u, x)
    OBVIOUS
  <2>1. CASE u = t
    BY <2>1 DEF Removes
  <2>2. CASE u # t
    BY <2>2 DEF Removes, Deleting, Only
  <2> QED BY <2>1, <2>2
<1>6. \A u \in Threads : \A x : Removes(u, x) => local'[u] = local[u]
  BY DEF Removes, Only
<1>7. OnView(W)'
  <2>1. \A x \in Blocks :
          /\ (\A u \in Threads : ~Removes(u, x)) => V[x] = disk[x]
          /\ \A u \in Threads : Removes(u, x) => V[x] = local[u].writes[1][2]
    BY DEF InvOn, OnView
  <2>2. \A x : ~Removes(t, x)
    BY DEF Removes
  <2> SUFFICES ASSUME NEW x \in Blocks
               PROVE  /\ (\A u \in Threads : ~Removes(u, x)') => W[x] = disk'[x]
                      /\ \A u \in Threads : Removes(u, x)' => W[x] = local'[u].writes[1][2]
    BY DEF OnView
  <2>3. CASE x = b
    BY <1>2, <1>3, <1>4, <1>5, <2>2, <2>3
  <2>4. CASE x # b
    BY <1>2, <1>3, <1>5, <1>6, <2>1, <2>4
  <2> QED BY <2>3, <2>4
<1>8. ASSUME NEW u \in Threads, u # t, HoldsCurr(pc[u]),
             NEW x \in Region(V, local[u].curr) \cup local[u].reserved
      PROVE  W[x] = V[x]
  <2>1. x \in Blocks
    BY <1>8, Holder DEF Locals
  <2> QED BY <1>2, <1>4, <1>8, <2>1
<1> QED BY <1>7, <1>8

\* A thread that has ended has taken nothing.
LEMMA NothingTaken == Taken(NoLocals) = {} /\ IsInjective(NoLocals.frees)
BY EmptyQueue DEF NoLocals, Taken

\* The last write of a WRITE or a create.
LEMMA LastWrite ==
  ASSUME NEW V \in Disks, NEW I \in SUBSET Blocks, InvOn(V, I), NEW t \in Threads,
         pc[t] = "write", ~Deleting(t), local[t].frees = <<>>,
         NEW b, NEW c, Within(V, local[t], b, c), disk' = Put(disk, b, c), UNCHANGED disk_block,
         NEW W, W = Put(V, b, c), Linked(V, I, local[t], W),
         NEW answer \in Answers, Return(t, answer)
  PROVE  Inv'
<1>1. PICK J \in SUBSET Blocks :
        /\ W \in Disks /\ TreeOn(W, J) /\ I \subseteq J
        /\ J \cup BlocksOn(W, J) = I \cup BlocksOn(V, I) \cup local[t].reserved
  BY DEF Linked
<1>2. TypeInv /\ HoldsCurr(pc[t]) /\ b \in Blocks /\ c \in Contents
  BY DEF InvOn, HoldsCurr, Within
<1>3. disk' \in Disks /\ disk_block' \in [Blocks -> BOOLEAN] /\ disk_block' = disk_block
  BY <1>2 DEF TypeInv, Put, Disks
<1>4. /\ TypeInv' /\ Only(t)
      /\ pc'[t] = "done" /\ local'[t] = NoLocals /\ request'[t] = None
  BY <1>2, <1>3, ReturnTyped
<1>5. ~Deleting(t)'
  BY <1>4 DEF Deleting
<1>6. /\ OnView(W)'
      /\ \A u \in Threads : u # t /\ HoldsCurr(pc[u]) =>
           \A x \in Region(V, local[u].curr) \cup local[u].reserved : W[x] = V[x]
  BY <1>1, <1>2, <1>4, <1>5, WriteView
<1>7. LocksInv'
  BY <1>2, <1>4, ReturnLocks DEF InvOn, HoldsCurr, Return
<1>8. ThreadInv(W, J, pc'[t], request'[t], local'[t])
  BY <1>4 DEF ThreadInv, HoldsCurr
<1>9. AccountOn(J \cup BlocksOn(W, J))'
  <2>1. PICK U : U = I \cup BlocksOn(V, I)
    OBVIOUS
  <2>2. PICK U2 : U2 = J \cup BlocksOn(W, J)
    OBVIOUS
  <2>3. AccountOn(U)
    BY <2>1 DEF InvOn
  <2>4. Taken(local'[t]) = {} /\ IsInjective(local'[t].frees)
    BY <1>4, NothingTaken
  <2>5. Taken(local[t]) = local[t].reserved
    BY EmptyQueue DEF Taken
  <2>6. \A x : x \in U2 <=> x \in U \/ x \in Taken(local[t])
    BY <1>1, <2>1, <2>2, <2>5
  <2>7. \A x \in Blocks :
          /\ disk_block[x] => x \notin U
          /\ x \in Taken(local[t]) => ~disk_block[x]
    BY <2>3 DEF AccountOn
  <2>8. \A x \in Blocks :
           /\ disk_block'[x] \/ x \in U2 \/ x \in Taken(local'[t])
                <=> disk_block[x] \/ x \in U \/ x \in Taken(local[t])
           /\ disk_block'[x] => x \notin U2
           /\ x \in Taken(local'[t]) => ~disk_block'[x] /\ x \notin U2
    BY <1>3, <2>4, <2>6, <2>7
  <2>9. AccountOn(U2)'
    BY <1>2, <1>4, <2>3, <2>4, <2>8, AccountStep
  <2> QED BY <2>2, <2>9
<1>10. ASSUME NEW u \in Threads, u # t, HoldsCurr(pc[u])
       PROVE  /\ local[u].curr \in J
              /\ \A x \in Region(V, local[u].curr) \cup local[u].reserved : W[x] = V[x]
  BY <1>1, <1>6, <1>10, Holder
<1>11. W \in Disks /\ TreeOn(W, J) /\ OnView(W)' /\ Only(t) /\ TypeInv'
  BY <1>1, <1>4, <1>6
<1> QED BY <1>7, <1>8, <1>9, <1>10, <1>11, StepKeeps

\* A write before the last one.
LEMMA EarlyWrite ==
  ASSUME NEW V \in Disks, NEW I \in SUBSET Blocks, InvOn(V, I), NEW t \in Threads,
         pc[t] = "write", ~Deleting(t), local[t].frees = <<>>, request[t].type # "DELETE",
         NEW b, NEW c, Within(V, local[t], b, c), disk' = Put(disk, b, c), UNCHANGED disk_block,
         NEW W, W = Put(V, b, c), Kept(V, I, W),
         NEW m, Shift(local[t], m), m.frees = <<>>, Form(W, request[t], m),
         Moves(t, "write", m), disk_block_lock' = disk_block_lock
  PROVE  Inv'
<1>1. W \in Disks /\ TreeOn(W, I) /\ BlocksOn(W, I) = BlocksOn(V, I)
  BY DEF Kept, TreeUsing
<1>2. /\ TypeInv /\ HoldsCurr(pc[t]) /\ b \in Blocks /\ c \in Contents /\ m \in Locals
      /\ pc[t] \in Running /\ "write" \in Running
  BY DEF InvOn, HoldsCurr, Within, Shift, Running, Places
<1>3. disk' \in Disks /\ disk_block' \in [Blocks -> BOOLEAN] /\ disk_block' = disk_block
  BY <1>2 DEF TypeInv, Put, Disks
<1>4. PICK H : H = HeldBy("write", request[t], m) /\ H = HeldBy(pc[t], request[t], local[t])
  BY DEF HeldBy, Shift
<1>5. disk_block_lock' \in LockTypes /\ LocksGo(t, H)
  BY <1>4, SameLocks
<1>6. /\ TypeInv' /\ Only(t)
      /\ pc'[t] = "write" /\ local'[t] = m /\ request'[t] = request[t]
  BY <1>2, <1>3, <1>5, MoveTyped
<1>7. ~Deleting(t)'
  BY <1>6 DEF Deleting
<1>8. /\ OnView(W)'
      /\ \A u \in Threads : u # t /\ HoldsCurr(pc[u]) =>
           \A x \in Region(V, local[u].curr) \cup local[u].reserved : W[x] = V[x]
  BY <1>1, <1>2, <1>6, <1>7, WriteView
<1>9. LocksInv'
  BY <1>2, <1>4, <1>5, <1>6, LocksStep DEF InvOn
<1>10. \A u \in Threads : HoldsCurr(pc[u]) => local[u].curr \in I
  BY Holder
<1>11. ThreadInv(W, I, pc'[t], request'[t], local'[t])
  <2>1. m.curr \in I
    BY <1>2, <1>10 DEF Shift
  <2> QED BY <1>6, <2>1 DEF ThreadInv, HoldsCurr, Form
<1>12. AccountOn(I \cup BlocksOn(W, I))'
  <2>1. PICK U : U = I \cup BlocksOn(V, I)
    OBVIOUS
  <2>2. AccountOn(U)
    BY <2>1 DEF InvOn
  <2>3. Taken(local'[t]) = Taken(local[t]) /\ IsInjective(local'[t].frees)
    BY <1>6, EmptyQueue DEF Taken, Shift
  <2>4. \A x \in Blocks :
          /\ disk_block[x] => x \notin U
          /\ x \in Taken(local[t]) => ~disk_block[x] /\ x \notin U
    BY <2>2 DEF AccountOn
  <2>5. \A x \in Blocks :
           /\ disk_block'[x] \/ x \in U \/ x \in Taken(local'[t])
                <=> disk_block[x] \/ x \in U \/ x \in Taken(local[t])
           /\ disk_block'[x] => x \notin U
           /\ x \in Taken(local'[t]) => ~disk_block'[x] /\ x \notin U
    BY <1>3, <2>3, <2>4
  <2>6. AccountOn(U)'
    BY <1>2, <1>6, <2>2, <2>3, <2>5, AccountStep
  <2> QED BY <1>1, <2>1, <2>6
<1> QED BY <1>1, <1>6, <1>8, <1>9, <1>10, <1>11, <1>12, StepKeeps

\* The write of a delete: the disk becomes what the threads see.
LEMMA RemovalWrite ==
  ASSUME NEW V \in Disks, NEW I \in SUBSET Blocks, InvOn(V, I), NEW t \in Threads,
         pc[t] = "write", NEW b, Removes(t, b), disk' = Put(disk, b, V[b]), UNCHANGED disk_block,
         NEW answer \in Answers, Return(t, answer)
  PROVE  Inv'
<1>1. /\ TypeInv /\ HoldsCurr(pc[t]) /\ request[t].type = "DELETE"
      /\ local[t].frees = <<>> /\ Removing(V, local[t])
  BY DEF InvOn, HoldsCurr, Removes, Deleting, ThreadInv
<1>2. b \in Blocks /\ b \in Region(V, local[t].curr) \cup local[t].reserved
  BY Remover, Holder
<1>3. disk' \in Disks /\ disk'[b] = V[b] /\ \A x \in Blocks : x # b => disk'[x] = disk[x]
  BY <1>1, <1>2 DEF TypeInv, Put, Disks
<1>4. disk_block' \in [Blocks -> BOOLEAN] /\ disk_block' = disk_block
  BY <1>1 DEF TypeInv
<1>5. /\ TypeInv' /\ Only(t)
      /\ pc'[t] = "done" /\ local'[t] = NoLocals /\ request'[t] = None
  BY <1>1, <1>3, <1>4, ReturnTyped
<1>6. OnView(V)'
  <2>1. \A x : ~Removes(t, x)'
    BY <1>5 DEF Removes, Deleting
  <2>2. \A x : Removes(t, x) => x = b
    BY DEF Removes
  <2>3. \A u \in Threads : u # t =>
          \A x : (Removes(u, x)' <=> Removes(u, x)) /\ local'[u] = local[u]
    BY <1>5 DEF Only, Removes, Deleting
  <2>4. \A u \in Threads : u # t => ~Removes(u, b)
    BY <1>1, <1>2, Apart
  <2>5. \A x \in Blocks :
          /\ (\A u \in Threads : ~Removes(u, x)) => V[x] = disk[x]
          /\ \A u \in Threads : Removes(u, x) => V[x] = local[u].writes[1][2]
    BY DEF InvOn, OnView
  <2> SUFFICES ASSUME NEW x \in Blocks
               PROVE  /\ (\A u \in Threads : ~Removes(u, x)') => V[x] = disk'[x]
                      /\ \A u \in Threads : Removes(u, x)' => V[x] = local'[u].writes[1][2]
    BY DEF OnView
  <2>6. CASE x = b
    BY <1>3, <2>1, <2>3, <2>4, <2>6
  <2>7. CASE x # b
    <3>1. \A u \in Threads : Removes(u, x)' <=> Removes(u, x)
      BY <2>1, <2>2, <2>3, <2>7
    <3>2. ASSUME NEW u \in Threads, Removes(u, x)' PROVE local'[u] = local[u]
      BY <2>1, <2>3, <3>2
    <3>3. disk'[x] = disk[x]
      BY <1>3, <2>7
    <3>4. ASSUME \A u \in Threads : ~Removes(u, x)' PROVE V[x] = disk'[x]
      BY <2>5, <3>1, <3>3, <3>4
    <3>5. ASSUME NEW u \in Threads, Removes(u, x)' PROVE V[x] = local'[u].writes[1][2]
      <4>1. V[x] = local[u].writes[1][2]
        BY <2>5, <3>1, <3>5
      <4> QED BY <3>2, <3>5, <4>1
    <3> QED BY <3>4, <3>5
  <2> QED BY <2>6, <2>7
<1>7. LocksInv'
  BY <1>1, <1>5, ReturnLocks DEF InvOn, HoldsCurr, Return
<1>8. ThreadInv(V, I, pc'[t], request'[t], local'[t])
  BY <1>5 DEF ThreadInv, HoldsCurr
<1>9. AccountOn(I \cup BlocksOn(V, I))'
  <2>1. PICK U : U = I \cup BlocksOn(V, I)
    OBVIOUS
  <2>2. AccountOn(U)
    BY <2>1 DEF InvOn
  <2>3. Taken(local'[t]) = {} /\ IsInjective(local'[t].frees)
    BY <1>5, NothingTaken
  <2>4. Taken(local[t]) = {}
    BY <1>1, EmptyQueue DEF Taken, Removing
  <2>5. \A x \in Blocks : disk_block[x] => x \notin U
    BY <2>2 DEF AccountOn
  <2>6. \A x \in Blocks :
           /\ disk_block'[x] \/ x \in U \/ x \in Taken(local'[t])
                <=> disk_block[x] \/ x \in U \/ x \in Taken(local[t])
           /\ disk_block'[x] => x \notin U
           /\ x \in Taken(local'[t]) => ~disk_block'[x] /\ x \notin U
    BY <1>4, <2>3, <2>4, <2>5
  <2>7. AccountOn(U)'
    BY <1>1, <1>5, <2>2, <2>3, <2>6, AccountStep
  <2> QED BY <2>1, <2>7
<1>10. TreeOn(V, I) /\ \A u \in Threads : HoldsCurr(pc[u]) => local[u].curr \in I
  BY Holder DEF InvOn
<1> QED BY <1>5, <1>6, <1>7, <1>8, <1>9, <1>10, StepKeeps

\* The write of a WRITE or a create, and what the thread does then.
LEMMA WriteFacts ==
  ASSUME NEW V \in Disks, NEW I \in SUBSET Blocks, InvOn(V, I), NEW t \in Threads, Write(t),
         request[t].type # "DELETE"
  PROVE  /\ ~Deleting(t) /\ local[t].frees = <<>> /\ disk_block' = disk_block
         /\ \E b, c, W, m :
              /\ Within(V, local[t], b, c) /\ disk' = Put(disk, b, c) /\ W = Put(V, b, c)
              /\ Shift(local[t], m) /\ m.frees = <<>>
              /\ \/ /\ Len(local[t].writes) = 1 /\ Linked(V, I, local[t], W)
                    /\ \E answer \in Answers : Return(t, answer)
                 \/ /\ Len(local[t].writes) # 1 /\ Kept(V, I, W) /\ Form(W, request[t], m)
                    /\ Moves(t, "write", m) /\ disk_block_lock' = disk_block_lock
<1>1. /\ TypeInv /\ ThreadInv(V, I, "write", request[t], local[t])
      /\ local[t] \in Locals /\ pc[t] = "write"
  BY DEF InvOn, TypeInv, Write
<1>2. /\ local[t].frees = <<>> /\ local[t].curr \in I
      /\ Form(V, request[t], local[t]) /\ ~Deleting(t)
  BY <1>1 DEF ThreadInv, HoldsCurr, Form, Deleting
<1>3. PICK b, c : b = local[t].writes[1][1] /\ c = local[t].writes[1][2]
  OBVIOUS
<1>4. disk' = Put(disk, b, c) /\ disk_block' = disk_block
  <2>1. Head(local[t].writes) = local[t].writes[1]
    OBVIOUS
  <2> QED BY <1>3, <2>1 DEF Write, Put
<1>5. PICK q \in Seq(Blocks \X Contents) : q = local[t].writes /\ q # <<>>
  BY <1>1, <1>2, FormWrites DEF Locals
<1>6. PICK s \in Seq(Blocks \X Contents) : s = Tail(q)
  BY <1>5, PopQueue
<1>7. PICK m \in Locals : m = [local[t] EXCEPT !.writes = s]
  BY <1>1 DEF Locals
<1>8. Shift(local[t], m) /\ m.frees = <<>>
  BY <1>1, <1>2, <1>5, <1>6, <1>7 DEF Shift, Locals
<1>9. PICK W : W = Put(V, b, c)
  OBVIOUS
<1>10. Writing(V, I, local[t], b, c, W)
  <2>1. local[t].reserved \cap (I \cup BlocksOn(V, I)) = {}
    BY TakenApart DEF Taken
  <2> QED BY <1>1, <1>2, <1>3, <1>9, <2>1 DEF Writing, InvOn
<1>11. /\ Within(V, local[t], b, c)
       /\ \/ Len(local[t].writes) = 1 /\ Linked(V, I, local[t], W)
          \/ Len(local[t].writes) # 1 /\ Kept(V, I, W) /\ Form(W, request[t], m)
  BY <1>2, <1>8, <1>10, FormStep
<1>12. Len(local[t].writes) = 1 => \E answer \in Answers : Return(t, answer)
  BY AnswerTyped DEF Write
<1>13. Len(local[t].writes) # 1 => Moves(t, "write", m) /\ disk_block_lock' = disk_block_lock
  <2> SUFFICES ASSUME Len(local[t].writes) # 1
               PROVE  Moves(t, "write", m) /\ disk_block_lock' = disk_block_lock
    OBVIOUS
  <2>1. local' = [local EXCEPT ![t].writes = s] /\ pc' = [pc EXCEPT ![t] = "write"]
    BY <1>1, <1>5, <1>6 DEF Write, TypeInv
  <2> QED BY <1>7, <2>1 DEF Write, Moves
<1> QED BY <1>2, <1>4, <1>8, <1>9, <1>11, <1>12, <1>13

\* The write of a delete is the one the others have seen already.
LEMMA RemovalFacts ==
  ASSUME NEW V \in Disks, NEW I \in SUBSET Blocks, InvOn(V, I), NEW t \in Threads, Write(t),
         request[t].type = "DELETE"
  PROVE  \E b : /\ Removes(t, b) /\ disk' = Put(disk, b, V[b]) /\ disk_block' = disk_block
                /\ \E answer \in Answers : Return(t, answer)
<1>1. pc[t] = "write" /\ request[t] # None
  BY DEF InvOn, TypeInv, Write
<1>2. PICK b, c : b = local[t].writes[1][1] /\ c = local[t].writes[1][2]
  OBVIOUS
<1>3. disk' = Put(disk, b, c) /\ disk_block' = disk_block
  <2>1. Head(local[t].writes) = local[t].writes[1]
    OBVIOUS
  <2> QED BY <1>2, <2>1 DEF Write, Put
<1>4. Removes(t, b)
  BY <1>1, <1>2 DEF Removes, Deleting
<1>5. local[t].writes = << <<b, V[b]>> >>
  BY <1>4, Remover
<1>6. c = V[b] /\ Len(local[t].writes) = 1
  BY <1>2, <1>5
<1>7. \E answer \in Answers : Return(t, answer)
  BY <1>6, AnswerTyped DEF Write
<1> QED BY <1>3, <1>4, <1>6, <1>7

\* Write.
LEMMA WriteStep ==
  ASSUME NEW V \in Disks, NEW I \in SUBSET Blocks, InvOn(V, I), NEW t \in Threads, Write(t)
  PROVE  Inv'
<1>1. pc[t] = "write"
  BY DEF Write
<1>2. CASE request[t].type = "DELETE"
  <2>1. PICK b : /\ Removes(t, b) /\ disk' = Put(disk, b, V[b]) /\ disk_block' = disk_block
                 /\ \E answer \in Answers : Return(t, answer)
    BY <1>2, RemovalFacts
  <2> QED BY <1>1, <2>1, RemovalWrite
<1>3. CASE request[t].type # "DELETE"
  <2>1. ~Deleting(t) /\ local[t].frees = <<>> /\ disk_block' = disk_block
    BY <1>3, WriteFacts
  <2>2. PICK b, c, W, m :
          /\ Within(V, local[t], b, c) /\ disk' = Put(disk, b, c) /\ W = Put(V, b, c)
          /\ Shift(local[t], m) /\ m.frees = <<>>
          /\ \/ /\ Len(local[t].writes) = 1 /\ Linked(V, I, local[t], W)
                /\ \E answer \in Answers : Return(t, answer)
             \/ /\ Len(local[t].writes) # 1 /\ Kept(V, I, W) /\ Form(W, request[t], m)
                /\ Moves(t, "write", m) /\ disk_block_lock' = disk_block_lock
    BY <1>3, WriteFacts
  <2>3. CASE Linked(V, I, local[t], W) /\ \E answer \in Answers : Return(t, answer)
    <3>1. PICK answer \in Answers : Return(t, answer)
      BY <2>3
    <3> QED BY <1>1, <2>1, <2>2, <2>3, <3>1, LastWrite
  <2>4. CASE /\ Kept(V, I, W) /\ Form(W, request[t], m)
             /\ Moves(t, "write", m) /\ disk_block_lock' = disk_block_lock
    BY <1>1, <1>3, <2>1, <2>2, <2>4, EarlyWrite
  <2> QED BY <2>2, <2>3, <2>4
<1> QED BY <1>2, <1>3

-----------------------------------------------------------------------------
(* The invariant.                                                           *)

\* Every step of a thread keeps it.
LEMMA ThreadStep ==
  ASSUME NEW V \in Disks, NEW I \in SUBSET Blocks, InvOn(V, I), NEW t \in Threads, Step(t)
  PROVE  Inv'
<1>1. CASE Reserve(t)
  BY <1>1, ReserveStep
<1>2. CASE LockRoot(t)
  BY <1>2, LockRootStep
<1>3. CASE Lookup(t)
  BY <1>3, LookupStep
<1>4. CASE LockNext(t)
  BY <1>4, LockNextStep
<1>5. CASE ReadBlock(t)
  BY <1>5, ReadBlockStep
<1>6. CASE WriteBlock(t)
  BY <1>6, WriteBlockStep
<1>7. CASE Create_attempt(t)
  BY <1>7, CreateStep
<1>8. CASE LockNew(t)
  BY <1>8, LockNewStep
<1>9. CASE Unreserve(t)
  BY <1>9, UnreserveStep
<1>10. CASE Delete_find(t)
  BY <1>10, DeleteFindStep
<1>11. CASE Delete_attempt(t)
  BY <1>11, DeleteAttemptStep
<1>12. CASE SetFree(t)
  BY <1>12, SetFreeStep
<1>13. CASE Write(t)
  BY <1>13, WriteStep
<1> QED BY <1>1, <1>2, <1>3, <1>4, <1>5, <1>6, <1>7, <1>8, <1>9, <1>10, <1>11, <1>12, <1>13
        DEF Step

\* ... and so does every step of the server.
LEMMA NextInv ==
  ASSUME ~CrashesTearDeletes, Inv, [Next]_vars
  PROVE  Inv'
<1>1. PICK V \in Disks, I \in SUBSET Blocks : InvOn(V, I)
  BY DEF Inv
<1>2. ASSUME NEW t \in Threads, NEW r \in Requests, Receive(t, r) PROVE Inv'
  BY <1>1, <1>2, ReceiveStep
<1>3. ASSUME NEW t \in Threads, Step(t) PROVE Inv'
  BY <1>1, <1>3, ThreadStep
<1>4. CASE Crash
  BY <1>4, CrashStep
<1>5. CASE UNCHANGED vars
  <2>1. InvOn(V, I)'
    BY <1>1, <1>5 DEF vars, InvOn, TypeInv, OnView, Removes, Deleting, LocksInv, AccountOn
  <2> QED BY <2>1 DEF Inv
<1> QED BY <1>2, <1>3, <1>4, <1>5 DEF Next, Ended

\* In every behaviour.
LEMMA Invariance ==
  ASSUME ~CrashesTearDeletes
  PROVE  Spec => []Inv
BY InitInv, NextInv, PTL DEF Spec

-----------------------------------------------------------------------------
(* What the invariant says.                                                 *)

\* A thread has locks, blocks and writes pending only where its code may.
LEMMA InvTypeOK ==
  ASSUME Inv
  PROVE  TypeOK
<1>1. PICK V \in Disks, I \in SUBSET Blocks : InvOn(V, I)
  BY DEF Inv
<1>2. TypeInv
  BY <1>1 DEF InvOn
<1>3. ASSUME NEW t \in Threads
      PROVE  /\ pc[t] \in {"idle", "reserve", "done"} => local[t] = NoLocals
             /\ local[t].reserved # {} => request[t].type \in {"CREATE", "WRITE"}
             /\ local[t].frees # <<>> <=> pc[t] = "free"
             /\ pc[t] = "write" => local[t].writes # <<>>
  <2>1. ThreadInv(V, I, pc[t], request[t], local[t]) /\ pc[t] \in Places
    BY <1>1, <1>2 DEF InvOn, TypeInv
  <2>2. CASE pc[t] \in {"idle", "reserve", "done"}
    BY <2>1, <2>2 DEF ThreadInv, NoLocals
  <2>3. CASE pc[t] \in {"lock_root", "lookup", "lock_next", "attempt", "lock_victim", "unreserve"}
    BY <2>1, <2>3 DEF ThreadInv
  <2>4. CASE pc[t] = "lock_new"
    BY <2>1, <2>4 DEF ThreadInv
  <2>5. CASE pc[t] = "free"
    BY <2>1, <2>5 DEF ThreadInv, Removing
  <2>6. CASE pc[t] = "write"
    <3>1. local[t].frees = <<>>
      BY <2>1, <2>6 DEF ThreadInv
    <3>2. CASE Form(V, request[t], local[t])
      <4>1. local[t].writes # <<>>
        BY <3>2, FormWrites
      <4>2. request[t].type \in {"CREATE", "WRITE"}
        BY <3>2 DEF Form
      <4> QED BY <2>6, <3>1, <4>1, <4>2
    <3>3. CASE Removing(V, local[t])
      <4>1. local[t].writes # <<>> /\ local[t].reserved = {}
        BY <3>3, WritesLeft DEF Removing
      <4> QED BY <2>6, <3>1, <4>1
    <3> QED BY <2>1, <2>6, <3>2, <3>3 DEF ThreadInv, Form
  <2> QED BY <2>1, <2>2, <2>3, <2>4, <2>5, <2>6 DEF Places
<1>4. DOMAIN disk = Blocks
  BY <1>2 DEF TypeInv, Disks
<1> QED BY <1>2, <1>3, <1>4 DEF TypeOK, TypeInv

\* The threads see a tree.
LEMMA InvTreeIntact ==
  ASSUME Inv
  PROVE  TreeIntact
<1>1. PICK V \in Disks, I \in SUBSET Blocks : InvOn(V, I)
  BY DEF Inv
<1>2. V = View /\ IsTree(V)
  BY <1>1, ViewIs, OnIsTree DEF InvOn
<1> QED BY <1>2 DEF TreeIntact

\* A block has one use.
LEMMA InvBlocksAccounted ==
  ASSUME Inv
  PROVE  BlocksAccounted
<1>1. PICK V \in Disks, I \in SUBSET Blocks : InvOn(V, I)
  BY DEF Inv
<1>2. PICK U : U = I \cup BlocksOn(V, I)
  OBVIOUS
<1>3. AccountOn(U) /\ UsedBlocks(View) = U
  BY <1>1, <1>2, ViewIs, UsedDef DEF InvOn
<1> SUFFICES ASSUME NEW b \in Blocks
             PROVE  Cardinality((IF disk_block[b] THEN {"free"} ELSE {})
                                  \cup (IF b \in U THEN {"used"} ELSE {})
                                  \cup {<<t>> : t \in {u \in Threads :
                                          b \in local[u].reserved \cup Range(local[u].frees)}}) = 1
  BY <1>3 DEF BlocksAccounted
<1>4. PICK T : T = {u \in Threads : b \in local[u].reserved \cup Range(local[u].frees)}
  OBVIOUS
<1>5. \A u : u \in T <=> u \in Threads /\ b \in Taken(local[u])
  BY <1>4 DEF Taken
<1>6. PICK C : C = (IF disk_block[b] THEN {"free"} ELSE {})
                     \cup (IF b \in U THEN {"used"} ELSE {}) \cup {<<t>> : t \in T}
  OBVIOUS
<1>7. \E x : C = {x}
  <2>1. CASE disk_block[b]
    <3>1. b \notin U /\ T = {}
      BY <1>3, <1>5, <2>1 DEF AccountOn
    <3>2. C = {"free"}
      BY <1>6, <2>1, <3>1
    <3> QED BY <3>2
  <2>2. CASE b \in U
    <3>1. ~disk_block[b] /\ T = {}
      BY <1>3, <1>5, <2>2 DEF AccountOn
    <3>2. C = {"used"}
      BY <1>6, <2>2, <3>1
    <3> QED BY <3>2
  <2>3. CASE ~disk_block[b] /\ b \notin U
    <3>1. PICK t \in Threads : b \in Taken(local[t])
      BY <1>3, <2>3 DEF AccountOn
    <3>2. T = {t}
      BY <1>3, <1>5, <3>1 DEF AccountOn
    <3>3. C = {<<t>>}
      BY <1>6, <2>3, <3>2
    <3> QED BY <3>3
  <2> QED BY <2>1, <2>2, <2>3
<1>8. Cardinality(C) = 1
  BY <1>7, FS_Singleton
<1> QED BY <1>4, <1>6, <1>8

\* Who waits has the lock of an inode, and waits for one that is under it.
LEMMA InvNoWaitingCycle ==
  ASSUME Inv
  PROVE  NoWaitingCycle
<1>1. PICK V \in Disks, I \in SUBSET Blocks : InvOn(V, I)
  BY DEF Inv
<1> SUFFICES ASSUME NEW S \in SUBSET Threads, S # {},
                    \A t \in S : \E u \in S : WaitsFor(t, u)
             PROVE  FALSE
  BY DEF NoWaitingCycle
<1>2. ASSUME NEW t \in S
      PROVE  pc[t] \in {"lock_root", "lock_next", "lock_new", "lock_victim"}
  BY <1>2 DEF WaitsFor
<1>3. ASSUME NEW t \in S, NEW u \in S, WaitsFor(t, u)
      PROVE  HoldsCurr(pc[u]) /\ local[u].curr = WantedLock(t) /\ local[u].curr \in I
  <2>1. local[t] \in Locals
    BY <1>1 DEF InvOn, TypeInv
  <2>2. WantedLock(t) \in Blocks
    BY <2>1, BlockZero DEF WantedLock, Locals
  <2>3. WantedLock(t) \in HeldBy(pc[u], request[u], local[u])
    BY <1>1, <1>3, <2>2 DEF InvOn, LocksInv, WaitsFor
  <2>4. HoldsCurr(pc[u]) /\ local[u].curr = WantedLock(t)
    BY <1>2, <2>3 DEF HeldBy, HoldsNext, HoldsCurr
  <2> QED BY <1>1, <2>4, Holder
<1>4. ASSUME NEW t \in S PROVE pc[t] # "lock_new"
  <2>1. SUFFICES ASSUME pc[t] = "lock_new" PROVE FALSE
    OBVIOUS
  <2>2. PICK u \in S : local[u].curr = local[t].next /\ local[u].curr \in I
    BY <1>3, <2>1 DEF WantedLock
  <2>3. ThreadInv(V, I, pc[t], request[t], local[t])
    BY <1>1 DEF InvOn
  <2>4. Creating(V, local[t])
    BY <2>1, <2>3 DEF ThreadInv
  <2>5. local[t].next \in local[t].reserved
    BY <2>4 DEF Creating, Inserting, InsertingAt, Extending, ExtendingAt
  <2> QED BY <1>1, <2>2, <2>5, TakenApart DEF Taken
<1>5. PICK C : C = {local[t].curr : t \in {u \in S : HoldsCurr(pc[u])}}
  OBVIOUS
<1>6. C \in SUBSET I
  BY <1>1, <1>5, Holder
<1>7. ASSUME NEW x \in C PROVE \E y \in C : y \in Subinodes(V, x)
  <2>1. PICK t \in S : HoldsCurr(pc[t]) /\ x = local[t].curr
    BY <1>5, <1>7
  <2>2. pc[t] \in {"lock_next", "lock_victim"}
    BY <1>2, <1>4, <2>1 DEF HoldsCurr
  <2>3. local[t].next \in Subinodes(V, x) /\ WantedLock(t) = local[t].next
    BY <1>1, <2>1, <2>2 DEF InvOn, ThreadInv, WantedLock
  <2>4. PICK u \in S : HoldsCurr(pc[u]) /\ local[u].curr = local[t].next
    BY <1>3, <2>3
  <2> QED BY <1>5, <2>3, <2>4
<1>8. C = {}
  BY <1>1, <1>6, <1>7, NoCycle DEF InvOn
<1>9. C # {}
  BY <1>3, <1>5
<1> QED BY <1>8, <1>9

\* The disk changes only where the thread that writes has locked or reserved.
LEMMA WritePlace ==
  ASSUME NEW V \in Disks, NEW I \in SUBSET Blocks, InvOn(V, I), NEW t \in Threads, Write(t)
  PROVE  \E b \in Region(V, local[t].curr) \cup local[t].reserved :
           \A x \in Blocks : x # b => disk'[x] = disk[x]
<1>1. disk \in Disks
  BY DEF InvOn, TypeInv
<1>2. \A b, c : \A x \in Blocks : x # b => Put(disk, b, c)[x] = disk[x]
  BY <1>1 DEF Put, Disks
<1>3. CASE request[t].type = "DELETE"
  <2>1. PICK b : Removes(t, b) /\ disk' = Put(disk, b, V[b])
    BY <1>3, RemovalFacts
  <2>2. b \in Region(V, local[t].curr)
    BY <2>1, Remover
  <2> QED BY <1>2, <2>1, <2>2
<1>4. CASE request[t].type # "DELETE"
  <2>1. PICK b, c : Within(V, local[t], b, c) /\ disk' = Put(disk, b, c)
    BY <1>4, WriteFacts
  <2>2. b \in Region(V, local[t].curr) \cup local[t].reserved
    BY <2>1 DEF Within
  <2> QED BY <1>2, <2>1, <2>2
<1> QED BY <1>3, <1>4

\* ... so that a thread reads the same again.
LEMMA StableUnderLock ==
  ASSUME Inv, [Next]_vars, NEW t \in Threads,
         pc[t] \in {"lookup", "lock_next", "attempt", "lock_new", "lock_victim", "write"},
         ~Deleting(t), local'[t] = local[t], pc'[t] = pc[t]
  PROVE  UnderLock(disk', local[t].curr) = UnderLock(disk, local[t].curr)
<1>1. PICK V \in Disks, I \in SUBSET Blocks : InvOn(V, I)
  BY DEF Inv
<1>2. HoldsCurr(pc[t])
  BY DEF HoldsCurr
<1>3. CASE disk' = disk
  BY <1>3
<1>4. ASSUME NEW u \in Threads, Write(u)
      PROVE  UnderLock(disk', local[t].curr) = UnderLock(disk, local[t].curr)
  <2>1. u # t
    <3> SUFFICES ASSUME u = t PROVE FALSE
      OBVIOUS
    <3>1. request[t].type # "DELETE" /\ pc[t] = "write"
      <4>1. pc[t] = "write" /\ request[t] # None
        BY <1>1, <1>4 DEF Write, InvOn, TypeInv
      <4> QED BY <4>1 DEF Deleting
    <3>2. local[t].writes # <<>> /\ local[t] \in Locals
      <4>1. ThreadInv(V, I, "write", request[t], local[t]) /\ local[t] \in Locals
        BY <1>1, <3>1 DEF InvOn, TypeInv
      <4>2. Form(V, request[t], local[t])
        BY <3>1, <4>1 DEF ThreadInv, Form
      <4> QED BY <4>1, <4>2, FormWrites
    <3>3. PICK q \in Seq(Blocks \X Contents) : q = local[t].writes /\ q # <<>>
      BY <3>2 DEF Locals
    <3>4. pc \in [Threads -> Places] /\ local \in [Threads -> Locals]
      BY <1>1 DEF InvOn, TypeInv
    <3>5. CASE Len(local[t].writes) = 1
      <4>1. pc'[t] = "done"
        BY <1>4, <3>4, <3>5 DEF Write, Return
      <4> QED BY <3>1, <4>1
    <3>6. CASE Len(local[t].writes) # 1
      <4>1. local'[t].writes = Tail(q)
        BY <1>4, <3>3, <3>4, <3>6 DEF Write, Locals
      <4>2. Tail(q) # q
        <5>1. Len(Tail(q)) = Len(q) - 1 /\ Len(q) \in Nat
          BY <3>3, HeadTailProperties, LenProperties
        <5> QED BY <5>1
      <4> QED BY <3>3, <4>1, <4>2
    <3> QED BY <3>5, <3>6
  <2>2. PICK b \in Region(V, local[u].curr) \cup local[u].reserved :
          \A x \in Blocks : x # b => disk'[x] = disk[x]
    BY <1>1, <1>4, WritePlace
  <2>3. HoldsCurr(pc[u])
    BY <1>4 DEF Write, HoldsCurr
  <2>4. b \notin Region(V, local[t].curr)
    BY <1>1, <1>2, <2>1, <2>3, Apart
  <2>5. /\ Region(V, local[t].curr) \subseteq Blocks
        /\ local[t].curr \in Region(V, local[t].curr)
    BY <1>1, <1>2, Holder DEF Region
  <2>6. \A x \in Region(V, local[t].curr) : disk'[x] = disk[x] /\ disk[x] = V[x]
    BY <1>1, <1>2, <2>2, <2>4, <2>5, Agrees
  <2>7. \A k \in DOMAIN disk[local[t].curr].blocks :
          disk[local[t].curr].blocks[k] \in Region(V, local[t].curr)
    BY <2>5, <2>6 DEF Region, Own, Range
  <2> QED BY <2>5, <2>6, <2>7 DEF UnderLock
<1>5. ASSUME NEW u \in Threads, Step(u), ~Write(u) PROVE disk' = disk
  <2>1. Throw(u) => disk' = disk
    BY DEF Throw
  <2>2. CASE Reserve(u) \/ LockRoot(u) \/ Lookup(u) \/ LockNext(u)
    BY <2>1, <2>2 DEF Reserve, LockRoot, Lookup, LockNext
  <2>3. CASE ReadBlock(u) \/ WriteBlock(u)
    BY <2>1, <2>3 DEF ReadBlock, WriteBlock
  <2>4. CASE Create_attempt(u)
    BY <2>1, <2>4 DEF Create_attempt
  <2>5. CASE LockNew(u) \/ Unreserve(u) \/ SetFree(u)
    BY <2>5 DEF LockNew, Unreserve, SetFree
  <2>6. CASE Delete_find(u) \/ Delete_attempt(u)
    BY <2>1, <2>6 DEF Delete_find, Delete_attempt
  <2> QED BY <1>5, <2>2, <2>3, <2>4, <2>5, <2>6 DEF Step
<1>6. disk' = disk \/ \E u \in Threads : Step(u)
  BY DEF Next, Ended, vars, Receive, Crash
<1> QED BY <1>3, <1>4, <1>5, <1>6

-----------------------------------------------------------------------------
(* The theorems.                                                            *)

\* TypeOK: a thread has locks, blocks and writes pending only where it may.
THEOREM FileServerTypeCorrect ==
  ASSUME ~CrashesTearDeletes
  PROVE  Spec => []TypeOK
BY InvTypeOK, Invariance, PTL

\* TreeIntact: what the threads see is a tree at every moment, between the block
\* writes of a create, a write or a delete as well as after a crash.
THEOREM FileServerTreeIntact ==
  ASSUME ~CrashesTearDeletes
  PROVE  Spec => []TreeIntact
BY InvTreeIntact, Invariance, PTL

\* BlocksAccounted: no block is lost or used twice.
THEOREM FileServerBlocksAccounted ==
  ASSUME ~CrashesTearDeletes
  PROVE  Spec => []BlocksAccounted
BY InvBlocksAccounted, Invariance, PTL

\* NoWaitingCycle: no threads wait for the locks of one another in a circle.
THEOREM FileServerNoWaitingCycle ==
  ASSUME ~CrashesTearDeletes
  PROVE  Spec => []NoWaitingCycle
BY InvNoWaitingCycle, Invariance, PTL

\* LockedInodesStable: what a thread has read under the lock of an inode stays true
\* while it holds the lock.
THEOREM FileServerLockedInodesStable ==
  ASSUME ~CrashesTearDeletes
  PROVE  Spec => LockedInodesStable
<1>1. ASSUME Inv, [Next]_vars
      PROVE  [\A t \in Threads :
                /\ pc[t] \in {"lookup", "lock_next", "attempt", "lock_new", "lock_victim", "write"}
                /\ ~Deleting(t)
                /\ local'[t] = local[t]
                /\ pc'[t] = pc[t]
                => UnderLock(disk', local[t].curr) = UnderLock(disk, local[t].curr)]_vars
  BY <1>1, StableUnderLock
<1> QED BY <1>1, Invariance, PTL DEF Spec, LockedInodesStable
=============================================================================
