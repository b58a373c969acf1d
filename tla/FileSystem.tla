----------------------------- MODULE FileSystem ------------------------------
(***************************************************************************)
(* What the file server of src/Filesys promises to its clients (the calls  *)
(* of fs_client.h): a tree of files and directories with owners, in which  *)
(* each request takes effect at once.                                      *)
(***************************************************************************)
EXTENDS Naturals, FiniteSets, SequencesExt

CONSTANTS Threads, None, Requests, FS_DISKSIZE, FS_DIRENTRIES, FS_MAXFILEBLOCKS

VARIABLES
  tree,      \* path -> [type, owner, data]
  request,   \* requests that have not taken effect yet
  result,    \* results of those that have
  unsettled  \* threads that may still hold blocks after that

vars == <<tree, request, result, unsettled>>

Success(data) == [ok |-> TRUE, data |-> data]
Failure == [ok |-> FALSE, data |-> ""]

Directory(p) == p \in DOMAIN tree /\ tree[p].type = "d"
ChildrenOf(p) == {q \in DOMAIN tree : q # <<>> /\ Front(q) = p}

Init ==
  /\ Directory(<<>>)
  /\ \A p \in DOMAIN tree \ {<<>>} : Directory(Front(p))
  /\ request = [t \in Threads |-> None]
  /\ result = [t \in Threads |-> None]
  /\ unsettled = {}

-----------------------------------------------------------------------------
Owns(u, p) == tree[p].owner \in {"", u}

\* The directories on the way to p exist and belong to the user.
Reachable(r) ==
  /\ "" \notin Range(r.pathname)
  /\ \A k \in 0 .. Len(r.pathname) - 1 :
       LET q == SubSeq(r.pathname, 1, k) IN Directory(q) /\ Owns(r.username, q)

ExistingFile(r) ==
  /\ Reachable(r)
  /\ r.pathname \in DOMAIN tree
  /\ Owns(r.username, r.pathname)
  /\ tree[r.pathname].type = "f"

Legal(r) ==
  LET p == r.pathname
  IN \/ r.type = "READ" /\ ExistingFile(r) /\ r.block < Len(tree[p].data)
     \/ /\ r.type = "WRITE" /\ ExistingFile(r)
        /\ \/ r.block < Len(tree[p].data)
           \/ r.block = Len(tree[p].data) /\ r.block < FS_MAXFILEBLOCKS
     \/ /\ r.type = "CREATE" /\ Reachable(r) /\ p \notin DOMAIN tree
        /\ Cardinality(ChildrenOf(Front(p))) < FS_MAXFILEBLOCKS * FS_DIRENTRIES
     \/ /\ r.type = "DELETE" /\ Reachable(r) /\ p \in DOMAIN tree
        /\ Owns(r.username, p) /\ ChildrenOf(p) = {}

\* The most blocks a tree takes: a direntry block is never empty.
Least(m, n) == IF m <= n THEN m ELSE n
BlocksOf(p) == 1 + Len(tree[p].data) + Least(Cardinality(ChildrenOf(p)), FS_MAXFILEBLOCKS)
MostUsed == MapThenSumSet(BlocksOf, DOMAIN tree)

\* The most blocks another request can hold that the tree does not use.
Holds(u) ==
  IF u \in unsettled THEN FS_MAXFILEBLOCKS + 2
  ELSE IF request[u] = None THEN 0
  ELSE CASE request[u].type = "CREATE" -> 2
         [] request[u].type = "WRITE" -> 1
         [] OTHER -> 0

\* A request that needs new blocks may find none.
SpaceMayBeShort(t) ==
  LET r == request[t]
      needs == IF r.type = "CREATE" THEN 2
               ELSE IF r.type = "WRITE" /\ r.block = Len(tree[r.pathname].data) THEN 1 ELSE 0
  IN needs > 0 /\ MostUsed + needs + MapThenSumSet(Holds, Threads \ {t}) > FS_DISKSIZE

-----------------------------------------------------------------------------
Receive(t, r) ==
  /\ request[t] = None /\ result[t] = None
  /\ request' = [request EXCEPT ![t] = r]
  /\ UNCHANGED <<tree, result, unsettled>>

Answer(t, a) ==
  /\ result' = [result EXCEPT ![t] = a]
  /\ unsettled' \in {unsettled, unsettled \cup {t}}

ReadBlock(t, r) ==
  /\ r.type = "READ"
  /\ Answer(t, Success(tree[r.pathname].data[r.block + 1]))
  /\ UNCHANGED tree

WriteBlock(t, r) ==
  LET p == r.pathname
      size == Len(tree[p].data)
  IN /\ r.type = "WRITE"
     /\ tree' = [tree EXCEPT ![p].data =
          [k \in 1 .. (IF r.block = size THEN size + 1 ELSE size) |->
             IF k = r.block + 1 THEN r.data ELSE tree[p].data[k]]]
     /\ Answer(t, Success(""))

Create(t, r) ==
  /\ r.type = "CREATE"
  /\ tree' = [p \in DOMAIN tree \cup {r.pathname} |->
       IF p = r.pathname
       THEN [type |-> r.inode_type, owner |-> r.username, data |-> <<>>]
       ELSE tree[p]]
  /\ Answer(t, Success(""))

Delete(t, r) ==
  /\ r.type = "DELETE"
  /\ tree' = [p \in DOMAIN tree \ {r.pathname} |-> tree[p]]
  /\ Answer(t, Success(""))

\* A request takes effect once.
Take(t) == request[t] # None /\ request' = [request EXCEPT ![t] = None]

Execute(t) ==
  /\ Take(t)
  /\ Legal(request[t])
  /\ \/ ReadBlock(t, request[t])
     \/ WriteBlock(t, request[t])
     \/ Create(t, request[t])
     \/ Delete(t, request[t])

Refuse(t) ==
  /\ Take(t)
  /\ Answer(t, Failure)
  /\ Legal(request[t]) => SpaceMayBeShort(t)
  /\ UNCHANGED tree

Settle(t) ==
  /\ t \in unsettled
  /\ unsettled' = unsettled \ {t}
  /\ UNCHANGED <<tree, request, result>>

\* The connections are lost, and with them the requests not yet executed.
Crash ==
  /\ request' = [t \in Threads |-> None]
  /\ result' = [t \in Threads |-> IF request[t] # None THEN Failure ELSE result[t]]
  /\ unsettled' = {}
  /\ UNCHANGED tree

Next ==
  \/ \E t \in Threads : (\E r \in Requests : Receive(t, r)) \/ Execute(t) \/ Refuse(t) \/ Settle(t)
  \/ Crash

Spec == Init /\ [][Next]_vars
=============================================================================
