---------------------------- MODULE MCFileServer -----------------------------
(***************************************************************************)
(* Disks and requests for the runs of FileServer.                          *)
(***************************************************************************)
EXTENDS FileServer, TLC

Symmetry == Permutations(Threads)

Junk == [data |-> "junk"]
Inode(type, owner, blocks) == [type |-> type, owner |-> owner, blocks |-> blocks]
Entry(name, i) == [name |-> name, inode_block |-> i]
Direntries(e, f) == [directory |-> <<e, f>>]

Disk(contents) == contents @@ [b \in Blocks |-> Junk]

\* /a with one block, and the empty directory /d.
FileAndDirectory == Disk(
  0 :> Inode("d", "", <<1>>) @@ 1 :> Direntries(Entry("a", 2), Entry("d", 4)) @@
  2 :> Inode("f", "u", <<3>>) @@ 3 :> [data |-> "x"] @@ 4 :> Inode("d", "u", <<>>))

\* /d/a with one block, the only entry of its directory.
FileInDirectory == Disk(
  0 :> Inode("d", "", <<1>>) @@ 1 :> Direntries(Entry("d", 2), Unused) @@
  2 :> Inode("d", "u", <<3>>) @@ 3 :> Direntries(Unused, Entry("a", 4)) @@
  4 :> Inode("f", "u", <<5>>) @@ 5 :> [data |-> "x"])

\* Four empty files and directories fill the root.
FullRoot == Disk(
  0 :> Inode("d", "", <<1, 2>>) @@ 1 :> Direntries(Entry("a", 3), Entry("b", 4)) @@
  2 :> Direntries(Entry("c", 5), Entry("d", 6)) @@
  3 :> Inode("f", "u", <<>>) @@ 4 :> Inode("f", "v", <<>>) @@
  5 :> Inode("f", "u", <<>>) @@ 6 :> Inode("d", "u", <<>>))

Request(type, username, pathname, block, inode_type, data) ==
  [type |-> type, username |-> username, pathname |-> pathname, block |-> block,
   inode_type |-> inode_type, data |-> data]
Read(u, p, b) == Request("READ", u, p, b, "", "")
WriteTo(u, p, b, v) == Request("WRITE", u, p, b, "", v)
CreateAt(u, p, type) == Request("CREATE", u, p, 0, type, "")
DeleteAt(u, p) == Request("DELETE", u, p, 0, "", "")

A == <<"a">>
D == <<"d">>
DA == <<"d", "a">>

MCDisks == {FileAndDirectory, FileInDirectory}
MCDisksFull == MCDisks \cup {FullRoot}

MCRequests == {
  Read("u", A, 0), WriteTo("u", A, 0, "y"), WriteTo("u", A, 1, "y"),
  CreateAt("u", A, "f"), CreateAt("u", DA, "f"), CreateAt("v", DA, "f"),
  CreateAt("u", <<"b">>, "d"), CreateAt("u", <<"d", "">>, "f"),
  DeleteAt("u", A), DeleteAt("u", D), DeleteAt("u", DA),
  WriteTo("u", DA, 1, "y"), WriteTo("v", DA, 1, "y"), Read("u", DA, 0)}

\* For the liveness: fewer requests, each kind on each path through the locks.
MCRequestsLive == {
  WriteTo("u", DA, 1, "y"), CreateAt("u", DA, "f"), CreateAt("u", <<"e">>, "d"),
  DeleteAt("u", A), DeleteAt("u", D), DeleteAt("u", DA)}

\* For the crash in the middle of a delete.
MCRequestsTorn == {DeleteAt("u", DA), CreateAt("u", <<"b">>, "f")}
=============================================================================
