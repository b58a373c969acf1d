---------------------------- MODULE SharedMemory -----------------------------
(***************************************************************************)
(* What the pager of src/Pager promises to processes: arenas of pages,     *)
(* private ones that start as zeroes and ones shared through a file block, *)
(* each with contents that only stores change.                             *)
(***************************************************************************)
EXTENDS Integers, Sequences

CONSTANTS Pids, Blocks, SwapBlocks, ArenaPages, Values, Zero, Unterminated, None

VARIABLES
  arena,    \* the blocks each process has mapped, in order
  memory    \* contents of each block; None for a swap block not in use

vars == <<arena, memory>>

Init ==
  /\ arena = [p \in Pids |-> <<>>]
  /\ memory \in [Blocks -> Values \cup {None}]
  /\ \A b \in Blocks : memory[b] = None <=> b \in SwapBlocks

ArenaOf(p) == arena[p]

Store(p, i, v) ==
  /\ i \in DOMAIN arena[p]
  /\ memory' = [memory EXCEPT ![arena[p][i]] = v]
  /\ UNCHANGED arena

\* A private page gets a block nobody uses.
MapPrivate(p, b) ==
  /\ Len(arena[p]) < ArenaPages
  /\ memory[b] = None
  /\ arena' = [arena EXCEPT ![p] = Append(@, b)]
  /\ memory' = [memory EXCEPT ![b] = Zero]

\* The name of the file is what the process has stored in the k pages from i.
MapFile(p, i, k, b) ==
  /\ Len(arena[p]) < ArenaPages
  /\ i + k - 1 <= Len(arena[p])
  /\ b.filename = [j \in 1 .. k |-> memory[arena[p][i + j - 1]]]
  /\ arena' = [arena EXCEPT ![p] = Append(@, b)]
  /\ UNCHANGED memory

\* A process exits: its private pages are given up, the files keep theirs.
Exit(p) ==
  /\ arena' = [arena EXCEPT ![p] = <<>>]
  /\ memory' = [b \in Blocks |->
       IF b \in SwapBlocks /\ \E i \in DOMAIN arena[p] : arena[p][i] = b
       THEN None ELSE memory[b]]

Next ==
  \E p \in Pids :
    \/ \E i \in DOMAIN arena[p], v \in Values : Store(p, i, v)
    \/ \E b \in SwapBlocks : MapPrivate(p, b)
    \/ \E i \in DOMAIN arena[p], k \in 1 .. ArenaPages, b \in Blocks \ SwapBlocks :
         MapFile(p, i, k, b)
    \/ Exit(p)

Spec == Init /\ [][Next]_vars
=============================================================================
