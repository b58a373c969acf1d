# Verification of OperatingSystemsImplementation

The repository holds three independent programs, each built against an
infrastructure that is not part of it (a CPU simulator, an MMU and kernel, a
disk and a client library):

| program | source | models | abstract specification | proofs |
|---|---|---|---|---|
| thread library | `src/Mutex_cv` | `ThreadLib`, `ThreadLibOOM` | `Monitor` | `ThreadLibProofs`, `MonitorProofs` |
| external pager | `src/Pager` | `Pager` | `SharedMemory` | `PagerProofs`, `PagerRefinementProofs` |
| file server | `src/Filesys` | `FileServer` | `FileSystem` | `FileTreeLemmas`, `FileServerProofs` |
| its connections | `src/Filesys` | `Connection` | `Meanings` in it | `ConnectionProofs` |

`MCThreadLib`, `MCPager`, `MCFileServer` and `MCConnection` give the constants
small values for the model checker. `QueueLemmas` has facts about sequences used
as queues, which all the proofs share.

## Inventory

### Thread library (`src/Mutex_cv`)

* **threads** (`thread.cpp`): `ready_queue`, `join_queue`, `pos_map` (finished?),
  `stack_map`, `index2context`, `ptr_to_delete`, `current_index`,
  `thread_index_generator`, `first_thread`. Operations: constructor, destructor,
  `Thread_running` (runs the start function, wakes joiners, deletes what the
  *previously* finished thread left, dispatches), `yield`, `join`.
* **CPU** (`cpu.cpp`, `raiiinterrupt.cpp`): the timer interrupt calls `yield`; a
  library call holds a `raii_interrupt`, so interrupts are disabled from its
  start to its end or to the `swapcontext` in it. With no runnable thread a
  call suspends the CPU, which ends the program.
* **mutex** (`mutex.cpp`): `status`, `holder`, FIFO `waiting_queue`. `unlock`
  hands the mutex to the first waiter, which returns from `lock` only when it
  is dispatched.
* **condition variable** (`cv.cpp`): a FIFO queue; Mesa semantics, the woken
  thread locks the mutex again.

Hard here: a call that blocks is finished by the call of another thread; the
hand-off of a mutex; the stack of a finished thread must outlive its last
instruction; a wrong "no runnable thread" ends the program. Correct means:
threads are conserved, mutual exclusion, no lost wake-up, `join` waits, no
stack freed in use or leaked, FIFO and no starvation, the interrupt assertions
hold.

### Pager (`src/Pager`)

* **calls** (`vm_pager.cpp`): `vm_init`, `vm_create`, `vm_switch`, `vm_destroy`,
  `vm_fault`, `vm_map`, over `process_map` (page tables), `share_map` (who maps a
  block), `block_status_map` (state of a block), `ppage_to_block_map`,
  `free_swap_blocks`, `free_physical_pages`, `clock_queue`, and the page table
  base register.
* **helpers** (`vm_helper.cpp`): `Set_page_state` copies a block's state to all
  page tables that map it; `Find_place_in_PM` is the clock algorithm;
  `Find_filename` reads a name through the page table and faults pages in.

The same facts are kept in four or five places. Hard here: entries that outlive
their process, the protection bits that stand in for hardware reference and
dirty bits, file accesses that fail half-way through a fault, faults inside
`vm_map`. Correct means: the copies agree, no physical page or swap block is
lost or used twice, no assertion fails, and the processes see nothing of it.

### File server (`src/Filesys`)

* **file operations** (`filesys.cpp`): an inode tree on 4096 disk blocks,
  `Filesystem_init` (rebuilds the free map `disk_block` from the disk), read,
  write, create, delete.
* **lookup, locks, allocation** (`helper.cpp`): hand-over-hand locking of
  `disk_block_lock`, `Find_free_disk_block` under `free_block_lock`.
* **messages** (`helper.cpp`): parsing, and validation by rebuilding the message.
* **sockets** (`socket.cpp`, `server.cpp`): one detached thread per connection.

A request passes from its connection's thread (`Thread_running`) through
`Receive_message` and `Message_Parsing` to one of the four helpers, and back
through `Send_message`; the threads share the disk, the locks and the map of free
blocks. Hard here: concurrent requests along one path; several block writes per
operation and a crash between them; blocks marked free before the write that
unlinks them; clients that stop half-way; block numbers that overflow. Correct
means: requests are linearizable, no deadlock, a block has one owner, a crash
leaves a tree `Filesystem_init` can recover, exactly the legal requests that
arrive whole are carried out.

## Thread library: the model

`ThreadLib` has one action per library call, up to the point where it switches
context: interrupts are disabled until there, so on one CPU nothing else can
happen (the model keeps `interrupts` as a variable, and `InterruptsMatchMode`
checks that they are enabled in user code only). What a
thread has to do when it is dispatched again is its resume point `pc[t]`, with
its argument in `arg[t]`; `owned[t]` records which mutexes' `lock()` has
*returned* to `t`, as opposed to the library's own `holder`. `pos_map`,
`join_queue` and the mutex fields are functions where the code has maps and
objects (a missing key of `join_queue` is an empty queue). `stack_map` and
`index2context` are the sets of their keys.

The application is arbitrary: a thread in user code may make any call. Calls
that change nothing (joining a finished thread, signalling nobody, yielding with
an empty ready queue, unlocking a mutex one does not hold, which throws) are
stuttering steps and have no action. `thread_create_fails` is the constructor
that runs out of memory before `ready_queue.push`; `ThreadLibOOM` adds the one
that runs out of it after.

`Monitor` states what the library promises: owners of mutexes, sleepers,
joiners, finished threads, no queues and no scheduler. `ImplementsMonitor` is
refinement under the mapping in `ThreadLib`.

| run | checks | bounds |
|---|---|---|
| `thread_library` | all invariants | 4 threads, 1 mutex, 1 condition variable |
| `thread_refinement` | `ImplementsMonitor`, `NoBarging`, `ReadyThreadRuns`, `MutexNotStarved` | 3 threads, 1 mutex, 2 condition variables |
| `thread_out_of_memory` | `ReadyHasContext` (violated) | 3 threads |

Four threads allow two waiters behind a holder and a bystander, or two finished
threads one of which is being deleted while two run. `MaxThreads` bounds the
number of threads ever created; the safety properties are also proved for all
bounds.

Fairness (`FairSpec`): `cpu::init` happens; a dispatched thread goes on executing
library code (`WF` of `resume`); timer interrupts keep arriving in user code
(`SF` of `Handler_interrupt`: `cpu.h` says an interrupt that arrives while they
are disabled is saved and delivered when they are enabled again). Nothing is
assumed of the application: it need not unlock or finish.
`MutexNotStarved` therefore assumes that the mutex keeps changing hands.

### Proofs

`ThreadLibProofs` proves nine theorems, one for each safety property the runs
check, for every `MaxThreads` and all sets of mutexes and condition variables,
from `ConstantsAssumption` alone. None of the properties is inductive. `Inv` adds
what makes them so, in named parts:

* `BookInv`: indices are handed out in order; `pos_map` and the resume points agree;
* `CpuInv`: only the running thread is in user code;
* `TagInv`: a thread in a queue is at the resume point of the call that put it
  there, with that queue's thread or mutex as argument. This is the heart of the
  argument: the queues are disjoint because resume points are;
* `PlaceInv`: an unfinished thread that is not on the CPU is in a queue;
* `MutexInv`: `status`, `holder` and the waiting queue agree; a thread that was
  handed a mutex and has not returned from `lock` is its holder and does not
  own it yet;
* `JoinInv`, `StackInv`: join queues belong to unfinished threads; which stacks
  exist;
* `InterruptsMatchMode`, `QueuesInjective` and `TypeOK` themselves.

There is a lemma per action (`CreateInv`, `EndInv`, `YieldInv`, `LockInv`, ...);
what several actions share is a lemma of its own (`SuspendInv`, `HandOff`,
`WakeInv`). `QueueLemmas` has the facts about sequences: what pushing, popping and
draining a queue does to its range and its injectivity. `NoBarging` follows from
the same invariant.

`MonitorProofs` proves `ImplementsMonitor`. Besides `Inv` it needs `HeldInv`: a
mutex's `holder` is past `lock()`, or has been handed the mutex and is on its way
out of `lock()`. With it a free mutex of the library is a free mutex of the
monitor. A lemma per action then says which step of the monitor it is, or that
it changes nothing the monitor has (`LockMonitor`, `WaitMonitor`, `YieldMonitor`, ...).

Model-checked only: the two liveness properties.

## Pager: the model

The pager is sequential. A call without a loop is one action; `vm_fault` and
`vm_map` with a filename take one action per iteration of their loops (`fault`
and `scan` hold the call in progress and its local variables), and no other
call starts before they return. A page's contents is one value; a filename is
the sequence of the contents of the pages it extends over, of which the last
contains the `'\0'`. Names that begin inside a page are not told apart from
names that begin at its start. `vm_physmem` starts with arbitrary contents
except for page 0. A process's page tables are one sequence of entries, as long
as `current_position`; `share_map` is a set of (process, page) pairs per block;
`block_status_map` has `None` for a missing key.

Environment: the kernel creates, switches to and destroys processes; the running
process stores and faults as the protection bits allow; reads fail unless the
block has been accessed before, as do writes of swap blocks if `SwapMayFail`
(`vm_pager.h`: a block that has been accessed successfully remains accessible).
Assumed: `memory_pages >= 2`, process ids that are fresh and not 0 (the initial
`current_pid`), and that the id of the last
process to exit is not reused before another process has run. Otherwise
`vm_switch` returns early and leaves the register pointing to an erased page
table.

An assertion failure, and the undefined `clock_queue.front()` of an empty queue
in `RemoveFromClockQueue`, set `aborted`.

`SharedMemory` states the promise: arenas of blocks, whose contents only stores
change; a new private page is zero; a file page has the contents of the file.
The mapping takes a block's contents from its physical page if it is resident,
else from the disk. `ImplementsSharedMemory` says faults, eviction, write-back,
sharing and the zero page are invisible.

| run | checks | bounds |
|---|---|---|
| `pager` | all invariants, `ImplementsSharedMemory` | 2 processes, 2 evictable pages, 2 swap blocks, arenas of 2 |
| `pager_refinement` | `ImplementsSharedMemory`, `CallsReturn` | 2 processes, 1 evictable page, 1 swap block whose first write may fail, arenas of 4, names over up to 3 pages |
| `pager_high_pages` | `NamesReadFromTheirPages` (violated) | as `pager`, with `UintPages` = 2 |
| `pager_fork` | `ChildInheritsArena` (violated) | as `pager` |
| `pager_lost_frame` | `EvictionPossible` (violated) | as `pager`, first writes of swap blocks may fail |

Up to four mapped pages compete for two physical ones, so that pages are
evicted, dirty and clean, shared and private, faulted in again, and their
blocks and pages reused by later processes; both pools run out. In
`pager_refinement` the pages of a filename evict each other while it is read. Fairness for
`CallsReturn` is that the pager does not stop in the middle of a call
(`WF` of `continue`); nothing is assumed of processes.

Sizes in bytes appear in one place: `Find_filename` indexes `vm_physmem` with an
`unsigned int`, which reaches `UintPages` physical pages, 65536 of 65536 bytes; the
page read is the remainder (`ScanReads`). `pager_high_pages` gives `UintPages` a
value below `memory_pages`.

### Proofs

`PagerProofs` proves the nine invariants of the run `pager`, for any processes,
files and contents and any number of physical pages, swap blocks and arena
pages. The properties that relate the copies of one fact (`SharersAgree`,
`SwapConserved`) are inductive only together with what holds in the middle of a
call, since other parts of the pager run there (a fault inside `vm_map`, the
clock inside a fault). `Inv` has these parts:

* `ArenaInv`, `CallInv`: page tables stay in their limits; a call in progress is
  on behalf of the running process, which the register points to;
* `FaultInv`: a fault is about the pinned zero page or a block that is not
  resident; the page found for it already stands in the clock queue and in
  `ppage_to_block_map`, before the block says so;
* `FrameInv`: the queues are disjoint and without duplicates, a block's page is its
  own, and the clock only meets pages whose block is the one the map gives;
* `KeptInv`: if no write of a swap block fails, no page is lost and no assertion
  fails;
* `BitsInv`: write protection is lifted only for dirty blocks and all protection
  only for referenced ones, and a clean page equals its block on the disk, which
  is why it may be dropped without being written back.

`FilterQueue` says what the loops that take pages out of a queue leave in it,
`SetSharers` what `Set_page_state` does to all page tables. There is a lemma per
action.

`PagerFramesPartitioned` and `PagerNoAssertFails` assume `~SwapMayFail`: if a
write of a swap block fails, pages are lost, as `pager_lost_frame` shows.
The other seven theorems hold with failing writes too.

`PagerRefinementProofs` proves `ImplementsSharedMemory` from `Inv` and `NameInv`:
what `Find_filename` has read so far is what the pages of the name hold, in the
processes' eyes, although they may have been evicted since. It assumes
`memory_pages <= UintPages`, without which the index wraps (`pager_high_pages`).
Evictions and faults are invisible: they change where a block's contents are,
not what they are. This too needs no assumption on failing writes.

Model-checked only: `CallsReturn`, a liveness property.

## File server: the model

`FileServer` has one thread per request. `disk`, `disk_block` and
`disk_block_lock` are the code's; `pc`, `request` and `local` are a thread's
position, its `request_t` and its local variables; `reply` is what the client
learns. A lock is one step (`LockRoot`, `LockNext`, `LockNew`, and the
`delete_mutex` of `Delete_attempt`), as is every call under `free_block_lock`
(`Reserve`, `SetFree`, `Unreserve`, and the allocations inside `WriteBlock` and
`Create_attempt`, where only reads of locked blocks come before) and every
`disk_writeblock` (`Write`). What a thread reads under the lock of an inode it
reads in one step; `LockedInodesStable` is the justification: nobody else changes
the inode, its direntries or its data meanwhile. (It exempts a delete that has
begun to set blocks free: that one reads nothing more.) Releasing a lock takes no
step of its own, nor does the answer: a crash between the last write and the
answer is not told apart from one after it, and `Connection` has the requests that
are carried out without an answer. `Throw` is a `SysError`: the locks are released, and
`Create_helper` goes on to return its block (`Unreserve`).

An inode is `[type, owner, blocks]`, a direntry block a sequence of entries, a
data block one value. The initial disks are trees (`InitialDisksAssumption`).
`Crash` ends the process, as a failed `accept` or a stopped machine does, and
starts `main` again: only the disk survives and `Filesystem_init` computes the
map of free blocks. A crash after a delete has begun to free blocks and before its
write is left out of the passing runs (`CrashesTearDeletes`), because then the
properties do not hold: `file_server_torn_delete` shows what such a crash leaves.

`FileSystem` states the promise: a map from paths to files and directories, in
which a request takes effect at one moment, and is refused only if it is illegal
or the disk may be short of blocks (`SpaceMayBeShort` counts what the tree and
the other requests can hold at most: a legal request must not fail while there
is certainly room). The mapping reads the tree off the disk. A delete takes
effect when it begins to free blocks, although its write comes last: by then it
holds the locks that hide the entry, and the blocks it frees may be in use again
before the write. `View` is the disk with the pending removals done.

| run | checks | bounds |
|---|---|---|
| `file_server` | `TypeOK`, `TreeIntact`, `BlocksAccounted`, `NoWaitingCycle`, `LockedInodesStable`, `ImplementsFileSystem` | 3 requests of 14 kinds, 2 disks of 7 blocks, 1 crash |
| `file_server_liveness` | `ImplementsFileSystem`, `EveryRequestAnswered` | 3 requests of 6 kinds, 3 disks of 8 blocks, one with a full root |
| `file_server_torn_delete` | `BlocksBelongToFiles` (violated) | a create and a delete, 1 crash, also in the middle of a delete |

All have 2 direntries per block and 2 blocks per file. Three requests are two
that conflict and one that takes or frees blocks between them; 7 or 8 blocks
leave one to three free, so that blocks are reused at once and run out; paths of
two names make two hand-over-hand steps. Requests after a crash are those not
sent before it.

`FairSpec` assumes that a thread that can go on does (`WF` of its steps). It does
not assume fair mutexes: `EveryRequestAnswered` holds because the threads are
finitely many, each with one request. With ever more clients a request could
starve at the lock of the root, and the code does nothing about it.

### Proofs

`FileServerProofs` proves the four invariants and the action property of the run
`file_server`, for any number of threads, any requests, any initial trees, and
any size of disk, directory blocks and files, with any number of crashes. It
assumes `~CrashesTearDeletes`, since a crash in the middle of a delete can leave a
disk that is no tree (`file_server_torn_delete`). Other crashes are covered.

None of the properties says what a thread is in the middle of, so none is
inductive. `Inv` says that there are a disk `V` and a set `I` of inodes, the ones of
`View`, such that

* `TypeInv`: all variables have their types;
* `OnView`: `V` is the disk, except where a delete is about to write, and there
  `V` has been written already;
* `TreeOn`: `V` holds a tree with the inodes `I`. It says so without paths and
  levels: every inode but the root is named by exactly one entry, every block
  is used once, and every set of inodes that has the root and all its entries
  has all of `I`, so that `I` is exactly what can be reached. This form is
  preserved by writes, while
  `Inodes` of `FileServer`, computed in rounds from the root, is not easily
  compared before and after a write;
* `ThreadInv`: what a thread at each position holds and has read is still so, and
  what it is going to write is one of the sequences the code can produce, minus
  what it has written: `Overwriting`, `Appending`, `Inserting`, `Extending` or
  `Removing`;
* `LocksInv`: a thread holds exactly the locks its position calls for;
* `AccountOn`: every block is free, used in `V`, or taken by one thread.

The invariant was checked by TLC on the instance of `file_server` before it was
proved. The argument for a write: the writer holds the lock of the inode it
writes below, the regions (inode and blocks) of different inodes of a tree are
disjoint, and reserved blocks are outside the tree; so the write disturbs no
other thread's `ThreadInv` (`Separate`, `SameForms`, `SameThread`). The writes
before the last one only fill reserved blocks, which no one sees (`Kept`); the
last one links them (`GrowTree`), and the first step of a delete unlinks them
(`ShrinkTree`). These last two are in `FileTreeLemmas`, with what they need about
trees.

`FileServerNoWaitingCycle` follows from `NoCycle`: a thread waits for the lock of
an inode below the one it holds, or for the root while it holds nothing (for
`free_inode`, which is not in the tree, nobody else has a lock). A set of threads
that wait for each other would hold a set of inodes each of which has an entry for
another one of the set, and an inode of a tree is not its own descendant.

Model-checked only: `EveryRequestAnswered` (liveness), and `ImplementsFileSystem`.
For the latter the mapping reads a tree of paths off the disk, level by level;
a proof has to relate the paths before and after a write to the relation `TreeOn`
speaks of.

### Connections

`Connection` models what is around the file operation: `Create_server`'s accept
loop, `Receive_message` byte by byte, `Message_Parsing`, the outcome of the
operation as success or failure, and `Send_message`. A client sends any prefix of a
message, a NUL and data, and may leave at any moment. User names and pathnames
are their lengths and what `Check_Valid_Request` asks of the first and last
character; a block number is its digits. `atoi` saturates at `long` and drops the
upper half, as the library's does, in base 3 with `uint32_t` up to 7 and `long` up
to 31: numbers of five digits overflow both.

`OnlyWholeRequests` compares with a definition of its own (`Meanings`): the legal
requests whose text is the message.

| run | checks | bounds |
|---|---|---|
| `connection` | `TypeOK`, `OnlyWholeRequests`, `GoodRequestsTried`, `AnswersAreTrue`, `ConnectionsClose` | 1 connection, 363 block numbers, all combinations of protocol, names, digits and letters, messages up to and beyond `max_message_length` |

Connections share nothing but the accept loop (what they share through the file
operations is `FileServer`'s), so one is enough. `FairSpec`: `accept` returns a
pending connection, a thread that can go on does. Nothing is assumed of clients: a
silent one keeps its thread for ever, and `ConnectionsClose` says nothing of it.

`ConnectionProofs` proves the four invariants for any number of connections, any
base and widths of numbers, any limits and any messages. The heart is
`ParsingFindsTheMeaning`: `Message_Parsing` returns the request a message is
the text of, and nothing for any other message. What makes it true is that the
code prints what it has parsed and compares; the proof therefore has to show
that `to_string` and `atoi` are inverse where no digit is lost (`to_string` gives a
number's only text without leading zeros, whose value is the number), and that
saturation and the cut to 32 bits make no number look like another one that prints
as the same text. The recursion of `to_string` and of the value of digits are
recursive functions; that they are well defined, and what they give for every
length, is proved by looking at a least number for which it fails (`LeastElement`
of the library). `ConnectionInv` then has `TypeInv`, `BytesInv` (what was received was
sent), `RequestInv` (a request being carried out is the parsed header, received
whole), `OutcomeInv` (an outcome or answer stems from such a request) and
`DroppedInv` (why a connection was closed without one).

`LengthAssumption` says that the longest legal header fits in
`max_message_length`; with the value in `global.cpp:4` it does. Model-checked only:
`ConnectionsClose`.

## Findings

* `thread_out_of_memory`: if memory runs out after `ready_queue.push` in the
  constructor of `thread`, the index stays in the queue without a context.
* `pager_lost_frame`: if writing a page back fails, `Find_place_in_PM` has already
  popped it from the clock queue and loses it; when all are lost the assertion
  at `vm_helper.cpp:40` fails.
* `pager_fork`: `vm_create` ignores the parent, contrary to `vm_pager.h`.
* `file_server_torn_delete`: a delete frees blocks before the write that unlinks
  them, so that they can be given away while the disk still refers to them. While
  the server runs no request can see it (`ImplementsFileSystem` holds, deletes
  included). If the process ends before the write, the file that was to be deleted
  is still there, and one of its blocks holds the inode of another.
* `pager_high_pages`: `vm_map` reads a filename through a 32-bit index, which
  wraps for pages from 65536 on.

## Mutants

Next to some definitions is one with the comment "Mutant": the same definition
with a plausible bug. `PROJECT.json` says which property notices which.

## Not modelled

Several CPUs (the library ignores `cpu::guard`); constructors and destructors of
mutexes and condition variables at run time; byte addresses, and addresses outside
the arena, which `vm_fault` and `vm_map` refuse before they use them;
`thread`'s move operations, which have no definition; the setting up of the
listening socket; bytes a client sends after its request, which nobody reads;
disks that are not trees; several requests on one connection, which the server
does not accept.

## What is proved, and what the proofs assume

| theorems of | for every | assuming |
|---|---|---|
| `ThreadLibProofs`, `MonitorProofs` | bound on threads, sets of mutexes and condition variables | - |
| `PagerProofs` | processes, files, contents, numbers of pages and blocks | `~SwapMayFail` for two of nine |
| `PagerRefinementProofs` | the same, also with failing writes | `memory_pages <= UintPages` |
| `FileServerProofs` | threads, requests, trees, sizes, crashes | `~CrashesTearDeletes` |
| `ConnectionProofs` | connections, messages, number widths, limits | - |

The three assumptions are conditions under which the code is right; a run that
expects a violation shows for each what happens without it. Besides them the
proofs use the assumptions on constants in the models, which TLC evaluates in the
runs: sizes are natural numbers; `None` is not a value of the type it is added
to; `InitialDisksAssumption` (the disk holds a tree, which `Filesystem_init` takes for
granted); `RequestsAssumption` (what `Check_Valid_Request`
lets through has a path with at least one name and a type the code knows);
`StreamsAssumption` and `LengthAssumption` (above).

Liveness properties are checked and not proved, since they rest on fairness. All
safety properties of the passing runs are proved except `ImplementsFileSystem`.

## Plan

* `FileServer` implements `FileSystem`: lemmas that tie `Inodes` and the paths of
  the mapping to `TreeOn`, then a step per action; reads and writes of data
  first, then create and delete.
* The file names at arbitrary positions in their pages, and the mutexes and
  condition variables that come and go, if they show anything new.
