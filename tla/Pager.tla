-------------------------------- MODULE Pager --------------------------------
(***************************************************************************)
(* The external pager of src/Pager: vm_pager.cpp and vm_helper.cpp.        *)
(*                                                                         *)
(* The pager is sequential: each call runs to its end before the next.  A  *)
(* call with a loop (the clock hand in Find_place_in_PM, the characters    *)
(* read by Find_filename) is modelled by one step per iteration; `fault`   *)
(* and `scan` hold the calls in progress, and nothing else happens until   *)
(* they return.                                                            *)
(*                                                                         *)
(* Contents of pages are members of a small set.  A filename is the        *)
(* sequence of the contents of the pages it extends over, the last of      *)
(* which holds its '\0'; the swap file's name is the empty sequence, as    *)
(* "" is in the code.  Virtual pages are numbered from 1.                  *)
(*                                                                         *)
(* A definition whose comment begins with "Mutant" is not part of the      *)
(* model: it is the definition after it with a plausible bug, kept to show *)
(* which property notices.                                                 *)
(***************************************************************************)
EXTENDS Integers, Sequences, Functions

CONSTANTS
  Pids,
  memory_pages, swap_blocks,   \* the parameters of vm_init
  ArenaPages,                  \* VM_ARENA_SIZE / VM_PAGESIZE
  FileBlocks,                  \* block numbers used with files
  Values,                      \* contents of a page
  Zero,                        \* ... all zeroes
  Unterminated,                \* ... without a '\0'
  Initial,                     \* ... memory and files may have at the start
  None,
  SwapMayFail,                 \* may the first write of a swap block fail?
  UintPages                    \* physical pages an unsigned int can address, 65536

ASSUME PagerAssumption ==
  /\ memory_pages \in Nat /\ memory_pages >= 2
  /\ swap_blocks \in Nat
  /\ ArenaPages \in Nat
  /\ Zero \in Values \ Unterminated
  /\ Initial \subseteq Values
  /\ SwapMayFail \in BOOLEAN
  /\ UintPages \in Nat \ {0}

Frames == 1 .. memory_pages - 1     \* physical page 0 is the pinned zero page

\* Filenames that fit in the pages below the page to be mapped.
FileNames ==
  {n \in UNION {[1 .. k -> Values] : k \in 1 .. ArenaPages - 1} :
     \A i \in DOMAIN n : n[i] \in Unterminated <=> i # Len(n)}

SwapBlocks == [filename : {<<>>}, block : 0 .. swap_blocks - 1]
Blocks == SwapBlocks \cup [filename : FileNames, block : FileBlocks]

VARIABLES
  dispatched,             \* the process the kernel runs
  current_pid, page_table_base_register,   \* whose page table the register points to
  managed,                \* the keys of process_map
  process_map,            \* the valid entries of each process's PPT and VPT
  ppage_to_block_map, share_map, block_status_map,
  free_swap_blocks, free_physical_pages, clock_queue,
  vm_physmem,
  disk, accessed,         \* contents of the files; blocks accessed successfully
  fault,                  \* vm_fault in progress
  scan,                   \* Find_filename in progress
  aborted                 \* an assertion of the pager has failed

tableVars == <<managed, process_map, share_map, block_status_map>>
frameVars == <<ppage_to_block_map, free_physical_pages, clock_queue>>
diskVars  == <<disk, accessed>>
cpuVars   == <<dispatched, current_pid, page_table_base_register>>
vars == <<cpuVars, tableVars, frameVars, free_swap_blocks, vm_physmem, diskVars,
          fault, scan, aborted>>

Statuses == [ppage : 0 .. memory_pages - 1, read_enable : BOOLEAN,
             write_enable : BOOLEAN, resident : BOOLEAN, reference : BOOLEAN,
             dirty : BOOLEAN]
Entries == [db : Blocks, status : Statuses]

\* A vm_fault in progress: its page, the kind of access, whether the page is the
\* pinned zero page, and the physical page found for it, 0 before.
Faults == [vpn : 1 .. ArenaPages, write : BOOLEAN, zero : BOOLEAN,
           ppage : Frames \cup {0}]

\* None is a value of its own.
ASSUME NoneAssumption ==
  /\ None \notin Pids
  /\ None \notin Int
  /\ None \notin Statuses
  /\ None \notin Faults
  /\ None \notin Values

\* The types of the pager's variables: physical page 0 is never in a queue, and
\* page tables refer to blocks that exist.
TypeOK ==
  /\ dispatched \in Pids \cup {None}
  /\ current_pid \in Pids \cup {None}
  /\ page_table_base_register \in Pids \cup {None}
  /\ managed \in SUBSET Pids
  /\ process_map \in [Pids -> Seq(Entries)]
  /\ ppage_to_block_map \in [Frames -> Blocks \cup {None}]
  /\ share_map \in [Blocks -> SUBSET (Pids \X (1 .. ArenaPages))]
  /\ block_status_map \in [Blocks -> Statuses \cup {None}]
  /\ free_swap_blocks \in Seq(0 .. swap_blocks - 1)
  /\ free_physical_pages \in Seq(Frames)
  /\ clock_queue \in Seq(Frames)
  /\ vm_physmem \in [0 .. memory_pages - 1 -> Values]
  /\ disk \in [Blocks -> Values]
  /\ accessed \in SUBSET Blocks
  /\ fault \in Faults \cup {None}
  /\ \/ scan = None
     \/ scan \in [vpn : 1 .. ArenaPages + 1, name : Seq(Unterminated),
                  block : FileBlocks]
  /\ aborted \in BOOLEAN

-----------------------------------------------------------------------------
\* vm_init, before any process exists; only page 0 of vm_physmem is cleared.
Init ==
  /\ dispatched = None
  /\ current_pid = None
  /\ page_table_base_register = None
  /\ managed = {}
  /\ process_map = [p \in Pids |-> <<>>]
  /\ ppage_to_block_map = [f \in Frames |-> None]
  /\ share_map = [b \in Blocks |-> {}]
  /\ block_status_map = [b \in Blocks |-> None]
  /\ free_swap_blocks = [i \in 1 .. swap_blocks |-> i - 1]
  /\ free_physical_pages = [i \in 1 .. memory_pages - 1 |-> i]
  /\ clock_queue = <<>>
  /\ \E garbage \in [Frames -> Initial] :
       vm_physmem = [f \in 0 .. memory_pages - 1 |-> IF f = 0 THEN Zero ELSE garbage[f]]
  /\ disk \in [Blocks -> Initial]
  /\ accessed = {}
  /\ fault = None
  /\ scan = None
  /\ aborted = FALSE

-----------------------------------------------------------------------------
(* vm_helper.cpp: the state of a block is kept in block_status_map and, for *)
(* each virtual page in share_map, in the page tables of its process.       *)

\* The entry operator[] of std::map makes, and the one of an unmapped page.
Blank == [ppage |-> 0, read_enable |-> FALSE, write_enable |-> FALSE,
          resident |-> FALSE, reference |-> FALSE, dirty |-> FALSE]

\* The arguments of Set_state; ppage is None when isUpdatePPG is false.
State(read, write, resident, reference, dirty, ppage) ==
  [read_enable |-> read, write_enable |-> write, resident |-> resident,
   reference |-> reference, dirty |-> dirty, ppage |-> ppage]

\* Mutant: the dirty bit is never set.
Set_state_clean(s, new) ==
  [new EXCEPT !.ppage = IF @ = None THEN s.ppage ELSE @, !.dirty = FALSE]

\* Mutant: the reference bit is never cleared.
Set_state_referenced(s, new) ==
  [new EXCEPT !.ppage = IF @ = None THEN s.ppage ELSE @,
              !.reference = @ \/ s.reference]

\* The state s of a page or a block becomes new.
Set_state(s, new) == [new EXCEPT !.ppage = IF @ = None THEN s.ppage ELSE @]

StatusOf(b) == IF block_status_map[b] = None THEN Blank ELSE block_status_map[b]

\* Mutant: only the page tables of the current process are updated.
Set_sharers_own(pm, vs, new) ==
  [p \in Pids |-> [i \in DOMAIN pm[p] |->
     IF <<p, i>> \in vs /\ p = current_pid
     THEN [pm[p][i] EXCEPT !.status = Set_state(@, new)] ELSE pm[p][i]]]

\* The page tables pm after the state of the virtual pages vs became new.
Set_sharers(pm, vs, new) ==
  [p \in Pids |-> [i \in DOMAIN pm[p] |->
     IF <<p, i>> \in vs
     THEN [pm[p][i] EXCEPT !.status = Set_state(@, new)] ELSE pm[p][i]]]

Set_page_state(b, new) ==
  /\ block_status_map' = [block_status_map EXCEPT ![b] = Set_state(StatusOf(b), new)]
  /\ process_map' = Set_sharers(process_map, share_map[b], new)

\* The members of S in queue q, in their order.
Filter(q, S) ==
  LET upto[n \in 0 .. Len(q)] ==
        IF n = 0 THEN <<>>
        ELSE IF q[n] \in S THEN Append(upto[n - 1], q[n]) ELSE upto[n - 1]
  IN upto[Len(q)]

\* Mutant: the pages stay under the clock hand.
RemoveNothing(queue, ppages) == queue

RemoveFromClockQueue(queue, ppages) ==
  Filter(queue, Range(queue) \ ppages)

-----------------------------------------------------------------------------
\* No call of the pager is in progress.
Idle == fault = None /\ scan = None /\ ~aborted

\* The dispatched process executes; with another page table in the register
\* (RegisterFollowsSwitch) what it does is undefined.
Running == /\ Idle
           /\ dispatched # None
           /\ page_table_base_register = dispatched

\* The entry of the current process for virtual page i.
Page(i) == process_map[current_pid][i]
CurrentPages == DOMAIN process_map[current_pid]

(* The kernel: creation, dispatching and exit of processes.                 *)

\* vm_create ignores parent_pid.  The kernel is assumed not to reuse the id of
\* the last process that exited before it has switched to another one.
vm_create(parent_pid, child_pid) ==
  /\ Idle
  /\ child_pid \notin managed
  /\ parent_pid \in {dispatched, None}
  /\ child_pid # current_pid
  /\ managed' = managed \cup {child_pid}
  /\ process_map' = [process_map EXCEPT ![child_pid] = <<>>]
  /\ UNCHANGED <<cpuVars, share_map, block_status_map, frameVars,
                 free_swap_blocks, vm_physmem, diskVars, fault, scan, aborted>>

\* Mutant: the page table base register is not updated.
vm_switch_keeps_register(pid) ==
  /\ Idle
  /\ pid \in managed
  /\ dispatched' = pid
  /\ current_pid' = pid
  /\ UNCHANGED <<page_table_base_register, tableVars, frameVars, free_swap_blocks,
                 vm_physmem, diskVars, fault, scan, aborted>>

\* vm_switch returns early when pid is current_pid already.
vm_switch(pid) ==
  /\ Idle
  /\ pid \in managed
  /\ dispatched' = pid
  /\ current_pid' = pid
  /\ page_table_base_register' =
       IF pid = current_pid THEN page_table_base_register ELSE pid
  /\ UNCHANGED <<tableVars, frameVars, free_swap_blocks, vm_physmem, diskVars,
                 fault, scan, aborted>>

\* The swap-backed entries of the current process.
OwnSwap == {e \in Range(process_map[current_pid]) : e.db.filename = <<>>}

PpagesOf(entries) == [i \in DOMAIN entries |-> entries[i].status.ppage]

\* Mutant: pages that share the pinned zero page are freed as well.
SwapFramesPinned ==
  PpagesOf(Filter(process_map[current_pid], {e \in OwnSwap : e.status.resident}))

\* Mutant: so are the physical pages that evicted pages were in.
SwapFramesStale ==
  PpagesOf(Filter(process_map[current_pid], {e \in OwnSwap : e.status.ppage # 0}))

\* The resident swap-backed pages of the current process outside page 0.
SwapFrames ==
  PpagesOf(Filter(process_map[current_pid],
                  {e \in OwnSwap : e.status.resident /\ e.status.ppage # 0}))

BlocksOf(entries) == [i \in DOMAIN entries |-> entries[i].db.block]

\* Mutant: the blocks of pages that are not resident are not returned.
ResidentSwapBlocks ==
  BlocksOf(Filter(process_map[current_pid], {e \in OwnSwap : e.status.resident}))

\* The swap blocks of the current process.
OwnSwapBlocks == BlocksOf(Filter(process_map[current_pid], OwnSwap))

\* RemoveFromClockQueue is undefined on an empty queue.  The register keeps its
\* value, but the page table it points to is gone.
vm_destroy ==
  /\ Running
  /\ share_map' = [b \in Blocks |-> {v \in share_map[b] : v[1] # current_pid}]
  /\ free_swap_blocks' = free_swap_blocks \o OwnSwapBlocks
  /\ free_physical_pages' = free_physical_pages \o SwapFrames
  /\ clock_queue' = RemoveFromClockQueue(clock_queue, Range(SwapFrames))
  /\ aborted' = \E i \in DOMAIN SwapFrames :
                  Range(clock_queue) \subseteq {SwapFrames[j] : j \in 1 .. i - 1}
  /\ managed' = managed \ {current_pid}
  /\ process_map' = [process_map EXCEPT ![current_pid] = <<>>]
  /\ dispatched' = None
  /\ page_table_base_register' = None
  /\ UNCHANGED <<current_pid, ppage_to_block_map, block_status_map, vm_physmem,
                 diskVars, fault, scan>>

-----------------------------------------------------------------------------
(* vm_fault                                                                 *)

\* A store the MMU lets through (a load changes nothing).
app_store(i, v) ==
  /\ Running
  /\ i \in CurrentPages
  /\ Page(i).status.write_enable
  /\ vm_physmem' = [vm_physmem EXCEPT ![Page(i).status.ppage] = v]
  /\ UNCHANGED <<cpuVars, tableVars, frameVars, free_swap_blocks, diskVars,
                 fault, scan, aborted>>

\* Situations 1 and 2 need a physical page, found from the next step on;
\* situation 3 only changes the state of the block.
start_fault(i, write) ==
  LET s == Page(i).status
      zero == s.read_enable /\ ~s.write_enable /\ ~s.reference
      d == s.dirty \/ write
  IN  \/ /\ zero \/ ~s.resident
         /\ fault' = [vpn |-> i, write |-> write, zero |-> s.resident, ppage |-> 0]
         /\ UNCHANGED <<block_status_map, process_map>>
      \/ /\ ~zero /\ s.resident
         /\ Set_page_state(Page(i).db, State(TRUE, d, TRUE, TRUE, d, None))
         /\ UNCHANGED fault

\* The MMU faults on an access to a valid page (outside, vm_fault returns -1).
vm_fault(i, write) ==
  /\ Running
  /\ i \in CurrentPages
  /\ IF write THEN ~Page(i).status.write_enable ELSE ~Page(i).status.read_enable
  /\ start_fault(i, write)
  /\ UNCHANGED <<cpuVars, managed, share_map, frameVars, free_swap_blocks,
                 vm_physmem, diskVars, scan, aborted>>

Finding == fault # None /\ fault.ppage = 0 /\ ~aborted
FaultBlock == Page(fault.vpn).db

\* vm_fault returns -1: so does the vm_map that may have called it.
return_failure == fault' = None /\ scan' = None

\* Find_place_in_PM with a free page.
take_free_page ==
  LET f == Head(free_physical_pages)
  IN  /\ Finding
      /\ free_physical_pages # <<>>
      /\ free_physical_pages' = Tail(free_physical_pages)
      /\ ppage_to_block_map' = [ppage_to_block_map EXCEPT ![f] = FaultBlock]
      /\ clock_queue' = Append(clock_queue, f)
      /\ fault' = [fault EXCEPT !.ppage = f]
      /\ UNCHANGED <<cpuVars, tableVars, free_swap_blocks, vm_physmem, diskVars,
                     scan, aborted>>

\* The page under the clock hand and the block in it.
Hand == Head(clock_queue)
HandBlock == ppage_to_block_map[Hand]

Sweeping == Finding /\ free_physical_pages = <<>> /\ clock_queue # <<>>

\* The page has been referenced since the hand last came by.
clock_pass ==
  /\ Sweeping
  /\ StatusOf(HandBlock).reference
  /\ Set_page_state(HandBlock,
       State(FALSE, FALSE, TRUE, FALSE, StatusOf(HandBlock).dirty, None))
  /\ clock_queue' = Append(Tail(clock_queue), Hand)
  /\ UNCHANGED <<cpuVars, managed, share_map, ppage_to_block_map,
                 free_physical_pages, free_swap_blocks, vm_physmem, diskVars,
                 fault, scan, aborted>>

\* It has not: it is written back if dirty, and taken.
clock_evict ==
  /\ Sweeping
  /\ ~StatusOf(HandBlock).reference
  /\ IF StatusOf(HandBlock).dirty
     THEN /\ disk' = [disk EXCEPT ![HandBlock] = vm_physmem[Hand]]
          /\ accessed' = accessed \cup {HandBlock}
     ELSE UNCHANGED diskVars
  /\ Set_page_state(HandBlock, State(FALSE, FALSE, FALSE, FALSE, FALSE, None))
  /\ ppage_to_block_map' = [ppage_to_block_map EXCEPT ![Hand] = FaultBlock]
  /\ clock_queue' = Append(Tail(clock_queue), Hand)
  /\ fault' = [fault EXCEPT !.ppage = Hand]
  /\ UNCHANGED <<cpuVars, managed, share_map, free_physical_pages,
                 free_swap_blocks, vm_physmem, scan, aborted>>

\* The write fails: the page has already been popped from the queue.  A block
\* that has been accessed successfully remains accessible.
clock_write_fails ==
  /\ Sweeping
  /\ ~StatusOf(HandBlock).reference
  /\ StatusOf(HandBlock).dirty
  /\ SwapMayFail /\ HandBlock \notin accessed
  /\ clock_queue' = Tail(clock_queue)
  /\ return_failure
  /\ UNCHANGED <<cpuVars, tableVars, ppage_to_block_map, free_physical_pages,
                 free_swap_blocks, vm_physmem, diskVars, aborted>>

\* assert(!clock_queue.empty())
clock_empty ==
  /\ Finding
  /\ free_physical_pages = <<>> /\ clock_queue = <<>>
  /\ aborted' = TRUE
  /\ UNCHANGED <<cpuVars, tableVars, frameVars, free_swap_blocks, vm_physmem,
                 diskVars, fault, scan>>

Filling == fault # None /\ fault.ppage # 0 /\ ~aborted

\* The end of vm_fault: the block is in page fault.ppage.
set_resident ==
  /\ Set_page_state(FaultBlock,
       State(TRUE, fault.write, TRUE, TRUE, fault.write, fault.ppage))
  /\ fault' = None

\* Situation 1: the first write to a swap-backed page.
fill_zero ==
  /\ Filling
  /\ fault.zero
  /\ aborted' = ~fault.write
  /\ vm_physmem' = [vm_physmem EXCEPT ![fault.ppage] = Zero]
  /\ set_resident
  /\ UNCHANGED <<cpuVars, managed, share_map, frameVars, free_swap_blocks, diskVars,
                 scan>>

\* Situation 2: file_read.
fill_read ==
  /\ Filling
  /\ ~fault.zero
  /\ vm_physmem' = [vm_physmem EXCEPT ![fault.ppage] = disk[FaultBlock]]
  /\ accessed' = accessed \cup {FaultBlock}
  /\ set_resident
  /\ UNCHANGED <<cpuVars, managed, share_map, frameVars, free_swap_blocks, disk,
                 scan, aborted>>

fill_read_fails ==
  /\ Filling
  /\ ~fault.zero
  /\ FaultBlock \notin accessed
  /\ free_physical_pages' = Append(free_physical_pages, fault.ppage)
  /\ clock_queue' = RemoveFromClockQueue(clock_queue, {fault.ppage})
  /\ return_failure
  /\ UNCHANGED <<cpuVars, tableVars, ppage_to_block_map, free_swap_blocks,
                 vm_physmem, diskVars, aborted>>

-----------------------------------------------------------------------------
(* vm_map (it returns nullptr and changes nothing when the arena is full).  *)

\* The current process maps block b at its next page: share_map, then
\* Set_page_state, then the entry's own fields.
map_page(b, st) ==
  LET new == Len(process_map[current_pid]) + 1
      pm  == [process_map EXCEPT ![current_pid] =
                Append(@, [db |-> b, status |-> Blank])]
      vs  == share_map[b] \cup {<<current_pid, new>>}
  IN  /\ new <= ArenaPages
      /\ share_map' = [share_map EXCEPT ![b] = vs]
      /\ block_status_map' = [block_status_map EXCEPT ![b] = Set_state(StatusOf(b), st)]
      /\ process_map' = Set_sharers(pm, vs, st)

\* filename == nullptr
vm_map_swap ==
  /\ Running
  /\ free_swap_blocks # <<>>
  /\ free_swap_blocks' = Tail(free_swap_blocks)
  /\ map_page([filename |-> <<>>, block |-> Head(free_swap_blocks)],
              State(TRUE, FALSE, TRUE, FALSE, FALSE, 0))
  /\ UNCHANGED <<cpuVars, managed, frameVars, vm_physmem, diskVars, fault, scan,
                 aborted>>

\* filename is an address in page i of the valid arena: Find_filename starts.
vm_map_file(i, block) ==
  /\ Running
  /\ Len(process_map[current_pid]) < ArenaPages
  /\ i \in CurrentPages
  /\ scan' = [vpn |-> i, name |-> <<>>, block |-> block]
  /\ UNCHANGED <<cpuVars, tableVars, frameVars, free_swap_blocks, vm_physmem,
                 diskVars, fault, aborted>>

Scanning == scan # None /\ fault = None /\ ~aborted

\* The name runs out of the valid arena: vm_map returns nullptr.
scan_fails ==
  /\ Scanning
  /\ scan.vpn \notin CurrentPages
  /\ scan' = None
  /\ UNCHANGED <<cpuVars, tableVars, frameVars, free_swap_blocks, vm_physmem,
                 diskVars, fault, aborted>>

\* The page is not readable: Find_filename calls vm_fault.
scan_fault ==
  /\ Scanning
  /\ scan.vpn \in CurrentPages
  /\ ~Page(scan.vpn).status.read_enable
  /\ start_fault(scan.vpn, FALSE)
  /\ UNCHANGED <<cpuVars, managed, share_map, frameVars, free_swap_blocks,
                 vm_physmem, diskVars, scan, aborted>>

\* Mutant: Find_filename reads a page it has not made readable.
ScanReadsUnchecked(v) ==
  /\ Scanning
  /\ scan.vpn \in CurrentPages
  /\ v = vm_physmem[Page(scan.vpn).status.ppage]

\* Find_filename reads v, through the page table; its index in vm_physmem,
\* temp_physical_address_index, is an unsigned int.
ScanReads(v) ==
  /\ Scanning
  /\ scan.vpn \in CurrentPages
  /\ Page(scan.vpn).status.read_enable
  /\ v = vm_physmem[Page(scan.vpn).status.ppage % UintPages]

\* The page has no '\0': the name goes on in the next one.
scan_page ==
  /\ \E v \in Unterminated :
       ScanReads(v) /\ scan' = [scan EXCEPT !.vpn = @ + 1, !.name = Append(@, v)]
  /\ UNCHANGED <<cpuVars, tableVars, frameVars, free_swap_blocks, vm_physmem,
                 diskVars, fault, aborted>>

\* The name is complete: the rest of vm_map.  A block seen before keeps its
\* state (Set_page_state copies it to all its pages), a new one is not resident.
scan_done ==
  /\ \E v \in Values \ Unterminated :
       LET b == [filename |-> Append(scan.name, v), block |-> scan.block]
       IN  /\ ScanReads(v)
           /\ map_page(b, IF block_status_map[b] # None
                          THEN block_status_map[b]
                          ELSE State(FALSE, FALSE, FALSE, FALSE, FALSE, None))
  /\ scan' = None
  /\ UNCHANGED <<cpuVars, managed, frameVars, free_swap_blocks, vm_physmem,
                 diskVars, fault, aborted>>

-----------------------------------------------------------------------------
\* One step of the call in progress.
continue ==
  \/ take_free_page \/ clock_pass \/ clock_evict \/ clock_write_fails \/ clock_empty
  \/ fill_zero \/ fill_read \/ fill_read_fails
  \/ scan_fails \/ scan_fault \/ scan_page \/ scan_done

\* The pager has aborted.
stopped == aborted /\ UNCHANGED vars

Next ==
  \/ continue
  \/ \E p \in Pids : vm_switch(p) \/ \E q \in Pids \cup {None} : vm_create(q, p)
  \/ vm_destroy
  \/ vm_map_swap
  \/ \E i \in 1 .. ArenaPages :
       \/ \E v \in Values : app_store(i, v)
       \/ \E w \in BOOLEAN : vm_fault(i, w)
       \/ \E n \in FileBlocks : vm_map_file(i, n)
  \/ stopped

Spec == Init /\ [][Next]_vars

\* The pager does not stop in the middle of a call.
FairSpec == Spec /\ WF_vars(continue)

-----------------------------------------------------------------------------
(* Properties.                                                              *)

\* Virtual page i of process p is mapped to block b.
Maps(p, i, b) == i \in DOMAIN process_map[p] /\ process_map[p][i].db = b

\* Blocks whose state matters: file blocks, and the swap blocks in use.
InUse(b) == b \notin SwapBlocks \/ \E p \in Pids : \E i \in 1 .. ArenaPages : Maps(p, i, b)

\* Every physical page but the pinned one is free or under the clock hand,
\* exactly once: no path through Find_place_in_PM, the failed file_read of
\* vm_fault or vm_destroy loses or duplicates one.
FramesPartitioned ==
  /\ IsInjective(free_physical_pages)
  /\ IsInjective(clock_queue)
  /\ Range(free_physical_pages) \cap Range(clock_queue) = {}
  /\ Range(free_physical_pages) \cup Range(clock_queue) = Frames

\* ppage_to_block_map and block_status_map agree: what the clock evicts is the
\* block that really is in the page, and no two blocks share a page, although
\* both maps keep entries of destroyed processes.
FramesHoldTheirBlocks ==
  /\ \A f \in Range(clock_queue) :
       \/ fault # None /\ fault.ppage = f
       \/ LET s == StatusOf(ppage_to_block_map[f])
          IN  InUse(ppage_to_block_map[f]) /\ s.resident /\ s.ppage = f
  /\ \A b \in Blocks :
       InUse(b) /\ StatusOf(b).resident /\ StatusOf(b).ppage # 0
         => ppage_to_block_map[StatusOf(b).ppage] = b

\* Every virtual page has the state of its block, in whatever order processes
\* mapped, faulted, evicted and exited, and share_map lists exactly the pages
\* that are mapped (Set_page_state, vm_map, vm_destroy).
SharersAgree ==
  \A p \in Pids, i \in 1 .. ArenaPages, b \in Blocks :
    /\ <<p, i>> \in share_map[b] <=> Maps(p, i, b)
    /\ Maps(p, i, b) => process_map[p][i].status = block_status_map[b]

\* A swap block is free or backs exactly one virtual page (vm_map, vm_destroy).
SwapConserved ==
  /\ IsInjective(free_swap_blocks)
  /\ \A b \in SwapBlocks :
       /\ b.block \in Range(free_swap_blocks) <=> ~InUse(b)
       /\ \A p, q \in Pids : \A i, j \in 1 .. ArenaPages :
            Maps(p, i, b) /\ Maps(q, j, b) => p = q /\ i = j

\* The protection bits track what the hardware does not report: a page that
\* can be written is marked dirty, one that can be read is marked referenced
\* (or is the pinned zero page, which nobody can write), and dropping a clean
\* page loses nothing.
BitsTrackAccesses ==
  /\ vm_physmem[0] = Zero
  /\ \A b \in Blocks : InUse(b) =>
       LET s == StatusOf(b)
       IN  /\ s.write_enable => s.dirty
           /\ s.read_enable => s.resident /\ (s.reference \/ s.ppage = 0)
           /\ s.resident /\ s.ppage = 0 => ~s.write_enable
           /\ s.resident /\ s.ppage # 0 /\ ~s.dirty
                => vm_physmem[s.ppage] = disk[b]

\* No assertion of the pager fails: there is always a page to evict, and only
\* a write makes vm_fault copy the zero page (vm_helper.cpp, vm_pager.cpp).
NoAssertFails == ~aborted

\* Find_place_in_PM always has a page to hand out: assert(!clock_queue.empty()).
EvictionPossible ==
  Finding /\ free_physical_pages = <<>> => clock_queue # <<>>

\* While a process runs, the page table base register points to its page table
\* (vm_switch).
RegisterFollowsSwitch ==
  dispatched # None
    => page_table_base_register = dispatched /\ current_pid = dispatched

\* A call of the pager returns: the clock hand finds a page without a reference
\* after at most one round, and a filename ends or leaves the arena.
CallsReturn == (fault # None \/ scan # None) ~> (Idle \/ aborted)

-----------------------------------------------------------------------------
(* Demand paging is invisible: the processes see the memory of module       *)
(* SharedMemory.                                                            *)

\* The contents of a block, wherever it is.
Contents(b) ==
  IF StatusOf(b).resident THEN vm_physmem[StatusOf(b).ppage] ELSE disk[b]

\* What a load returns is the contents of the block.
LoadsSeeContents ==
  \A p \in Pids : \A i \in DOMAIN process_map[p] :
    LET e == process_map[p][i]
    IN  e.status.read_enable => vm_physmem[e.status.ppage] = Contents(e.db)

Abstract == INSTANCE SharedMemory WITH
  arena  <- [p \in Pids |-> [i \in DOMAIN process_map[p] |-> process_map[p][i].db]],
  memory <- [b \in Blocks |-> IF InUse(b) THEN Contents(b) ELSE None]

\* Every step of the pager is a step of the shared memory or changes nothing a
\* process can observe: faults, sharing, eviction, write-back and copy-on-write
\* never change the contents of a page.
ImplementsSharedMemory == Abstract!Spec

\* A filename is read from the physical pages of its virtual pages ("ppage refers
\* to the physical page for this virtual page", vm_pager.h:151).
NamesReadFromTheirPages ==
  \A v \in Values : ScanReads(v) => v = Contents(Page(scan.vpn).db)

\* vm_pager.h: "vm_create should cause the child's arena to have the same
\* mappings and data as the parent's arena".
ChildInheritsArena ==
  [][\A p, c \in Pids : vm_create(p, c) =>
       Abstract!ArenaOf(c)' = Abstract!ArenaOf(p)]_vars
=============================================================================
