----------------------------- MODULE PagerProofs -----------------------------
(***************************************************************************)
(* Proofs of the safety properties of Pager, for any number of processes,  *)
(* physical pages, swap blocks, files and contents.                        *)
(*                                                                         *)
(* The properties relate the page tables, the two maps of blocks, the      *)
(* three queues and memory between calls; Inv adds what holds during a     *)
(* call, in named parts.                                                   *)
(***************************************************************************)
EXTENDS Pager, QueueLemmas

\* What the blocks' state says, in the words of the invariants.
Resident(b) == StatusOf(b).resident
PpageOf(b) == StatusOf(b).ppage

\* Arenas: no page beyond the limit, none for a process that is not managed.
ArenaInv ==
  /\ \A p \in Pids : Len(process_map[p]) <= ArenaPages
  /\ \A p \in Pids \ managed : process_map[p] = <<>>

\* The register points to the page table of the process that runs, and calls
\* are on behalf of that process.
CallInv ==
  /\ current_pid \in managed => page_table_base_register = current_pid
  /\ dispatched # None => dispatched = current_pid /\ current_pid \in managed
  /\ fault # None \/ scan # None => dispatched # None
  /\ fault # None => fault.vpn \in CurrentPages /\ (fault.zero => fault.write)
  /\ scan # None => /\ scan.name \in Seq(Values)
                    /\ Len(scan.name) < scan.vpn
                    /\ Len(process_map[current_pid]) < ArenaPages

\* A fault is about the pinned zero page or a block that is not resident, and
\* the physical page found for it is under the clock hand already.
FaultInv ==
  fault # None =>
    /\ IF fault.zero
       THEN Resident(FaultBlock) /\ PpageOf(FaultBlock) = 0
       ELSE ~Resident(FaultBlock)
    /\ fault.ppage # 0 => /\ fault.ppage \in Range(clock_queue)
                          /\ ppage_to_block_map[fault.ppage] = FaultBlock

\* Physical pages: none is in both queues or twice in one, the clock hand only
\* meets pages that hold the block ppage_to_block_map says, and a block's page is
\* its own and not free.
FrameInv ==
  /\ IsInjective(free_physical_pages)
  /\ IsInjective(clock_queue)
  /\ Range(free_physical_pages) \cap Range(clock_queue) = {}
  /\ \A f \in Range(clock_queue) :
       \/ fault # None /\ fault.ppage = f
       \/ \E b \in Blocks : /\ ppage_to_block_map[f] = b
                            /\ InUse(b) /\ Resident(b) /\ PpageOf(b) = f
  /\ \A b \in Blocks : InUse(b) /\ Resident(b) /\ PpageOf(b) # 0
       => /\ ppage_to_block_map[PpageOf(b)] = b
          /\ PpageOf(b) \notin Range(free_physical_pages)

\* Without failing writes, no page is lost and no assertion fails.
KeptInv ==
  ~SwapMayFail =>
    /\ Range(free_physical_pages) \cup Range(clock_queue) = Frames
    /\ ~aborted

\* The bits of a block in use.
BitsInv(b) ==
  LET s == StatusOf(b)
  IN  /\ s.write_enable => s.dirty /\ s.read_enable
      /\ s.read_enable => s.resident /\ (s.reference \/ s.ppage = 0)
      /\ s.resident /\ s.ppage = 0
           => s.read_enable /\ ~s.write_enable /\ ~s.reference /\ ~s.dirty
      /\ s.resident /\ s.ppage # 0 /\ ~s.dirty => vm_physmem[s.ppage] = disk[b]

Inv ==
  /\ TypeOK
  /\ ArenaInv
  /\ CallInv
  /\ SharersAgree
  /\ SwapConserved
  /\ FaultInv
  /\ FrameInv
  /\ KeptInv
  /\ vm_physmem[0] = Zero
  /\ \A b \in Blocks : InUse(b) => BitsInv(b)

-----------------------------------------------------------------------------
(* Facts about the operators of the model.                                   *)

\* Filter is a loop over the queue.
IsFilter(upto, q, S) ==
  upto = [n \in 0 .. Len(q) |->
    IF n = 0 THEN <<>>
    ELSE IF q[n] \in S THEN Append(upto[n - 1], q[n]) ELSE upto[n - 1]]

\* The recursion of Filter is well defined.
LEMMA FilterDef ==
  ASSUME NEW T, NEW q \in Seq(T), NEW S
  PROVE  \E upto : Filter(q, S) = upto[Len(q)] /\ IsFilter(upto, q, S)
<1> DEFINE Step(v, n) == IF q[n] \in S THEN Append(v, q[n]) ELSE v
           f == CHOOSE g : g = [n \in 0 .. Len(q) |->
                  IF n = 0 THEN <<>> ELSE Step(g[n - 1], n)]
<1>1. Filter(q, S) = f[Len(q)]
  BY DEF Filter
<1>2. FiniteNatInductiveDefHypothesis(f, <<>>, Step, 0, Len(q))
  BY DEF FiniteNatInductiveDefHypothesis
<1>3. 0 \in Nat /\ Len(q) \in Nat
  OBVIOUS
<1> HIDE DEF f
<1>4. FiniteNatInductiveDefConclusion(f, <<>>, Step, 0, Len(q))
  <2> HIDE DEF Step
  <2> QED BY <1>2, <1>3, FiniteNatInductiveDef
<1>5. f = [n \in 0 .. Len(q) |-> IF n = 0 THEN <<>> ELSE Step(f[n - 1], n)]
  BY <1>4 DEF FiniteNatInductiveDefConclusion
<1>6. IsFilter(f, q, S)
  BY <1>5 DEF IsFilter
<1> QED BY <1>1, <1>6

\* It keeps exactly the members of S, and creates no duplicates.
LEMMA FilterQueue ==
  ASSUME NEW T, NEW q \in Seq(T), NEW S
  PROVE  /\ Filter(q, S) \in Seq(T)
         /\ Range(Filter(q, S)) = Range(q) \cap S
         /\ (\A i, j \in DOMAIN q : q[i] \in S /\ q[i] = q[j] => i = j)
              => IsInjective(Filter(q, S))
<1>0. PICK upto : Filter(q, S) = upto[Len(q)] /\ IsFilter(upto, q, S)
  BY FilterDef
<1>1. /\ Filter(q, S) = upto[Len(q)]
      /\ upto = [n \in 0 .. Len(q) |->
           IF n = 0 THEN <<>>
           ELSE IF q[n] \in S THEN Append(upto[n - 1], q[n]) ELSE upto[n - 1]]
  BY <1>0 DEF IsFilter
<1> DEFINE Once == \A i, j \in DOMAIN q : q[i] \in S /\ q[i] = q[j] => i = j
           Kept(n) == {q[i] : i \in 1 .. n} \cap S
           Good(n) == /\ upto[n] \in Seq(T)
                      /\ Range(upto[n]) = Kept(n)
                      /\ Once => IsInjective(upto[n])
           Bad == {n \in 0 .. Len(q) : ~Good(n)}
<1>2. Good(0)
  BY <1>1, EmptyQueue
<1>3. ASSUME NEW n \in 1 .. Len(q), Good(n - 1) PROVE Good(n)
  <2>1. /\ upto[n] = IF q[n] \in S THEN Append(upto[n - 1], q[n]) ELSE upto[n - 1]
        /\ q[n] \in T
    <3> HIDE DEF Good
    <3>1. n \in 0 .. Len(q) /\ n # 0 /\ q[n] \in T
      OBVIOUS
    <3> QED BY <1>1, <3>1
  <2>2. Kept(n) = Kept(n - 1) \cup ({q[n]} \cap S)
    OBVIOUS
  <2>3. CASE q[n] \notin S
    BY <1>3, <2>1, <2>2, <2>3
  <2>4. CASE q[n] \in S
    <3> DEFINE u == upto[n - 1]
    <3>1. /\ Append(u, q[n]) \in Seq(T)
          /\ Range(Append(u, q[n])) = Range(u) \cup {q[n]}
          /\ IsInjective(u) /\ q[n] \notin Range(u) => IsInjective(Append(u, q[n]))
      BY <1>3, <2>1, PushQueue
    <3>2. Once => q[n] \notin Kept(n - 1)
      BY <2>4
    <3> QED BY <1>3, <2>1, <2>2, <2>4, <3>1, <3>2
  <2> QED BY <2>3, <2>4
<1>4. Bad = {}
  <2> SUFFICES ASSUME NEW k \in Bad PROVE FALSE
    OBVIOUS
  <2> HIDE DEF Good
  <2>1. PICK m \in Bad : \A j \in Bad : m <= j
    <3>1. Bad \in SUBSET Nat
      OBVIOUS
    <3> HIDE DEF Bad
    <3> QED BY <3>1, LeastElement
  <2>2. m \in 1 .. Len(q) /\ m - 1 \in 0 .. Len(q) /\ m - 1 \notin Bad
    BY <1>2, <2>1
  <2> QED BY <1>3, <2>1, <2>2
<1>5. Good(Len(q)) /\ Kept(Len(q)) = Range(q) \cap S
  BY <1>4 DEF Range
<1> QED BY <1>1, <1>5

\* RemoveFromClockQueue: the pages leave the queue, the others keep their order.
LEMMA RemoveQueue ==
  ASSUME NEW T, NEW q \in Seq(T), NEW S, IsInjective(q)
  PROVE  /\ RemoveFromClockQueue(q, S) \in Seq(T)
         /\ Range(RemoveFromClockQueue(q, S)) = Range(q) \ S
         /\ IsInjective(RemoveFromClockQueue(q, S))
<1>1. \A i, j \in DOMAIN q : q[i] = q[j] => i = j
  BY DEF IsInjective
<1> QED BY <1>1, FilterQueue DEF RemoveFromClockQueue

-----------------------------------------------------------------------------
(* Facts about the state.                                                    *)

\* A block nobody has seen has the state operator[] makes.
LEMMA StatusType ==
  ASSUME TypeOK
  PROVE  /\ Blank \in Statuses
         /\ \A b \in Blocks : StatusOf(b) \in Statuses
<1>1. Blank \in Statuses
  BY PagerAssumption DEF Blank, Statuses
<1> QED BY <1>1 DEF TypeOK, StatusOf

\* A page's entry carries the state of its block.
LEMMA PageStatus ==
  ASSUME TypeOK, ArenaInv, SharersAgree,
         NEW p \in Pids, NEW i \in DOMAIN process_map[p]
  PROVE  /\ i \in 1 .. ArenaPages
         /\ process_map[p][i] \in Entries
         /\ process_map[p][i].db \in Blocks
         /\ Maps(p, i, process_map[p][i].db)
         /\ InUse(process_map[p][i].db)
         /\ block_status_map[process_map[p][i].db] \in Statuses
         /\ block_status_map[process_map[p][i].db] # None
         /\ process_map[p][i].status = StatusOf(process_map[p][i].db)
<1>1. process_map[p] \in Seq(Entries) /\ Len(process_map[p]) <= ArenaPages
  BY DEF TypeOK, ArenaInv
<1>2. /\ i \in 1 .. ArenaPages
      /\ process_map[p][i] \in Entries
  BY <1>1, PagerAssumption
<1>3. process_map[p][i].db \in Blocks /\ process_map[p][i].status \in Statuses
  BY <1>2 DEF Entries
<1>4. Maps(p, i, process_map[p][i].db)
  BY DEF Maps
<1>5. process_map[p][i].status = block_status_map[process_map[p][i].db]
  BY <1>2, <1>3, <1>4 DEF SharersAgree
<1>6. InUse(process_map[p][i].db)
  BY <1>2, <1>4 DEF InUse
<1> QED BY <1>2, <1>3, <1>4, <1>5, <1>6, NoneAssumption DEF StatusOf

\* The tables determine what a block is used for and its state.
LEMMA TablesKept ==
  ASSUME UNCHANGED <<process_map, share_map, block_status_map>>
  PROVE  /\ \A b : StatusOf(b)' = StatusOf(b)
         /\ \A b : Resident(b)' = Resident(b)
         /\ \A b : PpageOf(b)' = PpageOf(b)
         /\ \A p, i, b : Maps(p, i, b)' <=> Maps(p, i, b)
         /\ \A b : InUse(b)' <=> InUse(b)
         /\ SharersAgree => SharersAgree'
<1>1. \A b : StatusOf(b)' = StatusOf(b)
  BY DEF StatusOf
<1>2. \A p, i, b : Maps(p, i, b)' <=> Maps(p, i, b)
  BY DEF Maps
<1>3. \A b : InUse(b)' <=> InUse(b)
  BY <1>2 DEF InUse
<1>4. SharersAgree => SharersAgree'
  BY <1>2 DEF SharersAgree
<1> QED BY <1>1, <1>2, <1>3, <1>4 DEF Resident, PpageOf

\* Swap blocks are conserved while the page tables and their queue are.
LEMMA SwapKept ==
  ASSUME SwapConserved, UNCHANGED free_swap_blocks,
         \A p, i, b : Maps(p, i, b)' <=> Maps(p, i, b),
         \A b : InUse(b)' <=> InUse(b)
  PROVE  SwapConserved'
BY DEF SwapConserved

\* What Set_page_state may be given.
NewStates == [read_enable : BOOLEAN, write_enable : BOOLEAN, resident : BOOLEAN,
              reference : BOOLEAN, dirty : BOOLEAN,
              ppage : 0 .. memory_pages - 1 \cup {None}]

\* Set_state keeps the physical page when it is not given one.
LEMMA SetState ==
  ASSUME NEW s \in Statuses, NEW new \in NewStates
  PROVE  /\ Set_state(s, new) \in Statuses
         /\ Set_state(s, new).ppage = IF new.ppage = None THEN s.ppage ELSE new.ppage
         /\ Set_state(s, new).read_enable = new.read_enable
         /\ Set_state(s, new).write_enable = new.write_enable
         /\ Set_state(s, new).resident = new.resident
         /\ Set_state(s, new).reference = new.reference
         /\ Set_state(s, new).dirty = new.dirty
BY DEF Set_state, Statuses, NewStates

\* Set_sharers changes the states of the pages vs and nothing else.
LEMMA SetSharers ==
  ASSUME NEW pm \in [Pids -> Seq(Entries)], NEW vs, NEW new \in NewStates
  PROVE  /\ Set_sharers(pm, vs, new) \in [Pids -> Seq(Entries)]
         /\ \A p \in Pids :
              /\ Len(Set_sharers(pm, vs, new)[p]) = Len(pm[p])
              /\ DOMAIN Set_sharers(pm, vs, new)[p] = DOMAIN pm[p]
              /\ \A i \in DOMAIN pm[p] :
                   /\ Set_sharers(pm, vs, new)[p][i].db = pm[p][i].db
                   /\ Set_sharers(pm, vs, new)[p][i].status =
                        IF <<p, i>> \in vs THEN Set_state(pm[p][i].status, new)
                        ELSE pm[p][i].status
<1> DEFINE r == Set_sharers(pm, vs, new)
           Entry(p, i) == IF <<p, i>> \in vs
                          THEN [pm[p][i] EXCEPT !.status = Set_state(@, new)]
                          ELSE pm[p][i]
<1>1. r = [p \in Pids |-> [i \in DOMAIN pm[p] |-> Entry(p, i)]]
  BY DEF Set_sharers
<1>2. ASSUME NEW p \in Pids, NEW i \in DOMAIN pm[p]
      PROVE  /\ Entry(p, i) \in Entries
             /\ Entry(p, i).db = pm[p][i].db
             /\ Entry(p, i).status = IF <<p, i>> \in vs
                                     THEN Set_state(pm[p][i].status, new)
                                     ELSE pm[p][i].status
  <2>1. pm[p][i] \in Entries
    OBVIOUS
  <2>2. pm[p][i].status \in Statuses
    BY <2>1 DEF Entries
  <2>3. Set_state(pm[p][i].status, new) \in Statuses
    BY <2>2, SetState
  <2> QED BY <2>1, <2>3 DEF Entries
<1> HIDE DEF Entry, r
<1>3. ASSUME NEW p \in Pids
      PROVE  /\ r[p] \in Seq(Entries)
             /\ Len(r[p]) = Len(pm[p])
             /\ DOMAIN r[p] = DOMAIN pm[p]
             /\ \A i \in DOMAIN pm[p] : r[p][i] = Entry(p, i)
  <2>1. Len(pm[p]) \in Nat /\ DOMAIN pm[p] = 1 .. Len(pm[p])
    OBVIOUS
  <2>2. r[p] = [i \in 1 .. Len(pm[p]) |-> Entry(p, i)]
    BY <1>1, <2>1
  <2>3. r[p] \in [1 .. Len(pm[p]) -> Entries]
    BY <1>2, <2>1, <2>2
  <2>4. r[p] \in Seq(Entries) /\ Len(r[p]) = Len(pm[p])
    BY <2>1, <2>3, FunctionQueue
  <2> QED BY <2>1, <2>2, <2>4
<1>4. r \in [Pids -> Seq(Entries)]
  BY <1>1, <1>3
<1> QED BY <1>2, <1>3, <1>4 DEF r

\* Set_page_state changes the state of one block, in all its pages.
LEMMA SetPageState ==
  ASSUME TypeOK, ArenaInv, SharersAgree,
         NEW b \in Blocks, NEW new \in NewStates,
         Set_page_state(b, new), UNCHANGED share_map
  PROVE  /\ block_status_map' \in [Blocks -> Statuses \cup {None}]
         /\ process_map' \in [Pids -> Seq(Entries)]
         /\ \A p \in Pids : /\ Len(process_map'[p]) = Len(process_map[p])
                            /\ DOMAIN process_map'[p] = DOMAIN process_map[p]
         /\ \A p \in Pids : \A i \in DOMAIN process_map[p] :
              process_map'[p][i].db = process_map[p][i].db
         /\ \A p \in Pids : \A i, c : Maps(p, i, c)' <=> Maps(p, i, c)
         /\ \A c : InUse(c)' <=> InUse(c)
         /\ StatusOf(b)' = Set_state(StatusOf(b), new)
         /\ StatusOf(b)' \in Statuses
         /\ \A c \in Blocks : c # b => StatusOf(c)' = StatusOf(c)
         /\ SharersAgree'
<1>0. process_map \in [Pids -> Seq(Entries)] /\ StatusOf(b) \in Statuses
  BY StatusType DEF TypeOK
<1>1. /\ process_map' \in [Pids -> Seq(Entries)]
      /\ \A p \in Pids :
           /\ Len(process_map'[p]) = Len(process_map[p])
           /\ DOMAIN process_map'[p] = DOMAIN process_map[p]
           /\ \A i \in DOMAIN process_map[p] :
                /\ process_map'[p][i].db = process_map[p][i].db
                /\ process_map'[p][i].status =
                     IF <<p, i>> \in share_map[b]
                     THEN Set_state(process_map[p][i].status, new)
                     ELSE process_map[p][i].status
  BY <1>0, SetSharers DEF Set_page_state
<1>2. Set_state(StatusOf(b), new) \in Statuses
  BY <1>0, SetState
<1>3. /\ block_status_map' = [block_status_map EXCEPT ![b] = Set_state(StatusOf(b), new)]
      /\ block_status_map \in [Blocks -> Statuses \cup {None}]
  BY DEF Set_page_state, TypeOK
<1>4. /\ block_status_map' \in [Blocks -> Statuses \cup {None}]
      /\ block_status_map'[b] = Set_state(StatusOf(b), new)
      /\ \A c \in Blocks : c # b => block_status_map'[c] = block_status_map[c]
  BY <1>2, <1>3
<1>5. /\ StatusOf(b)' = Set_state(StatusOf(b), new)
      /\ \A c \in Blocks : c # b => StatusOf(c)' = StatusOf(c)
  BY <1>2, <1>4, NoneAssumption DEF StatusOf
<1>6. \A p \in Pids : \A i, c : Maps(p, i, c)' <=> Maps(p, i, c)
  BY <1>1 DEF Maps
<1>7. \A c : InUse(c)' <=> InUse(c)
  BY <1>6 DEF InUse
<1>8. SharersAgree'
  <2> SUFFICES ASSUME NEW p \in Pids, NEW i \in 1 .. ArenaPages, NEW c \in Blocks
               PROVE  /\ <<p, i>> \in share_map'[c] <=> Maps(p, i, c)'
                      /\ Maps(p, i, c)'
                           => process_map'[p][i].status = block_status_map'[c]
    BY DEF SharersAgree
  <2>1. <<p, i>> \in share_map'[c] <=> Maps(p, i, c)'
    BY <1>6 DEF SharersAgree
  <2>2. ASSUME Maps(p, i, c)
        PROVE  process_map'[p][i].status = block_status_map'[c]
    <3>1. i \in DOMAIN process_map[p] /\ process_map[p][i].db = c
      BY <2>2 DEF Maps
    <3>2. <<p, i>> \in share_map[b] <=> c = b
      BY <2>2, <3>1 DEF SharersAgree, Maps
    <3>5. process_map[p][i].status = StatusOf(c)
      BY <3>1, PageStatus
    <3>3. process_map[p][i].status = StatusOf(c)
          /\ process_map[p][i].status = block_status_map[c]
      BY <2>2, <3>5 DEF SharersAgree
    <3>4. process_map'[p][i].status =
            IF c = b THEN Set_state(process_map[p][i].status, new)
            ELSE process_map[p][i].status
      BY <1>1, <3>1, <3>2
    <3> QED BY <1>4, <3>3, <3>4
  <2> QED BY <1>6, <2>1, <2>2
<1> QED BY <1>1, <1>2, <1>4, <1>5, <1>6, <1>7, <1>8
-----------------------------------------------------------------------------
(* The steps of the kernel, and the ones that only change fault and scan.    *)

\* Steps that change neither tables nor queues nor memory.
LEMMA MemoryKept ==
  ASSUME Inv,
         UNCHANGED <<process_map, share_map, block_status_map, frameVars,
                     free_swap_blocks, vm_physmem, diskVars, fault, aborted>>
  PROVE  /\ SharersAgree'
         /\ SwapConserved'
         /\ FrameInv'
         /\ KeptInv'
         /\ (vm_physmem[0] = Zero)'
         /\ (\A b \in Blocks : InUse(b) => BitsInv(b))'
         /\ UNCHANGED current_pid => FaultInv'
<1>1. /\ \A b : StatusOf(b)' = StatusOf(b)
      /\ \A b : Resident(b)' = Resident(b)
      /\ \A b : PpageOf(b)' = PpageOf(b)
      /\ \A p, i, b : Maps(p, i, b)' <=> Maps(p, i, b)
      /\ \A b : InUse(b)' <=> InUse(b)
      /\ SharersAgree'
  BY TablesKept DEF Inv
<1>2. SwapConserved'
  BY <1>1, SwapKept DEF Inv
<1>3. FrameInv'
  BY <1>1 DEF Inv, FrameInv, frameVars
<1>4. KeptInv' /\ (vm_physmem[0] = Zero)'
  BY DEF Inv, KeptInv, frameVars
<1>5. (\A b \in Blocks : InUse(b) => BitsInv(b))'
  BY <1>1 DEF Inv, BitsInv, diskVars
<1>6. UNCHANGED current_pid => FaultInv'
  BY <1>1 DEF Inv, FaultInv, FaultBlock, Page, frameVars
<1> QED BY <1>1, <1>2, <1>3, <1>4, <1>5, <1>6

\* A new process has no pages.
LEMMA CreateStep ==
  ASSUME Inv, NEW q, NEW c \in Pids, vm_create(q, c)
  PROVE  Inv'
<1>1. process_map' = process_map
  <2>1. process_map[c] = <<>> /\ process_map \in [Pids -> Seq(Entries)]
    BY DEF Inv, ArenaInv, TypeOK, vm_create
  <2> QED BY <2>1 DEF vm_create
<1>2. TypeOK'
  BY <1>1 DEF Inv, TypeOK, vm_create, cpuVars, frameVars, diskVars
<1>3. ArenaInv'
  BY <1>1 DEF Inv, ArenaInv, vm_create
<1>4. CallInv'
  BY <1>1 DEF Inv, CallInv, vm_create, cpuVars, Idle
<1>5. /\ SharersAgree' /\ SwapConserved' /\ FrameInv' /\ KeptInv' /\ FaultInv'
      /\ (vm_physmem[0] = Zero)'
      /\ (\A b \in Blocks : InUse(b) => BitsInv(b))'
  BY <1>1, MemoryKept DEF vm_create, cpuVars
<1> QED BY <1>2, <1>3, <1>4, <1>5 DEF Inv

\* After vm_switch the register points to the page table of the new process.
LEMMA SwitchStep ==
  ASSUME Inv, NEW p \in Pids, vm_switch(p)
  PROVE  Inv'
<1>1. TypeOK'
  BY DEF Inv, TypeOK, vm_switch, tableVars, frameVars, diskVars
<1>2. ArenaInv'
  BY DEF Inv, ArenaInv, vm_switch, tableVars
<1>3. CallInv'
  BY DEF Inv, CallInv, vm_switch, tableVars, Idle
<1>4. FaultInv'
  BY DEF FaultInv, vm_switch, Idle
<1>5. /\ SharersAgree' /\ SwapConserved' /\ FrameInv' /\ KeptInv'
      /\ (vm_physmem[0] = Zero)'
      /\ (\A b \in Blocks : InUse(b) => BitsInv(b))'
  BY MemoryKept DEF vm_switch, tableVars
<1> QED BY <1>1, <1>2, <1>3, <1>4, <1>5 DEF Inv

\* While a process runs its page table is the current one.
LEMMA RunningProcess ==
  ASSUME Inv, dispatched # None
  PROVE  /\ current_pid \in managed
         /\ current_pid \in Pids
         /\ process_map[current_pid] \in Seq(Entries)
         /\ CurrentPages = 1 .. Len(process_map[current_pid])
         /\ Len(process_map[current_pid]) \in 0 .. ArenaPages
<1>1. current_pid \in managed /\ managed \subseteq Pids
  BY DEF Inv, CallInv, TypeOK
<1>2. process_map[current_pid] \in Seq(Entries)
  BY <1>1 DEF Inv, TypeOK
<1>3. Len(process_map[current_pid]) <= ArenaPages
  BY <1>1 DEF Inv, ArenaInv
<1> QED BY <1>1, <1>2, <1>3, PagerAssumption DEF CurrentPages

\* A name is empty when Find_filename starts.
LEMMA MapFileStep ==
  ASSUME Inv, NEW i \in 1 .. ArenaPages, NEW n \in FileBlocks, vm_map_file(i, n)
  PROVE  Inv'
<1>0. dispatched # None
  BY DEF vm_map_file, Running
<1>1. TypeOK'
  <2>1. scan' \in [vpn : 1 .. ArenaPages + 1, name : Seq(Unterminated),
                   block : FileBlocks]
    BY PagerAssumption DEF vm_map_file
  <2> QED BY <2>1 DEF Inv, TypeOK, vm_map_file, cpuVars, tableVars, frameVars, diskVars
<1>2. ArenaInv'
  BY DEF Inv, ArenaInv, vm_map_file, tableVars
<1>3. CallInv'
  BY <1>0 DEF Inv, CallInv, vm_map_file, tableVars, cpuVars, Running, Idle
<1>4. /\ SharersAgree' /\ SwapConserved' /\ FrameInv' /\ KeptInv' /\ FaultInv'
      /\ (vm_physmem[0] = Zero)'
      /\ (\A b \in Blocks : InUse(b) => BitsInv(b))'
  BY MemoryKept DEF vm_map_file, tableVars, cpuVars
<1> QED BY <1>1, <1>2, <1>3, <1>4 DEF Inv

\* vm_map gives up before it changes anything.
LEMMA ScanFailsStep ==
  ASSUME Inv, scan_fails
  PROVE  Inv'
<1>1. TypeOK'
  BY DEF Inv, TypeOK, scan_fails, cpuVars, tableVars, frameVars, diskVars
<1>2. ArenaInv'
  BY DEF Inv, ArenaInv, scan_fails, tableVars
<1>3. CallInv'
  BY DEF Inv, CallInv, scan_fails, tableVars, cpuVars, Scanning
<1>4. /\ SharersAgree' /\ SwapConserved' /\ FrameInv' /\ KeptInv' /\ FaultInv'
      /\ (vm_physmem[0] = Zero)'
      /\ (\A b \in Blocks : InUse(b) => BitsInv(b))'
  BY MemoryKept DEF scan_fails, tableVars, cpuVars
<1> QED BY <1>1, <1>2, <1>3, <1>4 DEF Inv

\* The scan of a filename is inside the arena, and has a page left to map.
LEMMA ScanState ==
  ASSUME Inv, Scanning
  PROVE  /\ dispatched # None
         /\ scan \in [vpn : 1 .. ArenaPages + 1, name : Seq(Unterminated),
                      block : FileBlocks]
         /\ scan.name \in Seq(Values)
         /\ Len(scan.name) < scan.vpn
         /\ Len(process_map[current_pid]) < ArenaPages
BY DEF Inv, Scanning, CallInv, TypeOK

\* What Find_filename reads is the contents of some physical page.
LEMMA ReadValue ==
  ASSUME Inv, NEW v, ScanReads(v)
  PROVE  /\ v \in Values
         /\ scan.vpn \in 1 .. Len(process_map[current_pid])
         /\ Scanning
<1>1. Scanning /\ dispatched # None
  BY ScanState DEF ScanReads
<1>2. scan.vpn \in CurrentPages /\ current_pid \in Pids
      /\ scan.vpn \in 1 .. Len(process_map[current_pid])
  BY <1>1, RunningProcess DEF ScanReads
<1>3. Page(scan.vpn).status.ppage \in 0 .. memory_pages - 1
  <2>1. Page(scan.vpn) \in Entries
    BY <1>2, PageStatus DEF Inv, CurrentPages, Page
  <2> QED BY <2>1 DEF Entries, Statuses
<1>4. \A x \in 0 .. memory_pages - 1 : x % UintPages \in 0 .. memory_pages - 1
  <2> SUFFICES ASSUME NEW x \in 0 .. memory_pages - 1
               PROVE  x % UintPages \in 0 .. memory_pages - 1
    OBVIOUS
  <2>1. x \in Nat /\ UintPages \in Nat /\ UintPages > 0 /\ memory_pages \in Nat
    BY PagerAssumption
  <2>2. x % UintPages \in Nat /\ x % UintPages <= x
    BY <2>1
  <2> QED BY <2>1, <2>2
<1>5. v \in Values
  BY <1>3, <1>4 DEF ScanReads, Inv, TypeOK
<1> QED BY <1>1, <1>2, <1>5

\* The name stays shorter than the pages read: it started inside the arena.
LEMMA ScanPageStep ==
  ASSUME Inv, scan_page
  PROVE  Inv'
<1>1. PICK v \in Unterminated :
        ScanReads(v) /\ scan' = [scan EXCEPT !.vpn = @ + 1, !.name = Append(@, v)]
  BY DEF scan_page
<1>2. v \in Values /\ scan.vpn \in 1 .. Len(process_map[current_pid]) /\ Scanning
  BY <1>1, ReadValue
<1>3. /\ dispatched # None
      /\ scan \in [vpn : 1 .. ArenaPages + 1, name : Seq(Unterminated),
                   block : FileBlocks]
      /\ scan.name \in Seq(Values)
      /\ Len(scan.name) < scan.vpn
      /\ Len(process_map[current_pid]) < ArenaPages
  BY <1>2, ScanState
<1>4. Len(process_map[current_pid]) \in 0 .. ArenaPages
  BY <1>3, RunningProcess
<1>5. /\ scan' \in [vpn : 1 .. ArenaPages + 1, name : Seq(Unterminated),
                    block : FileBlocks]
      /\ scan'.vpn = scan.vpn + 1
      /\ scan'.name = Append(scan.name, v)
  <2>1. scan.vpn + 1 \in 1 .. ArenaPages + 1
    BY <1>2, <1>4, PagerAssumption
  <2>2. Append(scan.name, v) \in Seq(Unterminated)
    BY <1>3
  <2> QED BY <1>1, <1>3, <2>1, <2>2
<1>6. TypeOK'
  BY <1>5 DEF Inv, TypeOK, scan_page, cpuVars, tableVars, frameVars, diskVars
<1>7. ArenaInv'
  BY DEF Inv, ArenaInv, scan_page, tableVars
<1>8. CallInv'
  <2>1. Append(scan.name, v) \in Seq(Values)
        /\ Len(Append(scan.name, v)) = Len(scan.name) + 1
    BY <1>2, <1>3
  <2>2. Len(scan'.name) < scan'.vpn
    BY <1>2, <1>3, <1>5, <2>1
  <2>3. fault = None
    BY <1>2 DEF Scanning
  <2> QED BY <1>3, <1>5, <2>1, <2>2, <2>3
          DEF Inv, CallInv, scan_page, tableVars, cpuVars
<1>9. /\ SharersAgree' /\ SwapConserved' /\ FrameInv' /\ KeptInv' /\ FaultInv'
      /\ (vm_physmem[0] = Zero)'
      /\ (\A b \in Blocks : InUse(b) => BitsInv(b))'
  BY MemoryKept DEF scan_page, tableVars, cpuVars
<1> QED BY <1>6, <1>7, <1>8, <1>9 DEF Inv

\* Nothing changes when the pager does nothing.
LEMMA StutterStep ==
  ASSUME Inv, UNCHANGED vars
  PROVE  Inv'
<1>1. TypeOK'
  BY DEF Inv, TypeOK, vars, cpuVars, tableVars, frameVars, diskVars
<1>2. ArenaInv'
  BY DEF Inv, ArenaInv, vars, tableVars
<1>3. CallInv'
  BY DEF Inv, CallInv, vars, tableVars, cpuVars, CurrentPages
<1>4. /\ SharersAgree' /\ SwapConserved' /\ FrameInv' /\ KeptInv' /\ FaultInv'
      /\ (vm_physmem[0] = Zero)'
      /\ (\A b \in Blocks : InUse(b) => BitsInv(b))'
  BY MemoryKept DEF vars, tableVars, cpuVars
<1> QED BY <1>1, <1>2, <1>3, <1>4 DEF Inv
-----------------------------------------------------------------------------
(* The accesses of the processes, and the start of a fault.                  *)

\* The page a process accesses.
LEMMA PageBlock ==
  ASSUME Inv, dispatched # None, NEW i \in CurrentPages
  PROVE  /\ i \in 1 .. ArenaPages
         /\ Page(i).db \in Blocks
         /\ Maps(current_pid, i, Page(i).db)
         /\ InUse(Page(i).db)
         /\ Page(i).status = StatusOf(Page(i).db)
         /\ StatusOf(Page(i).db) \in Statuses
         /\ BitsInv(Page(i).db)
<1>1. current_pid \in Pids
  BY RunningProcess
<1>2. /\ i \in 1 .. ArenaPages
      /\ Page(i).db \in Blocks
      /\ Maps(current_pid, i, Page(i).db)
      /\ InUse(Page(i).db)
      /\ Page(i).status = StatusOf(Page(i).db)
  BY <1>1, PageStatus DEF Inv, CurrentPages, Page
<1>3. StatusOf(Page(i).db) \in Statuses
  BY <1>2, StatusType DEF Inv
<1> QED BY <1>2, <1>3 DEF Inv

\* Two resident blocks are in different physical pages.
LEMMA OwnFrame ==
  ASSUME Inv, NEW b \in Blocks, NEW c \in Blocks,
         InUse(b), Resident(b), InUse(c), Resident(c),
         PpageOf(b) = PpageOf(c), PpageOf(b) # 0
  PROVE  b = c
BY DEF Inv, FrameInv

\* A store goes to a page that is dirty and that only its block is in.
LEMMA StoreStep ==
  ASSUME Inv, NEW i \in 1 .. ArenaPages, NEW v \in Values, app_store(i, v)
  PROVE  Inv'
<1> DEFINE b == Page(i).db
           f == Page(i).status.ppage
<1>1. dispatched # None /\ i \in CurrentPages
  BY DEF app_store, Running
<1>2. /\ b \in Blocks /\ InUse(b) /\ BitsInv(b)
      /\ Page(i).status = StatusOf(b) /\ StatusOf(b) \in Statuses
  BY <1>1, PageBlock
<1>3. StatusOf(b).resident /\ f # 0 /\ StatusOf(b).dirty /\ f = StatusOf(b).ppage
  BY <1>2 DEF BitsInv, app_store
<1>4. /\ f \in 0 .. memory_pages - 1
      /\ vm_physmem \in [0 .. memory_pages - 1 -> Values]
      /\ vm_physmem' = [vm_physmem EXCEPT ![f] = v]
  BY <1>2, <1>3 DEF Statuses, Inv, TypeOK, app_store
<1>5. /\ vm_physmem' \in [0 .. memory_pages - 1 -> Values]
      /\ \A g \in 0 .. memory_pages - 1 : g # f => vm_physmem'[g] = vm_physmem[g]
  BY <1>4
<1>6. TypeOK'
  BY <1>5 DEF Inv, TypeOK, app_store, cpuVars, tableVars, frameVars, diskVars
<1>7. ArenaInv' /\ CallInv'
  BY DEF Inv, ArenaInv, CallInv, app_store, tableVars, cpuVars, CurrentPages
<1>8. /\ \A c : StatusOf(c)' = StatusOf(c)
      /\ \A c : Resident(c)' = Resident(c)
      /\ \A c : PpageOf(c)' = PpageOf(c)
      /\ \A p, j, c : Maps(p, j, c)' <=> Maps(p, j, c)
      /\ \A c : InUse(c)' <=> InUse(c)
      /\ SharersAgree'
  BY TablesKept DEF Inv, app_store, tableVars
<1>9. SwapConserved'
  BY <1>8, SwapKept DEF Inv, app_store
<1>10. FaultInv'
  BY DEF FaultInv, app_store, Running, Idle
<1>11. FrameInv' /\ KeptInv'
  BY <1>8 DEF Inv, FrameInv, KeptInv, app_store, frameVars
<1>12. (vm_physmem[0] = Zero)'
  BY <1>3, <1>5, PagerAssumption DEF Inv
<1>13. ASSUME NEW c \in Blocks, InUse(c)
       PROVE  BitsInv(c)'
  <2>1. BitsInv(c) /\ StatusOf(c) \in Statuses
    BY <1>13, StatusType DEF Inv
  <2>2. CASE c = b
    BY <1>3, <1>8, <2>1, <2>2 DEF BitsInv
  <2>3. CASE c # b
    <3>1. ASSUME StatusOf(c).resident, StatusOf(c).ppage # 0
          PROVE  StatusOf(c).ppage # f
      BY <1>2, <1>3, <1>13, <2>3, <3>1, OwnFrame DEF Resident, PpageOf
    <3>2. ASSUME StatusOf(c).resident, StatusOf(c).ppage # 0
          PROVE  vm_physmem'[StatusOf(c).ppage] = vm_physmem[StatusOf(c).ppage]
      BY <1>5, <2>1, <3>1, <3>2 DEF Statuses
    <3>3. disk' = disk
      BY DEF app_store, diskVars
    <3> QED BY <1>8, <2>1, <3>2, <3>3 DEF BitsInv
  <2> QED BY <2>2, <2>3
<1>14. (\A c \in Blocks : InUse(c) => BitsInv(c))'
  BY <1>8, <1>13
<1> QED BY <1>6, <1>7, <1>8, <1>9, <1>10, <1>11, <1>12, <1>14 DEF Inv

\* Physical pages are kept when no block moves.
LEMMA FramesKept ==
  ASSUME FrameInv, UNCHANGED frameVars, fault = None \/ UNCHANGED fault,
         \A b \in Blocks : Resident(b)' = Resident(b) /\ PpageOf(b)' = PpageOf(b),
         \A b : InUse(b)' <=> InUse(b)
  PROVE  FrameInv'
BY DEF FrameInv, frameVars

\* What start_fault leaves alone.
FaultFrame == UNCHANGED <<cpuVars, managed, share_map, frameVars, free_swap_blocks,
                          vm_physmem, diskVars, scan, aborted>>

\* The MMU refuses the access.
Refused(i, write) ==
  IF write THEN ~Page(i).status.write_enable ELSE ~Page(i).status.read_enable

\* A fault on a resident page sets its bits; any other needs a physical page.
LEMMA StartFaultStep ==
  ASSUME Inv, dispatched # None, fault = None, NEW i \in CurrentPages,
         NEW write \in BOOLEAN, Refused(i, write), start_fault(i, write), FaultFrame
  PROVE  Inv'
<1>b. PICK b \in Blocks : b = Page(i).db
  BY PageBlock
<1>s. PICK s \in Statuses : s = StatusOf(b)
  BY PageBlock, <1>b
<1> DEFINE zero == s.read_enable /\ ~s.write_enable /\ ~s.reference
           d == s.dirty \/ write
           new == State(TRUE, d, TRUE, TRUE, d, None)
<1>1. /\ i \in 1 .. ArenaPages
      /\ InUse(b) /\ BitsInv(b)
      /\ Page(i).status = s /\ StatusOf(b) = s
      /\ Page(i).db = b
  BY <1>b, <1>s, PageBlock
<1>2. \/ /\ zero \/ ~s.resident
         /\ fault' = [vpn |-> i, write |-> write, zero |-> s.resident, ppage |-> 0]
         /\ UNCHANGED <<block_status_map, process_map>>
      \/ /\ ~zero /\ s.resident
         /\ Set_page_state(b, new)
         /\ UNCHANGED fault
  BY <1>1 DEF start_fault
<1>3. KeptInv' /\ (vm_physmem[0] = Zero)'
  BY DEF Inv, KeptInv, FaultFrame, frameVars
<1>4. CASE /\ zero \/ ~s.resident
           /\ fault' = [vpn |-> i, write |-> write, zero |-> s.resident, ppage |-> 0]
           /\ UNCHANGED <<block_status_map, process_map>>
  <2>1. /\ fault' \in Faults /\ fault'.vpn = i /\ fault'.zero = s.resident
        /\ fault'.write = write /\ fault'.ppage = 0
    BY <1>1, <1>4 DEF Faults, Statuses
  <2>2. TypeOK'
    BY <1>4, <2>1 DEF Inv, TypeOK, FaultFrame, cpuVars, frameVars, diskVars
  <2>3. /\ \A c : StatusOf(c)' = StatusOf(c)
        /\ \A c : Resident(c)' = Resident(c)
        /\ \A c : PpageOf(c)' = PpageOf(c)
        /\ \A p, j, c : Maps(p, j, c)' <=> Maps(p, j, c)
        /\ \A c : InUse(c)' <=> InUse(c)
        /\ SharersAgree'
    BY <1>4, TablesKept DEF Inv, FaultFrame
  <2>4. SwapConserved'
    BY <2>3, SwapKept DEF Inv, FaultFrame
  <2>5. FrameInv'
    BY <2>3, FramesKept DEF Inv, FaultFrame
  <2>6. (\A c \in Blocks : InUse(c) => BitsInv(c))'
    BY <2>3 DEF Inv, BitsInv, FaultFrame, diskVars
  <2>7. s.resident => s.ppage = 0 /\ write
    BY <1>1, <1>4 DEF BitsInv, Refused
  <2>8. ArenaInv' /\ CallInv'
    BY <1>4, <2>1, <2>7 DEF Inv, ArenaInv, CallInv, FaultFrame, cpuVars, CurrentPages
  <2>9. FaultBlock' = b
    BY <1>1, <1>4, <2>1 DEF FaultBlock, Page, FaultFrame, cpuVars
  <2>10. FaultInv'
    <3>1. Resident(b)' = s.resident /\ PpageOf(b)' = s.ppage
      BY <1>1, <2>3 DEF Resident, PpageOf
    <3> QED BY <1>1, <2>1, <2>7, <2>9, <3>1 DEF FaultInv, Resident, PpageOf
  <2> QED BY <1>3, <2>2, <2>3, <2>4, <2>5, <2>6, <2>8, <2>10 DEF Inv
<1>5. CASE /\ ~zero /\ s.resident
           /\ Set_page_state(b, new)
           /\ UNCHANGED fault
  <2>1. new \in NewStates
    BY <1>1 DEF NewStates, State, Statuses
  <2>2. /\ block_status_map' \in [Blocks -> Statuses \cup {None}]
        /\ process_map' \in [Pids -> Seq(Entries)]
        /\ \A p \in Pids : Len(process_map'[p]) = Len(process_map[p])
        /\ \A p \in Pids : \A j, c : Maps(p, j, c)' <=> Maps(p, j, c)
        /\ \A c : InUse(c)' <=> InUse(c)
        /\ StatusOf(b)' = Set_state(s, new)
        /\ \A c \in Blocks : c # b => StatusOf(c)' = StatusOf(c)
        /\ SharersAgree'
    <3> HIDE DEF new
    <3> QED BY <1>1, <1>5, <2>1, SetPageState DEF Inv, FaultFrame
  <2>3. /\ Set_state(s, new).ppage = s.ppage
        /\ Set_state(s, new).read_enable = TRUE
        /\ Set_state(s, new).resident = TRUE
        /\ Set_state(s, new).reference = TRUE
        /\ Set_state(s, new).write_enable = d
        /\ Set_state(s, new).dirty = d
    BY <1>1, <2>1, SetState DEF State
  <2>4. s.ppage # 0
    BY <1>1, <1>5 DEF BitsInv
  <2>5. TypeOK'
    BY <1>5, <2>2 DEF Inv, TypeOK, FaultFrame, cpuVars, frameVars, diskVars
  <2>6. ArenaInv'
    <3>1. \A p \in Pids \ managed' : process_map'[p] = <<>>
      <4>1. ASSUME NEW p \in Pids \ managed PROVE process_map'[p] = <<>>
        <5>1. process_map'[p] \in Seq(Entries) /\ Len(process_map'[p]) = 0
          BY <2>2 DEF Inv, ArenaInv
        <5> QED BY <5>1, EmptySeq
      <4> QED BY <4>1 DEF FaultFrame
    <3> QED BY <2>2, <3>1 DEF Inv, ArenaInv
  <2>7. CallInv'
    <3>1. current_pid \in Pids
      BY RunningProcess
    <3> QED BY <1>5, <2>2, <3>1 DEF Inv, CallInv, FaultFrame, cpuVars
  <2>8. SwapConserved'
    BY <2>2 DEF Inv, SwapConserved, FaultFrame
  <2>9. FaultInv'
    BY <1>5 DEF FaultInv
  <2>10. \A c \in Blocks : Resident(c)' = Resident(c) /\ PpageOf(c)' = PpageOf(c)
    <3>1. s.resident = TRUE
      BY <1>5 DEF Statuses
    <3> QED BY <1>1, <2>2, <2>3, <3>1 DEF Resident, PpageOf
  <2>11. FrameInv'
    BY <2>2, <2>10, FramesKept DEF Inv, FaultFrame
  <2>12. ASSUME NEW c \in Blocks, InUse(c) PROVE BitsInv(c)'
    <3>1. vm_physmem' = vm_physmem /\ disk' = disk
      BY DEF FaultFrame, diskVars
    <3>2. CASE c = b
      BY <1>1, <2>2, <2>3, <2>4, <3>1, <3>2, <1>5 DEF BitsInv
    <3>3. CASE c # b
      BY <2>2, <2>12, <3>1, <3>3 DEF Inv, BitsInv
    <3> QED BY <3>2, <3>3
  <2> QED BY <1>3, <2>2, <2>5, <2>6, <2>7, <2>8, <2>9, <2>11, <2>12 DEF Inv
<1> QED BY <1>2, <1>4, <1>5

\* vm_fault is called for a page the MMU refuses to access.
LEMMA FaultStep ==
  ASSUME Inv, NEW i \in 1 .. ArenaPages, NEW write \in BOOLEAN, vm_fault(i, write)
  PROVE  Inv'
BY StartFaultStep DEF vm_fault, Running, Idle, Refused, FaultFrame

\* Find_filename calls it for a page it cannot read.
LEMMA ScanFaultStep ==
  ASSUME Inv, scan_fault
  PROVE  Inv'
<1>1. dispatched # None
  BY ScanState DEF scan_fault
<1> QED BY <1>1, StartFaultStep DEF scan_fault, Scanning, Refused, FaultFrame
-----------------------------------------------------------------------------
(* Find_place_in_PM.                                                         *)

\* A fault is about a page of the current process.
LEMMA FaultState ==
  ASSUME Inv, fault # None
  PROVE  /\ fault \in Faults
         /\ dispatched # None
         /\ current_pid \in Pids
         /\ fault.vpn \in DOMAIN process_map[current_pid]
         /\ FaultBlock \in Blocks
         /\ InUse(FaultBlock)
         /\ fault.zero => fault.write
         /\ FaultBlock = process_map[current_pid][fault.vpn].db
<1>1. fault \in Faults /\ dispatched # None /\ fault.vpn \in CurrentPages
      /\ (fault.zero => fault.write)
  BY DEF Inv, CallInv, TypeOK
<1>2. current_pid \in Pids
  BY <1>1, RunningProcess
<1>3. FaultBlock \in Blocks /\ InUse(FaultBlock)
  BY <1>1, PageBlock DEF FaultBlock
<1> QED BY <1>1, <1>2, <1>3 DEF FaultBlock, Page, CurrentPages

\* Steps that change states and queues but no arena.
LEMMA CallKept ==
  ASSUME Inv, dispatched # None, UNCHANGED <<cpuVars, managed>>,
         process_map' \in [Pids -> Seq(Entries)],
         \A p \in Pids : /\ Len(process_map'[p]) = Len(process_map[p])
                         /\ DOMAIN process_map'[p] = DOMAIN process_map[p],
         \/ fault' = None
         \/ /\ fault # None
            /\ fault'.vpn = fault.vpn
            /\ fault'.write = fault.write
            /\ fault'.zero = fault.zero,
         scan' = None \/ UNCHANGED scan
  PROVE  ArenaInv' /\ CallInv'
<1>1. current_pid \in Pids
  BY RunningProcess
<1>2. ArenaInv'
  <2>1. ASSUME NEW p \in Pids \ managed PROVE process_map'[p] = <<>>
    <3>1. process_map'[p] \in Seq(Entries) /\ Len(process_map'[p]) = 0
      BY DEF Inv, ArenaInv
    <3> QED BY <3>1, EmptySeq
  <2> QED BY <2>1 DEF Inv, ArenaInv
<1>3. CallInv'
  BY <1>1 DEF Inv, CallInv, cpuVars, CurrentPages
<1> QED BY <1>2, <1>3

\* The free page taken was not under the clock hand.
LEMMA TakeStep ==
  ASSUME Inv, take_free_page
  PROVE  Inv'
<1>0. /\ fault # None /\ fault.ppage = 0 /\ free_physical_pages # <<>>
      /\ free_physical_pages \in Seq(Frames) /\ clock_queue \in Seq(Frames)
      /\ IsInjective(free_physical_pages) /\ IsInjective(clock_queue)
      /\ Range(free_physical_pages) \cap Range(clock_queue) = {}
  BY DEF take_free_page, Finding, Inv, TypeOK, FrameInv
<1>1. PICK f : f = Head(free_physical_pages)
  OBVIOUS
<1>2. PICK b : b = FaultBlock
  OBVIOUS
<1>3. /\ fault \in Faults /\ dispatched # None /\ current_pid \in Pids
      /\ b \in Blocks /\ InUse(b)
  BY <1>0, <1>2, FaultState
<1>4. /\ f \in Frames /\ f # 0
      /\ f \in Range(free_physical_pages) /\ f \notin Range(clock_queue)
      /\ Tail(free_physical_pages) \in Seq(Frames)
      /\ Range(Tail(free_physical_pages)) = Range(free_physical_pages) \ {f}
      /\ IsInjective(Tail(free_physical_pages))
  <2>1. /\ f \in Frames
        /\ f \in Range(free_physical_pages)
        /\ Tail(free_physical_pages) \in Seq(Frames)
        /\ Range(Tail(free_physical_pages)) = Range(free_physical_pages) \ {f}
        /\ IsInjective(Tail(free_physical_pages))
    BY <1>0, <1>1, PopQueue
  <2> QED BY <1>0, <2>1, PagerAssumption DEF Frames
<1>5. /\ free_physical_pages' = Tail(free_physical_pages)
      /\ clock_queue' = Append(clock_queue, f)
      /\ ppage_to_block_map' = [ppage_to_block_map EXCEPT ![f] = b]
      /\ fault' = [fault EXCEPT !.ppage = f]
  BY <1>1, <1>2 DEF take_free_page
<1>6. /\ clock_queue' \in Seq(Frames)
      /\ Range(clock_queue') = Range(clock_queue) \cup {f}
      /\ IsInjective(clock_queue')
  BY <1>0, <1>4, <1>5, PushQueue
<1>7. /\ fault' \in Faults /\ fault' # None /\ fault'.ppage = f
      /\ fault'.vpn = fault.vpn /\ fault'.write = fault.write
      /\ fault'.zero = fault.zero
  <2>1. /\ fault' \in Faults /\ fault'.ppage = f
        /\ fault'.vpn = fault.vpn /\ fault'.write = fault.write
        /\ fault'.zero = fault.zero
    BY <1>3, <1>4, <1>5 DEF Faults
  <2> QED BY <2>1, NoneAssumption
<1>8. /\ ppage_to_block_map' \in [Frames -> Blocks \cup {None}]
      /\ ppage_to_block_map'[f] = b
      /\ \A g \in Frames : g # f => ppage_to_block_map'[g] = ppage_to_block_map[g]
  BY <1>3, <1>4, <1>5 DEF Inv, TypeOK
<1>9. TypeOK'
  BY <1>4, <1>5, <1>6, <1>7, <1>8
     DEF Inv, TypeOK, take_free_page, cpuVars, tableVars, diskVars
<1>10. /\ \A c : StatusOf(c)' = StatusOf(c)
       /\ \A c : Resident(c)' = Resident(c)
       /\ \A c : PpageOf(c)' = PpageOf(c)
       /\ \A p, j, c : Maps(p, j, c)' <=> Maps(p, j, c)
       /\ \A c : InUse(c)' <=> InUse(c)
       /\ SharersAgree'
  BY TablesKept DEF Inv, take_free_page, tableVars
<1>11. SwapConserved'
  BY <1>10, SwapKept DEF Inv, take_free_page
<1>12. ArenaInv' /\ CallInv'
  BY <1>0, <1>3, <1>7, CallKept DEF Inv, TypeOK, take_free_page, tableVars
<1>13. FaultBlock' = b
  BY <1>2, <1>7 DEF FaultBlock, Page, take_free_page, tableVars, cpuVars
<1>14. FaultInv'
  <2>1. IF fault.zero THEN Resident(b) /\ PpageOf(b) = 0 ELSE ~Resident(b)
    BY <1>0, <1>2 DEF Inv, FaultInv
  <2> QED BY <1>6, <1>7, <1>8, <1>10, <1>13, <2>1 DEF FaultInv
<1>15. FrameInv'
  <2>1. ASSUME NEW g \in Range(clock_queue'), g # f
        PROVE  \E c \in Blocks : /\ ppage_to_block_map'[g] = c
                                 /\ InUse(c) /\ Resident(c) /\ PpageOf(c) = g
    <3>1. g \in Range(clock_queue) /\ g \in Frames
      BY <1>0, <1>6, <2>1, RangeQueue
    <3>2. fault.ppage # g
      BY <1>0, <3>1, PagerAssumption DEF Frames
    <3> QED BY <1>8, <2>1, <3>1, <3>2 DEF Inv, FrameInv
  <2>2. ASSUME NEW c \in Blocks, InUse(c), Resident(c), PpageOf(c) # 0
        PROVE  /\ ppage_to_block_map'[PpageOf(c)] = c
               /\ PpageOf(c) \notin Range(free_physical_pages')
    <3>1. /\ ppage_to_block_map[PpageOf(c)] = c
          /\ PpageOf(c) \notin Range(free_physical_pages)
      BY <2>2 DEF Inv, FrameInv
    <3>2. PpageOf(c) \in Frames
      <4>1. StatusOf(c) \in Statuses
        BY StatusType DEF Inv
      <4> QED BY <2>2, <4>1, PagerAssumption DEF Statuses, PpageOf, Frames
    <3> QED BY <1>4, <1>5, <1>8, <3>1, <3>2
  <2>3. Range(free_physical_pages') \cap Range(clock_queue') = {}
    BY <1>0, <1>4, <1>5, <1>6
  <2>4. \A g \in Range(clock_queue') :
          \/ fault' # None /\ fault'.ppage = g
          \/ \E c \in Blocks : /\ ppage_to_block_map'[g] = c
                               /\ InUse(c)' /\ Resident(c)' /\ PpageOf(c)' = g
    BY <1>7, <1>10, <2>1
  <2>5. \A c \in Blocks : InUse(c)' /\ Resident(c)' /\ PpageOf(c)' # 0
          => /\ ppage_to_block_map'[PpageOf(c)'] = c
             /\ PpageOf(c)' \notin Range(free_physical_pages')
    BY <1>10, <2>2
  <2> QED BY <1>4, <1>5, <1>6, <2>3, <2>4, <2>5 DEF FrameInv
<1>16. KeptInv'
  BY <1>4, <1>5, <1>6 DEF Inv, KeptInv, take_free_page
<1>17. (vm_physmem[0] = Zero)' /\ (\A c \in Blocks : InUse(c) => BitsInv(c))'
  BY <1>10 DEF Inv, BitsInv, take_free_page, diskVars
<1> QED BY <1>9, <1>10, <1>11, <1>12, <1>14, <1>15, <1>16, <1>17 DEF Inv

\* A resident block outside page 0 is in a frame.
LEMMA PpageType ==
  ASSUME TypeOK, NEW b \in Blocks, PpageOf(b) # 0
  PROVE  PpageOf(b) \in Frames
<1>1. StatusOf(b) \in Statuses
  BY StatusType
<1> QED BY <1>1, PagerAssumption DEF Statuses, PpageOf, Frames

\* Under the clock hand is the page of a resident block, not the faulting one.
LEMMA HandState ==
  ASSUME Inv, Sweeping
  PROVE  /\ Hand \in Frames /\ Hand # 0 /\ Hand \in Range(clock_queue)
         /\ HandBlock \in Blocks
         /\ InUse(HandBlock) /\ Resident(HandBlock) /\ PpageOf(HandBlock) = Hand
         /\ HandBlock # FaultBlock
         /\ Tail(clock_queue) \in Seq(Frames)
         /\ Range(Tail(clock_queue)) = Range(clock_queue) \ {Hand}
         /\ IsInjective(Tail(clock_queue))
         /\ Append(Tail(clock_queue), Hand) \in Seq(Frames)
         /\ Range(Append(Tail(clock_queue), Hand)) = Range(clock_queue)
         /\ IsInjective(Append(Tail(clock_queue), Hand))
<1>1. /\ clock_queue \in Seq(Frames) /\ clock_queue # <<>>
      /\ IsInjective(clock_queue)
      /\ fault # None /\ fault.ppage = 0
  BY DEF Inv, TypeOK, FrameInv, Sweeping, Finding
<1>2. /\ Hand \in Frames /\ Hand \in Range(clock_queue)
      /\ Tail(clock_queue) \in Seq(Frames)
      /\ Range(Tail(clock_queue)) = Range(clock_queue) \ {Hand}
      /\ IsInjective(Tail(clock_queue))
  BY <1>1, PopQueue DEF Hand
<1>3. Hand # 0
  BY <1>2, PagerAssumption DEF Frames
<1>4. /\ HandBlock \in Blocks
      /\ InUse(HandBlock) /\ Resident(HandBlock) /\ PpageOf(HandBlock) = Hand
  BY <1>1, <1>2, <1>3 DEF Inv, FrameInv, HandBlock
<1>5. HandBlock # FaultBlock
  BY <1>1, <1>3, <1>4 DEF Inv, FaultInv
<1>6. /\ Append(Tail(clock_queue), Hand) \in Seq(Frames)
      /\ Range(Append(Tail(clock_queue), Hand)) = Range(clock_queue)
      /\ IsInjective(Append(Tail(clock_queue), Hand))
  BY <1>1, RotateQueue DEF Hand
<1> QED BY <1>2, <1>3, <1>4, <1>5, <1>6

\* A page without protection rights faults when it is used again.
LEMMA PassStep ==
  ASSUME Inv, clock_pass
  PROVE  Inv'
<1>0. Sweeping /\ fault # None /\ fault.ppage = 0
  BY DEF clock_pass, Sweeping, Finding
<1>b. PICK b \in Blocks : b = HandBlock
  BY <1>0, HandState
<1>s. PICK s \in Statuses : s = StatusOf(b)
  BY StatusType DEF Inv
<1> DEFINE new == State(FALSE, FALSE, TRUE, FALSE, s.dirty, None)
<1>1. /\ InUse(b) /\ s.resident = TRUE /\ s.ppage # 0 /\ BitsInv(b)
      /\ Append(Tail(clock_queue), Hand) \in Seq(Frames)
      /\ Range(Append(Tail(clock_queue), Hand)) = Range(clock_queue)
      /\ IsInjective(Append(Tail(clock_queue), Hand))
  BY <1>0, <1>b, <1>s, HandState DEF Inv, Resident, PpageOf, Statuses
<1>2. new \in NewStates
  BY <1>s DEF NewStates, State, Statuses
<1>3. /\ block_status_map' \in [Blocks -> Statuses \cup {None}]
      /\ process_map' \in [Pids -> Seq(Entries)]
      /\ \A p \in Pids : /\ Len(process_map'[p]) = Len(process_map[p])
                         /\ DOMAIN process_map'[p] = DOMAIN process_map[p]
      /\ \A p \in Pids : \A i \in DOMAIN process_map[p] :
           process_map'[p][i].db = process_map[p][i].db
      /\ \A p \in Pids : \A j, c : Maps(p, j, c)' <=> Maps(p, j, c)
      /\ \A c : InUse(c)' <=> InUse(c)
      /\ StatusOf(b)' = Set_state(s, new)
      /\ \A c \in Blocks : c # b => StatusOf(c)' = StatusOf(c)
      /\ SharersAgree'
  <2>1. Set_page_state(b, new) /\ UNCHANGED share_map
    BY <1>b, <1>s DEF clock_pass
  <2> HIDE DEF new
  <2> QED BY <1>2, <1>s, <2>1, SetPageState DEF Inv
<1>4. /\ Set_state(s, new).ppage = s.ppage
      /\ Set_state(s, new).read_enable = FALSE
      /\ Set_state(s, new).write_enable = FALSE
      /\ Set_state(s, new).resident = TRUE
      /\ Set_state(s, new).dirty = s.dirty
  BY <1>2, SetState DEF State
<1>5. clock_queue' = Append(Tail(clock_queue), Hand)
  BY DEF clock_pass
<1>6. TypeOK'
  BY <1>1, <1>3, <1>5 DEF Inv, TypeOK, clock_pass, cpuVars, diskVars
<1>7. ArenaInv' /\ CallInv'
  <2>1. dispatched # None
    BY <1>0, FaultState
  <2> QED BY <1>0, <1>3, <2>1, CallKept DEF clock_pass
<1>8. SwapConserved'
  BY <1>3 DEF Inv, SwapConserved, clock_pass
<1>9. \A c \in Blocks : Resident(c)' = Resident(c) /\ PpageOf(c)' = PpageOf(c)
  BY <1>s, <1>1, <1>3, <1>4 DEF Resident, PpageOf
<1>10. FaultInv'
  <2>1. PICK F \in Blocks : F = FaultBlock
    BY <1>0, FaultState
  <2>2. FaultBlock' = F
    BY <1>0, <1>3, <2>1, FaultState DEF FaultBlock, Page, clock_pass, cpuVars
  <2> QED BY <1>0, <1>9, <2>1, <2>2 DEF Inv, FaultInv, clock_pass
<1>11. FrameInv'
  BY <1>1, <1>3, <1>5, <1>9 DEF Inv, FrameInv, clock_pass
<1>12. KeptInv' /\ (vm_physmem[0] = Zero)'
  BY <1>1, <1>5 DEF Inv, KeptInv, clock_pass
<1>13. ASSUME NEW c \in Blocks, InUse(c) PROVE BitsInv(c)'
  <2>1. vm_physmem' = vm_physmem /\ disk' = disk
    BY DEF clock_pass, diskVars
  <2>2. CASE c = b
    BY <1>s, <1>1, <1>3, <1>4, <2>1, <2>2 DEF BitsInv
  <2>3. CASE c # b
    BY <1>3, <1>13, <2>1, <2>3 DEF Inv, BitsInv
  <2> QED BY <2>2, <2>3
<1> QED BY <1>3, <1>6, <1>7, <1>8, <1>10, <1>11, <1>12, <1>13 DEF Inv

\* The page taken from its block is the one the fault gets, and a dirty one has
\* been written back.
LEMMA EvictStep ==
  ASSUME Inv, clock_evict
  PROVE  Inv'
<1>0. /\ Sweeping /\ fault # None /\ fault.ppage = 0
      /\ fault \in Faults /\ dispatched # None
  BY FaultState DEF clock_evict, Sweeping, Finding
<1>b. PICK b \in Blocks : b = HandBlock
  BY <1>0, HandState
<1>f. PICK f \in Frames : f = Hand
  BY <1>0, HandState
<1>F. PICK F \in Blocks : F = FaultBlock
  BY <1>0, FaultState
<1>s. PICK s \in Statuses : s = StatusOf(b)
  BY StatusType DEF Inv
<1> DEFINE new == State(FALSE, FALSE, FALSE, FALSE, FALSE, None)
<1>1. /\ InUse(b) /\ s.ppage = f /\ f # 0 /\ BitsInv(b) /\ b # F /\ InUse(F)
      /\ Resident(b) /\ PpageOf(b) = f
      /\ f \in Range(clock_queue)
      /\ Append(Tail(clock_queue), f) \in Seq(Frames)
      /\ Range(Append(Tail(clock_queue), f)) = Range(clock_queue)
      /\ IsInjective(Append(Tail(clock_queue), f))
  <2>1. /\ InUse(b) /\ PpageOf(b) = f /\ b # F /\ Resident(b) /\ f # 0
        /\ f \in Range(clock_queue)
        /\ Append(Tail(clock_queue), f) \in Seq(Frames)
        /\ Range(Append(Tail(clock_queue), f)) = Range(clock_queue)
        /\ IsInjective(Append(Tail(clock_queue), f))
    BY <1>0, <1>b, <1>f, <1>F, HandState
  <2>2. BitsInv(b) /\ s.ppage = f
    BY <1>s, <2>1 DEF Inv, PpageOf
  <2>3. InUse(F)
    BY <1>0, <1>F, FaultState
  <2> QED BY <2>1, <2>2, <2>3
<1>2. new \in NewStates
  BY DEF NewStates, State
<1>3. /\ block_status_map' \in [Blocks -> Statuses \cup {None}]
      /\ process_map' \in [Pids -> Seq(Entries)]
      /\ \A p \in Pids : /\ Len(process_map'[p]) = Len(process_map[p])
                         /\ DOMAIN process_map'[p] = DOMAIN process_map[p]
      /\ \A p \in Pids : \A i \in DOMAIN process_map[p] :
           process_map'[p][i].db = process_map[p][i].db
      /\ \A p \in Pids : \A j, c : Maps(p, j, c)' <=> Maps(p, j, c)
      /\ \A c : InUse(c)' <=> InUse(c)
      /\ StatusOf(b)' = Set_state(s, new)
      /\ \A c \in Blocks : c # b => StatusOf(c)' = StatusOf(c)
      /\ SharersAgree'
  <2>1. Set_page_state(b, new) /\ UNCHANGED share_map
    BY <1>b DEF clock_evict
  <2> HIDE DEF new
  <2> QED BY <1>2, <1>s, <2>1, SetPageState DEF Inv
<1>4. /\ Set_state(s, new).read_enable = FALSE
      /\ Set_state(s, new).write_enable = FALSE
      /\ Set_state(s, new).resident = FALSE
  BY <1>2, SetState DEF State
<1>5. /\ clock_queue' = Append(Tail(clock_queue), f)
      /\ ppage_to_block_map' = [ppage_to_block_map EXCEPT ![f] = F]
      /\ fault' = [fault EXCEPT !.ppage = f]
      /\ disk' \in [Blocks -> Values]
      /\ accessed' \in SUBSET Blocks
      /\ \A c \in Blocks : c # b => disk'[c] = disk[c]
  <2>1. /\ clock_queue' = Append(Tail(clock_queue), f)
        /\ ppage_to_block_map' = [ppage_to_block_map EXCEPT ![f] = F]
        /\ fault' = [fault EXCEPT !.ppage = f]
    BY <1>f, <1>F DEF clock_evict
  <2>2. \/ /\ disk' = [disk EXCEPT ![b] = vm_physmem[f]]
           /\ accessed' = accessed \cup {b}
        \/ disk' = disk /\ accessed' = accessed
    BY <1>b, <1>f DEF clock_evict, diskVars
  <2>3. /\ disk \in [Blocks -> Values] /\ accessed \in SUBSET Blocks
        /\ vm_physmem[f] \in Values
    BY PagerAssumption DEF Inv, TypeOK, Frames
  <2> QED BY <2>1, <2>2, <2>3
<1>6. /\ fault' \in Faults /\ fault' # None /\ fault'.ppage = f
      /\ fault'.vpn = fault.vpn /\ fault'.write = fault.write
      /\ fault'.zero = fault.zero
  <2>1. /\ fault' \in Faults /\ fault'.ppage = f
        /\ fault'.vpn = fault.vpn /\ fault'.write = fault.write
        /\ fault'.zero = fault.zero
    BY <1>0, <1>5 DEF Faults
  <2> QED BY <2>1, NoneAssumption
<1>7. /\ ppage_to_block_map' \in [Frames -> Blocks \cup {None}]
      /\ ppage_to_block_map'[f] = F
      /\ \A g \in Frames : g # f => ppage_to_block_map'[g] = ppage_to_block_map[g]
  BY <1>5 DEF Inv, TypeOK
<1>8. TypeOK'
  BY <1>1, <1>3, <1>5, <1>6, <1>7 DEF Inv, TypeOK, clock_evict, cpuVars
<1>9. ArenaInv' /\ CallInv'
  BY <1>0, <1>3, <1>6, CallKept DEF clock_evict
<1>10. SwapConserved'
  BY <1>3 DEF Inv, SwapConserved, clock_evict
<1>11. /\ ~Resident(b)'
       /\ \A c \in Blocks : c # b => /\ Resident(c)' = Resident(c)
                                     /\ PpageOf(c)' = PpageOf(c)
  BY <1>3, <1>4 DEF Resident, PpageOf
<1>12. FaultInv'
  <2>1. FaultBlock' = F
    BY <1>0, <1>3, <1>6, <1>F, FaultState
       DEF FaultBlock, Page, clock_evict, cpuVars
  <2>2. IF fault.zero THEN Resident(F) /\ PpageOf(F) = 0 ELSE ~Resident(F)
    BY <1>0, <1>F DEF Inv, FaultInv
  <2> QED BY <1>1, <1>5, <1>6, <1>7, <1>11, <2>1, <2>2 DEF FaultInv
<1>13. FrameInv'
  <2>1. /\ free_physical_pages' = free_physical_pages
        /\ clock_queue \in Seq(Frames)
    BY DEF clock_evict, Inv, TypeOK
  <2>2. ASSUME NEW g \in Range(clock_queue'), g # f
        PROVE  \E c \in Blocks : /\ ppage_to_block_map'[g] = c
                                 /\ InUse(c)' /\ Resident(c)' /\ PpageOf(c)' = g
    <3>1. g \in Range(clock_queue) /\ g \in Frames
      BY <1>1, <1>5, <2>1, RangeQueue
    <3>2. fault.ppage # g
      BY <1>0, <3>1, PagerAssumption DEF Frames
    <3>3. PICK c \in Blocks : /\ ppage_to_block_map[g] = c
                              /\ InUse(c) /\ Resident(c) /\ PpageOf(c) = g
      BY <3>1, <3>2 DEF Inv, FrameInv
    <3>4. c # b
      BY <1>1, <2>2, <3>3
    <3> QED BY <1>3, <1>7, <1>11, <2>2, <3>1, <3>3, <3>4
  <2>3. ASSUME NEW c \in Blocks, InUse(c)', Resident(c)', PpageOf(c)' # 0
        PROVE  /\ ppage_to_block_map'[PpageOf(c)'] = c
               /\ PpageOf(c)' \notin Range(free_physical_pages')
    <3>1. /\ c # b /\ InUse(c) /\ Resident(c) /\ PpageOf(c) # 0
          /\ PpageOf(c)' = PpageOf(c)
      BY <1>3, <1>11, <2>3
    <3>2. PpageOf(c) # f
      BY <1>1, <3>1, OwnFrame
    <3>3. PpageOf(c) \in Frames
      BY <3>1, PpageType DEF Inv
    <3>4. /\ ppage_to_block_map[PpageOf(c)] = c
          /\ PpageOf(c) \notin Range(free_physical_pages)
      BY <3>1 DEF Inv, FrameInv
    <3> QED BY <1>7, <2>1, <3>1, <3>2, <3>3, <3>4
  <2>4. /\ IsInjective(free_physical_pages')
        /\ IsInjective(clock_queue')
        /\ Range(free_physical_pages') \cap Range(clock_queue') = {}
    BY <1>1, <1>5, <2>1 DEF Inv, FrameInv
  <2> QED BY <1>6, <2>2, <2>3, <2>4 DEF FrameInv
<1>14. KeptInv' /\ (vm_physmem[0] = Zero)'
  BY <1>1, <1>5 DEF Inv, KeptInv, clock_evict
<1>15. ASSUME NEW c \in Blocks, InUse(c) PROVE BitsInv(c)'
  <2>1. vm_physmem' = vm_physmem
    BY DEF clock_evict
  <2>2. CASE c = b
    BY <1>3, <1>4, <2>2 DEF BitsInv
  <2>3. CASE c # b
    BY <1>3, <1>5, <1>15, <2>1, <2>3 DEF Inv, BitsInv
  <2> QED BY <2>2, <2>3
<1> QED BY <1>3, <1>8, <1>9, <1>10, <1>12, <1>13, <1>14, <1>15 DEF Inv

\* The page is lost, but only when writes may fail.
LEMMA WriteFailsStep ==
  ASSUME Inv, clock_write_fails
  PROVE  Inv'
<1>0. /\ Sweeping /\ fault # None /\ fault.ppage = 0 /\ dispatched # None
      /\ fault' = None /\ scan' = None
  BY FaultState DEF clock_write_fails, Sweeping, Finding, return_failure
<1>1. /\ clock_queue' \in Seq(Frames)
      /\ Range(clock_queue') \subseteq Range(clock_queue)
      /\ IsInjective(clock_queue')
  BY <1>0, HandState DEF clock_write_fails
<1>2. TypeOK'
  BY <1>0, <1>1 DEF Inv, TypeOK, clock_write_fails, cpuVars, tableVars, diskVars
<1>3. /\ \A c : StatusOf(c)' = StatusOf(c)
      /\ \A c : Resident(c)' = Resident(c)
      /\ \A c : PpageOf(c)' = PpageOf(c)
      /\ \A p, j, c : Maps(p, j, c)' <=> Maps(p, j, c)
      /\ \A c : InUse(c)' <=> InUse(c)
      /\ SharersAgree'
  BY TablesKept DEF Inv, clock_write_fails, tableVars
<1>4. ArenaInv' /\ CallInv'
  BY <1>0, CallKept DEF Inv, TypeOK, clock_write_fails, tableVars
<1>5. SwapConserved'
  BY <1>3, SwapKept DEF Inv, clock_write_fails
<1>6. FaultInv'
  BY <1>0 DEF FaultInv
<1>7. FrameInv'
  <2>1. \A g \in Range(clock_queue') : fault.ppage # g
    <3>1. clock_queue \in Seq(Frames)
      BY DEF Inv, TypeOK
    <3> QED BY <1>0, <1>1, <3>1, RangeQueue, PagerAssumption DEF Frames
  <2>2. free_physical_pages' = free_physical_pages
        /\ ppage_to_block_map' = ppage_to_block_map
    BY DEF clock_write_fails
  <2>3. \A g \in Range(clock_queue') :
          \E c \in Blocks : /\ ppage_to_block_map'[g] = c
                            /\ InUse(c)' /\ Resident(c)' /\ PpageOf(c)' = g
    BY <1>1, <1>3, <2>1, <2>2 DEF Inv, FrameInv
  <2>4. \A c \in Blocks : InUse(c)' /\ Resident(c)' /\ PpageOf(c)' # 0
          => /\ ppage_to_block_map'[PpageOf(c)'] = c
             /\ PpageOf(c)' \notin Range(free_physical_pages')
    BY <1>3, <2>2 DEF Inv, FrameInv
  <2>5. /\ IsInjective(free_physical_pages')
        /\ Range(free_physical_pages') \cap Range(clock_queue') = {}
    BY <1>1, <2>2 DEF Inv, FrameInv
  <2> QED BY <1>1, <2>3, <2>4, <2>5 DEF FrameInv
<1>8. KeptInv' /\ (vm_physmem[0] = Zero)'
  BY DEF KeptInv, Inv, clock_write_fails
<1>9. (\A c \in Blocks : InUse(c) => BitsInv(c))'
  BY <1>3 DEF Inv, BitsInv, clock_write_fails, diskVars
<1> QED BY <1>2, <1>3, <1>4, <1>5, <1>6, <1>7, <1>8, <1>9 DEF Inv

\* The assertion fails only when writes may fail: otherwise no page is ever lost,
\* and the pager has at least one.
LEMMA EmptyStep ==
  ASSUME Inv, clock_empty
  PROVE  Inv'
<1>0. /\ fault # None /\ dispatched # None /\ scan' = scan /\ fault' = fault
      /\ free_physical_pages = <<>> /\ clock_queue = <<>>
  BY FaultState DEF clock_empty, Finding
<1>1. TypeOK'
  BY DEF Inv, TypeOK, clock_empty, cpuVars, tableVars, frameVars, diskVars
<1>2. /\ \A c : StatusOf(c)' = StatusOf(c)
      /\ \A c : Resident(c)' = Resident(c)
      /\ \A c : PpageOf(c)' = PpageOf(c)
      /\ \A p, j, c : Maps(p, j, c)' <=> Maps(p, j, c)
      /\ \A c : InUse(c)' <=> InUse(c)
      /\ SharersAgree'
  BY TablesKept DEF Inv, clock_empty, tableVars
<1>3. ArenaInv' /\ CallInv'
  BY <1>0, CallKept DEF Inv, TypeOK, clock_empty, tableVars
<1>4. SwapConserved'
  BY <1>2, SwapKept DEF Inv, clock_empty
<1>5. FaultInv'
  BY <1>2 DEF Inv, FaultInv, FaultBlock, Page, clock_empty, cpuVars, frameVars, tableVars
<1>6. FrameInv'
  BY <1>2, FramesKept DEF Inv, clock_empty
<1>7. KeptInv'
  <2>1. Range(free_physical_pages) \cup Range(clock_queue) # Frames
    <3>1. 1 \in Frames
      BY PagerAssumption DEF Frames
    <3> QED BY <1>0, <3>1, EmptyQueue
  <2> QED BY <2>1 DEF Inv, KeptInv
<1>8. (vm_physmem[0] = Zero)' /\ (\A c \in Blocks : InUse(c) => BitsInv(c))'
  BY <1>2 DEF Inv, BitsInv, clock_empty, diskVars
<1> QED BY <1>1, <1>2, <1>3, <1>4, <1>5, <1>6, <1>7, <1>8 DEF Inv

-----------------------------------------------------------------------------
(* The end of a fault.                                                       *)

\* The block of the fault gets the page found for it, filled with v.
LEMMA ResidentStep ==
  ASSUME Inv, fault # None, fault.ppage # 0, set_resident,
         UNCHANGED <<cpuVars, managed, share_map, frameVars, free_swap_blocks, disk,
                     scan, aborted>>,
         NEW v \in Values, fault.write \/ v = disk[FaultBlock],
         vm_physmem' = [vm_physmem EXCEPT ![fault.ppage] = v],
         accessed' \in SUBSET Blocks
  PROVE  Inv'
<1>0. /\ fault \in Faults /\ dispatched # None /\ fault' = None
      /\ fault.write \in BOOLEAN
  BY FaultState DEF Faults, set_resident
<1>b. PICK b \in Blocks : b = FaultBlock
  BY FaultState
<1>f. PICK f \in Frames : f = fault.ppage
  BY <1>0 DEF Faults
<1>w. PICK w \in BOOLEAN : w = fault.write
  BY <1>0
<1>s. PICK s \in Statuses : s = StatusOf(b)
  BY StatusType DEF Inv
<1> DEFINE new == State(TRUE, w, TRUE, TRUE, w, f)
<1>1. /\ InUse(b) /\ f # 0
      /\ f \in Range(clock_queue) /\ ppage_to_block_map[f] = b
      /\ ~(Resident(b) /\ PpageOf(b) # 0)
  BY <1>b, <1>f, FaultState DEF Inv, FaultInv
<1>2. new \in NewStates /\ f # None
  BY PagerAssumption, NoneAssumption DEF NewStates, State, Frames
<1>3. /\ block_status_map' \in [Blocks -> Statuses \cup {None}]
      /\ process_map' \in [Pids -> Seq(Entries)]
      /\ \A p \in Pids : /\ Len(process_map'[p]) = Len(process_map[p])
                         /\ DOMAIN process_map'[p] = DOMAIN process_map[p]
      /\ \A p \in Pids : \A j, c : Maps(p, j, c)' <=> Maps(p, j, c)
      /\ \A c : InUse(c)' <=> InUse(c)
      /\ StatusOf(b)' = Set_state(s, new)
      /\ \A c \in Blocks : c # b => StatusOf(c)' = StatusOf(c)
      /\ SharersAgree'
  <2>1. Set_page_state(b, new) /\ UNCHANGED share_map
    BY <1>b, <1>f, <1>w DEF set_resident
  <2> HIDE DEF new
  <2> QED BY <1>2, <1>s, <2>1, SetPageState DEF Inv
<1>4. /\ Set_state(s, new).ppage = f
      /\ Set_state(s, new).read_enable = TRUE
      /\ Set_state(s, new).write_enable = w
      /\ Set_state(s, new).resident = TRUE
      /\ Set_state(s, new).reference = TRUE
      /\ Set_state(s, new).dirty = w
  BY <1>2, SetState DEF State
<1>5. /\ vm_physmem' \in [0 .. memory_pages - 1 -> Values]
      /\ vm_physmem'[f] = v
      /\ \A g \in 0 .. memory_pages - 1 : g # f => vm_physmem'[g] = vm_physmem[g]
  BY <1>f, PagerAssumption DEF Inv, TypeOK, Frames
<1>6. TypeOK'
  BY <1>0, <1>3, <1>5 DEF Inv, TypeOK, frameVars, cpuVars
<1>7. ArenaInv' /\ CallInv'
  BY <1>0, <1>3, CallKept
<1>8. SwapConserved'
  BY <1>3 DEF Inv, SwapConserved
<1>9. FaultInv'
  BY <1>0 DEF FaultInv
<1>10. /\ Resident(b)' /\ PpageOf(b)' = f
       /\ \A c \in Blocks : c # b => /\ Resident(c)' = Resident(c)
                                     /\ PpageOf(c)' = PpageOf(c)
  BY <1>3, <1>4 DEF Resident, PpageOf
<1>11. \A c \in Blocks : InUse(c) /\ Resident(c) /\ PpageOf(c) # 0
         => c # b /\ PpageOf(c) # f
  BY <1>1 DEF Inv, FrameInv
<1>12. FrameInv'
  <2>1. ASSUME NEW g \in Range(clock_queue)
        PROVE  \E c \in Blocks : /\ ppage_to_block_map[g] = c
                                 /\ InUse(c)' /\ Resident(c)' /\ PpageOf(c)' = g
    <3>1. CASE g = f
      BY <1>1, <1>3, <1>10, <3>1
    <3>2. CASE g # f
      <4>1. PICK c \in Blocks : /\ ppage_to_block_map[g] = c
                                /\ InUse(c) /\ Resident(c) /\ PpageOf(c) = g
        BY <1>f, <3>2 DEF Inv, FrameInv
      <4>2. g # 0
        <5>1. g \in Frames
          BY RangeQueue DEF Inv, TypeOK
        <5> QED BY <5>1, PagerAssumption DEF Frames
      <4> QED BY <1>3, <1>10, <1>11, <4>1, <4>2
    <3> QED BY <3>1, <3>2
  <2>2. ASSUME NEW c \in Blocks, InUse(c)', Resident(c)', PpageOf(c)' # 0
        PROVE  /\ ppage_to_block_map[PpageOf(c)'] = c
               /\ PpageOf(c)' \notin Range(free_physical_pages)
    <3>1. CASE c = b
      BY <1>1, <1>10, <3>1 DEF Inv, FrameInv
    <3>2. CASE c # b
      BY <1>3, <1>10, <2>2, <3>2 DEF Inv, FrameInv
    <3> QED BY <3>1, <3>2
  <2>3. UNCHANGED <<clock_queue, free_physical_pages, ppage_to_block_map>>
    BY DEF frameVars
  <2> QED BY <2>1, <2>2, <2>3 DEF Inv, FrameInv
<1>13. KeptInv'
  BY DEF Inv, KeptInv, frameVars
<1>14. (vm_physmem[0] = Zero)'
  BY <1>1, <1>5, PagerAssumption DEF Inv
<1>15. ASSUME NEW c \in Blocks, InUse(c) PROVE BitsInv(c)'
  <2>1. CASE c = b
    <3>1. w \/ v = disk[b]
      BY <1>b, <1>w
    <3> QED BY <1>1, <1>3, <1>4, <1>5, <2>1, <3>1 DEF BitsInv
  <2>2. CASE c # b
    <3>1. BitsInv(c) /\ StatusOf(c) \in Statuses
      BY <1>15, StatusType DEF Inv
    <3>2. ASSUME StatusOf(c).resident, StatusOf(c).ppage # 0
          PROVE  vm_physmem'[StatusOf(c).ppage] = vm_physmem[StatusOf(c).ppage]
      <4>1. StatusOf(c).ppage # f
        BY <1>11, <1>15, <3>2 DEF Resident, PpageOf
      <4>2. StatusOf(c).ppage \in 0 .. memory_pages - 1
        BY <3>1 DEF Statuses
      <4> QED BY <1>5, <4>1, <4>2
    <3> QED BY <1>3, <2>2, <3>1, <3>2 DEF BitsInv
  <2> QED BY <2>1, <2>2
<1> QED BY <1>3, <1>6, <1>7, <1>8, <1>9, <1>12, <1>13, <1>14, <1>15 DEF Inv

\* The zero page is copied for a write, so the page is dirty.
LEMMA FillZeroStep ==
  ASSUME Inv, fill_zero
  PROVE  Inv'
<1>1. fault # None /\ fault.ppage # 0 /\ fault.write /\ ~aborted
  BY FaultState DEF fill_zero, Filling
<1>2. fault.write \in BOOLEAN /\ aborted \in BOOLEAN
  BY <1>1, FaultState DEF Faults, Inv, TypeOK
<1>3. aborted' = aborted
  BY <1>1, <1>2 DEF fill_zero
<1>4. Zero \in Values /\ disk' = disk /\ accessed' \in SUBSET Blocks
  BY PagerAssumption DEF fill_zero, diskVars, Inv, TypeOK
<1> QED BY <1>1, <1>3, <1>4, ResidentStep DEF fill_zero

\* A page read for a load equals its block on disk.
LEMMA FillReadStep ==
  ASSUME Inv, fill_read
  PROVE  Inv'
<1>1. fault # None /\ fault.ppage # 0
  BY DEF fill_read, Filling
<1>2. FaultBlock \in Blocks
  BY <1>1, FaultState
<1>3. disk[FaultBlock] \in Values /\ accessed' \in SUBSET Blocks
  BY <1>2 DEF fill_read, Inv, TypeOK
<1> QED BY <1>1, <1>3, ResidentStep DEF fill_read

\* The page goes back to the free ones.
LEMMA ReadFailsStep ==
  ASSUME Inv, fill_read_fails
  PROVE  Inv'
<1>0. /\ fault # None /\ fault.ppage # 0 /\ ~fault.zero /\ dispatched # None
      /\ fault' = None /\ scan' = None /\ fault \in Faults
  BY FaultState DEF fill_read_fails, Filling, return_failure
<1>f. PICK f \in Frames : f = fault.ppage
  BY <1>0 DEF Faults
<1>1. /\ f \in Range(clock_queue) /\ ppage_to_block_map[f] = FaultBlock
      /\ ~Resident(FaultBlock)
      /\ f \notin Range(free_physical_pages)
      /\ free_physical_pages \in Seq(Frames) /\ clock_queue \in Seq(Frames)
      /\ IsInjective(free_physical_pages) /\ IsInjective(clock_queue)
  BY <1>0, <1>f DEF Inv, FaultInv, FrameInv, TypeOK
<1>2. /\ free_physical_pages' = Append(free_physical_pages, f)
      /\ clock_queue' = RemoveFromClockQueue(clock_queue, {f})
      /\ ppage_to_block_map' = ppage_to_block_map
  BY <1>f DEF fill_read_fails
<1>3. /\ free_physical_pages' \in Seq(Frames)
      /\ Range(free_physical_pages') = Range(free_physical_pages) \cup {f}
      /\ IsInjective(free_physical_pages')
  BY <1>1, <1>2, PushQueue
<1>4. /\ clock_queue' \in Seq(Frames)
      /\ Range(clock_queue') = Range(clock_queue) \ {f}
      /\ IsInjective(clock_queue')
  BY <1>1, <1>2, RemoveQueue
<1>5. TypeOK'
  BY <1>0, <1>3, <1>4
     DEF Inv, TypeOK, fill_read_fails, cpuVars, tableVars, diskVars
<1>6. /\ \A c : StatusOf(c)' = StatusOf(c)
      /\ \A c : Resident(c)' = Resident(c)
      /\ \A c : PpageOf(c)' = PpageOf(c)
      /\ \A p, j, c : Maps(p, j, c)' <=> Maps(p, j, c)
      /\ \A c : InUse(c)' <=> InUse(c)
      /\ SharersAgree'
  BY TablesKept DEF Inv, fill_read_fails, tableVars
<1>7. ArenaInv' /\ CallInv'
  BY <1>0, CallKept DEF Inv, TypeOK, fill_read_fails, tableVars
<1>8. SwapConserved'
  BY <1>6, SwapKept DEF Inv, fill_read_fails
<1>9. FaultInv'
  BY <1>0 DEF FaultInv
<1>10. FrameInv'
  <2>1. \A g \in Range(clock_queue') :
          \E c \in Blocks : /\ ppage_to_block_map'[g] = c
                            /\ InUse(c)' /\ Resident(c)' /\ PpageOf(c)' = g
    BY <1>f, <1>2, <1>4, <1>6 DEF Inv, FrameInv
  <2>2. ASSUME NEW c \in Blocks, InUse(c)', Resident(c)', PpageOf(c)' # 0
        PROVE  /\ ppage_to_block_map'[PpageOf(c)'] = c
               /\ PpageOf(c)' \notin Range(free_physical_pages')
    <3>1. InUse(c) /\ Resident(c) /\ PpageOf(c) # 0 /\ PpageOf(c)' = PpageOf(c)
      BY <1>6, <2>2
    <3>2. /\ ppage_to_block_map[PpageOf(c)] = c
          /\ PpageOf(c) \notin Range(free_physical_pages)
      BY <3>1 DEF Inv, FrameInv
    <3>3. PpageOf(c) # f
      BY <1>1, <3>1, <3>2
    <3> QED BY <1>2, <1>3, <3>1, <3>2, <3>3
  <2>3. Range(free_physical_pages') \cap Range(clock_queue') = {}
    BY <1>3, <1>4 DEF Inv, FrameInv
  <2> QED BY <1>3, <1>4, <2>1, <2>2, <2>3 DEF FrameInv
<1>11. KeptInv'
  BY <1>1, <1>3, <1>4 DEF Inv, KeptInv, fill_read_fails
<1>12. (vm_physmem[0] = Zero)' /\ (\A c \in Blocks : InUse(c) => BitsInv(c))'
  BY <1>6 DEF Inv, BitsInv, fill_read_fails, diskVars
<1> QED BY <1>5, <1>6, <1>7, <1>8, <1>9, <1>10, <1>11, <1>12 DEF Inv

-----------------------------------------------------------------------------
(* vm_map.                                                                   *)

\* map_page adds one page, in the state of its block.
LEMMA MapPage ==
  ASSUME TypeOK, ArenaInv, SharersAgree, current_pid \in Pids,
         NEW b \in Blocks, NEW st \in NewStates,
         st.ppage # None \/ StatusOf(b).ppage = 0,
         map_page(b, st)
  PROVE  /\ share_map' \in [Blocks -> SUBSET (Pids \X (1 .. ArenaPages))]
         /\ block_status_map' \in [Blocks -> Statuses \cup {None}]
         /\ process_map' \in [Pids -> Seq(Entries)]
         /\ \A p \in Pids :
              p # current_pid => Len(process_map'[p]) = Len(process_map[p])
         /\ Len(process_map'[current_pid]) = Len(process_map[current_pid]) + 1
         /\ Len(process_map'[current_pid]) \in 1 .. ArenaPages
         /\ \A p \in Pids : \A i, c :
              Maps(p, i, c)' <=>
                \/ Maps(p, i, c)
                \/ /\ p = current_pid /\ c = b
                   /\ i = Len(process_map[current_pid]) + 1
         /\ StatusOf(b)' = Set_state(StatusOf(b), st)
         /\ \A c \in Blocks : c # b => StatusOf(c)' = StatusOf(c)
         /\ SharersAgree'
<1>p. PICK cur \in Pids : cur = current_pid
  OBVIOUS
<1>n. PICK n \in Nat : n = Len(process_map[cur])
  <2>1. process_map \in [Pids -> Seq(Entries)]
    BY DEF TypeOK
  <2> QED BY <2>1
<1>e. PICK e \in Entries : e = [db |-> b, status |-> Blank]
  BY StatusType DEF Entries
<1>m. PICK pm : pm = [process_map EXCEPT ![cur] = Append(@, e)]
  OBVIOUS
<1>v. PICK vs : vs = share_map[b] \cup {<<cur, n + 1>>}
  OBVIOUS
<1>1. /\ n + 1 <= ArenaPages
      /\ share_map' = [share_map EXCEPT ![b] = vs]
      /\ block_status_map' = [block_status_map EXCEPT ![b] = Set_state(StatusOf(b), st)]
      /\ process_map' = Set_sharers(pm, vs, st)
  BY <1>p, <1>n, <1>e, <1>m, <1>v DEF map_page
<1>2. /\ n + 1 \in 1 .. ArenaPages
      /\ share_map \in [Blocks -> SUBSET (Pids \X (1 .. ArenaPages))]
      /\ block_status_map \in [Blocks -> Statuses \cup {None}]
      /\ process_map \in [Pids -> Seq(Entries)]
      /\ StatusOf(b) \in Statuses
      /\ \A p \in Pids : /\ DOMAIN process_map[p] = 1 .. Len(process_map[p])
                         /\ Len(process_map[p]) \in Nat
  BY <1>1, PagerAssumption, StatusType DEF TypeOK
<1>3. /\ pm \in [Pids -> Seq(Entries)]
      /\ Len(pm[cur]) = n + 1 /\ DOMAIN pm[cur] = 1 .. n + 1
      /\ pm[cur][n + 1] = e
      /\ \A i \in 1 .. n : pm[cur][i] = process_map[cur][i]
      /\ \A p \in Pids : p # cur => pm[p] = process_map[p]
  <2>1. process_map[cur] \in Seq(Entries)
    BY <1>2
  <2>2. /\ Append(process_map[cur], e) \in Seq(Entries)
        /\ Len(Append(process_map[cur], e)) = n + 1
        /\ Append(process_map[cur], e)[n + 1] = e
        /\ \A i \in 1 .. n : Append(process_map[cur], e)[i] = process_map[cur][i]
        /\ DOMAIN Append(process_map[cur], e) = 1 .. n + 1
    BY <1>n, <2>1
  <2> QED BY <1>2, <1>m, <2>2
<1>4. /\ process_map' \in [Pids -> Seq(Entries)]
      /\ \A p \in Pids :
           /\ Len(process_map'[p]) = Len(pm[p])
           /\ DOMAIN process_map'[p] = DOMAIN pm[p]
           /\ \A i \in DOMAIN pm[p] :
                /\ process_map'[p][i].db = pm[p][i].db
                /\ process_map'[p][i].status =
                     IF <<p, i>> \in vs THEN Set_state(pm[p][i].status, st)
                     ELSE pm[p][i].status
  <2>1. /\ Set_sharers(pm, vs, st) \in [Pids -> Seq(Entries)]
        /\ \A p \in Pids :
             /\ Len(Set_sharers(pm, vs, st)[p]) = Len(pm[p])
             /\ DOMAIN Set_sharers(pm, vs, st)[p] = DOMAIN pm[p]
             /\ \A i \in DOMAIN pm[p] :
                  /\ Set_sharers(pm, vs, st)[p][i].db = pm[p][i].db
                  /\ Set_sharers(pm, vs, st)[p][i].status =
                       IF <<p, i>> \in vs THEN Set_state(pm[p][i].status, st)
                       ELSE pm[p][i].status
    <3>1. pm \in [Pids -> Seq(Entries)]
      BY <1>3
    <3> QED BY <3>1, SetSharers
  <2>2. process_map' = Set_sharers(pm, vs, st)
    BY <1>1
  <2> QED BY <2>1, <2>2
<1>5. Set_state(StatusOf(b), st) \in Statuses
  BY <1>2, SetState
<1>6. /\ block_status_map' \in [Blocks -> Statuses \cup {None}]
      /\ block_status_map'[b] = Set_state(StatusOf(b), st)
      /\ \A c \in Blocks : c # b => block_status_map'[c] = block_status_map[c]
  BY <1>1, <1>2, <1>5
<1>14. /\ share_map' \in [Blocks -> SUBSET (Pids \X (1 .. ArenaPages))]
       /\ \A c \in Blocks : c # b => share_map'[c] = share_map[c]
       /\ share_map'[b] = vs
  <2>1. vs \in SUBSET (Pids \X (1 .. ArenaPages))
    BY <1>2, <1>v
  <2> QED BY <1>1, <1>2, <2>1
<1>7. /\ StatusOf(b)' = Set_state(StatusOf(b), st)
      /\ \A c \in Blocks : c # b => StatusOf(c)' = StatusOf(c)
  BY <1>5, <1>6, NoneAssumption DEF StatusOf
<1>15. ASSUME NEW p \in Pids, p # cur
       PROVE  /\ DOMAIN process_map'[p] = DOMAIN process_map[p]
              /\ \A i \in DOMAIN process_map[p] :
                   process_map'[p][i].db = process_map[p][i].db
  <2>1. pm[p] = process_map[p]
    BY <1>3, <1>15
  <2> QED BY <1>4, <2>1
<1>16. /\ DOMAIN process_map'[cur] = 1 .. n + 1 /\ DOMAIN process_map[cur] = 1 .. n
       /\ \A j \in 1 .. n : process_map'[cur][j].db = process_map[cur][j].db
       /\ process_map'[cur][n + 1].db = b
  <2>1. DOMAIN process_map'[cur] = 1 .. n + 1 /\ DOMAIN process_map[cur] = 1 .. n
    BY <1>n, <1>2, <1>3, <1>4
  <2>2. ASSUME NEW j \in 1 .. n
        PROVE  process_map'[cur][j].db = process_map[cur][j].db
    <3>1. j \in DOMAIN pm[cur] /\ pm[cur][j] = process_map[cur][j]
      BY <1>3
    <3>2. process_map'[cur][j].db = pm[cur][j].db
      BY <1>4, <3>1
    <3> QED BY <3>1, <3>2
  <2>3. process_map'[cur][n + 1].db = b
    <3>1. n + 1 \in DOMAIN pm[cur] /\ pm[cur][n + 1].db = b
      BY <1>e, <1>3
    <3>2. process_map'[cur][n + 1].db = pm[cur][n + 1].db
      BY <1>4, <3>1
    <3> QED BY <3>1, <3>2
  <2> QED BY <2>1, <2>2, <2>3
<1>8. \A p \in Pids : \A i, c :
        Maps(p, i, c)' <=> Maps(p, i, c) \/ (p = cur /\ c = b /\ i = n + 1)
  <2> SUFFICES ASSUME NEW p \in Pids, NEW i, NEW c
               PROVE  Maps(p, i, c)'
                        <=> Maps(p, i, c) \/ (p = cur /\ c = b /\ i = n + 1)
    OBVIOUS
  <2>1. CASE p # cur
    BY <1>15, <2>1 DEF Maps
  <2>2. CASE p = cur
    <3>1. i \in 1 .. n + 1 <=> i \in 1 .. n \/ i = n + 1
      OBVIOUS
    <3>2. n + 1 \notin 1 .. n
      OBVIOUS
    <3> QED BY <1>16, <2>2, <3>1, <3>2 DEF Maps
  <2> QED BY <2>1, <2>2
<1>9. \A p \in Pids, i \in 1 .. ArenaPages, c \in Blocks :
        <<p, i>> \in share_map[c] <=> Maps(p, i, c)
  BY DEF SharersAgree
<1>10. ASSUME NEW p \in Pids, NEW i \in 1 .. ArenaPages, NEW c \in Blocks
       PROVE  <<p, i>> \in share_map'[c] <=> Maps(p, i, c)'
  <2>1. <<p, i>> \in share_map'[c]
          <=> <<p, i>> \in share_map[c] \/ (p = cur /\ c = b /\ i = n + 1)
    BY <1>14, <1>v
  <2> QED BY <1>8, <1>9, <2>1
<1>11. ASSUME NEW p \in Pids, NEW i \in 1 .. ArenaPages, NEW c \in Blocks,
              Maps(p, i, c)'
       PROVE  process_map'[p][i].status = block_status_map'[c]
  <2>1. CASE Maps(p, i, c)
    <3>1. i \in DOMAIN process_map[p] /\ process_map[p][i].db = c
      BY <2>1 DEF Maps
    <3>2. pm[p][i] = process_map[p][i] /\ i \in DOMAIN pm[p]
      <4>1. CASE p = cur
        <5>1. i \in 1 .. n /\ i \in 1 .. n + 1
          BY <1>16, <3>1, <4>1
        <5> QED BY <1>3, <4>1, <5>1
      <4>2. CASE p # cur
        BY <1>3, <3>1, <4>2
      <4> QED BY <4>1, <4>2
    <3>3. <<p, i>> \in vs <=> c = b
      <4>1. ~(p = cur /\ i = n + 1)
        BY <1>16, <3>1
      <4>2. <<p, i>> \in share_map[b] <=> Maps(p, i, b)
        BY <1>9
      <4> QED BY <1>v, <2>1, <3>1, <4>1, <4>2 DEF Maps
    <3>4. process_map[p][i].status = StatusOf(c)
      BY <3>1, PageStatus
    <3>5. process_map[p][i].status = block_status_map[c]
      BY <2>1 DEF SharersAgree
    <3>6. process_map'[p][i].status =
            IF c = b THEN Set_state(StatusOf(b), st) ELSE block_status_map[c]
      BY <1>4, <3>2, <3>3, <3>4, <3>5
    <3> QED BY <1>6, <3>6
  <2>2. CASE p = cur /\ c = b /\ i = n + 1
    <3>1. <<p, i>> \in vs /\ i \in DOMAIN pm[p] /\ pm[p][i].status = Blank
      BY <1>e, <1>v, <1>3, <2>2
    <3>2. process_map'[p][i].status = Set_state(Blank, st)
      BY <1>4, <3>1
    <3>3. Set_state(Blank, st) = Set_state(StatusOf(b), st)
      <4>1. st.ppage = None => StatusOf(b).ppage = Blank.ppage
        BY DEF Blank
      <4> QED BY <4>1 DEF Set_state, NewStates
    <3> QED BY <1>6, <2>2, <3>2, <3>3
  <2> QED BY <1>8, <1>11, <2>1, <2>2
<1>12. SharersAgree'
  <2> HIDE DEF Maps
  <2> SUFFICES ASSUME NEW p \in Pids, NEW i \in 1 .. ArenaPages, NEW c \in Blocks
               PROVE  /\ <<p, i>> \in share_map'[c] <=> Maps(p, i, c)'
                      /\ Maps(p, i, c)'
                           => process_map'[p][i].status = block_status_map'[c]
    BY DEF SharersAgree
  <2> QED BY <1>10, <1>11
<1>13. /\ \A p \in Pids : p # cur => Len(process_map'[p]) = Len(process_map[p])
       /\ Len(process_map'[cur]) = n + 1
  BY <1>3, <1>4
<1> QED BY <1>p, <1>n, <1>2, <1>4, <1>6, <1>7, <1>8, <1>12, <1>13, <1>14

\* The arenas after vm_map.
LEMMA MapArena ==
  ASSUME Inv, dispatched # None, UNCHANGED <<cpuVars, managed>>,
         process_map' \in [Pids -> Seq(Entries)],
         \A p \in Pids : p # current_pid => Len(process_map'[p]) = Len(process_map[p]),
         Len(process_map'[current_pid]) \in 1 .. ArenaPages,
         fault' = None, scan' = None
  PROVE  ArenaInv' /\ CallInv'
<1>1. current_pid \in managed /\ current_pid \in Pids
  BY RunningProcess
<1>2. ArenaInv'
  <2>1. ASSUME NEW p \in Pids \ managed PROVE process_map'[p] = <<>>
    <3>1. process_map'[p] \in Seq(Entries) /\ Len(process_map'[p]) = 0
      BY <1>1 DEF Inv, ArenaInv
    <3> QED BY <3>1, EmptySeq
  <2>2. ASSUME NEW p \in Pids PROVE Len(process_map'[p]) <= ArenaPages
    <3>1. CASE p = current_pid
      BY <3>1, PagerAssumption
    <3>2. CASE p # current_pid
      BY <3>2 DEF Inv, ArenaInv
    <3> QED BY <3>1, <3>2
  <2> QED BY <2>1, <2>2 DEF ArenaInv
<1>3. CallInv'
  BY DEF Inv, CallInv, cpuVars
<1> QED BY <1>2, <1>3

\* A free swap block backs no page, so it gets its first.
LEMMA MapSwapStep ==
  ASSUME Inv, vm_map_swap
  PROVE  Inv'
<1>0. /\ dispatched # None /\ fault = None /\ scan = None
      /\ current_pid \in Pids
      /\ free_swap_blocks # <<>>
      /\ free_swap_blocks \in Seq(0 .. swap_blocks - 1)
      /\ IsInjective(free_swap_blocks)
  BY RunningProcess DEF vm_map_swap, Running, Idle, Inv, TypeOK, SwapConserved
<1>1. PICK x \in 0 .. swap_blocks - 1 : x = Head(free_swap_blocks)
  BY <1>0, PopQueue
<1>b. PICK b \in SwapBlocks : b = [filename |-> <<>>, block |-> x]
  BY DEF SwapBlocks
<1>2. /\ free_swap_blocks' \in Seq(0 .. swap_blocks - 1)
      /\ x \in Range(free_swap_blocks)
      /\ Range(free_swap_blocks') = Range(free_swap_blocks) \ {x}
      /\ IsInjective(free_swap_blocks')
  BY <1>0, <1>1, PopQueue DEF vm_map_swap
<1>3. b \in Blocks /\ b.block = x /\ ~InUse(b)
  BY <1>b, <1>2 DEF Blocks, Inv, SwapConserved
<1> DEFINE st == State(TRUE, FALSE, TRUE, FALSE, FALSE, 0)
<1>4. st \in NewStates /\ st.ppage # None
  BY PagerAssumption, NoneAssumption DEF NewStates, State
<1>5. map_page(b, st)
  BY <1>b, <1>1 DEF vm_map_swap
<1>s. PICK s \in Statuses : s = StatusOf(b)
  BY <1>3, StatusType DEF Inv
<1>6. /\ share_map' \in [Blocks -> SUBSET (Pids \X (1 .. ArenaPages))]
      /\ block_status_map' \in [Blocks -> Statuses \cup {None}]
      /\ process_map' \in [Pids -> Seq(Entries)]
      /\ \A p \in Pids :
           p # current_pid => Len(process_map'[p]) = Len(process_map[p])
      /\ Len(process_map'[current_pid]) = Len(process_map[current_pid]) + 1
      /\ Len(process_map'[current_pid]) \in 1 .. ArenaPages
      /\ \A p \in Pids : \A i, c :
           Maps(p, i, c)' <=>
             \/ Maps(p, i, c)
             \/ /\ p = current_pid /\ c = b
                /\ i = Len(process_map[current_pid]) + 1
      /\ StatusOf(b)' = Set_state(s, st)
      /\ \A c \in Blocks : c # b => StatusOf(c)' = StatusOf(c)
      /\ SharersAgree'
  <2> HIDE DEF st
  <2> QED BY <1>0, <1>3, <1>4, <1>5, <1>s, MapPage DEF Inv
<1>7. /\ Set_state(s, st).ppage = 0
      /\ Set_state(s, st).read_enable = TRUE
      /\ Set_state(s, st).write_enable = FALSE
      /\ Set_state(s, st).resident = TRUE
      /\ Set_state(s, st).reference = FALSE
      /\ Set_state(s, st).dirty = FALSE
  BY <1>4, SetState DEF State
<1>8. TypeOK'
  BY <1>2, <1>6 DEF Inv, TypeOK, vm_map_swap, cpuVars, frameVars, diskVars
<1>9. ArenaInv' /\ CallInv'
  BY <1>0, <1>6, MapArena DEF vm_map_swap
<1>10. /\ InUse(b)'
       /\ \A c : c # b => (InUse(c)' <=> InUse(c))
  <2>1. Len(process_map[current_pid]) + 1 \in 1 .. ArenaPages
    BY <1>6
  <2>2. \E p \in Pids : \E i \in 1 .. ArenaPages : Maps(p, i, b)'
    BY <1>0, <1>6, <2>1
  <2>3. ASSUME NEW c, c # b PROVE InUse(c)' <=> InUse(c)
    BY <1>6, <2>3 DEF InUse
  <2> HIDE DEF Maps
  <2> QED BY <2>2, <2>3 DEF InUse
<1>11. SwapConserved'
  <2>1. \A p \in Pids : \A i \in 1 .. ArenaPages : ~Maps(p, i, b)
    BY <1>3 DEF InUse
  <2>2. ASSUME NEW c \in SwapBlocks
        PROVE  /\ c.block \in Range(free_swap_blocks') <=> ~InUse(c)'
               /\ \A p, q \in Pids : \A i, j \in 1 .. ArenaPages :
                    Maps(p, i, c)' /\ Maps(q, j, c)' => p = q /\ i = j
    <3>1. CASE c = b
      BY <1>2, <1>3, <1>6, <1>10, <2>1, <3>1
    <3>2. CASE c # b
      <4>1. c.block # x
        BY <1>b, <3>2 DEF SwapBlocks
      <4>2. /\ c.block \in Range(free_swap_blocks) <=> ~InUse(c)
            /\ \A p, q \in Pids : \A i, j \in 1 .. ArenaPages :
                 Maps(p, i, c) /\ Maps(q, j, c) => p = q /\ i = j
        BY DEF Inv, SwapConserved
      <4> QED BY <1>2, <1>6, <1>10, <3>2, <4>1, <4>2
    <3> QED BY <3>1, <3>2
  <2> QED BY <1>2, <2>2 DEF SwapConserved
<1>12. FaultInv'
  BY <1>0 DEF FaultInv, vm_map_swap
<1>13. /\ PpageOf(b)' = 0
       /\ \A c \in Blocks : c # b => /\ Resident(c)' = Resident(c)
                                     /\ PpageOf(c)' = PpageOf(c)
  BY <1>6, <1>7 DEF Resident, PpageOf
<1>14. FrameInv'
  <2>1. UNCHANGED <<clock_queue, free_physical_pages, ppage_to_block_map>>
    BY DEF vm_map_swap, frameVars
  <2>2. ASSUME NEW g \in Range(clock_queue)
        PROVE  \E c \in Blocks : /\ ppage_to_block_map[g] = c
                                 /\ InUse(c)' /\ Resident(c)' /\ PpageOf(c)' = g
    <3>1. PICK c \in Blocks : /\ ppage_to_block_map[g] = c
                              /\ InUse(c) /\ Resident(c) /\ PpageOf(c) = g
      BY <1>0 DEF Inv, FrameInv
    <3>2. c # b
      BY <1>3, <3>1
    <3> QED BY <1>10, <1>13, <3>1, <3>2
  <2>3. \A c \in Blocks : InUse(c)' /\ Resident(c)' /\ PpageOf(c)' # 0
          => /\ ppage_to_block_map[PpageOf(c)'] = c
             /\ PpageOf(c)' \notin Range(free_physical_pages)
    BY <1>10, <1>13 DEF Inv, FrameInv
  <2> QED BY <2>1, <2>2, <2>3 DEF Inv, FrameInv
<1>15. KeptInv' /\ (vm_physmem[0] = Zero)'
  BY DEF Inv, KeptInv, vm_map_swap, frameVars
<1>16. ASSUME NEW c \in Blocks, InUse(c)' PROVE BitsInv(c)'
  <2>1. vm_physmem' = vm_physmem /\ disk' = disk
    BY DEF vm_map_swap, diskVars
  <2>2. CASE c = b
    BY <1>6, <1>7, <2>2 DEF BitsInv
  <2>3. CASE c # b
    BY <1>6, <1>10, <1>16, <2>1, <2>3 DEF Inv, BitsInv
  <2> QED BY <2>2, <2>3
<1> QED BY <1>6, <1>8, <1>9, <1>11, <1>12, <1>14, <1>15, <1>16 DEF Inv

\* A scan that is done has read the name of a file block, and one that fits.
LEMMA ScanName ==
  ASSUME Inv, NEW v \in Values \ Unterminated, ScanReads(v)
  PROVE  /\ [filename |-> Append(scan.name, v), block |-> scan.block]
              \in Blocks \ SwapBlocks
         /\ Append(scan.name, v) \in FileNames
<1>1. scan.vpn \in 1 .. Len(process_map[current_pid]) /\ Scanning
  BY ReadValue
<1>2. /\ scan.name \in Seq(Unterminated) /\ scan.name \in Seq(Values)
      /\ scan.block \in FileBlocks
      /\ Len(scan.name) < scan.vpn
      /\ Len(process_map[current_pid]) < ArenaPages
      /\ dispatched # None
  BY <1>1, ScanState
<1>k. PICK k \in Nat : k = Len(scan.name)
  BY <1>2
<1>3. Len(process_map[current_pid]) \in 0 .. ArenaPages
  BY <1>2, RunningProcess
<1>4. k + 1 \in 1 .. ArenaPages - 1
  BY <1>1, <1>2, <1>3, <1>k, PagerAssumption
<1>n. PICK name \in Seq(Values) : name = Append(scan.name, v)
  <2>1. PICK q \in Seq(Values) : q = scan.name
    BY <1>2
  <2>2. Append(q, v) \in Seq(Values)
    OBVIOUS
  <2> QED BY <2>1, <2>2
<1>5. /\ Len(name) = k + 1 /\ DOMAIN name = 1 .. k + 1
      /\ name[k + 1] = v
      /\ \A i \in 1 .. k : name[i] = scan.name[i]
      /\ \A i \in 1 .. k : scan.name[i] \in Unterminated
  BY <1>2, <1>k, <1>n
<1>6. name \in [1 .. k + 1 -> Values]
  BY <1>5
<1>7. \A i \in DOMAIN name : name[i] \in Unterminated <=> i # Len(name)
  BY <1>5
<1>8. name \in FileNames
  BY <1>4, <1>6, <1>7 DEF FileNames
<1>9. name # <<>>
  BY <1>5
<1> QED BY <1>2, <1>n, <1>8, <1>9 DEF Blocks, SwapBlocks

\* Mapping a page to a file block leaves the state of every block as it was.
LEMMA MapFileBlock ==
  ASSUME Inv, dispatched # None, NEW b \in Blocks \ SwapBlocks,
         NEW st, st = (IF block_status_map[b] # None
                       THEN block_status_map[b]
                       ELSE State(FALSE, FALSE, FALSE, FALSE, FALSE, None)),
         map_page(b, st)
  PROVE  /\ share_map' \in [Blocks -> SUBSET (Pids \X (1 .. ArenaPages))]
         /\ block_status_map' \in [Blocks -> Statuses \cup {None}]
         /\ process_map' \in [Pids -> Seq(Entries)]
         /\ \A p \in Pids :
              p # current_pid => Len(process_map'[p]) = Len(process_map[p])
         /\ Len(process_map'[current_pid]) = Len(process_map[current_pid]) + 1
         /\ Len(process_map'[current_pid]) \in 1 .. ArenaPages
         /\ \A p \in Pids : \A i, c :
              Maps(p, i, c)' <=>
                \/ Maps(p, i, c)
                \/ /\ p = current_pid /\ c = b
                   /\ i = Len(process_map[current_pid]) + 1
         /\ \A c \in Blocks : StatusOf(c)' = StatusOf(c)
         /\ \A c : InUse(c)' <=> InUse(c)
         /\ SharersAgree'
<1>1. current_pid \in Pids
  BY RunningProcess
<1>s. PICK s \in Statuses : s = StatusOf(b)
  BY StatusType DEF Inv
<1>3. /\ st \in NewStates
      /\ st.ppage # None \/ StatusOf(b).ppage = 0
      /\ Set_state(s, st) = s
  <2>0. block_status_map[b] \in Statuses \cup {None}
    BY DEF Inv, TypeOK
  <2>1. CASE block_status_map[b] # None
    <3>1. st = s
      BY <1>s, <2>1 DEF StatusOf
    <3>2. s.ppage # None /\ s \in NewStates
      BY PagerAssumption, NoneAssumption DEF Statuses, NewStates
    <3>3. Set_state(s, s) = s
      BY <3>2 DEF Set_state, Statuses
    <3> QED BY <3>1, <3>2, <3>3
  <2>2. CASE block_status_map[b] = None
    <3>1. st = State(FALSE, FALSE, FALSE, FALSE, FALSE, None) /\ s = Blank
      BY <1>s, <2>2 DEF StatusOf
    <3>2. st \in NewStates /\ st.ppage = None /\ s.ppage = 0
      <4>1. s.ppage = 0
        BY <3>1 DEF Blank
      <4>2. st.ppage = None
        BY <3>1 DEF State
      <4>3. State(FALSE, FALSE, FALSE, FALSE, FALSE, None) \in NewStates
        BY DEF NewStates, State
      <4> QED BY <3>1, <4>1, <4>2, <4>3
    <3>3. Set_state(s, st) = Blank
      <4>1. /\ Set_state(s, st) \in Statuses
            /\ Set_state(s, st).ppage = 0
            /\ Set_state(s, st).read_enable = FALSE
            /\ Set_state(s, st).write_enable = FALSE
            /\ Set_state(s, st).resident = FALSE
            /\ Set_state(s, st).reference = FALSE
            /\ Set_state(s, st).dirty = FALSE
        BY <3>1, <3>2, SetState DEF State
      <4> QED BY <4>1 DEF Statuses, Blank
    <3> QED BY <1>s, <3>1, <3>2, <3>3
  <2> QED BY <2>1, <2>2
<1>6. /\ share_map' \in [Blocks -> SUBSET (Pids \X (1 .. ArenaPages))]
      /\ block_status_map' \in [Blocks -> Statuses \cup {None}]
      /\ process_map' \in [Pids -> Seq(Entries)]
      /\ \A p \in Pids :
           p # current_pid => Len(process_map'[p]) = Len(process_map[p])
      /\ Len(process_map'[current_pid]) = Len(process_map[current_pid]) + 1
      /\ Len(process_map'[current_pid]) \in 1 .. ArenaPages
      /\ \A p \in Pids : \A i, c :
           Maps(p, i, c)' <=>
             \/ Maps(p, i, c)
             \/ /\ p = current_pid /\ c = b
                /\ i = Len(process_map[current_pid]) + 1
      /\ StatusOf(b)' = s
      /\ \A c \in Blocks : c # b => StatusOf(c)' = StatusOf(c)
      /\ SharersAgree'
  BY <1>1, <1>3, <1>s, MapPage DEF Inv
<1>7. \A c \in Blocks : StatusOf(c)' = StatusOf(c)
  BY <1>6, <1>s
<1>8. \A c : InUse(c)' <=> InUse(c)
  <2>1. ASSUME NEW c PROVE InUse(c)' <=> InUse(c)
    <3>1. CASE c \in SwapBlocks
      BY <1>6, <3>1 DEF InUse
    <3>2. CASE c \notin SwapBlocks
      BY <3>2 DEF InUse
    <3> QED BY <3>1, <3>2
  <2> QED BY <2>1
<1> QED BY <1>6, <1>7, <1>8

\* The last page of a name maps the file's block.
LEMMA ScanDoneStep ==
  ASSUME Inv, scan_done
  PROVE  Inv'
<1>1. PICK v \in Values \ Unterminated :
        LET b == [filename |-> Append(scan.name, v), block |-> scan.block]
        IN  /\ ScanReads(v)
            /\ map_page(b, IF block_status_map[b] # None
                           THEN block_status_map[b]
                           ELSE State(FALSE, FALSE, FALSE, FALSE, FALSE, None))
  BY DEF scan_done
<1>b. PICK b \in Blocks \ SwapBlocks :
        b = [filename |-> Append(scan.name, v), block |-> scan.block]
  BY <1>1, ScanName
<1>t. PICK st : st = IF block_status_map[b] # None
                     THEN block_status_map[b]
                     ELSE State(FALSE, FALSE, FALSE, FALSE, FALSE, None)
  OBVIOUS
<1>2. /\ dispatched # None /\ current_pid \in Pids
      /\ fault = None /\ fault' = None /\ scan' = None
      /\ map_page(b, st)
  BY <1>1, <1>b, <1>t, ScanState, RunningProcess DEF ScanReads, Scanning, scan_done
<1>6. /\ share_map' \in [Blocks -> SUBSET (Pids \X (1 .. ArenaPages))]
      /\ block_status_map' \in [Blocks -> Statuses \cup {None}]
      /\ process_map' \in [Pids -> Seq(Entries)]
      /\ \A p \in Pids :
           p # current_pid => Len(process_map'[p]) = Len(process_map[p])
      /\ Len(process_map'[current_pid]) = Len(process_map[current_pid]) + 1
      /\ Len(process_map'[current_pid]) \in 1 .. ArenaPages
      /\ \A p \in Pids : \A i, c :
           Maps(p, i, c)' <=>
             \/ Maps(p, i, c)
             \/ /\ p = current_pid /\ c = b
                /\ i = Len(process_map[current_pid]) + 1
      /\ \A c \in Blocks : StatusOf(c)' = StatusOf(c)
      /\ \A c : InUse(c)' <=> InUse(c)
      /\ SharersAgree'
  BY <1>2, <1>t, MapFileBlock
<1>9. TypeOK'
  BY <1>2, <1>6 DEF Inv, TypeOK, scan_done, cpuVars, frameVars, diskVars
<1>10. ArenaInv' /\ CallInv'
  BY <1>2, <1>6, MapArena DEF scan_done
<1>11. SwapConserved'
  <2>1. \A c \in SwapBlocks : c # b
    OBVIOUS
  <2> QED BY <1>6, <2>1 DEF Inv, SwapConserved, scan_done
<1>12. FaultInv'
  BY <1>2 DEF FaultInv
<1>13. \A c \in Blocks : Resident(c)' = Resident(c) /\ PpageOf(c)' = PpageOf(c)
  BY <1>6 DEF Resident, PpageOf
<1>14. FrameInv'
  BY <1>2, <1>6, <1>13, FramesKept DEF Inv, scan_done
<1>15. KeptInv' /\ (vm_physmem[0] = Zero)'
  BY DEF Inv, KeptInv, scan_done, frameVars
<1>16. ASSUME NEW c \in Blocks, InUse(c) PROVE BitsInv(c)'
  <2>1. vm_physmem' = vm_physmem /\ disk' = disk
    BY DEF scan_done, diskVars
  <2> QED BY <1>6, <1>16, <2>1 DEF Inv, BitsInv
<1> QED BY <1>6, <1>9, <1>10, <1>11, <1>12, <1>14, <1>15, <1>16 DEF Inv

-----------------------------------------------------------------------------
(* vm_destroy.                                                               *)

\* The swap-backed pages of a process, in the order of its page table.
LEMMA OwnEntries ==
  ASSUME Inv, dispatched # None, NEW S, S \subseteq OwnSwap
  PROVE  /\ Filter(process_map[current_pid], S) \in Seq(Entries)
         /\ Range(Filter(process_map[current_pid], S)) = S
         /\ IsInjective(Filter(process_map[current_pid], S))
         /\ \A e \in S : /\ e \in Entries /\ e.db \in SwapBlocks /\ InUse(e.db)
                         /\ e.status = StatusOf(e.db)
                         /\ \E i \in 1 .. ArenaPages : Maps(current_pid, i, e.db)
         /\ \A e, g \in S : e.db = g.db => e = g
<1>q. PICK q \in Seq(Entries) : q = process_map[current_pid]
  BY RunningProcess
<1>p. PICK p \in Pids : p = current_pid
  BY RunningProcess
<1>1. \A i \in DOMAIN q : /\ i \in 1 .. ArenaPages
                          /\ q[i] \in Entries
                          /\ Maps(p, i, q[i].db)
                          /\ InUse(q[i].db)
                          /\ q[i].status = StatusOf(q[i].db)
  BY <1>p, <1>q, PageStatus DEF Inv
<1>2. S \subseteq Range(q) /\ \A e \in S : e.db.filename = <<>>
  BY <1>q DEF OwnSwap
<1>3. ASSUME NEW i \in DOMAIN q, q[i] \in S
      PROVE  q[i].db \in SwapBlocks
  <2>1. q[i].db \in Blocks /\ q[i].db.filename = <<>>
    BY <1>1, <1>2, <1>3 DEF Entries
  <2>2. \A n \in FileNames : n # <<>>
    BY DEF FileNames
  <2> QED BY <2>1, <2>2 DEF Blocks, SwapBlocks
<1>4. ASSUME NEW i \in DOMAIN q, NEW j \in DOMAIN q, q[i] \in S, q[i].db = q[j].db
      PROVE  i = j
  BY <1>1, <1>3, <1>4 DEF Inv, SwapConserved
<1>5. /\ Filter(q, S) \in Seq(Entries)
      /\ Range(Filter(q, S)) = S
      /\ IsInjective(Filter(q, S))
  BY <1>2, <1>4, FilterQueue
<1>6. \A e \in S : \E i \in DOMAIN q : e = q[i]
  BY <1>2 DEF Range
<1>7. \A e \in S : /\ e \in Entries /\ e.db \in SwapBlocks /\ InUse(e.db)
                   /\ e.status = StatusOf(e.db)
                   /\ \E i \in 1 .. ArenaPages : Maps(p, i, e.db)
  BY <1>1, <1>3, <1>6
<1>8. \A e, g \in S : e.db = g.db => e = g
  BY <1>4, <1>6
<1> QED BY <1>p, <1>q, <1>5, <1>7, <1>8

\* A table of a field of distinct entries has no duplicates when the field does.
LEMMA FieldQueue ==
  ASSUME NEW T, NEW U, NEW q \in Seq(T), IsInjective(q),
         NEW r \in [DOMAIN q -> U],
         \A i, j \in DOMAIN q : r[i] = r[j] => q[i] = q[j]
  PROVE  r \in Seq(U) /\ DOMAIN r = DOMAIN q /\ IsInjective(r)
<1>1. DOMAIN q = 1 .. Len(q) /\ Len(q) \in Nat
  OBVIOUS
<1>2. r \in Seq(U)
  BY <1>1, FunctionQueue
<1>3. IsInjective(r)
  BY DEF IsInjective
<1> QED BY <1>1, <1>2, <1>3

\* The frames vm_destroy frees are distinct, and in no process's way.
LEMMA FreedFrames ==
  ASSUME Inv, dispatched # None
  PROVE  /\ SwapFrames \in Seq(Frames)
         /\ IsInjective(SwapFrames)
         /\ \A f \in Range(SwapFrames) :
              \E b \in SwapBlocks :
                /\ InUse(b) /\ Resident(b) /\ PpageOf(b) = f
                /\ \E i \in 1 .. ArenaPages : Maps(current_pid, i, b)
         /\ \A b \in SwapBlocks : \A i \in 1 .. ArenaPages :
              Maps(current_pid, i, b) /\ Resident(b) /\ PpageOf(b) # 0
                => PpageOf(b) \in Range(SwapFrames)
<1>S. PICK S : S = {e \in OwnSwap : e.status.resident /\ e.status.ppage # 0}
  OBVIOUS
<1>q. PICK q \in Seq(Entries) : q = Filter(process_map[current_pid], S)
  BY <1>S, OwnEntries
<1>1. /\ Range(q) = S
      /\ IsInjective(q)
      /\ \A e \in S : /\ e \in Entries /\ e.db \in SwapBlocks /\ InUse(e.db)
                      /\ e.status = StatusOf(e.db)
                      /\ \E i \in 1 .. ArenaPages : Maps(current_pid, i, e.db)
      /\ \A e, g \in S : e.db = g.db => e = g
  BY <1>S, <1>q, OwnEntries
<1>r. PICK r : r = [i \in DOMAIN q |-> q[i].status.ppage]
  OBVIOUS
<1>2. SwapFrames = r
  BY <1>S, <1>q, <1>r DEF SwapFrames, PpagesOf
<1>3. \A e \in S : /\ e.status.ppage \in Frames /\ e.status.ppage # 0
                   /\ Resident(e.db) /\ PpageOf(e.db) = e.status.ppage
  <2>1. SwapBlocks \subseteq Blocks
    BY DEF Blocks
  <2> QED BY <1>S, <1>1, <2>1, PpageType DEF Inv, Resident, PpageOf
<1>4. \A i \in DOMAIN q : q[i] \in S
  BY <1>1 DEF Range
<1>5. ASSUME NEW e \in S, NEW g \in S, e.status.ppage = g.status.ppage
      PROVE  e = g
  <2>1. e.db \in Blocks /\ g.db \in Blocks
    BY <1>1 DEF Blocks
  <2>2. e.db = g.db
    BY <1>1, <1>3, <1>5, <2>1, OwnFrame
  <2> QED BY <1>1, <2>2
<1>6. r \in [DOMAIN q -> Frames] /\ \A i, j \in DOMAIN q : r[i] = r[j] => q[i] = q[j]
  BY <1>r, <1>3, <1>4, <1>5
<1>7. r \in Seq(Frames) /\ DOMAIN r = DOMAIN q /\ IsInjective(r)
  BY <1>1, <1>6, FieldQueue
<1>8. Range(r) = {e.status.ppage : e \in S}
  BY <1>r, <1>1, <1>7 DEF Range
<1>9. ASSUME NEW b \in SwapBlocks, NEW i \in 1 .. ArenaPages,
             Maps(current_pid, i, b), Resident(b), PpageOf(b) # 0
      PROVE  PpageOf(b) \in Range(r)
  <2>e. PICK e : e = process_map[current_pid][i]
    OBVIOUS
  <2>1. e \in Range(process_map[current_pid]) /\ e.db = b
        /\ e.status = StatusOf(b)
    <3>1. current_pid \in Pids /\ i \in DOMAIN process_map[current_pid]
      BY <1>9, RunningProcess DEF Maps
    <3> QED BY <1>9, <2>e, <3>1, PageStatus DEF Inv, Maps, Range
  <2>2. e \in S
    BY <1>9, <1>S, <2>1 DEF OwnSwap, SwapBlocks, Resident, PpageOf
  <2> QED BY <1>8, <2>1, <2>2 DEF PpageOf
<1> QED BY <1>1, <1>2, <1>3, <1>7, <1>8, <1>9

\* The swap blocks vm_destroy returns are those of the process.
LEMMA FreedBlocks ==
  ASSUME Inv, dispatched # None
  PROVE  /\ OwnSwapBlocks \in Seq(0 .. swap_blocks - 1)
         /\ IsInjective(OwnSwapBlocks)
         /\ \A b \in SwapBlocks :
              b.block \in Range(OwnSwapBlocks)
                <=> \E i \in 1 .. ArenaPages : Maps(current_pid, i, b)
         /\ \A x \in Range(OwnSwapBlocks) :
              \E b \in SwapBlocks : b.block = x
<1>S. PICK S : S = OwnSwap
  OBVIOUS
<1>q. PICK q \in Seq(Entries) : q = Filter(process_map[current_pid], S)
  BY <1>S, OwnEntries
<1>1. /\ Range(q) = S
      /\ IsInjective(q)
      /\ \A e \in S : /\ e \in Entries /\ e.db \in SwapBlocks
                      /\ \E i \in 1 .. ArenaPages : Maps(current_pid, i, e.db)
      /\ \A e, g \in S : e.db = g.db => e = g
  BY <1>S, <1>q, OwnEntries
<1>r. PICK r : r = [i \in DOMAIN q |-> q[i].db.block]
  OBVIOUS
<1>2. OwnSwapBlocks = r
  BY <1>S, <1>q, <1>r DEF OwnSwapBlocks, BlocksOf
<1>3. \A b, c \in SwapBlocks : b.block = c.block => b = c
  BY DEF SwapBlocks
<1>4. \A i \in DOMAIN q : q[i] \in S
  BY <1>1 DEF Range
<1>5. \A b \in SwapBlocks : b.block \in 0 .. swap_blocks - 1
  BY DEF SwapBlocks
<1>6. /\ r \in [DOMAIN q -> 0 .. swap_blocks - 1]
      /\ \A i, j \in DOMAIN q : r[i] = r[j] => q[i] = q[j]
  BY <1>r, <1>1, <1>3, <1>4, <1>5
<1>7. r \in Seq(0 .. swap_blocks - 1) /\ DOMAIN r = DOMAIN q /\ IsInjective(r)
  <2>1. r \in [DOMAIN q -> 0 .. swap_blocks - 1]
    BY <1>6
  <2>2. DOMAIN q = 1 .. Len(q) /\ Len(q) \in Nat /\ DOMAIN r = DOMAIN q
    BY <2>1
  <2>3. r \in Seq(0 .. swap_blocks - 1)
    BY <2>1, <2>2, SeqDef
  <2>4. IsInjective(r)
    BY <1>1, <1>6, <2>2 DEF IsInjective
  <2> QED BY <2>2, <2>3, <2>4
<1>8. Range(r) = {e.db.block : e \in S}
  BY <1>r, <1>1, <1>7 DEF Range
<1>9. ASSUME NEW b \in SwapBlocks, NEW i \in 1 .. ArenaPages,
             Maps(current_pid, i, b)
      PROVE  b.block \in Range(r)
  <2>1. process_map[current_pid][i] \in S /\ process_map[current_pid][i].db = b
    BY <1>9, <1>S DEF Maps, OwnSwap, SwapBlocks, Range
  <2> QED BY <1>8, <2>1
<1>10. ASSUME NEW b \in SwapBlocks, b.block \in Range(r)
       PROVE  \E i \in 1 .. ArenaPages : Maps(current_pid, i, b)
  <2>1. PICK e \in S : e.db.block = b.block
    BY <1>8, <1>10
  <2>2. e.db = b
    BY <1>1, <1>3, <2>1
  <2> QED BY <1>1, <2>1, <2>2
<1>11. \A x \in Range(r) : \E b \in SwapBlocks : b.block = x
  BY <1>1, <1>8
<1> QED BY <1>2, <1>7, <1>9, <1>10, <1>11

\* Exactly the pages and swap blocks only the process had become free.
LEMMA DestroyStep ==
  ASSUME Inv, vm_destroy
  PROVE  Inv'
<1>0. /\ dispatched # None /\ fault = None /\ scan = None
      /\ current_pid \in Pids /\ current_pid \in managed
  BY RunningProcess DEF vm_destroy, Running, Idle
<1>p. PICK p \in Pids : p = current_pid
  BY <1>0
<1>r. PICK r \in Seq(Frames) : r = SwapFrames
  BY <1>0, FreedFrames
<1>d. PICK d \in Seq(0 .. swap_blocks - 1) : d = OwnSwapBlocks
  BY <1>0, FreedBlocks
<1>1. /\ IsInjective(r)
      /\ \A f \in Range(r) :
           \E b \in SwapBlocks :
             /\ InUse(b) /\ Resident(b) /\ PpageOf(b) = f
             /\ \E i \in 1 .. ArenaPages : Maps(p, i, b)
      /\ \A b \in SwapBlocks : \A i \in 1 .. ArenaPages :
           Maps(p, i, b) /\ Resident(b) /\ PpageOf(b) # 0 => PpageOf(b) \in Range(r)
  BY <1>0, <1>p, <1>r, FreedFrames
<1>2. /\ IsInjective(d)
      /\ \A b \in SwapBlocks :
           b.block \in Range(d) <=> \E i \in 1 .. ArenaPages : Maps(p, i, b)
      /\ \A x \in Range(d) : \E b \in SwapBlocks : b.block = x
  BY <1>0, <1>p, <1>d, FreedBlocks
<1>3. /\ share_map' = [b \in Blocks |-> {v \in share_map[b] : v[1] # p}]
      /\ free_swap_blocks' = free_swap_blocks \o d
      /\ free_physical_pages' = free_physical_pages \o r
      /\ clock_queue' = RemoveFromClockQueue(clock_queue, Range(r))
      /\ aborted' = \E i \in DOMAIN r : Range(clock_queue) \subseteq {r[j] : j \in 1 .. i - 1}
      /\ managed' = managed \ {p}
      /\ process_map' = [process_map EXCEPT ![p] = <<>>]
      /\ dispatched' = None /\ page_table_base_register' = None
      /\ current_pid' = p
      /\ UNCHANGED <<ppage_to_block_map, block_status_map, vm_physmem, diskVars,
                     fault, scan>>
  BY <1>p, <1>r, <1>d DEF vm_destroy
<1>4. /\ free_physical_pages \in Seq(Frames) /\ clock_queue \in Seq(Frames)
      /\ IsInjective(free_physical_pages) /\ IsInjective(clock_queue)
      /\ Range(free_physical_pages) \cap Range(clock_queue) = {}
      /\ free_swap_blocks \in Seq(0 .. swap_blocks - 1)
      /\ IsInjective(free_swap_blocks)
      /\ process_map \in [Pids -> Seq(Entries)]
      /\ share_map \in [Blocks -> SUBSET (Pids \X (1 .. ArenaPages))]
  BY DEF Inv, TypeOK, FrameInv, SwapConserved
<1>5. SwapBlocks \subseteq Blocks
  BY DEF Blocks
<1>6. \A f \in Range(r) : f \notin Range(free_physical_pages) /\ f # 0
  <2>1. \A f \in Range(r) : f # 0
    BY RangeQueue, PagerAssumption DEF Frames
  <2> QED BY <1>1, <1>5, <2>1 DEF Inv, FrameInv
<1>7. /\ free_physical_pages' \in Seq(Frames)
      /\ Range(free_physical_pages') = Range(free_physical_pages) \cup Range(r)
      /\ IsInjective(free_physical_pages')
  <2>1. Range(free_physical_pages) \cap Range(r) = {}
    BY <1>6
  <2> QED BY <1>1, <1>3, <1>4, <2>1, DrainQueue
<1>8. /\ clock_queue' \in Seq(Frames)
      /\ Range(clock_queue') = Range(clock_queue) \ Range(r)
      /\ IsInjective(clock_queue')
  BY <1>3, <1>4, RemoveQueue
<1>9. \A b \in SwapBlocks : b.block \in Range(free_swap_blocks) => ~InUse(b)
  BY DEF Inv, SwapConserved
<1>10. /\ free_swap_blocks' \in Seq(0 .. swap_blocks - 1)
       /\ Range(free_swap_blocks') = Range(free_swap_blocks) \cup Range(d)
       /\ IsInjective(free_swap_blocks')
  <2>1. Range(free_swap_blocks) \cap Range(d) = {}
    <3>1. ASSUME NEW b \in SwapBlocks, NEW i \in 1 .. ArenaPages, Maps(p, i, b)
          PROVE  InUse(b)
      BY <3>1 DEF InUse
    <3> QED BY <1>2, <1>9, <3>1
  <2>2. PICK U : U = 0 .. swap_blocks - 1
    OBVIOUS
  <2>3. free_swap_blocks \in Seq(U) /\ d \in Seq(U)
    BY <1>4, <2>2
  <2>4. /\ free_swap_blocks' \in Seq(U)
        /\ Range(free_swap_blocks') = Range(free_swap_blocks) \cup Range(d)
        /\ IsInjective(free_swap_blocks')
    BY <1>2, <1>3, <1>4, <2>1, <2>3, DrainQueue
  <2> QED BY <2>2, <2>4
<1>11. /\ process_map' \in [Pids -> Seq(Entries)]
       /\ process_map'[p] = <<>>
       /\ \A o \in Pids : o # p => process_map'[o] = process_map[o]
  BY <1>3, <1>4
<1>12. \A o \in Pids : \A i, c : Maps(o, i, c)' <=> o # p /\ Maps(o, i, c)
  BY <1>11 DEF Maps
<1>13. /\ \A b : StatusOf(b)' = StatusOf(b)
       /\ \A b : Resident(b)' = Resident(b)
       /\ \A b : PpageOf(b)' = PpageOf(b)
  BY <1>3 DEF StatusOf, Resident, PpageOf
<1>14. TypeOK'
  <2>1. share_map' \in [Blocks -> SUBSET (Pids \X (1 .. ArenaPages))]
    BY <1>3, <1>4
  <2> QED BY <1>3, <1>7, <1>8, <1>10, <1>11, <2>1 DEF Inv, TypeOK, diskVars
<1>15. ArenaInv' /\ CallInv'
  <2>1. Len(<<>>) <= ArenaPages
    BY PagerAssumption
  <2>2. ArenaInv'
    BY <1>3, <1>11, <2>1 DEF Inv, ArenaInv
  <2> QED BY <1>0, <1>3, <2>2 DEF CallInv
<1>16. SharersAgree'
  <2> SUFFICES ASSUME NEW o \in Pids, NEW i \in 1 .. ArenaPages, NEW c \in Blocks
               PROVE  /\ <<o, i>> \in share_map'[c] <=> Maps(o, i, c)'
                      /\ Maps(o, i, c)'
                           => process_map'[o][i].status = block_status_map'[c]
    BY DEF SharersAgree
  <2>1. <<o, i>> \in share_map[c] <=> Maps(o, i, c)
    BY DEF Inv, SharersAgree
  <2>2. Maps(o, i, c) => process_map[o][i].status = block_status_map[c]
    BY DEF Inv, SharersAgree
  <2>3. <<o, i>> \in share_map'[c] <=> o # p /\ <<o, i>> \in share_map[c]
    BY <1>3
  <2> QED BY <1>3, <1>11, <1>12, <2>1, <2>2, <2>3
<1>17. \A c : InUse(c)' => InUse(c)
  BY <1>12 DEF InUse
<1>18. ASSUME NEW c \in SwapBlocks
       PROVE  InUse(c)' <=> InUse(c) /\ ~\E i \in 1 .. ArenaPages : Maps(p, i, c)
  <2>1. \A o, q \in Pids : \A i, j \in 1 .. ArenaPages :
          Maps(o, i, c) /\ Maps(q, j, c) => o = q /\ i = j
    BY DEF Inv, SwapConserved
  <2>2. InUse(c) <=> \E o \in Pids : \E i \in 1 .. ArenaPages : Maps(o, i, c)
    BY DEF InUse
  <2>3. InUse(c)' <=> \E o \in Pids : \E i \in 1 .. ArenaPages : Maps(o, i, c)'
    BY DEF InUse
  <2> QED BY <1>12, <2>1, <2>2, <2>3
<1>19. SwapConserved'
  <2> SUFFICES ASSUME NEW c \in SwapBlocks
               PROVE  /\ c.block \in Range(free_swap_blocks') <=> ~InUse(c)'
                      /\ \A o, q \in Pids : \A i, j \in 1 .. ArenaPages :
                           Maps(o, i, c)' /\ Maps(q, j, c)' => o = q /\ i = j
    BY <1>10 DEF SwapConserved
  <2>1. c.block \in Range(free_swap_blocks) <=> ~InUse(c)
    BY DEF Inv, SwapConserved
  <2>2. c.block \in Range(d) <=> \E i \in 1 .. ArenaPages : Maps(p, i, c)
    BY <1>2
  <2>3. \A o, q \in Pids : \A i, j \in 1 .. ArenaPages :
          Maps(o, i, c) /\ Maps(q, j, c) => o = q /\ i = j
    BY DEF Inv, SwapConserved
  <2> QED BY <1>10, <1>12, <1>18, <2>1, <2>2, <2>3
<1>20. FaultInv'
  BY <1>0, <1>3 DEF FaultInv
<1>21. FrameInv'
  <2>1. ASSUME NEW g \in Range(clock_queue')
        PROVE  \E c \in Blocks : /\ ppage_to_block_map'[g] = c
                                 /\ InUse(c)' /\ Resident(c)' /\ PpageOf(c)' = g
    <3>1. g \in Range(clock_queue) /\ g \notin Range(r) /\ g # 0
      <4>1. g \in Range(clock_queue) /\ g \notin Range(r)
        BY <1>8
      <4> QED BY <1>4, <4>1, RangeQueue, PagerAssumption DEF Frames
    <3>2. PICK c \in Blocks : /\ ppage_to_block_map[g] = c
                              /\ InUse(c) /\ Resident(c) /\ PpageOf(c) = g
      BY <1>0, <3>1 DEF Inv, FrameInv
    <3>3. InUse(c)'
      <4>1. CASE c \in SwapBlocks
        BY <1>1, <1>18, <3>1, <3>2, <4>1
      <4>2. CASE c \notin SwapBlocks
        BY <4>2 DEF InUse
      <4> QED BY <4>1, <4>2
    <3> QED BY <1>3, <1>13, <3>2, <3>3
  <2>2. ASSUME NEW c \in Blocks, InUse(c)', Resident(c)', PpageOf(c)' # 0
        PROVE  /\ ppage_to_block_map'[PpageOf(c)'] = c
               /\ PpageOf(c)' \notin Range(free_physical_pages')
    <3>1. InUse(c) /\ Resident(c) /\ PpageOf(c) # 0 /\ PpageOf(c)' = PpageOf(c)
      BY <1>13, <1>17, <2>2
    <3>2. /\ ppage_to_block_map[PpageOf(c)] = c
          /\ PpageOf(c) \notin Range(free_physical_pages)
      BY <3>1 DEF Inv, FrameInv
    <3>3. PpageOf(c) \notin Range(r)
      <4> SUFFICES ASSUME PpageOf(c) \in Range(r) PROVE FALSE
        OBVIOUS
      <4>1. PICK b \in SwapBlocks :
              /\ InUse(b) /\ Resident(b) /\ PpageOf(b) = PpageOf(c)
              /\ \E i \in 1 .. ArenaPages : Maps(p, i, b)
        BY <1>1
      <4>2. b = c
        BY <1>5, <3>1, <4>1, OwnFrame
      <4> QED BY <1>18, <2>2, <4>1, <4>2
    <3> QED BY <1>3, <1>7, <3>1, <3>2, <3>3
  <2>3. Range(free_physical_pages') \cap Range(clock_queue') = {}
    BY <1>4, <1>7, <1>8
  <2> QED BY <1>7, <1>8, <2>1, <2>2, <2>3 DEF FrameInv
<1>22. KeptInv'
  <2> SUFFICES ASSUME ~SwapMayFail
               PROVE  /\ Range(free_physical_pages') \cup Range(clock_queue') = Frames
                      /\ ~aborted'
    BY DEF KeptInv
  <2>1. Range(free_physical_pages) \cup Range(clock_queue) = Frames
    BY DEF Inv, KeptInv
  <2>2. Range(r) \subseteq Frames
    BY RangeQueue
  <2>3. ASSUME NEW i \in DOMAIN r, Range(clock_queue) \subseteq {r[j] : j \in 1 .. i - 1}
        PROVE  FALSE
    <3>1. r[i] \in Range(r)
      BY DEF Range
    <3>2. r[i] \in Range(clock_queue)
      BY <1>6, <2>1, <2>2, <3>1
    <3>3. PICK j \in 1 .. i - 1 : r[i] = r[j]
      BY <2>3, <3>2
    <3>4. i \in 1 .. Len(r) /\ Len(r) \in Nat /\ DOMAIN r = 1 .. Len(r)
      OBVIOUS
    <3>5. j \in DOMAIN r /\ j # i
      BY <3>4
    <3> QED BY <1>1, <3>3, <3>5 DEF IsInjective
  <2> QED BY <1>3, <1>7, <1>8, <2>1, <2>2, <2>3
<1>23. (vm_physmem[0] = Zero)'
  BY <1>3 DEF Inv
<1>24. ASSUME NEW c \in Blocks, InUse(c)' PROVE BitsInv(c)'
  BY <1>3, <1>13, <1>17, <1>24 DEF Inv, BitsInv, diskVars
<1> QED BY <1>14, <1>15, <1>16, <1>19, <1>20, <1>21, <1>22, <1>23, <1>24 DEF Inv

-----------------------------------------------------------------------------
(* The invariant, and the properties.                                        *)

\* vm_init establishes the invariant.
LEMMA InitInv ==
  ASSUME Init
  PROVE  Inv
<1>1. Blank \in Statuses
  BY PagerAssumption DEF Blank, Statuses
<1>2. PICK g \in [Frames -> Initial] :
        vm_physmem = [f \in 0 .. memory_pages - 1 |-> IF f = 0 THEN Zero ELSE g[f]]
  BY DEF Init
<1>3. vm_physmem \in [0 .. memory_pages - 1 -> Values] /\ vm_physmem[0] = Zero
  BY <1>2, PagerAssumption DEF Frames
<1>4. /\ free_swap_blocks \in Seq(0 .. swap_blocks - 1)
      /\ Range(free_swap_blocks) = 0 .. swap_blocks - 1
      /\ IsInjective(free_swap_blocks)
  <2>1. free_swap_blocks \in [1 .. swap_blocks -> 0 .. swap_blocks - 1]
    BY PagerAssumption DEF Init
  <2>2. free_swap_blocks \in Seq(0 .. swap_blocks - 1)
    <3>1. PICK U : U = 0 .. swap_blocks - 1
      OBVIOUS
    <3>2. free_swap_blocks \in Seq(U)
      BY <2>1, <3>1, FunctionQueue, PagerAssumption
    <3> QED BY <3>1, <3>2
  <2>3. ASSUME NEW x \in 0 .. swap_blocks - 1 PROVE x \in Range(free_swap_blocks)
    <3>1. x + 1 \in 1 .. swap_blocks /\ free_swap_blocks[x + 1] = x
      BY PagerAssumption DEF Init
    <3> QED BY <2>1, <3>1 DEF Range
  <2>4. Range(free_swap_blocks) \subseteq 0 .. swap_blocks - 1
    BY <2>1 DEF Range
  <2>5. IsInjective(free_swap_blocks)
    BY PagerAssumption DEF Init, IsInjective
  <2> QED BY <2>2, <2>3, <2>4, <2>5
<1>5. /\ free_physical_pages \in Seq(Frames)
      /\ Range(free_physical_pages) = Frames
      /\ IsInjective(free_physical_pages)
  <2>1. free_physical_pages \in [1 .. memory_pages - 1 -> Frames]
    BY PagerAssumption DEF Init, Frames
  <2>2. free_physical_pages \in Seq(Frames)
    <3>1. memory_pages - 1 \in Nat
      BY PagerAssumption
    <3> QED BY <2>1, <3>1, FunctionQueue
  <2>3. Range(free_physical_pages) = Frames
    BY PagerAssumption DEF Init, Frames, Range
  <2>4. IsInjective(free_physical_pages)
    BY PagerAssumption DEF Init, IsInjective
  <2> QED BY <2>2, <2>3, <2>4
<1>6. clock_queue \in Seq(Frames) /\ Range(clock_queue) = {} /\ IsInjective(clock_queue)
  BY EmptyQueue DEF Init
<1>7. process_map \in [Pids -> Seq(Entries)] /\ \A p \in Pids : process_map[p] = <<>>
  BY DEF Init
<1>8. TypeOK
  <2>1. disk \in [Blocks -> Values]
    BY PagerAssumption DEF Init
  <2> QED BY <1>3, <1>4, <1>5, <1>6, <1>7, <2>1 DEF Init, TypeOK
<1>9. ArenaInv /\ CallInv /\ FaultInv
  BY <1>7, PagerAssumption DEF Init, ArenaInv, CallInv, FaultInv
<1>10. \A p \in Pids : \A i, c : ~Maps(p, i, c)
  BY <1>7 DEF Maps
<1>11. SharersAgree
  BY <1>10 DEF Init, SharersAgree
<1>12. \A c \in SwapBlocks : ~InUse(c)
  BY <1>10 DEF InUse
<1>13. SwapConserved
  <2>1. \A c \in SwapBlocks : c.block \in Range(free_swap_blocks)
    BY <1>4 DEF SwapBlocks
  <2> QED BY <1>4, <1>10, <1>12, <2>1 DEF SwapConserved
<1>14. \A c \in Blocks : StatusOf(c) = Blank
  BY DEF Init, StatusOf
<1>15. FrameInv /\ KeptInv
  <2>1. \A c \in Blocks : ~Resident(c)
    BY <1>14 DEF Resident, Blank
  <2>2. FrameInv
    BY <1>5, <1>6, <2>1 DEF FrameInv
  <2>3. KeptInv
    BY <1>5, <1>6 DEF KeptInv, Init
  <2> QED BY <2>2, <2>3
<1>16. \A c \in Blocks : BitsInv(c)
  BY <1>14 DEF BitsInv, Blank
<1> QED BY <1>3, <1>8, <1>9, <1>11, <1>13, <1>15, <1>16 DEF Inv

\* Every step preserves the invariant.
LEMMA NextInv ==
  ASSUME Inv, [Next]_vars
  PROVE  Inv'
<1>1. CASE continue
  BY <1>1, TakeStep, PassStep, EvictStep, WriteFailsStep, EmptyStep, FillZeroStep,
     FillReadStep, ReadFailsStep, ScanFailsStep, ScanFaultStep, ScanPageStep,
     ScanDoneStep DEF continue
<1>2. CASE \E p \in Pids : vm_switch(p) \/ \E q \in Pids \cup {None} : vm_create(q, p)
  BY <1>2, SwitchStep, CreateStep
<1>3. CASE vm_destroy
  BY <1>3, DestroyStep
<1>4. CASE vm_map_swap
  BY <1>4, MapSwapStep
<1>5. CASE \E i \in 1 .. ArenaPages :
             \/ \E v \in Values : app_store(i, v)
             \/ \E w \in BOOLEAN : vm_fault(i, w)
             \/ \E n \in FileBlocks : vm_map_file(i, n)
  BY <1>5, StoreStep, FaultStep, MapFileStep
<1>6. CASE stopped \/ UNCHANGED vars
  BY <1>6, StutterStep DEF stopped
<1> QED BY <1>1, <1>2, <1>3, <1>4, <1>5, <1>6 DEF Next

\* The invariant holds whenever the pager runs.
LEMMA Invariance == Spec => []Inv
BY InitInv, NextInv, PTL DEF Spec

\* TypeOK holds in every reachable state of Pager.
THEOREM PagerTypeCorrect == Spec => []TypeOK
BY Invariance, PTL DEF Inv

\* SharersAgree: page tables, share_map and block_status_map stay in agreement.
THEOREM PagerSharersAgree == Spec => []SharersAgree
BY Invariance, PTL DEF Inv

\* SwapConserved: a swap block is free or backs exactly one virtual page.
THEOREM PagerSwapConserved == Spec => []SwapConserved
BY Invariance, PTL DEF Inv

\* FramesHoldTheirBlocks: the clock evicts the block that is in the page, and no
\* two blocks share one.
THEOREM PagerFramesHoldTheirBlocks == Spec => []FramesHoldTheirBlocks
<1>1. ASSUME Inv PROVE FramesHoldTheirBlocks
  <2>1. ASSUME NEW f \in Range(clock_queue)
        PROVE  \/ fault # None /\ fault.ppage = f
               \/ LET s == StatusOf(ppage_to_block_map[f])
                  IN  InUse(ppage_to_block_map[f]) /\ s.resident /\ s.ppage = f
    BY <1>1 DEF Inv, FrameInv, Resident, PpageOf
  <2>2. \A b \in Blocks :
          InUse(b) /\ StatusOf(b).resident /\ StatusOf(b).ppage # 0
            => ppage_to_block_map[StatusOf(b).ppage] = b
    BY <1>1 DEF Inv, FrameInv, Resident, PpageOf
  <2> QED BY <2>1, <2>2 DEF FramesHoldTheirBlocks
<1> QED BY <1>1, Invariance, PTL

\* BitsTrackAccesses: what the protection bits let pass has been recorded, and
\* dropping a clean page loses nothing.
THEOREM PagerBitsTrackAccesses == Spec => []BitsTrackAccesses
<1>1. ASSUME Inv PROVE BitsTrackAccesses
  BY <1>1 DEF Inv, BitsInv, BitsTrackAccesses
<1> QED BY <1>1, Invariance, PTL

\* RegisterFollowsSwitch: a process runs with its own page table.
THEOREM PagerRegisterFollowsSwitch == Spec => []RegisterFollowsSwitch
<1>1. ASSUME Inv PROVE RegisterFollowsSwitch
  BY <1>1 DEF Inv, CallInv, RegisterFollowsSwitch
<1> QED BY <1>1, Invariance, PTL

\* LoadsSeeContents: a load the hardware lets pass returns the contents of the
\* block, wherever the pager keeps them.
THEOREM PagerLoadsSeeContents == Spec => []LoadsSeeContents
<1>1. ASSUME Inv PROVE LoadsSeeContents
  <2> SUFFICES ASSUME NEW p \in Pids, NEW i \in DOMAIN process_map[p],
                      process_map[p][i].status.read_enable
               PROVE  vm_physmem[process_map[p][i].status.ppage]
                        = Contents(process_map[p][i].db)
    BY DEF LoadsSeeContents
  <2>b. PICK b \in Blocks : b = process_map[p][i].db
    BY <1>1, PageStatus DEF Inv
  <2>1. InUse(b) /\ process_map[p][i].status = StatusOf(b)
    BY <1>1, <2>b, PageStatus DEF Inv
  <2>2. BitsInv(b)
    BY <1>1, <2>1 DEF Inv
  <2>3. StatusOf(b).resident
    BY <2>1, <2>2 DEF BitsInv
  <2> QED BY <2>b, <2>1, <2>3 DEF Contents
<1> QED BY <1>1, Invariance, PTL

\* FramesPartitioned, when the first write of a swap block never fails: no path
\* loses or duplicates a physical page.  (When it fails the page under the clock
\* hand is lost.)
THEOREM PagerFramesPartitioned ==
  ASSUME ~SwapMayFail
  PROVE  Spec => []FramesPartitioned
<1>1. ASSUME Inv PROVE FramesPartitioned
  BY <1>1 DEF Inv, FrameInv, KeptInv, FramesPartitioned
<1> QED BY <1>1, Invariance, PTL

\* NoAssertFails, under the same condition: there is always a page to evict, and
\* only a write copies the zero page.
THEOREM PagerNoAssertFails ==
  ASSUME ~SwapMayFail
  PROVE  Spec => []NoAssertFails
<1>1. ASSUME Inv PROVE NoAssertFails
  BY <1>1 DEF Inv, KeptInv, NoAssertFails
<1> QED BY <1>1, Invariance, PTL
=============================================================================
