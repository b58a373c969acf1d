------------------------ MODULE PagerRefinementProofs ------------------------
(***************************************************************************)
(* Proof that the pager implements SharedMemory, for any number of         *)
(* processes, pages, blocks and contents, when physical page numbers fit   *)
(* in the unsigned int Find_filename computes with: every step of the      *)
(* pager is a step of the shared memory or is invisible to processes.      *)
(***************************************************************************)
EXTENDS PagerProofs

\* The variables of SharedMemory under the refinement mapping of Pager.
AbsArena == [p \in Pids |-> [i \in DOMAIN process_map[p] |-> process_map[p][i].db]]
AbsMemory == [b \in Blocks |-> IF InUse(b) THEN Contents(b) ELSE None]

\* The part of a filename read so far is what the pages before hold.
NameInv ==
  scan # None =>
    \A j \in 1 .. Len(scan.name) :
      /\ scan.vpn - Len(scan.name) + j - 1 \in CurrentPages
      /\ scan.name[j] = Contents(Page(scan.vpn - Len(scan.name) + j - 1).db)

\* A step no process can observe.
SameArena ==
  \A p \in Pids : /\ DOMAIN process_map'[p] = DOMAIN process_map[p]
                  /\ \A i \in DOMAIN process_map[p] :
                       process_map'[p][i].db = process_map[p][i].db
SameContents ==
  \A b \in Blocks : /\ InUse(b)' <=> InUse(b)
                    /\ InUse(b) => Contents(b)' = Contents(b)
Invisible == SameArena /\ SameContents

-----------------------------------------------------------------------------
\* A block always has contents.
LEMMA ContentsType ==
  ASSUME TypeOK, NEW b \in Blocks
  PROVE  Contents(b) \in Values
<1>1. StatusOf(b) \in Statuses
  BY StatusType
<1> QED BY <1>1 DEF Contents, Statuses, TypeOK

\* An invisible step leaves the shared memory alone.
LEMMA InvisibleStep ==
  ASSUME Invisible
  PROVE  AbsArena' = AbsArena /\ AbsMemory' = AbsMemory
<1>1. AbsArena' = AbsArena
  BY DEF Invisible, SameArena, AbsArena
<1>2. AbsMemory' = AbsMemory
  BY DEF Invisible, SameContents, AbsMemory
<1> QED BY <1>1, <1>2

\* Moving pages between the queues is invisible.
LEMMA QuietInvisible ==
  ASSUME UNCHANGED <<process_map, share_map, block_status_map, vm_physmem, disk>>
  PROVE  Invisible
<1>1. /\ \A b : StatusOf(b)' = StatusOf(b)
      /\ \A b : InUse(b)' <=> InUse(b)
  BY TablesKept
<1>2. \A b : Contents(b)' = Contents(b)
  BY <1>1 DEF Contents
<1> QED BY <1>1, <1>2 DEF Invisible, SameArena, SameContents

\* The clock hand only takes rights away from pages.
LEMMA PassInvisible ==
  ASSUME Inv, clock_pass
  PROVE  Invisible
<1>0. Sweeping
  BY DEF clock_pass
<1>b. PICK b \in Blocks : b = HandBlock
  BY <1>0, HandState
<1>s. PICK s \in Statuses : s = StatusOf(b)
  BY StatusType DEF Inv
<1> DEFINE new == State(FALSE, FALSE, TRUE, FALSE, s.dirty, None)
<1>1. new \in NewStates
  BY <1>s DEF NewStates, State, Statuses
<1>2. /\ \A p \in Pids : DOMAIN process_map'[p] = DOMAIN process_map[p]
      /\ \A p \in Pids : \A i \in DOMAIN process_map[p] :
           process_map'[p][i].db = process_map[p][i].db
      /\ \A c : InUse(c)' <=> InUse(c)
      /\ StatusOf(b)' = Set_state(s, new)
      /\ \A c \in Blocks : c # b => StatusOf(c)' = StatusOf(c)
  <2>1. Set_page_state(b, new) /\ UNCHANGED share_map
    BY <1>b, <1>s DEF clock_pass
  <2> HIDE DEF new
  <2> QED BY <1>1, <1>s, <2>1, SetPageState DEF Inv
<1>3. Set_state(s, new).ppage = s.ppage /\ Set_state(s, new).resident = TRUE
  BY <1>1, SetState DEF State
<1>4. s.resident
  BY <1>0, <1>b, <1>s, HandState DEF Resident
<1>5. vm_physmem' = vm_physmem /\ disk' = disk
  BY DEF clock_pass, diskVars
<1>6. \A c \in Blocks : Contents(c)' = Contents(c)
  <2>1. Contents(b)' = Contents(b)
    BY <1>s, <1>2, <1>3, <1>4, <1>5 DEF Contents
  <2>2. ASSUME NEW c \in Blocks, c # b PROVE Contents(c)' = Contents(c)
    BY <1>2, <1>5, <2>2 DEF Contents
  <2> QED BY <2>1, <2>2
<1> QED BY <1>2, <1>6 DEF Invisible, SameArena, SameContents

\* Evicting a page keeps its contents: they are on disk, or written there.
LEMMA EvictInvisible ==
  ASSUME Inv, clock_evict
  PROVE  Invisible
<1>0. Sweeping
  BY DEF clock_evict
<1>b. PICK b \in Blocks : b = HandBlock
  BY <1>0, HandState
<1>f. PICK f \in Frames : f = Hand
  BY <1>0, HandState
<1>s. PICK s \in Statuses : s = StatusOf(b)
  BY StatusType DEF Inv
<1> DEFINE new == State(FALSE, FALSE, FALSE, FALSE, FALSE, None)
<1>1. InUse(b) /\ s.resident /\ s.ppage = f /\ f # 0 /\ BitsInv(b)
  <2>1. InUse(b) /\ Resident(b) /\ PpageOf(b) = f /\ f # 0
    BY <1>0, <1>b, <1>f, HandState
  <2> QED BY <1>s, <2>1 DEF Inv, Resident, PpageOf
<1>2. new \in NewStates
  BY DEF NewStates, State
<1>3. /\ \A p \in Pids : DOMAIN process_map'[p] = DOMAIN process_map[p]
      /\ \A p \in Pids : \A i \in DOMAIN process_map[p] :
           process_map'[p][i].db = process_map[p][i].db
      /\ \A c : InUse(c)' <=> InUse(c)
      /\ StatusOf(b)' = Set_state(s, new)
      /\ \A c \in Blocks : c # b => StatusOf(c)' = StatusOf(c)
  <2>1. Set_page_state(b, new) /\ UNCHANGED share_map
    BY <1>b DEF clock_evict
  <2> HIDE DEF new
  <2> QED BY <1>2, <1>s, <2>1, SetPageState DEF Inv
<1>4. Set_state(s, new).resident = FALSE
  BY <1>2, SetState DEF State
<1>5. /\ vm_physmem' = vm_physmem
      /\ IF s.dirty THEN disk' = [disk EXCEPT ![b] = vm_physmem[f]] ELSE disk' = disk
      /\ disk \in [Blocks -> Values]
  BY <1>b, <1>f, <1>s DEF clock_evict, diskVars, Inv, TypeOK
<1>6. Contents(b)' = Contents(b)
  <2>1. Contents(b) = vm_physmem[f]
    BY <1>s, <1>1 DEF Contents
  <2>2. Contents(b)' = disk'[b]
    BY <1>3, <1>4 DEF Contents
  <2>3. disk'[b] = vm_physmem[f]
    BY <1>s, <1>1, <1>5 DEF BitsInv
  <2> QED BY <2>1, <2>2, <2>3
<1>7. ASSUME NEW c \in Blocks, c # b PROVE Contents(c)' = Contents(c)
  <2>1. disk'[c] = disk[c]
    BY <1>5, <1>7
  <2> QED BY <1>3, <1>5, <1>7, <2>1 DEF Contents
<1> QED BY <1>3, <1>6, <1>7 DEF Invisible, SameArena, SameContents

\* A page that comes back has the contents it left with.
LEMMA ResidentInvisible ==
  ASSUME Inv, fault # None, fault.ppage # 0, set_resident, UNCHANGED share_map,
         disk' = disk, NEW v \in Values, v = Contents(FaultBlock),
         vm_physmem' = [vm_physmem EXCEPT ![fault.ppage] = v]
  PROVE  Invisible
<1>0. fault \in Faults /\ fault.write \in BOOLEAN
  BY FaultState DEF Faults
<1>b. PICK b \in Blocks : b = FaultBlock
  BY FaultState
<1>f. PICK f \in Frames : f = fault.ppage
  BY <1>0 DEF Faults
<1>w. PICK w \in BOOLEAN : w = fault.write
  BY <1>0
<1>s. PICK s \in Statuses : s = StatusOf(b)
  BY StatusType DEF Inv
<1> DEFINE new == State(TRUE, w, TRUE, TRUE, w, f)
<1>1. f # 0 /\ ppage_to_block_map[f] = b /\ ~(Resident(b) /\ PpageOf(b) # 0)
  BY <1>b, <1>f DEF Inv, FaultInv
<1>2. new \in NewStates /\ f # None
  BY PagerAssumption, NoneAssumption DEF NewStates, State, Frames
<1>3. /\ \A p \in Pids : DOMAIN process_map'[p] = DOMAIN process_map[p]
      /\ \A p \in Pids : \A i \in DOMAIN process_map[p] :
           process_map'[p][i].db = process_map[p][i].db
      /\ \A c : InUse(c)' <=> InUse(c)
      /\ StatusOf(b)' = Set_state(s, new)
      /\ \A c \in Blocks : c # b => StatusOf(c)' = StatusOf(c)
  <2>1. Set_page_state(b, new) /\ UNCHANGED share_map
    BY <1>b, <1>f, <1>w DEF set_resident
  <2> HIDE DEF new
  <2> QED BY <1>2, <1>s, <2>1, SetPageState DEF Inv
<1>4. Set_state(s, new).ppage = f /\ Set_state(s, new).resident = TRUE
  BY <1>2, SetState DEF State
<1>5. /\ vm_physmem'[f] = v
      /\ \A g \in 0 .. memory_pages - 1 : g # f => vm_physmem'[g] = vm_physmem[g]
  BY <1>f, PagerAssumption DEF Inv, TypeOK, Frames
<1>6. Contents(b)' = Contents(b)
  <2>1. Contents(b)' = vm_physmem'[f]
    BY <1>3, <1>4 DEF Contents
  <2> QED BY <1>b, <1>5, <2>1
<1>7. ASSUME NEW c \in Blocks, c # b, InUse(c) PROVE Contents(c)' = Contents(c)
  <2>1. StatusOf(c)' = StatusOf(c) /\ StatusOf(c) \in Statuses
    BY <1>3, <1>7, StatusType DEF Inv
  <2>2. ASSUME StatusOf(c).resident
        PROVE  vm_physmem'[StatusOf(c).ppage] = vm_physmem[StatusOf(c).ppage]
    <3>1. StatusOf(c).ppage \in 0 .. memory_pages - 1
      BY <2>1 DEF Statuses
    <3>2. StatusOf(c).ppage # f
      BY <1>1, <1>7, <2>2 DEF Inv, FrameInv, Resident, PpageOf
    <3> QED BY <1>5, <3>1, <3>2
  <2> QED BY <2>1, <2>2 DEF Contents
<1> QED BY <1>3, <1>6, <1>7 DEF Invisible, SameArena, SameContents

\* Situation 1 of vm_fault copies the zero page.
LEMMA FillZeroInvisible ==
  ASSUME Inv, fill_zero
  PROVE  Invisible
<1>1. fault # None /\ fault.ppage # 0 /\ fault.zero
  BY DEF fill_zero, Filling
<1>2. Contents(FaultBlock) = Zero
  BY <1>1 DEF Inv, FaultInv, Resident, PpageOf, Contents
<1>3. Zero \in Values /\ disk' = disk
  BY PagerAssumption DEF fill_zero, diskVars
<1> QED BY <1>1, <1>2, <1>3, ResidentInvisible DEF fill_zero

\* Situation 2 reads the block.
LEMMA FillReadInvisible ==
  ASSUME Inv, fill_read
  PROVE  Invisible
<1>1. fault # None /\ fault.ppage # 0 /\ ~fault.zero
  BY DEF fill_read, Filling
<1>2. Contents(FaultBlock) = disk[FaultBlock]
  BY <1>1 DEF Inv, FaultInv, Resident, Contents
<1>3. disk[FaultBlock] \in Values
  BY <1>1, FaultState DEF Inv, TypeOK
<1> QED BY <1>1, <1>2, <1>3, ResidentInvisible DEF fill_read

\* Situation 3, and the start of the others, move no page.
LEMMA StartFaultInvisible ==
  ASSUME Inv, dispatched # None, NEW i \in CurrentPages, NEW write \in BOOLEAN,
         start_fault(i, write), FaultFrame
  PROVE  Invisible
<1>b. PICK b \in Blocks : b = Page(i).db
  BY PageBlock
<1>s. PICK s \in Statuses : s = StatusOf(b)
  BY PageBlock, <1>b
<1>0. Page(i).status = s
  BY <1>b, <1>s, PageBlock
<1> DEFINE d == s.dirty \/ write
           new == State(TRUE, d, TRUE, TRUE, d, None)
<1>1. \/ UNCHANGED <<block_status_map, process_map>>
      \/ s.resident /\ Set_page_state(b, new)
  BY <1>0, <1>b DEF start_fault
<1>2. /\ share_map' = share_map /\ vm_physmem' = vm_physmem /\ disk' = disk
  BY DEF FaultFrame, diskVars
<1>3. CASE UNCHANGED <<block_status_map, process_map>>
  BY <1>2, <1>3, QuietInvisible
<1>4. CASE s.resident /\ Set_page_state(b, new)
  <2>1. new \in NewStates
    BY DEF NewStates, State, Statuses
  <2>2. /\ \A p \in Pids : DOMAIN process_map'[p] = DOMAIN process_map[p]
        /\ \A p \in Pids : \A j \in DOMAIN process_map[p] :
             process_map'[p][j].db = process_map[p][j].db
        /\ \A c : InUse(c)' <=> InUse(c)
        /\ StatusOf(b)' = Set_state(s, new)
        /\ \A c \in Blocks : c # b => StatusOf(c)' = StatusOf(c)
    <3> HIDE DEF new
    <3> QED BY <1>s, <1>2, <1>4, <2>1, SetPageState DEF Inv
  <2>3. Set_state(s, new).ppage = s.ppage /\ Set_state(s, new).resident = TRUE
    BY <2>1, SetState DEF State
  <2>4. Contents(b)' = Contents(b)
    BY <1>s, <1>2, <1>4, <2>2, <2>3 DEF Contents
  <2>5. ASSUME NEW c \in Blocks, c # b PROVE Contents(c)' = Contents(c)
    BY <1>2, <2>2, <2>5 DEF Contents
  <2> QED BY <2>2, <2>4, <2>5 DEF Invisible, SameArena, SameContents
<1> QED BY <1>1, <1>3, <1>4

\* vm_fault moves no page before it needs one.
LEMMA FaultInvisible ==
  ASSUME Inv, NEW i \in 1 .. ArenaPages, NEW w \in BOOLEAN, vm_fault(i, w)
  PROVE  Invisible
<1>1. dispatched # None /\ i \in CurrentPages /\ start_fault(i, w) /\ FaultFrame
  BY DEF vm_fault, Running, FaultFrame
<1> QED BY <1>1, StartFaultInvisible

\* Nor does it when Find_filename calls it.
LEMMA ScanFaultInvisible ==
  ASSUME Inv, scan_fault
  PROVE  Invisible
<1>1. /\ dispatched # None
      /\ scan.vpn \in CurrentPages /\ start_fault(scan.vpn, FALSE) /\ FaultFrame
  BY ScanState DEF scan_fault, FaultFrame
<1> QED BY <1>1, StartFaultInvisible

-----------------------------------------------------------------------------
(* Find_filename reads what the process wrote.                               *)

\* The physical page of a virtual page has its contents, and the unsigned int
\* that indexes it loses nothing.
LEMMA ReadContents ==
  ASSUME Inv, memory_pages <= UintPages, NEW v, ScanReads(v)
  PROVE  /\ scan.vpn \in CurrentPages
         /\ v = Contents(Page(scan.vpn).db)
<1>1. dispatched # None /\ scan.vpn \in CurrentPages
  BY ScanState DEF ScanReads
<1>b. PICK b \in Blocks : b = Page(scan.vpn).db
  BY <1>1, PageBlock
<1>2. /\ Page(scan.vpn).status = StatusOf(b) /\ StatusOf(b) \in Statuses
      /\ BitsInv(b)
  BY <1>1, <1>b, PageBlock
<1>3. StatusOf(b).read_enable /\ v = vm_physmem[StatusOf(b).ppage % UintPages]
  BY <1>2 DEF ScanReads
<1>4. StatusOf(b).resident
  BY <1>2, <1>3 DEF BitsInv
<1>5. \A x \in 0 .. memory_pages - 1 : x % UintPages = x
  <2> SUFFICES ASSUME NEW x \in 0 .. memory_pages - 1 PROVE x % UintPages = x
    OBVIOUS
  <2>1. x \in Nat /\ UintPages \in Nat /\ x < UintPages
    BY PagerAssumption
  <2> QED BY <2>1
<1>6. StatusOf(b).ppage % UintPages = StatusOf(b).ppage
  BY <1>2, <1>5 DEF Statuses
<1> QED BY <1>1, <1>b, <1>3, <1>4, <1>6 DEF Contents

\* NameInv survives what no process can observe.
LEMMA NameKept ==
  ASSUME Inv, NameInv, Invisible, UNCHANGED cpuVars, UNCHANGED scan
  PROVE  NameInv'
<1> SUFFICES ASSUME scan # None, NEW j \in 1 .. Len(scan.name)
             PROVE  /\ (scan.vpn - Len(scan.name) + j - 1) \in CurrentPages'
                    /\ scan.name[j] =
                         Contents(Page(scan.vpn - Len(scan.name) + j - 1).db)'
  BY DEF NameInv, CurrentPages, Page
<1>x. PICK x : x = scan.vpn - Len(scan.name) + j - 1
  OBVIOUS
<1>1. x \in CurrentPages /\ scan.name[j] = Contents(Page(x).db)
  BY <1>x DEF NameInv
<1>2. dispatched # None
  BY DEF Inv, CallInv
<1>p. PICK p \in Pids : p = current_pid
  BY <1>2, RunningProcess
<1>b. PICK b \in Blocks : b = Page(x).db
  BY <1>1, <1>2, PageBlock
<1>3. InUse(b)
  BY <1>1, <1>2, <1>b, PageBlock
<1>4. x \in DOMAIN process_map[p] /\ process_map[p][x].db = b
  BY <1>1, <1>p, <1>b DEF CurrentPages, Page
<1>5. x \in DOMAIN process_map'[p] /\ process_map'[p][x].db = b
      /\ Contents(b)' = Contents(b)
  BY <1>3, <1>4 DEF Invisible, SameArena, SameContents
<1>6. current_pid' = p /\ scan' = scan
  BY <1>p DEF cpuVars
<1>7. x \in CurrentPages'
  BY <1>5, <1>6 DEF CurrentPages
<1>8. process_map'[current_pid'][x].db = b
  BY <1>5, <1>6
<1>9. Contents(process_map[current_pid][x].db)' = Contents(b)
  BY <1>5, <1>8 DEF Contents, StatusOf
<1> QED BY <1>x, <1>1, <1>b, <1>6, <1>7, <1>9 DEF Page

\* The name up to the page read now is what its pages hold.
LEMMA NextName ==
  ASSUME Inv, NameInv, memory_pages <= UintPages, NEW v \in Values, ScanReads(v),
         NEW j \in 1 .. Len(scan.name) + 1,
         NEW x, x = scan.vpn - Len(scan.name) + j - 1
  PROVE  x \in CurrentPages /\ Append(scan.name, v)[j] = Contents(Page(x).db)
<1>1. /\ scan # None
      /\ scan \in [vpn : 1 .. ArenaPages + 1, name : Seq(Unterminated),
                   block : FileBlocks]
      /\ scan.name \in Seq(Values)
  BY ScanState DEF ScanReads, Scanning
<1>q. PICK q \in Seq(Values) : q = scan.name
  BY <1>1
<1>n. PICK n \in Nat : n = scan.vpn
  BY <1>1
<1>k. PICK k \in Nat : k = Len(q)
  OBVIOUS
<1>2. j \in 1 .. k + 1 /\ x = n - k + j - 1
  BY <1>q, <1>n, <1>k
<1>3. /\ Append(q, v)[k + 1] = v
      /\ \A i \in 1 .. k : Append(q, v)[i] = q[i]
  BY <1>k
<1>4. n \in CurrentPages /\ v = Contents(Page(n).db)
  BY <1>n, ReadContents
<1>5. \A i \in 1 .. k : /\ n - k + i - 1 \in CurrentPages
                        /\ q[i] = Contents(Page(n - k + i - 1).db)
  BY <1>1, <1>q, <1>n, <1>k DEF NameInv
<1>6. CASE j = k + 1
  <2>1. x = n
    BY <1>2, <1>6
  <2>2. Append(q, v)[j] = v
    BY <1>3, <1>6
  <2> QED BY <1>4, <1>q, <2>1, <2>2
<1>7. CASE j \in 1 .. k
  <2>1. Append(q, v)[j] = q[j]
    BY <1>3, <1>7
  <2>2. x \in CurrentPages /\ q[j] = Contents(Page(x).db)
    BY <1>2, <1>5, <1>7
  <2> QED BY <1>q, <2>1, <2>2
<1>8. j = k + 1 \/ j \in 1 .. k
  BY <1>2
<1> QED BY <1>6, <1>7, <1>8

\* A page without a '\0' is one more page of the name.
LEMMA NameGrows ==
  ASSUME Inv, NameInv, memory_pages <= UintPages, scan_page
  PROVE  NameInv'
<1>1. PICK v \in Unterminated :
        ScanReads(v) /\ scan' = [scan EXCEPT !.vpn = @ + 1, !.name = Append(@, v)]
  BY DEF scan_page
<1>2. v \in Values /\ Scanning
  BY <1>1, ReadValue
<1>q. PICK q \in Seq(Unterminated) : q = scan.name
  BY <1>2, ScanState
<1>n. PICK n \in Nat : n = scan.vpn
  BY <1>2, ScanState
<1>3. /\ scan'.name = Append(q, v)
      /\ scan'.vpn = n + 1
  <2>1. scan \in [vpn : 1 .. ArenaPages + 1, name : Seq(Unterminated),
                  block : FileBlocks]
    BY <1>2, ScanState
  <2> QED BY <1>1, <1>q, <1>n, <2>1
<1>k. PICK k \in Nat : k = Len(q)
  OBVIOUS
<1>4. Len(Append(q, v)) = k + 1
  BY <1>k
<1>7. /\ CurrentPages' = CurrentPages
      /\ \A x : Contents(Page(x).db)' = Contents(Page(x).db)
  BY DEF scan_page, CurrentPages, Page, cpuVars, tableVars, diskVars, Contents, StatusOf
<1>8. ASSUME NEW j \in 1 .. k + 1
      PROVE  \E x : /\ x = (n + 1) - (k + 1) + j - 1
                    /\ x \in CurrentPages /\ Append(q, v)[j] = Contents(Page(x).db)
  <2>x. PICK x \in Int : x = n - k + j - 1
    OBVIOUS
  <2>1. j \in 1 .. Len(scan.name) + 1 /\ x = scan.vpn - Len(scan.name) + j - 1
    BY <1>q, <1>n, <1>k, <2>x
  <2>2. x \in CurrentPages /\ Append(scan.name, v)[j] = Contents(Page(x).db)
    BY <1>1, <1>2, <2>1, NextName
  <2>3. x = (n + 1) - (k + 1) + j - 1
    BY <2>x
  <2> QED BY <1>q, <2>2, <2>3
<1>9. \A j \in 1 .. Len(scan'.name) :
        \E x : /\ x = scan'.vpn - Len(scan'.name) + j - 1
               /\ x \in CurrentPages /\ scan'.name[j] = Contents(Page(x).db)
  BY <1>3, <1>4, <1>8
<1> QED
  <2> SUFFICES ASSUME NEW j \in 1 .. Len(scan'.name)
               PROVE  /\ scan'.vpn - Len(scan'.name) + j - 1 \in CurrentPages'
                      /\ scan'.name[j] =
                           Contents(Page(scan.vpn - Len(scan.name) + j - 1).db)'
    BY DEF NameInv
  <2>x. PICK x : /\ x = scan'.vpn - Len(scan'.name) + j - 1
                 /\ x \in CurrentPages /\ scan'.name[j] = Contents(Page(x).db)
    BY <1>9
  <2>2. Contents(Page(scan.vpn - Len(scan.name) + j - 1).db)' = Contents(Page(x).db)'
    BY <2>x DEF Contents, Page, StatusOf
  <2> QED BY <1>7, <2>x, <2>2

\* A name starts empty, and every other step keeps it or drops it.
LEMMA NameInvNext ==
  ASSUME Inv, NameInv, memory_pages <= UintPages, [Next]_vars
  PROVE  NameInv'
<1>n. scan' = None => NameInv'
  BY DEF NameInv
<1>i. Idle /\ UNCHANGED scan => NameInv'
  BY <1>n DEF Idle
<1>1. CASE UNCHANGED vars
  <2>1. Invisible /\ UNCHANGED cpuVars /\ UNCHANGED scan
    BY <1>1, QuietInvisible DEF vars, tableVars, diskVars
  <2> QED BY <2>1, NameKept
<1>2. CASE take_free_page \/ clock_empty
  <2>1. Invisible /\ UNCHANGED cpuVars /\ UNCHANGED scan
    BY <1>2, QuietInvisible DEF take_free_page, clock_empty, tableVars, diskVars
  <2> QED BY <2>1, NameKept
<1>3. CASE clock_pass
  <2>1. UNCHANGED cpuVars /\ UNCHANGED scan
    BY <1>3 DEF clock_pass
  <2> QED BY <1>3, <2>1, PassInvisible, NameKept
<1>4. CASE clock_evict
  <2>1. UNCHANGED cpuVars /\ UNCHANGED scan
    BY <1>4 DEF clock_evict
  <2> QED BY <1>4, <2>1, EvictInvisible, NameKept
<1>5. CASE clock_write_fails \/ fill_read_fails \/ scan_fails \/ scan_done
  BY <1>5, <1>n DEF clock_write_fails, fill_read_fails, return_failure, scan_fails,
    scan_done
<1>6. CASE fill_zero
  <2>1. UNCHANGED cpuVars /\ UNCHANGED scan
    BY <1>6 DEF fill_zero
  <2> QED BY <1>6, <2>1, FillZeroInvisible, NameKept
<1>7. CASE fill_read
  <2>1. UNCHANGED cpuVars /\ UNCHANGED scan
    BY <1>7 DEF fill_read
  <2> QED BY <1>7, <2>1, FillReadInvisible, NameKept
<1>8. CASE scan_fault
  <2>1. UNCHANGED cpuVars /\ UNCHANGED scan
    BY <1>8 DEF scan_fault
  <2> QED BY <1>8, <2>1, ScanFaultInvisible, NameKept
<1>9. CASE scan_page
  BY <1>9, NameGrows
<1>10. CASE \E p \in Pids : vm_switch(p) \/ \E q \in Pids \cup {None} : vm_create(q, p)
  BY <1>10, <1>i DEF vm_switch, vm_create
<1>11. CASE vm_destroy \/ vm_map_swap
  BY <1>11, <1>i DEF vm_destroy, vm_map_swap, Running
<1>12. ASSUME NEW i \in 1 .. ArenaPages, NEW v \in Values, app_store(i, v)
       PROVE  NameInv'
  BY <1>12, <1>i DEF app_store, Running
<1>13. ASSUME NEW i \in 1 .. ArenaPages, NEW w \in BOOLEAN, vm_fault(i, w)
       PROVE  NameInv'
  BY <1>13, <1>i DEF vm_fault, Running
<1>14. ASSUME NEW i \in 1 .. ArenaPages, NEW b \in FileBlocks, vm_map_file(i, b)
       PROVE  NameInv'
  <2>1. scan'.name = <<>>
    BY <1>14 DEF vm_map_file
  <2> QED BY <2>1 DEF NameInv
<1>15. CASE stopped
  BY <1>1, <1>15 DEF stopped
<1> QED
  BY <1>1, <1>2, <1>3, <1>4, <1>5, <1>6, <1>7, <1>8, <1>9, <1>10, <1>11, <1>12,
     <1>13, <1>14, <1>15 DEF Next, continue

\* Filenames are read from the physical pages of their virtual pages.
LEMMA NameInvariance ==
  ASSUME memory_pages <= UintPages
  PROVE  Spec => []NameInv
<1>1. Init => NameInv
  BY DEF Init, NameInv
<1>2. Inv /\ NameInv /\ [Next]_vars => NameInv'
  BY NameInvNext
<1> QED BY <1>1, <1>2, Invariance, PTL DEF Spec

\* What Find_filename reads from a page is what the process last stored there,
\* while the page is being paged in and out.
THEOREM PagerNamesReadFromTheirPages ==
  ASSUME memory_pages <= UintPages
  PROVE  Spec => []NamesReadFromTheirPages
<1>1. Inv => NamesReadFromTheirPages
  BY ReadContents DEF NamesReadFromTheirPages
<1> QED BY <1>1, Invariance, PTL

-----------------------------------------------------------------------------
(* The visible steps.                                                        *)

\* A page is added to the arena of the current process.
LEMMA ArenaGrows ==
  ASSUME Inv, dispatched # None, NEW b \in Blocks,
         process_map' \in [Pids -> Seq(Entries)],
         \A p \in Pids : p # current_pid => Len(process_map'[p]) = Len(process_map[p]),
         Len(process_map'[current_pid]) = Len(process_map[current_pid]) + 1,
         \A p \in Pids : \A i, c :
           Maps(p, i, c)' <=>
             \/ Maps(p, i, c)
             \/ /\ p = current_pid /\ c = b
                /\ i = Len(process_map[current_pid]) + 1
  PROVE  AbsArena' = [AbsArena EXCEPT ![current_pid] = Append(@, b)]
<1>p. PICK p \in Pids : p = current_pid
  BY RunningProcess
<1>0. process_map \in [Pids -> Seq(Entries)]
  BY DEF Inv, TypeOK
<1>n. PICK n \in Nat : n = Len(process_map[p])
  BY <1>0
<1> DEFINE A(o) == [i \in DOMAIN process_map[o] |-> process_map[o][i].db]
           B(o) == [i \in DOMAIN process_map'[o] |-> process_map'[o][i].db]
<1>1. ASSUME NEW o \in Pids, NEW i \in DOMAIN process_map[o]
      PROVE  i \in DOMAIN process_map'[o] /\ process_map'[o][i].db = process_map[o][i].db
  <2>1. PICK c : c = process_map[o][i].db
    OBVIOUS
  <2>2. Maps(o, i, c)
    BY <1>1, <2>1 DEF Maps
  <2>3. Maps(o, i, c)'
    BY <2>2
  <2> QED BY <2>1, <2>3 DEF Maps
<1>2. ASSUME NEW o \in Pids, o # p PROVE B(o) = A(o)
  <2>1. DOMAIN process_map'[o] = DOMAIN process_map[o]
    BY <1>0, <1>p, <1>2
  <2> QED BY <1>1, <2>1
<1>3. B(p) = Append(A(p), b)
  <2>1. DOMAIN process_map[p] = 1 .. n /\ DOMAIN process_map'[p] = 1 .. n + 1
    BY <1>0, <1>p, <1>n
  <2>2. process_map'[p][n + 1].db = b
    <3>1. Maps(p, n + 1, b)'
      BY <1>p, <1>n
    <3> QED BY <3>1 DEF Maps
  <2>3. A(p) \in Seq(Blocks) /\ Len(A(p)) = n
    <3>1. \A i \in 1 .. n : process_map[p][i].db \in Blocks
      <4>1. \A i \in 1 .. n : process_map[p][i] \in Entries
        BY <1>0, <2>1
      <4> QED BY <4>1 DEF Entries
    <3> QED BY <2>1, <3>1
  <2>a. PICK a \in Seq(Blocks) : a = A(p)
    BY <2>3
  <2>y. Append(a, b) \in Seq(Blocks)
    OBVIOUS
  <2>z. PICK z \in Seq(Blocks) : z = Append(a, b)
    BY <2>y
  <2>4. /\ Len(z) = n + 1
        /\ z[n + 1] = b
        /\ \A i \in 1 .. n : z[i] = a[i]
    <3>1. Len(a) = n
      BY <2>3, <2>a
    <3> HIDE DEF A
    <3> QED BY <3>1, <2>z
  <2>5. \A i \in 1 .. n + 1 : B(p)[i] = z[i]
    <3> SUFFICES ASSUME NEW i \in 1 .. n + 1 PROVE B(p)[i] = z[i]
      OBVIOUS
    <3>1. CASE i = n + 1
      BY <2>1, <2>2, <2>4, <3>1
    <3>2. CASE i \in 1 .. n
      BY <1>1, <2>a, <2>1, <2>4, <3>2
    <3>3. i = n + 1 \/ i \in 1 .. n
      OBVIOUS
    <3> QED BY <3>1, <3>2, <3>3
  <2>6. B(p) = [i \in 1 .. n + 1 |-> B(p)[i]]
    BY <2>1
  <2>7. z = [i \in 1 .. n + 1 |-> z[i]]
    BY <2>4
  <2> HIDE DEF A, B
  <2> QED BY <2>a, <2>z, <2>5, <2>6, <2>7
<1>4. AbsArena = [o \in Pids |-> A(o)]
  BY DEF AbsArena
<1>5. AbsArena' = [o \in Pids |-> B(o)]
  BY DEF AbsArena
<1> HIDE DEF A, B
<1> QED BY <1>p, <1>2, <1>3, <1>4, <1>5

\* A store changes the contents of one block.
LEMMA StoreVisible ==
  ASSUME Inv, NEW i \in 1 .. ArenaPages, NEW v \in Values, app_store(i, v)
  PROVE  Abstract!Next
<1>1. dispatched # None /\ i \in CurrentPages
  BY DEF app_store, Running
<1>p. PICK p \in Pids : p = current_pid
  BY <1>1, RunningProcess
<1>b. PICK b \in Blocks : b = Page(i).db
  BY <1>1, PageBlock
<1>s. PICK s \in Statuses : s = StatusOf(b)
  BY StatusType DEF Inv
<1>f. PICK f \in 0 .. memory_pages - 1 : f = s.ppage
  BY DEF Statuses
<1>2. InUse(b) /\ Page(i).status = s /\ BitsInv(b)
  BY <1>1, <1>b, <1>s, PageBlock
<1>3. s.resident /\ f # 0
  BY <1>2, <1>s, <1>f DEF BitsInv, app_store
<1>4. /\ vm_physmem'[f] = v
      /\ \A g \in 0 .. memory_pages - 1 : g # f => vm_physmem'[g] = vm_physmem[g]
      /\ disk' = disk
  BY <1>2, <1>f DEF Inv, TypeOK, app_store, diskVars
<1>5. /\ \A c : StatusOf(c)' = StatusOf(c)
      /\ \A c : InUse(c)' <=> InUse(c)
  BY TablesKept DEF app_store, tableVars
<1>6. Contents(b)' = v
  BY <1>s, <1>f, <1>3, <1>4, <1>5 DEF Contents
<1>7. ASSUME NEW c \in Blocks, c # b, InUse(c) PROVE Contents(c)' = Contents(c)
  <2>1. StatusOf(c) \in Statuses
    BY StatusType DEF Inv
  <2>2. StatusOf(c).resident => StatusOf(c).ppage # f
    BY <1>2, <1>3, <1>s, <1>f, <1>7, OwnFrame DEF Resident, PpageOf
  <2>3. StatusOf(c).resident
          => vm_physmem'[StatusOf(c).ppage] = vm_physmem[StatusOf(c).ppage]
    BY <1>4, <2>1, <2>2 DEF Statuses
  <2> QED BY <1>4, <1>5, <2>3 DEF Contents
<1>8. AbsMemory' = [AbsMemory EXCEPT ![b] = v]
  BY <1>2, <1>5, <1>6, <1>7 DEF AbsMemory
<1>9. AbsArena' = AbsArena
  BY DEF app_store, tableVars, AbsArena
<1>10. i \in DOMAIN AbsArena[p] /\ AbsArena[p][i] = b
  BY <1>1, <1>p, <1>b DEF AbsArena, CurrentPages, Page
<1>11. Abstract!Store(p, i, v)
  BY <1>8, <1>9, <1>10 DEF Abstract!Store, AbsArena, AbsMemory
<1>12. i \in DOMAIN [o \in Pids |->
         [j \in DOMAIN process_map[o] |-> process_map[o][j].db]][p]
  BY <1>10 DEF AbsArena
<1> QED BY <1>11, <1>12 DEF Abstract!Next

\* A swap-backed page is the pinned zero page at first.
LEMMA MapSwapVisible ==
  ASSUME Inv, vm_map_swap
  PROVE  Abstract!Next
<1>0. /\ dispatched # None
      /\ free_swap_blocks # <<>>
      /\ free_swap_blocks \in Seq(0 .. swap_blocks - 1)
      /\ IsInjective(free_swap_blocks)
  BY DEF vm_map_swap, Running, Inv, TypeOK, SwapConserved
<1>p. PICK p \in Pids : p = current_pid
  BY <1>0, RunningProcess
<1>x. PICK x \in 0 .. swap_blocks - 1 : x = Head(free_swap_blocks)
  BY <1>0, PopQueue
<1>b. PICK b \in SwapBlocks : b = [filename |-> <<>>, block |-> x]
  BY DEF SwapBlocks
<1>1. b \in Blocks /\ ~InUse(b)
  <2>1. x \in Range(free_swap_blocks)
    BY <1>0, <1>x, PopQueue
  <2> QED BY <1>b, <2>1 DEF Blocks, Inv, SwapConserved
<1> DEFINE st == State(TRUE, FALSE, TRUE, FALSE, FALSE, 0)
<1>2. st \in NewStates /\ st.ppage # None /\ st.ppage = 0 /\ st.resident = TRUE
  BY PagerAssumption, NoneAssumption DEF NewStates, State
<1>3. map_page(b, st)
  BY <1>b, <1>x DEF vm_map_swap
<1>s. PICK s \in Statuses : s = StatusOf(b)
  BY <1>1, StatusType DEF Inv
<1>4. /\ process_map' \in [Pids -> Seq(Entries)]
      /\ \A o \in Pids : o # current_pid => Len(process_map'[o]) = Len(process_map[o])
      /\ Len(process_map'[current_pid]) = Len(process_map[current_pid]) + 1
      /\ Len(process_map'[current_pid]) \in 1 .. ArenaPages
      /\ \A o \in Pids : \A i, c :
           Maps(o, i, c)' <=>
             \/ Maps(o, i, c)
             \/ o = current_pid /\ c = b /\ i = Len(process_map[current_pid]) + 1
      /\ StatusOf(b)' = Set_state(s, st)
      /\ \A c \in Blocks : c # b => StatusOf(c)' = StatusOf(c)
  <2> HIDE DEF st
  <2> QED BY <1>p, <1>1, <1>2, <1>3, <1>s, MapPage DEF Inv
<1>5. /\ Set_state(s, st).ppage = 0 /\ Set_state(s, st).resident = TRUE
  <2> HIDE DEF st
  <2> QED BY <1>2, SetState
<1>6. vm_physmem' = vm_physmem /\ disk' = disk /\ vm_physmem[0] = Zero
  BY DEF vm_map_swap, diskVars, Inv
<1>7. /\ InUse(b)'
      /\ \A c : c # b => (InUse(c)' <=> InUse(c))
  <2>1. Len(process_map[current_pid]) + 1 \in 1 .. ArenaPages
    BY <1>4
  <2>2. \E o \in Pids : \E i \in 1 .. ArenaPages : Maps(o, i, b)'
    BY <1>p, <1>4, <2>1
  <2>3. ASSUME NEW c, c # b PROVE InUse(c)' <=> InUse(c)
    BY <1>4, <2>3 DEF InUse
  <2> HIDE DEF Maps
  <2> QED BY <2>2, <2>3 DEF InUse
<1>8. Contents(b)' = Zero
  BY <1>4, <1>5, <1>6 DEF Contents
<1>9. \A c \in Blocks : c # b => Contents(c)' = Contents(c)
  BY <1>4, <1>6 DEF Contents
<1>10. AbsMemory' = [AbsMemory EXCEPT ![b] = Zero] /\ AbsMemory[b] = None
  BY <1>1, <1>7, <1>8, <1>9 DEF AbsMemory
<1>11. AbsArena' = [AbsArena EXCEPT ![p] = Append(@, b)]
  BY <1>0, <1>p, <1>1, <1>4, ArenaGrows
<1>12. Len(AbsArena[p]) < ArenaPages
  <2>1. process_map[p] \in Seq(Entries) /\ Len(process_map[p]) < ArenaPages
    <3>1. process_map[p] \in Seq(Entries)
      BY DEF Inv, TypeOK
    <3>n. PICK n \in Nat : n = Len(process_map[p])
      BY <3>1
    <3>2. n + 1 \in 1 .. ArenaPages
      BY <1>p, <1>4, <3>n
    <3>3. n < ArenaPages
      BY <3>2, PagerAssumption
    <3> QED BY <3>1, <3>n, <3>3
  <2>2. AbsArena[p] = [i \in 1 .. Len(process_map[p]) |-> process_map[p][i].db]
    BY <2>1 DEF AbsArena
  <2>3. Len(AbsArena[p]) = Len(process_map[p])
    BY <2>1, <2>2
  <2> QED BY <2>1, <2>3
<1>13. Abstract!MapPrivate(p, b)
  BY <1>10, <1>11, <1>12 DEF Abstract!MapPrivate, AbsArena, AbsMemory
<1> QED BY <1>13 DEF Abstract!Next

\* The name of a mapped file is what is stored in the pages it was read from.
LEMMA ScanDoneVisible ==
  ASSUME Inv, NameInv, memory_pages <= UintPages, scan_done
  PROVE  Abstract!Next
<1>1. PICK v \in Values \ Unterminated :
        LET b == [filename |-> Append(scan.name, v), block |-> scan.block]
        IN  /\ ScanReads(v)
            /\ map_page(b, IF block_status_map[b] # None
                           THEN block_status_map[b]
                           ELSE State(FALSE, FALSE, FALSE, FALSE, FALSE, None))
  BY DEF scan_done
<1>2. /\ dispatched # None /\ scan # None
      /\ scan \in [vpn : 1 .. ArenaPages + 1, name : Seq(Unterminated),
                   block : FileBlocks]
      /\ Len(process_map[current_pid]) < ArenaPages
      /\ scan.vpn \in CurrentPages /\ v = Contents(Page(scan.vpn).db)
  BY <1>1, ScanState, ReadContents DEF ScanReads, Scanning
<1>p. PICK p \in Pids : p = current_pid
  BY <1>2, RunningProcess
<1>q. PICK q \in Seq(Unterminated) : q = scan.name
  BY <1>2
<1>n. PICK n \in Nat : n = scan.vpn
  BY <1>2
<1>k. PICK k \in Nat : k = Len(q)
  OBVIOUS
<1>b. PICK b \in Blocks \ SwapBlocks :
        b = [filename |-> Append(q, v), block |-> scan.block]
  BY <1>1, <1>q, ScanName
<1>t. PICK st : st = IF block_status_map[b] # None
                     THEN block_status_map[b]
                     ELSE State(FALSE, FALSE, FALSE, FALSE, FALSE, None)
  OBVIOUS
<1>3. map_page(b, st)
  BY <1>1, <1>q, <1>b, <1>t
<1>4. /\ process_map' \in [Pids -> Seq(Entries)]
      /\ \A o \in Pids : o # current_pid => Len(process_map'[o]) = Len(process_map[o])
      /\ Len(process_map'[current_pid]) = Len(process_map[current_pid]) + 1
      /\ \A o \in Pids : \A i, c :
           Maps(o, i, c)' <=>
             \/ Maps(o, i, c)
             \/ o = current_pid /\ c = b /\ i = Len(process_map[current_pid]) + 1
      /\ \A c \in Blocks : StatusOf(c)' = StatusOf(c)
      /\ \A c : InUse(c)' <=> InUse(c)
  BY <1>2, <1>t, <1>3, MapFileBlock
<1>5. vm_physmem' = vm_physmem /\ disk' = disk
  BY DEF scan_done, diskVars
<1>6. \A c \in Blocks : Contents(c)' = Contents(c)
  BY <1>4, <1>5 DEF Contents
<1>7. AbsMemory' = AbsMemory
  BY <1>4, <1>6 DEF AbsMemory
<1>8. AbsArena' = [AbsArena EXCEPT ![p] = Append(@, b)]
  BY <1>2, <1>p, <1>4, ArenaGrows
<1>m. PICK m \in Nat : m = Len(process_map[p])
  BY <1>2, <1>p, RunningProcess
<1>9. /\ CurrentPages = 1 .. m /\ m < ArenaPages
      /\ n \in 1 .. m /\ k < n
  <2>1. CurrentPages = 1 .. m /\ m < ArenaPages
    BY <1>2, <1>p, <1>m, RunningProcess
  <2>2. Len(scan.name) < scan.vpn
    BY <1>1, ScanState DEF ScanReads
  <2> QED BY <1>2, <1>q, <1>n, <1>k, <2>1, <2>2
<1>10. /\ DOMAIN AbsArena[p] = 1 .. m
       /\ Len(AbsArena[p]) = m
       /\ \A x \in 1 .. m : AbsArena[p][x] = Page(x).db
  <2>1. AbsArena[p] = [x \in 1 .. m |-> Page(x).db]
    BY <1>p, <1>9 DEF AbsArena, Page, CurrentPages
  <2> QED BY <2>1
<1>11. ASSUME NEW x \in 1 .. m PROVE AbsMemory[AbsArena[p][x]] = Contents(Page(x).db)
  <2>c. PICK c \in Blocks : c = Page(x).db
    BY <1>2, <1>9, PageBlock
  <2>1. InUse(c)
    BY <1>2, <1>9, <2>c, PageBlock
  <2> QED BY <1>10, <2>c, <2>1 DEF AbsMemory
<1>12. b.filename = [j \in 1 .. k + 1 |-> AbsMemory[AbsArena[p][(n - k) + j - 1]]]
  <2>1. q \in Seq(Values) /\ v \in Values
    BY <1>1, <1>2, <1>q, ScanState DEF ScanReads
  <2>y. Append(q, v) \in Seq(Values)
    BY <2>1
  <2>z. PICK z \in Seq(Values) : z = Append(q, v)
    BY <2>y
  <2>2. Len(z) = k + 1
    BY <1>k, <2>1, <2>z
  <2>3. ASSUME NEW j \in 1 .. k + 1
        PROVE  z[j] = AbsMemory[AbsArena[p][(n - k) + j - 1]]
    <3>x. PICK x \in Int : x = n - k + j - 1
      OBVIOUS
    <3>1. j \in 1 .. Len(scan.name) + 1 /\ x = scan.vpn - Len(scan.name) + j - 1
      BY <1>q, <1>n, <1>k, <3>x
    <3>2. ScanReads(v)
      BY <1>1
    <3>3. x \in CurrentPages /\ Append(scan.name, v)[j] = Contents(Page(x).db)
      BY <2>1, <3>1, <3>2, NextName
    <3>4. AbsMemory[AbsArena[p][x]] = z[j]
      BY <1>q, <1>9, <1>11, <2>z, <3>3
    <3> QED BY <3>x, <3>4
  <2>4. z = [j \in 1 .. k + 1 |-> z[j]]
    BY <2>2
  <2> QED BY <1>b, <2>z, <2>3, <2>4
<1>13. /\ n - k \in 1 .. m
       /\ k + 1 \in 1 .. ArenaPages
       /\ (n - k) + (k + 1) - 1 <= m
  BY <1>9, PagerAssumption
<1>14. Abstract!MapFile(p, n - k, k + 1, b)
  BY <1>7, <1>8, <1>9, <1>10, <1>12, <1>13 DEF Abstract!MapFile, AbsArena, AbsMemory
<1>15. n - k \in DOMAIN [o \in Pids |->
         [j \in DOMAIN process_map[o] |-> process_map[o][j].db]][p]
  BY <1>10, <1>13 DEF AbsArena
<1> QED BY <1>13, <1>14, <1>15 DEF Abstract!Next

\* A process that exits leaves the files, and its private pages become free.
LEMMA DestroyVisible ==
  ASSUME Inv, vm_destroy
  PROVE  Abstract!Next
<1>0. dispatched # None /\ current_pid \in Pids
  BY RunningProcess DEF vm_destroy, Running
<1>p. PICK p \in Pids : p = current_pid
  BY <1>0
<1>1. /\ process_map' = [process_map EXCEPT ![p] = <<>>]
      /\ process_map \in [Pids -> Seq(Entries)]
      /\ UNCHANGED <<block_status_map, vm_physmem, disk>>
  BY <1>p DEF vm_destroy, diskVars, Inv, TypeOK
<1>2. /\ process_map'[p] = <<>>
      /\ \A o \in Pids : o # p => process_map'[o] = process_map[o]
  BY <1>1
<1>3. \A o \in Pids : \A i, c : Maps(o, i, c)' <=> o # p /\ Maps(o, i, c)
  BY <1>2 DEF Maps
<1>4. \A c : Contents(c)' = Contents(c)
  BY <1>1 DEF Contents, StatusOf
<1>5. AbsArena' = [AbsArena EXCEPT ![p] = <<>>]
  <2>1. [i \in DOMAIN <<>> |-> <<>>[i].db] = <<>>
    OBVIOUS
  <2> QED BY <1>2, <2>1 DEF AbsArena
<1>6. \A c : (\E i \in DOMAIN AbsArena[p] : AbsArena[p][i] = c)
             <=> \E i \in 1 .. ArenaPages : Maps(p, i, c)
  <2>1. DOMAIN process_map[p] \subseteq 1 .. ArenaPages
    <3>0. dispatched # None
      BY DEF vm_destroy, Running
    <3>1. CurrentPages \subseteq 1 .. ArenaPages
      <4>1. PICK n \in 0 .. ArenaPages : n = Len(process_map[current_pid])
        BY <3>0, RunningProcess
      <4>2. CurrentPages = 1 .. n
        BY <3>0, <4>1, RunningProcess
      <4> QED BY <4>2, PagerAssumption
    <3> QED BY <1>p, <3>1 DEF CurrentPages
  <2>2. /\ DOMAIN AbsArena[p] = DOMAIN process_map[p]
        /\ \A i \in DOMAIN process_map[p] : AbsArena[p][i] = process_map[p][i].db
    BY DEF AbsArena
  <2> QED BY <2>1, <2>2 DEF Maps
<1>7. ASSUME NEW c \in Blocks
      PROVE  AbsMemory'[c] =
               IF c \in SwapBlocks /\ \E i \in DOMAIN AbsArena[p] : AbsArena[p][i] = c
               THEN None ELSE AbsMemory[c]
  <2>1. CASE c \in SwapBlocks
    <3>1. \A o, q \in Pids : \A i, j \in 1 .. ArenaPages :
            Maps(o, i, c) /\ Maps(q, j, c) => o = q /\ i = j
      BY <2>1 DEF Inv, SwapConserved
    <3>2. InUse(c) <=> \E o \in Pids : \E i \in 1 .. ArenaPages : Maps(o, i, c)
      BY <2>1 DEF InUse
    <3>3. InUse(c)' <=> \E o \in Pids : \E i \in 1 .. ArenaPages : Maps(o, i, c)'
      BY <2>1 DEF InUse
    <3>4. InUse(c)' <=> InUse(c) /\ ~\E i \in 1 .. ArenaPages : Maps(p, i, c)
      BY <1>3, <3>1, <3>2, <3>3
    <3> QED BY <1>4, <1>6, <2>1, <3>4 DEF AbsMemory
  <2>2. CASE c \notin SwapBlocks
    <3>1. InUse(c)' /\ InUse(c)
      BY <2>2 DEF InUse
    <3> QED BY <1>4, <2>2, <3>1 DEF AbsMemory
  <2> QED BY <2>1, <2>2
<1>8. AbsMemory' = [c \in Blocks |->
        IF c \in SwapBlocks /\ \E i \in DOMAIN AbsArena[p] : AbsArena[p][i] = c
        THEN None ELSE AbsMemory[c]]
  <2>1. AbsMemory' = [c \in Blocks |-> AbsMemory'[c]]
    BY DEF AbsMemory
  <2> HIDE DEF AbsMemory
  <2> QED BY <1>7, <2>1
<1>9. Abstract!Exit(p)
  BY <1>5, <1>8 DEF Abstract!Exit, AbsArena, AbsMemory
<1> QED BY <1>9 DEF Abstract!Next

-----------------------------------------------------------------------------
(* The refinement.                                                           *)

\* No process has pages at first.
LEMMA InitVisible ==
  ASSUME Init
  PROVE  Abstract!Init
<1>1. AbsArena = [p \in Pids |-> <<>>]
  <2>1. [i \in DOMAIN <<>> |-> <<>>[i].db] = <<>>
    OBVIOUS
  <2> QED BY <2>1 DEF AbsArena, Init
<1>2. \A b \in Blocks : InUse(b) <=> b \notin SwapBlocks
  BY DEF InUse, Maps, Init
<1>3. ASSUME NEW b \in Blocks PROVE Contents(b) \in Values
  BY InitInv, ContentsType DEF Inv
<1>4. /\ AbsMemory \in [Blocks -> Values \cup {None}]
      /\ \A b \in Blocks : AbsMemory[b] = None <=> b \in SwapBlocks
  BY <1>2, <1>3, NoneAssumption DEF AbsMemory
<1> QED BY <1>1, <1>4 DEF Abstract!Init, AbsArena, AbsMemory

\* Every step of the pager is a step of the shared memory, or invisible.
LEMMA StepRefines ==
  ASSUME Inv, NameInv, memory_pages <= UintPages, [Next]_vars
  PROVE  [Abstract!Next]_(Abstract!vars)
<1>i. Invisible => [Abstract!Next]_(Abstract!vars)
  BY InvisibleStep DEF Abstract!vars, AbsArena, AbsMemory
<1>1. CASE UNCHANGED vars
  BY <1>1, <1>i, QuietInvisible DEF vars, tableVars, diskVars
<1>2. CASE take_free_page \/ clock_write_fails \/ clock_empty \/ fill_read_fails
           \/ scan_fails \/ scan_page
  <2>1. UNCHANGED <<process_map, share_map, block_status_map, vm_physmem, disk>>
    BY <1>2 DEF take_free_page, clock_write_fails, clock_empty, fill_read_fails,
      scan_fails, scan_page, tableVars, diskVars
  <2> QED BY <1>i, <2>1, QuietInvisible
<1>3. CASE clock_pass \/ clock_evict \/ fill_zero \/ fill_read \/ scan_fault
  BY <1>3, <1>i, PassInvisible, EvictInvisible, FillZeroInvisible, FillReadInvisible,
     ScanFaultInvisible
<1>4. CASE scan_done
  BY <1>4, ScanDoneVisible
<1>5. ASSUME NEW p \in Pids, vm_switch(p)
      PROVE  [Abstract!Next]_(Abstract!vars)
  BY <1>5, <1>i, QuietInvisible DEF vm_switch, tableVars, diskVars
<1>6. ASSUME NEW p \in Pids, NEW q \in Pids \cup {None}, vm_create(q, p)
      PROVE  [Abstract!Next]_(Abstract!vars)
  <2>1. process_map' = process_map
    <3>1. process_map[p] = <<>> /\ process_map \in [Pids -> Seq(Entries)]
      BY <1>6 DEF Inv, ArenaInv, TypeOK, vm_create
    <3> QED BY <1>6, <3>1 DEF vm_create
  <2> QED BY <1>6, <1>i, <2>1, QuietInvisible DEF vm_create, diskVars
<1>7. CASE vm_destroy \/ vm_map_swap
  BY <1>7, DestroyVisible, MapSwapVisible
<1>8. ASSUME NEW i \in 1 .. ArenaPages, NEW v \in Values, app_store(i, v)
      PROVE  [Abstract!Next]_(Abstract!vars)
  BY <1>8, StoreVisible
<1>9. ASSUME NEW i \in 1 .. ArenaPages, NEW w \in BOOLEAN, vm_fault(i, w)
      PROVE  [Abstract!Next]_(Abstract!vars)
  BY <1>9, <1>i, FaultInvisible
<1>10. ASSUME NEW i \in 1 .. ArenaPages, NEW b \in FileBlocks, vm_map_file(i, b)
       PROVE  [Abstract!Next]_(Abstract!vars)
  BY <1>10, <1>i, QuietInvisible DEF vm_map_file, tableVars, diskVars
<1>11. CASE stopped
  BY <1>1, <1>11 DEF stopped
<1> QED
  BY <1>1, <1>2, <1>3, <1>4, <1>5, <1>6, <1>7, <1>8, <1>9, <1>10, <1>11
  DEF Next, continue

\* Demand paging is invisible: processes see private and shared pages that only
\* stores change, however the clock moves them and whatever I/O fails.
THEOREM PagerImplementsSharedMemory ==
  ASSUME memory_pages <= UintPages
  PROVE  Spec => ImplementsSharedMemory
<1>1. Init => Abstract!Init
  BY InitVisible
<1>2. Inv /\ NameInv /\ [Next]_vars => [Abstract!Next]_(Abstract!vars)
  BY StepRefines
<1> QED
  BY <1>1, <1>2, Invariance, NameInvariance, PTL
  DEF Spec, ImplementsSharedMemory, Abstract!Spec
=============================================================================
