--------------------------- MODULE ThreadLibProofs ---------------------------
(***************************************************************************)
(* Proofs of the safety properties of ThreadLib, for any number of         *)
(* threads, mutexes and condition variables.                               *)
(*                                                                         *)
(* The properties are about queues and flags; why they hold is in the      *)
(* resume points: a thread in a queue is at the resume point of the call   *)
(* that put it there.  Inv adds this to them, in named parts.              *)
(***************************************************************************)
EXTENDS ThreadLib, QueueLemmas

\* A thread that has been created and has not finished, by its resume point.
Unfinished(t) == pc[t] \notin {"none", "done"}

\* Indices are handed out in order, and the flags agree with the resume points.
BookInv ==
  /\ \A t \in Threads : /\ pc[t] = "none" <=> ~(t < thread_index_generator)
                        /\ pos_map[t] <=> pc[t] = "done"
  /\ \A t \in impl_ptr : pc[t] # "none"
  /\ first_thread <=> thread_index_generator = 0
  /\ first_thread <=> current_index = NoThread
  /\ first_thread => ~suspended

\* What the CPU executes: an unfinished thread, or the last one after its end;
\* and only the running thread is in user code.
CpuInv ==
  /\ \A t \in Threads :
       /\ pc[t] = "user" => t = current_index
       /\ t = current_index => pc[t] # "none"
       /\ t = current_index /\ pc[t] = "done" => suspended
       /\ t = current_index /\ suspended => pc[t] \in {"user", "relock", "done"}
  /\ suspended => ready_queue = <<>>

\* A thread in a queue is at the resume point of the call that put it there.
TagInv ==
  \A t \in Threads :
    /\ t \in Range(ready_queue)
         => pc[t] \in {"start", "ret", "joined", "locked", "relock"}
    /\ \A u \in Threads : t \in Range(join_queue[u])
         => pc[t] = "joined" /\ arg[t] = u /\ Unfinished(u)
    /\ \A m \in Mutexes : t \in Range(waiting_queue[m])
         => pc[t] = "locked" /\ arg[t] = m
    /\ \A c \in CVs : t \in Range(cv_queue[c]) => pc[t] = "relock"
    /\ pc[t] = "joined" => arg[t] \in Threads
    /\ pc[t] \in {"locked", "relock"} => arg[t] \in Mutexes

\* The part of QueuesDisjoint that the resume points do not imply.
PlaceInv ==
  \A t \in Threads :
    /\ t \in Range(ready_queue) => ~Blocked(t)
    /\ t = current_index => t \notin Range(ready_queue) /\ ~Blocked(t)
    /\ \A c, d \in CVs :
         t \in Range(cv_queue[c]) /\ t \in Range(cv_queue[d]) => c = d
    /\ Unfinished(t) => t = current_index \/ t \in Range(ready_queue) \/ Blocked(t)

\* The mutex's fields agree, and holder is the thread past lock(), or the one
\* inner_unlock has handed the mutex to and that is on its way out of lock().
FieldsInv(m) ==
  /\ status[m] <=> holder[m] = NoThread
  /\ status[m] => waiting_queue[m] = <<>>

HolderInv(t, m) ==
  /\ m \in owned[t] => holder[m] = t
  /\ pc[t] = "locked" /\ arg[t] = m /\ t \notin Range(waiting_queue[m])
       => holder[m] = t /\ m \notin owned[t]

MutexInv ==
  /\ \A m \in Mutexes : FieldsInv(m)
  /\ \A t \in Threads, m \in Mutexes : HolderInv(t, m)

\* A joiner that left the join queue left it when its target finished.
JoinInv ==
  \A t, u \in Threads :
    pc[t] = "joined" /\ arg[t] = u /\ t \notin Range(join_queue[u]) => pos_map[u]

\* What is still allocated, and for whom.
StackInv ==
  /\ \A t \in Threads :
       /\ Unfinished(t) \/ t = current_index => t \in stack_map /\ t \in index2context
       /\ pc[t] = "done" /\ (t \in stack_map \/ t \in index2context)
            => t = ptr_to_delete
  /\ \A t \in Threads : t = ptr_to_delete => pc[t] = "done"

Inv ==
  /\ TypeOK
  /\ QueuesInjective
  /\ BookInv
  /\ CpuInv
  /\ TagInv
  /\ PlaceInv
  /\ MutexInv
  /\ JoinInv
  /\ StackInv
  /\ InterruptsMatchMode

-----------------------------------------------------------------------------

\* The invariant holds when the program starts, before cpu::init.
LEMMA InitInv == Init => Inv
<1> SUFFICES ASSUME Init PROVE Inv
  OBVIOUS
<1> USE ConstantsAssumption DEF Init, NoThread
<1>1. TypeOK
  BY DEF TypeOK, Threads, ResumePoints
<1>2. QueuesInjective
  BY EmptyQueue DEF QueuesInjective
<1>3. BookInv /\ CpuInv /\ StackInv /\ InterruptsMatchMode
  BY DEF BookInv, CpuInv, StackInv, InterruptsMatchMode, Unfinished, Threads
<1>4. TagInv /\ PlaceInv /\ MutexInv /\ JoinInv
  BY EmptyQueue
  DEF TagInv, PlaceInv, MutexInv, FieldsInv, HolderInv, JoinInv, Unfinished,
      Blocked, Threads
<1> QED BY <1>1, <1>2, <1>3, <1>4 DEF Inv

-----------------------------------------------------------------------------
(* Steps that move no thread between queues.                                 *)

\* Calls that change nothing, and the suspended CPU, preserve the invariant.
LEMMA StutterInv == Inv /\ UNCHANGED vars => Inv'
BY DEF Inv, vars, cpuVars, schedVars, bookVars, newVars, mutexVars, resumeVars,
       TypeOK, QueuesInjective, BookInv, CpuInv, TagInv, PlaceInv, MutexInv,
       JoinInv, StackInv, InterruptsMatchMode, Unfinished, Blocked, FieldsInv,
       HolderInv

\* thread::~thread.
LEMMA DestroyInv ==
  ASSUME Inv, NEW t \in Threads, NEW u \in Threads, thread_destroy(t, u)
  PROVE  Inv'
<1>1. /\ impl_ptr' \subseteq impl_ptr
      /\ UNCHANGED <<interrupts, suspended, ready_queue, current_index,
                     join_queue, pos_map, stack_map, index2context,
                     ptr_to_delete, thread_index_generator, first_thread, status,
                     holder, waiting_queue, cv_queue, pc, arg, owned>>
  BY DEF thread_destroy, cpuVars, schedVars, bookVars, mutexVars, resumeVars
<1>2. TypeOK' /\ QueuesInjective'
  BY <1>1 DEF Inv, TypeOK, QueuesInjective
<1>3. BookInv' /\ CpuInv' /\ StackInv' /\ InterruptsMatchMode'
  BY <1>1 DEF Inv, BookInv, CpuInv, StackInv, InterruptsMatchMode, Unfinished
<1>4. TagInv' /\ PlaceInv' /\ MutexInv' /\ JoinInv'
  BY <1>1
  DEF Inv, TagInv, PlaceInv, MutexInv, FieldsInv, HolderInv, JoinInv, Unfinished,
      Blocked
<1> QED BY <1>2, <1>3, <1>4 DEF Inv

\* The start of Thread_running, and the return from yield and join.
LEMMA LeaveInv ==
  ASSUME Inv, NEW t \in Threads,
         Thread_running_start(t) \/ return_from_switch(t)
  PROVE  Inv'
<1>1. /\ t = current_index /\ ~suspended /\ pc[t] \in {"start", "ret", "joined"}
      /\ interrupts' = TRUE
      /\ pc' = [pc EXCEPT ![t] = "user"]
      /\ arg' = [arg EXCEPT ![t] = None]
      /\ UNCHANGED <<suspended, ready_queue, current_index, join_queue, pos_map,
                     stack_map, index2context, ptr_to_delete,
                     thread_index_generator, first_thread, impl_ptr, status,
                     holder, waiting_queue, cv_queue, owned>>
  BY DEF Thread_running_start, return_from_switch, At, leave_library,
         save_context, schedVars, bookVars, newVars, mutexVars
<1>2. TypeOK'
  BY <1>1 DEF Inv, TypeOK, ResumePoints
<1>3. \A u \in Threads : /\ pc'[u] = IF u = t THEN "user" ELSE pc[u]
                         /\ arg'[u] = IF u = t THEN None ELSE arg[u]
  BY <1>1 DEF Inv, TypeOK
<1>4. t \notin Range(ready_queue) /\ ~Blocked(t)
  BY <1>1 DEF Inv, PlaceInv
<1>5. QueuesInjective'
  BY <1>1 DEF Inv, QueuesInjective
<1>6. BookInv' /\ CpuInv' /\ StackInv'
  BY <1>1, <1>3 DEF Inv, BookInv, CpuInv, StackInv, Unfinished, TypeOK
<1>7. TagInv'
  BY <1>1, <1>3, <1>4 DEF Inv, TagInv, Unfinished, Blocked
<1>8. PlaceInv'
  BY <1>1, <1>3 DEF Inv, PlaceInv, Unfinished, Blocked
<1>9. MutexInv' /\ JoinInv' /\ InterruptsMatchMode'
  BY <1>1, <1>3
  DEF Inv, MutexInv, FieldsInv, HolderInv, JoinInv, InterruptsMatchMode
<1> QED BY <1>2, <1>5, <1>6, <1>7, <1>8, <1>9 DEF Inv

\* The return from lock of a thread that was handed the mutex.
LEMMA LockedInv ==
  ASSUME Inv, NEW t \in Threads, return_from_lock(t)
  PROVE  Inv'
<1> DEFINE m == arg[t]
<1>1. /\ t = current_index /\ ~suspended /\ pc[t] = "locked"
      /\ interrupts' = TRUE
      /\ pc' = [pc EXCEPT ![t] = "user"]
      /\ arg' = [arg EXCEPT ![t] = None]
      /\ owned' = [owned EXCEPT ![t] = @ \cup {m}]
      /\ UNCHANGED <<suspended, ready_queue, current_index, join_queue, pos_map,
                     stack_map, index2context, ptr_to_delete,
                     thread_index_generator, first_thread, impl_ptr, status,
                     holder, waiting_queue, cv_queue>>
  BY DEF return_from_lock, At, leave_library, save_context, schedVars, bookVars,
         newVars, mutexVars
<1>2. t \notin Range(ready_queue) /\ ~Blocked(t)
  BY <1>1 DEF Inv, PlaceInv
<1>3. m \in Mutexes /\ holder[m] = t
  BY <1>1, <1>2 DEF Inv, TagInv, MutexInv, HolderInv, Blocked
<1>4. TypeOK'
  <2>1. /\ pc' \in [Threads -> ResumePoints]
        /\ arg' \in [Threads -> Threads \cup Mutexes \cup {None}]
        /\ owned' \in [Threads -> SUBSET Mutexes]
    BY <1>1, <1>3 DEF Inv, TypeOK, ResumePoints
  <2> QED BY <1>1, <2>1 DEF Inv, TypeOK
<1>5. \A u \in Threads :
        /\ pc'[u] = IF u = t THEN "user" ELSE pc[u]
        /\ arg'[u] = IF u = t THEN None ELSE arg[u]
        /\ owned'[u] = IF u = t THEN owned[u] \cup {m} ELSE owned[u]
  BY <1>1 DEF Inv, TypeOK
<1> HIDE DEF m
<1>6. QueuesInjective'
  BY <1>1 DEF Inv, QueuesInjective
<1>7. BookInv' /\ CpuInv' /\ StackInv'
  BY <1>1, <1>5 DEF Inv, BookInv, CpuInv, StackInv, Unfinished
<1>8. TagInv'
  BY <1>1, <1>2, <1>5 DEF Inv, TagInv, Unfinished, Blocked
<1>9. PlaceInv'
  BY <1>1, <1>5 DEF Inv, PlaceInv, Unfinished, Blocked
<1>10. MutexInv'
  <2>1. ASSUME NEW n \in Mutexes PROVE FieldsInv(n)'
    BY <1>1 DEF Inv, MutexInv, FieldsInv
  <2>2. ASSUME NEW u \in Threads, NEW n \in Mutexes PROVE HolderInv(u, n)'
    BY <1>1, <1>3, <1>5 DEF Inv, MutexInv, HolderInv
  <2> QED BY <2>1, <2>2 DEF MutexInv
<1>11. JoinInv' /\ InterruptsMatchMode'
  BY <1>1, <1>5 DEF Inv, JoinInv, InterruptsMatchMode
<1> QED BY <1>4, <1>6, <1>7, <1>8, <1>9, <1>10, <1>11 DEF Inv

\* A call of the only runnable thread that would block: the CPU is suspended.
LEMMA SuspendInv ==
  ASSUME Inv, NEW t \in Threads, t = current_index, ~suspended,
         pc[t] \in {"user", "relock"}, ready_queue = <<>>, enable_suspend,
         UNCHANGED <<ready_queue, join_queue, bookVars, newVars, mutexVars,
                     cv_queue, resumeVars>>
  PROVE  Inv'
<1>1. /\ interrupts' = TRUE /\ suspended' = TRUE
      /\ UNCHANGED <<ready_queue, current_index, join_queue, pos_map,
                     stack_map, index2context, ptr_to_delete,
                     thread_index_generator, first_thread, impl_ptr, status,
                     holder, waiting_queue, cv_queue, pc, arg, owned>>
  BY DEF enable_suspend, bookVars, newVars, mutexVars, resumeVars
<1>2. TypeOK' /\ QueuesInjective'
  BY <1>1 DEF Inv, TypeOK, QueuesInjective
<1>3. BookInv' /\ CpuInv' /\ StackInv' /\ InterruptsMatchMode'
  BY <1>1, ConstantsAssumption
  DEF Inv, BookInv, CpuInv, StackInv, InterruptsMatchMode, Unfinished, NoThread,
      Threads
<1>4. TagInv' /\ PlaceInv' /\ MutexInv' /\ JoinInv'
  BY <1>1
  DEF Inv, TagInv, PlaceInv, MutexInv, FieldsInv, HolderInv, JoinInv, Unfinished,
      Blocked
<1> QED BY <1>2, <1>3, <1>4 DEF Inv

-----------------------------------------------------------------------------
(* Creation and end of threads.                                              *)

\* cpu::init: the first thread goes through the empty ready queue to the CPU.
LEMMA CpuInitInv == ASSUME Inv, cpu_init PROVE Inv'
<1> DEFINE t == thread_index_generator
<1>1. /\ first_thread
      /\ t = 0 /\ t \in Threads
      /\ \A u \in Threads : pc[u] = "none"
      /\ current_index = NoThread /\ ~suspended
  BY ConstantsAssumption DEF Inv, TypeOK, BookInv, cpu_init, Threads
<1>2. /\ ready_queue = <<>>
      /\ \A u \in Threads : u \notin Range(ready_queue) /\ ~Blocked(u)
  BY <1>1, EmptyQueue DEF Inv, TagInv, TypeOK, Blocked
<1>3. Append(ready_queue, t) = <<0>> /\ Head(<<0>>) = 0 /\ Tail(<<0>>) = <<>>
  BY <1>1, <1>2
<1>4. /\ current_index' = 0
      /\ ready_queue' = <<>>
      /\ interrupts' = FALSE
      /\ stack_map' = stack_map \cup {0}
      /\ index2context' = index2context \cup {0}
      /\ pos_map' = [pos_map EXCEPT ![0] = FALSE]
      /\ thread_index_generator' = 1
      /\ first_thread' = FALSE
      /\ pc' = [pc EXCEPT ![0] = "start"]
      /\ arg' = [arg EXCEPT ![0] = None]
      /\ UNCHANGED <<suspended, join_queue, ptr_to_delete, impl_ptr, status,
                     holder, waiting_queue, cv_queue, owned>>
  BY <1>1, <1>3 DEF cpu_init, new_thread, switch_context, save_context, mutexVars
<1>5. TypeOK'
  <2>1. 0 \in Threads /\ <<>> \in Seq(Threads) /\ 1 \in 0 .. MaxThreads
    BY ConstantsAssumption DEF Threads
  <2>2. /\ pc' \in [Threads -> ResumePoints]
        /\ arg' \in [Threads -> Threads \cup Mutexes \cup {None}]
        /\ pos_map' \in [Threads -> BOOLEAN]
    BY <1>4, <2>1 DEF Inv, TypeOK, ResumePoints
  <2> QED BY <1>4, <2>1, <2>2 DEF Inv, TypeOK
<1>6. \A u \in Threads : /\ pc'[u] = IF u = 0 THEN "start" ELSE pc[u]
                         /\ arg'[u] = IF u = 0 THEN None ELSE arg[u]
                         /\ pos_map'[u] <=> u # 0 /\ pos_map[u]
                         /\ Blocked(u)' <=> Blocked(u)
  BY <1>4 DEF Inv, TypeOK, Blocked
<1>7. QueuesInjective'
  BY <1>4, EmptyQueue DEF Inv, QueuesInjective
<1>8. BookInv'
  <2>1. ASSUME NEW u \in Threads
        PROVE  /\ pc'[u] = "none" <=> ~(u < 1)
               /\ pos_map'[u] <=> pc'[u] = "done"
    BY <1>1, <1>6, ConstantsAssumption DEF Inv, TypeOK, BookInv, Threads
  <2>2. ASSUME NEW u \in impl_ptr PROVE FALSE
    BY <1>1 DEF Inv, TypeOK, BookInv
  <2> QED BY <1>1, <1>4, <2>1, <2>2 DEF BookInv, NoThread
<1>9. CpuInv' /\ InterruptsMatchMode'
  <2>1. InterruptsMatchMode'
    BY <1>1, <1>4, <1>6 DEF InterruptsMatchMode
  <2>2. CpuInv'
    BY <1>1, <1>4, <1>6 DEF CpuInv
  <2> QED BY <2>1, <2>2
<1>13. StackInv'
  <2>1. \A u \in Threads : u # ptr_to_delete
    BY <1>1 DEF Inv, StackInv, Unfinished
  <2> QED BY <1>1, <1>4, <1>6, <2>1 DEF StackInv, Unfinished
<1>10. TagInv'
  BY <1>1, <1>2, <1>4, <1>6, EmptyQueue DEF Inv, TagInv, Unfinished, Blocked
<1>11. PlaceInv'
  BY <1>1, <1>2, <1>4, <1>6, EmptyQueue DEF Inv, PlaceInv, Unfinished
<1>12. MutexInv' /\ JoinInv'
  BY <1>1, <1>4, <1>6 DEF Inv, MutexInv, FieldsInv, HolderInv, JoinInv
<1> QED BY <1>5, <1>7, <1>8, <1>9, <1>10, <1>11, <1>12, <1>13 DEF Inv

\* thread::thread.
LEMMA CreateInv ==
  ASSUME Inv, NEW t \in Threads, thread_create(t)
  PROVE  Inv'
<1> DEFINE new == thread_index_generator
<1>1. /\ t = current_index /\ ~suspended /\ pc[t] = "user"
      /\ new < MaxThreads
      /\ stack_map' = stack_map \cup {new}
      /\ index2context' = index2context \cup {new}
      /\ pos_map' = [pos_map EXCEPT ![new] = FALSE]
      /\ thread_index_generator' = new + 1
      /\ first_thread' = FALSE
      /\ ready_queue' = Append(ready_queue, new)
      /\ impl_ptr' = impl_ptr \cup {new}
      /\ pc' = [pc EXCEPT ![new] = "start"]
      /\ arg' = [arg EXCEPT ![new] = None]
      /\ UNCHANGED <<interrupts, suspended, current_index, join_queue,
                     ptr_to_delete, status, holder, waiting_queue, cv_queue,
                     owned>>
  BY DEF thread_create, At, new_thread, save_context, cpuVars, mutexVars
<1>2. new \in Threads /\ pc[new] = "none" /\ new \in Nat /\ MaxThreads \in Nat
  BY <1>1, ConstantsAssumption DEF Inv, TypeOK, BookInv, Threads
<1>3. /\ new \notin Range(ready_queue) /\ ~Blocked(new)
      /\ new # t
      /\ \A u \in Threads : new \notin Range(join_queue[u])
      /\ Range(join_queue[new]) \cap Threads = {}
  BY <1>1, <1>2 DEF Inv, TagInv, Blocked, Unfinished
<1>4. /\ ready_queue' \in Seq(Threads)
      /\ Range(ready_queue') = Range(ready_queue) \cup {new}
      /\ IsInjective(ready_queue')
  BY <1>1, <1>2, <1>3, PushQueue DEF Inv, TypeOK, QueuesInjective
<1>5. TypeOK'
  <2>1. /\ pc' \in [Threads -> ResumePoints]
        /\ arg' \in [Threads -> Threads \cup Mutexes \cup {None}]
        /\ pos_map' \in [Threads -> BOOLEAN]
        /\ new + 1 \in 0 .. MaxThreads
    BY <1>1, <1>2 DEF Inv, TypeOK, ResumePoints
  <2> QED BY <1>1, <1>2, <1>4, <2>1 DEF Inv, TypeOK
<1>6. \A u \in Threads :
        /\ pc'[u] = IF u = new THEN "start" ELSE pc[u]
        /\ arg'[u] = IF u = new THEN None ELSE arg[u]
        /\ pos_map'[u] <=> u # new /\ pos_map[u]
        /\ Blocked(u)' <=> Blocked(u)
  BY <1>1 DEF Inv, TypeOK, Blocked
<1>7. QueuesInjective'
  BY <1>1, <1>4 DEF Inv, QueuesInjective
<1>8. BookInv'
  BY <1>1, <1>2, <1>6 DEF Inv, TypeOK, BookInv, Threads, NoThread
<1> HIDE DEF new
<1>15. /\ t = current_index /\ ~suspended /\ pc'[t] = "user" /\ pc[t] = "user"
       /\ UNCHANGED <<interrupts, suspended, current_index, status, holder,
                      waiting_queue, owned>>
  BY <1>1, <1>3, <1>6
<1>9. CpuInv' /\ InterruptsMatchMode'
  BY <1>2, <1>6, <1>15 DEF Inv, CpuInv, InterruptsMatchMode
<1>13. StackInv'
  <2>1. new # ptr_to_delete
    BY <1>2 DEF Inv, StackInv
  <2> SUFFICES ASSUME NEW u \in Threads
               PROVE  /\ Unfinished(u)' \/ u = current_index' => u \in stack_map' /\ u \in index2context'
                      /\ pc'[u] = "done" /\ (u \in stack_map' \/ u \in index2context')
                           => u = ptr_to_delete'
                      /\ u = ptr_to_delete' => pc'[u] = "done"
    BY DEF StackInv
  <2>2. CASE u = new
    BY <1>1, <1>2, <1>6, <2>1, <2>2 DEF Unfinished
  <2>3. CASE u # new
    BY <1>1, <1>6, <2>3 DEF Inv, StackInv, Unfinished
  <2> QED BY <2>2, <2>3
<1>10. TagInv'
  BY <1>1, <1>2, <1>3, <1>4, <1>6 DEF Inv, TagInv, Unfinished, Blocked
<1>11. PlaceInv'
  BY <1>1, <1>2, <1>3, <1>4, <1>6 DEF Inv, PlaceInv, Unfinished
<1>12. MutexInv'
  <2>1. ASSUME NEW n \in Mutexes PROVE FieldsInv(n)'
    BY <1>1 DEF Inv, MutexInv, FieldsInv
  <2>2. ASSUME NEW u \in Threads, NEW n \in Mutexes PROVE HolderInv(u, n)'
    BY <1>6, <1>15 DEF Inv, MutexInv, HolderInv
  <2> QED BY <2>1, <2>2 DEF MutexInv
<1>14. JoinInv'
  BY <1>1, <1>2, <1>6 DEF Inv, JoinInv, BookInv
<1> QED BY <1>5, <1>7, <1>8, <1>9, <1>10, <1>11, <1>12, <1>13, <1>14 DEF Inv

\* thread::thread that throws.
LEMMA CreateFailsInv ==
  ASSUME Inv, NEW t \in Threads, thread_create_fails(t)
  PROVE  Inv'
<1>1. /\ stack_map' = stack_map \cup {thread_index_generator}
      /\ thread_index_generator < MaxThreads
      /\ UNCHANGED <<interrupts, suspended, ready_queue, current_index,
                     join_queue, pos_map, index2context, ptr_to_delete,
                     thread_index_generator, first_thread, impl_ptr, status,
                     holder, waiting_queue, cv_queue, pc, arg, owned>>
  BY DEF thread_create_fails, cpuVars, schedVars, newVars, mutexVars, resumeVars
<1>2. /\ thread_index_generator \in Threads
      /\ pc[thread_index_generator] = "none"
  BY <1>1, ConstantsAssumption DEF Inv, TypeOK, BookInv, Threads
<1>3. TypeOK' /\ QueuesInjective'
  BY <1>1, <1>2 DEF Inv, TypeOK, QueuesInjective
<1>4. StackInv'
  BY <1>1, <1>2 DEF Inv, StackInv, Unfinished
<1>5. BookInv' /\ CpuInv' /\ InterruptsMatchMode'
  BY <1>1 DEF Inv, BookInv, CpuInv, InterruptsMatchMode
<1>6. TagInv' /\ PlaceInv' /\ MutexInv' /\ JoinInv'
  BY <1>1
  DEF Inv, TagInv, PlaceInv, MutexInv, FieldsInv, HolderInv, JoinInv, Unfinished,
      Blocked
<1> QED BY <1>3, <1>4, <1>5, <1>6 DEF Inv

\* Thread_running from the return of func.
LEMMA EndInv ==
  ASSUME Inv, NEW t \in Threads, Thread_running_end(t)
  PROVE  Inv'
<1> DEFINE rq == ready_queue \o join_queue[t]
<1>1. /\ t = current_index /\ ~suspended /\ pc[t] = "user"
      /\ pos_map' = [pos_map EXCEPT ![t] = TRUE]
      /\ join_queue' = [u \in Threads |-> IF u \in {t, ptr_to_delete} THEN <<>>
                                         ELSE join_queue[u]]
      /\ stack_map' = stack_map \ {ptr_to_delete}
      /\ index2context' = index2context \ {ptr_to_delete}
      /\ ptr_to_delete' = t
      /\ pc' = [pc EXCEPT ![t] = "done"]
      /\ arg' = [arg EXCEPT ![t] = None]
      /\ \/ /\ rq # <<>>
            /\ current_index' = Head(rq)
            /\ ready_queue' = Tail(rq)
            /\ interrupts' = FALSE
            /\ suspended' = FALSE
         \/ /\ rq = <<>>
            /\ interrupts' = TRUE
            /\ suspended' = TRUE
            /\ UNCHANGED <<current_index, ready_queue>>
      /\ UNCHANGED <<thread_index_generator, first_thread, impl_ptr, status,
                     holder, waiting_queue, cv_queue, owned>>
  BY DEF Inv, TypeOK, Thread_running_end, At, delete_previous, save_context,
         switch_context, enable_suspend, newVars, mutexVars
<1>2. /\ ready_queue \in Seq(Threads) /\ IsInjective(ready_queue)
      /\ join_queue[t] \in Seq(Threads) /\ IsInjective(join_queue[t])
      /\ t # ptr_to_delete
  BY <1>1 DEF Inv, TypeOK, QueuesInjective, StackInv
<1>3. /\ Range(ready_queue) \cap Range(join_queue[t]) = {}
      /\ \A u \in Range(ready_queue) \cup Range(join_queue[t]) :
           u \in Threads /\ pc[u] \in {"start", "ret", "joined", "locked", "relock"}
  <2>1. ASSUME NEW q \in Seq(Threads) PROVE Range(q) \subseteq Threads
    BY DEF Range
  <2> QED BY <1>2, <2>1 DEF Inv, PlaceInv, TagInv, Blocked
<1>4. /\ rq \in Seq(Threads) /\ IsInjective(rq)
      /\ Range(rq) = Range(ready_queue) \cup Range(join_queue[t])
      /\ rq = <<>> => ready_queue = <<>>
  BY <1>2, <1>3, DrainQueue
<1> HIDE DEF rq
<1>5. \A u \in Threads :
        /\ join_queue'[u] \in Seq(Threads) /\ IsInjective(join_queue'[u])
        /\ \A v \in Threads : v \in Range(join_queue'[u])
                               <=> u # t /\ v \in Range(join_queue[u])
  BY <1>1, EmptyQueue
  DEF Inv, TypeOK, QueuesInjective, TagInv, StackInv, Unfinished
<1>6. \A u \in Threads :
        /\ pc'[u] = IF u = t THEN "done" ELSE pc[u]
        /\ arg'[u] = IF u = t THEN None ELSE arg[u]
        /\ pos_map'[u] <=> u = t \/ pos_map[u]
  BY <1>1 DEF Inv, TypeOK
<1>11. \A u \in Threads :
        Blocked(u)' <=> Blocked(u) /\ u \notin Range(join_queue[t])
  <2>1. ASSUME NEW u \in Threads, u \in Range(join_queue[t])
        PROVE  ~Blocked(u)'
    <3>1. pc[u] = "joined" /\ arg[u] = t
      BY <2>1 DEF Inv, TagInv
    <3>2. ASSUME NEW v \in Threads PROVE u \notin Range(join_queue'[v])
      BY <1>5, <3>1 DEF Inv, TagInv
    <3>3. ASSUME NEW m \in Mutexes PROVE u \notin Range(waiting_queue'[m])
      BY <1>1, <3>1 DEF Inv, TagInv
    <3>4. ASSUME NEW c \in CVs PROVE u \notin Range(cv_queue'[c])
      BY <1>1, <3>1 DEF Inv, TagInv
    <3> QED BY <3>2, <3>3, <3>4 DEF Blocked
  <2>2. ASSUME NEW u \in Threads, u \notin Range(join_queue[t])
        PROVE  Blocked(u)' <=> Blocked(u)
    BY <1>1, <1>5, <2>2 DEF Blocked
  <2> QED BY <2>1, <2>2
<1>7. /\ pc' \in [Threads -> ResumePoints]
      /\ arg' \in [Threads -> Threads \cup Mutexes \cup {None}]
      /\ pos_map' \in [Threads -> BOOLEAN]
      /\ join_queue' \in [Threads -> Seq(Threads)]
  BY <1>1, <1>5 DEF Inv, TypeOK, ResumePoints
<1>8. MutexInv' /\ JoinInv'
  <2>1. ASSUME NEW n \in Mutexes PROVE FieldsInv(n)'
    BY <1>1 DEF Inv, MutexInv, FieldsInv
  <2>2. ASSUME NEW u \in Threads, NEW n \in Mutexes PROVE HolderInv(u, n)'
    BY <1>1, <1>6 DEF Inv, MutexInv, HolderInv
  <2>3. JoinInv'
    BY <1>1, <1>5, <1>6 DEF Inv, JoinInv
  <2> QED BY <2>1, <2>2, <2>3 DEF MutexInv
<1>9. CASE rq # <<>>
  <2> DEFINE h == Head(rq)
  <2>1. /\ h \in Threads /\ h \in Range(rq)
        /\ Tail(rq) \in Seq(Threads) /\ IsInjective(Tail(rq))
        /\ Range(Tail(rq)) = Range(rq) \ {h}
    BY <1>4, <1>9, PopQueue
  <2>2. /\ current_index' = h /\ ready_queue' = Tail(rq)
        /\ interrupts' = FALSE /\ suspended' = FALSE
    BY <1>1, <1>9
  <2> HIDE DEF h
  <2>3. h # t /\ pc[h] \in {"start", "ret", "joined", "locked", "relock"}
    BY <1>1, <1>3, <1>4, <2>1
  <2>4. TypeOK'
    BY <1>1, <1>7, <2>1, <2>2 DEF Inv, TypeOK
  <2>5. QueuesInjective'
    BY <1>1, <1>5, <2>1, <2>2 DEF Inv, QueuesInjective
  <2>6. BookInv' /\ CpuInv' /\ InterruptsMatchMode'
    BY <1>1, <1>6, <2>1, <2>2, <2>3
    DEF Inv, TypeOK, BookInv, CpuInv, InterruptsMatchMode, NoThread, Threads
  <2>7. StackInv'
    BY <1>1, <1>2, <1>6, <2>2, <2>3 DEF Inv, StackInv, Unfinished
  <2>8. TagInv'
    BY <1>1, <1>3, <1>4, <1>5, <1>6, <2>1, <2>2 DEF Inv, TagInv, Unfinished
  <2>9. PlaceInv'
    BY <1>1, <1>3, <1>4, <1>6, <1>11, <2>1, <2>2 DEF Inv, PlaceInv, Unfinished
  <2> QED BY <1>8, <2>4, <2>5, <2>6, <2>7, <2>8, <2>9 DEF Inv
<1>10. CASE rq = <<>>
  <2>1. /\ UNCHANGED <<current_index, ready_queue>>
        /\ interrupts' = TRUE /\ suspended' = TRUE
        /\ Range(ready_queue) = {} /\ Range(join_queue[t]) = {}
        /\ ready_queue = <<>>
    BY <1>1, <1>4, <1>10, EmptyQueue
  <2>2. TypeOK'
    BY <1>1, <1>7, <2>1 DEF Inv, TypeOK
  <2>3. QueuesInjective'
    BY <1>1, <1>5, <2>1 DEF Inv, QueuesInjective
  <2>4. BookInv' /\ CpuInv' /\ InterruptsMatchMode'
    BY <1>1, <1>6, <2>1
    DEF Inv, TypeOK, BookInv, CpuInv, InterruptsMatchMode, NoThread, Threads
  <2>5. StackInv'
    BY <1>1, <1>2, <1>6, <2>1 DEF Inv, StackInv, Unfinished
  <2>6. TagInv'
    BY <1>1, <1>5, <1>6, <2>1 DEF Inv, TagInv, Unfinished
  <2>7. PlaceInv'
    BY <1>1, <1>6, <1>11, <2>1 DEF Inv, PlaceInv, Unfinished
  <2> QED BY <1>8, <2>2, <2>3, <2>4, <2>5, <2>6, <2>7 DEF Inv
<1> QED BY <1>9, <1>10

-----------------------------------------------------------------------------
(* Steps that take the running thread off the CPU, and wake-ups.             *)

\* thread::yield, called by the thread or by the timer's handler.
LEMMA YieldInv ==
  ASSUME Inv, NEW t \in Threads, yield(t)
  PROVE  Inv'
<1> DEFINE rq == Append(ready_queue, t)
           h  == Head(rq)
<1>1. /\ t = current_index /\ ~suspended /\ pc[t] = "user"
      /\ ready_queue # <<>>
      /\ pc' = [pc EXCEPT ![t] = "ret"]
      /\ arg' = [arg EXCEPT ![t] = None]
      /\ current_index' = h
      /\ ready_queue' = Tail(rq)
      /\ interrupts' = FALSE
      /\ UNCHANGED <<suspended, join_queue, pos_map, stack_map, index2context,
                     ptr_to_delete, thread_index_generator, first_thread,
                     impl_ptr, status, holder, waiting_queue, cv_queue, owned>>
  BY DEF yield, At, save_context, switch_context, bookVars, newVars, mutexVars
<1>2. /\ ready_queue \in Seq(Threads) /\ IsInjective(ready_queue)
      /\ t \notin Range(ready_queue) /\ ~Blocked(t)
      /\ Head(ready_queue) \in Range(ready_queue)
      /\ Head(ready_queue) \in Threads
  BY <1>1, PopQueue DEF Inv, TypeOK, QueuesInjective, PlaceInv
<1>3. /\ rq \in Seq(Threads) /\ rq # <<>> /\ IsInjective(rq)
      /\ Range(rq) = Range(ready_queue) \cup {t}
      /\ h = Head(ready_queue)
  BY <1>1, <1>2, PushQueue
<1>4. /\ Tail(rq) \in Seq(Threads) /\ IsInjective(Tail(rq))
      /\ Range(Tail(rq)) = Range(rq) \ {h}
  BY <1>3, PopQueue
<1>5. h \in Threads /\ h # t /\ h \in Range(ready_queue)
  BY <1>2, <1>3
<1> HIDE DEF rq, h
<1>6. \A u \in Threads : /\ pc'[u] = IF u = t THEN "ret" ELSE pc[u]
                         /\ arg'[u] = IF u = t THEN None ELSE arg[u]
                         /\ Blocked(u)' <=> Blocked(u)
  BY <1>1 DEF Inv, TypeOK, Blocked
<1>7. pc[h] \in {"start", "ret", "joined", "locked", "relock"}
  BY <1>5 DEF Inv, TagInv
<1>8. TypeOK'
  <2>1. /\ pc' \in [Threads -> ResumePoints]
        /\ arg' \in [Threads -> Threads \cup Mutexes \cup {None}]
    BY <1>1 DEF Inv, TypeOK, ResumePoints
  <2> QED BY <1>1, <1>4, <1>5, <2>1 DEF Inv, TypeOK
<1>9. QueuesInjective'
  BY <1>1, <1>4 DEF Inv, QueuesInjective
<1>10. BookInv' /\ CpuInv' /\ InterruptsMatchMode'
  BY <1>1, <1>5, <1>6, <1>7
  DEF Inv, TypeOK, BookInv, CpuInv, InterruptsMatchMode, NoThread, Threads
<1>11. StackInv'
  BY <1>1, <1>5, <1>6, <1>7 DEF Inv, StackInv, Unfinished
<1>12. TagInv'
  BY <1>1, <1>2, <1>3, <1>4, <1>6 DEF Inv, TagInv, Unfinished, Blocked
<1>13. PlaceInv'
  BY <1>1, <1>2, <1>3, <1>4, <1>5, <1>6 DEF Inv, PlaceInv, Unfinished
<1>14. MutexInv' /\ JoinInv'
  BY <1>1, <1>6 DEF Inv, MutexInv, FieldsInv, HolderInv, JoinInv
<1> QED BY <1>8, <1>9, <1>10, <1>11, <1>12, <1>13, <1>14 DEF Inv

\* thread::join on an unfinished thread.
LEMMA JoinStepInv ==
  ASSUME Inv, NEW t \in Threads, NEW u \in Threads, join(t, u)
  PROVE  Inv'
<1>1. CASE ready_queue = <<>>
  BY <1>1, SuspendInv DEF join, At, resumeVars
<1>2. CASE ready_queue # <<>>
  <2> DEFINE h == Head(ready_queue)
  <2>1. /\ t = current_index /\ ~suspended /\ pc[t] = "user"
        /\ u \in impl_ptr /\ ~pos_map[u]
        /\ pc' = [pc EXCEPT ![t] = "joined"]
        /\ arg' = [arg EXCEPT ![t] = u]
        /\ join_queue' = [join_queue EXCEPT ![u] = Append(@, t)]
        /\ current_index' = h
        /\ ready_queue' = Tail(ready_queue)
        /\ interrupts' = FALSE
        /\ UNCHANGED <<suspended, pos_map, stack_map, index2context,
                       ptr_to_delete, thread_index_generator, first_thread,
                       impl_ptr, status, holder, waiting_queue, cv_queue, owned>>
    BY <1>2 DEF join, wait_for_thread, At, save_context, switch_context, bookVars, newVars,
                mutexVars
  <2>2. /\ ready_queue \in Seq(Threads) /\ IsInjective(ready_queue)
        /\ join_queue[u] \in Seq(Threads) /\ IsInjective(join_queue[u])
        /\ t \notin Range(ready_queue) /\ ~Blocked(t)
        /\ Unfinished(u)
    BY <2>1 DEF Inv, TypeOK, QueuesInjective, PlaceInv, BookInv, Unfinished
  <2>3. /\ h \in Range(ready_queue) /\ h \in Threads
        /\ ready_queue' \in Seq(Threads) /\ IsInjective(ready_queue')
        /\ Range(ready_queue') = Range(ready_queue) \ {h}
    BY <1>2, <2>1, <2>2, PopQueue
  <2>4. /\ Append(join_queue[u], t) \in Seq(Threads)
        /\ IsInjective(Append(join_queue[u], t))
        /\ Range(Append(join_queue[u], t)) = Range(join_queue[u]) \cup {t}
    BY <2>2, PushQueue DEF Blocked
  <2> HIDE DEF h
  <2>5. /\ h # t
        /\ pc[h] \in {"start", "ret", "joined", "locked", "relock"}
    BY <2>2, <2>3 DEF Inv, TagInv
  <2>6. /\ join_queue' \in [Threads -> Seq(Threads)]
        /\ \A v \in Threads :
             /\ IsInjective(join_queue'[v])
             /\ \A w \in Threads : w \in Range(join_queue'[v])
                  <=> w \in Range(join_queue[v]) \/ (v = u /\ w = t)
    BY <2>1, <2>4 DEF Inv, TypeOK, QueuesInjective
  <2>7. \A v \in Threads : /\ pc'[v] = IF v = t THEN "joined" ELSE pc[v]
                           /\ arg'[v] = IF v = t THEN u ELSE arg[v]
    BY <2>1 DEF Inv, TypeOK
  <2>8. \A v \in Threads : Blocked(v)' <=> Blocked(v) \/ v = t
    BY <2>1, <2>6 DEF Blocked
  <2>9. TypeOK'
    <3>1. /\ pc' \in [Threads -> ResumePoints]
          /\ arg' \in [Threads -> Threads \cup Mutexes \cup {None}]
      BY <2>1 DEF Inv, TypeOK, ResumePoints
    <3> QED BY <2>1, <2>3, <2>6, <3>1 DEF Inv, TypeOK
  <2>10. QueuesInjective'
    BY <2>1, <2>3, <2>6 DEF Inv, QueuesInjective
  <2>11. BookInv' /\ CpuInv' /\ InterruptsMatchMode'
    BY <2>1, <2>3, <2>5, <2>7
    DEF Inv, TypeOK, BookInv, CpuInv, InterruptsMatchMode, NoThread, Threads
  <2>12. StackInv'
    BY <2>1, <2>3, <2>5, <2>7 DEF Inv, StackInv, Unfinished
  <2>13. TagInv'
    BY <2>1, <2>2, <2>3, <2>6, <2>7 DEF Inv, TagInv, Unfinished, Blocked
  <2>14. PlaceInv'
    BY <2>1, <2>2, <2>3, <2>5, <2>7, <2>8 DEF Inv, PlaceInv, Unfinished
  <2>15. MutexInv' /\ JoinInv'
    BY <2>1, <2>6, <2>7 DEF Inv, MutexInv, FieldsInv, HolderInv, JoinInv
  <2> QED BY <2>9, <2>10, <2>11, <2>12, <2>13, <2>14, <2>15 DEF Inv
<1> QED BY <1>1, <1>2

\* inner_lock, called by lock or at the end of cv::wait.
LEMMA LockInv ==
  ASSUME Inv, NEW t \in Threads, NEW m \in Mutexes,
         At(t, "user") \/ At(t, "relock"), inner_lock(t, m),
         UNCHANGED <<join_queue, bookVars, newVars, cv_queue>>
  PROVE  Inv'
<1>1. /\ t = current_index /\ ~suspended /\ pc[t] \in {"user", "relock"}
      /\ UNCHANGED <<join_queue, pos_map, stack_map, index2context,
                     ptr_to_delete, thread_index_generator, first_thread,
                     impl_ptr, cv_queue>>
      /\ t \notin Range(ready_queue) /\ ~Blocked(t)
  BY DEF At, bookVars, newVars, Inv, PlaceInv
<1>2. CASE status[m]
  <2>1. /\ status' = [status EXCEPT ![m] = FALSE]
        /\ holder' = [holder EXCEPT ![m] = t]
        /\ pc' = [pc EXCEPT ![t] = "user"]
        /\ arg' = [arg EXCEPT ![t] = None]
        /\ owned' = [owned EXCEPT ![t] = @ \cup {m}]
        /\ interrupts' = TRUE
        /\ UNCHANGED <<waiting_queue, suspended, ready_queue, current_index>>
    BY <1>2 DEF inner_lock, leave_library, save_context, schedVars
  <2>2. /\ \A u \in Threads :
             /\ pc'[u] = IF u = t THEN "user" ELSE pc[u]
             /\ arg'[u] = IF u = t THEN None ELSE arg[u]
             /\ owned'[u] = IF u = t THEN owned[u] \cup {m} ELSE owned[u]
        /\ \A n \in Mutexes :
             /\ holder'[n] = IF n = m THEN t ELSE holder[n]
             /\ status'[n] <=> n # m /\ status[n]
    BY <2>1 DEF Inv, TypeOK
  <2>3. TypeOK'
    <3>1. /\ pc' \in [Threads -> ResumePoints]
          /\ arg' \in [Threads -> Threads \cup Mutexes \cup {None}]
          /\ owned' \in [Threads -> SUBSET Mutexes]
          /\ status' \in [Mutexes -> BOOLEAN]
          /\ holder' \in [Mutexes -> Threads \cup {NoThread}]
      BY <2>1 DEF Inv, TypeOK, ResumePoints
    <3> QED BY <1>1, <2>1, <3>1 DEF Inv, TypeOK
  <2>4. QueuesInjective'
    BY <1>1, <2>1 DEF Inv, QueuesInjective
  <2>5. BookInv' /\ CpuInv' /\ InterruptsMatchMode'
    BY <1>1, <2>1, <2>2 DEF Inv, BookInv, CpuInv, InterruptsMatchMode
  <2>6. StackInv' /\ JoinInv'
    BY <1>1, <2>1, <2>2 DEF Inv, StackInv, JoinInv, Unfinished
  <2>7. TagInv'
    BY <1>1, <2>1, <2>2 DEF Inv, TagInv, Unfinished, Blocked
  <2>8. PlaceInv'
    BY <1>1, <2>1, <2>2 DEF Inv, PlaceInv, Unfinished, Blocked
  <2>9. MutexInv'
    <3>1. holder[m] = NoThread /\ t # NoThread
      BY <1>2 DEF Inv, MutexInv, FieldsInv, NoThread, Threads
    <3>2. ASSUME NEW n \in Mutexes PROVE FieldsInv(n)'
      BY <2>1, <2>2, <3>1 DEF Inv, MutexInv, FieldsInv
    <3>3. ASSUME NEW u \in Threads, NEW n \in Mutexes PROVE HolderInv(u, n)'
      <4>1. u # NoThread
        BY DEF NoThread, Threads
      <4> QED BY <2>1, <2>2, <3>1, <4>1 DEF Inv, MutexInv, HolderInv
    <3> QED BY <3>2, <3>3 DEF MutexInv
  <2> QED BY <2>3, <2>4, <2>5, <2>6, <2>7, <2>8, <2>9 DEF Inv
<1>3. CASE ~status[m] /\ ready_queue = <<>>
  BY <1>1, <1>3, SuspendInv DEF inner_lock
<1>4. CASE ~status[m] /\ ready_queue # <<>>
  <2> DEFINE h == Head(ready_queue)
  <2>1. /\ pc' = [pc EXCEPT ![t] = "locked"]
        /\ arg' = [arg EXCEPT ![t] = m]
        /\ waiting_queue' = [waiting_queue EXCEPT ![m] = Append(@, t)]
        /\ current_index' = h
        /\ ready_queue' = Tail(ready_queue)
        /\ interrupts' = FALSE
        /\ UNCHANGED <<suspended, status, holder, owned>>
    BY <1>4 DEF inner_lock, wait_for_mutex, save_context, switch_context
  <2>2. /\ ready_queue \in Seq(Threads) /\ IsInjective(ready_queue)
        /\ waiting_queue[m] \in Seq(Threads) /\ IsInjective(waiting_queue[m])
    BY DEF Inv, TypeOK, QueuesInjective
  <2>3. /\ h \in Range(ready_queue) /\ h \in Threads
        /\ ready_queue' \in Seq(Threads) /\ IsInjective(ready_queue')
        /\ Range(ready_queue') = Range(ready_queue) \ {h}
    BY <1>4, <2>1, <2>2, PopQueue
  <2>4. /\ Append(waiting_queue[m], t) \in Seq(Threads)
        /\ IsInjective(Append(waiting_queue[m], t))
        /\ Range(Append(waiting_queue[m], t)) = Range(waiting_queue[m]) \cup {t}
    BY <1>1, <2>2, PushQueue DEF Blocked
  <2> HIDE DEF h
  <2>5. /\ h # t
        /\ pc[h] \in {"start", "ret", "joined", "locked", "relock"}
    BY <1>1, <2>3 DEF Inv, TagInv
  <2>6. /\ waiting_queue' \in [Mutexes -> Seq(Threads)]
        /\ \A n \in Mutexes :
             /\ IsInjective(waiting_queue'[n])
             /\ n # m => waiting_queue'[n] = waiting_queue[n]
             /\ \A w \in Threads : w \in Range(waiting_queue'[n])
                  <=> w \in Range(waiting_queue[n]) \/ (n = m /\ w = t)
    BY <2>1, <2>4 DEF Inv, TypeOK, QueuesInjective
  <2>7. \A v \in Threads : /\ pc'[v] = IF v = t THEN "locked" ELSE pc[v]
                           /\ arg'[v] = IF v = t THEN m ELSE arg[v]
    BY <2>1 DEF Inv, TypeOK
  <2>8. \A v \in Threads : Blocked(v)' <=> Blocked(v) \/ v = t
    BY <1>1, <2>6 DEF Blocked
  <2>9. TypeOK'
    <3>1. /\ pc' \in [Threads -> ResumePoints]
          /\ arg' \in [Threads -> Threads \cup Mutexes \cup {None}]
      BY <2>1 DEF Inv, TypeOK, ResumePoints
    <3> QED BY <1>1, <2>1, <2>3, <2>6, <3>1 DEF Inv, TypeOK
  <2>10. QueuesInjective'
    BY <1>1, <2>3, <2>6 DEF Inv, QueuesInjective
  <2>11. BookInv' /\ CpuInv' /\ InterruptsMatchMode'
    BY <1>1, <2>1, <2>3, <2>5, <2>7
    DEF Inv, TypeOK, BookInv, CpuInv, InterruptsMatchMode, NoThread, Threads
  <2>12. StackInv'
    BY <1>1, <2>1, <2>3, <2>5, <2>7 DEF Inv, StackInv, Unfinished
  <2>13. TagInv'
    BY <1>1, <2>1, <2>3, <2>6, <2>7 DEF Inv, TagInv, Unfinished, Blocked
  <2>14. PlaceInv'
    BY <1>1, <2>1, <2>3, <2>5, <2>7, <2>8 DEF Inv, PlaceInv, Unfinished
  <2>15. MutexInv'
    <3>1. ASSUME NEW n \in Mutexes PROVE FieldsInv(n)'
      BY <1>4, <2>1, <2>6 DEF Inv, MutexInv, FieldsInv
    <3>2. ASSUME NEW u \in Threads, NEW n \in Mutexes PROVE HolderInv(u, n)'
      BY <2>1, <2>6, <2>7 DEF Inv, MutexInv, HolderInv
    <3> QED BY <3>1, <3>2 DEF MutexInv
  <2>16. JoinInv'
    BY <1>1, <2>7 DEF Inv, JoinInv
  <2> QED BY <2>9, <2>10, <2>11, <2>12, <2>13, <2>14, <2>15, <2>16 DEF Inv
<1> QED BY <1>2, <1>3, <1>4

\* cv::signal and cv::broadcast: some waiters of c, a set G, become ready.
LEMMA WakeInv ==
  ASSUME Inv, NEW t \in Threads, NEW c \in CVs, signal(t, c) \/ broadcast(t, c)
  PROVE  Inv'
<1>1. /\ t = current_index /\ ~suspended /\ pc[t] = "user"
      /\ cv_queue[c] # <<>>
      /\ UNCHANGED <<interrupts, suspended, current_index, join_queue, pos_map,
                     stack_map, index2context, ptr_to_delete,
                     thread_index_generator, first_thread, impl_ptr, status,
                     holder, waiting_queue, pc, arg, owned>>
  BY DEF signal, broadcast, At, cpuVars, bookVars, newVars, mutexVars, resumeVars
<1>2. /\ ready_queue \in Seq(Threads) /\ IsInjective(ready_queue)
      /\ cv_queue[c] \in Seq(Threads) /\ IsInjective(cv_queue[c])
      /\ Range(cv_queue[c]) \subseteq Threads
      /\ Range(ready_queue) \cap Range(cv_queue[c]) = {}
  <2>1. /\ ready_queue \in Seq(Threads) /\ IsInjective(ready_queue)
        /\ cv_queue[c] \in Seq(Threads) /\ IsInjective(cv_queue[c])
    BY DEF Inv, TypeOK, QueuesInjective
  <2>2. Range(cv_queue[c]) \subseteq Threads
    BY <2>1 DEF Range
  <2> QED BY <2>1, <2>2 DEF Inv, PlaceInv, Blocked
<1>3. PICK q, G :
        /\ cv_queue' = [cv_queue EXCEPT ![c] = q]
        /\ q \in Seq(Threads) /\ IsInjective(q)
        /\ G \subseteq Range(cv_queue[c]) /\ Range(q) = Range(cv_queue[c]) \ G
        /\ ready_queue' \in Seq(Threads) /\ IsInjective(ready_queue')
        /\ Range(ready_queue') = Range(ready_queue) \cup G
  <2>1. CASE signal(t, c)
    <3> DEFINE h == Head(cv_queue[c])
    <3>1. /\ h \in Threads /\ h \in Range(cv_queue[c])
          /\ Tail(cv_queue[c]) \in Seq(Threads)
          /\ Range(Tail(cv_queue[c])) = Range(cv_queue[c]) \ {h}
          /\ IsInjective(Tail(cv_queue[c]))
      BY <1>1, <1>2, PopQueue
    <3>2. /\ Append(ready_queue, h) \in Seq(Threads)
          /\ Range(Append(ready_queue, h)) = Range(ready_queue) \cup {h}
          /\ IsInjective(Append(ready_queue, h))
      BY <1>2, <3>1, PushQueue
    <3>3. /\ cv_queue' = [cv_queue EXCEPT ![c] = Tail(cv_queue[c])]
          /\ ready_queue' = Append(ready_queue, h)
      BY <2>1 DEF signal
    <3> QED BY <3>1, <3>2, <3>3
  <2>2. CASE broadcast(t, c)
    <3>1. /\ cv_queue' = [cv_queue EXCEPT ![c] = <<>>]
          /\ ready_queue' = ready_queue \o cv_queue[c]
          /\ <<>> \in Seq(Threads)
      BY <2>2 DEF broadcast
    <3>2. /\ ready_queue' \in Seq(Threads) /\ IsInjective(ready_queue')
          /\ Range(ready_queue') = Range(ready_queue) \cup Range(cv_queue[c])
      BY <1>2, <3>1, DrainQueue
    <3>3. Range(<<>>) = Range(cv_queue[c]) \ Range(cv_queue[c])
      BY EmptyQueue
    <3> QED BY <3>1, <3>2, <3>3, EmptyQueue
  <2> QED BY <2>1, <2>2
<1>4. /\ cv_queue' \in [CVs -> Seq(Threads)]
      /\ \A d \in CVs :
           /\ IsInjective(cv_queue'[d])
           /\ \A u \in Threads : u \in Range(cv_queue'[d])
                <=> u \in Range(cv_queue[d]) /\ ~(d = c /\ u \in G)
  BY <1>3 DEF Inv, TypeOK, QueuesInjective
<1>5. \A u \in G : u \in Threads /\ pc[u] = "relock" /\ u # t
  BY <1>1, <1>2, <1>3 DEF Inv, TagInv, PlaceInv, Blocked
<1>6. \A u \in Threads : Blocked(u)' <=> Blocked(u) /\ u \notin G
  <2>1. ASSUME NEW u \in Threads, u \in G PROVE ~Blocked(u)'
    <3>1. u \in Range(cv_queue[c]) /\ pc[u] = "relock"
      BY <1>3, <1>5, <2>1
    <3>2. ASSUME NEW d \in CVs PROVE u \notin Range(cv_queue'[d])
      BY <1>4, <2>1, <3>1 DEF Inv, PlaceInv
    <3>3. ASSUME NEW v \in Threads PROVE u \notin Range(join_queue'[v])
      BY <1>1, <3>1 DEF Inv, TagInv
    <3>4. ASSUME NEW m \in Mutexes PROVE u \notin Range(waiting_queue'[m])
      BY <1>1, <3>1 DEF Inv, TagInv
    <3> QED BY <3>2, <3>3, <3>4 DEF Blocked
  <2>2. ASSUME NEW u \in Threads, u \notin G PROVE Blocked(u)' <=> Blocked(u)
    BY <1>1, <1>4, <2>2 DEF Blocked
  <2> QED BY <2>1, <2>2
<1>7. TypeOK'
  BY <1>1, <1>3, <1>4 DEF Inv, TypeOK
<1>8. QueuesInjective'
  BY <1>1, <1>3, <1>4 DEF Inv, QueuesInjective
<1>9. BookInv' /\ CpuInv' /\ InterruptsMatchMode' /\ StackInv'
  BY <1>1 DEF Inv, BookInv, CpuInv, InterruptsMatchMode, StackInv, Unfinished
<1>10. TagInv'
  BY <1>1, <1>3, <1>4, <1>5 DEF Inv, TagInv, Unfinished
<1>11. PlaceInv'
  BY <1>1, <1>3, <1>4, <1>5, <1>6 DEF Inv, PlaceInv, Unfinished
<1>12. MutexInv' /\ JoinInv'
  BY <1>1 DEF Inv, MutexInv, FieldsInv, HolderInv, JoinInv
<1> QED BY <1>7, <1>8, <1>9, <1>10, <1>11, <1>12 DEF Inv

\* What inner_unlock(t, m) does: the waiters in G, the first one or none, move
\* from the waiting queue to the ready queue, and the mutex stays consistent.
HandedOver(t, m, G) ==
  /\ \A u \in G : /\ u # t /\ u \in Range(waiting_queue[m])
                  /\ pc[u] = "locked" /\ arg[u] = m
  /\ unlock_ready(m) \in Seq(Threads)
  /\ IsInjective(unlock_ready(m))
  /\ Range(unlock_ready(m)) = Range(ready_queue) \cup G
  /\ waiting_queue' \in [Mutexes -> Seq(Threads)]
  /\ \A n \in Mutexes :
       /\ IsInjective(waiting_queue'[n])
       /\ \A u \in Threads : u \in Range(waiting_queue'[n])
            <=> u \in Range(waiting_queue[n]) /\ ~(n = m /\ u \in G)
  /\ status' \in [Mutexes -> BOOLEAN]
  /\ holder' \in [Mutexes -> Threads \cup {NoThread}]
  /\ owned' \in [Threads -> SUBSET Mutexes]
  /\ \A n \in Mutexes : FieldsInv(n)'
  /\ \A u \in Threads, n \in Mutexes :
       /\ n \in owned'[u] => holder'[n] = u
       /\ pc[u] = "locked" /\ arg[u] = n /\ u \notin Range(waiting_queue'[n])
            => holder'[n] = u /\ n \notin owned'[u]

\* inner_unlock with waiters gives the mutex to the first one.
LEMMA HandOff ==
  ASSUME Inv, NEW t \in Threads, NEW m \in Mutexes, At(t, "user"),
         inner_unlock(t, m)
  PROVE  \E G \in SUBSET Threads : HandedOver(t, m, G)
<1>1. /\ t = current_index /\ ~suspended /\ pc[t] = "user"
      /\ holder[m] = t
      /\ owned' = [owned EXCEPT ![t] = @ \ {m}]
      /\ waiting_queue[m] \in Seq(Threads) /\ IsInjective(waiting_queue[m])
      /\ ready_queue \in Seq(Threads) /\ IsInjective(ready_queue)
  BY DEF inner_unlock, At, Inv, TypeOK, QueuesInjective
<1>2. owned' \in [Threads -> SUBSET Mutexes]
  BY <1>1 DEF Inv, TypeOK
<1>3. CASE waiting_queue[m] = <<>>
  <2>1. /\ UNCHANGED waiting_queue
        /\ unlock_ready(m) = ready_queue
        /\ holder' = [holder EXCEPT ![m] = NoThread]
        /\ status' = [status EXCEPT ![m] = TRUE]
    BY <1>3 DEF inner_unlock, unlock_ready
  <2>2. /\ status' \in [Mutexes -> BOOLEAN]
        /\ holder' \in [Mutexes -> Threads \cup {NoThread}]
    BY <2>1 DEF Inv, TypeOK
  <2>3. ASSUME NEW n \in Mutexes PROVE FieldsInv(n)'
    BY <1>3, <2>1 DEF Inv, MutexInv, FieldsInv, TypeOK
  <2>4. ASSUME NEW u \in Threads, NEW n \in Mutexes
        PROVE  /\ n \in owned'[u] => holder'[n] = u
               /\ pc[u] = "locked" /\ arg[u] = n
                    /\ u \notin Range(waiting_queue'[n])
                      => holder'[n] = u /\ n \notin owned'[u]
    BY <1>1, <2>1 DEF Inv, MutexInv, HolderInv, TypeOK
  <2>5. /\ unlock_ready(m) \in Seq(Threads)
        /\ IsInjective(unlock_ready(m))
        /\ Range(unlock_ready(m)) = Range(ready_queue) \cup {}
        /\ waiting_queue' \in [Mutexes -> Seq(Threads)]
        /\ \A n \in Mutexes : IsInjective(waiting_queue'[n])
    BY <1>1, <2>1 DEF Inv, TypeOK, QueuesInjective
  <2> WITNESS {} \in SUBSET Threads
  <2> QED BY <1>2, <2>1, <2>2, <2>3, <2>4, <2>5 DEF HandedOver
<1>4. CASE waiting_queue[m] # <<>>
  <2> DEFINE h == Head(waiting_queue[m])
  <2>1. /\ holder' = [holder EXCEPT ![m] = h]
        /\ status' = [status EXCEPT ![m] = FALSE]
        /\ waiting_queue' = [waiting_queue EXCEPT ![m] = Tail(@)]
        /\ unlock_ready(m) = Append(ready_queue, h)
    BY <1>4 DEF inner_unlock, unlock_ready
  <2>2. /\ h \in Threads
        /\ h \in Range(waiting_queue[m])
        /\ Tail(waiting_queue[m]) \in Seq(Threads)
        /\ Range(Tail(waiting_queue[m])) = Range(waiting_queue[m]) \ {h}
        /\ IsInjective(Tail(waiting_queue[m]))
    BY <1>1, <1>4, PopQueue
  <2> HIDE DEF h
  <2>3. /\ h # t
        /\ h \notin Range(ready_queue)
        /\ pc[h] = "locked" /\ arg[h] = m
        /\ m \notin owned[h]
    BY <1>1, <2>2 DEF Inv, TagInv, PlaceInv, Blocked, MutexInv, HolderInv
  <2>4. /\ unlock_ready(m) \in Seq(Threads)
        /\ IsInjective(unlock_ready(m))
        /\ Range(unlock_ready(m)) = Range(ready_queue) \cup {h}
    BY <1>1, <2>1, <2>2, <2>3, PushQueue
  <2>5. /\ waiting_queue' \in [Mutexes -> Seq(Threads)]
        /\ \A n \in Mutexes :
             /\ IsInjective(waiting_queue'[n])
             /\ \A u \in Threads : u \in Range(waiting_queue'[n])
                  <=> u \in Range(waiting_queue[n]) /\ ~(n = m /\ u \in {h})
    BY <2>1, <2>2 DEF Inv, TypeOK, QueuesInjective
  <2>6. /\ status' \in [Mutexes -> BOOLEAN]
        /\ holder' \in [Mutexes -> Threads \cup {NoThread}]
    BY <2>1, <2>2 DEF Inv, TypeOK
  <2>7. ASSUME NEW n \in Mutexes PROVE FieldsInv(n)'
    BY <2>1, <2>2 DEF Inv, MutexInv, FieldsInv, TypeOK, NoThread, Threads
  <2>8. ASSUME NEW u \in Threads, NEW n \in Mutexes
        PROVE  /\ n \in owned'[u] => holder'[n] = u
               /\ pc[u] = "locked" /\ arg[u] = n
                    /\ u \notin Range(waiting_queue'[n])
                      => holder'[n] = u /\ n \notin owned'[u]
    BY <1>1, <2>1, <2>2, <2>3, <2>5 DEF Inv, MutexInv, HolderInv, TypeOK
  <2>9. {h} \in SUBSET Threads /\ HandedOver(t, m, {h})
    BY <1>2, <2>2, <2>3, <2>4, <2>5, <2>6, <2>7, <2>8 DEF HandedOver
  <2> QED BY <2>9
<1> QED BY <1>3, <1>4

\* mutex::unlock by its holder.
LEMMA UnlockInv ==
  ASSUME Inv, NEW t \in Threads, NEW m \in Mutexes, unlock(t, m)
  PROVE  Inv'
<1>1. /\ t = current_index /\ ~suspended /\ pc[t] = "user"
      /\ At(t, "user") /\ inner_unlock(t, m)
      /\ ready_queue' = unlock_ready(m)
      /\ UNCHANGED <<interrupts, suspended, current_index, join_queue, pos_map,
                     stack_map, index2context, ptr_to_delete,
                     thread_index_generator, first_thread, impl_ptr, cv_queue,
                     pc, arg>>
  BY DEF unlock, At, cpuVars, bookVars, newVars
<1>2. PICK G \in SUBSET Threads : HandedOver(t, m, G)
  BY <1>1, HandOff
<1>3. \A u \in Threads : Blocked(u)' <=> Blocked(u) /\ u \notin G
  <2>1. ASSUME NEW u \in Threads, u \in G PROVE ~Blocked(u)'
    <3>1. /\ u \in Range(waiting_queue[m])
          /\ pc[u] = "locked" /\ arg[u] = m
      BY <1>2, <2>1 DEF HandedOver
    <3>2. ASSUME NEW n \in Mutexes PROVE u \notin Range(waiting_queue'[n])
      BY <1>2, <2>1, <3>1 DEF HandedOver, Inv, TagInv
    <3>3. ASSUME NEW v \in Threads PROVE u \notin Range(join_queue'[v])
      BY <1>1, <3>1 DEF Inv, TagInv
    <3>4. ASSUME NEW d \in CVs PROVE u \notin Range(cv_queue'[d])
      BY <1>1, <3>1 DEF Inv, TagInv
    <3> QED BY <3>2, <3>3, <3>4 DEF Blocked
  <2>2. ASSUME NEW u \in Threads, u \notin G PROVE Blocked(u)' <=> Blocked(u)
    BY <1>1, <1>2, <2>2 DEF HandedOver, Blocked
  <2> QED BY <2>1, <2>2
<1>4. TypeOK'
  BY <1>1, <1>2 DEF HandedOver, Inv, TypeOK
<1>5. QueuesInjective'
  BY <1>1, <1>2 DEF HandedOver, Inv, QueuesInjective
<1>6. BookInv' /\ CpuInv' /\ InterruptsMatchMode' /\ StackInv' /\ JoinInv'
  BY <1>1
  DEF Inv, BookInv, CpuInv, InterruptsMatchMode, StackInv, JoinInv, Unfinished
<1>7. TagInv'
  BY <1>1, <1>2 DEF HandedOver, Inv, TagInv, Unfinished
<1>8. PlaceInv'
  BY <1>1, <1>2, <1>3 DEF HandedOver, Inv, PlaceInv, Unfinished, Blocked
<1>9. MutexInv'
  BY <1>1, <1>2 DEF HandedOver, MutexInv, HolderInv
<1> QED BY <1>4, <1>5, <1>6, <1>7, <1>8, <1>9 DEF Inv

\* cv::wait up to its switch: inner_unlock, then sleep or suspend.
LEMMA WaitInv ==
  ASSUME Inv, NEW t \in Threads, NEW c \in CVs, NEW m \in Mutexes, wait(t, c, m)
  PROVE  Inv'
<1> DEFINE rq == unlock_ready(m)
<1>1. /\ t = current_index /\ ~suspended /\ pc[t] = "user"
      /\ At(t, "user") /\ inner_unlock(t, m)
      /\ UNCHANGED <<join_queue, pos_map, stack_map, index2context,
                     ptr_to_delete, thread_index_generator, first_thread,
                     impl_ptr>>
      /\ t \notin Range(ready_queue) /\ ~Blocked(t)
  BY DEF wait, At, bookVars, newVars, Inv, PlaceInv
<1>2. PICK G \in SUBSET Threads : HandedOver(t, m, G)
  BY <1>1, HandOff
<1>3. /\ rq \in Seq(Threads) /\ IsInjective(rq)
      /\ Range(rq) = Range(ready_queue) \cup G
      /\ t \notin G
      /\ \A u \in G : pc[u] = "locked" /\ arg[u] = m /\ u \in Range(waiting_queue[m])
      /\ \A n \in Mutexes, u \in Threads : u \in Range(waiting_queue'[n])
            <=> u \in Range(waiting_queue[n]) /\ ~(n = m /\ u \in G)
  BY <1>2 DEF HandedOver
<1>4. CASE rq = <<>>
  <2>1. /\ interrupts' = TRUE /\ suspended' = TRUE
        /\ UNCHANGED <<current_index, ready_queue, cv_queue, pc, arg>>
    BY <1>4 DEF wait, enable_suspend
  <2>2. ready_queue = <<>> /\ G = {}
    <3>1. Range(rq) = {}
      BY <1>4, EmptyQueue
    <3>2. ready_queue \in Seq(Threads)
      BY DEF Inv, TypeOK
    <3>3. ready_queue # <<>> => Head(ready_queue) \in Range(ready_queue)
      BY <3>2, EmptyQueue
    <3> QED BY <1>3, <3>1, <3>3
  <2> HIDE DEF rq
  <2>3. \A u \in Threads : Blocked(u)' <=> Blocked(u)
    BY <1>1, <1>3, <2>1, <2>2 DEF Blocked
  <2>4. TypeOK'
    BY <1>1, <1>2, <2>1 DEF HandedOver, Inv, TypeOK
  <2>5. QueuesInjective'
    BY <1>1, <1>2, <2>1 DEF HandedOver, Inv, QueuesInjective
  <2>6. BookInv' /\ CpuInv' /\ InterruptsMatchMode'
    BY <1>1, <2>1, <2>2, ConstantsAssumption
    DEF Inv, BookInv, CpuInv, InterruptsMatchMode, NoThread, Threads
  <2>7. StackInv' /\ JoinInv'
    BY <1>1, <2>1 DEF Inv, StackInv, JoinInv, Unfinished
  <2>8. TagInv'
    BY <1>1, <1>3, <2>1 DEF Inv, TagInv, Unfinished
  <2>9. PlaceInv'
    BY <1>1, <2>1, <2>3 DEF Inv, PlaceInv, Unfinished
  <2>10. MutexInv'
    BY <1>2, <2>1 DEF HandedOver, MutexInv, HolderInv
  <2> QED BY <2>4, <2>5, <2>6, <2>7, <2>8, <2>9, <2>10 DEF Inv
<1>5. CASE rq # <<>>
  <2> DEFINE h == Head(rq)
  <2>1. /\ pc' = [pc EXCEPT ![t] = "relock"]
        /\ arg' = [arg EXCEPT ![t] = m]
        /\ cv_queue' = [cv_queue EXCEPT ![c] = Append(@, t)]
        /\ current_index' = h
        /\ ready_queue' = Tail(rq)
        /\ interrupts' = FALSE
        /\ UNCHANGED suspended
    BY <1>5 DEF wait, save_context, switch_context
  <2>2. cv_queue[c] \in Seq(Threads) /\ IsInjective(cv_queue[c])
    BY DEF Inv, TypeOK, QueuesInjective
  <2>3. /\ h \in Range(rq) /\ h \in Threads
        /\ ready_queue' \in Seq(Threads) /\ IsInjective(ready_queue')
        /\ Range(ready_queue') = Range(rq) \ {h}
    BY <1>3, <1>5, <2>1, PopQueue
  <2>4. /\ Append(cv_queue[c], t) \in Seq(Threads)
        /\ IsInjective(Append(cv_queue[c], t))
        /\ Range(Append(cv_queue[c], t)) = Range(cv_queue[c]) \cup {t}
    BY <1>1, <2>2, PushQueue DEF Blocked
  <2> HIDE DEF rq, h
  <2>5. /\ h # t
        /\ pc[h] \in {"start", "ret", "joined", "locked", "relock"}
    BY <1>1, <1>3, <2>3 DEF Inv, TagInv
  <2>6. /\ cv_queue' \in [CVs -> Seq(Threads)]
        /\ \A d \in CVs :
             /\ IsInjective(cv_queue'[d])
             /\ \A w \in Threads : w \in Range(cv_queue'[d])
                  <=> w \in Range(cv_queue[d]) \/ (d = c /\ w = t)
    BY <2>1, <2>4 DEF Inv, TypeOK, QueuesInjective
  <2>7. \A v \in Threads : /\ pc'[v] = IF v = t THEN "relock" ELSE pc[v]
                           /\ arg'[v] = IF v = t THEN m ELSE arg[v]
    BY <2>1 DEF Inv, TypeOK
  <2>8. \A v \in Threads : Blocked(v)' <=> (Blocked(v) /\ v \notin G) \/ v = t
    <3>1. ASSUME NEW v \in Threads, v \in G PROVE ~Blocked(v)'
      BY <1>1, <1>3, <2>6, <3>1 DEF Blocked, Inv, TagInv
    <3>2. ASSUME NEW v \in Threads, v \notin G, v # t
          PROVE  Blocked(v)' <=> Blocked(v)
      BY <1>1, <1>3, <2>6, <3>2 DEF Blocked
    <3>3. Blocked(t)'
      BY <2>6 DEF Blocked
    <3> QED BY <1>3, <3>1, <3>2, <3>3
  <2>9. TypeOK'
    <3>1. /\ pc' \in [Threads -> ResumePoints]
          /\ arg' \in [Threads -> Threads \cup Mutexes \cup {None}]
      BY <2>1 DEF Inv, TypeOK, ResumePoints
    <3> QED BY <1>1, <1>2, <2>1, <2>3, <2>6, <3>1 DEF HandedOver, Inv, TypeOK
  <2>10. QueuesInjective'
    BY <1>1, <1>2, <2>3, <2>6 DEF HandedOver, Inv, QueuesInjective
  <2>11. BookInv' /\ CpuInv' /\ InterruptsMatchMode'
    BY <1>1, <2>1, <2>3, <2>5, <2>7
    DEF Inv, TypeOK, BookInv, CpuInv, InterruptsMatchMode, NoThread, Threads
  <2>12. StackInv' /\ JoinInv'
    BY <1>1, <2>1, <2>3, <2>5, <2>7 DEF Inv, StackInv, JoinInv, Unfinished
  <2>13. TagInv'
    <3>1. ASSUME NEW u \in Threads, u \in Range(ready_queue')
          PROVE  pc'[u] \in {"start", "ret", "joined", "locked", "relock"}
      BY <1>1, <1>3, <2>3, <2>7, <3>1 DEF Inv, TagInv
    <3>2. ASSUME NEW u \in Threads, NEW v \in Threads, u \in Range(join_queue'[v])
          PROVE  pc'[u] = "joined" /\ arg'[u] = v /\ Unfinished(v)'
      BY <1>1, <2>7, <3>2 DEF Inv, TagInv, Unfinished, Blocked
    <3>3. ASSUME NEW u \in Threads, NEW n \in Mutexes,
                 u \in Range(waiting_queue'[n])
          PROVE  pc'[u] = "locked" /\ arg'[u] = n
      BY <1>1, <1>3, <2>7, <3>3 DEF Inv, TagInv, Blocked
    <3>4. ASSUME NEW u \in Threads, NEW d \in CVs, u \in Range(cv_queue'[d])
          PROVE  pc'[u] = "relock"
      BY <2>6, <2>7, <3>4 DEF Inv, TagInv
    <3>5. ASSUME NEW u \in Threads
          PROVE  /\ pc'[u] = "joined" => arg'[u] \in Threads
                 /\ pc'[u] \in {"locked", "relock"} => arg'[u] \in Mutexes
      BY <2>7 DEF Inv, TagInv
    <3> QED BY <3>1, <3>2, <3>3, <3>4, <3>5 DEF TagInv
  <2>14. PlaceInv'
    <3>1. ASSUME NEW u \in Threads, NEW d \in CVs, NEW e \in CVs,
                 u \in Range(cv_queue'[d]), u \in Range(cv_queue'[e])
          PROVE  d = e
      BY <1>1, <2>6, <3>1 DEF Inv, PlaceInv, Blocked
    <3>2. ASSUME NEW u \in Threads
          PROVE  /\ u \in Range(ready_queue') => ~Blocked(u)'
                 /\ u = h => u \notin Range(ready_queue') /\ ~Blocked(u)'
                 /\ Unfinished(u)' => u = h \/ u \in Range(ready_queue') \/ Blocked(u)'
      BY <1>1, <1>3, <2>3, <2>5, <2>7, <2>8 DEF Inv, PlaceInv, Unfinished
    <3> QED BY <2>1, <3>1, <3>2 DEF PlaceInv
  <2>15. MutexInv'
    BY <1>1, <1>2, <2>7 DEF HandedOver, MutexInv, HolderInv
  <2> QED BY <2>9, <2>10, <2>11, <2>12, <2>13, <2>14, <2>15 DEF Inv
<1> QED BY <1>4, <1>5

-----------------------------------------------------------------------------
(* The theorems.                                                             *)

\* Every step of the library preserves Inv.
LEMMA StepInv == Inv /\ [Next]_vars => Inv'
<1> SUFFICES ASSUME Inv, [Next]_vars PROVE Inv'
  OBVIOUS
<1>1. CASE cpu_init
  BY <1>1, CpuInitInv
<1>2. ASSUME NEW t \in Threads, resume(t) PROVE Inv'
  <2>1. CASE Thread_running_start(t) \/ return_from_switch(t)
    BY <2>1, LeaveInv
  <2>2. CASE return_from_lock(t)
    BY <2>2, LockedInv
  <2>3. CASE wait_relock(t)
    <3>1. arg[t] \in Mutexes
      BY <2>3 DEF wait_relock, At, Inv, TagInv
    <3> QED BY <2>3, <3>1, LockInv DEF wait_relock
  <2> QED BY <1>2, <2>1, <2>2, <2>3 DEF resume
<1>3. ASSUME NEW t \in Threads,
             \/ thread_create(t) \/ thread_create_fails(t)
             \/ Thread_running_end(t) \/ yield(t) \/ Handler_interrupt(t)
      PROVE  Inv'
  BY <1>3, CreateInv, CreateFailsInv, EndInv, YieldInv DEF Handler_interrupt
<1>4. ASSUME NEW t \in Threads, NEW u \in Threads,
             join(t, u) \/ thread_destroy(t, u)
      PROVE  Inv'
  BY <1>4, JoinStepInv, DestroyInv
<1>5. ASSUME NEW t \in Threads, NEW m \in Mutexes, lock(t, m) \/ unlock(t, m)
      PROVE  Inv'
  BY <1>5, LockInv, UnlockInv DEF lock
<1>6. ASSUME NEW t \in Threads, NEW c \in CVs, signal(t, c) \/ broadcast(t, c)
      PROVE  Inv'
  BY <1>6, WakeInv
<1>7. ASSUME NEW t \in Threads, NEW c \in CVs, NEW m \in Mutexes, wait(t, c, m)
      PROVE  Inv'
  BY <1>7, WaitInv
<1>8. CASE exited \/ UNCHANGED vars
  BY <1>8, StutterInv DEF exited
<1> QED BY <1>1, <1>2, <1>3, <1>4, <1>5, <1>6, <1>7, <1>8 DEF Next

\* Inv holds in every reachable state.
LEMMA Invariance == Spec => []Inv
<1>1. Init => Inv
  BY InitInv
<1>2. Inv /\ [Next]_vars => Inv'
  BY StepInv
<1> QED BY <1>1, <1>2, PTL DEF Spec

\* Type correctness of the library's state.
THEOREM TypeCorrect == Spec => []TypeOK
<1>1. Inv => TypeOK
  BY DEF Inv
<1> QED BY <1>1, Invariance, PTL

\* No interleaving of calls, interrupts and hand-offs loses or duplicates a
\* thread index: every unfinished thread is in exactly one place.
THEOREM Conservation == Spec => []ThreadsConserved
<1>1. Inv => ThreadsConserved
  <2> SUFFICES ASSUME Inv PROVE ThreadsConserved
    OBVIOUS
  <2>1. \A t \in Threads : Live(t) <=> Unfinished(t)
    BY DEF Inv, BookInv, Live, Unfinished
  <2>2. QueuesInjective
    BY DEF Inv
  <2>3. QueuesDisjoint
    <3>1. ASSUME NEW t \in Threads, NEW u \in Threads, NEW m \in Mutexes, NEW c \in CVs
          PROVE  /\ ~(t \in Range(join_queue[u]) /\ t \in Range(waiting_queue[m]))
                 /\ ~(t \in Range(join_queue[u]) /\ t \in Range(cv_queue[c]))
                 /\ ~(t \in Range(waiting_queue[m]) /\ t \in Range(cv_queue[c]))
      BY DEF Inv, TagInv
    <3>2. ASSUME NEW t \in Threads
          PROVE  /\ \A u, v \in Threads :
                      t \in Range(join_queue[u]) /\ t \in Range(join_queue[v]) => u = v
                 /\ \A m, n \in Mutexes :
                      t \in Range(waiting_queue[m]) /\ t \in Range(waiting_queue[n])
                        => m = n
      BY DEF Inv, TagInv
    <3>3. ASSUME NEW t \in Threads
          PROVE  /\ t \in Range(ready_queue) => ~Blocked(t)
                 /\ t = current_index => t \notin Range(ready_queue) /\ ~Blocked(t)
                 /\ \A c, d \in CVs :
                      t \in Range(cv_queue[c]) /\ t \in Range(cv_queue[d]) => c = d
      BY DEF Inv, PlaceInv
    <3> QED BY <3>1, <3>2, <3>3 DEF QueuesDisjoint
  <2>4. NoThreadLost
    <3>1. ASSUME NEW t \in Threads, t \in Range(ready_queue) \/ Blocked(t)
          PROVE  Unfinished(t)
      BY <3>1 DEF Inv, TagInv, Blocked, Unfinished
    <3> QED BY <2>1, <3>1 DEF Inv, PlaceInv, NoThreadLost
  <2> QED BY <2>2, <2>3, <2>4 DEF ThreadsConserved
<1> QED BY <1>1, Invariance, PTL

\* Two threads are never both past the lock() or wait() of one mutex.
THEOREM Exclusion == Spec => []MutualExclusion
<1>1. Inv => MutualExclusion
  <2> SUFFICES ASSUME Inv, NEW t \in Threads, NEW u \in Threads, t # u,
                      NEW m \in owned[t] \cap owned[u]
               PROVE  FALSE
    BY DEF MutualExclusion
  <2>1. m \in Mutexes
    BY DEF Inv, TypeOK
  <2> QED BY <2>1 DEF Inv, MutexInv, HolderInv
<1> QED BY <1>1, Invariance, PTL

\* A free mutex has no waiters and a finished thread no joiners.
THEOREM WakeupsNotLost == Spec => []NoLostWakeup
<1>1. Inv => NoLostWakeup
  <2> SUFFICES ASSUME Inv PROVE NoLostWakeup
    OBVIOUS
  <2>1. ASSUME NEW t \in Threads, pos_map[t], join_queue[t] # <<>> PROVE FALSE
    <3>1. Head(join_queue[t]) \in Threads /\ Head(join_queue[t]) \in Range(join_queue[t])
      BY <2>1, PopQueue DEF Inv, TypeOK
    <3> QED BY <2>1, <3>1 DEF Inv, TagInv, BookInv, Unfinished
  <2> QED BY <2>1 DEF Inv, MutexInv, FieldsInv, NoLostWakeup
<1> QED BY <1>1, Invariance, PTL

\* A thread leaves join only after the thread it joined has finished.
THEOREM JoinWaits == Spec => []JoinAfterFinish
<1>1. Inv => JoinAfterFinish
  BY DEF Inv, JoinAfterFinish, JoinInv, TagInv, PlaceInv, Blocked
<1> QED BY <1>1, Invariance, PTL

\* Interrupts are enabled exactly while application code runs.
THEOREM InterruptDiscipline == Spec => []InterruptsMatchMode
<1>1. Inv => InterruptsMatchMode
  BY DEF Inv
<1> QED BY <1>1, Invariance, PTL

\* No stack or context is freed while its thread can run, and at most one
\* finished thread still has any.
THEOREM Reclamation == Spec => []StacksReclaimedSafely
<1>1. Inv => StacksReclaimedSafely
  BY DEF Inv, StacksReclaimedSafely, StackInv, BookInv, Live, Unfinished
<1> QED BY <1>1, Invariance, PTL

\* The CPU is suspended, and the program ended, only when nothing can run.
THEOREM SuspensionJustified == Spec => []SuspendedOnlyWhenStuck
<1>1. Inv => SuspendedOnlyWhenStuck
  <2> SUFFICES ASSUME Inv, suspended
               PROVE  /\ ready_queue = <<>>
                      /\ \A t \in Threads : Live(t) /\ t # current_index => Blocked(t)
                      /\ \A u \in Threads : join_queue[u] # <<>> => Live(u)
                      /\ \A m \in Mutexes : waiting_queue[m] # <<>> => ~status[m]
    BY DEF SuspendedOnlyWhenStuck
  <2>1. ready_queue = <<>>
    BY DEF Inv, CpuInv
  <2>2. ASSUME NEW t \in Threads, Live(t), t # current_index PROVE Blocked(t)
    BY <2>1, <2>2, EmptyQueue DEF Inv, PlaceInv, BookInv, Live, Unfinished
  <2>3. ASSUME NEW u \in Threads, join_queue[u] # <<>> PROVE Live(u)
    <3>1. Head(join_queue[u]) \in Threads /\ Head(join_queue[u]) \in Range(join_queue[u])
      BY <2>3, PopQueue DEF Inv, TypeOK
    <3> QED BY <3>1 DEF Inv, TagInv, BookInv, Live, Unfinished
  <2>4. ASSUME NEW m \in Mutexes, waiting_queue[m] # <<>> PROVE ~status[m]
    BY <2>4 DEF Inv, MutexInv, FieldsInv
  <2> QED BY <2>1, <2>2, <2>3, <2>4
<1> QED BY <1>1, Invariance, PTL

\* A waiting thread is never overtaken in becoming the holder of a mutex.
THEOREM FifoHandOff == Spec => NoBarging
<1> DEFINE A == \A m \in Mutexes :
                  waiting_queue[m] # <<>> /\ holder'[m] # holder[m]
                    => holder'[m] = Head(waiting_queue[m])
<1>1. Inv /\ [Next]_vars => [A]_vars
  <2> SUFFICES ASSUME Inv, Next, NEW m \in Mutexes, waiting_queue[m] # <<>>,
                      holder'[m] # holder[m]
               PROVE  holder'[m] = Head(waiting_queue[m])
    OBVIOUS
  <2>1. ~status[m] /\ holder \in [Mutexes -> Threads \cup {NoThread}]
    BY DEF Inv, MutexInv, FieldsInv, TypeOK
  <2>2. ASSUME NEW t \in Threads, NEW n \in Mutexes, inner_lock(t, n) PROVE FALSE
    BY <2>1, <2>2 DEF inner_lock, mutexVars
  <2>3. ASSUME NEW t \in Threads, NEW n \in Mutexes, inner_unlock(t, n)
        PROVE  holder'[m] = Head(waiting_queue[m])
    BY <2>1, <2>3 DEF inner_unlock
  <2>4. ~UNCHANGED holder
    OBVIOUS
  <2>5. ASSUME NEW t \in Threads, resume(t)
        PROVE  holder'[m] = Head(waiting_queue[m])
    <3>1. CASE wait_relock(t)
      <4>1. arg[t] \in Mutexes
        BY <3>1 DEF wait_relock, At, Inv, TagInv
      <4> QED BY <2>2, <3>1, <4>1 DEF wait_relock
    <3> QED BY <2>4, <2>5, <3>1
        DEF resume, Thread_running_start, return_from_switch, return_from_lock,
            mutexVars
  <2>6. ASSUME NEW t \in Threads, NEW n \in Mutexes, lock(t, n) \/ unlock(t, n)
        PROVE  holder'[m] = Head(waiting_queue[m])
    BY <2>2, <2>3, <2>6 DEF lock, unlock
  <2>7. ASSUME NEW t \in Threads, NEW c \in CVs, NEW n \in Mutexes, wait(t, c, n)
        PROVE  holder'[m] = Head(waiting_queue[m])
    BY <2>3, <2>7 DEF wait
  <2> QED BY <2>4, <2>5, <2>6, <2>7
      DEF Next, cpu_init, thread_create, thread_create_fails, Thread_running_end, yield,
          Handler_interrupt, join, thread_destroy, signal, broadcast, exited,
          mutexVars, vars
<1>2. Spec => [][A]_vars
  BY <1>1, Invariance, PTL DEF Spec
<1> QED BY <1>2 DEF NoBarging
=============================================================================
