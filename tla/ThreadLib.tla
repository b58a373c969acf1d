------------------------------ MODULE ThreadLib ------------------------------
(***************************************************************************)
(* The user-level thread library of src/Mutex_cv: thread.cpp, mutex.cpp,   *)
(* cv.cpp, cpu.cpp and raiiinterrupt.cpp, on the single simulated CPU the  *)
(* library supports.                                                       *)
(*                                                                         *)
(* A library call runs with interrupts disabled, so it is one action up    *)
(* to the point where it switches context.  What a thread that was         *)
(* switched out still has to do when it is next dispatched is its resume   *)
(* point pc[t]:                                                            *)
(*   "none"    the index has not been handed out yet                       *)
(*   "start"   enter Thread_running                                        *)
(*   "user"    execute application code, interrupts enabled                *)
(*   "ret"     return from yield                                           *)
(*   "joined"  return from join; arg[t] is the index joined on             *)
(*   "locked"  return from lock; arg[t] is the mutex                       *)
(*   "relock"  call inner_lock at the end of cv::wait; arg[t] is the mutex *)
(*   "done"    nothing: the start function has returned                    *)
(*                                                                         *)
(* The application is arbitrary: a thread in "user" may make any call.     *)
(*                                                                         *)
(* A definition whose comment begins with "Mutant" is not part of the      *)
(* model: it is the definition after it with a plausible bug, kept to show *)
(* which property notices.                                                 *)
(***************************************************************************)
EXTENDS Integers, Sequences, Functions

CONSTANTS
  MaxThreads,   \* bound on the number of threads ever created
  Mutexes,      \* the mutex objects of the application
  CVs,          \* its condition variables
  None          \* no argument: neither a mutex nor a thread index

ASSUME ConstantsAssumption ==
  /\ MaxThreads \in Nat \ {0}
  /\ None \notin Mutexes
  /\ None \notin Int

Threads == 0 .. MaxThreads - 1      \* values of thread_index_generator
NoThread == -1

VARIABLES
  interrupts,               \* interrupts are enabled on the CPU
  suspended,                \* interrupt_enable_suspend() was called
  ready_queue, join_queue,
  pos_map,
  stack_map,                \* indices with an entry in stack_map ...
  index2context,            \* ... and in index2context
  ptr_to_delete, current_index, thread_index_generator, first_thread,
  impl_ptr,                 \* indices with a thread object the application holds
  status, holder, waiting_queue,   \* the fields of mutex::impl
  cv_queue,                 \* waiting_queue of cv::impl
  pc, arg,                  \* resume point of every thread
  owned                     \* mutexes whose lock() has returned to the thread

cpuVars    == <<interrupts, suspended>>
schedVars  == <<ready_queue, current_index>>
bookVars   == <<pos_map, stack_map, index2context, ptr_to_delete>>
newVars    == <<thread_index_generator, first_thread, impl_ptr>>
mutexVars  == <<status, holder, waiting_queue>>
resumeVars == <<pc, arg, owned>>
vars == <<cpuVars, schedVars, join_queue, bookVars, newVars, mutexVars,
          cv_queue, resumeVars>>

ResumePoints ==
  {"none", "start", "user", "ret", "joined", "locked", "relock", "done"}

\* The types of the library's variables: only indices in
\* the range of thread_index_generator are ever queued, held or dispatched.
TypeOK ==
  /\ interrupts \in BOOLEAN
  /\ suspended \in BOOLEAN
  /\ ready_queue \in Seq(Threads)
  /\ join_queue \in [Threads -> Seq(Threads)]
  /\ pos_map \in [Threads -> BOOLEAN]
  /\ stack_map \in SUBSET Threads
  /\ index2context \in SUBSET Threads
  /\ ptr_to_delete \in Threads \cup {NoThread}
  /\ current_index \in Threads \cup {NoThread}
  /\ thread_index_generator \in 0 .. MaxThreads
  /\ first_thread \in BOOLEAN
  /\ impl_ptr \in SUBSET Threads
  /\ status \in [Mutexes -> BOOLEAN]
  /\ holder \in [Mutexes -> Threads \cup {NoThread}]
  /\ waiting_queue \in [Mutexes -> Seq(Threads)]
  /\ cv_queue \in [CVs -> Seq(Threads)]
  /\ pc \in [Threads -> ResumePoints]
  /\ arg \in [Threads -> Threads \cup Mutexes \cup {None}]
  /\ owned \in [Threads -> SUBSET Mutexes]

-----------------------------------------------------------------------------
(* Program start: static initialisers, mutex and cv constructors; the CPU   *)
(* starts with interrupts disabled.                                         *)
Init ==
  /\ interrupts = FALSE
  /\ suspended = FALSE
  /\ ready_queue = <<>>
  /\ join_queue = [t \in Threads |-> <<>>]
  /\ pos_map = [t \in Threads |-> FALSE]
  /\ stack_map = {}
  /\ index2context = {}
  /\ ptr_to_delete = NoThread
  /\ current_index = NoThread
  /\ thread_index_generator = 0
  /\ first_thread = TRUE
  /\ impl_ptr = {}
  /\ status = [m \in Mutexes |-> TRUE]
  /\ holder = [m \in Mutexes |-> NoThread]
  /\ waiting_queue = [m \in Mutexes |-> <<>>]
  /\ cv_queue = [c \in CVs |-> <<>>]
  /\ pc = [t \in Threads |-> "none"]
  /\ arg = [t \in Threads |-> None]
  /\ owned = [t \in Threads |-> {}]

-----------------------------------------------------------------------------
(* Shared steps of the calls.                                               *)

\* The running thread t is at point p, and the program has not been ended.
At(t, p) == t = current_index /\ ~suspended /\ pc[t] = p

\* current_index = ready_queue.front(), pop, swapcontext or setcontext, where
\* rq is the ready queue after the pushes the call made before.
switch_context(rq) ==
  /\ current_index' = Head(rq)
  /\ ready_queue' = Tail(rq)
  /\ interrupts' = FALSE
  /\ UNCHANGED suspended

\* No thread is runnable: interrupt_enable_suspend() on the only CPU, from
\* which no other CPU can wake it.
enable_suspend ==
  /\ interrupts' = TRUE
  /\ suspended' = TRUE
  /\ UNCHANGED current_index

\* Save the running thread's context: it will resume at point p.
save_context(t, p, a) ==
  /\ pc' = [pc EXCEPT ![t] = p]
  /\ arg' = [arg EXCEPT ![t] = a]

\* Mutant: the destructor of raii_interrupt forgets interrupt_enable().
leave_library_disabled(t) ==
  /\ UNCHANGED interrupts
  /\ save_context(t, "user", None)

\* The raii_interrupt of the call in progress is destroyed; t is in user code.
leave_library(t) ==
  /\ interrupts' = TRUE
  /\ save_context(t, "user", None)

\* The entries the constructor of class thread makes for the next index.
new_thread(t) ==
  /\ stack_map' = stack_map \cup {t}
  /\ index2context' = index2context \cup {t}
  /\ pos_map' = [pos_map EXCEPT ![t] = FALSE]
  /\ thread_index_generator' = t + 1
  /\ first_thread' = FALSE

-----------------------------------------------------------------------------
(* cpu.cpp                                                                  *)

\* cpu::init creates the first thread and sets its context.  The thread object
\* is local to cpu::init: the application never gets to call join on it.
cpu_init ==
  LET t == thread_index_generator
      rq == Append(ready_queue, t)
  IN  /\ first_thread
      /\ new_thread(t)
      /\ switch_context(rq)
      /\ save_context(t, "start", None)
      /\ UNCHANGED <<join_queue, ptr_to_delete, impl_ptr, mutexVars, cv_queue,
                     owned>>

-----------------------------------------------------------------------------
(* thread.cpp                                                               *)

\* thread::thread, called by a running thread.
thread_create(t) ==
  LET new == thread_index_generator
  IN  /\ At(t, "user")
      /\ new < MaxThreads
      /\ new_thread(new)
      /\ ready_queue' = Append(ready_queue, new)
      /\ impl_ptr' = impl_ptr \cup {new}
      /\ save_context(new, "start", None)
      /\ UNCHANGED <<cpuVars, current_index, join_queue, ptr_to_delete,
                     mutexVars, cv_queue, owned>>

\* thread::thread when memory runs out before ready_queue.push: the exception
\* leaves at most the entry in stack_map behind (earlier, nothing changes).
thread_create_fails(t) ==
  /\ At(t, "user")
  /\ thread_index_generator < MaxThreads
  /\ stack_map' = stack_map \cup {thread_index_generator}
  /\ UNCHANGED <<cpuVars, schedVars, join_queue, pos_map, index2context,
                 ptr_to_delete, newVars, mutexVars, cv_queue, resumeVars>>

\* thread::~thread deletes the object, not the thread.
thread_destroy(t, u) ==
  /\ At(t, "user")
  /\ u \in impl_ptr
  /\ impl_ptr' = impl_ptr \ {u}
  /\ UNCHANGED <<cpuVars, schedVars, join_queue, bookVars,
                 thread_index_generator, first_thread, mutexVars, cv_queue,
                 resumeVars>>

\* Thread_running up to func(para).
Thread_running_start(t) ==
  /\ At(t, "start")
  /\ leave_library(t)
  /\ UNCHANGED <<suspended, schedVars, join_queue, bookVars, newVars, mutexVars,
                 cv_queue, owned>>

\* Mutant: a finishing thread frees the stack it is running on.
delete_current(keys) == keys \ {current_index}

\* The keys of stack_map and index2context once ptr_to_delete has been deleted.
delete_previous(keys) == keys \ {ptr_to_delete}

\* Thread_running from the return of func(para): wake the joiners, delete what
\* the previously finished thread left, run the next thread or end.
Thread_running_end(t) ==
  LET rq == ready_queue \o join_queue[t]
  IN  /\ At(t, "user")
      /\ pos_map' = [pos_map EXCEPT ![t] = TRUE]
      /\ join_queue' = [u \in Threads |->
                          IF u \in {t, ptr_to_delete} THEN <<>> ELSE join_queue[u]]
      /\ stack_map' = delete_previous(stack_map)
      /\ index2context' = delete_previous(index2context)
      /\ ptr_to_delete' = t
      /\ save_context(t, "done", None)
      /\ \/ rq # <<>> /\ switch_context(rq)
         \/ rq = <<>> /\ enable_suspend /\ UNCHANGED ready_queue
      /\ UNCHANGED <<newVars, mutexVars, cv_queue, owned>>

\* Mutant: the yielding thread goes to the front of the queue.
yield_to_self(t) ==
  /\ At(t, "user")
  /\ ready_queue # <<>>
  /\ save_context(t, "ret", None)
  /\ switch_context(<<t>> \o ready_queue)
  /\ UNCHANGED <<join_queue, bookVars, newVars, mutexVars, cv_queue, owned>>

\* thread::yield.
yield(t) ==
  /\ At(t, "user")
  /\ ready_queue # <<>>
  /\ save_context(t, "ret", None)
  /\ switch_context(Append(ready_queue, t))
  /\ UNCHANGED <<join_queue, bookVars, newVars, mutexVars, cv_queue, owned>>

\* A timer interrupt, delivered only while interrupts are enabled, runs
\* Handler_interrupt, which yields.
Handler_interrupt(t) == interrupts /\ yield(t)

\* Mutant: the caller of join stays ready.
wait_for_thread_ready(t, u) ==
  /\ switch_context(Append(ready_queue, t))
  /\ save_context(t, "joined", u)
  /\ UNCHANGED join_queue

\* join gives up the CPU until thread u finishes.
wait_for_thread(t, u) ==
  /\ join_queue' = [join_queue EXCEPT ![u] = Append(@, t)]
  /\ switch_context(ready_queue)
  /\ save_context(t, "joined", u)

\* thread::join on an unfinished thread (on a finished one it returns at once).
join(t, u) ==
  /\ At(t, "user")
  /\ u \in impl_ptr
  /\ ~pos_map[u]
  /\ \/ ready_queue # <<>> /\ wait_for_thread(t, u)
     \/ /\ ready_queue = <<>>
        /\ enable_suspend
        /\ UNCHANGED <<ready_queue, join_queue, pc, arg>>
  /\ UNCHANGED <<bookVars, newVars, mutexVars, cv_queue, owned>>

\* A dispatched thread leaves yield or join.
return_from_switch(t) ==
  /\ At(t, "ret") \/ At(t, "joined")
  /\ leave_library(t)
  /\ UNCHANGED <<suspended, schedVars, join_queue, bookVars, newVars, mutexVars,
                 cv_queue, owned>>

-----------------------------------------------------------------------------
(* mutex.cpp                                                                *)

\* Mutant: the waiting queue of a mutex is a stack.
wait_for_mutex_lifo(t, m) ==
  /\ waiting_queue' = [waiting_queue EXCEPT ![m] = <<t>> \o @]
  /\ switch_context(ready_queue)
  /\ save_context(t, "locked", m)

\* inner_lock gives up the CPU until mutex m is handed to t.
wait_for_mutex(t, m) ==
  /\ waiting_queue' = [waiting_queue EXCEPT ![m] = Append(@, t)]
  /\ switch_context(ready_queue)
  /\ save_context(t, "locked", m)

\* mutex::impl::inner_lock called by t; when it returns without a switch the
\* caller returns to user code too.
inner_lock(t, m) ==
  \/ /\ status[m]
     /\ status' = [status EXCEPT ![m] = FALSE]
     /\ holder' = [holder EXCEPT ![m] = t]
     /\ leave_library(t)
     /\ owned' = [owned EXCEPT ![t] = @ \cup {m}]
     /\ UNCHANGED <<waiting_queue, suspended, schedVars>>
  \/ /\ ~status[m]
     /\ ready_queue # <<>>
     /\ wait_for_mutex(t, m)
     /\ UNCHANGED <<status, holder, owned>>
  \/ /\ ~status[m]
     /\ ready_queue = <<>>
     /\ enable_suspend
     /\ UNCHANGED <<ready_queue, mutexVars, resumeVars>>

\* mutex::lock.
lock(t, m) ==
  /\ At(t, "user")
  /\ inner_lock(t, m)
  /\ UNCHANGED <<join_queue, bookVars, newVars, cv_queue>>

\* A thread that waited in lock and was given the mutex by inner_unlock.
return_from_lock(t) ==
  /\ At(t, "locked")
  /\ leave_library(t)
  /\ owned' = [owned EXCEPT ![t] = @ \cup {arg[t]}]
  /\ UNCHANGED <<suspended, schedVars, join_queue, bookVars, newVars, mutexVars,
                 cv_queue>>

\* Mutant: the new holder is not made ready.
unlock_forgets_waiter(m) == ready_queue

\* Mutant: holder, just reset, is pushed instead of the first waiter.
unlock_pushes_holder(m) ==
  IF waiting_queue[m] = <<>> THEN ready_queue
  ELSE Append(ready_queue, NoThread)

\* The ready queue after inner_unlock(m): the first waiter, if any, is ready.
unlock_ready(m) ==
  IF waiting_queue[m] = <<>> THEN ready_queue
  ELSE Append(ready_queue, Head(waiting_queue[m]))

\* Mutant: the mutex stays free when it is handed to a waiter.
inner_unlock_stays_free(t, m) ==
  /\ holder[m] = t
  /\ status' = [status EXCEPT ![m] = TRUE]
  /\ \/ /\ waiting_queue[m] = <<>>
        /\ holder' = [holder EXCEPT ![m] = NoThread]
        /\ UNCHANGED waiting_queue
     \/ /\ waiting_queue[m] # <<>>
        /\ holder' = [holder EXCEPT ![m] = Head(waiting_queue[m])]
        /\ waiting_queue' = [waiting_queue EXCEPT ![m] = Tail(@)]
  /\ owned' = [owned EXCEPT ![t] = @ \ {m}]

\* mutex::impl::inner_unlock by the holder (anyone else gets a runtime_error
\* and changes nothing): the mutex is handed to the first waiter.
inner_unlock(t, m) ==
  /\ holder[m] = t
  /\ \/ /\ waiting_queue[m] = <<>>
        /\ holder' = [holder EXCEPT ![m] = NoThread]
        /\ status' = [status EXCEPT ![m] = TRUE]
        /\ UNCHANGED waiting_queue
     \/ /\ waiting_queue[m] # <<>>
        /\ holder' = [holder EXCEPT ![m] = Head(waiting_queue[m])]
        /\ status' = [status EXCEPT ![m] = FALSE]
        /\ waiting_queue' = [waiting_queue EXCEPT ![m] = Tail(@)]
  /\ owned' = [owned EXCEPT ![t] = @ \ {m}]

\* mutex::unlock.
unlock(t, m) ==
  /\ At(t, "user")
  /\ inner_unlock(t, m)
  /\ ready_queue' = unlock_ready(m)
  /\ UNCHANGED <<cpuVars, current_index, join_queue, bookVars, newVars, cv_queue,
                 pc, arg>>

-----------------------------------------------------------------------------
(* cv.cpp                                                                   *)

\* cv::wait up to its swapcontext.
wait(t, c, m) ==
  LET rq == unlock_ready(m)
  IN  /\ At(t, "user")
      /\ inner_unlock(t, m)
      /\ \/ /\ rq # <<>>
            /\ cv_queue' = [cv_queue EXCEPT ![c] = Append(@, t)]
            /\ switch_context(rq)
            /\ save_context(t, "relock", m)
         \/ /\ rq = <<>>
            /\ enable_suspend
            /\ UNCHANGED <<ready_queue, cv_queue, pc, arg>>
      /\ UNCHANGED <<join_queue, bookVars, newVars>>

\* cv::wait from its swapcontext on: the woken thread locks the mutex again.
wait_relock(t) ==
  /\ At(t, "relock")
  /\ inner_lock(t, arg[t])
  /\ UNCHANGED <<join_queue, bookVars, newVars, cv_queue>>

\* cv::signal (with no waiter it does nothing).
signal(t, c) ==
  /\ At(t, "user")
  /\ cv_queue[c] # <<>>
  /\ ready_queue' = Append(ready_queue, Head(cv_queue[c]))
  /\ cv_queue' = [cv_queue EXCEPT ![c] = Tail(@)]
  /\ UNCHANGED <<cpuVars, current_index, join_queue, bookVars, newVars,
                 mutexVars, resumeVars>>

\* cv::broadcast.
broadcast(t, c) ==
  /\ At(t, "user")
  /\ cv_queue[c] # <<>>
  /\ ready_queue' = ready_queue \o cv_queue[c]
  /\ cv_queue' = [cv_queue EXCEPT ![c] = <<>>]
  /\ UNCHANGED <<cpuVars, current_index, join_queue, bookVars, newVars,
                 mutexVars, resumeVars>>

-----------------------------------------------------------------------------
\* What the dispatched thread does inside the library, interrupts disabled.
resume(t) ==
  \/ Thread_running_start(t)
  \/ return_from_switch(t)
  \/ return_from_lock(t)
  \/ wait_relock(t)

\* The program has exited: every CPU is suspended.
exited == suspended /\ UNCHANGED vars

Next ==
  \/ cpu_init
  \/ \E t \in Threads :
       \/ resume(t)
       \/ thread_create(t)
       \/ thread_create_fails(t)
       \/ Thread_running_end(t)
       \/ yield(t)
       \/ Handler_interrupt(t)
       \/ \E u \in Threads : join(t, u) \/ thread_destroy(t, u)
       \/ \E m \in Mutexes : lock(t, m) \/ unlock(t, m)
       \/ \E c \in CVs :
            \/ signal(t, c)
            \/ broadcast(t, c)
            \/ \E m \in Mutexes : wait(t, c, m)
  \/ exited

Spec == Init /\ [][Next]_vars

-----------------------------------------------------------------------------
(* Safety properties.                                                       *)

\* Threads that exist and have not finished.
Live(t) == t < thread_index_generator /\ ~pos_map[t]

\* Thread t is in one of the queues it can be woken from.
Blocked(t) ==
  \/ \E u \in Threads : t \in Range(join_queue[u])
  \/ \E m \in Mutexes : t \in Range(waiting_queue[m])
  \/ \E c \in CVs : t \in Range(cv_queue[c])

\* No queue holds an index twice.
QueuesInjective ==
  /\ IsInjective(ready_queue)
  /\ \A u \in Threads : IsInjective(join_queue[u])
  /\ \A m \in Mutexes : IsInjective(waiting_queue[m])
  /\ \A c \in CVs : IsInjective(cv_queue[c])

\* No index is in two queues, and the running thread is in none.
QueuesDisjoint ==
  \A t \in Threads :
    /\ t \in Range(ready_queue) => ~Blocked(t)
    /\ t = current_index => t \notin Range(ready_queue) /\ ~Blocked(t)
    /\ \A u, v \in Threads :
         t \in Range(join_queue[u]) /\ t \in Range(join_queue[v]) => u = v
    /\ \A m, n \in Mutexes :
         t \in Range(waiting_queue[m]) /\ t \in Range(waiting_queue[n]) => m = n
    /\ \A c, d \in CVs :
         t \in Range(cv_queue[c]) /\ t \in Range(cv_queue[d]) => c = d
    /\ \A u \in Threads, m \in Mutexes, c \in CVs :
         /\ ~(t \in Range(join_queue[u]) /\ t \in Range(waiting_queue[m]))
         /\ ~(t \in Range(join_queue[u]) /\ t \in Range(cv_queue[c]))
         /\ ~(t \in Range(waiting_queue[m]) /\ t \in Range(cv_queue[c]))

\* Every unfinished thread is running, ready or blocked, and only those are.
NoThreadLost ==
  \A t \in Threads :
    /\ Live(t) => t = current_index \/ t \in Range(ready_queue) \/ Blocked(t)
    /\ t \in Range(ready_queue) \/ Blocked(t) => Live(t)

\* Thread conservation: whatever interleaving of yields, locks, waits, signals
\* and joins moved the indices around, each unfinished thread is in exactly one
\* of the CPU, the ready queue, a join queue, a mutex's and a condition
\* variable's waiting queue (the pushes and pops of thread.cpp, mutex.cpp,
\* cv.cpp); a finished or uncreated one is in no queue.
ThreadsConserved == QueuesInjective /\ QueuesDisjoint /\ NoThreadLost

\* Mutual exclusion as the application sees it: two threads are never both past
\* the lock() (or wait()) of one mutex, although inner_unlock hands the mutex to
\* a waiter that only returns from lock() when it is dispatched later.
MutualExclusion ==
  \A t, u \in Threads : t # u => owned[t] \cap owned[u] = {}

\* No wake-up by unlock or by the end of a thread is lost: a free mutex has no
\* waiters (inner_unlock, inner_lock), a finished thread no joiners
\* (Thread_running, join).  What becomes of signals is up to ImplementsMonitor.
NoLostWakeup ==
  /\ \A m \in Mutexes : status[m] => waiting_queue[m] = <<>>
  /\ \A t \in Threads : pos_map[t] => join_queue[t] = <<>>

\* A thread on its way out of join is past the end of the thread it joined.
JoinAfterFinish ==
  \A t \in Threads :
    pc[t] = "joined" /\ (t = current_index \/ t \in Range(ready_queue))
      => pos_map[arg[t]]

\* Interrupts are enabled exactly while user code runs, so the assertions of
\* raii_interrupt and Thread_running hold at every call and every dispatch.
InterruptsMatchMode ==
  ~suspended /\ current_index # NoThread
    => (interrupts <=> pc[current_index] = "user")

\* The deferred deletion in Thread_running never frees the stack or context of
\* a thread that can still run, nor of the one on the CPU, and at most one
\* finished thread, ptr_to_delete, still occupies memory.
StacksReclaimedSafely ==
  \A t \in Threads :
    /\ Live(t) \/ t = current_index => t \in stack_map /\ t \in index2context
    /\ pos_map[t] /\ (t \in stack_map \/ t \in index2context)
         => t = ptr_to_delete

\* The CPU is suspended, which ends the program, only when no thread is
\* runnable: all unfinished threads but the caller are blocked on an unfinished
\* thread, a held mutex or a condition variable ("no runable thread exists").
SuspendedOnlyWhenStuck ==
  suspended =>
    /\ ready_queue = <<>>
    /\ \A t \in Threads : Live(t) /\ t # current_index => Blocked(t)
    /\ \A u \in Threads : join_queue[u] # <<>> => Live(u)
    /\ \A m \in Mutexes : waiting_queue[m] # <<>> => ~status[m]

\* No barging: while threads wait for a mutex, only the one that has waited
\* longest can become its holder; a running thread that calls lock, or a woken
\* one that locks again in cv::wait, never overtakes it.
NoBarging ==
  [][\A m \in Mutexes :
       waiting_queue[m] # <<>> /\ holder'[m] # holder[m]
         => holder'[m] = Head(waiting_queue[m])]_vars

-----------------------------------------------------------------------------
(* The library implements the monitor of module Monitor.                    *)

OwnerOf(m) ==
  IF \E t \in Threads : m \in owned[t]
  THEN CHOOSE t \in Threads : m \in owned[t]
  ELSE NoThread

Abstract == INSTANCE Monitor WITH
  owner    <- [m \in Mutexes |-> OwnerOf(m)],
  asleep   <- [c \in CVs |-> Range(cv_queue[c])],
  joining  <- [t \in Threads |-> IF pc[t] = "joined" THEN arg[t] ELSE NoThread],
  finished <- {t \in Threads : pos_map[t]}

\* Every step of the library is a step of the abstract monitor or invisible:
\* queues, hand-off and dispatching only ever do what mutexes, condition
\* variables and join may do.
ImplementsMonitor == Abstract!Spec

-----------------------------------------------------------------------------
(* Liveness.  The dispatched thread goes on executing, and timer interrupts *)
(* keep arriving: one that arrives while interrupts are disabled "will be   *)
(* saved and delivered when interrupts are re-enabled" (cpu.h), so the      *)
(* handler runs even if each single window of user code is short.           *)
FairSpec ==
  /\ Spec
  /\ WF_vars(cpu_init)
  /\ \A t \in Threads : WF_vars(resume(t)) /\ SF_vars(Handler_interrupt(t))

\* The FIFO ready queue starves nobody: a ready thread is eventually running.
ReadyThreadRuns ==
  \A t \in Threads : t \in Range(ready_queue) ~> current_index = t

\* The FIFO hand-off starves nobody: if a mutex keeps changing hands, a thread
\* waiting for it does not wait forever.
MutexNotStarved ==
  \A t \in Threads, m \in Mutexes :
    []<><<holder'[m] # holder[m]>>_vars
      => (t \in Range(waiting_queue[m]) ~> t \notin Range(waiting_queue[m]))
=============================================================================
