---------------------------- MODULE MonitorProofs ----------------------------
(***************************************************************************)
(* Proof that the thread library implements Monitor, for any number of     *)
(* threads, mutexes and condition variables: every step of the library is  *)
(* a step of the monitor or is invisible to the application.               *)
(***************************************************************************)
EXTENDS ThreadLibProofs

\* The variables of Monitor under the refinement mapping of ThreadLib.
AbsOwner == [m \in Mutexes |-> OwnerOf(m)]
AbsAsleep == [c \in CVs |-> Range(cv_queue[c])]
AbsJoining == [t \in Threads |-> IF pc[t] = "joined" THEN arg[t] ELSE NoThread]
AbsFinished == {t \in Threads : pos_map[t]}

\* Every step of the library, in the words of the monitor.
MonitorStep == [Abstract!Next]_(Abstract!vars)

\* What holder says and the application does not see: the holder is past lock()
\* or has been handed the mutex and is on its way out of lock().
HeldInv ==
  \A t \in Threads, m \in Mutexes :
    holder[m] = t => m \in owned[t] \/ (pc[t] = "locked" /\ arg[t] = m)

-----------------------------------------------------------------------------
(* The owner of a mutex.                                                     *)

\* OwnerOf is determined by owned when no two threads own a mutex.
LEMMA OwnerChoice ==
  ASSUME NEW own, NEW m,
         \A t, u \in Threads : m \in own[t] /\ m \in own[u] => t = u,
         NEW o, o = (IF \E t \in Threads : m \in own[t]
                     THEN CHOOSE t \in Threads : m \in own[t]
                     ELSE NoThread)
  PROVE  /\ o \in Threads \cup {NoThread}
         /\ \A t \in Threads : m \in own[t] <=> o = t
<1>1. NoThread \notin Threads
  BY DEF NoThread, Threads
<1>2. CASE \E t \in Threads : m \in own[t]
  <2>1. o = CHOOSE t \in Threads : m \in own[t]
    BY <1>2
  <2>2. o \in Threads /\ m \in own[o]
    BY <1>2, <2>1
  <2> QED BY <2>2
<1>3. CASE ~\E t \in Threads : m \in own[t]
  BY <1>1, <1>3
<1> QED BY <1>2, <1>3

\* The owner before a step ...
LEMMA Owner ==
  ASSUME Inv, NEW m \in Mutexes
  PROVE  /\ OwnerOf(m) \in Threads \cup {NoThread}
         /\ \A t \in Threads : m \in owned[t] <=> OwnerOf(m) = t
<1>1. \A t, u \in Threads : m \in owned[t] /\ m \in owned[u] => t = u
  BY DEF Inv, MutexInv, HolderInv
<1> QED BY <1>1, OwnerChoice DEF OwnerOf

\* ... and after it.
LEMMA OwnerNext ==
  ASSUME Inv', NEW m \in Mutexes
  PROVE  /\ OwnerOf(m)' \in Threads \cup {NoThread}
         /\ \A t \in Threads : m \in owned'[t] <=> OwnerOf(m)' = t
<1>1. \A t, u \in Threads : m \in owned'[t] /\ m \in owned'[u] => t = u
  BY DEF Inv, MutexInv, HolderInv
<1> QED BY <1>1, OwnerChoice DEF OwnerOf

\* A step that leaves owned alone changes no owner.
LEMMA OwnersKept ==
  ASSUME UNCHANGED owned
  PROVE  AbsOwner' = AbsOwner
BY DEF AbsOwner, OwnerOf

\* lock() returns with a free mutex.
LEMMA OwnerAcquires ==
  ASSUME Inv, Inv', NEW t \in Threads, NEW m \in Mutexes, OwnerOf(m) = NoThread,
         owned' = [owned EXCEPT ![t] = @ \cup {m}]
  PROVE  AbsOwner' = [AbsOwner EXCEPT ![m] = t]
<1>0. NoThread \notin Threads /\ owned \in [Threads -> SUBSET Mutexes]
  BY DEF NoThread, Threads, Inv, TypeOK
<1>1. ASSUME NEW n \in Mutexes PROVE OwnerOf(n)' = IF n = m THEN t ELSE OwnerOf(n)
  <2>1. /\ OwnerOf(n) \in Threads \cup {NoThread}
        /\ \A u \in Threads : n \in owned[u] <=> OwnerOf(n) = u
    BY Owner
  <2>2. /\ OwnerOf(n)' \in Threads \cup {NoThread}
        /\ \A u \in Threads : n \in owned'[u] <=> OwnerOf(n)' = u
    BY OwnerNext
  <2>3. \A u \in Threads : n \in owned'[u] <=> n \in owned[u] \/ (u = t /\ n = m)
    BY <1>0
  <2> QED BY <1>0, <2>1, <2>2, <2>3
<1> QED BY <1>1 DEF AbsOwner

\* The owner gives the mutex up.
LEMMA OwnerReleases ==
  ASSUME Inv, Inv', NEW t \in Threads, NEW m \in Mutexes, OwnerOf(m) = t,
         owned' = [owned EXCEPT ![t] = @ \ {m}]
  PROVE  AbsOwner' = [AbsOwner EXCEPT ![m] = NoThread]
<1>0. NoThread \notin Threads /\ owned \in [Threads -> SUBSET Mutexes]
  BY DEF NoThread, Threads, Inv, TypeOK
<1>1. ASSUME NEW n \in Mutexes PROVE OwnerOf(n)' = IF n = m THEN NoThread ELSE OwnerOf(n)
  <2>1. /\ OwnerOf(n) \in Threads \cup {NoThread}
        /\ \A u \in Threads : n \in owned[u] <=> OwnerOf(n) = u
    BY Owner
  <2>2. /\ OwnerOf(n)' \in Threads \cup {NoThread}
        /\ \A u \in Threads : n \in owned'[u] <=> OwnerOf(n)' = u
    BY OwnerNext
  <2>3. \A u \in Threads : n \in owned'[u] <=> n \in owned[u] /\ ~(u = t /\ n = m)
    BY <1>0
  <2> QED BY <1>0, <2>1, <2>2, <2>3
<1> QED BY <1>1 DEF AbsOwner

-----------------------------------------------------------------------------
(* The parts of the mapping.                                                 *)

\* A thread that executes application code, or is woken in wait(), is active.
LEMMA RunningActive ==
  ASSUME Inv, NEW t \in Threads, At(t, "user") \/ At(t, "locked") \/ At(t, "relock")
  PROVE  Abstract!Active(t)
<1>1. t = current_index /\ pc[t] \in {"user", "locked", "relock"}
  BY DEF At
<1>2. ~pos_map[t] /\ ~Blocked(t)
  BY <1>1 DEF Inv, BookInv, PlaceInv
<1>3. \A c \in CVs : t \notin Range(cv_queue[c])
  BY <1>2 DEF Blocked
<1> QED BY <1>1, <1>2, <1>3 DEF Abstract!Active

\* Steps that only move threads between queues and resume points no application
\* can tell apart.
LEMMA QuietStep ==
  ASSUME UNCHANGED <<owned, cv_queue>>,
         \A u \in Threads : pos_map'[u] <=> pos_map[u],
         \A u \in Threads : pc'[u] = "joined" <=> pc[u] = "joined",
         \A u \in Threads : pc[u] = "joined" => arg'[u] = arg[u]
  PROVE  MonitorStep
<1>1. AbsOwner' = AbsOwner
  BY OwnersKept
<1>2. AbsAsleep' = AbsAsleep
  BY DEF AbsAsleep
<1>3. AbsJoining' = AbsJoining
  BY DEF AbsJoining
<1>4. AbsFinished' = AbsFinished
  BY DEF AbsFinished
<1> QED
  BY <1>1, <1>2, <1>3, <1>4
  DEF MonitorStep, Abstract!vars, AbsOwner, AbsAsleep, AbsJoining, AbsFinished

\* The running thread goes from one resume point to another, neither in join.
LEMMA JoiningKept ==
  ASSUME Inv, NEW t \in Threads, NEW p, NEW a, save_context(t, p, a),
         pc[t] # "joined", p # "joined"
  PROVE  AbsJoining' = AbsJoining
<1>1. \A u \in Threads : /\ pc'[u] = IF u = t THEN p ELSE pc[u]
                         /\ arg'[u] = IF u = t THEN a ELSE arg[u]
  BY DEF save_context, Inv, TypeOK
<1> QED BY <1>1 DEF AbsJoining

\* HeldInv is about threads on their way out of lock() only.
LEMMA HeldKept ==
  ASSUME HeldInv, UNCHANGED <<holder, owned>>,
         \A u \in Threads : pc[u] = "locked" => pc'[u] = "locked" /\ arg'[u] = arg[u]
  PROVE  HeldInv'
BY DEF HeldInv

\* ... so a running thread that is not may go to any resume point.
LEMMA HeldMoved ==
  ASSUME Inv, HeldInv, UNCHANGED <<holder, owned>>,
         NEW t \in Threads, NEW p, NEW a, save_context(t, p, a), pc[t] # "locked"
  PROVE  HeldInv'
<1>1. \A u \in Threads : u # t => pc'[u] = pc[u] /\ arg'[u] = arg[u]
  BY DEF save_context, Inv, TypeOK
<1> QED BY <1>1, HeldKept

\* Such a step is invisible when it neither begins nor ends a join.
LEMMA QuietMove ==
  ASSUME Inv, UNCHANGED <<owned, cv_queue, pos_map>>,
         NEW t \in Threads, NEW p, NEW a, save_context(t, p, a),
         pc[t] # "joined", p # "joined"
  PROVE  MonitorStep
<1>1. \A u \in Threads : /\ pc'[u] = IF u = t THEN p ELSE pc[u]
                         /\ u # t => arg'[u] = arg[u]
  BY DEF save_context, Inv, TypeOK
<1> QED BY <1>1, QuietStep

-----------------------------------------------------------------------------
(* The steps of the library.                                                 *)

\* Nothing the application can see changes.
LEMMA StutterMonitor ==
  ASSUME HeldInv, UNCHANGED <<holder, owned, cv_queue, pos_map, pc, arg>>
  PROVE  HeldInv' /\ MonitorStep
BY HeldKept, QuietStep

\* A new thread is active, as it was before it was created.
LEMMA NewThreadMonitor ==
  ASSUME Inv, HeldInv, cpu_init \/ \E t \in Threads : thread_create(t)
  PROVE  HeldInv' /\ MonitorStep
<1>n. PICK n \in Threads : n = thread_index_generator
  BY ConstantsAssumption DEF Inv, TypeOK, BookInv, cpu_init, thread_create, Threads
<1>1. /\ pos_map' = [pos_map EXCEPT ![n] = FALSE]
      /\ save_context(n, "start", None)
      /\ UNCHANGED <<holder, owned, cv_queue>>
  BY <1>n DEF cpu_init, thread_create, new_thread, mutexVars
<1>2. pc[n] = "none" /\ ~pos_map[n]
  BY <1>n DEF Inv, BookInv, TypeOK, Threads
<1>3. \A u \in Threads : pos_map'[u] <=> pos_map[u]
  BY <1>1, <1>2 DEF Inv, TypeOK
<1>4. \A u \in Threads : /\ pc'[u] = IF u = n THEN "start" ELSE pc[u]
                         /\ u # n => arg'[u] = arg[u]
  BY <1>1 DEF save_context, Inv, TypeOK
<1> QED BY <1>1, <1>2, <1>3, <1>4, QuietStep, HeldMoved

\* A thread enters its start function, or returns from yield.
LEMMA ReturnMonitor ==
  ASSUME Inv, HeldInv, NEW t \in Threads,
         Thread_running_start(t) \/ (return_from_switch(t) /\ pc[t] # "joined")
  PROVE  HeldInv' /\ MonitorStep
<1>1. /\ save_context(t, "user", None)
      /\ pc[t] # "joined" /\ pc[t] # "locked"
      /\ UNCHANGED <<holder, owned, cv_queue, pos_map>>
  BY DEF Thread_running_start, return_from_switch, At, leave_library, mutexVars, bookVars
<1> QED BY <1>1, QuietMove, HeldMoved

\* A thread returns from join: the other one has finished.
LEMMA JoinedMonitor ==
  ASSUME Inv, HeldInv, NEW t \in Threads, return_from_switch(t), pc[t] = "joined"
  PROVE  HeldInv' /\ MonitorStep
<1>1. /\ t = current_index
      /\ save_context(t, "user", None)
      /\ UNCHANGED <<holder, owned, cv_queue, pos_map>>
  BY DEF return_from_switch, At, leave_library, mutexVars, bookVars
<1>2. /\ arg[t] \in Threads
      /\ t \notin Range(join_queue[arg[t]])
  BY <1>1 DEF Inv, TagInv, PlaceInv, Blocked
<1>3. pos_map[arg[t]]
  BY <1>2 DEF Inv, JoinInv
<1>4. \A u \in Threads : /\ pc'[u] = IF u = t THEN "user" ELSE pc[u]
                         /\ u # t => arg'[u] = arg[u]
  BY <1>1 DEF save_context, Inv, TypeOK
<1>5. AbsJoining' = [AbsJoining EXCEPT ![t] = NoThread]
  BY <1>4 DEF AbsJoining
<1>6. AbsOwner' = AbsOwner /\ AbsAsleep' = AbsAsleep /\ AbsFinished' = AbsFinished
  BY <1>1, OwnersKept DEF AbsAsleep, AbsFinished
<1>7. AbsJoining[t] \in AbsFinished
  BY <1>2, <1>3 DEF AbsJoining, AbsFinished
<1>8. Abstract!EndJoin(t)
  BY <1>5, <1>6, <1>7
  DEF Abstract!EndJoin, AbsOwner, AbsAsleep, AbsJoining, AbsFinished
<1>9. MonitorStep
  BY <1>8 DEF MonitorStep, Abstract!Next
<1> QED BY <1>1, <1>9, HeldMoved

\* A thread that owns nothing more than before the call gets a free mutex.
LEMMA AcquireMonitor ==
  ASSUME Inv, Inv', NEW t \in Threads, NEW m \in Mutexes,
         At(t, "user") \/ At(t, "locked") \/ At(t, "relock"), OwnerOf(m) = NoThread,
         owned' = [owned EXCEPT ![t] = @ \cup {m}],
         save_context(t, "user", None), UNCHANGED <<cv_queue, pos_map>>
  PROVE  MonitorStep
<1>1. AbsOwner' = [AbsOwner EXCEPT ![m] = t]
  BY OwnerAcquires
<1>2. AbsJoining' = AbsJoining
  BY JoiningKept DEF At
<1>3. AbsAsleep' = AbsAsleep /\ AbsFinished' = AbsFinished
  BY DEF AbsAsleep, AbsFinished
<1>4. Abstract!Acquire(t, m)
  BY <1>1, <1>2, <1>3, RunningActive
  DEF Abstract!Acquire, AbsOwner, AbsAsleep, AbsJoining, AbsFinished
<1> QED BY <1>4 DEF MonitorStep, Abstract!Next

\* lock() returns with the mutex inner_unlock has handed over.
LEMMA LockedMonitor ==
  ASSUME Inv, HeldInv, Inv', NEW t \in Threads, return_from_lock(t)
  PROVE  HeldInv' /\ MonitorStep
<1>1. /\ t = current_index /\ pc[t] = "locked" /\ At(t, "locked")
      /\ save_context(t, "user", None)
      /\ owned' = [owned EXCEPT ![t] = @ \cup {arg[t]}]
      /\ UNCHANGED <<holder, cv_queue, pos_map>>
  BY DEF return_from_lock, At, leave_library, mutexVars, bookVars
<1>m. PICK m \in Mutexes : m = arg[t]
  BY <1>1 DEF Inv, TagInv
<1>2. t \notin Range(waiting_queue[m])
  BY <1>1 DEF Inv, PlaceInv, Blocked
<1>3. holder[m] = t /\ m \notin owned[t]
  BY <1>1, <1>m, <1>2 DEF Inv, MutexInv, HolderInv
<1>4. OwnerOf(m) = NoThread
  <2>1. \A u \in Threads : m \in owned[u] => holder[m] = u
    BY DEF Inv, MutexInv, HolderInv
  <2> QED BY <1>3, <2>1, Owner
<1>5. \A u \in Threads : /\ pc'[u] = IF u = t THEN "user" ELSE pc[u]
                         /\ u # t => arg'[u] = arg[u]
                         /\ owned'[u] = IF u = t THEN owned[u] \cup {m} ELSE owned[u]
  BY <1>1, <1>m DEF save_context, Inv, TypeOK
<1>6. HeldInv'
  <2> SUFFICES ASSUME NEW u \in Threads, NEW n \in Mutexes, holder'[n] = u
               PROVE  n \in owned'[u] \/ (pc'[u] = "locked" /\ arg'[u] = n)
    BY DEF HeldInv
  <2>1. n \in owned[u] \/ (pc[u] = "locked" /\ arg[u] = n)
    BY <1>1 DEF HeldInv
  <2>2. CASE u = t
    BY <1>m, <1>5, <2>1, <2>2
  <2>3. CASE u # t
    BY <1>5, <2>1, <2>3
  <2> QED BY <2>2, <2>3
<1>7. MonitorStep
  BY <1>1, <1>m, <1>4, AcquireMonitor
<1> QED BY <1>6, <1>7

\* inner_lock: the mutex is free, or the caller waits, invisibly.
LEMMA LockMonitor ==
  ASSUME Inv, HeldInv, Inv', NEW t \in Threads, NEW m \in Mutexes,
         At(t, "user") \/ At(t, "relock"), inner_lock(t, m),
         UNCHANGED <<cv_queue, pos_map>>
  PROVE  HeldInv' /\ MonitorStep
<1>0. pc[t] \in {"user", "relock"}
  BY DEF At
<1>1. CASE /\ status[m]
           /\ holder' = [holder EXCEPT ![m] = t]
           /\ leave_library(t)
           /\ owned' = [owned EXCEPT ![t] = @ \cup {m}]
  <2>1. \A u \in Threads : m \in owned[u] => holder[m] = u
    BY DEF Inv, MutexInv, HolderInv
  <2>2. holder[m] = NoThread /\ NoThread \notin Threads
    BY <1>1 DEF Inv, MutexInv, FieldsInv, NoThread, Threads
  <2>3. OwnerOf(m) = NoThread
    BY <2>1, <2>2, Owner
  <2>4. save_context(t, "user", None)
    BY <1>1 DEF leave_library
  <2>5. MonitorStep
    BY <1>1, <2>3, <2>4, AcquireMonitor
  <2>6. \A u \in Threads : /\ pc'[u] = IF u = t THEN "user" ELSE pc[u]
                           /\ u # t => arg'[u] = arg[u]
                           /\ owned'[u] = IF u = t THEN owned[u] \cup {m} ELSE owned[u]
    BY <1>1, <2>4 DEF save_context, Inv, TypeOK
  <2>7. \A n \in Mutexes : holder'[n] = IF n = m THEN t ELSE holder[n]
    BY <1>1 DEF Inv, TypeOK
  <2>8. HeldInv'
    <3> SUFFICES ASSUME NEW u \in Threads, NEW n \in Mutexes, holder'[n] = u
                 PROVE  n \in owned'[u] \/ (pc'[u] = "locked" /\ arg'[u] = n)
      BY DEF HeldInv
    <3>1. CASE n = m
      BY <2>6, <2>7, <3>1
    <3>2. CASE n # m
      <4>1. n \in owned[u] \/ (pc[u] = "locked" /\ arg[u] = n)
        BY <2>7, <3>2 DEF HeldInv
      <4> QED BY <1>0, <2>6, <4>1
    <3> QED BY <3>1, <3>2
  <2> QED BY <2>5, <2>8
<1>2. CASE wait_for_mutex(t, m) /\ UNCHANGED <<holder, owned>>
  BY <1>0, <1>2, QuietMove, HeldMoved DEF wait_for_mutex
<1>3. CASE UNCHANGED <<mutexVars, resumeVars>>
  BY <1>3, StutterMonitor DEF mutexVars, resumeVars
<1> QED BY <1>1, <1>2, <1>3 DEF inner_lock

\* What inner_unlock by an active thread means to the monitor.
LEMMA UnlockMonitor ==
  ASSUME Inv, HeldInv, NEW t \in Threads, NEW m \in Mutexes, At(t, "user"),
         inner_unlock(t, m)
  PROVE  /\ OwnerOf(m) = t
         /\ \A u \in Threads, n \in Mutexes :
              holder'[n] = u => n \in owned'[u] \/ (pc[u] = "locked" /\ arg[u] = n)
<1>1. /\ holder[m] = t /\ pc[t] = "user"
      /\ owned' = [owned EXCEPT ![t] = @ \ {m}]
  BY DEF inner_unlock, At
<1>2. m \in owned[t]
  BY <1>1 DEF HeldInv
<1>3. OwnerOf(m) = t
  BY <1>2, Owner
<1>4. /\ \A n \in Mutexes : n # m => holder'[n] = holder[n]
      /\ \/ holder'[m] = NoThread
         \/ /\ waiting_queue[m] # <<>>
            /\ holder'[m] = Head(waiting_queue[m])
  BY DEF inner_unlock, Inv, TypeOK
<1>5. ASSUME NEW u \in Threads, NEW n \in Mutexes, holder'[n] = u
      PROVE  n \in owned'[u] \/ (pc[u] = "locked" /\ arg[u] = n)
  <2>1. CASE n # m
    <3>1. n \in owned[u] \/ (pc[u] = "locked" /\ arg[u] = n)
      BY <1>4, <1>5, <2>1 DEF HeldInv
    <3> QED BY <1>1, <2>1, <3>1 DEF Inv, TypeOK
  <2>2. CASE n = m
    <3>1. u # NoThread
      BY DEF NoThread, Threads
    <3>2. waiting_queue[m] # <<>> /\ u = Head(waiting_queue[m])
      BY <1>4, <1>5, <2>2, <3>1
    <3>3. waiting_queue[m] \in Seq(Threads)
      BY DEF Inv, TypeOK
    <3>4. u \in Range(waiting_queue[m])
      BY <3>2, <3>3, PopQueue
    <3> QED BY <2>2, <3>4 DEF Inv, TagInv
  <2> QED BY <2>1, <2>2
<1> QED BY <1>3, <1>5

\* unlock() gives the mutex up; who gets it next is not visible yet.
LEMMA ReleaseMonitor ==
  ASSUME Inv, HeldInv, Inv', NEW t \in Threads, NEW m \in Mutexes, At(t, "user"),
         inner_unlock(t, m), UNCHANGED <<cv_queue, pos_map, pc, arg>>
  PROVE  HeldInv' /\ MonitorStep
<1>1. HeldInv'
  BY UnlockMonitor DEF HeldInv
<1>2. AbsOwner' = [AbsOwner EXCEPT ![m] = NoThread] /\ OwnerOf(m) = t
  BY UnlockMonitor, OwnerReleases DEF inner_unlock
<1>3. AbsAsleep' = AbsAsleep /\ AbsJoining' = AbsJoining /\ AbsFinished' = AbsFinished
  BY DEF AbsAsleep, AbsJoining, AbsFinished
<1>4. Abstract!Release(t, m)
  BY <1>2, <1>3, RunningActive
  DEF Abstract!Release, AbsOwner, AbsAsleep, AbsJoining, AbsFinished
<1> QED BY <1>1, <1>4 DEF MonitorStep, Abstract!Next

\* cv::wait releases the mutex and sleeps in one step; with no other runnable
\* thread it releases the mutex and the program ends.
LEMMA WaitMonitor ==
  ASSUME Inv, HeldInv, Inv', NEW t \in Threads, NEW c \in CVs, NEW m \in Mutexes,
         wait(t, c, m)
  PROVE  HeldInv' /\ MonitorStep
<1>1. At(t, "user") /\ inner_unlock(t, m) /\ UNCHANGED pos_map /\ pc[t] = "user"
  BY DEF wait, At, bookVars
<1>2. CASE UNCHANGED <<cv_queue, pc, arg>>
  BY <1>1, <1>2, ReleaseMonitor
<1>3. CASE /\ cv_queue' = [cv_queue EXCEPT ![c] = Append(@, t)]
           /\ save_context(t, "relock", m)
  <2>1. AbsOwner' = [AbsOwner EXCEPT ![m] = NoThread] /\ OwnerOf(m) = t
    BY <1>1, UnlockMonitor, OwnerReleases DEF inner_unlock
  <2>2. AbsJoining' = AbsJoining
    BY <1>1, <1>3, JoiningKept
  <2>3. AbsFinished' = AbsFinished
    BY <1>1 DEF AbsFinished
  <2>4. AbsAsleep' = [AbsAsleep EXCEPT ![c] = @ \cup {t}]
    <3>1. Range(Append(cv_queue[c], t)) = Range(cv_queue[c]) \cup {t}
      BY PushQueue DEF Inv, TypeOK
    <3>2. \A d \in CVs : cv_queue'[d] = IF d = c THEN Append(cv_queue[c], t)
                                        ELSE cv_queue[d]
      BY <1>3 DEF Inv, TypeOK
    <3> QED BY <3>1, <3>2 DEF AbsAsleep
  <2>5. Abstract!Wait(t, c, m)
    BY <1>1, <2>1, <2>2, <2>3, <2>4, RunningActive
    DEF Abstract!Wait, AbsOwner, AbsAsleep, AbsJoining, AbsFinished
  <2>6. \A u \in Threads : u # t => pc'[u] = pc[u] /\ arg'[u] = arg[u]
    BY <1>3 DEF save_context, Inv, TypeOK
  <2>7. HeldInv'
    BY <1>1, <2>6, UnlockMonitor DEF HeldInv
  <2> QED BY <2>5, <2>7 DEF MonitorStep, Abstract!Next
<1> QED BY <1>2, <1>3 DEF wait

\* signal wakes a sleeping thread and broadcast all of them.
LEMMA WakeMonitor ==
  ASSUME Inv, HeldInv, NEW t \in Threads, NEW c \in CVs, signal(t, c) \/ broadcast(t, c)
  PROVE  HeldInv' /\ MonitorStep
<1>1. /\ At(t, "user") /\ cv_queue[c] # <<>>
      /\ UNCHANGED <<holder, owned, pos_map, pc, arg>>
  BY DEF signal, broadcast, mutexVars, resumeVars, bookVars
<1>2. HeldInv'
  BY <1>1, HeldKept
<1>3. AbsOwner' = AbsOwner /\ AbsJoining' = AbsJoining /\ AbsFinished' = AbsFinished
  BY <1>1, OwnersKept DEF AbsJoining, AbsFinished
<1>4. cv_queue \in [CVs -> Seq(Threads)] /\ cv_queue[c] \in Seq(Threads)
  BY DEF Inv, TypeOK
<1>5. CASE signal(t, c)
  <2>u. PICK u : u = Head(cv_queue[c])
    OBVIOUS
  <2>1. u \in Range(cv_queue[c]) /\ Range(Tail(cv_queue[c])) = Range(cv_queue[c]) \ {u}
    BY <1>1, <1>4, <2>u, PopQueue DEF Inv, QueuesInjective
  <2>2. \A d \in CVs : cv_queue'[d] = IF d = c THEN Tail(cv_queue[c]) ELSE cv_queue[d]
    BY <1>4, <1>5 DEF signal
  <2>3. u \in AbsAsleep[c] /\ AbsAsleep' = [AbsAsleep EXCEPT ![c] = @ \ {u}]
    BY <2>1, <2>2 DEF AbsAsleep
  <2>4. Abstract!Signal(t, c)
    BY <1>1, <1>3, <2>3, RunningActive
    DEF Abstract!Signal, AbsOwner, AbsAsleep, AbsJoining, AbsFinished
  <2> QED BY <1>2, <2>4 DEF MonitorStep, Abstract!Next
<1>6. CASE broadcast(t, c)
  <2>1. \A d \in CVs : cv_queue'[d] = IF d = c THEN <<>> ELSE cv_queue[d]
    BY <1>4, <1>6 DEF broadcast
  <2>2. AbsAsleep' = [AbsAsleep EXCEPT ![c] = {}]
    BY <2>1, EmptyQueue DEF AbsAsleep
  <2>3. Abstract!Broadcast(t, c)
    BY <1>1, <1>3, <2>2, RunningActive
    DEF Abstract!Broadcast, AbsOwner, AbsAsleep, AbsJoining, AbsFinished
  <2> QED BY <1>2, <2>3 DEF MonitorStep, Abstract!Next
<1> QED BY <1>5, <1>6

\* join on a thread that has not finished; with no runnable thread left the
\* program ends.
LEMMA JoinMonitor ==
  ASSUME Inv, HeldInv, NEW t \in Threads, NEW u \in Threads, join(t, u)
  PROVE  HeldInv' /\ MonitorStep
<1>1. /\ At(t, "user") /\ pc[t] = "user" /\ ~pos_map[u]
      /\ UNCHANGED <<holder, owned, cv_queue, pos_map>>
  BY DEF join, At, mutexVars, bookVars
<1>2. CASE UNCHANGED <<pc, arg>>
  BY <1>1, <1>2, StutterMonitor
<1>3. CASE save_context(t, "joined", u)
  <2>1. \A v \in Threads : /\ pc'[v] = IF v = t THEN "joined" ELSE pc[v]
                           /\ arg'[v] = IF v = t THEN u ELSE arg[v]
    BY <1>3 DEF save_context, Inv, TypeOK
  <2>2. AbsJoining' = [AbsJoining EXCEPT ![t] = u]
    BY <2>1 DEF AbsJoining
  <2>3. AbsOwner' = AbsOwner /\ AbsAsleep' = AbsAsleep /\ AbsFinished' = AbsFinished
    BY <1>1, OwnersKept DEF AbsAsleep, AbsFinished
  <2>4. u \notin AbsFinished
    BY <1>1 DEF AbsFinished
  <2>5. Abstract!BeginJoin(t, u)
    BY <1>1, <2>2, <2>3, <2>4, RunningActive
    DEF Abstract!BeginJoin, AbsOwner, AbsAsleep, AbsJoining, AbsFinished
  <2>6. HeldInv'
    BY <1>1, <1>3, HeldMoved
  <2> QED BY <2>5, <2>6 DEF MonitorStep, Abstract!Next
<1> QED BY <1>2, <1>3 DEF join, wait_for_thread

\* A thread's start function returns.
LEMMA EndMonitor ==
  ASSUME Inv, HeldInv, NEW t \in Threads, Thread_running_end(t)
  PROVE  HeldInv' /\ MonitorStep
<1>1. /\ At(t, "user") /\ pc[t] = "user"
      /\ pos_map' = [pos_map EXCEPT ![t] = TRUE]
      /\ save_context(t, "done", None)
      /\ UNCHANGED <<holder, owned, cv_queue>>
  BY DEF Thread_running_end, At, mutexVars
<1>2. AbsOwner' = AbsOwner /\ AbsAsleep' = AbsAsleep
  BY <1>1, OwnersKept DEF AbsAsleep
<1>3. AbsJoining' = AbsJoining
  BY <1>1, JoiningKept
<1>4. AbsFinished' = AbsFinished \cup {t}
  BY <1>1 DEF AbsFinished, Inv, TypeOK
<1>5. Abstract!Finish(t)
  BY <1>1, <1>2, <1>3, <1>4, RunningActive
  DEF Abstract!Finish, AbsOwner, AbsAsleep, AbsJoining, AbsFinished
<1>6. HeldInv'
  BY <1>1, HeldMoved
<1> QED BY <1>5, <1>6 DEF MonitorStep, Abstract!Next

\* yield is invisible.
LEMMA YieldMonitor ==
  ASSUME Inv, HeldInv, NEW t \in Threads, yield(t)
  PROVE  HeldInv' /\ MonitorStep
<1>1. /\ pc[t] = "user" /\ save_context(t, "ret", None)
      /\ UNCHANGED <<holder, owned, cv_queue, pos_map>>
  BY DEF yield, At, mutexVars, bookVars
<1> QED BY <1>1, QuietMove, HeldMoved

-----------------------------------------------------------------------------
(* The refinement.                                                           *)

\* Every step of the library is a step of the monitor, or invisible.
LEMMA MonitorNext ==
  ASSUME Inv, HeldInv, [Next]_vars
  PROVE  HeldInv' /\ MonitorStep
<1>0. Inv'
  BY StepInv
<1>1. CASE cpu_init
  BY <1>1, NewThreadMonitor
<1>2. ASSUME NEW t \in Threads, resume(t) PROVE HeldInv' /\ MonitorStep
  <2>1. CASE Thread_running_start(t)
    BY <2>1, ReturnMonitor
  <2>2. CASE return_from_switch(t)
    BY <2>2, ReturnMonitor, JoinedMonitor
  <2>3. CASE return_from_lock(t)
    BY <1>0, <2>3, LockedMonitor
  <2>4. CASE wait_relock(t)
    <3>1. arg[t] \in Mutexes
      BY <2>4 DEF wait_relock, At, Inv, TagInv
    <3> QED BY <1>0, <2>4, <3>1, LockMonitor DEF wait_relock, bookVars
  <2> QED BY <1>2, <2>1, <2>2, <2>3, <2>4 DEF resume
<1>3. ASSUME NEW t \in Threads, thread_create(t) \/ thread_create_fails(t)
      PROVE  HeldInv' /\ MonitorStep
  BY <1>3, NewThreadMonitor, StutterMonitor DEF thread_create_fails, mutexVars, resumeVars
<1>4. ASSUME NEW t \in Threads,
             Thread_running_end(t) \/ yield(t) \/ Handler_interrupt(t)
      PROVE  HeldInv' /\ MonitorStep
  BY <1>4, EndMonitor, YieldMonitor DEF Handler_interrupt
<1>5. ASSUME NEW t \in Threads, NEW u \in Threads, join(t, u) \/ thread_destroy(t, u)
      PROVE  HeldInv' /\ MonitorStep
  BY <1>5, JoinMonitor, StutterMonitor DEF thread_destroy, mutexVars, resumeVars, bookVars
<1>6. ASSUME NEW t \in Threads, NEW m \in Mutexes, lock(t, m)
      PROVE  HeldInv' /\ MonitorStep
  BY <1>0, <1>6, LockMonitor DEF lock, bookVars
<1>7. ASSUME NEW t \in Threads, NEW m \in Mutexes, unlock(t, m)
      PROVE  HeldInv' /\ MonitorStep
  BY <1>0, <1>7, ReleaseMonitor DEF unlock, bookVars
<1>8. ASSUME NEW t \in Threads, NEW c \in CVs, signal(t, c) \/ broadcast(t, c)
      PROVE  HeldInv' /\ MonitorStep
  BY <1>8, WakeMonitor
<1>9. ASSUME NEW t \in Threads, NEW c \in CVs, NEW m \in Mutexes, wait(t, c, m)
      PROVE  HeldInv' /\ MonitorStep
  BY <1>0, <1>9, WaitMonitor
<1>10. CASE exited \/ UNCHANGED vars
  BY <1>10, StutterMonitor DEF exited, vars, mutexVars, resumeVars, bookVars
<1> QED
  BY <1>1, <1>2, <1>3, <1>4, <1>5, <1>6, <1>7, <1>8, <1>9, <1>10 DEF Next

\* At the start no mutex is owned, and no thread sleeps, joins or has finished.
LEMMA MonitorInit ==
  ASSUME Init
  PROVE  HeldInv /\ Abstract!Init
<1>1. HeldInv
  BY DEF Init, HeldInv, NoThread, Threads
<1>2. AbsOwner = [m \in Mutexes |-> NoThread]
  BY DEF AbsOwner, OwnerOf, Init
<1>3. AbsAsleep = [c \in CVs |-> {}]
  BY EmptyQueue DEF AbsAsleep, Init
<1>4. AbsJoining = [t \in Threads |-> NoThread]
  BY DEF AbsJoining, Init
<1>5. AbsFinished = {}
  BY DEF AbsFinished, Init
<1> QED
  BY <1>1, <1>2, <1>3, <1>4, <1>5
  DEF Abstract!Init, AbsOwner, AbsAsleep, AbsJoining, AbsFinished

\* The holder of a mutex is past lock(), or on its way out with the mutex handed
\* to it: inner_unlock never gives a mutex to a thread that does not want it.
LEMMA HeldInvariance == Spec => []HeldInv
<1>1. Init => HeldInv
  BY MonitorInit
<1>2. Inv /\ HeldInv /\ [Next]_vars => HeldInv'
  BY MonitorNext
<1> QED BY <1>1, <1>2, Invariance, PTL DEF Spec

\* The ready queue, the hand-off of mutexes, interrupts and dispatching only ever
\* do what mutexes, condition variables and join promise the application.
THEOREM LibraryImplementsMonitor == Spec => ImplementsMonitor
<1>1. Init => Abstract!Init
  BY MonitorInit
<1>2. Inv /\ HeldInv /\ [Next]_vars => [Abstract!Next]_(Abstract!vars)
  BY MonitorNext DEF MonitorStep
<1> QED
  BY <1>1, <1>2, Invariance, HeldInvariance, PTL
  DEF Spec, ImplementsMonitor, Abstract!Spec
=============================================================================
