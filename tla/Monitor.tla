------------------------------- MODULE Monitor -------------------------------
(***************************************************************************)
(* What the thread library of src/Mutex_cv promises an application:        *)
(* mutexes with at most one owner, Mesa-style condition variables and      *)
(* join, without queues, contexts, interrupts or a scheduler.              *)
(***************************************************************************)
CONSTANTS Threads, Mutexes, CVs, NoThread

VARIABLES
  owner,     \* the thread whose lock() or wait() has returned with the mutex
  asleep,    \* the threads inside wait() that nobody has signalled
  joining,   \* the thread each thread waits for in join()
  finished   \* threads whose start function has returned

vars == <<owner, asleep, joining, finished>>

Init ==
  /\ owner = [m \in Mutexes |-> NoThread]
  /\ asleep = [c \in CVs |-> {}]
  /\ joining = [t \in Threads |-> NoThread]
  /\ finished = {}

\* A thread that is not inside wait() or join() and has not finished.
Active(t) ==
  /\ t \notin finished
  /\ joining[t] = NoThread
  /\ \A c \in CVs : t \notin asleep[c]

Acquire(t, m) ==
  /\ Active(t)
  /\ owner[m] = NoThread
  /\ owner' = [owner EXCEPT ![m] = t]
  /\ UNCHANGED <<asleep, joining, finished>>

Release(t, m) ==
  /\ Active(t)
  /\ owner[m] = t
  /\ owner' = [owner EXCEPT ![m] = NoThread]
  /\ UNCHANGED <<asleep, joining, finished>>

\* The mutex is released and the thread put to sleep in one step.
Wait(t, c, m) ==
  /\ Active(t)
  /\ owner[m] = t
  /\ owner' = [owner EXCEPT ![m] = NoThread]
  /\ asleep' = [asleep EXCEPT ![c] = @ \cup {t}]
  /\ UNCHANGED <<joining, finished>>

Signal(t, c) ==
  /\ Active(t)
  /\ \E u \in asleep[c] : asleep' = [asleep EXCEPT ![c] = @ \ {u}]
  /\ UNCHANGED <<owner, joining, finished>>

Broadcast(t, c) ==
  /\ Active(t)
  /\ asleep' = [asleep EXCEPT ![c] = {}]
  /\ UNCHANGED <<owner, joining, finished>>

BeginJoin(t, u) ==
  /\ Active(t)
  /\ u \notin finished
  /\ joining' = [joining EXCEPT ![t] = u]
  /\ UNCHANGED <<owner, asleep, finished>>

EndJoin(t) ==
  /\ joining[t] \in finished
  /\ joining' = [joining EXCEPT ![t] = NoThread]
  /\ UNCHANGED <<owner, asleep, finished>>

Finish(t) ==
  /\ Active(t)
  /\ finished' = finished \cup {t}
  /\ UNCHANGED <<owner, asleep, joining>>

Next ==
  \E t \in Threads :
    \/ \E m \in Mutexes : Acquire(t, m) \/ Release(t, m)
    \/ \E c \in CVs :
         \/ Signal(t, c)
         \/ Broadcast(t, c)
         \/ \E m \in Mutexes : Wait(t, c, m)
    \/ \E u \in Threads : BeginJoin(t, u)
    \/ EndJoin(t)
    \/ Finish(t)

Spec == Init /\ [][Next]_vars
=============================================================================
