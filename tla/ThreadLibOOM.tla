---------------------------- MODULE ThreadLibOOM ----------------------------
(***************************************************************************)
(* ThreadLib when memory runs out late in the constructor of class thread: *)
(* ready_queue.push has succeeded and one of the two map insertions after  *)
(* it throws std::bad_alloc, which is caught, interrupts are enabled and   *)
(* the exception is thrown on.                                             *)
(***************************************************************************)
EXTENDS ThreadLib

\* The index stays in ready_queue without a context, and the generator, not
\* yet incremented, will hand it out again.
thread_create_fails_late(t) ==
  LET new == thread_index_generator
  IN  /\ At(t, "user")
      /\ new < MaxThreads
      /\ stack_map' = stack_map \cup {new}
      /\ ready_queue' = Append(ready_queue, new)
      /\ UNCHANGED <<cpuVars, current_index, join_queue, pos_map, index2context,
                     ptr_to_delete, newVars, mutexVars, cv_queue, resumeVars>>

NextOOM == Next \/ \E t \in Threads : thread_create_fails_late(t)

SpecOOM == Init /\ [][NextOOM]_vars

\* thread.cpp: "ready_queue contains index of threads that are ready to run":
\* each index in it has a context that swapcontext or setcontext can switch to.
ReadyHasContext == Range(ready_queue) \subseteq index2context
=============================================================================
