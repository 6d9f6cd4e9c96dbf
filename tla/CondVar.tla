------------------------------ MODULE CondVar ------------------------------
(***************************************************************************)
(* The condition variables of sys/kern/kern_condvar.c, which are built on  *)
(* a LiteOS event.  An event is a flag word, of which cv_signal and        *)
(* cv_broadcast only ever set bit 0x01, and the list of tasks pending on   *)
(* it.  The flag is sticky: a signal nobody is waiting for is kept, and it *)
(* is consumed by the first task that reads the event.                     *)
(*                                                                         *)
(* cv_wait is not atomic: it releases the mutex (line 86), reads the event *)
(* (line 90) and takes the mutex again (line 92).  The specifications that *)
(* use this module therefore give a waiting thread three control points:   *)
(*   "cv_read"    the mutex is released, the event not yet read;           *)
(*   "cv_pend"    the thread is on the list of the event, or has just been *)
(*                taken off it;                                            *)
(*   "cv_relock"  the event has been read, the mutex is not yet taken.     *)
(***************************************************************************)
EXTENDS Sequences, Naturals

\* The events a condition variable of the threads T can be in.
Event(T) == [flag : BOOLEAN, waiters : Seq(T)]

\* cv_init: the flag is clear and nobody waits.
cv_init == [flag |-> FALSE, waiters |-> <<>>]

\* Mutant: a signal nobody waits for is lost.
cv_signal_NotSticky(e) ==
  IF e.waiters = <<>> THEN e ELSE [flag |-> TRUE, waiters |-> Tail(e.waiters)]

\* OsEventWriteOnce: set the flag, resume the first pending task only.
cv_signal(e) ==
  [flag |-> TRUE, waiters |-> IF e.waiters = <<>> THEN <<>> ELSE Tail(e.waiters)]

\* LOS_EventWrite: set the flag, resume every pending task.
cv_broadcast(e) == [flag |-> TRUE, waiters |-> <<>>]

\* LOS_EventRead with LOS_WAITMODE_CLR: a read that finds the flag consumes it,
\* one that does not puts the task at the end of the list.
EventConsume(e) == [e EXCEPT !.flag = FALSE]
EventPend(e, t) == [e EXCEPT !.waiters = Append(@, t)]

\* A pending task that is no longer on the list has been resumed.
Pending(e, t) == \E i \in 1..Len(e.waiters) : e.waiters[i] = t
=============================================================================
