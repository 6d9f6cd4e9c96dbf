----------------------------- MODULE Workqueue -----------------------------
(***************************************************************************)
(* One work queue of sys/compat/linuxkpi/common/src/linux_workqueue.c with *)
(* the timers of its delayed works (linux_timer.c): the worker thread, the *)
(* threads that queue, flush and cancel works and destroy the queue, and   *)
(* the timer functions.                                                    *)
(*                                                                         *)
(* A section under g_workqueueSpin is one step; spin shows the lock only   *)
(* where the code keeps it, in linux_flush_delayed_work.  work_status is   *)
(* also read without the lock, by the loops of flush_work and of           *)
(* cancel_work_sync.  On one processor the timer task, which has the       *)
(* highest priority, runs a function to its end; on several (SMP) an       *)
(* expired timer may still have to wait for the lock.                      *)
(***************************************************************************)
EXTENDS CondVar, SequencesExt

CONSTANTS
  Plain,       \* works for queue_work, flush_work and cancel_work_sync
  Delayed,     \* works for queue_delayed_work and cancel_delayed_work
  User,        \* threads that use the queue
  None,        \* no work, no thread
  SMP,         \* several processors
  TimerFails,  \* LOS_SwtmrCreate or LOS_SwtmrStart may fail
  ZeroDelay,   \* queue_delayed_work may be called with delayTime 0
  MayRequeue,  \* a work may queue itself again
  MayFlush,    \* users call flush_delayed_work
  MayCancel,   \* users call the cancel functions
  MayDestroy,  \* a user destroys the queue
  MaxCount     \* bound on delayed_work_count, which leaks on several processors

ASSUME WorkqueueAssumption ==
  /\ Plain \cap Delayed = {} /\ None \notin Plain \cup Delayed \cup User
  /\ {SMP, TimerFails, ZeroDelay, MayRequeue, MayFlush, MayCancel, MayDestroy} \subseteq BOOLEAN
  /\ MaxCount \in Nat

Work == Plain \cup Delayed
Worker == "worker"

VARIABLES
  worklist,            \* cwq->worklist
  work_status,         \* the set of the bits of every work
  current_work,        \* cwq->current_work
  wq_event,            \* the event the worker reads
  delayed_work_count,  \* wq->delayed_work_count
  timer,               \* the timer of a delayed work counts down
  handler,             \* control point of DelayedWorkTimerFunc of every work
  wpc,                 \* control point of the worker
  upc, uarg, uret,     \* of every user: control point, work, return value
  spin,                \* holder of g_workqueueSpin
  gone,                \* linux_destroy_workqueue has begun
  owed                 \* ghost: works queued and since then neither begun nor cancelled

vars == <<worklist, work_status, current_work, wq_event, delayed_work_count, timer,
          handler, wpc, upc, uarg, uret, spin, gone, owed>>
listVars == <<worklist, work_status, owed>>
timerVars == <<delayed_work_count, timer, handler>>
workerVars == <<current_work, wpc>>
userVars == <<upc, uarg, uret>>

TypeOK ==
  /\ worklist \in Seq(Work)
  /\ work_status \in [Work -> SUBSET {"PENDING", "RUNNING"}]
  /\ current_work \in Work \cup {None}
  /\ wq_event \in Event({Worker})
  /\ delayed_work_count \in Nat
  /\ timer \in [Delayed -> BOOLEAN]
  /\ handler \in [Delayed -> {"idle", "expired", "event"}]
  /\ wpc \in {"check", "read", "pend", "run", "func", "deleted"}
  /\ upc \in [User -> {"idle", "event", "flush", "cancel", "queue_work", "drain",
                       "delete"}]
  /\ uarg \in [User -> Work \cup {None}]
  /\ uret \in [User -> BOOLEAN]
  /\ spin \in User \cup {None}
  /\ gone \in BOOLEAN
  /\ owed \subseteq Work

Init ==
  /\ worklist = <<>> /\ work_status = [w \in Work |-> {}]
  /\ current_work = None
  /\ wq_event = cv_init
  /\ delayed_work_count = 0
  /\ timer = [w \in Delayed |-> FALSE] /\ handler = [w \in Delayed |-> "idle"]
  /\ wpc = "check"
  /\ upc = [t \in User |-> "idle"] /\ uarg = [t \in User |-> None]
  /\ uret = [t \in User |-> FALSE]
  /\ spin = None /\ gone = FALSE
  /\ owed = {}

Listed(w) == w \in Range(worklist)

\* On one processor tasks do not run while a timer function does.
TasksRun == SMP \/ \A w \in Delayed : handler[w] = "idle"

\* A user calls a function of the queue: not after the destruction has begun.
Calls(t) == TasksRun /\ upc[t] = "idle" /\ ~gone

SetPc(t, pc, w, ret) ==
  /\ upc' = [upc EXCEPT ![t] = pc]
  /\ uarg' = [uarg EXCEPT ![t] = w]
  /\ uret' = [uret EXCEPT ![t] = ret]
-----------------------------------------------------------------------------
(* Queueing *)


\* Mutant: a work is not put on the list while its function runs.
QueueWorkOn_NotRunning(w) ==
  /\ owed' = owed \cup {w}
  /\ worklist' = IF Listed(w) \/ current_work = w THEN worklist ELSE Append(worklist, w)

\* QueueWorkOn up to the moment InsertWork drops the lock.
QueueWorkOn(w) ==
  IF Listed(w) THEN UNCHANGED <<worklist, owed>>
  ELSE worklist' = Append(worklist, w) /\ owed' = owed \cup {w}

\* linux_queue_work, linux_schedule_work, and queue_delayed_work without delay.
linux_queue_work(t, w) ==
  /\ Calls(t) /\ spin = None
  /\ w \in Delayed => ZeroDelay
  /\ work_status' = [work_status EXCEPT ![w] = {"PENDING"}]
  /\ QueueWorkOn(w)
  /\ IF Listed(w) THEN UNCHANGED userVars ELSE SetPc(t, "event", None, FALSE)
  /\ UNCHANGED <<wq_event, timerVars, workerVars, spin, gone>>

\* Mutant: the worker is not told.
InsertWorkWrites_NoEvent(t) ==
  /\ TasksRun /\ upc[t] = "event"
  /\ SetPc(t, "idle", None, FALSE)
  /\ UNCHANGED <<listVars, wq_event, timerVars, workerVars, spin, gone>>

\* LOS_EventWrite of InsertWork, with the lock dropped.
InsertWorkWrites(t) ==
  /\ TasksRun /\ upc[t] = "event"
  /\ wq_event' = cv_broadcast(wq_event)
  /\ SetPc(t, "idle", None, FALSE)
  /\ UNCHANGED <<listVars, timerVars, workerVars, spin, gone>>

\* queue_delayed_work with a delay.  add_timer may fail; the call succeeds then too.
linux_queue_delayed_work(t, w) ==
  /\ Calls(t) /\ spin = None
  /\ w \in Delayed /\ ~timer[w] /\ ~Listed(w)
  /\ delayed_work_count < MaxCount
  /\ \E added \in (IF TimerFails THEN BOOLEAN ELSE {TRUE}) :
       timer' = [timer EXCEPT ![w] = added]
  /\ delayed_work_count' = delayed_work_count + 1
  /\ work_status' = [work_status EXCEPT ![w] = {"PENDING"}]
  /\ owed' = owed \cup {w}
  /\ UNCHANGED <<worklist, wq_event, handler, workerVars, userVars, spin, gone>>

\* The timer expires; the function is queued to the timer task.
TimerExpires(w) ==
  /\ timer[w] /\ handler[w] = "idle" /\ TasksRun
  /\ timer' = [timer EXCEPT ![w] = FALSE]
  /\ handler' = [handler EXCEPT ![w] = "expired"]
  /\ UNCHANGED <<listVars, wq_event, delayed_work_count, workerVars, userVars, spin,
                 gone>>

\* del_timer deletes whatever timer the work has by now.
DelayedWorkTimerFunc(w) ==
  /\ handler[w] = "expired" /\ spin = None
  /\ delayed_work_count' = delayed_work_count - 1
  /\ timer' = [timer EXCEPT ![w] = FALSE]
  /\ QueueWorkOn(w)
  /\ handler' = [handler EXCEPT ![w] = IF Listed(w) THEN "idle" ELSE "event"]
  /\ UNCHANGED <<work_status, wq_event, workerVars, userVars, spin, gone>>

DelayedWorkTimerFuncWrites(w) ==
  /\ handler[w] = "event"
  /\ wq_event' = cv_broadcast(wq_event)
  /\ handler' = [handler EXCEPT ![w] = "idle"]
  /\ UNCHANGED <<listVars, delayed_work_count, timer, workerVars, userVars, spin, gone>>
-----------------------------------------------------------------------------
(* WorkerThread and RunWorkqueue *)

\* WorkqueueIsEmpty, without the lock.
WorkerChecks ==
  /\ TasksRun /\ wpc = "check"
  /\ wpc' = IF worklist = <<>> THEN "read" ELSE "run"
  /\ UNCHANGED <<listVars, current_work, wq_event, timerVars, userVars, spin, gone>>

\* LOS_EventRead: poll, else pend; once woken, poll again.
WorkerReads ==
  /\ TasksRun
  /\ \/ /\ wpc = "read" /\ wq_event.flag
        /\ wq_event' = EventConsume(wq_event)
        /\ wpc' = "run"
     \/ /\ wpc = "read" /\ ~wq_event.flag
        /\ wq_event' = EventPend(wq_event, Worker)
        /\ wpc' = "pend"
     \/ /\ wpc = "pend" /\ ~Pending(wq_event, Worker)
        /\ wq_event' = EventConsume(wq_event)
        /\ wpc' = "run"
  /\ UNCHANGED <<listVars, current_work, timerVars, userVars, spin, gone>>

RunWorkqueue ==
  /\ TasksRun /\ wpc = "run" /\ spin = None
  /\ IF worklist = <<>>
     THEN wpc' = "check" /\ UNCHANGED <<listVars, current_work>>
     ELSE LET w == Head(worklist)
          IN  /\ work_status' = [work_status EXCEPT ![w] = @ \cup {"RUNNING"}]
              /\ worklist' = Tail(worklist)
              /\ current_work' = w
              /\ owed' = owed \ {w}
              /\ wpc' = "func"
  /\ UNCHANGED <<wq_event, timerVars, userVars, spin, gone>>

\* The function may queue its own work again (once more changes nothing).  The
\* event it writes is for the thread it runs in, so the two steps are one.
FuncRequeues ==
  LET w == current_work
  IN  /\ TasksRun /\ wpc = "func" /\ spin = None /\ ~gone /\ MayRequeue
      /\ w \in Plain /\ ~Listed(w)
      /\ work_status' = [work_status EXCEPT ![w] = {"PENDING"}]
      /\ QueueWorkOn(w)
      /\ wq_event' = cv_broadcast(wq_event)
      /\ UNCHANGED <<timerVars, workerVars, userVars, spin, gone>>

\* Mutant: a work queued again while it ran is forgotten.
FuncReturnsStatus_Always(bits) == {}


\* The bits are cleared only if nobody has queued the work since it began.
FuncReturnsStatus(bits) == IF "RUNNING" \in bits THEN {} ELSE bits

FuncReturns ==
  LET w == current_work
  IN  /\ TasksRun /\ wpc = "func" /\ spin = None
      /\ work_status' = [work_status EXCEPT ![w] = FuncReturnsStatus(@)]
      /\ current_work' = None
      /\ wpc' = "check"
      /\ UNCHANGED <<worklist, wq_event, timerVars, userVars, spin, gone, owed>>
-----------------------------------------------------------------------------
(* Flushing and cancelling *)

\* linux_flush_work waits if the work is pending.
linux_flush_work(t, w) ==
  /\ Calls(t) /\ w \in Plain
  /\ "PENDING" \in work_status[w]
  /\ SetPc(t, "flush", w, TRUE)
  /\ UNCHANGED <<listVars, wq_event, timerVars, workerVars, spin, gone>>

\* linux_cancel_work_sync decides what to return, then waits.
linux_cancel_work_sync(t, w) ==
  /\ Calls(t) /\ w \in Plain /\ MayCancel
  /\ SetPc(t, "cancel", w, work_status[w] # {} /\ "RUNNING" \notin work_status[w])
  /\ UNCHANGED <<listVars, wq_event, timerVars, workerVars, spin, gone>>

\* The loops of both: while (work->work_status) usleep().
StatusLoopEnds(t) ==
  /\ TasksRun /\ upc[t] \in {"flush", "cancel"}
  /\ work_status[uarg[t]] = {}
  /\ SetPc(t, "idle", None, FALSE)
  /\ UNCHANGED <<listVars, wq_event, timerVars, workerVars, spin, gone>>

\* Mutants: the count follows the work, not its timer; it is not kept at all.
CountAfterCancel_Always(w) == delayed_work_count - 1
CountAfterCancel_Never(w) == delayed_work_count

\* A cancelled timer counts no more.
CountAfterCancel(w) ==
  IF timer[w] THEN delayed_work_count - 1 ELSE delayed_work_count

\* linux_cancel_delayed_work, and linux_cancel_delayed_work_sync which calls it:
\* a timer that counts down is deleted, else the work is taken off the list.
linux_cancel_delayed_work(t, w) ==
  /\ Calls(t) /\ spin = None /\ w \in Delayed /\ MayCancel
  /\ "PENDING" \in work_status[w]
  /\ \/ /\ timer[w]
        /\ timer' = [timer EXCEPT ![w] = FALSE]
        /\ UNCHANGED worklist
     \/ /\ ~timer[w] /\ "RUNNING" \notin work_status[w] /\ Listed(w)
        /\ worklist' = SelectSeq(worklist, LAMBDA v : v # w)
        /\ UNCHANGED timer
  /\ delayed_work_count' = CountAfterCancel(w)
  /\ work_status' = [work_status EXCEPT ![w] = {}]
  /\ owed' = owed \ {w}
  /\ UNCHANGED <<wq_event, handler, workerVars, userVars, spin, gone>>

\* linux_flush_delayed_work.  When the timer counts down, queue_work is called
\* with the lock held, and takes it again.  On one processor the lock is nothing
\* but disabled interrupts, which can be disabled twice.
linux_flush_delayed_work(t, w) ==
  /\ Calls(t) /\ spin = None /\ w \in Delayed /\ MayFlush
  /\ "PENDING" \in work_status[w]
  /\ IF timer[w]
     THEN /\ timer' = [timer EXCEPT ![w] = FALSE]
          /\ delayed_work_count' = delayed_work_count - 1
          /\ spin' = IF SMP THEN t ELSE None
          /\ SetPc(t, "queue_work", w, TRUE)
     ELSE /\ SetPc(t, "flush", w, TRUE)
          /\ UNCHANGED <<timer, delayed_work_count, spin>>
  /\ UNCHANGED <<listVars, wq_event, handler, workerVars, gone>>

\* queue_work inside it, then the flush.
FlushQueues(t) ==
  /\ TasksRun /\ upc[t] = "queue_work" /\ spin = None
  /\ work_status' = [work_status EXCEPT ![uarg[t]] = {"PENDING"}]
  /\ QueueWorkOn(uarg[t])
  /\ wq_event' = IF Listed(uarg[t]) THEN wq_event ELSE cv_broadcast(wq_event)
  /\ SetPc(t, "flush", uarg[t], TRUE)
  /\ UNCHANGED <<timerVars, workerVars, spin, gone>>

\* What work_busy tells of a work.
linux_work_busy(w) == work_status[w]
-----------------------------------------------------------------------------
(* linux_destroy_workqueue *)

linux_destroy_workqueue(t) ==
  /\ Calls(t) /\ MayDestroy
  /\ \A u \in User \ {t} : upc[u] = "idle"
  /\ gone' = TRUE
  /\ SetPc(t, "drain", None, FALSE)
  /\ UNCHANGED <<listVars, wq_event, timerVars, workerVars, spin>>

\* drain_workqueue: looks at the list and at the number of delayed works.
drain_workqueue(t) ==
  /\ TasksRun /\ upc[t] = "drain" /\ spin = None
  /\ worklist = <<>> /\ delayed_work_count = 0
  /\ SetPc(t, "delete", None, FALSE)
  /\ UNCHANGED <<listVars, wq_event, timerVars, workerVars, spin, gone>>

\* LOS_TaskDelete stops the worker where it is; the queue is freed.
DeleteWorker(t) ==
  /\ TasksRun /\ upc[t] = "delete"
  /\ wpc' = "deleted"
  /\ SetPc(t, "idle", None, FALSE)
  /\ UNCHANGED <<listVars, current_work, wq_event, timerVars, spin, gone>>
-----------------------------------------------------------------------------
UserSteps(t) ==
  \/ \E w \in Work : \/ linux_queue_work(t, w) \/ linux_queue_delayed_work(t, w)
                     \/ linux_flush_work(t, w) \/ linux_cancel_work_sync(t, w)
                     \/ linux_cancel_delayed_work(t, w)
                     \/ linux_flush_delayed_work(t, w)
  \/ InsertWorkWrites(t) \/ StatusLoopEnds(t) \/ FlushQueues(t)
  \/ linux_destroy_workqueue(t) \/ drain_workqueue(t) \/ DeleteWorker(t)

TimerSteps(w) ==
  TimerExpires(w) \/ DelayedWorkTimerFunc(w) \/ DelayedWorkTimerFuncWrites(w)

WorkerSteps ==
  WorkerChecks \/ WorkerReads \/ RunWorkqueue \/ FuncRequeues \/ FuncReturns

Next == (\E t \in User : UserSteps(t)) \/ (\E w \in Delayed : TimerSteps(w)) \/ WorkerSteps

Spec == Init /\ [][Next]_vars

\* Every thread in the middle of a call goes on, the worker runs, its functions
\* return, and timers expire.  Strong fairness, because on one processor timer
\* functions interrupt the tasks again and again, and a lock is found taken.
Fairness ==
  /\ SF_vars(WorkerChecks) /\ SF_vars(WorkerReads)
  /\ SF_vars(RunWorkqueue) /\ SF_vars(FuncReturns)
  /\ \A t \in User : /\ SF_vars(InsertWorkWrites(t)) /\ SF_vars(StatusLoopEnds(t))
                     /\ SF_vars(FlushQueues(t)) /\ SF_vars(drain_workqueue(t))
                     /\ SF_vars(DeleteWorker(t))
  /\ \A w \in Delayed : SF_vars(TimerSteps(w))

FairSpec == Spec /\ Fairness
-----------------------------------------------------------------------------
(* Properties *)

\* A work that was queued is on the list or its timer is still to queue it,
\* whatever was queued, cancelled or run in between.
NoWorkLost ==
  \A w \in owed :
    \/ Listed(w)
    \/ w \in Delayed /\ (timer[w] \/ handler[w] = "expired")
    \/ \E t \in User : upc[t] = "queue_work" /\ uarg[t] = w

\* The worker does not sleep on a list with works, unless the thread that put
\* one there has still to write the event: InsertWork drops the lock before it.
NoLostWakeup ==
  wpc = "pend" /\ Pending(wq_event, Worker) /\ worklist # <<>> =>
    \/ \E t \in User : upc[t] = "event"
    \/ \E w \in Delayed : handler[w] = "event"

\* The status flush_work and cancel_work_sync wait for is not clear while the
\* work is on the list or its function runs, although queueing a running work
\* overwrites the status.
BusyIsShown ==
  \A w \in Plain : Listed(w) \/ current_work = w => work_status[w] # {}



\* linux_work_busy shows a work on the list as pending.
PendingIsShown == \A w \in Work : Listed(w) => "PENDING" \in linux_work_busy(w)

\* A work whose cancel_work_sync returns TRUE is not executed any more.
CancelledIsNotExecuted ==
  [][\A t \in User : upc[t] = "cancel" /\ uret[t] /\ current_work = None
       => current_work' # uarg[t]]_vars

\* linux_cancel_delayed_work_sync returns when the function of the work does not
\* run any more.
CancelSyncWaits ==
  [][\A t \in User, w \in Delayed :
       linux_cancel_delayed_work(t, w) => current_work # w]_vars

\* The queue is drained before the worker is deleted: no function is cut off.
DestroyDrains == wpc = "deleted" => current_work = None

\* Every work that is queued is executed or cancelled.
QueuedIsExecuted == \A w \in Work : w \in owed ~> w \notin owed


\* linux_destroy_workqueue returns.
DestroyReturns == \A t \in User : upc[t] = "drain" ~> upc[t] = "idle"
=============================================================================
