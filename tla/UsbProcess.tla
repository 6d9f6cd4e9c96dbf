----------------------------- MODULE UsbProcess -----------------------------
(***************************************************************************)
(* One USB process of sys/dev/usb/usb_process.c: a thread that executes    *)
(* the callbacks of queued messages, the callers that queue pairs of       *)
(* messages (usb_proc_msignal), wait for them (usb_proc_mwait) and tear    *)
(* the process down (usb_proc_drain, usb_proc_free).                       *)
(*                                                                         *)
(* Threads: Worker runs usb_process_thread; Owner creates and frees the    *)
(* process; a Caller signals or waits holding up_mtx; a Timer signals      *)
(* without it, because callout_function (sys/kern/kern_timeout.c:63) calls *)
(* the timer function without taking the callout's mutex.                  *)
(*                                                                         *)
(* A stretch of code that holds up_mtx and that no step of a thread not    *)
(* holding it can be told apart from is one step here.  So up_mtx is only  *)
(* seen held by the worker, from the moment it takes a message until it    *)
(* waits or the callback sleeps.                                           *)
(***************************************************************************)
EXTENDS CondVar, SequencesExt, Integers

CONSTANTS
  Pair,        \* the pairs of messages (pm0, pm1) that callers signal
  Caller,      \* threads that call msignal, mwait and rewakeup with up_mtx
  Timer,       \* timer contexts that call msignal without up_mtx
  Worker,      \* the thread of usb_process_thread
  Owner,       \* the thread that calls usb_proc_create and usb_proc_free
  NoThread,    \* up_mtx is free
  NoMsg,       \* no message, no pair
  SignBit,     \* 0x80000000 in the code; pm_num and up_msg_num wrap at twice that
  MaxSignals   \* bound on the number of msignals of a behaviour; 0 is none

ASSUME PairAssumption == IsFiniteSet(Pair)
ASSUME ThreadAssumption ==
  /\ Worker \notin Caller \cup Timer \cup {Owner}
  /\ Owner \notin Caller \cup Timer
  /\ Caller \cap Timer = {}
  /\ NoThread \notin Caller \cup Timer \cup {Worker, Owner}
  /\ NoMsg \notin Pair \cup (Pair \X {0, 1})
\* The sign test of msignal is meaningful when half the range of pm_num
\* exceeds the number of messages that can be queued.
ASSUME NumAssumption ==
  SignBit \in Nat /\ SignBit > 2 * Cardinality(Pair)
ASSUME BoundAssumption == MaxSignals \in Nat

NumMod == 2 * SignBit
Thread == Caller \cup Timer \cup {Worker, Owner}
Msg == Pair \X {0, 1}

VARIABLES
  up_qhead,    \* queue of messages; tqe_prev # NULL iff the message is on it
  pm_num,      \* the number of every message
  up_msg_num,  \* the number given to the next message
  up_gone,     \* the process is being torn down
  up_ptr,      \* the thread exists, as far as usb_proc_drain knows
  up_msleep,   \* the worker sleeps on up_cv and wants a signal
  up_dsleep,   \* somebody sleeps on up_drain and wants a broadcast
  up_mtx,      \* Worker or NoThread
  cv,          \* the events of up_cv and up_drain
  pc,          \* control point of every thread
  arg,         \* the pair a Caller waits for or a Timer signals
  cur,         \* pm of usb_process_thread while its callback runs
  owed,        \* ghost: pairs signalled since a callback of theirs last began
  retired,     \* ghost: pairs their own process has removed with mwait
  sigs         \* number of msignals so far, if bounded

vars == <<up_qhead, pm_num, up_msg_num, up_gone, up_ptr, up_msleep, up_dsleep,
          up_mtx, cv, pc, arg, cur, owed, retired, sigs>>

queueVars == <<up_qhead, pm_num, up_msg_num, owed, sigs>>
flagVars == <<up_gone, up_ptr, up_msleep, up_dsleep>>

OnQueue(q, m) == \E i \in 1..Len(q) : q[i] = m
Queued(m) == OnQueue(up_qhead, m)

TAILQ_REMOVE(q, m) == RemoveAt(q, CHOOSE i \in 1..Len(q) : q[i] = m)
Drop(q, m) == IF OnQueue(q, m) THEN TAILQ_REMOVE(q, m) ELSE q

\* usb_proc_free has returned, or usb_proc_create failed.
Freed == pc[Owner] = "freed"

\* The process exists for its users: created and not yet freed.
Live == pc[Owner] \in {"ready", "cv_read", "cv_pend", "cv_relock"}
-----------------------------------------------------------------------------
(* usb_proc_create.  The structure is zeroed before the call. *)

Init ==
  /\ up_qhead = <<>>
  /\ pm_num = [m \in Msg |-> 0]
  /\ up_msg_num = 0
  /\ up_gone = FALSE /\ up_ptr = FALSE
  /\ up_msleep = FALSE /\ up_dsleep = FALSE
  /\ up_mtx = NoThread
  /\ cv = [c \in {"up_cv", "up_drain"} |-> cv_init]
  /\ pc = [t \in Thread |-> IF t = Owner THEN "new" ELSE "idle"]
  /\ arg = [t \in Caller \cup Timer |-> NoMsg]
  /\ cur = NoMsg
  /\ owed = {} /\ retired = {}
  /\ sigs = 0

\* The task is created; it may run before the creator stores up_ptr.
usb_os_task_creat ==
  /\ pc[Owner] = "new"
  /\ pc' = [pc EXCEPT ![Owner] = "created", ![Worker] = "start"]
  /\ UNCHANGED <<queueVars, flagVars, up_mtx, cv, arg, cur, retired>>

\* The task cannot be created: usb_proc_free finds no thread to wait for.
CreateFails ==
  /\ pc[Owner] = "new"
  /\ up_gone' = TRUE
  /\ pc' = [pc EXCEPT ![Owner] = "freed"]
  /\ UNCHANGED <<queueVars, up_ptr, up_msleep, up_dsleep, up_mtx, cv, arg, cur,
                 retired>>

CreateReturns ==
  /\ pc[Owner] = "created"
  /\ up_ptr' = TRUE
  /\ pc' = [pc EXCEPT ![Owner] = "ready"]
  /\ UNCHANGED <<queueVars, up_gone, up_msleep, up_dsleep, up_mtx, cv, arg, cur,
                 retired>>
-----------------------------------------------------------------------------
(* cv_wait, between the release and the acquisition of the mutex. *)

CvOf(t) == IF t \in Caller THEN "up_drain" ELSE "up_cv"

\* LOS_EventRead: poll the flag, else pend.
CvRead(t) ==
  /\ pc[t] = "cv_read"
  /\ \/ /\ cv[CvOf(t)].flag
        /\ cv' = [cv EXCEPT ![CvOf(t)] = EventConsume(@)]
        /\ pc' = [pc EXCEPT ![t] = "cv_relock"]
     \/ /\ ~cv[CvOf(t)].flag
        /\ cv' = [cv EXCEPT ![CvOf(t)] = EventPend(@, t)]
        /\ pc' = [pc EXCEPT ![t] = "cv_pend"]
  /\ UNCHANGED <<queueVars, flagVars, up_mtx, arg, cur, retired>>

\* A resumed task polls the flag once more, clears it and returns.
CvWake(t) ==
  /\ pc[t] = "cv_pend"
  /\ ~Pending(cv[CvOf(t)], t)
  /\ cv' = [cv EXCEPT ![CvOf(t)] = EventConsume(@)]
  /\ pc' = [pc EXCEPT ![t] = "cv_relock"]
  /\ UNCHANGED <<queueVars, flagVars, up_mtx, arg, cur, retired>>
-----------------------------------------------------------------------------
(* usb_proc_msignal *)

MayQueue(p) == p \notin retired /\ (MaxSignals = 0 \/ sigs < MaxSignals)

\* Unsigned arithmetic on usb_size_t, which wraps at NumMod.
Increment(n) == IF n = NumMod - 1 THEN 0 ELSE n + 1
Difference(m, n) == IF m >= n THEN m - n ELSE m - n + NumMod

\* The message number moves on when the one message of the pair that is queued
\* carries the current number.
NextNum(p) ==
  LET AloneWithCurrent(m, other) ==
        Queued(m) /\ ~Queued(other) /\ pm_num[m] = up_msg_num
  IN  IF \/ AloneWithCurrent(<<p, 0>>, <<p, 1>>)
         \/ AloneWithCurrent(<<p, 1>>, <<p, 0>>)
      THEN Increment(up_msg_num)
      ELSE up_msg_num

\* Mutant: the numbers are compared without regard to their wrapping.
Pm0IsNewer_NoWrap(p) == pm_num[<<p, 1>>] < pm_num[<<p, 0>>]

\* d & 0x80000000, with d = pm1->pm_num - pm0->pm_num unsigned.
Pm0IsNewer(p) == Difference(pm_num[<<p, 1>>], pm_num[<<p, 0>>]) >= SignBit

\* Mutant: the second message of the pair is never used.
MsgToQueue_FirstOnly(p) == <<p, 0>>

\* The first message that is not queued, else the one queued last.
MsgToQueue(p) ==
  IF ~Queued(<<p, 0>>) THEN <<p, 0>>
  ELSE IF ~Queued(<<p, 1>>) THEN <<p, 1>>
  ELSE IF Pm0IsNewer(p) THEN <<p, 0>> ELSE <<p, 1>>

\* The section under g_usb_process_queue_spinlock.
QueuePair(p) ==
  LET pm2 == MsgToQueue(p)
  IN  /\ up_msg_num' = NextNum(p)
      /\ pm_num' = [pm_num EXCEPT ![pm2] = NextNum(p)]
      /\ up_qhead' = Append(Drop(up_qhead, pm2), pm2)
      /\ owed' = owed \cup {p}
      /\ sigs' = IF MaxSignals = 0 THEN 0 ELSE sigs + 1

\* usb_proc_msignal by a thread that holds up_mtx throughout.
MsignalLocked(p) ==
  /\ MayQueue(p)
  /\ IF up_gone
     THEN UNCHANGED <<queueVars, up_msleep, cv>>
     ELSE /\ QueuePair(p)
          /\ up_msleep' = FALSE
          /\ cv' = [cv EXCEPT !["up_cv"] = cv_signal(@)]
  /\ UNCHANGED <<up_gone, up_ptr, up_dsleep, up_mtx, pc, arg, cur, retired>>

usb_proc_msignal(t, p) ==
  /\ Live /\ pc[t] = "idle" /\ t \in Caller
  /\ up_mtx = NoThread
  /\ MsignalLocked(p)

\* usb_proc_msignal by a timer, which holds nothing: the test of up_gone, the
\* queueing, the store to up_msleep and the signal are four steps.
TimerFires(t, p) ==
  /\ Live /\ pc[t] = "idle" /\ t \in Timer
  /\ MayQueue(p)
  /\ ~up_gone
  /\ pc' = [pc EXCEPT ![t] = "queue"]
  /\ arg' = [arg EXCEPT ![t] = p]
  /\ UNCHANGED <<queueVars, flagVars, up_mtx, cv, cur, retired>>

TimerQueues(t) ==
  /\ pc[t] = "queue"
  /\ QueuePair(arg[t])
  /\ pc' = [pc EXCEPT ![t] = "msleep"]
  /\ arg' = [arg EXCEPT ![t] = NoMsg]
  /\ UNCHANGED <<flagVars, up_mtx, cv, cur, retired>>

TimerClearsMsleep(t) ==
  /\ pc[t] = "msleep"
  /\ up_msleep' = FALSE
  /\ pc' = [pc EXCEPT ![t] = "signal"]
  /\ UNCHANGED <<queueVars, up_gone, up_ptr, up_dsleep, up_mtx, cv, arg, cur,
                 retired>>

TimerSignals(t) ==
  /\ pc[t] = "signal"
  /\ cv' = [cv EXCEPT !["up_cv"] = cv_signal(@)]
  /\ pc' = [pc EXCEPT ![t] = "idle"]
  /\ UNCHANGED <<queueVars, flagVars, up_mtx, arg, cur, retired>>

usb_proc_rewakeup(t) ==
  /\ Live /\ pc[t] = "idle" /\ t \in Caller
  /\ up_mtx = NoThread
  /\ ~up_gone /\ ~up_msleep
  /\ cv' = [cv EXCEPT !["up_cv"] = cv_signal(@)]
  /\ UNCHANGED <<queueVars, flagVars, up_mtx, pc, arg, cur, retired>>
-----------------------------------------------------------------------------
(* usb_proc_mwait by a thread other than the worker *)

\* Mutant: only the first message of the pair is waited for.
MwaitLoop_FirstOnly(t, p) ==
  /\ up_mtx = NoThread
  /\ IF up_gone \/ ~Queued(<<p, 0>>)
     THEN /\ pc' = [pc EXCEPT ![t] = "idle"]
          /\ arg' = [arg EXCEPT ![t] = NoMsg]
          /\ UNCHANGED up_dsleep
     ELSE /\ pc' = [pc EXCEPT ![t] = "cv_read"]
          /\ arg' = [arg EXCEPT ![t] = p]
          /\ up_dsleep' = TRUE
  /\ UNCHANGED <<queueVars, up_gone, up_ptr, up_msleep, up_mtx, cv, cur, retired>>

\* One round of the loop: return, or ask for a broadcast and wait.
MwaitLoop(t, p) ==
  /\ up_mtx = NoThread
  /\ IF up_gone \/ ~(Queued(<<p, 0>>) \/ Queued(<<p, 1>>))
     THEN /\ pc' = [pc EXCEPT ![t] = "idle"]
          /\ arg' = [arg EXCEPT ![t] = NoMsg]
          /\ UNCHANGED up_dsleep
     ELSE /\ pc' = [pc EXCEPT ![t] = "cv_read"]
          /\ arg' = [arg EXCEPT ![t] = p]
          /\ up_dsleep' = TRUE
  /\ UNCHANGED <<queueVars, up_gone, up_ptr, up_msleep, up_mtx, cv, cur, retired>>

usb_proc_mwait(t, p) ==
  /\ Live /\ pc[t] = "idle" /\ t \in Caller
  /\ MwaitLoop(t, p)

MwaitResumes(t) ==
  /\ pc[t] = "cv_relock" /\ t \in Caller
  /\ MwaitLoop(t, arg[t])
-----------------------------------------------------------------------------
(* usb_proc_free: usb_proc_drain, then the condition variables are destroyed *)

\* One round of the loop of usb_proc_drain, and what follows it.
DrainLoop ==
  /\ up_mtx = NoThread
  /\ up_gone' = TRUE
  /\ IF up_ptr
     THEN /\ pc' = [pc EXCEPT ![Owner] = "cv_read"]
          /\ up_msleep' = FALSE
          /\ cv' = IF up_msleep THEN [cv EXCEPT !["up_cv"] = cv_signal(@)] ELSE cv
          /\ UNCHANGED up_dsleep
     ELSE /\ pc' = [pc EXCEPT ![Owner] = "freed"]
          /\ up_dsleep' = FALSE
          /\ cv' = IF up_dsleep THEN [cv EXCEPT !["up_drain"] = cv_broadcast(@)]
                                ELSE cv
          /\ UNCHANGED up_msleep
  /\ UNCHANGED <<queueVars, up_ptr, up_mtx, arg, cur, retired>>

\* Mutant: up_ptr is not tested again after the wait.
DrainResumes_NoRetest ==
  /\ pc[Owner] = "cv_relock" /\ up_mtx = NoThread
  /\ pc' = [pc EXCEPT ![Owner] = "freed"]
  /\ UNCHANGED <<queueVars, flagVars, up_mtx, cv, arg, cur, retired>>

usb_proc_free == pc[Owner] = "ready" /\ DrainLoop
DrainResumes == pc[Owner] = "cv_relock" /\ DrainLoop
-----------------------------------------------------------------------------
(* usb_process_thread *)

InCallback == pc[Worker] \in {"callback", "cb_sleep"}

\* Taking up_mtx: at the start, at the end of cv_wait, after a callback slept.
WorkerLocks ==
  /\ pc[Worker] \in {"start", "cv_relock", "cb_sleep"}
  /\ up_mtx = NoThread
  /\ up_mtx' = Worker
  /\ pc' = [pc EXCEPT ![Worker] =
              IF pc[Worker] = "cb_sleep" THEN "callback" ELSE "loop"]
  /\ UNCHANGED <<queueVars, flagVars, cv, arg, cur, retired>>

\* Mutant: the mutex is not released at the end of the thread.
WorkerExits_KeepsMutex ==
  /\ pc[Worker] = "loop" /\ up_gone
  /\ up_ptr' = FALSE
  /\ cv' = [cv EXCEPT !["up_cv"] = cv_signal(@)]
  /\ pc' = [pc EXCEPT ![Worker] = "exited"]
  /\ UNCHANGED <<queueVars, up_gone, up_msleep, up_dsleep, up_mtx, arg, cur, retired>>

\* Mutant: the thread that drains is not signalled.
WorkerExits_NoSignal ==
  /\ pc[Worker] = "loop" /\ up_gone
  /\ up_ptr' = FALSE
  /\ up_mtx' = NoThread
  /\ pc' = [pc EXCEPT ![Worker] = "exited"]
  /\ UNCHANGED <<queueVars, up_gone, up_msleep, up_dsleep, cv, arg, cur, retired>>

\* Leave the loop: nothing of the process is touched after the mutex is released.
WorkerExits ==
  /\ pc[Worker] = "loop" /\ up_gone
  /\ up_ptr' = FALSE
  /\ cv' = [cv EXCEPT !["up_cv"] = cv_signal(@)]
  /\ up_mtx' = NoThread
  /\ pc' = [pc EXCEPT ![Worker] = "exited"]
  /\ UNCHANGED <<queueVars, up_gone, up_msleep, up_dsleep, arg, cur, retired>>

\* The first message is called while it stays on the queue.
CallbackBegins ==
  /\ pc[Worker] = "loop" /\ ~up_gone
  /\ up_qhead # <<>>
  /\ cur' = Head(up_qhead)
  /\ owed' = owed \ {Head(up_qhead)[1]}
  /\ pc' = [pc EXCEPT ![Worker] = "callback"]
  /\ UNCHANGED <<up_qhead, pm_num, up_msg_num, sigs, flagVars, up_mtx, cv, arg,
                 retired>>

QueueFoundEmpty ==
  /\ pc[Worker] = "loop" /\ ~up_gone
  /\ up_qhead = <<>>
  /\ pc' = [pc EXCEPT ![Worker] = "empty"]
  /\ UNCHANGED <<queueVars, flagVars, up_mtx, cv, arg, cur, retired>>

\* Mutant: nobody wakes the threads in mwait.
WorkerWaits_NoBroadcast ==
  /\ pc[Worker] = "empty"
  /\ up_msleep' = TRUE
  /\ up_mtx' = NoThread
  /\ pc' = [pc EXCEPT ![Worker] = "cv_read"]
  /\ UNCHANGED <<queueVars, up_gone, up_ptr, up_dsleep, cv, arg, cur, retired>>

\* Wake the threads in mwait, announce the sleep, and release the mutex.
WorkerWaits ==
  /\ pc[Worker] = "empty"
  /\ up_dsleep' = FALSE
  /\ cv' = IF up_dsleep THEN [cv EXCEPT !["up_drain"] = cv_broadcast(@)] ELSE cv
  /\ up_msleep' = TRUE
  /\ up_mtx' = NoThread
  /\ pc' = [pc EXCEPT ![Worker] = "cv_read"]
  /\ UNCHANGED <<queueVars, up_gone, up_ptr, arg, cur, retired>>

(* What a callback does: it may sleep, which releases up_mtx, signal messages
   of its own process, and remove the messages of a pair that is torn down.   *)

CallbackSleeps ==
  /\ pc[Worker] = "callback"
  /\ up_mtx' = NoThread
  /\ pc' = [pc EXCEPT ![Worker] = "cb_sleep"]
  /\ UNCHANGED <<queueVars, flagVars, cv, arg, cur, retired>>

CallbackSignals(p) ==
  /\ pc[Worker] = "callback"
  /\ MsignalLocked(p)

\* usb_proc_mwait by the worker itself: up_curtd is the running thread.  Its
\* users free the messages next (usbd_transfer_unsetup_sub, uhub_detach,
\* usb_free_device), so the pair is not signalled again.
CallbackMwaits(p) ==
  /\ pc[Worker] = "callback"
  /\ ~up_gone
  /\ p \notin retired
  /\ \A t \in Timer : arg[t] # p
  /\ up_qhead' = Drop(Drop(up_qhead, <<p, 0>>), <<p, 1>>)
  /\ owed' = owed \ {p}
  /\ retired' = retired \cup {p}
  /\ UNCHANGED <<pm_num, up_msg_num, sigs, flagVars, up_mtx, cv, pc, arg, cur>>

\* Mutant: the first message leaves the queue, whichever it is.
CallbackReturns_PopsAny ==
  /\ pc[Worker] = "callback"
  /\ up_qhead' = IF up_qhead # <<>> THEN Tail(up_qhead) ELSE up_qhead
  /\ cur' = NoMsg
  /\ pc' = [pc EXCEPT ![Worker] = "loop"]
  /\ UNCHANGED <<pm_num, up_msg_num, owed, sigs, flagVars, up_mtx, cv, arg, retired>>

\* The message leaves the queue if it is still the first one.
CallbackReturns ==
  /\ pc[Worker] = "callback"
  /\ up_qhead' = IF up_qhead # <<>> /\ Head(up_qhead) = cur THEN Tail(up_qhead)
                                                          ELSE up_qhead
  /\ cur' = NoMsg
  /\ pc' = [pc EXCEPT ![Worker] = "loop"]
  /\ UNCHANGED <<pm_num, up_msg_num, owed, sigs, flagVars, up_mtx, cv, arg, retired>>

usb_process_thread ==
  \/ WorkerLocks \/ WorkerExits \/ CallbackBegins \/ QueueFoundEmpty \/ WorkerWaits
  \/ CallbackSleeps \/ CallbackReturns
  \/ \E p \in Pair : CallbackSignals(p) \/ CallbackMwaits(p)
-----------------------------------------------------------------------------
usb_proc_create == usb_os_task_creat \/ CreateFails \/ CreateReturns

cv_wait == \E t \in Caller \cup {Worker, Owner} : CvRead(t) \/ CvWake(t)

\* The process is gone and nobody has anything left to do with it.
Finished ==
  /\ Freed
  /\ pc[Worker] \in {"idle", "exited"}
  /\ \A t \in Caller \cup Timer : pc[t] = "idle"
  /\ UNCHANGED vars

Next ==
  \/ usb_proc_create
  \/ usb_process_thread
  \/ cv_wait
  \/ usb_proc_free \/ DrainResumes
  \/ \E t \in Caller, p \in Pair : usb_proc_msignal(t, p) \/ usb_proc_mwait(t, p)
  \/ \E t \in Caller : MwaitResumes(t) \/ usb_proc_rewakeup(t)
  \/ \E t \in Timer, p \in Pair : TimerFires(t, p)
  \/ \E t \in Timer : TimerQueues(t) \/ TimerClearsMsleep(t) \/ TimerSignals(t)
  \/ Finished

Spec == Init /\ [][Next]_vars

\* A thread that can run does; the LiteOS mutex queues its waiters, so a thread
\* that keeps asking for up_mtx gets it; a callback sleeps finitely often and
\* returns.  Nobody has to call msignal, mwait, rewakeup or free.
Fairness ==
  /\ WF_vars(CreateReturns)
  /\ SF_vars(WorkerLocks)
  /\ WF_vars(WorkerExits \/ CallbackBegins \/ QueueFoundEmpty \/ WorkerWaits)
  /\ SF_vars(CallbackReturns)
  /\ \A t \in Caller \cup {Worker, Owner} : WF_vars(CvRead(t) \/ CvWake(t))
  /\ \A t \in Caller : SF_vars(MwaitResumes(t))
  /\ SF_vars(DrainResumes)
  /\ \A t \in Timer :
       WF_vars(TimerQueues(t) \/ TimerClearsMsleep(t) \/ TimerSignals(t))

FairSpec == Spec /\ Fairness
-----------------------------------------------------------------------------
(* Properties *)

InCvWait == {"cv_read", "cv_pend", "cv_relock"}
OwnerPc == {"new", "created", "ready", "freed"} \cup InCvWait
WorkerPc == {"idle", "start", "loop", "empty", "callback", "cb_sleep", "exited"}
              \cup InCvWait
CallerPc == {"idle"} \cup InCvWait
TimerPc == {"idle", "queue", "msleep", "signal"}

\* The values the fields of struct usb_process and the threads can take; the
\* worker holds up_mtx exactly where usb_process_thread does, and has a message
\* in hand exactly while its callback runs.
TypeOK ==
  /\ up_qhead \in Seq(Msg)
  /\ pm_num \in [Msg -> 0..(NumMod - 1)]
  /\ up_msg_num \in 0..(NumMod - 1)
  /\ up_gone \in BOOLEAN /\ up_ptr \in BOOLEAN
  /\ up_msleep \in BOOLEAN /\ up_dsleep \in BOOLEAN
  /\ up_mtx \in {Worker, NoThread}
  /\ cv \in [{"up_cv", "up_drain"} -> Event(Thread)]
  /\ pc \in [Thread -> OwnerPc \cup WorkerPc \cup CallerPc \cup TimerPc]
  /\ pc[Owner] \in OwnerPc /\ pc[Worker] \in WorkerPc
  /\ \A t \in Caller : pc[t] \in CallerPc
  /\ \A t \in Timer : pc[t] \in TimerPc
  /\ arg \in [Caller \cup Timer -> Pair \cup {NoMsg}]
  /\ cur \in Msg \cup {NoMsg}
  /\ up_mtx = Worker <=> pc[Worker] \in {"loop", "empty", "callback"}
  /\ cur # NoMsg <=> InCallback
  /\ owed \subseteq Pair /\ retired \subseteq Pair
  /\ sigs \in Nat

\* "Re-queue the entry closest to the end" (usb_process.c:310): when both
\* messages of a pair are queued, the sign of the difference of their wrapping
\* numbers picks the one that really is behind the other, however often
\* up_msg_num has wrapped.
RequeuesTheLast ==
  \A p \in Pair : \A i, j \in 1..Len(up_qhead) :
    /\ up_qhead[i][1] = p /\ up_qhead[j][1] = p /\ i < j
    => MsgToQueue(p) = up_qhead[j]

\* A signalled pair has a message on the queue whose callback is still to begin:
\* a message whose callback is already running does not count, since what was
\* signalled may have come too late for it.  Whatever msignal does while the
\* callback sleeps, the dispatcher does not forget a command.
NoMessageLost ==
  \A p \in owed : \E i \in 1..Len(up_qhead) :
    up_qhead[i][1] = p /\ (InCallback => up_qhead[i] # cur)

\* The dispatcher never sleeps on a non-empty queue: if it is waiting and the
\* signal is not there to be read, then the queue is empty, or a timer that has
\* just queued a message is about to signal it.  The timer does not hold up_mtx,
\* so this rests on the event being sticky.
NoLostWakeup ==
  LET Asleep == \/ pc[Worker] = "cv_read" /\ ~cv["up_cv"].flag
                \/ pc[Worker] = "cv_pend" /\ Pending(cv["up_cv"], Worker)
  IN  Asleep /\ ~up_gone /\ up_qhead # <<>>
        => \E t \in Timer : pc[t] \in {"msleep", "signal"}

\* usb_proc_free destroys the condition variables and its caller frees the
\* structure, so by then the dispatcher has executed its last statement and no
\* callback is running.
FreedMeansStopped == Freed => pc[Worker] \in {"idle", "exited"}

\* A thread that returns from usb_proc_mwait, while the process lives, finds
\* neither message on the queue and the callback of neither running: the caller
\* frees or reuses the messages next.
MwaitMeansDone ==
  [][\A t \in Caller :
       /\ pc[t] = "cv_relock" /\ pc'[t] = "idle" /\ ~up_gone
       /\ arg[t] \notin retired
       => /\ \A b \in {0, 1} : ~Queued(<<arg[t], b>>)
          /\ ~(InCallback /\ cur[1] = arg[t])]_vars

\* Every signalled pair gets a callback, unless the process is torn down first,
\* even if every pair is signalled again and again: a pair that is signalled
\* again while both its messages wait gives up only the later place.
EverySignalServed ==
  \A p \in Pair : (p \in owed) ~> (p \notin owed \/ up_gone)

\* "This function will return when the USB process message pointed to by "pm" is
\* no longer on a queue" (usb_process.c:373): a thread in usb_proc_mwait returns
\* once the signals stop, or the process is torn down.
MwaitReturns ==
  <>[](owed = {}) =>
    \A t \in Caller : (pc[t] \in InCvWait) ~> (pc[t] = "idle" \/ up_gone)

\* "This function will tear down an USB process, waiting for the currently
\* executing command to return" (usb_process.c:416).
DrainReturns == (pc[Owner] = "cv_read") ~> Freed

\* The same when a command is executing at the moment the drain starts to wait.
DrainWaitsForCommand == (pc[Owner] = "cv_read" /\ InCallback) ~> Freed
=============================================================================
