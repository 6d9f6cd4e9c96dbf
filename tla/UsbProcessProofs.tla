-------------------------- MODULE UsbProcessProofs --------------------------
(* The threads of UsbProcess, and the theorems about it.                      *)
EXTENDS UsbProcessQueue

(* The threads: who waits for what, and who wakes them *)

LEMMA OwnerPreserved ==
  ASSUME TypeOK, OwnerInv, [Next]_vars
  PROVE  OwnerInv'
<1> USE Constants DEF TypeOK, OwnerInv, InCvWait, Live, Freed
<1>1. CASE usb_proc_create
  BY <1>1 DEF usb_proc_create, usb_os_task_creat, CreateFails, CreateReturns
<1>2. CASE usb_process_thread
  <2>1. CASE WorkerLocks
    BY <2>1 DEF WorkerLocks, flagVars
  <2>2. CASE WorkerExits
    BY <2>2 DEF WorkerExits
  <2>3. CASE CallbackBegins \/ QueueFoundEmpty \/ CallbackReturns
    BY <2>3 DEF CallbackBegins, QueueFoundEmpty, CallbackReturns, flagVars
  <2>4. CASE WorkerWaits
    BY <2>4 DEF WorkerWaits
  <2>5. CASE CallbackSleeps
    BY <2>5 DEF CallbackSleeps, flagVars
  <2>6. ASSUME NEW p \in Pair, CallbackSignals(p) \/ CallbackMwaits(p) PROVE OwnerInv'
    BY <2>6 DEF CallbackSignals, MsignalLocked, CallbackMwaits, flagVars
  <2> QED
    BY <1>2, <2>1, <2>2, <2>3, <2>4, <2>5, <2>6, SMTT(30) DEF usb_process_thread
<1>3. CASE cv_wait
  <2> PICK t \in Caller \cup {Worker, Owner} : CvRead(t) \/ CvWake(t)
    BY <1>3 DEF cv_wait
  <2> QED
    BY DEF CvRead, CvWake, flagVars
<1>4. CASE usb_proc_free \/ DrainResumes
  BY <1>4 DEF usb_proc_free, DrainResumes, DrainLoop
<1>5. ASSUME NEW t \in Caller, NEW p, MwaitLoop(t, p) PROVE OwnerInv'
  BY <1>5 DEF MwaitLoop
<1>6. ASSUME NEW t \in Caller, NEW p, usb_proc_msignal(t, p) PROVE OwnerInv'
  BY <1>6 DEF usb_proc_msignal, MsignalLocked
<1>7. ASSUME NEW t \in Caller, usb_proc_rewakeup(t) PROVE OwnerInv'
  BY <1>7 DEF usb_proc_rewakeup, flagVars
<1>8. ASSUME NEW t \in Timer,
             \/ \E p \in Pair : TimerFires(t, p)
             \/ TimerQueues(t) \/ TimerClearsMsleep(t) \/ TimerSignals(t)
      PROVE  OwnerInv'
  BY <1>8 DEF TimerFires, TimerQueues, TimerClearsMsleep, TimerSignals, flagVars
<1>9. CASE UNCHANGED vars
  BY <1>9 DEF vars
<1> QED
  BY <1>1, <1>2, <1>3, <1>4, <1>5, <1>6, <1>7, <1>8, <1>9, SMTT(30)
     DEF Next, Finished, usb_proc_mwait, MwaitResumes

\* A callback retires a pair only when no timer has it in hand.
LEMMA ArgPreserved ==
  ASSUME TypeOK, ArgInv, [Next]_vars
  PROVE  ArgInv'
<1> USE Constants DEF TypeOK, ArgInv, InCvWait
<1>1. CASE usb_proc_create
  BY <1>1 DEF usb_proc_create, usb_os_task_creat, CreateFails, CreateReturns
<1>2. CASE usb_process_thread
  <2>1. ASSUME NEW p \in Pair, CallbackMwaits(p) PROVE ArgInv'
    BY <2>1 DEF CallbackMwaits
  <2>2. ASSUME NEW p \in Pair, CallbackSignals(p) PROVE ArgInv'
    BY <2>2 DEF CallbackSignals, MsignalLocked
  <2>3. CASE WorkerLocks \/ WorkerExits \/ QueueFoundEmpty \/ WorkerWaits
    BY <2>3 DEF WorkerLocks, WorkerExits, QueueFoundEmpty, WorkerWaits
  <2>4. CASE CallbackBegins \/ CallbackSleeps \/ CallbackReturns
    BY <2>4 DEF CallbackBegins, CallbackSleeps, CallbackReturns
  <2> QED
    BY <1>2, <2>1, <2>2, <2>3, <2>4, SMTT(30) DEF usb_process_thread
<1>3. CASE cv_wait
  <2> PICK t \in Caller \cup {Worker, Owner} : CvRead(t) \/ CvWake(t)
    BY <1>3 DEF cv_wait
  <2> QED
    BY DEF CvRead, CvWake
<1>4. CASE usb_proc_free \/ DrainResumes
  BY <1>4 DEF usb_proc_free, DrainResumes, DrainLoop
<1>5. ASSUME NEW t \in Caller, NEW p \in Pair, MwaitLoop(t, p) PROVE ArgInv'
  BY <1>5, SMTT(30) DEF MwaitLoop
<1>6. ASSUME NEW t \in Caller, NEW p, usb_proc_msignal(t, p) PROVE ArgInv'
  BY <1>6 DEF usb_proc_msignal, MsignalLocked
<1>7. ASSUME NEW t \in Caller, usb_proc_rewakeup(t) PROVE ArgInv'
  BY <1>7 DEF usb_proc_rewakeup
<1>8. ASSUME NEW t \in Timer,
             \/ \E p \in Pair : TimerFires(t, p)
             \/ TimerQueues(t) \/ TimerClearsMsleep(t) \/ TimerSignals(t)
      PROVE  ArgInv'
  BY <1>8, ZenonT(40) DEF TimerFires, MayQueue, TimerQueues, TimerClearsMsleep, TimerSignals
<1>9. CASE UNCHANGED vars
  BY <1>9 DEF vars
<1>10. ASSUME NEW t \in Caller, MwaitResumes(t) PROVE ArgInv'
  BY <1>5, <1>10 DEF MwaitResumes
<1> QED
  BY <1>1, <1>2, <1>3, <1>4, <1>5, <1>6, <1>7, <1>8, <1>9, <1>10, SMTT(30)
     DEF Next, Finished, usb_proc_mwait

\* A signal sets the event and leaves nobody asleep.
LEMMA SignalWakes ==
  ASSUME TypeOK, WakeInv, ~up_gone, cv' = [cv EXCEPT !["up_cv"] = cv_signal(@)]
  PROVE  cv'["up_cv"].flag /\ cv'["up_cv"].waiters = <<>>
<1> DEFINE e == cv["up_cv"]
<1>1. cv'["up_cv"] = cv_signal(e) /\ e.waiters \in Seq(Thread) /\ Len(e.waiters) <= 1
  BY DEF TypeOK, WakeInv, Event
<1>2. (IF e.waiters = <<>> THEN <<>> ELSE Tail(e.waiters)) = <<>>
  BY <1>1
<1> HIDE DEF e
<1> QED
  BY <1>1, <1>2 DEF cv_signal

\* The worker is awake, or its event will be set before it sleeps.
LEMMA WakePreserved ==
  ASSUME TypeOK, OwnerInv, WakeInv, [Next]_vars
  PROVE  WakeInv'
<1> SUFFICES ASSUME ~up_gone' PROVE WakeInv'
  BY DEF WakeInv
<1> USE Constants
<1>1. ASSUME ~up_gone, cv' = [cv EXCEPT !["up_cv"] = cv_signal(@)] PROVE WakeInv'
  <2>1. cv'["up_cv"].flag /\ cv'["up_cv"].waiters = <<>>
    BY <1>1, SignalWakes
  <2> QED
    BY <2>1 DEF WakeInv
<1>2. ASSUME ~up_gone, cv'["up_cv"] = cv["up_cv"], pc'[Worker] = pc[Worker],
             up_qhead' = up_qhead,
             \A t \in Timer : pc[t] \in {"msleep", "signal"} => pc'[t] \in {"msleep", "signal"}
      PROVE  WakeInv'
  BY <1>2 DEF WakeInv
<1>3. ASSUME ~up_gone, cv'["up_cv"] = cv["up_cv"], pc[Worker] # "cv_pend",
             pc'[Worker] \notin {"empty", "cv_read", "cv_pend"}
      PROVE  WakeInv'
  BY <1>3 DEF WakeInv
<1>4. CASE usb_proc_create
  <2>1. CASE usb_os_task_creat
    BY <1>3, <2>1 DEF usb_os_task_creat, flagVars, OwnerInv, TypeOK
  <2>2. CASE CreateReturns
    BY <1>2, <2>2 DEF CreateReturns, queueVars, TypeOK
  <2> QED
    BY <1>4, <2>1, <2>2, SMTT(30) DEF usb_proc_create, CreateFails
<1>5. CASE usb_process_thread
  <2>1. CASE WorkerLocks
    BY <1>3, <2>1 DEF WorkerLocks, flagVars, TypeOK
  <2>2. CASE WorkerExits
    BY <2>2 DEF WorkerExits
  <2>3. CASE CallbackBegins \/ CallbackReturns \/ CallbackSleeps
    BY <1>3, <2>3 DEF CallbackBegins, CallbackReturns, CallbackSleeps, flagVars, TypeOK
  <2>4. CASE QueueFoundEmpty
    BY <2>4 DEF QueueFoundEmpty, queueVars, flagVars, TypeOK, WakeInv
  <2>5. CASE WorkerWaits
    <3>1. cv'["up_cv"] = cv["up_cv"]
      BY <2>5 DEF WorkerWaits, TypeOK
    <3>2. /\ ~up_gone /\ up_qhead' = up_qhead /\ pc[Worker] = "empty"
          /\ pc' = [pc EXCEPT ![Worker] = "cv_read"]
      BY <2>5 DEF WorkerWaits, queueVars
    <3> QED
      BY <3>1, <3>2 DEF WakeInv, TypeOK
  <2>6. ASSUME NEW p \in Pair, CallbackSignals(p) PROVE WakeInv'
    BY <1>1, <2>6 DEF CallbackSignals, MsignalLocked
  <2>7. ASSUME NEW p \in Pair, CallbackMwaits(p) PROVE WakeInv'
    BY <1>3, <2>7 DEF CallbackMwaits
  <2> QED
    BY <1>5, <2>1, <2>2, <2>3, <2>4, <2>5, <2>6, <2>7, SMTT(30) DEF usb_process_thread
<1>6. CASE cv_wait
  <2> PICK t \in Caller \cup {Worker, Owner} : CvRead(t) \/ CvWake(t)
    BY <1>6 DEF cv_wait
  <2>1. ~up_gone /\ up_qhead' = up_qhead
    BY DEF CvRead, CvWake, flagVars, queueVars
  <2>2. t # Owner
    BY <2>1, SMTT(30) DEF CvRead, CvWake, OwnerInv, InCvWait
  <2>3. CASE t \in Caller
    BY <1>2, <2>1, <2>3, SMTT(30) DEF CvRead, CvWake, CvOf, TypeOK
  <2>4. CASE t = Worker
    <3> DEFINE e == cv["up_cv"]
    <3>0. CvOf(t) = "up_cv"
      BY <2>4 DEF CvOf
    <3>1. e \in Event(Thread) /\ e.waiters \in Seq(Thread)
      BY DEF TypeOK, Event
    <3>2. CASE CvWake(t)
      <4>1. e.waiters = <<>>
        <5>1. Len(e.waiters) = 0
          BY <2>1, <2>4, <3>0, <3>1, <3>2, SMTT(30) DEF CvWake, Pending, WakeInv
        <5> QED
          BY <3>1, <5>1, SMTT(30)
      <4>2. cv'["up_cv"] = EventConsume(e) /\ pc'[Worker] = "cv_relock"
        BY <2>4, <3>0, <3>2 DEF CvWake, TypeOK
      <4>3. cv'["up_cv"].waiters = <<>>
        BY <3>1, <4>1, <4>2, SMTT(30) DEF EventConsume, Event
      <4> QED
        BY <4>2, <4>3 DEF WakeInv
    <3>3. CASE CvRead(t) /\ e.flag
      <4>1. e.waiters = <<>>
        BY <2>1, <2>4, <3>3, SMTT(30) DEF CvRead, WakeInv
      <4>2. cv'["up_cv"] = EventConsume(e) /\ pc'[Worker] = "cv_relock"
        BY <2>4, <3>0, <3>3, SMTT(30) DEF CvRead, TypeOK
      <4>3. cv'["up_cv"].waiters = <<>>
        BY <3>1, <4>1, <4>2 DEF EventConsume, Event
      <4> QED
        BY <4>2, <4>3 DEF WakeInv
    <3>4. CASE CvRead(t) /\ ~e.flag
      <4>1. e.waiters = <<>>
        BY <2>1, <2>4, <3>4, SMTT(30) DEF CvRead, WakeInv
      <4>2. cv'["up_cv"] = EventPend(e, Worker) /\ pc' = [pc EXCEPT ![Worker] = "cv_pend"]
        BY <2>4, <3>0, <3>4 DEF CvRead, TypeOK
      <4>3. cv'["up_cv"].waiters = <<Worker>>
        BY <3>1, <4>1, <4>2, SMTT(30) DEF EventPend, Event
      <4>4. up_qhead # <<>> => \E u \in Timer : pc[u] \in {"msleep", "signal"}
        BY <2>1, <2>4, <3>4, SMTT(30) DEF CvRead, WakeInv
      <4>5. \A u \in Timer : pc'[u] = pc[u]
        BY <4>2 DEF TypeOK
      <4>6. pc'[Worker] = "cv_pend"
        BY <4>2 DEF TypeOK
      <4> QED
        BY <2>1, <4>3, <4>4, <4>5, <4>6, SMTT(30) DEF WakeInv
    <3> QED
      BY <3>2, <3>3, <3>4
  <2> QED
    BY <2>2, <2>3, <2>4, SMTT(30)
<1>7. CASE usb_proc_free \/ DrainResumes
  BY <1>7 DEF usb_proc_free, DrainResumes, DrainLoop
<1>8. ASSUME NEW t \in Caller, NEW p, MwaitLoop(t, p) PROVE WakeInv'
  BY <1>2, <1>8 DEF MwaitLoop, queueVars, TypeOK
<1>9. ASSUME NEW t \in Caller, NEW p, usb_proc_msignal(t, p) PROVE WakeInv'
  BY <1>1, <1>9 DEF usb_proc_msignal, MsignalLocked
<1>10. ASSUME NEW t \in Caller, usb_proc_rewakeup(t) PROVE WakeInv'
  BY <1>1, <1>10 DEF usb_proc_rewakeup, flagVars
<1>11. ASSUME NEW t \in Timer, NEW p, TimerFires(t, p) PROVE WakeInv'
  BY <1>2, <1>11, SMTT(30) DEF TimerFires, queueVars, flagVars, TypeOK
<1>12. ASSUME NEW t \in Timer, TimerQueues(t) PROVE WakeInv'
  <2>1. /\ ~up_gone /\ cv' = cv /\ pc'[t] = "msleep" /\ pc'[Worker] = pc[Worker]
    BY <1>12 DEF TimerQueues, flagVars, TypeOK
  <2> QED
    BY <2>1 DEF WakeInv
<1>13. ASSUME NEW t \in Timer, TimerClearsMsleep(t) PROVE WakeInv'
  BY <1>2, <1>13 DEF TimerClearsMsleep, queueVars, TypeOK
<1>14. ASSUME NEW t \in Timer, TimerSignals(t) PROVE WakeInv'
  BY <1>1, <1>14 DEF TimerSignals, flagVars
<1>15. CASE UNCHANGED vars
  BY <1>2, <1>15 DEF vars
<1> QED
  BY <1>4, <1>5, <1>6, <1>7, <1>8, <1>9, <1>10, <1>11, <1>12, <1>13, <1>14, <1>15, SMTT(30)
     DEF Next, Finished, usb_proc_mwait, MwaitResumes
-----------------------------------------------------------------------------
(* The theorems *)

LEMMA InitInv == Init => IInv
<1> SUFFICES ASSUME Init PROVE IInv
  OBVIOUS
<1> USE Constants DEF Init
<1>1. TypeOK
  <2>1. cv \in [{"up_cv", "up_drain"} -> Event(Thread)]
    BY DEF Event, cv_init
  <2>2. pm_num \in [Msg -> 0..(NumMod - 1)] /\ up_msg_num \in 0..(NumMod - 1)
    BY Numbers
  <2>3. /\ pc \in [Thread -> OwnerPc \cup WorkerPc \cup CallerPc \cup TimerPc]
        /\ pc[Owner] \in OwnerPc /\ pc[Worker] = "idle"
        /\ \A t \in Caller : pc[t] \in CallerPc
        /\ \A t \in Timer : pc[t] \in TimerPc
    BY DEF OwnerPc, WorkerPc, CallerPc, TimerPc
  <2>4. pc[Worker] \in WorkerPc /\ ~InCallback
    BY <2>3 DEF WorkerPc, InCallback
  <2>5. up_qhead \in Seq(Msg) /\ arg \in [Caller \cup Timer -> Pair \cup {NoMsg}]
    OBVIOUS
  <2>6. /\ up_gone \in BOOLEAN /\ up_ptr \in BOOLEAN
        /\ up_msleep \in BOOLEAN /\ up_dsleep \in BOOLEAN
    OBVIOUS
  <2>7. up_mtx # Worker /\ pc[Worker] \notin {"loop", "empty", "callback"}
    BY <2>3
  <2> QED
    BY <2>1, <2>2, <2>3, <2>4, <2>5, <2>6, <2>7, ZenonT(40) DEF TypeOK
<1>2. OwnerInv /\ ArgInv
  BY DEF OwnerInv, ArgInv, InCvWait, Live, Freed
<1>3. QueueInv /\ CurInv /\ RetiredInv /\ AgeInv /\ NoMessageLost
  BY DEF QueueInv, Distinct, CurInv, RetiredInv, AgeInv, NoMessageLost, InCallback
<1>4. WakeInv
  BY DEF WakeInv, cv_init
<1> QED
  BY <1>1, <1>2, <1>3, <1>4, SMTT(30) DEF IInv

LEMMA NextInv == IInv /\ [Next]_vars => IInv'
BY TypesPreserved, OwnerPreserved, ArgPreserved, QueuePreserved, WakePreserved DEF IInv

\* IInv holds in every state of usb_process.c, whatever its threads do.
THEOREM InductiveInvariant == Spec => []IInv
BY InitInv, NextInv, PTL DEF Spec

\* Type correctness: struct usb_process and the threads keep their types, and
\* the worker holds up_mtx exactly where usb_process_thread does.
THEOREM TypeCorrectness == Spec => []TypeOK
<1>1. IInv => TypeOK
  BY DEF IInv
<1> QED
  BY <1>1, InductiveInvariant, PTL

\* "Re-queue the entry closest to the end": for every number of pairs and every
\* width of pm_num that exceeds twice their number, the sign test of msignal
\* finds the message that is behind the other.
THEOREM RequeueTheorem == Spec => []RequeuesTheLast
<1>1. IInv => RequeuesTheLast
  BY LaterMessage DEF IInv
<1> QED
  BY <1>1, InductiveInvariant, PTL

\* The dispatcher forgets no command that was signalled to it.
THEOREM NoLossTheorem == Spec => []NoMessageLost
<1>1. IInv => NoMessageLost
  BY SMTT(30) DEF IInv
<1> QED
  BY <1>1, InductiveInvariant, PTL

\* The dispatcher does not sleep on a non-empty queue, with any number of timers
\* that signal without the mutex.
THEOREM WakeupTheorem == Spec => []NoLostWakeup
<1>1. IInv => NoLostWakeup
  <2> SUFFICES ASSUME IInv PROVE NoLostWakeup
    OBVIOUS
  <2>1. Pending(cv["up_cv"], Worker) => cv["up_cv"].waiters # <<>>
    BY DEF Pending
  <2> QED
    BY <2>1 DEF IInv, WakeInv, NoLostWakeup
<1> QED
  BY <1>1, InductiveInvariant, PTL

\* When usb_proc_free returns, the thread has executed its last statement.
THEOREM FreedTheorem == Spec => []FreedMeansStopped
<1>1. IInv => FreedMeansStopped
  BY DEF IInv, OwnerInv, FreedMeansStopped
<1> QED
  BY <1>1, InductiveInvariant, PTL

\* What a thread that returns from usb_proc_mwait may rely on: neither message
\* of the pair is queued and no callback of theirs is running.
THEOREM MwaitTheorem == Spec => MwaitMeansDone
<1>1. ASSUME IInv, [Next]_vars, NEW t \in Caller,
             pc[t] = "cv_relock", pc'[t] = "idle", ~up_gone, arg[t] \notin retired
      PROVE  /\ \A b \in {0, 1} : ~Queued(<<arg[t], b>>)
             /\ ~(InCallback /\ cur[1] = arg[t])
  <2> USE <1>1, Constants
  <2>0. TypeOK
    BY DEF IInv
  <2>1. MwaitResumes(t)
    <3> USE <2>0 DEF TypeOK
    <3>1. ~usb_proc_create
      BY DEF usb_proc_create, usb_os_task_creat, CreateFails, CreateReturns
    <3>2. ~usb_process_thread
      BY ZenonT(40) DEF usb_process_thread, WorkerLocks, WorkerExits, CallbackBegins,
         QueueFoundEmpty, WorkerWaits, CallbackSleeps, CallbackReturns,
         CallbackSignals, MsignalLocked, CallbackMwaits
    <3>3. ~cv_wait
      BY DEF cv_wait, CvRead, CvWake
    <3>4. ~usb_proc_free /\ ~DrainResumes
      BY DEF usb_proc_free, DrainResumes, DrainLoop
    <3>5. ASSUME NEW u \in Caller, NEW p
          PROVE  ~usb_proc_msignal(u, p) /\ ~usb_proc_mwait(u, p) /\ ~usb_proc_rewakeup(u)
      BY ZenonT(40) DEF usb_proc_msignal, MsignalLocked, usb_proc_mwait, MwaitLoop, usb_proc_rewakeup
    <3>6. ASSUME NEW u \in Caller, MwaitResumes(u) PROVE u = t
      BY <3>6 DEF MwaitResumes, MwaitLoop
    <3>7. ASSUME NEW u \in Timer
          PROVE  /\ \A p \in Pair : ~TimerFires(u, p)
                 /\ ~TimerQueues(u) /\ ~TimerClearsMsleep(u) /\ ~TimerSignals(u)
      BY ZenonT(40) DEF TimerFires, TimerQueues, TimerClearsMsleep, TimerSignals
    <3>8. ~UNCHANGED vars
      BY DEF vars
    <3> QED
      BY <3>1, <3>2, <3>3, <3>4, <3>5, <3>6, <3>7, <3>8, ZenonT(40) DEF Next, Finished
  <2>2. ~Queued(<<arg[t], 0>>) /\ ~Queued(<<arg[t], 1>>)
    BY <2>0, <2>1 DEF MwaitResumes, MwaitLoop, TypeOK
  <2>3. ASSUME InCallback, cur[1] = arg[t] PROVE FALSE
    <3>1. cur \in Msg
      BY <2>0, <2>3 DEF TypeOK
    <3>2. cur \in {<<arg[t], 0>>, <<arg[t], 1>>}
      BY <2>3, <3>1 DEF Msg
    <3> QED
      BY <2>2, <2>3, <3>2, SMTT(30) DEF IInv, CurInv
  <2> QED
    BY <2>2, <2>3, SMTT(30)
<1>2. IInv /\ [Next]_vars =>
        [\A t \in Caller :
           /\ pc[t] = "cv_relock" /\ pc'[t] = "idle" /\ ~up_gone
           /\ arg[t] \notin retired
           => /\ \A b \in {0, 1} : ~Queued(<<arg[t], b>>)
              /\ ~(InCallback /\ cur[1] = arg[t])]_vars
  BY <1>1
<1> QED
  BY <1>2, InductiveInvariant, PTL DEF Spec, MwaitMeansDone
=============================================================================
