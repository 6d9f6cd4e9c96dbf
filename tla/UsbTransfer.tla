---------------------------- MODULE UsbTransfer ----------------------------
(***************************************************************************)
(* The life of the USB transfers of one usb_xfer_root                      *)
(* (sys/dev/usb/usb_transfer.c): drivers start, stop, drain and unsetup    *)
(* them, the endpoint queue hands them to the host controller one at a     *)
(* time, interrupts and timers complete them, and the done process calls   *)
(* the drivers back.  The transfers here are bulk or interrupt transfers   *)
(* on one endpoint of a host-mode device.                                  *)
(*                                                                         *)
(* Who runs:                                                               *)
(*   - a Client takes xfer_mtx and calls usbd_transfer_start, _stop,       *)
(*     _drain or _unsetup;                                                 *)
(*   - the done process runs usb_callback_proc with xfer_mtx and calls the *)
(*     callbacks, which may submit, start and stop transfers and may drop  *)
(*     the mutex;                                                          *)
(*   - the host controller (ehci.c) interrupts, with the bus lock held;    *)
(*   - timers, which hold no lock at all: callout_function of              *)
(*     sys/kern/kern_timeout.c calls the function without the mutex the    *)
(*     callout was initialized with.                                       *)
(* A section under the bus lock is one step, so the bus lock is not seen.  *)
(* On one processor the timer task, which has the highest priority, runs   *)
(* its function to the end once it has begun; on several (SMP) the steps   *)
(* of usbd_transfer_done interleave with everything else.                  *)
(*                                                                         *)
(* The queue of the done process is UsbProcess; what is used of it here is *)
(* what it promises: a signalled message is executed (owed).               *)
(***************************************************************************)
EXTENDS CondVar, SequencesExt

CONSTANTS
  Xfer,        \* the transfers of the root
  Client,      \* threads of the driver
  None,        \* no transfer, no thread
  Bof,         \* transfers with the flag pipe_bof, block pipe on failure
  Timed,       \* transfers with a timeout
  Interval,    \* transfers with a delay before the start
  DmaDelay,    \* usbd_get_dma_delay() # 0
  SMP,         \* several processors
  Does         \* what the driver and the world do beyond starting transfers

ASSUME TransferAssumption ==
  /\ IsFiniteSet(Xfer) /\ IsFiniteSet(Client)
  /\ Bof \subseteq Xfer /\ Timed \subseteq Xfer /\ Interval \subseteq Xfer
  /\ None \notin Xfer \cup Client
  /\ "proc" \notin Client
  /\ {DmaDelay, SMP} \subseteq BOOLEAN
  /\ Does \subseteq
       {"restart",   \* transfers are started while they run or after a stop
        "stop",      \* usbd_transfer_stop, from threads and from callbacks
        "drain", "unsetup",
        "sleep",     \* a callback drops the mutex
        "stall",     \* a callback calls usbd_xfer_set_stall before the submit
        "refuse",    \* a callback submits a transfer without frames
        "detach",    \* the device goes away
        "no timer"}  \* LOS_SwtmrCreate fails

VARIABLES
  st,          \* the root, its transfers, the endpoint and the callouts
  mtx,         \* owner of xfer_mtx
  ppc,         \* control point of the done process
  cur,         \* xfer of usbd_callback_wrapper
  usb_state,   \* its usb_state while the callback runs
  fresh,       \* the callback has neither submitted nor slept yet
  cpc,         \* control point of every client
  carg,        \* the transfer a client drains
  unsetup,     \* transfers whose pointer usbd_transfer_unsetup has cleared
  freed,       \* transfers usbd_transfer_unsetup is done with
  cv_drain,    \* the event of info->cv_drain
  tpc,         \* control point of the timer function of every transfer
  alive,       \* the device is still powered
  stopped      \* ghost: stopped while transferring, callback not yet begun

vars == <<st, mtx, ppc, cur, usb_state, fresh, cpc, carg, unsetup, freed, cv_drain, tpc,
          alive, stopped>>
procVars == <<ppc, cur, usb_state, fresh>>
clientVars == <<cpc, carg, unsetup, freed>>
-----------------------------------------------------------------------------
(* The state of a root                                                     *)

\* FAILED is any of the other errors: the code treats them alike.
Error == {"NORMAL", "CANCELLED", "TIMEOUT", "FAILED"}

\* The members of usb_xfer, flags_int and flags that the control looks at.  The
\* submit resets did_close, did_dma_delay, can_cancel_immed and nframes, and they
\* are read only while the transfer is in progress; here they have their initial
\* value at all other times.
Flags == [started : BOOLEAN, open : BOOLEAN, transferring : BOOLEAN,
          can_cancel_immed : BOOLEAN, did_close : BOOLEAN,
          did_dma_delay : BOOLEAN, doing_callback : BOOLEAN,
          draining : BOOLEAN, stall_pipe : BOOLEAN, nframes : {0, 1},
          error : Error]

TimerFunc == {"usbd_transfer_start_cb", "usb_dma_delay_done_cb", "ehci_timeout"}

\* done_q and ep_q are queues of the code, intr_q the one of the controller.
\* callout[x] is the function an armed timer will call.
Roots == [xf : [Xfer -> Flags],
          done_q : [head : Seq(Xfer), curr : Xfer \cup {None},
                    recurse_1 : BOOLEAN, recurse_2 : BOOLEAN],
          ep_q : [head : Seq(Xfer), curr : Xfer \cup {None}],
          intr_q : SUBSET Xfer,
          is_stalled : BOOLEAN,
          callout : [Xfer -> TimerFunc \cup {None}],
          room : BOOLEAN,      \* a software timer can be had
          owed : BOOLEAN,      \* done_m is queued to the done process
          dma : SUBSET Xfer]   \* ghost: the controller may use the buffers

InitRoot ==
  [xf |-> [x \in Xfer |->
             [started |-> FALSE, open |-> FALSE, transferring |-> FALSE,
              can_cancel_immed |-> FALSE, did_close |-> FALSE,
              did_dma_delay |-> FALSE, doing_callback |-> FALSE,
              draining |-> FALSE, stall_pipe |-> FALSE, nframes |-> 1,
              error |-> "NORMAL"]],
   done_q |-> [head |-> <<>>, curr |-> None,
               recurse_1 |-> FALSE, recurse_2 |-> FALSE],
   ep_q |-> [head |-> <<>>, curr |-> None],
   intr_q |-> {}, is_stalled |-> FALSE,
   callout |-> [x \in Xfer |-> None],
   room |-> TRUE, owed |-> FALSE, dma |-> {}]

\* xfer->wait_queue # NULL
Waiting(S, x) ==
  \/ x \in Range(S.done_q.head)
  \/ x \in Range(S.ep_q.head)
  \/ x \in S.intr_q

\* xfer->wait_queue = NULL
usbd_transfer_dequeue(S, x) ==
  [S EXCEPT !.done_q.head = SelectSeq(@, LAMBDA y : y # x),
            !.ep_q.head = SelectSeq(@, LAMBDA y : y # x),
            !.intr_q = @ \ {x}]
-----------------------------------------------------------------------------
(* Callouts                                                                *)

callout_stop(S, x) == [S EXCEPT !.callout[x] = None]

\* usbd_transfer_timeout_ms
callout_reset(S, x, f) ==
  [S EXCEPT !.callout[x] = IF S.room THEN f ELSE None]
-----------------------------------------------------------------------------
(* Completion                                                              *)

\* Put the transfer on done_q and see to it that the queue is served: by the
\* loop that is running it (recurse_1), else by the done process.
usbd_callback_ss_done_defer(S, x) ==
  LET E == IF S.done_q.curr = x \/ Waiting(S, x) THEN S
           ELSE [S EXCEPT !.done_q.head = Append(@, x)]
  IN  IF E.done_q.recurse_1 THEN [E EXCEPT !.done_q.recurse_2 = FALSE]
      ELSE [E EXCEPT !.owed = TRUE]

\* Mutant: the error of a completion replaces the one of a stop.
SetError_Overrides(S, x, err) == [S EXCEPT !.xf[x].error = err]

\* Only the first error counts.
SetError(S, x, err) ==
  [S EXCEPT !.xf[x].error = IF @ = "NORMAL" THEN err ELSE @]

usbd_transfer_done(S, x, err) ==
  IF ~S.xf[x].transferring THEN S
  ELSE usbd_callback_ss_done_defer(
         usbd_transfer_dequeue(callout_stop(SetError(S, x, err), x), x), x)

\* endpoint->methods->close: off the schedule of the controller.  Without a
\* DMA delay the controller has declared that it is done with the buffers.
close(S, x) ==
  usbd_transfer_done([S EXCEPT !.dma = IF DmaDelay THEN @ ELSE @ \ {x}],
                     x, "CANCELLED")
-----------------------------------------------------------------------------
(* The endpoint queue: one transfer at a time is with the controller       *)

\* methods->start: on the schedule, on intr_q, and the timeout is armed.
start(S, x) ==
  LET E == [S EXCEPT !.intr_q = IF Waiting(S, x) THEN @ ELSE @ \cup {x},
                     !.dma = @ \cup {x}]
  IN  IF x \in Timed THEN callout_reset(E, x, "ehci_timeout") ELSE E

usbd_transfer_start_cb(S, x) ==
  LET E == [S EXCEPT !.xf[x].can_cancel_immed = TRUE]
  IN  IF S.xf[x].error = "NORMAL" THEN start(E, x)
      ELSE usbd_transfer_done(E, x, "NORMAL")


\* The command of the endpoint queue, on its current transfer.
usbd_pipe_start(S) ==
  LET x == S.ep_q.curr
  IN  IF S.is_stalled THEN S
      ELSE IF S.xf[x].stall_pipe
      THEN [S EXCEPT !.xf[x].stall_pipe = FALSE, !.is_stalled = TRUE]
      ELSE IF S.xf[x].nframes = 0 THEN usbd_transfer_done(S, x, "NORMAL")
      ELSE IF x \in Interval THEN callout_reset(S, x, "usbd_transfer_start_cb")
      ELSE usbd_transfer_start_cb(S, x)

\* usb_command_wrapper on the endpoint queue.  The command does not come back
\* to this queue, so the flags against recursion stay as they are.
RunEndpoint(S) ==
  IF S.ep_q.curr # None THEN usbd_pipe_start(S)
  ELSE IF S.ep_q.head = <<>> THEN S
  ELSE usbd_pipe_start([S EXCEPT !.ep_q.curr = Head(S.ep_q.head),
                                 !.ep_q.head = Tail(@)])

\* usb_command_wrapper(endpoint_q, NULL)
NextOnEndpoint(S) == RunEndpoint([S EXCEPT !.ep_q.curr = None])

\* Mutant: the transfer ahead of it is not waited for.
EnterEndpoint_Eager(S, x) ==
  NextOnEndpoint(IF Waiting(S, x) THEN S ELSE [S EXCEPT !.ep_q.head = Append(@, x)])

\* usb_command_wrapper(endpoint_q, xfer)
EnterEndpoint(S, x) ==
  IF S.ep_q.curr = x THEN RunEndpoint(S)
  ELSE LET E == IF Waiting(S, x) THEN S
                ELSE [S EXCEPT !.ep_q.head = Append(@, x)]
       IN  IF E.ep_q.curr # None THEN E ELSE RunEndpoint(E)
-----------------------------------------------------------------------------
(* What a driver calls.  All of these run with xfer_mtx held.              *)

\* usbd_transfer_submit up to the hand-over to the controller.  The DMA load
\* (usb_bdma_work_loop) is synchronous and ends in usbd_pipe_enter.  A transfer
\* without frames stands for all that are refused, those whose lengths wrap
\* around included.  The callback may have set the
\* stall flag (usbd_xfer_set_stall), which stays until the stall is requested.
usbd_transfer_submit(S, x, n, stall, up) ==
  LET T == usbd_transfer_dequeue(
             [S EXCEPT !.xf[x] = [@ EXCEPT !.open = TRUE, !.transferring = TRUE,
                                           !.did_dma_delay = FALSE,
                                           !.did_close = FALSE,
                                           !.can_cancel_immed = FALSE,
                                           !.error = "NORMAL",
                                           !.nframes = n,
                                           !.stall_pipe = @ \/ stall]],
             x)
      C == [T EXCEPT !.xf[x].can_cancel_immed = TRUE]
  IN  IF ~up THEN usbd_transfer_done(T, x, "CANCELLED")
      ELSE IF n = 0 /\ ~T.xf[x].stall_pipe THEN usbd_transfer_done(T, x, "FAILED")
      ELSE EnterEndpoint(C, x)

usbd_transfer_start(S, x) ==
  LET E == [S EXCEPT !.xf[x].started = TRUE]
  IN  IF S.xf[x].transferring THEN E ELSE usbd_callback_ss_done_defer(E, x)

\* Mutant: a blocked endpoint is not restarted.
usbd_transfer_stop_NoRestart(S, x) ==
  LET E == [S EXCEPT !.xf[x] = [@ EXCEPT !.open = FALSE, !.started = FALSE,
                                         !.error = "CANCELLED"]]
  IN  IF ~S.xf[x].open THEN [S EXCEPT !.xf[x].started = FALSE]
      ELSE IF ~S.xf[x].transferring THEN close(E, x)
      ELSE IF S.xf[x].can_cancel_immed /\ ~S.xf[x].did_close
      THEN [close(E, x) EXCEPT !.xf[x].did_close = TRUE]
      ELSE E

usbd_transfer_stop(S, x) ==
  LET E == [S EXCEPT !.xf[x] = [@ EXCEPT !.open = FALSE, !.started = FALSE,
                                         !.error = "CANCELLED"]]
  IN  IF ~S.xf[x].open THEN [S EXCEPT !.xf[x].started = FALSE]
      ELSE IF ~S.xf[x].transferring
      THEN IF S.ep_q.curr = x THEN NextOnEndpoint(close(E, x)) ELSE close(E, x)
      ELSE IF S.xf[x].can_cancel_immed /\ ~S.xf[x].did_close
      THEN [close(E, x) EXCEPT !.xf[x].did_close = TRUE]
      ELSE E

usbd_transfer_pending(S, x) ==
  S.xf[x].transferring \/ Waiting(S, x) \/ S.done_q.curr = x
-----------------------------------------------------------------------------
(* The driver's threads                                                    *)

Init ==
  /\ st = InitRoot
  /\ mtx = None
  /\ ppc = "idle" /\ cur = None /\ usb_state = "SETUP" /\ fresh = FALSE
  /\ cpc = [c \in Client |-> "idle"]
  /\ carg = [c \in Client |-> None]
  /\ unsetup = {} /\ freed = {}
  /\ cv_drain = cv_init
  /\ tpc = [x \in Xfer |-> "idle"]
  /\ alive = TRUE
  /\ stopped = {}

\* On one processor nothing runs while a timer function does.
TasksRun == SMP \/ \A x \in Xfer : tpc[x] = "idle"

\* The pointer of a transfer is NULL once its unsetup has begun.
Known(x) == x \notin unsetup

Stopping(S, x) == IF S.xf[x].open /\ S.xf[x].transferring THEN {x} ELSE {}

ClientStarts(c, x) ==
  /\ TasksRun
  /\ cpc[c] = "idle" /\ mtx = None /\ Known(x)
  /\ "restart" \in Does \/ ~(st.xf[x].started \/ usbd_transfer_pending(st, x))
  /\ st' = usbd_transfer_start(st, x)
  /\ UNCHANGED <<mtx, procVars, clientVars, cv_drain, tpc, alive, stopped>>

ClientStops(c, x) ==
  /\ TasksRun
  /\ cpc[c] = "idle" /\ mtx = None /\ Known(x) /\ "stop" \in Does
  /\ st' = usbd_transfer_stop(st, x)
  /\ stopped' = stopped \cup Stopping(st, x)
  /\ UNCHANGED <<mtx, procVars, clientVars, cv_drain, tpc, alive>>

\* usbd_transfer_drain and usbd_transfer_unsetup begin with a stop; the latter
\* has cleared the pointer before.
DrainBegins(c, x, gone) ==
  /\ TasksRun
  /\ cpc[c] = "idle" /\ mtx = None /\ Known(x)
  /\ (IF gone THEN "unsetup" ELSE "drain") \in Does
  /\ unsetup' = IF gone THEN unsetup \cup {x} ELSE unsetup
  /\ mtx' = c
  /\ cpc' = [cpc EXCEPT ![c] = "drain"]
  /\ carg' = [carg EXCEPT ![c] = x]
  /\ st' = usbd_transfer_stop(st, x)
  /\ stopped' = stopped \cup Stopping(st, x)
  /\ UNCHANGED <<procVars, freed, cv_drain, tpc, alive>>

usbd_transfer_drain(c, x) == DrainBegins(c, x, FALSE)

\* Mutant: the transfer is stopped but not waited for.
usbd_transfer_unsetup_NoWait(c, x) ==
  /\ TasksRun
  /\ cpc[c] = "idle" /\ mtx = None /\ Known(x) /\ "unsetup" \in Does
  /\ unsetup' = unsetup \cup {x}
  /\ cpc' = [cpc EXCEPT ![c] = "callout_drain"]
  /\ carg' = [carg EXCEPT ![c] = x]
  /\ st' = usbd_transfer_stop(st, x)
  /\ stopped' = stopped \cup Stopping(st, x)
  /\ UNCHANGED <<mtx, procVars, freed, cv_drain, tpc, alive>>

usbd_transfer_unsetup(c, x) == DrainBegins(c, x, TRUE)


DrainWaits(S, x) == usbd_transfer_pending(S, x) \/ S.xf[x].doing_callback

\* The loop of the drain, with xfer_mtx: wait again, or return.
DrainLoop(c) ==
  LET x == carg[c]
  IN  /\ TasksRun
      /\ cpc[c] = "drain" /\ mtx = c
      /\ mtx' = None
      /\ IF DrainWaits(st, x)
         THEN /\ st' = [st EXCEPT !.xf[x].draining = TRUE]
              /\ cpc' = [cpc EXCEPT ![c] = "cv_read"]
              /\ UNCHANGED carg
         ELSE IF x \in unsetup
         THEN /\ cpc' = [cpc EXCEPT ![c] = "callout_drain"]
              /\ UNCHANGED <<st, carg>>
         ELSE /\ cpc' = [cpc EXCEPT ![c] = "idle"]
              /\ carg' = [carg EXCEPT ![c] = None]
              /\ UNCHANGED st
      /\ UNCHANGED <<procVars, unsetup, freed, cv_drain, tpc, alive, stopped>>

\* cv_wait on cv_drain, after the release of xfer_mtx.
DrainReadsEvent(c) ==
  /\ TasksRun
  /\ cpc[c] = "cv_read"
  /\ \/ /\ cv_drain.flag
        /\ cv_drain' = EventConsume(cv_drain)
        /\ cpc' = [cpc EXCEPT ![c] = "cv_relock"]
     \/ /\ ~cv_drain.flag
        /\ cv_drain' = EventPend(cv_drain, c)
        /\ cpc' = [cpc EXCEPT ![c] = "cv_pend"]
  /\ UNCHANGED <<st, mtx, procVars, carg, unsetup, freed, tpc, alive, stopped>>

DrainIsWoken(c) ==
  /\ TasksRun
  /\ cpc[c] = "cv_pend" /\ ~Pending(cv_drain, c)
  /\ cv_drain' = EventConsume(cv_drain)
  /\ cpc' = [cpc EXCEPT ![c] = "cv_relock"]
  /\ UNCHANGED <<st, mtx, procVars, carg, unsetup, freed, tpc, alive, stopped>>

DrainRelocks(c) ==
  /\ TasksRun
  /\ cpc[c] = "cv_relock" /\ mtx = None
  /\ mtx' = c
  /\ cpc' = [cpc EXCEPT ![c] = "drain"]
  /\ UNCHANGED <<st, procVars, carg, unsetup, freed, cv_drain, tpc, alive, stopped>>

\* usb_callout_drain: the timer is deleted; a function that has begun is not
\* waited for.  After it the transfer may be freed.
UnsetupEnds(c) ==
  /\ TasksRun
  /\ cpc[c] = "callout_drain"
  /\ st' = callout_stop(st, carg[c])
  /\ freed' = freed \cup {carg[c]}
  /\ cpc' = [cpc EXCEPT ![c] = "idle"]
  /\ carg' = [carg EXCEPT ![c] = None]
  /\ UNCHANGED <<mtx, procVars, unsetup, cv_drain, tpc, alive, stopped>>

ClientSteps ==
  \E c \in Client :
    \/ \E x \in Xfer : \/ ClientStarts(c, x) \/ ClientStops(c, x)
                       \/ usbd_transfer_drain(c, x) \/ usbd_transfer_unsetup(c, x)
    \/ DrainLoop(c) \/ DrainReadsEvent(c) \/ DrainIsWoken(c) \/ DrainRelocks(c)
    \/ UnsetupEnds(c)
-----------------------------------------------------------------------------
(* The done process: usb_callback_proc and usbd_callback_wrapper           *)

ProcessTakesMessage ==
  /\ TasksRun
  /\ ppc = "idle" /\ st.owed
  /\ st' = [st EXCEPT !.owed = FALSE]
  /\ ppc' = "lock"
  /\ UNCHANGED <<mtx, cur, usb_state, fresh, clientVars, cv_drain, tpc, alive, stopped>>

usb_callback_proc ==
  /\ TasksRun
  /\ ppc = "lock" /\ mtx = None
  /\ mtx' = "proc"
  /\ ppc' = "loop"
  /\ UNCHANGED <<st, cur, usb_state, fresh, clientVars, cv_drain, tpc, alive, stopped>>

\* Mutants: the loop is left with the mutex held, or with recurse_1 set.
TakeDone_KeepsMutex ==
  /\ TasksRun
  /\ ppc = "loop"
  /\ st' = [st EXCEPT !.done_q.recurse_1 = (st.done_q.head # <<>>),
                      !.done_q.recurse_2 = TRUE,
                      !.done_q.curr = IF st.done_q.head = <<>> THEN None
                                      ELSE Head(st.done_q.head),
                      !.done_q.head = IF @ = <<>> THEN @ ELSE Tail(@)]
  /\ ppc' = IF st.done_q.head = <<>> THEN "idle" ELSE "wrapper"
  /\ UNCHANGED <<mtx, cur, usb_state, fresh, clientVars, cv_drain, tpc, alive, stopped>>

TakeDone_KeepsRecurse ==
  /\ TasksRun
  /\ ppc = "loop"
  /\ IF st.done_q.head = <<>>
     THEN /\ st' = [st EXCEPT !.done_q.recurse_1 = TRUE, !.done_q.recurse_2 = TRUE]
          /\ ppc' = "idle"
          /\ mtx' = None
     ELSE /\ st' = [st EXCEPT !.done_q = [head |-> Tail(st.done_q.head),
                                          curr |-> Head(st.done_q.head),
                                          recurse_1 |-> TRUE,
                                          recurse_2 |-> TRUE]]
          /\ ppc' = "wrapper"
          /\ UNCHANGED mtx
  /\ UNCHANGED <<cur, usb_state, fresh, clientVars, cv_drain, tpc, alive, stopped>>

\* The head of the loop of usb_command_wrapper, under the queue spinlock: take
\* the next transfer, or leave.
TakeDone ==
  /\ TasksRun
  /\ ppc = "loop"
  /\ IF st.done_q.head = <<>>
     THEN /\ st' = [st EXCEPT !.done_q.recurse_1 = FALSE,
                              !.done_q.recurse_2 = TRUE]
          /\ ppc' = "idle"
          /\ mtx' = None
     ELSE /\ st' = [st EXCEPT !.done_q = [head |-> Tail(st.done_q.head),
                                          curr |-> Head(st.done_q.head),
                                          recurse_1 |-> TRUE,
                                          recurse_2 |-> TRUE]]
          /\ ppc' = "wrapper"
          /\ UNCHANGED mtx
  /\ UNCHANGED <<cur, usb_state, fresh, clientVars, cv_drain, tpc, alive, stopped>>

\* The process holds the bus lock from here to the callback, and again from the
\* end of the callback to the next one.
BusFree == ppc \notin {"loop", "wrapper", "done", "check"}

\* A stopped or timed-out transfer waits until the controller has certainly
\* forgotten its buffers.
NeedsDmaDelay(f) == f.error \in {"CANCELLED", "TIMEOUT"} /\ ~f.did_dma_delay

\* Mutant: a failed transfer never blocks the endpoint, and one that did keeps it.
ReleaseEndpoint_Never(S, x) == S

\* The end of usbd_callback_wrapper_sub: the next transfer is started, unless
\* the endpoint is to be blocked by a failure.
ReleaseEndpoint(S, x) ==
  IF \/ S.xf[x].error \notin {"NORMAL", "CANCELLED"} /\ x \in Bof
     \/ S.ep_q.curr # x
  THEN S ELSE NextOnEndpoint(S)

\* What usbd_callback_wrapper_sub and its caller leave when the callback is not
\* deferred.  A short transfer becomes an error only here.
Finish(S, x, short) ==
  LET E == ReleaseEndpoint(
             [S EXCEPT !.xf[x].error =
                         IF short /\ @ = "NORMAL" THEN "FAILED" ELSE @], x)
  IN  [E EXCEPT !.xf[x] = [@ EXCEPT !.transferring = FALSE, !.did_close = FALSE,
                                    !.did_dma_delay = FALSE,
                                    !.can_cancel_immed = FALSE, !.nframes = 1]]


\* Whether the callback is deferred, and the state then.
usbd_callback_wrapper_sub(S, x, short) ==
  LET f == S.xf[x]
      D == [S EXCEPT !.xf[x].did_dma_delay = TRUE,
                     !.xf[x].can_cancel_immed = FALSE]
  IN  IF ~f.open /\ ~f.did_close
      THEN <<TRUE, [close(S, x) EXCEPT !.xf[x].did_close = TRUE]>>
      ELSE IF NeedsDmaDelay(f) /\ DmaDelay
      THEN <<TRUE, callout_reset(D, x, "usb_dma_delay_done_cb")>>
      ELSE <<FALSE, Finish(IF NeedsDmaDelay(f) THEN D ELSE S, x, short)>>

\* The callback runs, is deferred, or is not wanted any more.
usbd_callback_wrapper(short) ==
  LET x == st.done_q.curr
      S == [st EXCEPT !.done_q.curr = None, !.xf[x].doing_callback = TRUE]
      sub == usbd_callback_wrapper_sub(S, x, short)
  IN  /\ TasksRun
      /\ ppc = "wrapper"
      /\ cur' = x
      /\ \/ /\ ~S.xf[x].transferring /\ S.xf[x].started
            /\ ppc' = "callback" /\ usb_state' = "SETUP" /\ st' = S
         \/ /\ ~S.xf[x].transferring /\ ~S.xf[x].started
            /\ ppc' = "done" /\ UNCHANGED usb_state /\ st' = S
         \/ /\ S.xf[x].transferring /\ sub[1]
            /\ ppc' = "done" /\ UNCHANGED usb_state /\ st' = sub[2]
         \/ /\ S.xf[x].transferring /\ ~sub[1]
            /\ ppc' = "callback" /\ st' = sub[2]
            /\ usb_state' = IF sub[2].xf[x].error = "NORMAL" THEN "TRANSFERRED"
                            ELSE "ERROR"
      /\ fresh' = (ppc' = "callback")
      /\ stopped' = IF ppc' = "callback" THEN stopped \ {x} ELSE stopped
      /\ UNCHANGED <<mtx, clientVars, cv_drain, tpc, alive>>

\* The callback ends: again at once if it was started after a stop, else tell
\* a drain that waits for it.
CallbackReturns ==
  LET f == st.xf[cur]
  IN  /\ TasksRun
      /\ ppc = "callback"
      /\ IF ~f.open /\ f.started /\ usb_state = "ERROR"
         THEN /\ st' = usbd_callback_ss_done_defer(
                         [st EXCEPT !.xf[cur].doing_callback = FALSE], cur)
              /\ ppc' = "check"
              /\ cur' = None
         ELSE /\ ppc' = "done"
              /\ UNCHANGED <<st, cur>>
      /\ fresh' = FALSE
      /\ usb_state' = "SETUP"
      /\ UNCHANGED <<mtx, clientVars, cv_drain, tpc, alive, stopped>>


DoneTellsDrain(f) == f.draining /\ ~f.transferring

CallbackDone ==
  LET tell == DoneTellsDrain(st.xf[cur])
  IN  /\ TasksRun
      /\ ppc = "done"
      /\ st' = [st EXCEPT !.xf[cur].doing_callback = FALSE,
                          !.xf[cur].draining = @ /\ ~tell,
                          !.done_q.recurse_2 = FALSE]
      /\ cv_drain' = IF tell THEN cv_broadcast(cv_drain) ELSE cv_drain
      /\ ppc' = "check"
      /\ cur' = None
      /\ UNCHANGED <<mtx, usb_state, fresh, clientVars, tpc, alive, stopped>>

\* The end of the loop of usb_command_wrapper.  Every way through the command
\* clears recurse_2, so this loop ends in TakeDone.
CheckRecurse ==
  /\ TasksRun
  /\ ppc = "check"
  /\ IF st.done_q.recurse_2
     THEN /\ st' = [st EXCEPT !.done_q.recurse_1 = FALSE]
          /\ ppc' = "idle"
          /\ mtx' = None
     ELSE /\ ppc' = "loop"
          /\ UNCHANGED <<st, mtx>>
  /\ UNCHANGED <<cur, usb_state, fresh, clientVars, cv_drain, tpc, alive, stopped>>
-----------------------------------------------------------------------------
(* The callback of a driver                                                *)

\* Drivers do not submit a cancelled transfer, nor after having slept.
CallbackSubmits(n, stall) ==
  /\ TasksRun
  /\ ppc = "callback" /\ fresh
  /\ stall => "stall" \in Does
  /\ n = 0 => "refuse" \in Does
  /\ ~(usb_state = "ERROR" /\ st.xf[cur].error = "CANCELLED")
  /\ st' = usbd_transfer_submit(st, cur, n, stall, alive)
  /\ fresh' = FALSE
  /\ UNCHANGED <<mtx, ppc, cur, usb_state, clientVars, cv_drain, tpc, alive, stopped>>

CallbackStarts(x) ==
  /\ TasksRun
  /\ ppc = "callback" /\ Known(x)
  /\ "restart" \in Does
  /\ st' = usbd_transfer_start(st, x)
  /\ UNCHANGED <<mtx, procVars, clientVars, cv_drain, tpc, alive, stopped>>

CallbackStops(x) ==
  /\ TasksRun
  /\ ppc = "callback" /\ Known(x) /\ "stop" \in Does
  /\ st' = usbd_transfer_stop(st, x)
  /\ stopped' = stopped \cup Stopping(st, x)
  /\ UNCHANGED <<mtx, procVars, clientVars, cv_drain, tpc, alive>>

\* A callback may drop the mutex.
CallbackSleeps ==
  /\ TasksRun
  /\ ppc = "callback" /\ fresh /\ "sleep" \in Does
  /\ ppc' = "sleep"
  /\ mtx' = None
  /\ fresh' = FALSE
  /\ UNCHANGED <<st, cur, usb_state, clientVars, cv_drain, tpc, alive, stopped>>

CallbackWakes ==
  /\ TasksRun
  /\ ppc = "sleep" /\ mtx = None
  /\ ppc' = "callback"
  /\ mtx' = "proc"
  /\ UNCHANGED <<st, cur, usb_state, fresh, clientVars, cv_drain, tpc, alive, stopped>>

ProcessSteps ==
  \/ ProcessTakesMessage \/ usb_callback_proc \/ TakeDone
  \/ \E short \in BOOLEAN : usbd_callback_wrapper(short)
  \/ CallbackReturns \/ CallbackDone \/ CheckRecurse
  \/ \E n \in {0, 1}, stall \in BOOLEAN : CallbackSubmits(n, stall)
  \/ \E x \in Xfer : CallbackStarts(x) \/ CallbackStops(x)
  \/ CallbackSleeps \/ CallbackWakes
-----------------------------------------------------------------------------
(* Timers.  usbd_transfer_done without the bus lock, step by step.         *)

\* callout_function.  On one processor a timer interrupts tasks, not another
\* timer function.  usbd_transfer_start_cb is one step; for the others tpc holds
\* the error usbd_transfer_done is called with.  The end of the DMA delay is the
\* moment from which the controller certainly leaves the buffers alone.
callout_function(x) ==
  LET f == st.callout[x]
      S == callout_stop(st, x)
  IN  /\ f # None
      /\ tpc[x] = "idle" /\ TasksRun
      /\ \/ /\ f = "usbd_transfer_start_cb"
            /\ st' = usbd_transfer_start_cb(S, x)
            /\ UNCHANGED tpc
         \/ /\ f = "usb_dma_delay_done_cb"
            /\ st' = [S EXCEPT !.dma = @ \ {x}]
            /\ tpc' = [tpc EXCEPT ![x] = "NORMAL"]
         \/ /\ f = "ehci_timeout"
            /\ st' = S
            /\ tpc' = [tpc EXCEPT ![x] = "TIMEOUT"]
      /\ UNCHANGED <<mtx, procVars, clientVars, cv_drain, alive, stopped>>

\* The test of transferring ...
TimerTestsTransferring(x) ==
  /\ tpc[x] \in {"NORMAL", "TIMEOUT"}
  /\ tpc' = [tpc EXCEPT ![x] = IF ~st.xf[x].transferring THEN "idle"
                               ELSE IF @ = "NORMAL" THEN "dequeue" ELSE "timeout"]
  /\ UNCHANGED <<st, mtx, procVars, clientVars, cv_drain, alive, stopped>>

\* ... and what it protects.
TimerDequeues(x) ==
  LET err == IF tpc[x] = "timeout" THEN "TIMEOUT" ELSE "NORMAL"
  IN  /\ tpc[x] \in {"dequeue", "timeout"}
      /\ st' = usbd_transfer_dequeue(callout_stop(SetError(st, x, err), x), x)
      /\ tpc' = [tpc EXCEPT ![x] = "enqueue"]
      /\ UNCHANGED <<mtx, procVars, clientVars, cv_drain, alive, stopped>>

TimerEnqueues(x) ==
  /\ tpc[x] = "enqueue"
  /\ st' = IF st.done_q.curr = x \/ Waiting(st, x) THEN st
           ELSE [st EXCEPT !.done_q.head = Append(@, x)]
  /\ tpc' = [tpc EXCEPT ![x] = "recurse"]
  /\ UNCHANGED <<mtx, procVars, clientVars, cv_drain, alive, stopped>>

\* The test of recurse_1 ...
TimerTestsRecurse(x) ==
  /\ tpc[x] = "recurse"
  /\ tpc' = [tpc EXCEPT ![x] = IF st.done_q.recurse_1 THEN "clear" ELSE "msignal"]
  /\ UNCHANGED <<st, mtx, procVars, clientVars, cv_drain, alive, stopped>>

\* ... and what follows from it.
TimerHandsOver(x) ==
  /\ tpc[x] \in {"clear", "msignal"}
  /\ st' = IF tpc[x] = "clear" THEN [st EXCEPT !.done_q.recurse_2 = FALSE]
           ELSE [st EXCEPT !.owed = TRUE]
  /\ tpc' = [tpc EXCEPT ![x] = "idle"]
  /\ UNCHANGED <<mtx, procVars, clientVars, cv_drain, alive, stopped>>

TimerSteps ==
  \E x \in Xfer :
    \/ callout_function(x) \/ TimerTestsTransferring(x) \/ TimerDequeues(x)
    \/ TimerEnqueues(x) \/ TimerTestsRecurse(x) \/ TimerHandsOver(x)
-----------------------------------------------------------------------------
(* The world                                                               *)

\* ehci_interrupt: the controller has finished with a transfer of intr_q.
Interrupt(x, err) ==
  /\ TasksRun /\ BusFree
  /\ x \in st.intr_q
  /\ st' = usbd_transfer_done([st EXCEPT !.dma = @ \ {x}], x, err)
  /\ UNCHANGED <<mtx, procVars, clientVars, cv_drain, tpc, alive, stopped>>

\* usb_do_clear_stall_callback: the clear-stall request has been executed.
ClearStall ==
  /\ TasksRun /\ BusFree
  /\ alive /\ st.is_stalled
  /\ st' = RunEndpoint([st EXCEPT !.is_stalled = FALSE])
  /\ UNCHANGED <<mtx, procVars, clientVars, cv_drain, tpc, alive, stopped>>

\* The device is detached: its state drops below USB_STATE_POWERED.
Detach ==
  /\ TasksRun /\ alive /\ "detach" \in Does
  /\ alive' = FALSE
  /\ UNCHANGED <<st, mtx, procVars, clientVars, cv_drain, tpc, stopped>>

\* The pool of software timers runs out, or not any more.
TimersRunOut ==
  /\ TasksRun /\ "no timer" \in Does
  /\ st' = [st EXCEPT !.room = ~@]
  /\ UNCHANGED <<mtx, procVars, clientVars, cv_drain, tpc, alive, stopped>>

WorldSteps ==
  \/ \E x \in Xfer, err \in {"NORMAL", "FAILED"} : Interrupt(x, err)
  \/ ClearStall \/ Detach \/ TimersRunOut

Next == ClientSteps \/ ProcessSteps \/ TimerSteps \/ WorldSteps

Spec == Init /\ [][Next]_vars

\* The done process, the timers and a client inside a drain keep running, and
\* callbacks return.  Strong fairness for the tasks: timer functions interrupt
\* them again and again, and a mutex found taken is handed over in the end, as
\* LiteOS keeps its waiters in a list.  Nothing is asked of the controller, of
\* the device or of the calls a driver makes.
Fairness ==
  /\ SF_vars(\/ ProcessTakesMessage \/ usb_callback_proc \/ TakeDone
             \/ \E short \in BOOLEAN : usbd_callback_wrapper(short)
             \/ CallbackReturns \/ CallbackDone \/ CheckRecurse \/ CallbackWakes)
  /\ \A c \in Client :
       SF_vars(DrainLoop(c) \/ DrainReadsEvent(c) \/ DrainIsWoken(c) \/ DrainRelocks(c)
               \/ UnsetupEnds(c))
  /\ \A x \in Xfer :
       SF_vars(callout_function(x) \/ TimerTestsTransferring(x) \/ TimerDequeues(x)
               \/ TimerEnqueues(x) \/ TimerTestsRecurse(x) \/ TimerHandsOver(x))

FairSpec == Spec /\ Fairness
-----------------------------------------------------------------------------
(* Properties *)

\* Types; and the done process holds xfer_mtx from the lock in usb_callback_proc
\* to the end, but for the time a callback drops it.
TypeOK ==
  /\ st \in Roots
  /\ mtx \in Client \cup {"proc", None}
  /\ ppc \in {"idle", "lock", "loop", "wrapper", "callback", "sleep", "done", "check"}
  /\ cur \in Xfer \cup {None}
  /\ usb_state \in {"SETUP", "TRANSFERRED", "ERROR"}
  /\ fresh \in BOOLEAN
  /\ cpc \in [Client -> {"idle", "drain", "cv_read", "cv_pend", "cv_relock",
                         "callout_drain"}]
  /\ carg \in [Client -> Xfer \cup {None}]
  /\ unsetup \subseteq Xfer /\ freed \subseteq unsetup
  /\ cv_drain \in Event(Client)
  /\ tpc \in [Xfer -> {"idle", "NORMAL", "TIMEOUT", "dequeue", "timeout", "enqueue",
                       "recurse", "clear", "msignal"}]
  /\ alive \in BOOLEAN
  /\ stopped \subseteq Xfer
  /\ mtx = "proc" <=> ppc \notin {"idle", "lock", "sleep"}
  /\ cur # None <=> ppc \in {"callback", "sleep", "done"}

\* The endpoint queue gives the controller one transfer at a time: what is on
\* the interrupt queue is the current transfer of the endpoint.
EndpointExclusive == \A x \in st.intr_q : st.ep_q.curr = x

\* A transfer that waits in the endpoint queue waits for one ahead of it that is
\* still in progress, or that failed and has the flag to block the pipe; no
\* completion, stop or restart leaves an idle endpoint with transfers waiting.
EndpointNotForgotten ==
  st.ep_q.head # <<>> =>
    LET x == st.ep_q.curr
    IN  /\ x # None
        /\ \/ st.xf[x].transferring
           \/ x \in Bof /\ st.xf[x].error \notin {"NORMAL", "CANCELLED"}

\* While an endpoint is stalled no transfer is handed to the controller: the
\* current one goes on when the clear-stall request has been executed.
StalledIsHeld ==
  [][st.is_stalled /\ st'.is_stalled => st'.intr_q \subseteq st.intr_q]_vars


\* A transfer stopped while in progress is called back with USB_ERR_CANCELLED,
\* whatever completion or timeout it met on the way.
StopIsReported ==
  [][\A x \in stopped : cur' = x /\ ppc' = "callback" /\ ppc = "wrapper"
       => st.xf[x].error = "CANCELLED" /\ usb_state' = "ERROR"]_vars


\* After usbd_transfer_unsetup nothing refers to the transfer: no queue, no
\* callback, no timer and no timer function that has begun.
FreedIsUnused ==
  \A x \in freed :
    /\ ~usbd_transfer_pending(st, x)
    /\ st.ep_q.curr # x
    /\ cur # x
    /\ st.callout[x] = None
    /\ tpc[x] = "idle"

\* usbd_transfer_drain and usbd_transfer_unsetup return, although the controller
\* may never answer and other transfers never stop; only a controller that for
\* ever completes a transfer before its callback has returned, so that the done
\* process never leaves its loop and never releases xfer_mtx, can hold them up.
DrainReturns ==
  []<>(mtx # "proc") => \A c \in Client : cpc[c] # "idle" ~> cpc[c] = "idle"

\* A transfer on the done queue gets its callback: usb_command_wrapper never
\* leaves with a transfer that nobody has been told of.
DoneIsServed == \A x \in Xfer : x \in Range(st.done_q.head) ~> cur = x
=============================================================================
