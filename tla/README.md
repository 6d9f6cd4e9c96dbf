# Verification of the FreeBSD compatibility layer
### USB process: `CondVar`, `UsbProcess`, `UsbProcessProofs`

A USB process (`sys/dev/usb/usb_process.c`) is a thread with a queue of
messages. Every bus has several of them; transfer callbacks, explore requests,
control transfers to a port and the deferred commands of the network and serial
drivers all run there. A client owns a *pair* of messages for every command,
so that a command can be signalled again while its previous instance runs.

*State.* The fields of `struct usb_process` under their own names; `pm_num` of
every message; the two LiteOS events behind `up_cv` and `up_drain`; a control
point per thread. Two ghost variables: `owed`, the pairs signalled since a
callback of theirs last began, and `retired`, the pairs their own process has
removed with `usb_proc_mwait`.

*Threads.* `Worker` (`usb_process_thread`), `Owner` (create and free), callers
that hold `up_mtx`, and timers that do not: `callout_function`
(`sys/kern/kern_timeout.c:63`) runs the timer function without taking the
callout's mutex, so `usb_proc_msignal` from a timer is four steps (test of
`up_gone`, queueing, store to `up_msleep`, signal).

*Granularity.* A stretch of code under `up_mtx` is one step when no thread that
does not hold it can tell. `cv_wait` is three: it releases the mutex, reads the
event and takes the mutex (`kern_condvar.c:86-92`); `CondVar` models the event,
whose flag is sticky and is cleared by the first reader.

*Callbacks* may sleep (releasing `up_mtx`), signal, and remove pairs. A pair
removed by its own process is not signalled again: every caller in the tree
frees the messages next. This is the only assumption on clients, together with
"the owner frees once".

*Proofs* (`UsbProcessProofs`). `IInv` strengthens the invariants:

* `OwnerInv`: a drain waits only after setting `up_gone`; a created process
  without `up_ptr` has an exited thread;
* `QueueInv`, `CurInv`, `RetiredInv`, `ArgInv`: a message is queued once; the
  message in hand is the first of the queue unless its own callback removed it;
  removed pairs stay off the queue;
* `AgeInv`: the *age* of a message is how often `up_msg_num` has moved on since
  it was numbered. Age plus position is at most the length of the queue plus two
  per removed pair, ages do not increase along the queue, and decrease strictly
  within a pair. So all ages are below half the range of the numbers, and the
  sign of the wrapped difference is the order on the queue;
* `WakeInv`: before the teardown only the worker waits on `up_cv`, and when it
  is asleep or about to be, a non-empty queue means the flag is set or a timer is
  on its way to set it.

`Init => IInv`, `IInv /\ [Next]_vars => IInv'`, and from `IInv` follow
`TypeOK`, `RequeuesTheLast`, `NoMessageLost`, `NoLostWakeup`,
`FreedMeansStopped` and the action property `MwaitMeansDone`, for every finite
set of pairs, any callers and timers, and any width of `pm_num` with
`SignBit > 2 * Cardinality(Pair)` (in the code `SignBit` is 2^31).
### USB process: `CondVar`, `UsbProcess`, `UsbProcessProofs`

A USB process (`sys/dev/usb/usb_process.c`) is a thread with a queue of
messages. Every bus has several of them; transfer callbacks, explore requests,
control transfers to a port and the deferred commands of the network and serial
drivers all run there. A client owns a *pair* of messages for every command,
so that a command can be signalled again while its previous instance runs.

*State.* The fields of `struct usb_process` under their own names; `pm_num` of
every message; the two LiteOS events behind `up_cv` and `up_drain`; a control
point per thread. Two ghost variables: `owed`, the pairs signalled since a
callback of theirs last began, and `retired`, the pairs their own process has
removed with `usb_proc_mwait`.

*Threads.* `Worker` (`usb_process_thread`), `Owner` (create and free), callers
that hold `up_mtx`, and timers that do not: `callout_function`
(`sys/kern/kern_timeout.c:63`) runs the timer function without taking the
callout's mutex, so `usb_proc_msignal` from a timer is four steps (test of
`up_gone`, queueing, store to `up_msleep`, signal).

*Granularity.* A stretch of code under `up_mtx` is one step when no thread that
does not hold it can tell. `cv_wait` is three: it releases the mutex, reads the
event and takes the mutex (`kern_condvar.c:86-92`); `CondVar` models the event,
whose flag is sticky and is cleared by the first reader.

*Callbacks* may sleep (releasing `up_mtx`), signal, and remove pairs. A pair
removed by its own process is not signalled again: every caller in the tree
frees the messages next. This is the only assumption on clients, together with
"the owner frees once".

*Proofs* (`UsbProcessProofs`). `IInv` strengthens the invariants:

* `OwnerInv`: a drain waits only after setting `up_gone`; a created process
  without `up_ptr` has an exited thread;
* `QueueInv`, `CurInv`, `RetiredInv`, `ArgInv`: a message is queued once; the
  message in hand is the first of the queue unless its own callback removed it;
  removed pairs stay off the queue;
* `AgeInv`: the *age* of a message is how often `up_msg_num` has moved on since
  it was numbered. Age plus position is at most the length of the queue plus two
  per removed pair, ages do not increase along the queue, and decrease strictly
  within a pair. So all ages are below half the range of the numbers, and the
  sign of the wrapped difference is the order on the queue;
* `WakeInv`: before the teardown only the worker waits on `up_cv`, and when it
  is asleep or about to be, a non-empty queue means the flag is set or a timer is
  on its way to set it.

`Init => IInv`, `IInv /\ [Next]_vars => IInv'`, and from `IInv` follow
`TypeOK`, `RequeuesTheLast`, `NoMessageLost`, `NoLostWakeup`,
`FreedMeansStopped` and the action property `MwaitMeansDone`, for every finite
set of pairs, any callers and timers, and any width of `pm_num` with
`SignBit > 2 * Cardinality(Pair)` (in the code `SignBit` is 2^31).
### USB process: `CondVar`, `UsbProcess`, `UsbProcessProofs`

A USB process (`sys/dev/usb/usb_process.c`) is a thread with a queue of
messages. Every bus has several of them; transfer callbacks, explore requests,
control transfers to a port and the deferred commands of the network and serial
drivers all run there. A client owns a *pair* of messages for every command,
so that a command can be signalled again while its previous instance runs.

*State.* The fields of `struct usb_process` under their own names; `pm_num` of
every message; the two LiteOS events behind `up_cv` and `up_drain`; a control
point per thread. Two ghost variables: `owed`, the pairs signalled since a
callback of theirs last began, and `retired`, the pairs their own process has
removed with `usb_proc_mwait`.

*Threads.* `Worker` (`usb_process_thread`), `Owner` (create and free), callers
that hold `up_mtx`, and timers that do not: `callout_function`
(`sys/kern/kern_timeout.c:63`) runs the timer function without taking the
callout's mutex, so `usb_proc_msignal` from a timer is four steps (test of
`up_gone`, queueing, store to `up_msleep`, signal).

*Granularity.* A stretch of code under `up_mtx` is one step when no thread that
does not hold it can tell. `cv_wait` is three: it releases the mutex, reads the
event and takes the mutex (`kern_condvar.c:86-92`); `CondVar` models the event,
whose flag is sticky and is cleared by the first reader.

*Callbacks* may sleep (releasing `up_mtx`), signal, and remove pairs. A pair
removed by its own process is not signalled again: every caller in the tree
frees the messages next. This is the only assumption on clients, together with
"the owner frees once".

*Proofs* (`UsbProcessProofs`). `IInv` strengthens the invariants:

* `OwnerInv`: a drain waits only after setting `up_gone`; a created process
  without `up_ptr` has an exited thread;
* `QueueInv`, `CurInv`, `RetiredInv`, `ArgInv`: a message is queued once; the
  message in hand is the first of the queue unless its own callback removed it;
  removed pairs stay off the queue;
* `AgeInv`: the *age* of a message is how often `up_msg_num` has moved on since
  it was numbered. Age plus position is at most the length of the queue plus two
  per removed pair, ages do not increase along the queue, and decrease strictly
  within a pair. So all ages are below half the range of the numbers, and the
  sign of the wrapped difference is the order on the queue;
* `WakeInv`: before the teardown only the worker waits on `up_cv`, and when it
  is asleep or about to be, a non-empty queue means the flag is set or a timer is
  on its way to set it.

`Init => IInv`, `IInv /\ [Next]_vars => IInv'`, and from `IInv` follow
`TypeOK`, `RequeuesTheLast`, `NoMessageLost`, `NoLostWakeup`,
`FreedMeansStopped` and the action property `MwaitMeansDone`, for every finite
set of pairs, any callers and timers, and any width of `pm_num` with
`SignBit > 2 * Cardinality(Pair)` (in the code `SignBit` is 2^31).
### USB process: `CondVar`, `UsbProcess`, `UsbProcessProofs`

A USB process (`sys/dev/usb/usb_process.c`) is a thread with a queue of
messages. Every bus has several of them; transfer callbacks, explore requests,
control transfers to a port and the deferred commands of the network and serial
drivers all run there. A client owns a *pair* of messages for every command,
so that a command can be signalled again while its previous instance runs.

*State.* The fields of `struct usb_process` under their own names; `pm_num` of
every message; the two LiteOS events behind `up_cv` and `up_drain`; a control
point per thread. Two ghost variables: `owed`, the pairs signalled since a
callback of theirs last began, and `retired`, the pairs their own process has
removed with `usb_proc_mwait`.

*Threads.* `Worker` (`usb_process_thread`), `Owner` (create and free), callers
that hold `up_mtx`, and timers that do not: `callout_function`
(`sys/kern/kern_timeout.c:63`) runs the timer function without taking the
callout's mutex, so `usb_proc_msignal` from a timer is four steps (test of
`up_gone`, queueing, store to `up_msleep`, signal).

*Granularity.* A stretch of code under `up_mtx` is one step when no thread that
does not hold it can tell. `cv_wait` is three: it releases the mutex, reads the
event and takes the mutex (`kern_condvar.c:86-92`); `CondVar` models the event,
whose flag is sticky and is cleared by the first reader.

*Callbacks* may sleep (releasing `up_mtx`), signal, and remove pairs. A pair
removed by its own process is not signalled again: every caller in the tree
frees the messages next. This is the only assumption on clients, together with
"the owner frees once".

*Proofs* (`UsbProcessProofs`). `IInv` strengthens the invariants:

* `OwnerInv`: a drain waits only after setting `up_gone`; a created process
  without `up_ptr` has an exited thread;
* `QueueInv`, `CurInv`, `RetiredInv`, `ArgInv`: a message is queued once; the
  message in hand is the first of the queue unless its own callback removed it;
  removed pairs stay off the queue;
* `AgeInv`: the *age* of a message is how often `up_msg_num` has moved on since
  it was numbered. Age plus position is at most the length of the queue plus two
  per removed pair, ages do not increase along the queue, and decrease strictly
  within a pair. So all ages are below half the range of the numbers, and the
  sign of the wrapped difference is the order on the queue;
* `WakeInv`: before the teardown only the worker waits on `up_cv`, and when it
  is asleep or about to be, a non-empty queue means the flag is set or a timer is
  on its way to set it.

`Init => IInv`, `IInv /\ [Next]_vars => IInv'`, and from `IInv` follow
`TypeOK`, `RequeuesTheLast`, `NoMessageLost`, `NoLostWakeup`,
`FreedMeansStopped` and the action property `MwaitMeansDone`, for every finite
set of pairs, any callers and timers, and any width of `pm_num` with
`SignBit > 2 * Cardinality(Pair)` (in the code `SignBit` is 2^31).
