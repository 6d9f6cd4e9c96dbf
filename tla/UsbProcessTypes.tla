-------------------------- MODULE UsbProcessTypes ---------------------------
(* The inductive invariant of UsbProcess, facts about the operators it is     *)
(* built from, and type correctness, for every set of pairs, callers and      *)
(* timers and every width of the message numbers.                             *)
EXTENDS UsbProcess, FiniteSetTheorems, SequenceTheorems, TLAPS

-----------------------------------------------------------------------------
(* The inductive invariant *)

\* The drain waits only after it has set up_gone, and a process whose creation
\* has returned has a thread until up_ptr is cleared.
OwnerInv ==
  /\ pc[Owner] \in InCvWait => up_gone
  /\ Live /\ ~up_ptr => pc[Worker] = "exited"
  /\ pc[Owner] = "new" => pc[Worker] = "idle"
  /\ Freed => pc[Worker] \in {"idle", "exited"}

\* A message is on the queue at most once.
Distinct(q) == \A i, j \in 1..Len(q) : q[i] = q[j] => i = j
QueueInv == Distinct(up_qhead)

\* A message that is being called is first, unless its own callback removed it.
CurInv ==
  InCallback =>
    /\ \A i \in 1..Len(up_qhead) : up_qhead[i] = cur => i = 1
    /\ ~Queued(cur) => cur[1] \in retired

\* A removed pair is off the queue and stays off it.
RetiredInv ==
  /\ \A i \in 1..Len(up_qhead) : up_qhead[i][1] \notin retired
  /\ owed \cap retired = {}

\* A timer in msignal has a pair in hand that may be queued, a thread in mwait
\* one to wait for.
ArgInv ==
  /\ \A t \in Timer : pc[t] = "queue" => arg[t] \in Pair \ retired
  /\ \A t \in Caller : pc[t] \in InCvWait => arg[t] \in Pair

\* How often up_msg_num has moved on since a message was numbered.
Age(m) == Difference(up_msg_num, pm_num[m])

\* up_msg_num moves on only when a message is appended, so a message is at most
\* as old as there are messages behind it, not counting the ones a callback has
\* removed.  Within a pair the message in front is the older one.
AgeInv ==
  /\ \A i \in 1..Len(up_qhead) :
       Age(up_qhead[i]) + i <= Len(up_qhead) + 2 * Cardinality(retired)
  /\ \A i, j \in 1..Len(up_qhead) :
       i < j => Age(up_qhead[i]) >= Age(up_qhead[j])
  /\ \A i, j \in 1..Len(up_qhead) :
       i < j /\ up_qhead[i][1] = up_qhead[j][1] => Age(up_qhead[i]) > Age(up_qhead[j])

\* Until the process is torn down the worker alone waits on up_cv.  If it waits
\* or is about to, a non-empty queue means that the event is set or that a timer
\* will set it.
WakeInv ==
  ~up_gone =>
    /\ \A i \in 1..Len(cv["up_cv"].waiters) : cv["up_cv"].waiters[i] = Worker
    /\ Len(cv["up_cv"].waiters) <= 1
    /\ pc[Worker] # "cv_pend" => cv["up_cv"].waiters = <<>>
    /\ pc[Worker] \in {"empty", "cv_read"} /\ up_qhead # <<>> =>
         cv["up_cv"].flag \/ \E t \in Timer : pc[t] \in {"msleep", "signal"}
    /\ pc[Worker] = "cv_pend" /\ cv["up_cv"].waiters # <<>> /\ up_qhead # <<>> =>
         \E t \in Timer : pc[t] \in {"msleep", "signal"}

IInv ==
  /\ TypeOK /\ OwnerInv /\ ArgInv /\ QueueInv /\ CurInv /\ RetiredInv /\ AgeInv
  /\ WakeInv /\ NoMessageLost
-----------------------------------------------------------------------------
(* Facts about the constants, the sequences and the arithmetic of the model *)

LEMMA Constants ==
  /\ Worker # Owner /\ Worker # NoThread
  /\ Worker \in Thread /\ Owner \in Thread
  /\ Caller \subseteq Thread /\ Timer \subseteq Thread
  /\ Worker \notin Caller /\ Worker \notin Timer
  /\ Owner \notin Caller /\ Owner \notin Timer
  /\ \A t \in Caller : t \notin Timer
  /\ \A t \in Timer : t \notin Caller
  /\ NoMsg \notin Msg /\ NoMsg \notin Pair
BY ThreadAssumption DEF Thread, Msg

LEMMA Numbers ==
  /\ SignBit \in Nat /\ SignBit > 0
  /\ NumMod \in Nat /\ NumMod = 2 * SignBit
<1>1. Cardinality(Pair) \in Nat
  BY PairAssumption, FS_CardinalityType
<1> QED
  BY <1>1, NumAssumption DEF NumMod

\* Removing the element at position k.
LEMMA RemoveAtFacts ==
  ASSUME NEW S, NEW q \in Seq(S), NEW k \in 1..Len(q)
  PROVE  /\ RemoveAt(q, k) \in Seq(S)
         /\ Len(RemoveAt(q, k)) = Len(q) - 1
         /\ \A i \in 1..(Len(q) - 1) :
              RemoveAt(q, k)[i] = IF i < k THEN q[i] ELSE q[i + 1]
<1> DEFINE a == SubSeq(q, 1, k - 1)
           b == SubSeq(q, k + 1, Len(q))
<1>1. a \in Seq(S) /\ Len(a) = k - 1 /\ \A i \in 1..(k - 1) : a[i] = q[i]
  OBVIOUS
<1>2. b \in Seq(S) /\ Len(b) = Len(q) - k /\ \A i \in 1..(Len(q) - k) : b[i] = q[k + i]
  OBVIOUS
<1>3. RemoveAt(q, k) = a \o b
  BY DEF RemoveAt
<1> HIDE DEF a, b
<1>4. /\ a \o b \in Seq(S) /\ Len(a \o b) = Len(a) + Len(b)
      /\ \A i \in 1..(Len(a) + Len(b)) :
           (a \o b)[i] = IF i <= Len(a) THEN a[i] ELSE b[i - Len(a)]
  BY <1>1, <1>2, ConcatProperties, ZenonT(40)
<1> QED
  BY <1>1, <1>2, <1>3, <1>4, SMTT(30)

\* TAILQ_REMOVE removes the element it is given.
LEMMA RemoveFacts ==
  ASSUME NEW S, NEW q \in Seq(S), NEW m, \E i \in 1..Len(q) : q[i] = m
  PROVE  \E k \in 1..Len(q) :
           /\ q[k] = m
           /\ TAILQ_REMOVE(q, m) \in Seq(S)
           /\ Len(TAILQ_REMOVE(q, m)) = Len(q) - 1
           /\ \A i \in 1..(Len(q) - 1) :
                TAILQ_REMOVE(q, m)[i] = IF i < k THEN q[i] ELSE q[i + 1]
<1> DEFINE k == CHOOSE i \in 1..Len(q) : q[i] = m
<1>1. k \in 1..Len(q) /\ q[k] = m
  OBVIOUS
<1>2. TAILQ_REMOVE(q, m) = RemoveAt(q, k)
  BY DEF TAILQ_REMOVE
<1> HIDE DEF k
<1> QED
  BY <1>1, <1>2, RemoveAtFacts, ZenonT(40)

\* The numbers behave like the time of day: what is counted is how far back a
\* number lies.
LEMMA DifferenceFacts ==
  ASSUME NEW n \in 0..(NumMod - 1), NEW m \in 0..(NumMod - 1)
  PROVE  /\ Difference(n, m) \in 0..(NumMod - 1)
         /\ Difference(n, n) = 0
         /\ Difference(n, m) = 0 => n = m
         /\ Increment(n) \in 0..(NumMod - 1)
         /\ Difference(n, m) < NumMod - 1
              => Difference(Increment(n), m) = Difference(n, m) + 1
BY Numbers DEF Difference, Increment

LEMMA SignFacts ==
  ASSUME NEW n \in 0..(NumMod - 1), NEW a \in 0..(NumMod - 1),
         NEW b \in 0..(NumMod - 1),
         Difference(n, a) < SignBit, Difference(n, b) < SignBit
  PROVE  /\ Difference(n, a) > Difference(n, b) => Difference(b, a) < SignBit
         /\ Difference(n, b) > Difference(n, a) => Difference(b, a) >= SignBit
BY Numbers DEF Difference
-----------------------------------------------------------------------------
(* Taking messages off the queue keeps the others in their order *)

\* r is what is left of q: its element i was the element f[i] of q.
LeftOf(r, q) ==
  \E f \in [1..Len(r) -> 1..Len(q)] :
    /\ \A i \in 1..Len(r) : r[i] = q[f[i]] /\ i <= f[i]
    /\ \A i, j \in 1..Len(r) : i < j => f[i] < f[j]


LEMMA DropFacts ==
  ASSUME NEW S, NEW q \in Seq(S), Distinct(q), NEW m
  PROVE  /\ Drop(q, m) \in Seq(S)
         /\ Len(Drop(q, m)) = IF OnQueue(q, m) THEN Len(q) - 1 ELSE Len(q)
         /\ LeftOf(Drop(q, m), q)
         /\ Distinct(Drop(q, m))
         /\ ~OnQueue(Drop(q, m), m)
         /\ \A x : x # m => (OnQueue(q, x) <=> OnQueue(Drop(q, m), x))
<1> DEFINE r == Drop(q, m)
<1>1. CASE ~OnQueue(q, m)
  <2>1. r = q
    BY <1>1 DEF Drop
  <2>2. LeftOf(q, q)
    <3> DEFINE f == [i \in 1..Len(q) |-> i]
    <3>1. /\ f \in [1..Len(q) -> 1..Len(q)]
          /\ \A i \in 1..Len(q) : q[i] = q[f[i]] /\ i <= f[i]
          /\ \A i, j \in 1..Len(q) : i < j => f[i] < f[j]
      OBVIOUS
    <3> HIDE DEF f
    <3> QED
      BY <3>1 DEF LeftOf
  <2> QED
    BY <1>1, <2>1, <2>2
<1>2. CASE OnQueue(q, m)
  <2>1. r = TAILQ_REMOVE(q, m)
    BY <1>2 DEF Drop
  <2> HIDE DEF r
  <2>a. \E i \in 1..Len(q) : q[i] = m
    BY <1>2 DEF OnQueue
  <2>b. \E k \in 1..Len(q) :
           /\ q[k] = m
           /\ TAILQ_REMOVE(q, m) \in Seq(S)
           /\ Len(TAILQ_REMOVE(q, m)) = Len(q) - 1
           /\ \A i \in 1..(Len(q) - 1) :
                TAILQ_REMOVE(q, m)[i] = IF i < k THEN q[i] ELSE q[i + 1]
    BY <2>a, RemoveFacts
  <2>2. PICK k \in 1..Len(q) :
           /\ q[k] = m /\ r \in Seq(S) /\ Len(r) = Len(q) - 1
           /\ \A i \in 1..(Len(q) - 1) : r[i] = IF i < k THEN q[i] ELSE q[i + 1]
    BY <2>1, <2>b, ZenonT(40)
  <2>3. LeftOf(r, q)
    <3> DEFINE f == [i \in 1..Len(r) |-> IF i < k THEN i ELSE i + 1]
    <3>1. f \in [1..Len(r) -> 1..Len(q)]
      BY <2>2
    <3>2. \A i \in 1..Len(r) : r[i] = q[f[i]] /\ i <= f[i]
      BY <2>2
    <3>3. \A i, j \in 1..Len(r) : i < j => f[i] < f[j]
      BY <2>2
    <3> HIDE DEF f
    <3> QED
      BY <3>1, <3>2, <3>3, SMTT(30) DEF LeftOf
  <2>4. Distinct(r)
    BY <2>2 DEF Distinct
  <2>5. ~OnQueue(r, m)
    BY <2>2 DEF OnQueue, Distinct
  <2>6. ASSUME NEW x, x # m PROVE OnQueue(q, x) <=> OnQueue(r, x)
    <3>1. ASSUME NEW i \in 1..Len(q), q[i] = x PROVE OnQueue(r, x)
      <4>1. CASE i < k
        BY <4>1, <3>1, <2>2, SMTT(30) DEF OnQueue
      <4>2. CASE i > k
        <5>1. i - 1 \in 1..Len(r) /\ r[i - 1] = q[i]
          BY <4>2, <2>2, SMTT(30)
        <5> QED
          BY <5>1, <3>1 DEF OnQueue
      <4>3. i # k
        BY <2>6, <3>1, <2>2, SMTT(30)
      <4> QED
        BY <4>1, <4>2, <4>3, SMTT(30)
    <3>2. ASSUME NEW i \in 1..Len(r), r[i] = x PROVE OnQueue(q, x)
      <4>1. CASE i < k
        BY <4>1, <3>2, <2>2, SMTT(30) DEF OnQueue
      <4>2. CASE i >= k
        <5>1. i + 1 \in 1..Len(q) /\ r[i] = q[i + 1]
          BY <4>2, <2>2
        <5> QED
          BY <5>1, <3>2, ZenonT(40) DEF OnQueue
      <4> QED
        BY <4>1, <4>2, <2>2, SMTT(30)
    <3> QED
      BY <3>1, <3>2 DEF OnQueue
  <2> QED
    BY <1>2, <2>2, <2>3, <2>4, <2>5, <2>6, SMTT(30) DEF r
<1> QED
  BY <1>1, <1>2

LEMMA LeftOfTransitive ==
  ASSUME NEW S, NEW q \in Seq(S), NEW r \in Seq(S), NEW s \in Seq(S),
         LeftOf(r, q), LeftOf(s, r)
  PROVE  LeftOf(s, q)
<1>1. PICK f \in [1..Len(r) -> 1..Len(q)] :
         /\ \A i \in 1..Len(r) : r[i] = q[f[i]] /\ i <= f[i]
         /\ \A i, j \in 1..Len(r) : i < j => f[i] < f[j]
  BY SMTT(30) DEF LeftOf
<1>2. PICK g \in [1..Len(s) -> 1..Len(r)] :
         /\ \A i \in 1..Len(s) : s[i] = r[g[i]] /\ i <= g[i]
         /\ \A i, j \in 1..Len(s) : i < j => g[i] < g[j]
  BY ZenonT(40) DEF LeftOf
<1> DEFINE h == [i \in 1..Len(s) |-> f[g[i]]]
<1>3. h \in [1..Len(s) -> 1..Len(q)]
  BY <1>1, <1>2
<1>4. \A i \in 1..Len(s) : s[i] = q[h[i]] /\ i <= h[i]
  BY <1>1, <1>2
<1>5. \A i, j \in 1..Len(s) : i < j => h[i] < h[j]
  BY <1>1, <1>2, ZenonT(40)
<1> HIDE DEF h
<1> QED
  BY <1>3, <1>4, <1>5, ZenonT(40) DEF LeftOf
-----------------------------------------------------------------------------
(* Type correctness, action by action *)

\* What the operations of a condition variable return.
LEMMA EventFacts ==
  ASSUME NEW e \in Event(Thread)
  PROVE  /\ cv_signal(e) \in Event(Thread)
         /\ cv_broadcast(e) \in Event(Thread)
         /\ EventConsume(e) \in Event(Thread)
         /\ \A t \in Thread : EventPend(e, t) \in Event(Thread)
<1>1. e.flag \in BOOLEAN /\ e.waiters \in Seq(Thread)
  BY DEF Event
<1>2. cv_signal(e) \in Event(Thread)
  <2>1. (IF e.waiters = <<>> THEN <<>> ELSE Tail(e.waiters)) \in Seq(Thread)
    BY <1>1
  <2> QED
    BY <2>1 DEF Event, cv_signal
<1>3. cv_broadcast(e) \in Event(Thread)
  BY DEF Event, cv_broadcast
<1>4. EventConsume(e) \in Event(Thread)
  BY <1>1, ZenonT(40) DEF Event, EventConsume
<1>5. \A t \in Thread : Append(e.waiters, t) \in Seq(Thread)
  BY <1>1
<1>6. \A t \in Thread : EventPend(e, t) \in Event(Thread)
  BY <1>1, <1>5 DEF Event, EventPend
<1> QED
  BY <1>2, <1>3, <1>4, <1>6

\* Whatever is done to one of the two events, both remain events.
LEMMA CvTypes ==
  ASSUME TypeOK, NEW c \in {"up_cv", "up_drain"}
  PROVE  /\ [cv EXCEPT ![c] = cv_signal(@)] \in [{"up_cv", "up_drain"} -> Event(Thread)]
         /\ [cv EXCEPT ![c] = cv_broadcast(@)] \in [{"up_cv", "up_drain"} -> Event(Thread)]
         /\ [cv EXCEPT ![c] = EventConsume(@)] \in [{"up_cv", "up_drain"} -> Event(Thread)]
         /\ \A t \in Thread :
              [cv EXCEPT ![c] = EventPend(@, t)] \in [{"up_cv", "up_drain"} -> Event(Thread)]
<1>1. cv \in [{"up_cv", "up_drain"} -> Event(Thread)] /\ cv[c] \in Event(Thread)
  BY DEF TypeOK
<1>2. /\ cv_signal(cv[c]) \in Event(Thread) /\ cv_broadcast(cv[c]) \in Event(Thread)
      /\ EventConsume(cv[c]) \in Event(Thread)
      /\ \A t \in Thread : EventPend(cv[c], t) \in Event(Thread)
  BY <1>1, EventFacts
<1> QED
  BY <1>1, <1>2

\* The message msignal queues is one of the pair, and what it does to the queue.
LEMMA QueuePairFacts ==
  ASSUME TypeOK, QueueInv, NEW p \in Pair, QueuePair(p)
  PROVE  /\ MsgToQueue(p) \in {<<p, 0>>, <<p, 1>>}
         /\ MsgToQueue(p) \in Msg
         /\ up_msg_num' \in 0..(NumMod - 1)
         /\ pm_num' = [pm_num EXCEPT ![MsgToQueue(p)] = up_msg_num']
         /\ up_qhead' \in Seq(Msg)
<1>1. MsgToQueue(p) \in {<<p, 0>>, <<p, 1>>} /\ MsgToQueue(p) \in Msg
  BY DEF MsgToQueue, Msg
<1>2. up_msg_num' \in 0..(NumMod - 1)
  BY DifferenceFacts, ZenonT(40) DEF QueuePair, NextNum, TypeOK
<1>3. pm_num' = [pm_num EXCEPT ![MsgToQueue(p)] = up_msg_num']
  BY DEF QueuePair
<1>4. Drop(up_qhead, MsgToQueue(p)) \in Seq(Msg)
  BY DropFacts DEF TypeOK, QueueInv
<1>5. up_qhead' \in Seq(Msg)
  BY <1>1, <1>4 DEF QueuePair
<1> QED
  BY <1>1, <1>2, <1>3, <1>5, SMTT(30)

LEMMA MsignalTypes ==
  ASSUME TypeOK, QueueInv, NEW p \in Pair, MsignalLocked(p)
  PROVE  TypeOK'
<1>1. CASE up_gone
  BY <1>1 DEF MsignalLocked, TypeOK, queueVars, InCallback
<1>2. CASE ~up_gone
  <2>1. QueuePair(p)
    BY <1>2 DEF MsignalLocked
  <2>2. /\ up_msg_num' \in 0..(NumMod - 1) /\ pm_num' \in [Msg -> 0..(NumMod - 1)]
        /\ up_qhead' \in Seq(Msg)
    BY <2>1, QueuePairFacts, SMTT(30) DEF TypeOK
  <2>3. owed' \subseteq Pair /\ sigs' \in Nat
    BY <2>1 DEF QueuePair, TypeOK
  <2>4. cv' \in [{"up_cv", "up_drain"} -> Event(Thread)]
    BY <1>2, CvTypes DEF MsignalLocked
  <2>5. up_msleep' \in BOOLEAN
    BY <1>2, ZenonT(40) DEF MsignalLocked
  <2> QED
    BY <2>2, <2>3, <2>4, <2>5, SMTT(30) DEF MsignalLocked, TypeOK, InCallback
<1> QED
  BY <1>1, <1>2, SMTT(30)

LEMMA CreateTypes ==
  ASSUME TypeOK, OwnerInv, usb_proc_create
  PROVE  TypeOK'
<1> USE Constants DEF TypeOK, queueVars, flagVars, InCallback, InCvWait, OwnerPc,
        WorkerPc, CallerPc, TimerPc
<1>1. CASE usb_os_task_creat
  BY <1>1, SMTT(30) DEF usb_os_task_creat, OwnerInv
<1>2. CASE CreateFails
  BY <1>2 DEF CreateFails
<1>3. CASE CreateReturns
  BY <1>3, SMTT(30) DEF CreateReturns
<1> QED
  BY <1>1, <1>2, <1>3 DEF usb_proc_create

LEMMA WaitTypes ==
  ASSUME TypeOK, cv_wait
  PROVE  TypeOK'
<1> PICK t \in Caller \cup {Worker, Owner} : CvRead(t) \/ CvWake(t)
  BY DEF cv_wait
<1>0. CvOf(t) \in {"up_cv", "up_drain"} /\ t \in Thread
  BY Constants DEF CvOf
<1> DEFINE c == CvOf(t)
<1>1. cv' \in {[cv EXCEPT ![c] = EventConsume(@)], [cv EXCEPT ![c] = EventPend(@, t)]}
  BY DEF CvRead, CvWake
<1> HIDE DEF c
<1>2. cv' \in [{"up_cv", "up_drain"} -> Event(Thread)]
  BY <1>0, <1>1, CvTypes, SMTT(30) DEF c
<1> USE Constants DEF TypeOK, queueVars, flagVars, InCallback, InCvWait, OwnerPc,
        WorkerPc, CallerPc, TimerPc
<1>3. /\ pc[t] \in {"cv_read", "cv_pend"}
      /\ \/ pc' = [pc EXCEPT ![t] = "cv_relock"]
         \/ pc' = [pc EXCEPT ![t] = "cv_pend"]
  BY <1>0, SMTT(30) DEF CvRead, CvWake
<1>4. UNCHANGED <<queueVars, flagVars, up_mtx, arg, cur, retired>>
  BY DEF CvRead, CvWake
<1>5. pc'[Worker] = pc[Worker] \/ (pc[Worker] \in InCvWait /\ pc'[Worker] \in InCvWait)
  BY <1>0, <1>3, SMTT(30)
<1>6. /\ pc' \in [Thread -> OwnerPc \cup WorkerPc \cup CallerPc \cup TimerPc]
      /\ pc'[Owner] \in OwnerPc /\ pc'[Worker] \in WorkerPc
      /\ \A u \in Caller : pc'[u] \in CallerPc
      /\ \A u \in Timer : pc'[u] \in TimerPc
  BY <1>0, <1>3, ZenonT(40)
<1> QED
  BY <1>2, <1>4, <1>5, <1>6, SMTT(30)

LEMMA TimerTypes ==
  ASSUME TypeOK, QueueInv, ArgInv, NEW t \in Timer,
         \/ \E p \in Pair : TimerFires(t, p)
         \/ TimerQueues(t) \/ TimerClearsMsleep(t) \/ TimerSignals(t)
  PROVE  TypeOK'
<1>0. ASSUME TimerQueues(t)
      PROVE  /\ up_msg_num' \in 0..(NumMod - 1) /\ pm_num' \in [Msg -> 0..(NumMod - 1)]
             /\ up_qhead' \in Seq(Msg) /\ owed' \subseteq Pair /\ sigs' \in Nat
  <2>1. PICK p \in Pair : QueuePair(p)
    BY <1>0 DEF ArgInv, TimerQueues
  <2>2. owed' \subseteq Pair /\ sigs' \in Nat
    BY <2>1 DEF TypeOK, QueuePair
  <2> QED
    BY <2>1, <2>2, QueuePairFacts, ZenonT(40) DEF TypeOK
<1> USE Constants DEF TypeOK, queueVars, flagVars, InCallback, InCvWait, OwnerPc,
        WorkerPc, CallerPc, TimerPc
<1>1. ASSUME NEW p \in Pair, TimerFires(t, p) PROVE TypeOK'
  BY <1>1, SMTT(30) DEF TimerFires
<1>2. CASE TimerQueues(t)
  BY <1>0, <1>2, SMTT(30) DEF TimerQueues
<1>3. CASE TimerClearsMsleep(t)
  BY <1>3, ZenonT(40) DEF TimerClearsMsleep
<1>4. CASE TimerSignals(t)
  BY <1>4, CvTypes DEF TimerSignals
<1> QED
  BY <1>1, <1>2, <1>3, <1>4, ZenonT(40)

LEMMA CallerTypes ==
  ASSUME TypeOK, QueueInv, ArgInv, NEW t \in Caller,
         \/ \E p \in Pair : usb_proc_msignal(t, p) \/ usb_proc_mwait(t, p)
         \/ MwaitResumes(t) \/ usb_proc_rewakeup(t)
  PROVE  TypeOK'
<1>1. ASSUME NEW p \in Pair, usb_proc_msignal(t, p) PROVE TypeOK'
  BY <1>1, MsignalTypes DEF usb_proc_msignal
<1> USE Constants DEF TypeOK, queueVars, flagVars, InCallback, InCvWait, OwnerPc,
        WorkerPc, CallerPc, TimerPc
<1>2. ASSUME NEW p \in Pair, MwaitLoop(t, p) PROVE TypeOK'
  <2>1. /\ pc' \in [Thread -> OwnerPc \cup WorkerPc \cup CallerPc \cup TimerPc]
        /\ pc'[Owner] \in OwnerPc /\ pc'[Worker] = pc[Worker]
        /\ \A u \in Caller : pc'[u] \in CallerPc
        /\ \A u \in Timer : pc'[u] \in TimerPc
    BY <1>2, ZenonT(40) DEF MwaitLoop
  <2>2. arg' \in [Caller \cup Timer -> Pair \cup {NoMsg}]
    BY <1>2, ZenonT(40) DEF MwaitLoop
  <2>3. up_dsleep' \in BOOLEAN
    BY <1>2, ZenonT(40) DEF MwaitLoop
  <2> QED
    BY <1>2, <2>1, <2>2, <2>3, SMTT(30) DEF MwaitLoop
<1>3. CASE MwaitResumes(t)
  BY <1>2, <1>3, SMTT(30) DEF MwaitResumes, ArgInv
<1>4. CASE usb_proc_rewakeup(t)
  BY <1>4, CvTypes, SMTT(30) DEF usb_proc_rewakeup
<1> QED
  BY <1>1, <1>2, <1>3, <1>4, ZenonT(40) DEF usb_proc_mwait

LEMMA DrainTypes ==
  ASSUME TypeOK, DrainLoop, pc[Owner] \in {"ready", "cv_relock"}
  PROVE  TypeOK'
<1>1. cv' \in [{"up_cv", "up_drain"} -> Event(Thread)]
  <2>1. \/ cv' = cv
        \/ cv' = [cv EXCEPT !["up_cv"] = cv_signal(@)]
        \/ cv' = [cv EXCEPT !["up_drain"] = cv_broadcast(@)]
    BY DEF DrainLoop
  <2> QED
    BY <2>1, CvTypes DEF TypeOK
<1> USE Constants DEF TypeOK, queueVars, InCallback, InCvWait, OwnerPc,
        WorkerPc, CallerPc, TimerPc
<1>2. up_gone' \in BOOLEAN /\ up_msleep' \in BOOLEAN /\ up_dsleep' \in BOOLEAN
  BY ZenonT(40) DEF DrainLoop
<1> QED
  BY <1>1, <1>2, ZenonT(40) DEF DrainLoop

LEMMA WorkerTypes ==
  ASSUME TypeOK, QueueInv, usb_process_thread
  PROVE  TypeOK'
<1>1. ASSUME NEW p \in Pair, CallbackSignals(p) PROVE TypeOK'
  BY <1>1, MsignalTypes, SMTT(30) DEF CallbackSignals
<1>2. ASSUME NEW p \in Pair, CallbackMwaits(p) PROVE TypeOK'
  <2>1. up_qhead' \in Seq(Msg)
    BY <1>2, DropFacts, SMTT(30) DEF CallbackMwaits, TypeOK, QueueInv
  <2> QED
    BY <1>2, <2>1, SMTT(30) DEF CallbackMwaits, TypeOK, flagVars, InCallback
<1>3. CASE WorkerWaits
  <2>1. cv' = cv \/ cv' = [cv EXCEPT !["up_drain"] = cv_broadcast(@)]
    BY <1>3, SMTT(30) DEF WorkerWaits
  <2>2. cv' \in [{"up_cv", "up_drain"} -> Event(Thread)]
    BY <2>1, CvTypes DEF TypeOK
  <2>3. up_dsleep' \in BOOLEAN /\ up_msleep' \in BOOLEAN
    BY <1>3, ZenonT(40) DEF WorkerWaits
  <2> QED
    BY <1>3, <2>2, <2>3, Constants, SMTT(30) DEF WorkerWaits, TypeOK, queueVars, InCallback,
       InCvWait, OwnerPc, WorkerPc, CallerPc, TimerPc
<1>4. CASE WorkerExits
  <2>1. cv' \in [{"up_cv", "up_drain"} -> Event(Thread)]
    BY <1>4, CvTypes DEF WorkerExits
  <2>2. up_ptr' \in BOOLEAN
    BY <1>4, ZenonT(40) DEF WorkerExits
  <2> QED
    BY <1>4, <2>1, <2>2, Constants DEF WorkerExits, TypeOK, queueVars, InCallback,
       InCvWait, OwnerPc, WorkerPc, CallerPc, TimerPc
<1> USE Constants DEF TypeOK, queueVars, flagVars, InCallback, InCvWait, OwnerPc,
        WorkerPc, CallerPc, TimerPc
<1>5. CASE WorkerLocks
  BY <1>5 DEF WorkerLocks
<1>6. CASE CallbackBegins
  BY <1>6, SMTT(30) DEF CallbackBegins
<1>7. CASE QueueFoundEmpty
  BY <1>7 DEF QueueFoundEmpty
<1>8. CASE CallbackSleeps
  BY <1>8, SMTT(30) DEF CallbackSleeps
<1>9. CASE CallbackReturns
  BY <1>9 DEF CallbackReturns
<1> QED
  BY <1>1, <1>2, <1>3, <1>4, <1>5, <1>6, <1>7, <1>8, <1>9, ZenonT(40) DEF usb_process_thread

LEMMA TypesPreserved ==
  ASSUME TypeOK, OwnerInv, ArgInv, QueueInv, [Next]_vars
  PROVE  TypeOK'
<1>1. CASE usb_proc_create
  BY <1>1, CreateTypes
<1>2. CASE usb_process_thread
  BY <1>2, WorkerTypes
<1>3. CASE cv_wait
  BY <1>3, WaitTypes
<1>4. CASE usb_proc_free \/ DrainResumes
  BY <1>4, DrainTypes DEF usb_proc_free, DrainResumes
<1>5. ASSUME NEW t \in Caller,
             \/ \E p \in Pair : usb_proc_msignal(t, p) \/ usb_proc_mwait(t, p)
             \/ MwaitResumes(t) \/ usb_proc_rewakeup(t)
      PROVE  TypeOK'
  BY <1>5, CallerTypes
<1>6. ASSUME NEW t \in Timer,
             \/ \E p \in Pair : TimerFires(t, p)
             \/ TimerQueues(t) \/ TimerClearsMsleep(t) \/ TimerSignals(t)
      PROVE  TypeOK'
  BY <1>6, TimerTypes, SMTT(30)
<1>7. CASE UNCHANGED vars
  BY <1>7 DEF TypeOK, vars, InCallback
<1> QED
  BY <1>1, <1>2, <1>3, <1>4, <1>5, <1>6, <1>7, SMTT(30) DEF Next, Finished
=============================================================================
