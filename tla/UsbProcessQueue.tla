-------------------------- MODULE UsbProcessQueue ---------------------------
(* What usb_proc_msignal, usb_proc_mwait and the dispatcher do to the queue:  *)
(* the part of the inductive invariant that is about messages is preserved.   *)
EXTENDS UsbProcessTypes

(* The queue: what msignal, mwait and the dispatcher do to it *)

\* The queue is never longer than there are messages that may be on it.
LEMMA QueueLength ==
  ASSUME TypeOK, QueueInv, RetiredInv
  PROVE  /\ Cardinality(retired) \in Nat
         /\ Len(up_qhead) + 2 * Cardinality(retired) < SignBit
<1> DEFINE T == (Pair \ retired) \X {0, 1}
           n == Len(up_qhead)
<1>1. /\ IsFiniteSet(retired) /\ IsFiniteSet(Pair \ retired)
      /\ Cardinality(retired) \in Nat /\ Cardinality(Pair \ retired) \in Nat
      /\ Cardinality(Pair \ retired) = Cardinality(Pair) - Cardinality(retired)
  <2>1. retired \subseteq Pair /\ Pair \cap retired = retired
    BY DEF TypeOK
  <2>2. IsFiniteSet(retired)
    BY <2>1, PairAssumption, FS_Subset
  <2>3. /\ IsFiniteSet(Pair \ retired)
        /\ Cardinality(Pair \ retired) = Cardinality(Pair) - Cardinality(Pair \cap retired)
    BY PairAssumption, FS_Difference
  <2>4. Cardinality(retired) \in Nat /\ Cardinality(Pair \ retired) \in Nat
    BY <2>2, <2>3, FS_CardinalityType
  <2> QED
    BY <2>1, <2>2, <2>3, <2>4
<1>2. IsFiniteSet({0, 1}) /\ Cardinality({0, 1}) = 2
  <2>1. IsFiniteSet({0}) /\ Cardinality({0}) = 1
    BY FS_Singleton, ZenonT(40)
  <2>2. IsFiniteSet({0} \cup {1}) /\ Cardinality({0} \cup {1}) = Cardinality({0}) + 1
    BY <2>1, FS_AddElement
  <2>3. {0} \cup {1} = {0, 1}
    OBVIOUS
  <2> QED
    BY <2>1, <2>2, <2>3
<1>3. IsFiniteSet(T) /\ Cardinality(T) = Cardinality(Pair \ retired) * 2
  BY <1>1, <1>2, FS_Product
<1>4. n \in Nat /\ IsFiniteSet(1..n) /\ Cardinality(1..n) = n
  <2>1. n \in Nat
    BY DEF TypeOK
  <2>2. IsFiniteSet(1..n) /\ Cardinality(1..n) = IF 1 > n THEN 0 ELSE n - 1 + 1
    BY <2>1, FS_Interval
  <2> QED
    BY <2>1, <2>2
<1>5. up_qhead \in Injection(1..n, T)
  <2>1. up_qhead \in [1..n -> T]
    BY DEF TypeOK, RetiredInv, Msg
  <2> QED
    BY <2>1 DEF QueueInv, Distinct, Injection, IsInjective
<1>6. n <= Cardinality(T)
  BY <1>3, <1>4, <1>5, FS_Injection, SMTT(30)
<1> QED
  BY <1>1, <1>3, <1>4, <1>6, NumAssumption, PairAssumption, FS_CardinalityType, SMTT(30)

\* The sign of the difference of the numbers finds the later message.
LEMMA LaterMessage ==
  ASSUME TypeOK, QueueInv, RetiredInv, AgeInv
  PROVE  RequeuesTheLast
<1> SUFFICES ASSUME NEW p \in Pair, NEW i \in 1..Len(up_qhead), NEW j \in 1..Len(up_qhead),
                    up_qhead[i][1] = p, up_qhead[j][1] = p, i < j
             PROVE  MsgToQueue(p) = up_qhead[j]
  BY DEF RequeuesTheLast
<1>1. /\ up_qhead[i] \in Msg /\ up_qhead[j] \in Msg /\ up_qhead[i] # up_qhead[j]
      /\ Queued(up_qhead[i]) /\ Queued(up_qhead[j])
  BY DEF TypeOK, QueueInv, Distinct, Queued, OnQueue
<1>2. \/ up_qhead[i] = <<p, 0>> /\ up_qhead[j] = <<p, 1>>
      \/ up_qhead[i] = <<p, 1>> /\ up_qhead[j] = <<p, 0>>
  BY <1>1 DEF Msg
<1>3. Age(up_qhead[i]) > Age(up_qhead[j])
  BY DEF AgeInv
<1>4. Age(up_qhead[i]) < SignBit /\ Age(up_qhead[j]) < SignBit
  <2>1. Len(up_qhead) \in Nat /\ Age(up_qhead[i]) \in Nat /\ Age(up_qhead[j]) \in Nat
    <3>1. /\ up_msg_num \in 0..(NumMod - 1) /\ Len(up_qhead) \in Nat
          /\ pm_num[up_qhead[i]] \in 0..(NumMod - 1)
          /\ pm_num[up_qhead[j]] \in 0..(NumMod - 1)
      BY <1>1 DEF TypeOK
    <3>2. Age(up_qhead[i]) \in 0..(NumMod - 1) /\ Age(up_qhead[j]) \in 0..(NumMod - 1)
      BY <3>1, DifferenceFacts, ZenonT(40) DEF Age
    <3> QED
      BY <3>1, <3>2, Numbers
  <2>2. /\ Age(up_qhead[i]) + i <= Len(up_qhead) + 2 * Cardinality(retired)
        /\ Age(up_qhead[j]) + j <= Len(up_qhead) + 2 * Cardinality(retired)
    BY DEF AgeInv
  <2> QED
    BY <2>1, <2>2, QueueLength, Numbers, SMTT(30)
<1>5. /\ up_msg_num \in 0..(NumMod - 1)
      /\ pm_num[<<p, 0>>] \in 0..(NumMod - 1) /\ pm_num[<<p, 1>>] \in 0..(NumMod - 1)
  BY DEF TypeOK, Msg
<1>6. CASE up_qhead[i] = <<p, 0>> /\ up_qhead[j] = <<p, 1>>
  <2>1. Difference(pm_num[<<p, 1>>], pm_num[<<p, 0>>]) < SignBit
    BY <1>3, <1>4, <1>5, <1>6, SignFacts, SMTT(30) DEF Age
  <2>2. Difference(pm_num[<<p, 1>>], pm_num[<<p, 0>>]) \in Int
    BY <1>5, DifferenceFacts
  <2> QED
    BY <1>1, <1>6, <2>1, <2>2, Numbers DEF MsgToQueue, Pm0IsNewer
<1>7. CASE up_qhead[i] = <<p, 1>> /\ up_qhead[j] = <<p, 0>>
  <2>1. Difference(pm_num[<<p, 1>>], pm_num[<<p, 0>>]) >= SignBit
    BY <1>3, <1>4, <1>5, <1>7, SignFacts, SMTT(30) DEF Age
  <2> QED
    BY <1>1, <1>7, <2>1, SMTT(30) DEF MsgToQueue, Pm0IsNewer
<1> QED
  BY <1>2, <1>6, <1>7

\* The message a callback is running for is not the one msignal queues.
LEMMA NotTheCurrent ==
  ASSUME TypeOK, QueueInv, CurInv, RetiredInv, AgeInv, InCallback,
         NEW p \in Pair \ retired
  PROVE  MsgToQueue(p) # cur
<1> SUFFICES ASSUME MsgToQueue(p) = cur PROVE FALSE
  OBVIOUS
<1>1. cur \in {<<p, 0>>, <<p, 1>>} /\ cur[1] = p
  BY DEF MsgToQueue
<1>2. Queued(cur) /\ up_qhead # <<>> /\ up_qhead[1] = cur
  BY <1>1 DEF CurInv, Queued, OnQueue, TypeOK
<1>3. PICK b \in {0, 1} : cur = <<p, b>>
  BY <1>1
<1>4. Queued(<<p, 1 - b>>)
  BY <1>1, <1>2, <1>3, SMTT(30) DEF MsgToQueue
<1>5. PICK j \in 1..Len(up_qhead) : up_qhead[j] = <<p, 1 - b>>
  BY <1>4 DEF Queued, OnQueue
<1>6. j > 1 /\ 1 \in 1..Len(up_qhead) /\ up_qhead[1][1] = p /\ up_qhead[j][1] = p
  BY <1>1, <1>2, <1>3, <1>5, SMTT(30) DEF TypeOK
<1>7. MsgToQueue(p) = up_qhead[j]
  BY <1>6, LaterMessage DEF RequeuesTheLast
<1> QED
  BY <1>1, <1>3, <1>5, <1>7, SMTT(30)

\* What msignal does to the queue, element by element.
LEMMA QueueAfterMsignal ==
  ASSUME TypeOK, QueueInv, RetiredInv, AgeInv, NEW p \in Pair \ retired, QueuePair(p),
         NEW m, m = MsgToQueue(p)
  PROVE  /\ Len(up_qhead') \in Nat /\ Len(up_qhead') >= 1
         /\ up_qhead'[Len(up_qhead')] = m
         /\ Len(up_qhead') >= Len(up_qhead)
         /\ QueueInv'
         /\ \E f \in [1..(Len(up_qhead') - 1) -> 1..Len(up_qhead)] :
              /\ \A i \in 1..(Len(up_qhead') - 1) :
                   /\ up_qhead'[i] = up_qhead[f[i]] /\ i <= f[i]
                   /\ up_qhead'[i] # m
              /\ \A i, j \in 1..(Len(up_qhead') - 1) : i < j => f[i] < f[j]
         /\ \A x : x # m => (OnQueue(up_qhead, x) <=> OnQueue(up_qhead', x))
         /\ ~Queued(m) => Len(up_qhead') = Len(up_qhead) + 1
<1> DEFINE r == Drop(up_qhead, m)
<1>1. up_qhead \in Seq(Msg) /\ Distinct(up_qhead) /\ m \in Msg
  BY QueuePairFacts DEF TypeOK, QueueInv
<1>2. /\ r \in Seq(Msg) /\ LeftOf(r, up_qhead) /\ Distinct(r) /\ ~OnQueue(r, m)
      /\ Len(r) = IF OnQueue(up_qhead, m) THEN Len(up_qhead) - 1 ELSE Len(up_qhead)
      /\ \A x : x # m => (OnQueue(up_qhead, x) <=> OnQueue(r, x))
  BY <1>1, DropFacts
<1>3. up_qhead' = Append(r, m)
  BY DEF QueuePair
<1> HIDE DEF r
<1>4. /\ Len(up_qhead') = Len(r) + 1 /\ Len(r) \in Nat
      /\ \A i \in 1..Len(r) : up_qhead'[i] = r[i]
      /\ up_qhead'[Len(r) + 1] = m
  BY <1>1, <1>2, <1>3
<1>5. QueueInv'
  <2> SUFFICES ASSUME NEW i \in 1..(Len(r) + 1), NEW j \in 1..(Len(r) + 1),
                      up_qhead'[i] = up_qhead'[j]
               PROVE  i = j
    BY <1>4 DEF QueueInv, Distinct
  <2>1. \A l \in 1..Len(r) : r[l] # m
    BY <1>2 DEF OnQueue
  <2>2. i \in 1..Len(r) /\ j \in 1..Len(r) => i = j
    BY <1>2, <1>4 DEF Distinct
  <2> QED
    BY <1>4, <2>1, <2>2
<1>6. PICK f \in [1..Len(r) -> 1..Len(up_qhead)] :
        /\ \A i \in 1..Len(r) : r[i] = up_qhead[f[i]] /\ i <= f[i]
        /\ \A i, j \in 1..Len(r) : i < j => f[i] < f[j]
  BY <1>2 DEF LeftOf
<1>7. \A i \in 1..Len(r) : up_qhead'[i] # m
  BY <1>2, <1>4, SMTT(30) DEF OnQueue
<1>8. \A x : x # m => (OnQueue(r, x) <=> OnQueue(up_qhead', x))
  BY <1>4 DEF OnQueue
<1>9. Len(up_qhead) \in Nat /\ Len(up_qhead') - 1 = Len(r)
  BY <1>1, <1>4, SMTT(30)
<1> QED
  BY <1>2, <1>4, <1>5, <1>6, <1>7, <1>8, <1>9, SMTT(30) DEF Queued

\* msignal keeps the ages in order.
LEMMA MsignalAges ==
  ASSUME TypeOK, QueueInv, RetiredInv, AgeInv, NEW p \in Pair \ retired, QueuePair(p),
         retired' = retired
  PROVE  AgeInv'
<1> DEFINE m == MsgToQueue(p)
           n == Len(up_qhead') - 1
           k == Len(up_qhead)
           R == 2 * Cardinality(retired)
           d == IF up_msg_num' = up_msg_num THEN 0 ELSE 1
           A == [i \in 1..k |-> Age(up_qhead[i])]
           B == [i \in 1..(n + 1) |-> Age(up_qhead[i])']
<1>1. /\ n \in Nat /\ Len(up_qhead') = n + 1 /\ up_qhead'[n + 1] = m
      /\ k \in Nat /\ n + 1 >= k
      /\ ~Queued(m) => n = k
  BY QueueAfterMsignal DEF TypeOK
<1>2. PICK f \in [1..n -> 1..k] :
        /\ \A i \in 1..n : up_qhead'[i] = up_qhead[f[i]] /\ i <= f[i] /\ up_qhead'[i] # m
        /\ \A i, j \in 1..n : i < j => f[i] < f[j]
  BY QueueAfterMsignal, ZenonT(40)
<1>3. m \in Msg /\ m \in {<<p, 0>>, <<p, 1>>} /\ pm_num' = [pm_num EXCEPT ![m] = up_msg_num']
  BY QueuePairFacts
<1>4. /\ up_msg_num \in 0..(NumMod - 1) /\ up_msg_num' \in 0..(NumMod - 1)
      /\ pm_num \in [Msg -> 0..(NumMod - 1)]
      /\ \A i \in 1..k : up_qhead[i] \in Msg
      /\ R \in Nat /\ k + R < SignBit
  BY QueuePairFacts, QueueLength, SMTT(30) DEF TypeOK
<1>5. d \in {0, 1}
  OBVIOUS
<1>6. d = 1 => ~Queued(m)
  <2>1. CASE Queued(<<p, 0>>) /\ Queued(<<p, 1>>)
    <3>1. up_msg_num' = up_msg_num
      BY <2>1 DEF QueuePair, NextNum
    <3> QED
      BY <3>1
  <2>2. CASE ~(Queued(<<p, 0>>) /\ Queued(<<p, 1>>))
    <3>1. ~Queued(MsgToQueue(p))
      BY <2>2 DEF MsgToQueue
    <3> QED
      BY <3>1
  <2> QED
    BY <2>1, <2>2
<1>7. \A i \in 1..k : A[i] = Age(up_qhead[i])
  OBVIOUS
<1>8. \A i \in 1..(n + 1) : B[i] = Age(up_qhead[i])'
  OBVIOUS
<1>9. d = 0 <=> up_msg_num' = up_msg_num
  OBVIOUS
<1>a. \A i \in 1..k : A[i] + i <= k + R
  BY DEF AgeInv
<1> HIDE DEF m, n, k, R, d, A, B
<1>10. \A i \in 1..k : A[i] \in Nat /\ A[i] < NumMod - 1
  <2> TAKE i \in 1..k
  <2>1. pm_num[up_qhead[i]] \in 0..(NumMod - 1)
    BY <1>4
  <2>2. A[i] \in 0..(NumMod - 1)
    <3>1. Difference(up_msg_num, pm_num[up_qhead[i]]) \in 0..(NumMod - 1)
      BY <1>4, <2>1, DifferenceFacts, ZenonT(40)
    <3> QED
      BY <1>7, <3>1, SMTT(30) DEF Age
  <2> QED
    BY <1>1, <1>4, <1>a, <2>2, Numbers, SMTT(30)
<1>11. \A i \in 1..n : B[i] = A[f[i]] + d
  <2> TAKE i \in 1..n
  <2> DEFINE x == up_qhead[f[i]]
  <2>1. /\ up_qhead'[i] = x /\ x # m /\ f[i] \in 1..k /\ x \in Msg
        /\ A[f[i]] = Age(x) /\ A[f[i]] \in Nat /\ A[f[i]] < NumMod - 1
        /\ i \in 1..(n + 1)
    BY <1>1, <1>2, <1>4, <1>7, <1>10, SMTT(30)
  <2> HIDE DEF x
  <2>2. pm_num'[x] = pm_num[x] /\ pm_num[x] \in 0..(NumMod - 1)
    BY <2>1, <1>3, <1>4, SMTT(30)
  <2>3. up_msg_num' \in {up_msg_num, Increment(up_msg_num)}
    BY DEF QueuePair, NextNum
  <2>4. B[i] = Difference(up_msg_num', pm_num[x])
    BY <1>8, <2>1, <2>2, SMTT(30) DEF Age
  <2>5. A[f[i]] = Difference(up_msg_num, pm_num[x])
    BY <2>1 DEF Age
  <2>6. CASE up_msg_num' = up_msg_num
    BY <1>9, <2>1, <2>4, <2>5, <2>6, SMTT(30)
  <2>7. CASE up_msg_num' # up_msg_num
    <3>1. up_msg_num' = Increment(up_msg_num)
      BY <2>3, <2>7, SMTT(30)
    <3>2. Difference(Increment(up_msg_num), pm_num[x]) = Difference(up_msg_num, pm_num[x]) + 1
      BY <2>1, <2>2, <2>5, <1>4, DifferenceFacts, SMTT(30)
    <3> QED
      BY <1>5, <1>9, <3>1, <3>2, <2>4, <2>5, <2>7, SMTT(30)
  <2> QED
    BY <2>6, <2>7
<1>12. B[n + 1] = 0
  <2>1. pm_num'[m] = up_msg_num' /\ n + 1 \in 1..(n + 1)
    BY <1>1, <1>3, <1>4, SMTT(30)
  <2>2. B[n + 1] = Difference(up_msg_num', up_msg_num')
    BY <1>1, <1>8, <2>1, SMTT(30) DEF Age
  <2> QED
    BY <1>4, <2>2, DifferenceFacts, SMTT(30)
<1>13. \A i \in 1..(n + 1) : B[i] \in Nat /\ B[i] + i <= n + 1 + R
  <2> TAKE i \in 1..(n + 1)
  <2>1. CASE i = n + 1
    BY <1>1, <1>4, <1>12, <2>1, SMTT(30)
  <2>2. CASE i # n + 1
    <3>1. i \in 1..n /\ f[i] \in 1..k /\ i <= f[i] /\ B[i] = A[f[i]] + d
      BY <1>1, <1>2, <1>11, <2>2, SMTT(30)
    <3>2. A[f[i]] \in Nat /\ A[f[i]] + f[i] <= k + R
      BY <3>1, <1>10, <1>a, SMTT(30)
    <3> QED
      <4>1. /\ n \in Nat /\ k \in Nat /\ R \in Nat /\ n + 1 >= k
            /\ d = 0 \/ (d = 1 /\ n = k)
        BY <1>1, <1>4, <1>5, <1>6, SMTT(30)
      <4> QED
        BY <3>1, <3>2, <4>1, SMTT(30)
  <2> QED
    BY <2>1, <2>2, SMTT(30)
<1>14. \A i, j \in 1..(n + 1) : i < j => B[i] >= B[j]
  <2> SUFFICES ASSUME NEW i \in 1..(n + 1), NEW j \in 1..(n + 1), i < j
               PROVE  B[i] >= B[j]
    OBVIOUS
  <2>1. CASE j = n + 1
    BY <1>12, <1>13, <2>1, SMTT(30)
  <2>2. CASE j # n + 1
    <3>1. i \in 1..n /\ j \in 1..n
      BY <1>1, <2>2, SMTT(30)
    <3>2. /\ f[i] \in 1..k /\ f[j] \in 1..k /\ f[i] < f[j]
          /\ B[i] = A[f[i]] + d /\ B[j] = A[f[j]] + d
      BY <1>2, <1>11, <3>1, SMTT(30)
    <3>3. A[f[i]] >= A[f[j]]
      BY <3>2, <1>7, SMTT(30) DEF AgeInv, k
    <3> QED
      BY <1>5, <1>10, <3>2, <3>3, SMTT(30)
  <2> QED
    BY <2>1, <2>2, SMTT(30)
<1>15. \A i, j \in 1..(n + 1) :
         i < j /\ up_qhead'[i][1] = up_qhead'[j][1] => B[i] > B[j]
  <2> SUFFICES ASSUME NEW i \in 1..(n + 1), NEW j \in 1..(n + 1), i < j,
                      up_qhead'[i][1] = up_qhead'[j][1]
               PROVE  B[i] > B[j]
    OBVIOUS
  <2> DEFINE x == up_qhead[f[i]]
  <2>0. i \in 1..n
    BY <1>1, SMTT(30)
  <2>1. /\ f[i] \in 1..k /\ up_qhead'[i] = x /\ x # m /\ x \in Msg /\ Queued(x)
        /\ B[i] = A[f[i]] + d /\ A[f[i]] = Age(x) /\ A[f[i]] \in Nat
    BY <2>0, <1>2, <1>4, <1>7, <1>10, <1>11, SMTT(30) DEF Queued, OnQueue, k
  <2>2. CASE j = n + 1
    <3>1. x[1] = m[1] /\ m[1] = p
      BY <1>1, <1>3, <2>1, <2>2, SMTT(30)
    <3> HIDE DEF x
    <3>2. \/ x = <<p, 0>> /\ m = <<p, 1>>
          \/ x = <<p, 1>> /\ m = <<p, 0>>
      BY <1>3, <2>1, <3>1, SMTT(30) DEF Msg
    <3>3. CASE Queued(m)
      <4>1. PICK l \in 1..k : up_qhead[l] = m
        BY <3>3, SMTT(30) DEF Queued, OnQueue, k
      <4>2. up_qhead[l][1] = p /\ l # f[i] /\ up_qhead[f[i]] = x
        BY <3>1, <4>1, <2>1, SMTT(30) DEF x
      <4>3. f[i] < l
        <5>1. CASE l < f[i]
          <6>1. MsgToQueue(p) = up_qhead[f[i]]
            BY <2>1, <3>1, <4>1, <4>2, <5>1, LaterMessage, SMTT(30) DEF RequeuesTheLast, k
          <6> QED
            BY <6>1, <2>1, <4>2, SMTT(30) DEF m
        <5> QED
          BY <5>1, <4>2, <2>1, <1>1, SMTT(30)
      <4>4. A[f[i]] > A[l]
        BY <2>1, <3>1, <4>1, <4>2, <4>3, <1>7, SMTT(30) DEF AgeInv, k
      <4> QED
        BY <1>5, <1>10, <1>12, <2>1, <2>2, <4>1, <4>4, SMTT(30)
    <3>4. CASE ~Queued(m)
      <4>1. pm_num[x] = up_msg_num => up_msg_num' = Increment(up_msg_num)
        BY <2>1, <3>2, <3>4, ZenonT(40) DEF QueuePair, NextNum
      <4>2. d = 0 => pm_num[x] # up_msg_num
        BY <4>1, <1>4, <1>9, Numbers DEF Increment
      <4>3. d = 0 => A[f[i]] # 0
        BY <4>2, <2>1, <1>4, DifferenceFacts, SMTT(30) DEF Age
      <4> QED
        BY <1>5, <1>12, <2>1, <2>2, <4>3, SMTT(30)
    <3> QED
      BY <3>3, <3>4, SMTT(30)
  <2>3. CASE j # n + 1
    <3>1. j \in 1..n
      BY <1>1, <2>3, SMTT(30)
    <3>2. /\ f[j] \in 1..k /\ f[i] < f[j] /\ up_qhead'[j] = up_qhead[f[j]]
          /\ B[j] = A[f[j]] + d
      BY <1>2, <1>11, <2>0, <3>1, SMTT(30)
    <3>3. A[f[i]] > A[f[j]]
      BY <2>1, <3>2, <1>7, SMTT(30) DEF AgeInv, k
    <3> QED
      BY <1>5, <1>10, <2>1, <3>2, <3>3, SMTT(30)
  <2> QED
    BY <2>2, <2>3, SMTT(30)
<1>16. \A i \in 1..(n + 1) : Age(up_qhead[i])' + i <= n + 1 + 2 * Cardinality(retired)
  BY <1>8, <1>13, SMTT(30) DEF R
<1> QED
  BY <1>1, <1>8, <1>14, <1>15, <1>16, SMTT(30) DEF AgeInv

\* msignal preserves what is known of the queue.
LEMMA MsignalQueue ==
  ASSUME TypeOK, QueueInv, CurInv, RetiredInv, AgeInv, NoMessageLost,
         NEW p \in Pair \ retired, QueuePair(p),
         retired' = retired, cur' = cur, InCallback' = InCallback
  PROVE  (QueueInv /\ CurInv /\ RetiredInv /\ AgeInv /\ NoMessageLost)'
<1> DEFINE m == MsgToQueue(p)
           n == Len(up_qhead') - 1
           k == Len(up_qhead)
<1>1. /\ n \in Nat /\ Len(up_qhead') = n + 1 /\ up_qhead'[n + 1] = m /\ QueueInv'
      /\ k \in Nat
      /\ \A x : x # m => (OnQueue(up_qhead, x) <=> OnQueue(up_qhead', x))
  BY QueueAfterMsignal DEF TypeOK
<1>2. PICK f \in [1..n -> 1..k] :
        \A i \in 1..n : up_qhead'[i] = up_qhead[f[i]] /\ i <= f[i]
  BY QueueAfterMsignal
<1>3. m \in {<<p, 0>>, <<p, 1>>} /\ m[1] = p /\ (InCallback => m # cur)
  BY QueuePairFacts, NotTheCurrent, SMTT(30)
<1>4. owed' = owed \cup {p}
  BY DEF QueuePair
<1> HIDE DEF m, n
<1>5. CurInv'
  <2> SUFFICES ASSUME InCallback
               PROVE  /\ \A i \in 1..(n + 1) : up_qhead'[i] = cur => i = 1
                      /\ ~OnQueue(up_qhead', cur) => cur[1] \in retired
    BY <1>1 DEF CurInv, Queued
  <2>1. ASSUME NEW i \in 1..(n + 1), up_qhead'[i] = cur PROVE i = 1
    <3>1. i \in 1..n
      BY <1>1, <1>3, <2>1, SMTT(30)
    <3>2. f[i] = 1
      BY <1>2, <2>1, <3>1, SMTT(30) DEF CurInv
    <3> QED
      BY <1>2, <3>1, <3>2, SMTT(30)
  <2>2. ~OnQueue(up_qhead', cur) => cur[1] \in retired
    BY <1>1, <1>3, SMTT(30) DEF CurInv, Queued
  <2> QED
    BY <2>1, <2>2, SMTT(30)
<1>6. RetiredInv'
  <2>1. ASSUME NEW i \in 1..(n + 1) PROVE up_qhead'[i][1] \notin retired
    <3>1. CASE i = n + 1
      BY <1>1, <1>3, <3>1, SMTT(30)
    <3>2. CASE i # n + 1
      <4>1. i \in 1..n
        BY <1>1, <3>2
      <4> QED
        BY <1>2, <4>1 DEF RetiredInv
    <3> QED
      BY <3>1, <3>2, SMTT(30)
  <2> QED
    BY <1>1, <1>4, <2>1, SMTT(30) DEF RetiredInv
<1>7. AgeInv'
  BY MsignalAges
<1>8. NoMessageLost'
  <2> SUFFICES ASSUME NEW o \in owed \cup {p}
               PROVE  \E i \in 1..(n + 1) :
                        up_qhead'[i][1] = o /\ (InCallback => up_qhead'[i] # cur)
    BY <1>1, <1>4, SMTT(30) DEF NoMessageLost
  <2>1. CASE o = p
    <3>1. n + 1 \in 1..(n + 1)
      BY <1>1
    <3> QED
      BY <1>1, <1>3, <2>1, <3>1, SMTT(30)
  <2>2. CASE o # p
    <3>1. PICK i \in 1..k : up_qhead[i][1] = o /\ (InCallback => up_qhead[i] # cur)
      BY <2>2 DEF NoMessageLost
    <3>2. OnQueue(up_qhead', up_qhead[i])
      BY <1>1, <1>3, <2>2, <3>1, ZenonT(40) DEF OnQueue
    <3> QED
      BY <1>1, <3>1, <3>2, SMTT(30) DEF OnQueue
  <2> QED
    BY <2>1, <2>2, SMTT(30)
<1> QED
  BY <1>1, <1>5, <1>6, <1>7, <1>8, SMTT(30)

\* So does mwait by the dispatcher itself, which takes both messages of a pair
\* off the queue.
LEMMA MwaitQueue ==
  ASSUME TypeOK, QueueInv, CurInv, RetiredInv, AgeInv, NoMessageLost,
         NEW p \in Pair, CallbackMwaits(p)
  PROVE  (QueueInv /\ CurInv /\ RetiredInv /\ AgeInv /\ NoMessageLost)'
<1> DEFINE r == Drop(up_qhead, <<p, 0>>)
           k == Len(up_qhead)
           n == Len(up_qhead')
           R == Cardinality(retired)
<1>1. /\ up_qhead \in Seq(Msg) /\ Distinct(up_qhead) /\ up_qhead' = Drop(r, <<p, 1>>)
      /\ owed' = owed \ {p} /\ retired' = retired \cup {p} /\ p \notin retired
      /\ cur' = cur /\ InCallback /\ InCallback' /\ pm_num' = pm_num
      /\ up_msg_num' = up_msg_num
  BY DEF CallbackMwaits, TypeOK, QueueInv, InCallback
<1>2. /\ r \in Seq(Msg) /\ LeftOf(r, up_qhead) /\ Distinct(r) /\ ~OnQueue(r, <<p, 0>>)
      /\ Len(r) \in {k, k - 1}
      /\ \A x : x # <<p, 0>> => (OnQueue(up_qhead, x) <=> OnQueue(r, x))
  BY <1>1, DropFacts, SMTT(30)
<1> HIDE DEF r
<1>3. /\ up_qhead' \in Seq(Msg) /\ LeftOf(up_qhead', r) /\ Distinct(up_qhead')
      /\ ~OnQueue(up_qhead', <<p, 1>>)
      /\ Len(up_qhead') \in {Len(r), Len(r) - 1}
      /\ \A x : x # <<p, 1>> => (OnQueue(r, x) <=> OnQueue(up_qhead', x))
  BY <1>1, <1>2, DropFacts, SMTT(30)
<1>4. /\ k \in Nat /\ n \in Nat /\ n + 2 >= k
      /\ \A x : x # <<p, 0>> /\ x # <<p, 1>> =>
           (OnQueue(up_qhead, x) <=> OnQueue(up_qhead', x))
      /\ \A i \in 1..n : up_qhead'[i] \in Msg /\ up_qhead'[i] \notin {<<p, 0>>, <<p, 1>>}
  <2>1. k \in Nat /\ n \in Nat /\ n + 2 >= k
    BY <1>1, <1>2, <1>3, SMTT(30)
  <2>2. ~OnQueue(up_qhead', <<p, 0>>)
    BY <1>2, <1>3, SMTT(30)
  <2>3. \A i \in 1..n : up_qhead'[i] \in Msg /\ up_qhead'[i] \notin {<<p, 0>>, <<p, 1>>}
    BY <1>3, <2>2, SMTT(30) DEF OnQueue
  <2> QED
    BY <1>2, <1>3, <2>1, <2>3, SMTT(30)
<1>5. PICK f \in [1..n -> 1..k] :
        /\ \A i \in 1..n : up_qhead'[i] = up_qhead[f[i]] /\ i <= f[i]
        /\ \A i, j \in 1..n : i < j => f[i] < f[j]
  <2>1. LeftOf(up_qhead', up_qhead)
    BY <1>1, <1>2, <1>3, LeftOfTransitive, SMTT(30)
  <2> QED
    BY <2>1 DEF LeftOf
<1> HIDE DEF n, k
<1>6. CurInv'
  <2>1. ASSUME NEW i \in 1..n, up_qhead'[i] = cur PROVE i = 1
    <3>1. f[i] = 1
      BY <1>1, <1>5, <2>1, SMTT(30) DEF CurInv, k
    <3> QED
      BY <1>5, <3>1, SMTT(30)
  <2>2. ASSUME ~OnQueue(up_qhead', cur) PROVE cur[1] \in retired'
    <3>1. CASE OnQueue(up_qhead, cur)
      <4>1. cur \in {<<p, 0>>, <<p, 1>>}
        BY <1>4, <2>2, <3>1, SMTT(30)
      <4> QED
        BY <1>1, <4>1, SMTT(30)
    <3>2. CASE ~OnQueue(up_qhead, cur)
      BY <1>1, <3>2, SMTT(30) DEF CurInv, Queued
    <3> QED
      BY <3>1, <3>2, SMTT(30)
  <2> QED
    BY <1>1, <2>1, <2>2, SMTT(30) DEF CurInv, Queued, n
<1>7. RetiredInv'
  <2>1. ASSUME NEW i \in 1..n PROVE up_qhead'[i][1] \notin retired \cup {p}
    <3>1. up_qhead'[i][1] # p
      BY <1>4 DEF Msg
    <3>2. up_qhead'[i][1] \notin retired
      BY <1>5, SMTT(30) DEF RetiredInv, k
    <3> QED
      BY <3>1, <3>2
  <2> QED
    BY <1>1, <2>1, ZenonT(40) DEF RetiredInv, n
<1>8. AgeInv'
  <2>0. IsFiniteSet(retired)
    BY PairAssumption, FS_Subset, SMTT(30) DEF TypeOK
  <2>1. Cardinality(retired') = R + 1 /\ R \in Nat
    BY <1>1, <2>0, FS_AddElement, FS_CardinalityType, SMTT(30)
  <2> DEFINE A == [i \in 1..k |-> Age(up_qhead[i])]
  <2>2. \A i \in 1..k : A[i] \in Nat
    <3> TAKE i \in 1..k
    <3>1. pm_num[up_qhead[i]] \in 0..(NumMod - 1) /\ up_msg_num \in 0..(NumMod - 1)
      BY <1>1, SMTT(30) DEF TypeOK, k
    <3>2. Difference(up_msg_num, pm_num[up_qhead[i]]) \in 0..(NumMod - 1)
      BY <3>1, DifferenceFacts, ZenonT(40)
    <3> QED
      BY <3>2, Numbers, SMTT(30) DEF Age
  <2>3. \A i \in 1..n : Age(up_qhead[i])' = A[f[i]]
    BY <1>1, <1>5, SMTT(30) DEF Age
  <2>4. \A i \in 1..k : A[i] + i <= k + 2 * R
    BY DEF AgeInv, k
  <2>5. \A i, j \in 1..k : i < j => A[i] >= A[j]
    BY SMTT(30) DEF AgeInv, k
  <2>6. \A i, j \in 1..k : i < j /\ up_qhead[i][1] = up_qhead[j][1] => A[i] > A[j]
    BY DEF AgeInv, k
  <2> HIDE DEF A, R
  <2>7. \A i \in 1..n : A[f[i]] + i <= n + 2 * (R + 1)
    <3> TAKE i \in 1..n
    <3>1. f[i] \in 1..k /\ i <= f[i] /\ A[f[i]] \in Nat /\ A[f[i]] + f[i] <= k + 2 * R
      BY <1>5, <2>2, <2>4, SMTT(30)
    <3> QED
      BY <1>4, <2>1, <3>1, SMTT(30)
  <2>8. \A i, j \in 1..n : i < j =>
           /\ A[f[i]] >= A[f[j]]
           /\ up_qhead'[i][1] = up_qhead'[j][1] => A[f[i]] > A[f[j]]
    BY <1>5, <2>5, <2>6, SMTT(30)
  <2> QED
    BY <2>1, <2>3, <2>7, <2>8, SMTT(30) DEF AgeInv, n
<1>9. NoMessageLost'
  <2> SUFFICES ASSUME NEW o \in owed \ {p}
               PROVE  \E i \in 1..n : up_qhead'[i][1] = o /\ up_qhead'[i] # cur
    BY <1>1, ZenonT(40) DEF NoMessageLost, n
  <2>1. PICK i \in 1..k : up_qhead[i][1] = o /\ up_qhead[i] # cur
    BY <1>1 DEF NoMessageLost, k
  <2>2. OnQueue(up_qhead', up_qhead[i])
    BY <1>4, <2>1 DEF OnQueue, k
  <2> QED
    BY <2>1, <2>2, SMTT(30) DEF OnQueue, n
<1> QED
  BY <1>3, <1>6, <1>7, <1>8, <1>9 DEF QueueInv

\* So does the dispatcher when it takes a message that has been called off the
\* queue.
LEMMA ReturnQueue ==
  ASSUME TypeOK, QueueInv, CurInv, RetiredInv, AgeInv, NoMessageLost, CallbackReturns
  PROVE  (QueueInv /\ CurInv /\ RetiredInv /\ AgeInv /\ NoMessageLost)'
<1>1. /\ up_qhead \in Seq(Msg) /\ InCallback /\ ~InCallback'
      /\ UNCHANGED <<pm_num, up_msg_num, owed, retired>>
  BY Constants DEF CallbackReturns, TypeOK, InCallback
<1>2. CASE up_qhead' = up_qhead
  <2>1. NoMessageLost'
    BY <1>1, <1>2, SMTT(30) DEF NoMessageLost
  <2>2. CurInv'
    BY <1>1, SMTT(30) DEF CurInv
  <2>3. (QueueInv /\ RetiredInv)'
    BY <1>1, <1>2, SMTT(30) DEF QueueInv, RetiredInv
  <2>4. AgeInv'
    BY <1>1, <1>2, SMTT(30) DEF AgeInv, Age
  <2> QED
    BY <2>1, <2>2, <2>3, <2>4, SMTT(30)
<1>3. CASE up_qhead' # up_qhead
  <2> DEFINE k == Len(up_qhead)
  <2>1. up_qhead # <<>> /\ Head(up_qhead) = cur /\ up_qhead' = Tail(up_qhead)
    BY <1>3, SMTT(30) DEF CallbackReturns
  <2>2. /\ k \in Nat \ {0} /\ Len(up_qhead') = k - 1 /\ up_qhead[1] = cur
        /\ \A i \in 1..(k - 1) : up_qhead'[i] = up_qhead[i + 1]
    BY <1>1, <2>1, SMTT(30)
  <2>3. QueueInv'
    BY <2>2, SMTT(30) DEF QueueInv, Distinct
  <2>4. CurInv'
    BY <1>1 DEF CurInv
  <2>5. RetiredInv'
    BY <1>1, <2>2, SMTT(30) DEF RetiredInv
  <2>6. AgeInv'
    <3> DEFINE A == [i \in 1..k |-> Age(up_qhead[i])]
               R == 2 * Cardinality(retired)
    <3>1. \A i \in 1..k : A[i] \in Nat
      <4> TAKE i \in 1..k
      <4>1. pm_num[up_qhead[i]] \in 0..(NumMod - 1) /\ up_msg_num \in 0..(NumMod - 1)
        BY <1>1, SMTT(30) DEF TypeOK
      <4>2. Difference(up_msg_num, pm_num[up_qhead[i]]) \in 0..(NumMod - 1)
        BY <4>1, DifferenceFacts, ZenonT(40)
      <4> QED
        BY <4>2, Numbers, SMTT(30) DEF Age
    <3>2. \A i \in 1..(k - 1) : Age(up_qhead[i])' = A[i + 1]
      BY <1>1, <2>2 DEF Age
    <3>3. \A i \in 1..k : A[i] + i <= k + R
      BY DEF AgeInv
    <3>4. \A i, j \in 1..k : i < j =>
             /\ A[i] >= A[j]
             /\ up_qhead[i][1] = up_qhead[j][1] => A[i] > A[j]
      BY DEF AgeInv
    <3>5. R \in Nat /\ (2 * Cardinality(retired))' = R
      BY <1>1, QueueLength, SMTT(30)
    <3> HIDE DEF A, R, k
    <3>6. \A i \in 1..(k - 1) : A[i + 1] + i <= k - 1 + R
      <4> TAKE i \in 1..(k - 1)
      <4>1. i + 1 \in 1..k /\ A[i + 1] \in Nat /\ A[i + 1] + (i + 1) <= k + R
        BY <2>2, <3>1, <3>3, SMTT(30)
      <4> QED
        BY <2>2, <3>5, <4>1, SMTT(30)
    <3>7. \A i, j \in 1..(k - 1) : i < j =>
             /\ A[i + 1] >= A[j + 1]
             /\ up_qhead'[i][1] = up_qhead'[j][1] => A[i + 1] > A[j + 1]
      BY <2>2, <3>4, SMTT(30)
    <3>8. \A i \in 1..(k - 1) : Age(up_qhead[i])' + i <= k - 1 + R
      BY <3>2, <3>6
    <3>9. \A i, j \in 1..(k - 1) : i < j =>
             /\ Age(up_qhead[i])' >= Age(up_qhead[j])'
             /\ up_qhead'[i][1] = up_qhead'[j][1] =>
                  Age(up_qhead[i])' > Age(up_qhead[j])'
      BY <3>2, <3>7, SMTT(30)
    <3>10. Len(up_qhead') = k - 1 /\ Len(up_qhead') + (2 * Cardinality(retired))' = k - 1 + R
      BY <2>2, <3>5, SMTT(30)
    <3> QED
      BY <3>8, <3>9, <3>10, SMTT(30) DEF AgeInv
  <2>7. NoMessageLost'
    <3> SUFFICES ASSUME NEW o \in owed
                 PROVE  \E i \in 1..(k - 1) : up_qhead'[i][1] = o
      BY <1>1, <2>2, SMTT(30) DEF NoMessageLost
    <3>1. PICK i \in 1..k : up_qhead[i][1] = o /\ up_qhead[i] # cur
      BY <1>1 DEF NoMessageLost
    <3>2. i - 1 \in 1..(k - 1) /\ up_qhead'[i - 1] = up_qhead[i]
      BY <2>2, <3>1, SMTT(30)
    <3> QED
      BY <3>1, <3>2, SMTT(30)
  <2> QED
    BY <2>3, <2>4, <2>5, <2>6, <2>7, SMTT(30)
<1> QED
  BY <1>2, <1>3, SMTT(30)

\* So does the dispatcher when it calls the first message.
LEMMA BeginQueue ==
  ASSUME TypeOK, QueueInv, CurInv, RetiredInv, AgeInv, NoMessageLost, CallbackBegins
  PROVE  (QueueInv /\ CurInv /\ RetiredInv /\ AgeInv /\ NoMessageLost)'
<1>1. /\ up_qhead \in Seq(Msg) /\ up_qhead # <<>> /\ ~InCallback /\ InCallback'
      /\ cur' = up_qhead[1] /\ owed' = owed \ {up_qhead[1][1]}
      /\ UNCHANGED <<up_qhead, pm_num, up_msg_num, retired>>
  <2>1. up_qhead \in Seq(Msg) /\ up_qhead # <<>>
    BY SMTT(30) DEF CallbackBegins, TypeOK
  <2>2. ~InCallback /\ InCallback'
    BY Constants DEF CallbackBegins, TypeOK, InCallback
  <2>3. cur' = up_qhead[1] /\ owed' = owed \ {up_qhead[1][1]}
    BY <2>1 DEF CallbackBegins
  <2> QED
    BY <2>1, <2>2, <2>3, SMTT(30) DEF CallbackBegins
<1>2. Len(up_qhead) \in Nat \ {0} /\ 1 \in 1..Len(up_qhead)
  BY <1>1
<1>3. (QueueInv /\ RetiredInv)'
  BY <1>1, SMTT(30) DEF QueueInv, RetiredInv
<1>4. AgeInv'
  BY <1>1, SMTT(30) DEF AgeInv, Age
<1>5. CurInv'
  BY <1>1, <1>2, SMTT(30) DEF CurInv, Queued, OnQueue, QueueInv, Distinct
<1>6. NoMessageLost'
  BY <1>1 DEF NoMessageLost
<1> QED
  BY <1>3, <1>4, <1>5, <1>6, SMTT(30)

\* Any other step leaves the queue and the message in hand as they are.
LEMMA SameQueue ==
  ASSUME QueueInv, CurInv, RetiredInv, AgeInv, NoMessageLost,
         UNCHANGED <<up_qhead, pm_num, up_msg_num, owed, retired, cur>>,
         InCallback' = InCallback
  PROVE  (QueueInv /\ CurInv /\ RetiredInv /\ AgeInv /\ NoMessageLost)'
<1>1. (QueueInv /\ RetiredInv)'
  BY SMTT(30) DEF QueueInv, RetiredInv
<1>2. AgeInv'
  BY DEF AgeInv, Age
<1>3. CurInv'
  BY DEF CurInv, Queued
<1>4. NoMessageLost'
  BY DEF NoMessageLost
<1> QED
  BY <1>1, <1>2, <1>3, <1>4, SMTT(30)

LEMMA QueuePreserved ==
  ASSUME TypeOK, OwnerInv, ArgInv, QueueInv, CurInv, RetiredInv, AgeInv, NoMessageLost,
         [Next]_vars
  PROVE  (QueueInv /\ CurInv /\ RetiredInv /\ AgeInv /\ NoMessageLost)'
<1> DEFINE P == (QueueInv /\ CurInv /\ RetiredInv /\ AgeInv /\ NoMessageLost)'
<1> USE Constants
<1>1. ASSUME NEW p \in Pair, MsignalLocked(p) PROVE P
  <2>1. p \in Pair \ retired /\ UNCHANGED <<retired, cur, pc>>
    BY <1>1 DEF MsignalLocked, MayQueue
  <2>2. InCallback' = InCallback
    BY <2>1, SMTT(30) DEF InCallback
  <2>3. CASE up_gone
    BY <1>1, <2>1, <2>2, <2>3, SameQueue, SMTT(30) DEF MsignalLocked, queueVars
  <2>4. CASE ~up_gone
    BY <1>1, <2>1, <2>2, <2>4, MsignalQueue, SMTT(30) DEF MsignalLocked
  <2> QED
    BY <2>3, <2>4, SMTT(30)
<1>2. ASSUME NEW t \in Timer, TimerQueues(t) PROVE P
  <2>1. PICK p \in Pair \ retired : QueuePair(p)
    BY <1>2, SMTT(30) DEF TimerQueues, ArgInv
  <2>2. retired' = retired /\ cur' = cur /\ InCallback' = InCallback
    BY <1>2 DEF TimerQueues, InCallback, TypeOK
  <2> QED
    BY <2>1, <2>2, MsignalQueue, SMTT(30)
<1>3. ASSUME NEW p \in Pair, CallbackMwaits(p) PROVE P
  BY <1>3, MwaitQueue, SMTT(30)
<1>4. ASSUME CallbackReturns PROVE P
  BY <1>4, ReturnQueue, SMTT(30)
<1>5. ASSUME CallbackBegins PROVE P
  BY <1>5, BeginQueue, SMTT(30)
<1>6. ASSUME UNCHANGED <<queueVars, cur, retired>>, InCallback' = InCallback PROVE P
  BY <1>6, SameQueue, SMTT(30) DEF queueVars
<1>7. ASSUME usb_proc_create PROVE P
  <2>1. UNCHANGED <<queueVars, cur, retired>>
    BY <1>7, SMTT(30) DEF usb_proc_create, usb_os_task_creat, CreateFails, CreateReturns
  <2>2. InCallback' = InCallback
    BY <1>7 DEF usb_proc_create, usb_os_task_creat, CreateFails, CreateReturns, TypeOK,
       InCallback, OwnerInv
  <2> QED
    BY <1>6, <2>1, <2>2, SMTT(30)
<1>8. ASSUME cv_wait PROVE P
  <2> PICK t \in Caller \cup {Worker, Owner} : CvRead(t) \/ CvWake(t)
    BY <1>8, SMTT(30) DEF cv_wait
  <2>1. UNCHANGED <<queueVars, cur, retired>>
    BY SMTT(30) DEF CvRead, CvWake
  <2>2. InCallback' = InCallback
    BY SMTT(30) DEF CvRead, CvWake, InCallback, TypeOK
  <2> QED
    BY <1>6, <2>1, <2>2, SMTT(30)
<1>9. ASSUME DrainLoop PROVE P
  <2>1. UNCHANGED <<queueVars, cur, retired>>
    BY <1>9, SMTT(30) DEF DrainLoop
  <2>2. InCallback' = InCallback
    BY <1>9 DEF DrainLoop, InCallback, TypeOK
  <2> QED
    BY <1>6, <2>1, <2>2
<1>10. ASSUME NEW t \in Caller, NEW p, MwaitLoop(t, p) PROVE P
  <2>1. UNCHANGED <<queueVars, cur, retired>>
    BY <1>10, SMTT(30) DEF MwaitLoop
  <2>2. InCallback' = InCallback
    BY <1>10, SMTT(30) DEF MwaitLoop, InCallback, TypeOK
  <2> QED
    BY <1>6, <2>1, <2>2, SMTT(30)
<1>11. ASSUME NEW t \in Caller, usb_proc_rewakeup(t) PROVE P
  BY <1>6, <1>11, SMTT(30) DEF usb_proc_rewakeup, InCallback
<1>12. ASSUME NEW t \in Timer, TimerClearsMsleep(t) \/ TimerSignals(t) PROVE P
  <2>1. UNCHANGED <<queueVars, cur, retired>>
    BY <1>12, SMTT(30) DEF TimerClearsMsleep, TimerSignals
  <2>2. InCallback' = InCallback
    BY <1>12 DEF TimerClearsMsleep, TimerSignals, InCallback, TypeOK
  <2> QED
    BY <1>6, <2>1, <2>2, SMTT(30)
<1>13. ASSUME NEW t \in Timer, NEW p \in Pair, TimerFires(t, p) PROVE P
  <2>1. UNCHANGED <<queueVars, cur, retired>>
    BY <1>13, SMTT(30) DEF TimerFires
  <2>2. InCallback' = InCallback
    BY <1>13, SMTT(30) DEF TimerFires, InCallback, TypeOK
  <2> QED
    BY <1>6, <2>1, <2>2, SMTT(30)
<1>14. ASSUME \/ WorkerLocks \/ WorkerExits \/ QueueFoundEmpty \/ WorkerWaits
              \/ CallbackSleeps
       PROVE  P
  <2>1. UNCHANGED <<queueVars, cur, retired>>
    BY <1>14, SMTT(30) DEF WorkerLocks, WorkerExits, QueueFoundEmpty, WorkerWaits, CallbackSleeps
  <2>2. InCallback' = InCallback
    BY <1>14, SMTT(30) DEF WorkerLocks, WorkerExits, QueueFoundEmpty, WorkerWaits, CallbackSleeps,
       InCallback, TypeOK
  <2> QED
    BY <1>6, <2>1, <2>2
<1>15. ASSUME UNCHANGED vars PROVE P
  BY <1>6, <1>15, SMTT(30) DEF vars, queueVars, InCallback
<1> HIDE DEF P
<1>16. ASSUME usb_process_thread PROVE P
  BY <1>1, <1>3, <1>4, <1>5, <1>14, <1>16, SMTT(30) DEF usb_process_thread, CallbackSignals
<1>17. ASSUME \E t \in Caller, p \in Pair : usb_proc_msignal(t, p) \/ usb_proc_mwait(t, p)
       PROVE  P
  BY <1>1, <1>10, <1>17, SMTT(30) DEF usb_proc_msignal, usb_proc_mwait
<1>18. ASSUME \E t \in Caller : MwaitResumes(t) \/ usb_proc_rewakeup(t) PROVE P
  BY <1>10, <1>11, <1>18, SMTT(30) DEF MwaitResumes
<1>19. P
  BY <1>2, <1>7, <1>8, <1>9, <1>12, <1>13, <1>15, <1>16, <1>17, <1>18, SMTT(30)
     DEF Next, Finished, usb_proc_free, DrainResumes
<1> QED
  BY <1>19, SMTT(30) DEF P
=============================================================================
