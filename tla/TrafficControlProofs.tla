------------------------ MODULE TrafficControlProofs ------------------------
(***************************************************************************)
(* Theorems about TrafficControl, for every value of its constants.        *)
(*                                                                         *)
(* The bytes in a queue are a recursive sum and the counters of the queue  *)
(* limits wrap: the first two sections prove what appending to and taking  *)
(* from a queue does to the one, and what Queued and Completed do to the   *)
(* others.  DevOK is the invariant of the device; Awake adds why a wake    *)
(* callback is never missing.                                              *)
(***************************************************************************)
EXTENDS TrafficControl, TLAPS, WellFoundedInduction, SequenceTheorems

-----------------------------------------------------------------------------
(* Arithmetic *)

\* The remainder of a number at most one modulus away.
LEMMA ModIs ==
  ASSUME NEW M \in Nat \ {0}, NEW x \in Int
  PROVE  /\ x \in 0 .. M - 1 => x % M = x
         /\ x \in M .. 2 * M - 1 => x % M = x - M
         /\ x \in -M .. -1 => x % M = x + M
<1>1. x % M \in 0 .. M - 1 /\ x = (M * (x \div M)) + (x % M) /\ x \div M \in Int
  OBVIOUS
<1> DEFINE d == x \div M
<1>2. x \in 0 .. M - 1 => d = 0
  BY <1>1
<1>3. x \in M .. 2 * M - 1 => d = 1
  BY <1>1
<1>4. x \in -M .. -1 => d = -1
  BY <1>1
<1> QED
  BY <1>1, <1>2, <1>3, <1>4

LEMMA LeastNat ==
  ASSUME NEW T \in SUBSET Nat, T # {}
  PROVE  \E k \in T : \A j \in T : k <= j
<1>2. PICK k \in T : \A j \in T : <<j, k>> \notin OpToRel(<, Nat)
  BY WFMin, NatLessThanWellFounded, Zenon
<1>3. \A j \in T : ~(j < k)
  BY <1>2, Zenon DEF OpToRel
<1> QED
  BY <1>3

-----------------------------------------------------------------------------
(* The bytes in a queue *)

IsSum(f, q) == f = [i \in 0 .. Len(q) |-> IF i = 0 THEN 0 ELSE f[i - 1] + SizeInDevice(q[i])]
Sum(q) == CHOOSE f : IsSum(f, q)

LEMMA BytesInIsSum ==
  ASSUME NEW q
  PROVE BytesIn(q) = Sum(q)[Len(q)]
BY Zenon DEF BytesIn, Sum, IsSum

LEMMA SizeNat == ASSUME NEW q \in Seq(Queueable), NEW i \in 1 .. Len(q)
 PROVE SizeInDevice(q[i]) \in Nat \ {0}
<1>1. q[i] \in Queueable
  OBVIOUS
<1> QED
  BY <1>1, DeviceAssumption DEF Queueable, SizeInDevice

LEMMA SumExists ==
  ASSUME NEW q \in Seq(Queueable)
  PROVE  IsSum(Sum(q), q)
<1> DEFINE S(n, f) == \A i \in 0 .. n : f[i] = IF i = 0 THEN 0 ELSE f[i - 1] + SizeInDevice(q[i])
<1> DEFINE T == {n \in 0 .. Len(q) : ~ \E f \in [0 .. n -> Nat] : S(n, f)}
<1>1. T = {}
  <2>1. SUFFICES ASSUME T # {} PROVE FALSE
    OBVIOUS
  <2>a. T \in SUBSET Nat
    OBVIOUS
  <2>2. PICK n \in T : \A j \in T : n <= j
    <3> HIDE DEF T
    <3> QED
      BY <2>1, <2>a, LeastNat
  <2>3. CASE n = 0
    <3>1. [i \in 0 .. n |-> 0] \in [0 .. n -> Nat] /\ S(n, [i \in 0 .. n |-> 0])
      BY <2>3
    <3> QED
      BY <3>1, <2>2
  <2>4. CASE n # 0
    <3>1. n - 1 \in 0 .. Len(q) /\ n - 1 \notin T
      <4>1. n \in 0 .. Len(q)
        OBVIOUS
      <4> HIDE DEF T
      <4> QED
        BY <2>2, <2>4, <4>1
    <3>2. PICK g \in [0 .. n - 1 -> Nat] : S(n - 1, g)
      BY <3>1
    <3> DEFINE f == [i \in 0 .. n |-> IF i = n THEN g[n - 1] + SizeInDevice(q[n]) ELSE g[i]]
    <3>3. n \in 1 .. Len(q) /\ SizeInDevice(q[n]) \in Nat
      BY <2>2, <2>4, SizeNat
    <3>4. f \in [0 .. n -> Nat]
      BY <3>2, <3>3
    <3>5. S(n, f)
      BY <3>2, <3>3
    <3> QED
      BY <3>4, <3>5, <2>2
  <2> QED
    BY <2>3, <2>4
<1>2. PICK f \in [0 .. Len(q) -> Nat] : S(Len(q), f)
  <2>1. Len(q) \in 0 .. Len(q)
    OBVIOUS
  <2> QED
    BY <1>1, <2>1
<1>3. f = [i \in 0 .. Len(q) |-> IF i = 0 THEN 0 ELSE f[i - 1] + SizeInDevice(q[i])]
  BY <1>2
<1>4. IsSum(f, q)
  BY <1>3, Zenon DEF IsSum
<1> QED
  BY <1>4, Zenon DEF Sum

\* Induction up to n, on the set of the numbers that have a property.
LEMMA SetInduction ==
  ASSUME NEW n \in Nat, NEW G, 0 \in G,
         \A i \in 0 .. n - 1 : i \in G => i + 1 \in G
  PROVE  0 .. n \subseteq G
<1> DEFINE T == {i \in 0 .. n : i \notin G}
<1>1. T \in SUBSET Nat
  OBVIOUS
<1>2. SUFFICES ASSUME T # {} PROVE FALSE
  OBVIOUS
<1>3. PICK k \in T : \A j \in T : k <= j
  <2> HIDE DEF T
  <2> QED
    BY <1>1, <1>2, LeastNat
<1>4. k \in 1 .. n /\ k - 1 \notin T
  BY <1>3
<1> QED
  BY <1>3, <1>4

\* The equations of the recursive sum.
LEMMA SumValues ==
  ASSUME NEW q \in Seq(Queueable)
  PROVE  /\ Sum(q)[0] = 0
         /\ \A i \in 1 .. Len(q) : Sum(q)[i] = Sum(q)[i - 1] + SizeInDevice(q[i])
<1> DEFINE f == Sum(q)
<1>1. f = [i \in 0 .. Len(q) |-> IF i = 0 THEN 0 ELSE f[i - 1] + SizeInDevice(q[i])]
  BY SumExists, Zenon DEF IsSum
<1>2. Len(q) \in Nat
  OBVIOUS
<1> HIDE DEF f
<1>3. f[0] = 0 /\ \A i \in 1 .. Len(q) : f[i] = f[i - 1] + SizeInDevice(q[i])
  BY <1>1, <1>2
<1> QED
  BY <1>3 DEF f

LEMMA SumNat ==
  ASSUME NEW q \in Seq(Queueable)
  PROVE  \A i \in 0 .. Len(q) : Sum(q)[i] \in Nat
<1> DEFINE G == {i \in 0 .. Len(q) : Sum(q)[i] \in Nat}
<1>1. 0 \in G
  BY SumValues
<1>2. \A i \in 0 .. Len(q) - 1 : i \in G => i + 1 \in G
  <2>1. ASSUME NEW i \in 0 .. Len(q) - 1, i \in G PROVE i + 1 \in G
    <3>1. i + 1 \in 1 .. Len(q) /\ (i + 1) - 1 = i
      OBVIOUS
    <3>2. Sum(q)[i + 1] = Sum(q)[i] + SizeInDevice(q[i + 1])
      BY <3>1, SumValues
    <3> QED
      BY <2>1, <3>1, <3>2, SizeNat
  <2> QED
    BY <2>1
<1>3. Len(q) \in Nat
  OBVIOUS
<1>4. 0 .. Len(q) \subseteq G
  <2> HIDE DEF G
  <2> QED
    BY <1>1, <1>2, <1>3, SetInduction
<1> QED
  BY <1>4

LEMMA BytesOfEmpty == BytesIn(<<>>) = 0
<1>1. <<>> \in Seq(Queueable) /\ Len(<<>>) = 0
  OBVIOUS
<1> QED
  BY <1>1, SumValues, BytesInIsSum

LEMMA BytesNat ==
  ASSUME NEW q \in Seq(Queueable)
  PROVE  BytesIn(q) \in Nat
<1>1. Len(q) \in 0 .. Len(q)
  OBVIOUS
<1> QED
  BY <1>1, SumNat, BytesInIsSum

LEMMA BytesAppend ==
  ASSUME NEW q \in Seq(Queueable), NEW pkt \in Queueable
  PROVE  BytesIn(Append(q, pkt)) = BytesIn(q) + SizeInDevice(pkt)
<1> DEFINE r == Append(q, pkt)
           n == Len(q)
           G == {i \in 0 .. n : Sum(r)[i] = Sum(q)[i]}
<1>1. r \in Seq(Queueable) /\ n \in Nat /\ Len(r) = n + 1
  OBVIOUS
<1>2. r[n + 1] = pkt /\ \A i \in 1 .. n : r[i] = q[i]
  OBVIOUS
<1> HIDE DEF r
<1>3. 0 \in G
  BY <1>1, SumValues
<1>4. \A i \in 0 .. n - 1 : i \in G => i + 1 \in G
  <2>1. ASSUME NEW i \in 0 .. n - 1, i \in G PROVE i + 1 \in G
    <3>1. i + 1 \in 1 .. n /\ i + 1 \in 1 .. Len(r) /\ (i + 1) - 1 = i
      BY <1>1
    <3>2. Sum(q)[i + 1] = Sum(q)[i] + SizeInDevice(q[i + 1])
      BY <3>1, SumValues
    <3>3. Sum(r)[i + 1] = Sum(r)[i] + SizeInDevice(r[i + 1])
      BY <1>1, <3>1, SumValues
    <3> QED
      BY <2>1, <3>1, <3>2, <3>3, <1>2
  <2> QED
    BY <2>1
<1>5. 0 .. n \subseteq G
  <2> HIDE DEF G, n
  <2> QED
    BY <1>1, <1>3, <1>4, SetInduction
<1>6. Sum(r)[n] = Sum(q)[n]
  BY <1>1, <1>5
<1>7. Sum(r)[n + 1] = Sum(r)[n] + SizeInDevice(pkt)
  <2>1. n + 1 \in 1 .. Len(r) /\ (n + 1) - 1 = n
    BY <1>1
  <2> QED
    BY <1>1, <1>2, <2>1, SumValues
<1>8. BytesIn(r) = Sum(r)[n + 1] /\ BytesIn(q) = Sum(q)[n]
  BY <1>1, BytesInIsSum
<1> QED
  BY <1>6, <1>7, <1>8 DEF r

LEMMA BytesHead ==
  ASSUME NEW q \in Seq(Queueable), q # <<>>
  PROVE  /\ Tail(q) \in Seq(Queueable) /\ Head(q) \in Queueable
         /\ BytesIn(q) = BytesIn(Tail(q)) + SizeInDevice(Head(q))
<1> DEFINE r == Tail(q)
           n == Len(r)
           s == SizeInDevice(Head(q))
           G == {i \in 0 .. n : Sum(q)[i + 1] = Sum(r)[i] + s}
<1>1. r \in Seq(Queueable) /\ n \in Nat /\ Len(q) = n + 1 /\ Head(q) \in Queueable
  OBVIOUS
<1>2. q[1] = Head(q) /\ \A i \in 1 .. n : r[i] = q[i + 1]
  OBVIOUS
<1>s. s \in Nat
  BY <1>1, DeviceAssumption DEF Queueable, SizeInDevice
<1> HIDE DEF r
<1>3. 0 \in G
  <2>1. 1 \in 1 .. Len(q) /\ 1 - 1 = 0
    BY <1>1
  <2>2. Sum(q)[1] = Sum(q)[0] + s
    BY <2>1, <1>2, SumValues
  <2> QED
    BY <1>1, <1>s, <2>2, SumValues
<1>4. \A i \in 0 .. n - 1 : i \in G => i + 1 \in G
  <2>1. ASSUME NEW i \in 0 .. n - 1, i \in G PROVE i + 1 \in G
    <3>1. /\ i + 1 \in 1 .. n /\ (i + 1) - 1 = i
          /\ (i + 1) + 1 \in 1 .. Len(q) /\ ((i + 1) + 1) - 1 = i + 1
      BY <1>1
    <3>2. Sum(r)[i + 1] = Sum(r)[i] + SizeInDevice(r[i + 1])
      BY <1>1, <3>1, SumValues
    <3>3. Sum(q)[(i + 1) + 1] = Sum(q)[i + 1] + SizeInDevice(q[(i + 1) + 1])
      BY <1>1, <3>1, SumValues
    <3>4. SizeInDevice(r[i + 1]) \in Nat /\ Sum(r)[i] \in Nat
      BY <1>1, <3>1, SizeNat, SumNat
    <3> QED
      BY <2>1, <3>1, <3>2, <3>3, <3>4, <1>2, <1>s
  <2> QED
    BY <2>1
<1>5. 0 .. n \subseteq G
  <2> HIDE DEF G, n
  <2> QED
    BY <1>1, <1>3, <1>4, SetInduction
<1>6. Sum(q)[n + 1] = Sum(r)[n] + s
  BY <1>1, <1>5
<1>8. BytesIn(r) = Sum(r)[n] /\ BytesIn(q) = Sum(q)[n + 1]
  BY <1>1, BytesInIsSum
<1> QED
  BY <1>1, <1>6, <1>8 DEF r

-----------------------------------------------------------------------------
(* The queue limits *)

\* What the counters are, read without their wraps.
LEMMA WrapIs ==
  ASSUME NEW x \in -Modulus .. 2 * Modulus - 1
  PROVE  /\ Wrap(x) \in Word
         /\ Wrap(x) = IF x < 0 THEN x + Modulus ELSE IF x < Modulus THEN x ELSE x - Modulus
<1>1. x \in Int
  BY ModulusAssumption
<1>2. /\ x \in 0 .. Modulus - 1 => x % Modulus = x
      /\ x \in Modulus .. 2 * Modulus - 1 => x % Modulus = x - Modulus
      /\ x \in -Modulus .. -1 => x % Modulus = x + Modulus
  BY <1>1, ModIs, ModulusAssumption
<1> DEFINE y == x % Modulus
<1> HIDE DEF y
<1>3. y = IF x < 0 THEN x + Modulus ELSE IF x < Modulus THEN x ELSE x - Modulus
  BY <1>1, <1>2, ModulusAssumption DEF y
<1>4. y \in Word
  BY <1>1, <1>3, ModulusAssumption DEF Word
<1> QED
  BY <1>3, <1>4 DEF Wrap, y

LEMMA WrapWord ==
  ASSUME NEW x \in Int
  PROVE  Wrap(x) \in Word
BY ModulusAssumption DEF Wrap, Word

LEMMA PosdiffWord ==
  ASSUME NEW a \in Word, NEW b \in Word, NEW wraps \in BOOLEAN
  PROVE  Posdiff(a, b, wraps) \in Word
<1> DEFINE d == Signed(a) - Signed(b)
<1>1. d \in Int /\ d < Modulus
  BY ModulusAssumption DEF Word, Signed
<1>2. Wrap(d) \in Word
  BY <1>1, WrapWord
<1> HIDE DEF d
<1>3. Signed(Wrap(d)) \in Int /\ Signed(Wrap(d)) < Modulus
  BY <1>2, ModulusAssumption DEF Word, Signed
<1>4. Larger(d, 0) \in Word /\ Larger(Signed(Wrap(d)), 0) \in Word
  BY <1>1, <1>3, ModulusAssumption DEF Word, Larger
<1> QED
  BY <1>4 DEF Posdiff, d

\* The counters describe n bytes in progress and the limit set last.
Accounts(dql, n) ==
  /\ dql \in Limits
  /\ dql.limit <= MaxLimit
  /\ InProgress(dql) = n
  /\ dql.adjLimit = Wrap(dql.limit + dql.numCompleted)

LEMMA ResetAccounts == Accounts(Reset, 0)
<1>1. 0 \in Word /\ Modulus - 1 \in Word
  BY ModulusAssumption DEF Word
<1>2. Wrap(0) = 0
  BY WrapIs, ModulusAssumption
<1> QED
  BY <1>1, <1>2, LimitAssumption DEF Accounts, Reset, Limits, InProgress

LEMMA QueuedAccounts ==
  ASSUME NEW dql, NEW n \in Nat, NEW c \in Nat, Accounts(dql, n), n + c < Modulus
  PROVE  Accounts(Queued(dql, c), n + c)
<1> DEFINE r == Queued(dql, c)
           q == Wrap(dql.numQueued + c)
<1>1. dql \in Limits /\ c \in Word
  BY ModulusAssumption DEF Accounts, Word
<1>2. q \in Word
  <2>1. dql.numQueued + c \in Int
    BY <1>1, ModulusAssumption DEF Limits, Word
  <2> QED
    BY <2>1, WrapWord
<1>3. Wrap(q - dql.numCompleted) = n + c
  <2>1. dql.numQueued \in 0 .. Modulus - 1 /\ dql.numCompleted \in 0 .. Modulus - 1
    BY <1>1 DEF Limits, Word
  <2>2. n = IF dql.numQueued < dql.numCompleted THEN dql.numQueued - dql.numCompleted + Modulus
            ELSE dql.numQueued - dql.numCompleted
    <3>1. dql.numQueued - dql.numCompleted \in -Modulus .. 2 * Modulus - 1
      BY <2>1, ModulusAssumption
    <3>2. n = Wrap(dql.numQueued - dql.numCompleted)
      BY DEF Accounts, InProgress
    <3> QED
      BY <3>1, <3>2, <2>1, WrapIs, ModulusAssumption
  <2>3. dql.numQueued + c \in -Modulus .. 2 * Modulus - 1
    BY <2>1, <1>1, ModulusAssumption DEF Word
  <2>4. q = IF dql.numQueued + c < Modulus THEN dql.numQueued + c ELSE dql.numQueued + c - Modulus
    BY <2>1, <2>3, <1>1, WrapIs, ModulusAssumption
  <2>5. q - dql.numCompleted \in -Modulus .. 2 * Modulus - 1
    BY <2>1, <1>2, ModulusAssumption DEF Word
  <2> HIDE DEF q
  <2>6. Wrap(q - dql.numCompleted)
          = IF q < dql.numCompleted THEN q - dql.numCompleted + Modulus ELSE q - dql.numCompleted
    BY <2>1, <2>5, <1>2, WrapIs, ModulusAssumption DEF Word
  <2> QED
    BY <2>1, <2>2, <2>4, <2>6, ModulusAssumption
<1> HIDE DEF q
<1>4. r = [dql EXCEPT !.lastObjCnt = c, !.numQueued = q]
  BY DEF Queued, q
<1>5. /\ r \in Limits /\ r.numQueued = q
      /\ r.limit = dql.limit /\ r.adjLimit = dql.adjLimit /\ r.numCompleted = dql.numCompleted
  BY <1>1, <1>2, <1>4 DEF Limits
<1> HIDE DEF r
<1> QED
  BY <1>3, <1>5 DEF Accounts, InProgress, r

LEMMA CompletedAccounts ==
  ASSUME NEW dql, NEW n \in Nat, NEW c \in Nat, Accounts(dql, n), c <= n, n < Modulus,
         NEW elapsed \in BOOLEAN, NEW wraps \in BOOLEAN
  PROVE  Accounts(Completed(dql, c, elapsed, wraps), n - c)
<1> DEFINE completed == Wrap(dql.numCompleted + c)
           over == Posdiff(InProgress(dql), dql.limit, wraps)
           inprogress == Wrap(dql.numQueued - completed)
           prevInprogress == Wrap(dql.prevNumQueued - dql.numCompleted)
           allPrevCompleted == Signed(Wrap(completed - dql.prevNumQueued)) >= 0
           starved == \/ over # 0 /\ inprogress = 0
                      \/ dql.prevOvlimit # 0 /\ allPrevCompleted
           busy == inprogress # 0 /\ prevInprogress # 0 /\ ~allPrevCompleted
           slackLastObjs == IF dql.prevOvlimit # 0
                            THEN Posdiff(dql.prevLastObjCnt, dql.prevOvlimit, wraps) ELSE 0
           slack == Larger(Posdiff(Wrap(dql.limit + dql.prevOvlimit),
                                   Wrap(2 * (completed - dql.numCompleted)), wraps),
                           slackLastObjs)
           lowest == Smaller(slack, dql.lowestSlack)
           grown == Wrap(dql.limit + Posdiff(completed, dql.prevNumQueued, wraps)
                           + dql.prevOvlimit)
           shrunk == Posdiff(dql.limit, lowest, wraps)
           wanted == IF starved THEN grown
                     ELSE IF busy /\ elapsed THEN shrunk
                     ELSE dql.limit
           limit == Smaller(Larger(wanted, MinLimit), MaxLimit)
           ovlimit == IF limit # dql.limit THEN 0 ELSE over
           kept == IF starved \/ (busy /\ elapsed) THEN Modulus - 1
                   ELSE IF busy THEN lowest ELSE dql.lowestSlack
           adj == Wrap(limit + completed)
           r == [dql EXCEPT !.limit = limit,
                            !.adjLimit = adj,
                            !.prevOvlimit = ovlimit,
                            !.prevLastObjCnt = dql.lastObjCnt,
                            !.numCompleted = completed,
                            !.prevNumQueued = dql.numQueued,
                            !.lowestSlack = kept]
<1>1. r = Completed(dql, c, elapsed, wraps)
  BY DEF Completed
<1>2. dql \in Limits /\ 0 \in Word /\ Modulus - 1 \in Word /\ c \in Word
  BY ModulusAssumption DEF Accounts, Word
<1>3. completed \in Word
  <2>1. dql.numCompleted + c \in Int
    BY <1>2 DEF Limits, Word
  <2> QED
    BY <2>1, WrapWord
<1>4. over \in Word
  <2>1. InProgress(dql) \in Word
    BY ModulusAssumption DEF Accounts, Word
  <2>2. dql.limit \in Word
    BY <1>2 DEF Limits
  <2> QED
    BY <2>1, <2>2, PosdiffWord
<1>5. lowest \in Word
  <2>1. slackLastObjs \in Word
    BY <1>2, PosdiffWord DEF Limits
  <2>2. Wrap(dql.limit + dql.prevOvlimit) \in Word
    <3>1. dql.limit + dql.prevOvlimit \in Int
      BY <1>2 DEF Limits, Word
    <3> QED
      BY <3>1, WrapWord
  <2>3. Wrap(2 * (completed - dql.numCompleted)) \in Word
    <3> HIDE DEF completed
    <3>1. 2 * (completed - dql.numCompleted) \in Int
      BY <1>2, <1>3 DEF Limits, Word
    <3> QED
      BY <3>1, WrapWord
  <2> DEFINE p == Posdiff(Wrap(dql.limit + dql.prevOvlimit),
                          Wrap(2 * (completed - dql.numCompleted)), wraps)
  <2>4. p \in Word
    BY <2>2, <2>3, PosdiffWord
  <2> HIDE DEF p, slackLastObjs
  <2>5. slack \in Word
    BY <2>1, <2>4 DEF Larger, p
  <2> HIDE DEF slack
  <2> QED
    BY <2>5, <1>2 DEF Smaller, Limits
<1>6. wanted \in Word
  <2>1. grown \in Word
    <3> DEFINE p == Posdiff(completed, dql.prevNumQueued, wraps)
    <3> HIDE DEF completed
    <3>1. p \in Word
      BY <1>2, <1>3, PosdiffWord DEF Limits
    <3> HIDE DEF p
    <3>2. dql.limit + p + dql.prevOvlimit \in Int
      BY <1>2, <3>1 DEF Limits, Word
    <3> QED
      BY <3>2, WrapWord DEF p
  <2>2. shrunk \in Word
    <3> HIDE DEF lowest
    <3> QED
      BY <1>2, <1>5, PosdiffWord DEF Limits
  <2>3. dql.limit \in Word
    BY <1>2 DEF Limits
  <2> HIDE DEF grown, shrunk, starved, busy
  <2> QED
    BY <2>1, <2>2, <2>3
<1>7. limit \in Word /\ limit <= MaxLimit
  <2> HIDE DEF wanted
  <2> QED
    BY <1>6, LimitAssumption, ModulusAssumption DEF Larger, Smaller, Word
<1>8. ovlimit \in Word /\ kept \in Word
  <2> HIDE DEF limit, over, lowest, starved, busy
  <2> QED
    BY <1>2, <1>4, <1>5 DEF Limits
<1>9. adj \in Word
  <2> HIDE DEF limit, completed
  <2>1. limit + completed \in Int
    BY <1>3, <1>7 DEF Word
  <2> QED
    BY <2>1, WrapWord
<1>10. Wrap(dql.numQueued - completed) = n - c
  <2>1. dql.numQueued \in 0 .. Modulus - 1 /\ dql.numCompleted \in 0 .. Modulus - 1
    BY <1>2 DEF Limits, Word
  <2>2. n = IF dql.numQueued < dql.numCompleted THEN dql.numQueued - dql.numCompleted + Modulus
            ELSE dql.numQueued - dql.numCompleted
    <3>1. dql.numQueued - dql.numCompleted \in -Modulus .. 2 * Modulus - 1
      BY <2>1, ModulusAssumption
    <3>2. n = Wrap(dql.numQueued - dql.numCompleted)
      BY DEF Accounts, InProgress
    <3> QED
      BY <3>1, <3>2, <2>1, WrapIs, ModulusAssumption
  <2>3. dql.numCompleted + c \in -Modulus .. 2 * Modulus - 1
    BY <2>1, <1>2, ModulusAssumption DEF Word
  <2>4. completed = IF dql.numCompleted + c < Modulus THEN dql.numCompleted + c
                    ELSE dql.numCompleted + c - Modulus
    BY <2>1, <2>3, <1>2, WrapIs, ModulusAssumption
  <2>5. dql.numQueued - completed \in -Modulus .. 2 * Modulus - 1
    BY <2>1, <1>3, ModulusAssumption DEF Word
  <2> HIDE DEF completed
  <2>6. Wrap(dql.numQueued - completed)
          = IF dql.numQueued < completed THEN dql.numQueued - completed + Modulus
            ELSE dql.numQueued - completed
    BY <2>1, <2>5, <1>3, WrapIs, ModulusAssumption DEF Word
  <2> QED
    BY <2>1, <2>2, <2>4, <2>6, ModulusAssumption
<1> HIDE DEF limit, adj, ovlimit, completed, kept
<1>11. /\ r \in Limits /\ r.numQueued = dql.numQueued
       /\ r.limit = limit /\ r.adjLimit = adj /\ r.numCompleted = completed
  BY <1>2, <1>3, <1>7, <1>8, <1>9 DEF Limits
<1> HIDE DEF r
<1>12. Accounts(r, n - c)
  BY <1>7, <1>10, <1>11 DEF Accounts, InProgress, adj
<1> QED
  BY <1>1, <1>12

\* The limits are not overdrawn by an empty queue.
LEMMA EmptyIsAvailable ==
  ASSUME NEW dql, Accounts(dql, 0)
  PROVE  Available(dql) >= 0
<1>1. /\ dql.numQueued \in 0 .. Modulus - 1 /\ dql.numCompleted \in 0 .. Modulus - 1
      /\ dql.limit \in 0 .. MaxLimit /\ MaxLimit \in Nat /\ Modulus \in Nat
      /\ 2 * MaxLimit < Modulus
  BY LimitAssumption, ModulusAssumption DEF Accounts, Limits, Word
<1>2. dql.numQueued = dql.numCompleted
  <2>1. dql.numQueued - dql.numCompleted \in -Modulus .. 2 * Modulus - 1
    BY <1>1
  <2>2. Wrap(dql.numQueued - dql.numCompleted) = 0
    BY DEF Accounts, InProgress
  <2> QED
    BY <1>1, <2>1, <2>2, WrapIs
<1>3. Wrap(dql.adjLimit - dql.numQueued) = dql.limit
  <2>1. dql.limit + dql.numCompleted \in -Modulus .. 2 * Modulus - 1
    BY <1>1
  <2>2. dql.adjLimit = IF dql.limit + dql.numCompleted < Modulus
                       THEN dql.limit + dql.numCompleted
                       ELSE dql.limit + dql.numCompleted - Modulus
    BY <1>1, <2>1, WrapIs DEF Accounts
  <2>3. dql.adjLimit - dql.numQueued \in -Modulus .. 2 * Modulus - 1
    BY <1>1, <2>2
  <2> QED
    BY <1>1, <1>2, <2>2, <2>3, WrapIs
<1> QED
  BY <1>1, <1>3 DEF Available, Signed

-----------------------------------------------------------------------------
(* The device *)

Devices == [q: Seq(Queueable), byDevice: BOOLEAN, byLimits: BOOLEAN, dql: Limits]

\* A device queue that describes what it holds and stops when it should.
DevOK(d) ==
  /\ d \in Devices
  /\ BytesIn(d.q) <= DevMax
  /\ Limited => Accounts(d.dql, BytesIn(d.q))
  /\ d.byLimits => Limited /\ Available(d.dql) < 0
  /\ BytesIn(d.q) + Mtu > DevMax => d.byDevice
  /\ d.byDevice => BytesIn(d.q) + Mtu + Header > DevMax

LEMMA SizeBounds ==
  ASSUME NEW pkt \in Queueable
  PROVE  /\ SizeInDevice(pkt) \in Nat
         /\ MinSize + Header <= SizeInDevice(pkt) /\ SizeInDevice(pkt) <= Mtu + Header
         /\ pkt.size <= Mtu /\ SizeInDevice(pkt) = pkt.size + Header
BY DeviceAssumption DEF Queueable, SizeInDevice

LEMMA AvailableInt ==
  ASSUME NEW dql \in Limits
  PROVE  Available(dql) \in Int
<1>1. dql.adjLimit - dql.numQueued \in Int
  BY DEF Limits, Word
<1>2. Wrap(dql.adjLimit - dql.numQueued) \in Word
  BY <1>1, WrapWord
<1> QED
  BY <1>2, ModulusAssumption DEF Available, Signed, Word

LEMMA StoppedHolds ==
  ASSUME NEW d, DevOK(d), IsStopped(d)
  PROVE  d.q # <<>>
<1>1. SUFFICES ASSUME d.q = <<>> PROVE FALSE
  OBVIOUS
<1>2. BytesIn(d.q) = 0
  BY <1>1, BytesOfEmpty
<1>3. ~d.byDevice
  BY <1>2, DeviceAssumption DEF DevOK
<1>4. ~d.byLimits
  <2>1. SUFFICES ASSUME d.byLimits PROVE FALSE
    OBVIOUS
  <2>2. Accounts(d.dql, 0) /\ Available(d.dql) < 0
    BY <1>2, <2>1 DEF DevOK
  <2>3. Available(d.dql) >= 0
    BY <2>2, EmptyIsAvailable
  <2>4. Available(d.dql) \in Int
    BY <2>2, AvailableInt DEF Accounts
  <2> QED
    BY <2>2, <2>3, <2>4
<1> QED
  BY <1>3, <1>4 DEF IsStopped

\* What NetDeviceQueue::PacketEnqueued and PacketDequeued keep.
LEMMA PacketEnqueuedOK ==
  ASSUME NEW d, DevOK(d), ~IsStopped(d), NEW pkt \in Queueable,
         BytesIn(d.q) + SizeInDevice(pkt) <= DevMax
  PROVE  LET e == PacketEnqueued([d EXCEPT !.q = Append(@, pkt)], pkt)
         IN  /\ DevOK(e)
             /\ e.q = Append(d.q, pkt)
             /\ BytesIn(e.q) = BytesIn(d.q) + SizeInDevice(pkt)
<1> DEFINE q == Append(d.q, pkt)
           e0 == [d EXCEPT !.q = q]
           e == PacketEnqueued(e0, pkt)
           dql == IF Limited THEN Queued(d.dql, SizeInDevice(pkt)) ELSE d.dql
           over == Limited /\ Available(dql) < 0
           full == BytesIn(q) + Mtu > DevMax
<1>1. d \in Devices /\ d.byDevice = FALSE /\ d.byLimits = FALSE
  BY DEF DevOK, IsStopped, Devices
<1>2. q \in Seq(Queueable) /\ BytesIn(q) = BytesIn(d.q) + SizeInDevice(pkt)
      /\ BytesIn(d.q) \in Nat
  <2>1. d.q \in Seq(Queueable)
    BY <1>1 DEF Devices
  <2> QED
    BY <2>1, BytesAppend, BytesNat
<1>3. (Limited => Accounts(dql, BytesIn(q))) /\ dql \in Limits
  <2>1. CASE Limited
    <3>1. Accounts(d.dql, BytesIn(d.q)) /\ SizeInDevice(pkt) \in Nat
      BY <2>1, SizeBounds DEF DevOK
    <3>2. BytesIn(d.q) + SizeInDevice(pkt) < Modulus
      BY <1>2, <3>1, DeviceAssumption, ModulusAssumption
    <3>3. Accounts(Queued(d.dql, SizeInDevice(pkt)), BytesIn(d.q) + SizeInDevice(pkt))
      BY <1>2, <3>1, <3>2, QueuedAccounts
    <3> QED
      BY <2>1, <1>2, <3>3 DEF Accounts
  <2>2. CASE ~Limited
    BY <2>2, <1>1 DEF Devices
  <2> QED
    BY <2>1, <2>2
<1>4. over \in BOOLEAN /\ full \in BOOLEAN
  BY DeviceAssumption
<1>5. e = [e0 EXCEPT !.dql = dql, !.byLimits = @ \/ over, !.byDevice = @ \/ full]
  BY <1>1 DEF PacketEnqueued, Devices
<1> HIDE DEF dql, over, full, q, e
<1>6. e \in Devices /\ e.q = q /\ e.dql = dql /\ e.byLimits = over /\ e.byDevice = full
  BY <1>1, <1>2, <1>3, <1>4, <1>5, Zenon DEF Devices
<1>7. DevOK(e)
  <2>1. BytesIn(e.q) <= DevMax /\ BytesIn(e.q) \in Nat
    BY <1>2, <1>6, SizeBounds
  <2>2. e.byLimits => Limited /\ Available(e.dql) < 0
    BY <1>6 DEF over
  <2>3. e.byDevice <=> BytesIn(e.q) + Mtu > DevMax
    BY <1>6 DEF full
  <2>4. Limited => Accounts(e.dql, BytesIn(e.q))
    BY <1>3, <1>6
  <2> QED
    BY <1>6, <2>1, <2>2, <2>3, <2>4, DeviceAssumption DEF DevOK
<1> QED
  BY <1>2, <1>6, <1>7 DEF e, q

LEMMA PacketDequeuedOK ==
  ASSUME NEW d, DevOK(d), d.q # <<>>, NEW elapsed \in BOOLEAN, NEW wraps \in BOOLEAN
  PROVE  LET left == PacketDequeued([d EXCEPT !.q = Tail(@)], Head(d.q), elapsed, wraps)
         IN  /\ DevOK(left.dev)
             /\ left.dev.q = Tail(d.q) /\ Head(d.q) \in Queueable
             /\ BytesIn(d.q) = BytesIn(left.dev.q) + SizeInDevice(Head(d.q))
             /\ left.wakes \in 0 .. 2
             /\ IsStopped(d) => IsStopped(left.dev) \/ left.wakes > 0
             /\ ~Limited /\ left.wakes > 0 => d.byDevice
<1> DEFINE q == Tail(d.q)
           pkt == Head(d.q)
           e0 == [d EXCEPT !.q = q]
           left == PacketDequeued(e0, pkt, elapsed, wraps)
           dql == IF Limited THEN Completed(d.dql, SizeInDevice(pkt), elapsed, wraps)
                  ELSE d.dql
           freed == Limited /\ Available(dql) >= 0
           room == BytesIn(q) + Mtu <= DevMax
           e == [e0 EXCEPT !.dql = dql, !.byLimits = @ /\ ~freed, !.byDevice = @ /\ ~room]
           w == (IF d.byLimits /\ freed THEN 1 ELSE 0) + (IF d.byDevice /\ room THEN 1 ELSE 0)
<1>1. d \in Devices /\ d.q \in Seq(Queueable) /\ d.byDevice \in BOOLEAN /\ d.byLimits \in BOOLEAN
  BY DEF DevOK, Devices
<1>2. /\ q \in Seq(Queueable) /\ pkt \in Queueable
      /\ BytesIn(d.q) = BytesIn(q) + SizeInDevice(pkt)
      /\ BytesIn(q) \in Nat /\ BytesIn(d.q) \in Nat
  BY <1>1, BytesHead, BytesNat
<1>s. SizeInDevice(pkt) \in Nat /\ SizeInDevice(pkt) <= Mtu + Header
  BY <1>2, SizeBounds
<1>3. (Limited => Accounts(dql, BytesIn(q))) /\ dql \in Limits
  <2>1. CASE Limited
    <3>1. Accounts(d.dql, BytesIn(d.q)) /\ BytesIn(d.q) <= DevMax
      BY <2>1 DEF DevOK
    <3>2. BytesIn(d.q) < Modulus /\ SizeInDevice(pkt) <= BytesIn(d.q)
      BY <1>2, <1>s, <3>1, DeviceAssumption, ModulusAssumption
    <3>3. Accounts(Completed(d.dql, SizeInDevice(pkt), elapsed, wraps),
                   BytesIn(d.q) - SizeInDevice(pkt))
      BY <1>2, <1>s, <3>1, <3>2, CompletedAccounts
    <3>4. BytesIn(d.q) - SizeInDevice(pkt) = BytesIn(q)
      BY <1>2, <1>s
    <3> QED
      BY <2>1, <3>3, <3>4 DEF Accounts
  <2>2. CASE ~Limited
    BY <2>2, <1>1 DEF Devices
  <2> QED
    BY <2>1, <2>2
<1>4. freed \in BOOLEAN /\ room \in BOOLEAN
  BY DeviceAssumption
<1>5. left.dev = e /\ left.wakes = w
  <2>1. left = [dev |-> e, wakes |-> w]
    BY <1>1 DEF PacketDequeued, Devices
  <2> QED
    BY <2>1
<1>a. freed => Available(dql) >= 0 
  OBVIOUS
<1>b. Limited /\ ~freed => Available(dql) < 0
  <2>1. Available(dql) \in Int
    BY <1>3, AvailableInt
  <2> QED
    BY <2>1
<1>c. (d.byLimits => Limited) /\ BytesIn(d.q) <= DevMax
      /\ (d.byDevice => BytesIn(d.q) + Mtu + Header > DevMax)
      /\ (BytesIn(d.q) + Mtu > DevMax => d.byDevice)
  BY DEF DevOK
<1>d. (room => BytesIn(q) + Mtu <= DevMax) /\ (~room => BytesIn(q) + Mtu > DevMax)
  BY <1>2, DeviceAssumption
<1> HIDE DEF dql, freed, room, q, e, pkt, left
<1>6. /\ e \in Devices /\ e.q = q /\ e.dql = dql
      /\ e.byLimits = (d.byLimits /\ ~freed) /\ e.byDevice = (d.byDevice /\ ~room)
  BY <1>1, <1>2, <1>3, <1>4, Zenon DEF Devices, e
<1>7. DevOK(e)
  <2>1. BytesIn(e.q) <= DevMax
    BY <1>2, <1>s, <1>6, <1>c, DeviceAssumption
  <2>2. e.byLimits => Limited /\ Available(e.dql) < 0
    BY <1>6, <1>b, <1>c
  <2>3. BytesIn(e.q) + Mtu > DevMax => e.byDevice
    <3>1. BytesIn(q) + Mtu > DevMax => BytesIn(d.q) + Mtu > DevMax /\ ~(BytesIn(q) + Mtu <= DevMax)
      BY <1>2, <1>s, DeviceAssumption
    <3> QED
      BY <1>6, <1>c, <1>d, <3>1, Zenon
  <2>4. e.byDevice => BytesIn(e.q) + Mtu + Header > DevMax
    <3>1. BytesIn(q) + Mtu > DevMax => BytesIn(q) + Mtu + Header > DevMax
      BY <1>2, DeviceAssumption
    <3> QED
      BY <1>6, <1>d, <3>1, Zenon
  <2>5. Limited => Accounts(e.dql, BytesIn(e.q))
    BY <1>3, <1>6
  <2> QED
    BY <1>6, <2>1, <2>2, <2>3, <2>4, <2>5 DEF DevOK
<1>8. w \in 0 .. 2
  OBVIOUS
<1>9. IsStopped(d) => IsStopped(e) \/ w > 0
  <2>1. (d.byLimits /\ freed => w > 0) /\ (d.byDevice /\ room => w > 0)
    OBVIOUS
  <2> HIDE DEF w
  <2> QED
    BY <1>6, <2>1, Zenon DEF IsStopped
<1>10. ~Limited /\ w > 0 => d.byDevice
  BY <1>c
<1> QED
  BY <1>2, <1>5, <1>6, <1>7, <1>8, <1>9, <1>10 DEF q, pkt, left

-----------------------------------------------------------------------------
(* The disc, and the steps *)

Discs == [q: Seq(Queueable), count: 0 .. CountCap, old: BOOLEAN]
DiscOK(d) == d \in Discs /\ Len(d.q) <= MaxSize

LEMMA CountCapPositive == CountCap \in Nat /\ CountCap >= 1
<1>1. \A a, b \in Nat \ {0} : a * b \in Nat \ {0}
  OBVIOUS
<1>2. ThDiff \in Nat \ {0}
  BY ThresholdAssumption DEF ThDiff
<1>3. Whole \in Nat \ {0}
  <2>1. LInterm * MaxTh \in Nat \ {0}
    BY <1>1, ThresholdAssumption
  <2> QED
    BY <1>1, <1>2, <2>1 DEF Whole
<1> QED
  BY <1>3 DEF CountCap

\* What a packet is queued as: itself, or marked if it was ECN-capable.
Kept(pkt) == {pkt} \cup IF pkt.ecn = "NotECT" THEN {} ELSE {[pkt EXCEPT !.ecn = "CE"]}

LEMMA KeptQueueable ==
  ASSUME NEW pkt \in Packets
  PROVE  pkt \in Queueable /\ Kept(pkt) \subseteq Queueable
<1>1. pkt \in [ecn: {"NotECT", "ECT"}, size: MinSize .. Mtu]
  BY PacketAssumption
<1> QED
  BY <1>1 DEF Kept, Queueable

LEMMA Append1OK ==
  ASSUME NEW d, DiscOK(d), NEW pkt \in Queueable
  PROVE  /\ DiscOK(Append1(d, pkt))
         /\ Append1(d, pkt).q \in {d.q, Append(d.q, pkt)}
         /\ Len(d.q) < MaxSize => Append1(d, pkt).q = Append(d.q, pkt)
<1>1. d \in Discs /\ d.q \in Seq(Queueable) /\ Len(d.q) \in Nat /\ Len(d.q) <= MaxSize
  BY DEF DiscOK, Discs
<1>2. Append(d.q, pkt) \in Seq(Queueable) /\ Len(Append(d.q, pkt)) = Len(d.q) + 1
  BY <1>1
<1> DEFINE q == Append(d.q, pkt)
<1> HIDE DEF q
<1>3. CASE Len(d.q) < MaxSize
  <2>1. Append1(d, pkt) = [d EXCEPT !.q = q]
    BY <1>3 DEF Append1, q, Discs
  <2>2. [d EXCEPT !.q = q] \in Discs /\ [d EXCEPT !.q = q].q = q
    BY <1>1, <1>2 DEF Discs, q
  <2>3. Len(q) <= MaxSize
    BY <1>1, <1>2, <1>3, ThresholdAssumption DEF q
  <2> QED
    BY <1>3, <2>1, <2>2, <2>3 DEF DiscOK, q
<1>4. CASE ~(Len(d.q) < MaxSize)
  BY <1>4 DEF Append1
<1> QED
  BY <1>3, <1>4

LEMMA DoEnqueueOK ==
  ASSUME NEW d, DiscOK(d), NEW pkt \in Packets, NEW e \in DoEnqueue(d, pkt)
  PROVE  DiscOK(e) /\ (e.q = d.q \/ \E kept \in Kept(pkt) : e.q = Append(d.q, kept))
<1> DEFINE avg == Len(d.q)
           count == IF d.count < CountCap THEN d.count + 1 ELSE CountCap
           R(x) == DiscOK(x) /\ (x.q = d.q \/ \E kept \in Kept(pkt) : x.q = Append(d.q, kept))
<1>1. pkt \in Queueable /\ pkt \in Kept(pkt) /\ Kept(pkt) \subseteq Queueable
  BY KeptQueueable DEF Kept
<1>2. Markable(pkt) => Marked(pkt) \in Kept(pkt)
  BY DEF Markable, Marked, Kept
<1>3. count \in 0 .. CountCap /\ 1 \in 0 .. CountCap /\ 0 \in 0 .. CountCap
  BY CountCapPositive DEF DiscOK, Discs
<1> HIDE DEF count
<1>4. ASSUME NEW x, DiscOK(x), x.q = d.q, NEW kept \in Kept(pkt)
      PROVE  R(Append1(x, kept))
  BY <1>1, <1>4, Append1OK
<1>5. ASSUME NEW x, DiscOK(x), x.q = d.q, NEW mayMark
      PROVE  R(MarkOrDrop(x, pkt, mayMark))
  <2>1. CASE mayMark /\ UseEcn /\ Markable(pkt)
    BY <2>1, <1>2, <1>4, <1>5 DEF MarkOrDrop
  <2>2. CASE ~(mayMark /\ UseEcn /\ Markable(pkt))
    BY <2>2, <1>5 DEF MarkOrDrop
  <2> QED
    BY <2>1, <2>2
<1>6. ASSUME NEW c \in 0 .. CountCap, NEW o \in BOOLEAN
      PROVE  /\ DiscOK([d EXCEPT !.count = c, !.old = o])
             /\ [d EXCEPT !.count = c, !.old = o].q = d.q
  <2>1. d \in Discs
    BY DEF DiscOK
  <2>2. [d EXCEPT !.count = c, !.old = o] \in Discs
        /\ [d EXCEPT !.count = c, !.old = o].q = d.q
    BY <2>1 DEF Discs
  <2> QED
    BY <2>2 DEF DiscOK
<1>7. ASSUME NEW c \in 0 .. CountCap
      PROVE  DiscOK([d EXCEPT !.count = c]) /\ [d EXCEPT !.count = c].q = d.q
  <2>1. d \in Discs
    BY DEF DiscOK
  <2>2. [d EXCEPT !.count = c] \in Discs /\ [d EXCEPT !.count = c].q = d.q
    BY <2>1 DEF Discs
  <2> QED
    BY <2>2 DEF DiscOK
<1> SUFFICES R(e)
  OBVIOUS
<1> HIDE DEF R
<1>8. CASE avg < MinTh \/ avg <= 1
  <2> DEFINE d1 == [d EXCEPT !.count = count, !.old = FALSE]
  <2>1. e = Append1(d1, pkt)
    BY <1>8 DEF DoEnqueue, count
  <2>2. DiscOK(d1) /\ d1.q = d.q
    BY <1>3, <1>6
  <2> HIDE DEF d1
  <2>3. R(Append1(d1, pkt))
    BY <1>1, <1>4, <2>2
  <2> QED
    BY <2>1, <2>3
<1>9. CASE ~(avg < MinTh \/ avg <= 1) /\ avg >= ForcedTh
  <2>1. e = MarkOrDrop([d EXCEPT !.count = count], pkt, ~UseHardDrop)
    BY <1>9 DEF DoEnqueue, count
  <2> QED
    BY <2>1, <1>3, <1>5, <1>7
<1>10. CASE ~(avg < MinTh \/ avg <= 1) /\ ~(avg >= ForcedTh) /\ ~d.old
  <2> DEFINE d1 == [d EXCEPT !.count = 1, !.old = TRUE]
  <2>1. e = Append1(d1, pkt)
    BY <1>10 DEF DoEnqueue
  <2>2. DiscOK(d1) /\ d1.q = d.q
    BY <1>3, <1>6
  <2> HIDE DEF d1
  <2>3. R(Append1(d1, pkt))
    BY <1>1, <1>4, <2>2
  <2> QED
    BY <2>1, <2>3
<1>11. CASE ~(avg < MinTh \/ avg <= 1) /\ ~(avg >= ForcedTh) /\ d.old
  <2>1. e \in {MarkOrDrop([d EXCEPT !.count = 0], pkt, TRUE),
               Append1([d EXCEPT !.count = count], pkt)}
    BY <1>11 DEF DoEnqueue, count
  <2>2. CASE e = MarkOrDrop([d EXCEPT !.count = 0], pkt, TRUE)
    BY <2>2, <1>3, <1>5, <1>7
  <2>3. CASE e = Append1([d EXCEPT !.count = count], pkt)
    BY <2>3, <1>1, <1>3, <1>4, <1>7
  <2> QED
    BY <2>1, <2>2, <2>3
<1> QED
  BY <1>8, <1>9, <1>10, <1>11

IInv ==
  /\ DiscOK(disc)
  /\ quota \in 0 .. Quota
  /\ DevOK(dev)
  /\ wire \in Queueable \cup {None}
  /\ wakes \in 0 .. 2
  /\ dev.q # <<>> => wire # None
  /\ wakes > 0 => wire # None

LEMMA InitIInv == Init => IInv
<1> SUFFICES ASSUME Init PROVE IInv
  OBVIOUS
<1>1. <<>> \in Seq(Queueable) /\ Len(<<>>) = 0
  OBVIOUS
<1>2. DiscOK(disc) /\ quota \in 0 .. Quota
  BY <1>1, CountCapPositive, ThresholdAssumption, QuotaAssumption
     DEF Init, EmptyDisc, DiscOK, Discs
<1>3. DevOK(dev)
  <2>1. Accounts(Reset, 0) /\ Reset \in Limits
    BY ResetAccounts DEF Accounts
  <2>2. dev = [q |-> <<>>, byDevice |-> FALSE, byLimits |-> FALSE, dql |-> Reset]
    BY DEF Init
  <2>3. BytesIn(dev.q) = 0
    BY <2>2, BytesOfEmpty
  <2> QED
    BY <1>1, <2>1, <2>2, <2>3, DeviceAssumption DEF DevOK, Devices
<1> QED
  BY <1>2, <1>3 DEF Init, IInv

\* Neither a packet nor the queue is the value None.
LEMMA NoneIsNoPacket == None \notin Queueable
BY DEF None, Queueable

\* A dequeue, from a state in which the transmitter is free to take the packet.
LEMMA DequeueToWireOK ==
  ASSUME IInv, NEW d, DevOK(d), d.q # <<>>, wakes = 0,
         NEW elapsed \in BOOLEAN, NEW wraps \in BOOLEAN, DequeueToWire(d, elapsed, wraps)
  PROVE  /\ DevOK(dev') /\ dev'.q = Tail(d.q) /\ wire' = Head(d.q) /\ wire' \in Queueable
         /\ BytesIn(d.q) = BytesIn(dev'.q) + SizeInDevice(wire')
         /\ wakes' \in 0 .. 2
         /\ IsStopped(d) => IsStopped(dev') \/ wakes' > 0
         /\ ~Limited /\ wakes' > 0 => d.byDevice
<1> DEFINE left == PacketDequeued([d EXCEPT !.q = Tail(@)], Head(d.q), elapsed, wraps)
<1>1. wire' = Head(d.q) /\ dev' = left.dev /\ wakes' = wakes + left.wakes
  BY DEF DequeueToWire
<1>2. /\ DevOK(left.dev)
      /\ left.dev.q = Tail(d.q) /\ Head(d.q) \in Queueable
      /\ BytesIn(d.q) = BytesIn(left.dev.q) + SizeInDevice(Head(d.q))
      /\ left.wakes \in 0 .. 2
      /\ IsStopped(d) => IsStopped(left.dev) \/ left.wakes > 0
      /\ ~Limited /\ left.wakes > 0 => d.byDevice
  BY PacketDequeuedOK
<1> HIDE DEF left
<1> QED
  BY <1>1, <1>2

\* What a packet given to a device that is not stopped becomes: discarded, queued
\* behind a busy transmitter, or transmitted.
LEMMA DeviceSendOK ==
  ASSUME IInv, ~IsStopped(dev), NEW pkt \in Queueable,
         NEW elapsed \in BOOLEAN, NEW wraps \in BOOLEAN, DeviceSend(pkt, elapsed, wraps)
  PROVE  /\ DevOK(dev') /\ wire' \in Queueable /\ wakes' \in 0 .. 2
         /\ \/ /\ BytesIn(dev.q) + SizeInDevice(pkt) > DevMax
               /\ dev'.q = dev.q /\ dev'.byDevice /\ wire' = wire /\ wakes' = wakes
            \/ /\ wire # None /\ wire' = wire /\ wakes' = wakes
               /\ dev'.q = Append(dev.q, pkt)
               /\ BytesIn(dev'.q) = BytesIn(dev.q) + SizeInDevice(pkt)
            \/ /\ wire = None /\ dev.q = <<>> /\ dev'.q = <<>> /\ wire' = pkt
               /\ ~Limited /\ wakes' > 0 => 2 * Mtu + 2 * Header > DevMax
<1>1. /\ DevOK(dev) /\ wire \in Queueable \cup {None} /\ wakes \in 0 .. 2
      /\ (dev.q # <<>> => wire # None) /\ (wakes > 0 => wire # None)
  BY DEF IInv
<1>2. /\ dev.q \in Seq(Queueable) /\ BytesIn(dev.q) \in Nat
      /\ (dev.q = <<>> => BytesIn(dev.q) = 0) /\ dev \in Devices
  BY <1>1, BytesNat, BytesOfEmpty DEF DevOK, Devices
<1>3. SizeInDevice(pkt) \in Nat /\ SizeInDevice(pkt) <= Mtu + Header
  BY SizeBounds
<1> DEFINE e == PacketEnqueued([dev EXCEPT !.q = Append(@, pkt)], pkt)
<1>4. CASE BytesIn(dev.q) + SizeInDevice(pkt) > DevMax
  <2>1. dev' = [dev EXCEPT !.byDevice = TRUE] /\ wire' = wire /\ wakes' = wakes
    BY <1>4 DEF DeviceSend
  <2>2. /\ dev' \in Devices /\ dev'.q = dev.q /\ dev'.byDevice = TRUE
        /\ dev'.byLimits = dev.byLimits /\ dev'.dql = dev.dql
    BY <1>2, <2>1, Zenon DEF Devices
  <2>3. BytesIn(dev'.q) + Mtu + Header > DevMax
    BY <1>2, <1>3, <1>4, <2>2, DeviceAssumption
  <2>4. DevOK(dev')
    BY <1>1, <2>2, <2>3 DEF DevOK
  <2>5. dev.q # <<>>
    BY <1>2, <1>3, <1>4, DeviceAssumption
  <2> QED
    BY <1>1, <1>4, <2>1, <2>2, <2>4, <2>5
<1>5. CASE BytesIn(dev.q) + SizeInDevice(pkt) <= DevMax
  <2>0. ~(BytesIn(dev.q) + SizeInDevice(pkt) > DevMax)
    BY <1>2, <1>3, <1>5, DeviceAssumption
  <2>1. DevOK(e) /\ e.q = Append(dev.q, pkt) /\ BytesIn(e.q) = BytesIn(dev.q) + SizeInDevice(pkt)
    BY <1>1, <1>5, PacketEnqueuedOK
  <2>2. CASE wire # None
    <3>1. dev' = e /\ wire' = wire /\ wakes' = wakes
      BY <2>0, <2>2 DEF DeviceSend
    <3> HIDE DEF e
    <3> QED
      BY <1>1, <2>1, <2>2, <3>1
  <2>3. CASE wire = None
    <3>1. DequeueToWire(e, elapsed, wraps)
      BY <2>0, <2>3 DEF DeviceSend
    <3>2. dev.q = <<>> /\ wakes = 0
      BY <1>1, <2>3
    <3>3. e.q = <<pkt>> /\ e.q # <<>> /\ Tail(e.q) = <<>> /\ Head(e.q) = pkt
      <4>1. /\ Append(<<>>, pkt) = <<pkt>>
            /\ <<pkt>> # <<>> /\ Tail(<<pkt>>) = <<>> /\ Head(<<pkt>>) = pkt
        OBVIOUS
      <4>2. e.q = <<pkt>>
        BY <2>1, <3>2, <4>1
      <4> QED
        BY <4>1, <4>2
    <3> HIDE DEF e
    <3>4. /\ DevOK(dev') /\ dev'.q = Tail(e.q) /\ wire' = Head(e.q) /\ wire' \in Queueable
          /\ wakes' \in 0 .. 2
          /\ ~Limited /\ wakes' > 0 => e.byDevice
      BY <2>1, <3>1, <3>2, <3>3, DequeueToWireOK
    <3>5. ~Limited /\ wakes' > 0 => 2 * Mtu + 2 * Header > DevMax
      <4>1. e.byDevice => BytesIn(e.q) + Mtu + Header > DevMax
        BY <2>1 DEF DevOK
      <4> QED
        BY <1>2, <1>3, <2>1, <3>2, <3>4, <4>1, DeviceAssumption
    <3> QED
      BY <2>3, <3>2, <3>3, <3>4, <3>5
  <2> QED
    BY <2>2, <2>3
<1> QED
  BY <1>2, <1>3, <1>4, <1>5, DeviceAssumption

LEMMA SendStep ==
  ASSUME IInv, NEW pkt \in Packets, Send(pkt)
  PROVE  /\ IInv'
         /\ quota = 0 /\ quota' = Quota /\ dev' = dev /\ wire' = wire /\ wakes' = wakes
         /\ disc'.q = disc.q \/ \E kept \in Kept(pkt) : disc'.q = Append(disc.q, kept)
<1>1. /\ quota' = Quota /\ dev' = dev /\ wire' = wire /\ wakes' = wakes
      /\ disc' \in DoEnqueue(disc, pkt) /\ quota = 0
  BY QuotaAssumption DEF Send, IInv, Running
<1>2. /\ DiscOK(disc')
      /\ disc'.q = disc.q \/ \E kept \in Kept(pkt) : disc'.q = Append(disc.q, kept)
  BY <1>1, DoEnqueueOK DEF IInv
<1> QED
  BY <1>1, <1>2, QuotaAssumption DEF IInv

LEMMA RunStepStep ==
  ASSUME IInv, NEW elapsed \in BOOLEAN, NEW wraps \in BOOLEAN, RunStep(elapsed, wraps)
  PROVE  /\ IInv'
         /\ \/ /\ IsStopped(dev) \/ disc.q = <<>>
               /\ quota' = 0 /\ disc' = disc /\ dev' = dev /\ wire' = wire /\ wakes' = wakes
            \/ /\ ~IsStopped(dev) /\ disc.q # <<>>
               /\ Head(disc.q) \in Queueable
               /\ DeviceSend(Head(disc.q), elapsed, wraps)
               /\ disc'.q = Tail(disc.q)
               /\ quota' = IF disc'.q = <<>> \/ IsStopped(dev') THEN 0 ELSE quota - 1
<1>1. quota \in 1 .. Quota
  BY QuotaAssumption DEF RunStep, Running, IInv
<1>2. DiscOK(disc) /\ disc \in Discs /\ disc.q \in Seq(Queueable)
  BY DEF IInv, DiscOK, Discs
<1>3. CASE IsStopped(dev) \/ disc.q = <<>>
  <2>1. quota' = 0 /\ disc' = disc /\ dev' = dev /\ wire' = wire /\ wakes' = wakes
    BY <1>3 DEF RunStep
  <2> QED
    BY <1>3, <2>1, QuotaAssumption DEF IInv
<1>4. CASE ~(IsStopped(dev) \/ disc.q = <<>>)
  <2>1. /\ DeviceSend(Head(disc.q), elapsed, wraps)
        /\ disc' = [disc EXCEPT !.q = Tail(@)]
        /\ quota' = IF disc'.q = <<>> \/ IsStopped(dev') THEN 0 ELSE quota - 1
    BY <1>4 DEF RunStep
  <2>2. Head(disc.q) \in Queueable /\ Tail(disc.q) \in Seq(Queueable)
        /\ Len(Tail(disc.q)) <= Len(disc.q)
    BY <1>2, <1>4
  <2>3. disc' \in Discs /\ disc'.q = Tail(disc.q)
    BY <1>2, <2>1, <2>2 DEF Discs
  <2>4. DiscOK(disc')
    BY <1>2, <2>2, <2>3, ThresholdAssumption DEF DiscOK
  <2>5. /\ DevOK(dev') /\ wire' \in Queueable /\ wakes' \in 0 .. 2
    BY <1>4, <2>1, <2>2, DeviceSendOK
  <2>6. quota' \in 0 .. Quota
    BY <1>1, <2>1, QuotaAssumption
  <2>7. IInv'
    BY <2>4, <2>5, <2>6, NoneIsNoPacket DEF IInv
  <2> QED
    BY <1>4, <2>1, <2>2, <2>3, <2>7
<1> QED
  BY <1>3, <1>4

LEMMA WakeStep ==
  ASSUME IInv, Wake
  PROVE  /\ IInv'
         /\ quota = 0 /\ quota' = Quota /\ wakes > 0 /\ wakes' = wakes - 1
         /\ disc' = disc /\ dev' = dev /\ wire' = wire /\ wire # None
<1>1. /\ quota = 0 /\ quota' = Quota /\ wakes > 0 /\ wakes' = wakes - 1
      /\ disc' = disc /\ dev' = dev /\ wire' = wire
  BY QuotaAssumption DEF Wake, Running, IInv
<1>2. wakes' \in 0 .. 2 /\ wire # None
  BY <1>1 DEF IInv
<1> QED
  BY <1>1, <1>2, QuotaAssumption DEF IInv

LEMMA TransmitCompleteStep ==
  ASSUME IInv, NEW elapsed \in BOOLEAN, NEW wraps \in BOOLEAN,
         TransmitComplete(elapsed, wraps)
  PROVE  /\ IInv'
         /\ quota = 0 /\ quota' = 0 /\ disc' = disc /\ wire # None /\ wakes = 0
         /\ \/ dev.q = <<>> /\ wire' = None /\ dev' = dev /\ wakes' = 0
            \/ /\ dev.q # <<>> /\ DevOK(dev') /\ dev'.q = Tail(dev.q)
               /\ wire' = Head(dev.q) /\ wire' \in Queueable
               /\ BytesIn(dev.q) = BytesIn(dev'.q) + SizeInDevice(wire')
               /\ IsStopped(dev) => IsStopped(dev') \/ wakes' > 0
               /\ ~Limited /\ wakes' > 0 => dev.byDevice
<1>1. quota = 0 /\ quota' = quota /\ disc' = disc /\ wire # None /\ wakes = 0
  BY QuotaAssumption DEF TransmitComplete, Running, IInv
<1>2. CASE dev.q = <<>>
  <2>1. wire' = None /\ dev' = dev /\ wakes' = wakes
    BY <1>2 DEF TransmitComplete
  <2> QED
    BY <1>1, <1>2, <2>1 DEF IInv
<1>3. CASE dev.q # <<>>
  <2>1. DequeueToWire(dev, elapsed, wraps) /\ DevOK(dev)
    BY <1>3 DEF TransmitComplete, IInv
  <2>2. /\ DevOK(dev') /\ dev'.q = Tail(dev.q) /\ wire' = Head(dev.q) /\ wire' \in Queueable
        /\ BytesIn(dev.q) = BytesIn(dev'.q) + SizeInDevice(wire')
        /\ wakes' \in 0 .. 2
        /\ IsStopped(dev) => IsStopped(dev') \/ wakes' > 0
        /\ ~Limited /\ wakes' > 0 => dev.byDevice
    BY <1>1, <1>3, <2>1, DequeueToWireOK
  <2>3. IInv'
    BY <1>1, <2>2, NoneIsNoPacket DEF IInv
  <2> QED
    BY <1>1, <1>3, <2>2, <2>3
<1> QED
  BY <1>2, <1>3

LEMMA InvHolds == Spec => []IInv
<1>1. IInv /\ [Next]_vars => IInv'
  <2> SUFFICES ASSUME IInv, [Next]_vars PROVE IInv'
    OBVIOUS
  <2>1. CASE Next
    BY <2>1, SendStep, RunStepStep, WakeStep, TransmitCompleteStep DEF Next
  <2>2. CASE UNCHANGED vars
    BY <2>2 DEF vars, IInv
  <2> QED
    BY <2>1, <2>2
<1> QED
  BY <1>1, InitIInv, PTL DEF Spec

-----------------------------------------------------------------------------
(* Theorems *)

\* Types, and at most two pending wake callbacks, for every device and disc.
THEOREM TypeCorrect == Spec => []TypeOK
<1>1. IInv => TypeOK
  BY DEF IInv, TypeOK, DiscOK, Discs, DevOK, Devices
<1> QED
  BY <1>1, InvHolds, PTL

\* A stopped device queue always has something to dequeue, so its stop ends, with
\* or without queue limits and through the wrap of their counters.
THEOREM StopsAreUndone == Spec => []StoppedIsBusy
<1>1. IInv => StoppedIsBusy
  BY StoppedHolds DEF IInv, StoppedIsBusy
<1> QED
  BY <1>1, InvHolds, PTL

\* The device stops when, and only when, it has no room.
THEOREM StopsInTime == Spec => []StoppedWhenFull
<1>1. IInv => StoppedWhenFull
  BY DEF IInv, DevOK, StoppedWhenFull
<1> QED
  BY <1>1, InvHolds, PTL

\* The queue limits count the bytes in the device queue.
THEOREM LimitsCount == Spec => []LimitsCountQueue
<1>1. IInv => LimitsCountQueue
  BY DEF IInv, DevOK, Accounts, LimitsCountQueue
<1> QED
  BY <1>1, InvHolds, PTL

\* With queue limits: they fit the signed range of their difference with a packet to
\* spare, as DQL_MAX_LIMIT leaves room for DQL_MAX_OBJECT, and a quota of the smallest
\* packets overdraws the largest one.
LimitsFit == Limited => /\ 2 * (MaxLimit + Mtu + Header) <= Modulus
                        /\ Quota * (MinSize + Header) > MaxLimit

\* A queue that the limits do not stop holds no more than the largest limit.
Fits(d) == Limited => /\ BytesIn(d.q) <= MaxLimit + Mtu + Header
                      /\ ~d.byLimits => BytesIn(d.q) <= MaxLimit

\* Within that range the difference of the counters is what it means.
LEMMA NotOverdrawn ==
  ASSUME NEW dql, NEW n \in Nat, Accounts(dql, n), Available(dql) >= 0,
         n <= MaxLimit + Mtu + Header, 2 * (MaxLimit + Mtu + Header) <= Modulus
  PROVE  n <= MaxLimit
<1>1. /\ dql.numQueued \in 0 .. Modulus - 1 /\ dql.numCompleted \in 0 .. Modulus - 1
      /\ dql.limit \in 0 .. MaxLimit /\ MaxLimit \in Nat /\ Modulus \in Nat \ {0}
      /\ Mtu \in Nat /\ Header \in Nat
  BY LimitAssumption, ModulusAssumption, DeviceAssumption DEF Accounts, Limits, Word
<1>2. n = IF dql.numQueued >= dql.numCompleted THEN dql.numQueued - dql.numCompleted
          ELSE dql.numQueued - dql.numCompleted + Modulus
  <2>1. dql.numQueued - dql.numCompleted \in -Modulus .. 2 * Modulus - 1
    BY <1>1
  <2>2. Wrap(dql.numQueued - dql.numCompleted) = n
    BY DEF Accounts, InProgress
  <2> QED
    BY <1>1, <2>1, <2>2, WrapIs
<1>3. dql.adjLimit = IF dql.limit + dql.numCompleted < Modulus
                     THEN dql.limit + dql.numCompleted
                     ELSE dql.limit + dql.numCompleted - Modulus
  <2>1. dql.limit + dql.numCompleted \in -Modulus .. 2 * Modulus - 1
    BY <1>1
  <2> QED
    BY <1>1, <2>1, WrapIs DEF Accounts
<1>4. SUFFICES ASSUME n > MaxLimit PROVE FALSE
  BY <1>1
<1>5. Wrap(dql.adjLimit - dql.numQueued) = dql.limit - n + Modulus
  <2>1. dql.adjLimit - dql.numQueued \in -Modulus .. 2 * Modulus - 1
    BY <1>1, <1>3
  <2>2. Wrap(dql.adjLimit - dql.numQueued) =
          IF dql.adjLimit - dql.numQueued < 0 THEN dql.adjLimit - dql.numQueued + Modulus
          ELSE IF dql.adjLimit - dql.numQueued < Modulus THEN dql.adjLimit - dql.numQueued
          ELSE dql.adjLimit - dql.numQueued - Modulus
    BY <1>1, <2>1, WrapIs
  <2> QED
    BY <1>1, <1>2, <1>3, <1>4, <2>2
<1>6. Available(dql) = dql.limit - n
  BY <1>1, <1>4, <1>5 DEF Available, Signed
<1> QED
  BY <1>1, <1>4, <1>6

\* The limits stop the queue when they are overdrawn, and let go of it only when not.
LEMMA EnqueuedLimits ==
  ASSUME Limited, NEW d \in Devices, NEW pkt, NEW q \in Seq(Queueable)
  PROVE  LET e == PacketEnqueued([d EXCEPT !.q = q], pkt)
         IN  ~e.byLimits => ~(Available(e.dql) < 0)
<1> DEFINE dql == Queued(d.dql, SizeInDevice(pkt))
           e == PacketEnqueued([d EXCEPT !.q = q], pkt)
<1>1. e.dql = dql /\ e.byLimits = (d.byLimits \/ Available(dql) < 0)
  BY DEF PacketEnqueued, Devices
<1> HIDE DEF e, dql
<1> QED
  BY <1>1 DEF e

LEMMA DequeuedLimits ==
  ASSUME Limited, NEW d \in Devices, NEW pkt, NEW q \in Seq(Queueable), NEW elapsed, NEW wraps
  PROVE  LET e == PacketDequeued([d EXCEPT !.q = q], pkt, elapsed, wraps).dev
         IN  ~e.byLimits => ~d.byLimits \/ Available(e.dql) >= 0
<1> DEFINE dql == Completed(d.dql, SizeInDevice(pkt), elapsed, wraps)
           e == PacketDequeued([d EXCEPT !.q = q], pkt, elapsed, wraps).dev
<1>1. e.dql = dql /\ e.byLimits = (d.byLimits /\ ~(Limited /\ Available(dql) >= 0))
  BY DEF PacketDequeued, Devices
<1> HIDE DEF e, dql
<1> QED
  BY <1>1 DEF e

\* A packet leaves the queue.
LEMMA DequeueFits ==
  ASSUME LimitsFit, IInv, NEW d, DevOK(d), Fits(d), d.q # <<>>, wakes = 0,
         NEW elapsed \in BOOLEAN, NEW wraps \in BOOLEAN, DequeueToWire(d, elapsed, wraps)
  PROVE  Fits(dev')
<1> SUFFICES ASSUME Limited
             PROVE  /\ BytesIn(dev'.q) <= MaxLimit + Mtu + Header
                    /\ ~dev'.byLimits => BytesIn(dev'.q) <= MaxLimit
  BY DEF Fits
<1>1. /\ DevOK(dev') /\ dev'.q = Tail(d.q) /\ wire' \in Queueable
      /\ BytesIn(d.q) = BytesIn(dev'.q) + SizeInDevice(wire')
  BY DequeueToWireOK
<1>2. /\ BytesIn(dev'.q) \in Nat /\ BytesIn(d.q) \in Nat /\ SizeInDevice(wire') \in Nat
      /\ MaxLimit \in Nat /\ Mtu \in Nat /\ Header \in Nat
      /\ d \in Devices /\ dev' \in Devices /\ Tail(d.q) \in Seq(Queueable)
  BY <1>1, BytesNat, SizeBounds, LimitAssumption, DeviceAssumption DEF DevOK, Devices
<1>3. BytesIn(dev'.q) <= BytesIn(d.q)
  BY <1>1, <1>2
<1>4. BytesIn(dev'.q) <= MaxLimit + Mtu + Header
  BY <1>2, <1>3 DEF Fits
<1>5. ~dev'.byLimits => ~d.byLimits \/ Available(dev'.dql) >= 0
  <2> DEFINE left == PacketDequeued([d EXCEPT !.q = Tail(@)], Head(d.q), elapsed, wraps)
  <2>1. [d EXCEPT !.q = Tail(@)] = [d EXCEPT !.q = Tail(d.q)]
    OBVIOUS
  <2>2. ~left.dev.byLimits => ~d.byLimits \/ Available(left.dev.dql) >= 0
    BY <1>2, <2>1, DequeuedLimits
  <2>3. dev' = left.dev
    BY DEF DequeueToWire
  <2> HIDE DEF left
  <2> QED
    BY <2>2, <2>3
<1>6. Available(dev'.dql) >= 0 => BytesIn(dev'.q) <= MaxLimit
  BY <1>1, <1>2, <1>4, NotOverdrawn DEF LimitsFit, DevOK
<1> QED
  BY <1>2, <1>3, <1>4, <1>5, <1>6 DEF Fits

\* A packet enters a queue that is not stopped.
LEMMA SendFits ==
  ASSUME LimitsFit, IInv, Fits(dev), ~IsStopped(dev), NEW pkt \in Queueable,
         NEW elapsed \in BOOLEAN, NEW wraps \in BOOLEAN, DeviceSend(pkt, elapsed, wraps)
  PROVE  Fits(dev')
<1> DEFINE e == PacketEnqueued([dev EXCEPT !.q = Append(@, pkt)], pkt)
<1>1. /\ DevOK(dev) /\ dev \in Devices /\ BytesIn(dev.q) \in Nat /\ Append(dev.q, pkt) \in Seq(Queueable)
      /\ SizeInDevice(pkt) \in Nat /\ SizeInDevice(pkt) <= Mtu + Header
      /\ MaxLimit \in Nat /\ Mtu \in Nat /\ Header \in Nat /\ DevMax \in Nat
  BY BytesNat, SizeBounds, LimitAssumption, DeviceAssumption DEF IInv, DevOK, Devices
<1>2. CASE BytesIn(dev.q) + SizeInDevice(pkt) > DevMax
  <2>1. dev' = [dev EXCEPT !.byDevice = TRUE]
    BY <1>2 DEF DeviceSend
  <2>2. dev'.q = dev.q /\ dev'.byLimits = dev.byLimits
    BY <1>1, <2>1 DEF Devices
  <2> QED
    BY <2>2 DEF Fits
<1>3. CASE ~(BytesIn(dev.q) + SizeInDevice(pkt) > DevMax)
  <2>1. /\ DevOK(e) /\ e.q = Append(dev.q, pkt)
        /\ BytesIn(e.q) = BytesIn(dev.q) + SizeInDevice(pkt)
    <3>1. BytesIn(dev.q) + SizeInDevice(pkt) <= DevMax
      BY <1>1, <1>3
    <3> QED
      BY <1>1, <3>1, PacketEnqueuedOK
  <2>2. Limited /\ ~e.byLimits => ~(Available(e.dql) < 0)
    <3>1. [dev EXCEPT !.q = Append(@, pkt)] = [dev EXCEPT !.q = Append(dev.q, pkt)]
      OBVIOUS
    <3> QED
      BY <1>1, <3>1, EnqueuedLimits
  <2>3. wire # None => dev' = e
    BY <1>3 DEF DeviceSend
  <2>4. wire = None => DequeueToWire(e, elapsed, wraps)
    BY <1>3 DEF DeviceSend
  <2> HIDE DEF e
  <2>5. Fits(e)
    <3> SUFFICES ASSUME Limited
                 PROVE  /\ BytesIn(e.q) <= MaxLimit + Mtu + Header
                        /\ ~e.byLimits => BytesIn(e.q) <= MaxLimit
      BY DEF Fits
    <3>1. BytesIn(dev.q) <= MaxLimit
      BY DEF Fits, IsStopped
    <3>2. BytesIn(e.q) <= MaxLimit + Mtu + Header /\ BytesIn(e.q) \in Nat
      BY <1>1, <2>1, <3>1
    <3>3. Accounts(e.dql, BytesIn(e.q)) /\ Available(e.dql) \in Int
      BY <2>1, AvailableInt DEF DevOK, Accounts
    <3>4. Available(e.dql) >= 0 => BytesIn(e.q) <= MaxLimit
      BY <3>2, <3>3, NotOverdrawn DEF LimitsFit
    <3> QED
      BY <2>2, <3>2, <3>3, <3>4
  <2>6. CASE wire # None
    BY <2>3, <2>5, <2>6
  <2>7. CASE wire = None
    <3>0. Append(dev.q, pkt) # <<>>
      BY <1>1 DEF Devices
    <3>1. wakes = 0 /\ e.q # <<>>
      BY <2>1, <2>7, <3>0 DEF IInv
    <3> QED
      BY <2>1, <2>4, <2>5, <2>7, <3>1, DequeueFits
  <2> QED
    BY <2>6, <2>7
<1> QED
  BY <1>2, <1>3

LEMMA InitFits == Init => Fits(dev)
BY BytesOfEmpty, LimitAssumption, DeviceAssumption DEF Init, Fits

LEMMA FitsStep ==
  ASSUME LimitsFit, IInv, Fits(dev), [Next]_vars
  PROVE  Fits(dev)'
<1>1. ASSUME NEW pkt \in Packets, Send(pkt) PROVE Fits(dev)'
  BY <1>1 DEF Send, Fits
<1>2. CASE Wake
  BY <1>2 DEF Wake, Fits
<1>3. ASSUME NEW elapsed \in BOOLEAN, NEW wraps \in BOOLEAN, RunStep(elapsed, wraps)
      PROVE  Fits(dev)'
  <2>1. CASE dev' = dev
    BY <2>1 DEF Fits
  <2>2. CASE /\ ~IsStopped(dev) /\ Head(disc.q) \in Queueable
             /\ DeviceSend(Head(disc.q), elapsed, wraps)
    <3>1. Fits(dev')
      BY <2>2, SendFits
    <3> QED
      BY <3>1 DEF Fits
  <2> QED
    BY <1>3, <2>1, <2>2, RunStepStep
<1>4. ASSUME NEW elapsed \in BOOLEAN, NEW wraps \in BOOLEAN, TransmitComplete(elapsed, wraps)
      PROVE  Fits(dev)'
  <2>1. CASE dev' = dev
    BY <2>1 DEF Fits
  <2>2. CASE dev.q # <<>> /\ wakes = 0 /\ DequeueToWire(dev, elapsed, wraps)
    <3>1. DevOK(dev)
      BY DEF IInv
    <3>2. Fits(dev')
      BY <2>2, <3>1, DequeueFits
    <3> QED
      BY <3>2 DEF Fits
  <2> QED
    BY <1>4, <2>1, <2>2 DEF TransmitComplete
<1>5. CASE UNCHANGED vars
  BY <1>5 DEF vars, Fits
<1> QED
  BY <1>1, <1>2, <1>3, <1>4, <1>5 DEF Next

\* So many bytes in the device queue stop it.
Full(bytes) == IF Limited THEN bytes > MaxLimit ELSE bytes + Mtu > DevMax

LEMMA FullStops ==
  ASSUME NEW d, DevOK(d), Fits(d), Full(BytesIn(d.q))
  PROVE  IsStopped(d)
<1>1. BytesIn(d.q) \in Nat /\ MaxLimit \in Nat /\ d.byLimits \in BOOLEAN
  BY BytesNat, LimitAssumption DEF DevOK, Devices
<1>2. CASE Limited
  <2>1. BytesIn(d.q) > MaxLimit /\ (~d.byLimits => BytesIn(d.q) <= MaxLimit)
    BY <1>2 DEF Full, Fits
  <2> QED
    BY <1>1, <2>1 DEF IsStopped
<1>3. CASE ~Limited
  BY <1>3 DEF Full, DevOK, IsStopped
<1> QED
  BY <1>2, <1>3

LEMMA FullGrows ==
  ASSUME NEW m \in Nat, NEW n \in Nat, m <= n, Full(m)
  PROVE  Full(n)
BY LimitAssumption, DeviceAssumption DEF Full

\* Why no wake-up is missing.  A disc that still has packets after its run was
\* started by a wake callback (a run that IP starts on a device that is not stopped
\* has one packet to send); what room the device queue then has, within its own
\* limit or the one of the queue limits, is used up before the quota is.
Awake ==
  LET bytes == BytesIn(dev.q)
  IN  /\ NoLostWake
      /\ wakes > 0 /\ ~IsStopped(dev)
           => Limited \/ bytes + 2 * Mtu + 2 * Header > DevMax
      /\ Running /\ disc.q # <<>> /\ ~IsStopped(dev)
           => \/ wakes > 0
              \/ Len(disc.q) = 1
              \/ wire # None /\ Full(bytes + quota * (MinSize + Header))

LEMMA InitAwake == Init => Awake
BY BytesOfEmpty DEF Init, Awake, NoLostWake, Running, EmptyDisc

LEMMA AwakeStep ==
  ASSUME LimitsFit, IInv, Fits(dev), Fits(dev'), Awake, [Next]_vars
  PROVE  Awake'
<1> DEFINE small == MinSize + Header
<1>1. /\ Mtu \in Nat /\ Header \in Nat /\ small \in Nat /\ DevMax \in Nat /\ Quota \in Nat \ {0}
      /\ Quota * small >= Mtu + 2 * Header
      /\ MaxLimit \in Nat /\ (Limited => Quota * small > MaxLimit)
  BY DeviceAssumption, QuotaAssumption, LimitAssumption DEF LimitsFit
<1>2. /\ disc.q \in Seq(Queueable) /\ quota \in 0 .. Quota /\ wakes \in 0 .. 2
      /\ dev.q \in Seq(Queueable) /\ BytesIn(dev.q) \in Nat /\ DevOK(dev)
  BY BytesNat DEF IInv, DiscOK, Discs, DevOK, Devices
<1>3. quota * small \in Nat
  BY <1>1, <1>2
<1> HIDE DEF small
<1>4. ASSUME NEW pkt \in Packets, Send(pkt)
      PROVE  Awake'
  <2>1. /\ quota = 0 /\ quota' = Quota /\ dev' = dev /\ wire' = wire /\ wakes' = wakes
        /\ disc'.q = disc.q \/ \E kept \in Kept(pkt) : disc'.q = Append(disc.q, kept)
    BY <1>4, SendStep
  <2>2. disc.q = <<>> /\ disc'.q # <<>> => Len(disc'.q) = 1
    <3>1. \A kept \in Kept(pkt) : Len(Append(<<>>, kept)) = 1
      OBVIOUS
    <3> QED
      BY <2>1, <3>1
  <2>3. ~IsStopped(dev) /\ wakes = 0 => disc.q = <<>>
    BY <1>2, <2>1 DEF Awake, NoLostWake, Running
  <2> QED
    BY <1>1, <1>2, <2>1, <2>2, <2>3 DEF Awake, NoLostWake, Running
<1>5. ASSUME NEW elapsed \in BOOLEAN, NEW wraps \in BOOLEAN, RunStep(elapsed, wraps)
      PROVE  Awake'
  <2>0. quota \in 1 .. Quota
    BY <1>1, <1>2, <1>5 DEF RunStep, Running
  <2>1. CASE /\ IsStopped(dev) \/ disc.q = <<>>
             /\ quota' = 0 /\ disc' = disc /\ dev' = dev /\ wire' = wire /\ wakes' = wakes
    BY <2>1 DEF Awake, NoLostWake, Running
  <2>2. CASE /\ ~IsStopped(dev) /\ disc.q # <<>>
             /\ Head(disc.q) \in Queueable
             /\ DeviceSend(Head(disc.q), elapsed, wraps)
             /\ disc'.q = Tail(disc.q)
             /\ quota' = IF disc'.q = <<>> \/ IsStopped(dev') THEN 0 ELSE quota - 1
    <3> DEFINE pkt == Head(disc.q)
               size == SizeInDevice(pkt)
    <3>1. size \in Nat /\ small <= size
      BY <2>2, SizeBounds DEF small
    <3>2. Len(disc.q) = 1 => disc'.q = <<>>
      <4>1. Len(disc.q) = 1 => Tail(disc.q) \in Seq(Queueable) /\ Len(Tail(disc.q)) = 0
        BY <1>2, <2>2
      <4> QED
        BY <2>2, <4>1, EmptySeq
    <3>3. ~IsStopped(dev) /\ BytesIn(dev.q) \in Nat
      BY <1>2, <2>2
    <3>4. /\ DevOK(dev') /\ wire' \in Queueable /\ wakes' \in 0 .. 2
          /\ \/ /\ BytesIn(dev.q) + size > DevMax
                /\ dev'.q = dev.q /\ dev'.byDevice /\ wire' = wire /\ wakes' = wakes
             \/ /\ wire # None /\ wire' = wire /\ wakes' = wakes
                /\ dev'.q = Append(dev.q, pkt)
                /\ BytesIn(dev'.q) = BytesIn(dev.q) + size
             \/ /\ wire = None /\ dev.q = <<>> /\ dev'.q = <<>> /\ wire' = pkt
                /\ ~Limited /\ wakes' > 0 => 2 * Mtu + 2 * Header > DevMax
      BY <2>2, DeviceSendOK
    <3> HIDE DEF size, pkt
    <3>5. CASE IsStopped(dev')
      <4>1. quota' = 0
        BY <2>2, <3>5
      <4> QED
        BY <3>5, <4>1 DEF Awake, NoLostWake, Running
    <3>6. CASE /\ ~IsStopped(dev')
               /\ wire # None /\ wire' = wire /\ wakes' = wakes
               /\ BytesIn(dev'.q) = BytesIn(dev.q) + size
      <4>1. wakes' > 0 => Limited \/ BytesIn(dev'.q) + 2 * Mtu + 2 * Header > DevMax
        <5>1. wakes > 0 => Limited \/ BytesIn(dev.q) + 2 * Mtu + 2 * Header > DevMax
          BY <3>3 DEF Awake
        <5>2. BytesIn(dev.q) + 2 * Mtu + 2 * Header > DevMax
                => BytesIn(dev'.q) + 2 * Mtu + 2 * Header > DevMax
          BY <1>1, <3>1, <3>3, <3>6
        <5> QED
          BY <3>6, <5>1, <5>2
      <4>2. (quota - 1) * small + small = quota * small
        BY <1>1, <2>0
      <4>3. (quota - 1) * small \in Nat
        BY <1>1, <2>0
      <4>4. disc'.q # <<>> => \/ wakes > 0
                              \/ Full(BytesIn(dev.q) + quota * small)
        BY <1>2, <2>0, <2>2, <3>2, <3>3 DEF Awake, Running, small
      <4>5. disc'.q # <<>> => \/ wakes' > 0
                              \/ Full(BytesIn(dev'.q) + (quota - 1) * small)
        <5>1. /\ BytesIn(dev.q) + quota * small \in Nat
              /\ BytesIn(dev'.q) + (quota - 1) * small \in Nat
              /\ BytesIn(dev.q) + quota * small <= BytesIn(dev'.q) + (quota - 1) * small
          BY <1>1, <1>3, <3>1, <3>3, <3>6, <4>2, <4>3
        <5> QED
          BY <3>6, <4>4, <5>1, FullGrows
      <4>6. quota - 1 = 0 => (quota - 1) * small = 0
        BY <1>1
      <4>7. disc'.q # <<>> => quota' = quota - 1
        BY <2>2, <3>6
      <4>8. ~Full(BytesIn(dev'.q))
        BY <3>4, <3>6, FullStops
      <4>9. disc'.q # <<>> /\ quota' = 0 => wakes' > 0
        <5>1. BytesIn(dev'.q) + 0 = BytesIn(dev'.q)
          BY <3>1, <3>3, <3>6
        <5>2. quota' = 0 /\ quota' = quota - 1 => (quota - 1) * small = 0
          BY <4>6
        <5> QED
          BY <4>5, <4>7, <4>8, <5>1, <5>2
      <4>10. disc'.q # <<>> => \/ wakes' > 0
                               \/ wire' # None /\ Full(BytesIn(dev'.q) + quota' * small)
        BY <3>6, <4>5, <4>7
      <4>11. quota' \in Nat
        BY <2>0, <2>2
      <4> QED
        BY <4>1, <4>9, <4>10, <4>11 DEF Awake, NoLostWake, Running, small
    <3>7. CASE /\ ~IsStopped(dev')
               /\ wire = None /\ dev'.q = <<>> 
               /\ ~Limited /\ wakes' > 0 => 2 * Mtu + 2 * Header > DevMax
      <4>1. BytesIn(dev'.q) = 0
        BY <3>7, BytesOfEmpty
      <4>2. wakes = 0
        BY <1>2, <3>7 DEF IInv
      <4>3. disc'.q = <<>>
        BY <1>2, <2>0, <2>2, <3>2, <3>3, <3>7, <4>2 DEF Awake, Running
      <4>4. wakes' > 0 => Limited \/ BytesIn(dev'.q) + 2 * Mtu + 2 * Header > DevMax
        BY <1>1, <3>7, <4>1
      <4> QED
        BY <4>3, <4>4 DEF Awake, NoLostWake, Running
    <3>8. dev'.byDevice => IsStopped(dev')
      BY DEF IsStopped
    <3> QED
      BY <3>4, <3>5, <3>6, <3>7, <3>8
  <2> QED
    BY <1>5, <2>1, <2>2, RunStepStep
<1>6. ASSUME Wake
      PROVE  Awake'
  <2>1. /\ quota = 0 /\ quota' = Quota /\ wakes > 0 /\ wakes' = wakes - 1
        /\ disc' = disc /\ dev' = dev /\ wire' = wire /\ wire # None
    BY <1>6, WakeStep
  <2>2. ~IsStopped(dev) => Limited \/ BytesIn(dev.q) + 2 * Mtu + 2 * Header > DevMax
    BY <2>1 DEF Awake
  <2>3. ~IsStopped(dev) => Full(BytesIn(dev.q) + Quota * small)
    <3> DEFINE p == Quota * small
    <3>1. p \in Nat
      BY <1>1
    <3> HIDE DEF p
    <3>2. p >= Mtu + 2 * Header /\ (Limited => p > MaxLimit)
      BY <1>1 DEF p
    <3>3. ~IsStopped(dev) => Full(BytesIn(dev.q) + p)
      <4>1. CASE Limited
        <5>1. BytesIn(dev.q) + p > MaxLimit
          BY <1>1, <1>2, <3>1, <3>2, <4>1
        <5> QED
          BY <4>1, <5>1 DEF Full
      <4>2. CASE ~Limited
        <5>1. BytesIn(dev.q) + 2 * Mtu + 2 * Header > DevMax
                => BytesIn(dev.q) + p + Mtu > DevMax
          BY <1>1, <1>2, <3>1, <3>2
        <5> QED
          BY <2>2, <4>2, <5>1 DEF Full
      <4> QED
        BY <4>1, <4>2
    <3> QED
      BY <3>3 DEF p
  <2> QED
    BY <1>1, <1>2, <2>1, <2>2, <2>3 DEF Awake, NoLostWake, Running, small
<1>7. ASSUME NEW elapsed \in BOOLEAN, NEW wraps \in BOOLEAN, TransmitComplete(elapsed, wraps)
      PROVE  Awake'
  <2>1. quota = 0 /\ quota' = 0 /\ disc' = disc /\ wire # None /\ wakes = 0
    BY <1>7, TransmitCompleteStep
  <2>2. CASE dev.q = <<>> /\ wire' = None /\ dev' = dev /\ wakes' = 0
    BY <2>1, <2>2 DEF Awake, NoLostWake, Running
  <2>3. CASE /\ dev.q # <<>> /\ DevOK(dev') /\ dev'.q = Tail(dev.q)
             /\ wire' = Head(dev.q) /\ wire' \in Queueable
             /\ BytesIn(dev.q) = BytesIn(dev'.q) + SizeInDevice(wire')
             /\ IsStopped(dev) => IsStopped(dev') \/ wakes' > 0
             /\ ~Limited /\ wakes' > 0 => dev.byDevice
    <3>1. wakes' > 0 => Limited \/ BytesIn(dev'.q) + 2 * Mtu + 2 * Header > DevMax
      <4>1. dev.byDevice => BytesIn(dev.q) + Mtu + Header > DevMax
        BY <1>2 DEF DevOK
      <4>2. BytesIn(dev'.q) \in Nat
        BY <2>3, BytesNat DEF DevOK, Devices
      <4>3. SizeInDevice(wire') \in Nat /\ SizeInDevice(wire') <= Mtu + Header
        BY <2>3, SizeBounds
      <4>4. dev.byDevice => BytesIn(dev'.q) + 2 * Mtu + 2 * Header > DevMax
        <5>1. BytesIn(dev.q) = BytesIn(dev'.q) + SizeInDevice(wire')
          BY <2>3
        <5> QED
          BY <1>1, <4>1, <4>2, <4>3, <5>1
      <4> QED
        BY <2>3, <4>4
    <3>2. NoLostWake'
      BY <1>2, <2>1, <2>3 DEF Awake, NoLostWake, Running
    <3> QED
      BY <2>1, <3>1, <3>2 DEF Awake, Running
  <2> QED
    BY <1>7, <2>2, <2>3, TransmitCompleteStep
<1>8. CASE UNCHANGED vars
  BY <1>8 DEF vars, Awake, NoLostWake, Running
<1> QED
  BY <1>4, <1>5, <1>6, <1>7, <1>8 DEF Next

\* A disc that does not run and has packets is stopped or about to be woken: the
\* quota of Run is never what ends it.  That takes a quota whose smallest packets
\* fill the room a queue opens with, which QuotaAssumption says of the device queue
\* and LimitsFit of the queue limits.
THEOREM NoPacketIsStranded == LimitsFit /\ Spec => []NoLostWake
<1>1. LimitsFit /\ IInv /\ Fits(dev) /\ [Next]_vars => Fits(dev)'
  BY FitsStep
<1>2. LimitsFit /\ IInv /\ Fits(dev) /\ Fits(dev)' /\ Awake /\ [Next]_vars => Awake'
  BY AwakeStep
<1>3. Awake => NoLostWake
  BY DEF Awake
<1>4. ASSUME LimitsFit PROVE Spec => []NoLostWake
  <2>1. IInv /\ Fits(dev) /\ Awake /\ [Next]_vars => Fits(dev)' /\ Awake'
    BY <1>1, <1>2, <1>4
  <2> QED
    BY <2>1, <1>3, InitAwake, InitFits, InvHolds, PTL DEF Spec
<1> QED
  BY <1>4

LEMMA DoEnqueueMarks ==
  ASSUME UseEcn, ~UseHardDrop, NEW d, DiscOK(d), NEW pkt \in Packets, NEW e \in DoEnqueue(d, pkt)
  PROVE  /\ pkt.ecn = "ECT" /\ Len(d.q) < MaxSize => Len(e.q) = Len(d.q) + 1
         /\ Len(d.q) >= ForcedTh /\ Len(d.q) > 1
              => e.q = d.q \/ \E kept \in Queueable : kept.ecn = "CE" /\ e.q = Append(d.q, kept)
<1> DEFINE avg == Len(d.q)
           count == IF d.count < CountCap THEN d.count + 1 ELSE CountCap
           Longer(x) == pkt.ecn = "ECT" /\ avg < MaxSize => Len(x.q) = avg + 1
           Deep(x) == x.q = d.q \/ \E kept \in Queueable : kept.ecn = "CE" /\ x.q = Append(d.q, kept)
<1>1. pkt \in Queueable /\ (Markable(pkt) => Marked(pkt) \in Queueable /\ Marked(pkt).ecn = "CE")
  <2>1. pkt \in [ecn: {"NotECT", "ECT"}, size: MinSize .. Mtu]
    BY PacketAssumption
  <2> QED
    BY <2>1 DEF Queueable, Marked
<1>2. pkt.ecn = "ECT" => Markable(pkt)
  BY DEF Markable
<1>3. d.q \in Seq(Queueable) /\ avg \in Nat /\ d \in Discs
  BY DEF DiscOK, Discs
<1>4. count \in 0 .. CountCap /\ 1 \in 0 .. CountCap /\ 0 \in 0 .. CountCap
  BY CountCapPositive DEF DiscOK, Discs
<1> HIDE DEF count, Longer, Deep
<1>5. ASSUME NEW x, DiscOK(x), x.q = d.q, NEW kept \in Queueable
      PROVE  /\ Longer(Append1(x, kept))
             /\ kept.ecn = "CE" => Deep(Append1(x, kept))
  <2>1. /\ Append1(x, kept).q \in {d.q, Append(d.q, kept)}
        /\ Len(d.q) < MaxSize => Append1(x, kept).q = Append(d.q, kept)
    BY <1>5, Append1OK
  <2>2. Len(Append(d.q, kept)) = avg + 1
    BY <1>3
  <2> QED
    BY <2>1, <2>2 DEF Longer, Deep
<1>6. ASSUME NEW x, DiscOK(x), x.q = d.q, NEW mayMark, mayMark
      PROVE  Longer(MarkOrDrop(x, pkt, mayMark)) /\ Deep(MarkOrDrop(x, pkt, mayMark))
  <2>1. CASE Markable(pkt)
    <3>1. MarkOrDrop(x, pkt, mayMark) = Append1(x, Marked(pkt))
      BY <1>6, <2>1 DEF MarkOrDrop
    <3> QED
      BY <1>1, <1>5, <1>6, <2>1, <3>1
  <2>2. CASE ~Markable(pkt)
    <3>1. MarkOrDrop(x, pkt, mayMark) = x
      BY <2>2 DEF MarkOrDrop
    <3> QED
      BY <1>2, <1>6, <2>2, <3>1 DEF Longer, Deep
  <2> QED
    BY <2>1, <2>2
<1>7. ASSUME NEW c \in 0 .. CountCap, NEW o \in BOOLEAN
      PROVE  /\ DiscOK([d EXCEPT !.count = c, !.old = o])
             /\ [d EXCEPT !.count = c, !.old = o].q = d.q
             /\ DiscOK([d EXCEPT !.count = c])
             /\ [d EXCEPT !.count = c].q = d.q
  <2>1. /\ [d EXCEPT !.count = c, !.old = o] \in Discs
        /\ [d EXCEPT !.count = c, !.old = o].q = d.q
        /\ [d EXCEPT !.count = c] \in Discs
        /\ [d EXCEPT !.count = c].q = d.q
    BY <1>3 DEF Discs
  <2> QED
    BY <2>1 DEF DiscOK
<1>8. ForcedTh >= MinTh /\ ForcedTh \in Nat /\ MinTh \in Nat
  BY ThresholdAssumption, SwitchAssumption DEF ForcedTh
<1> SUFFICES Longer(e) /\ (avg >= ForcedTh /\ avg > 1 => Deep(e))
  BY DEF Longer, Deep
<1>9. CASE avg < MinTh \/ avg <= 1
  <2> DEFINE d1 == [d EXCEPT !.count = count, !.old = FALSE]
  <2>1. e = Append1(d1, pkt)
    BY <1>9 DEF DoEnqueue, count
  <2>2. DiscOK(d1) /\ d1.q = d.q
    BY <1>4, <1>7
  <2>3. ~(avg >= ForcedTh /\ avg > 1)
    BY <1>3, <1>8, <1>9
  <2> HIDE DEF d1
  <2> QED
    BY <1>1, <1>5, <2>1, <2>2, <2>3
<1>10. CASE ~(avg < MinTh \/ avg <= 1) /\ avg >= ForcedTh
  <2> DEFINE d1 == [d EXCEPT !.count = count]
  <2>1. e = MarkOrDrop(d1, pkt, ~UseHardDrop)
    BY <1>10 DEF DoEnqueue, count
  <2>2. DiscOK(d1) /\ d1.q = d.q
    BY <1>4, <1>7
  <2> HIDE DEF d1
  <2> QED
    BY <1>6, <2>1, <2>2
<1>11. CASE ~(avg < MinTh \/ avg <= 1) /\ ~(avg >= ForcedTh) /\ ~d.old
  <2> DEFINE d1 == [d EXCEPT !.count = 1, !.old = TRUE]
  <2>1. e = Append1(d1, pkt)
    BY <1>11 DEF DoEnqueue
  <2>2. DiscOK(d1) /\ d1.q = d.q
    BY <1>4, <1>7
  <2> HIDE DEF d1
  <2> QED
    BY <1>1, <1>5, <1>11, <2>1, <2>2
<1>12. CASE ~(avg < MinTh \/ avg <= 1) /\ ~(avg >= ForcedTh) /\ d.old
  <2> DEFINE d1 == [d EXCEPT !.count = 0]
             d2 == [d EXCEPT !.count = count]
  <2>1. e \in {MarkOrDrop(d1, pkt, TRUE), Append1(d2, pkt)}
    BY <1>12 DEF DoEnqueue, count
  <2>2. DiscOK(d1) /\ d1.q = d.q /\ DiscOK(d2) /\ d2.q = d.q
    BY <1>4, <1>7
  <2> HIDE DEF d1, d2
  <2>3. Longer(MarkOrDrop(d1, pkt, TRUE)) /\ Longer(Append1(d2, pkt))
    BY <1>1, <1>5, <1>6, <2>2
  <2> QED
    BY <1>12, <2>1, <2>3
<1> QED
  BY <1>9, <1>10, <1>11, <1>12

\* An ECN-capable packet is lost to a full queue only.
THEOREM CapableArrives == Spec => CapableIsKept
<1>1. IInv /\ [Next]_vars
        => [\A pkt \in Packets :
              UseEcn /\ ~UseHardDrop /\ pkt.ecn = "ECT" /\ Len(disc.q) < MaxSize /\ Send(pkt)
                => Len(disc'.q) = Len(disc.q) + 1]_vars
  BY DoEnqueueMarks DEF Send, IInv
<1> QED
  BY <1>1, InvHolds, PTL DEF Spec, CapableIsKept

LEMMA DeepStep ==
  ASSUME IInv, DeepIsMarked, [Next]_vars
  PROVE  DeepIsMarked'
<1> SUFFICES ASSUME UseEcn, ~UseHardDrop,
                    NEW i \in ForcedTh + 1 .. Len(disc'.q), i > 2
             PROVE  disc'.q[i].ecn # "ECT"
  BY DEF DeepIsMarked
<1>1. /\ disc.q \in Seq(Queueable) /\ Len(disc.q) \in Nat /\ ForcedTh \in Nat /\ DiscOK(disc)
      /\ \A j \in ForcedTh + 1 .. Len(disc.q) : j > 2 => disc.q[j].ecn # "ECT"
  BY ThresholdAssumption, SwitchAssumption DEF IInv, DiscOK, Discs, DeepIsMarked, ForcedTh
<1>2. CASE disc'.q = disc.q
  BY <1>1, <1>2
<1>3. ASSUME NEW pkt \in Packets, Send(pkt), disc'.q # disc.q
      PROVE  disc'.q[i].ecn # "ECT"
  <2>1. PICK kept \in Kept(pkt) : disc'.q = Append(disc.q, kept)
    BY <1>3, SendStep
  <2>2. kept \in Queueable
    BY KeptQueueable
  <2>3. /\ Len(disc'.q) = Len(disc.q) + 1
        /\ \A j \in 1 .. Len(disc.q) : disc'.q[j] = disc.q[j]
        /\ disc'.q[Len(disc.q) + 1] = kept
    BY <1>1, <2>1, <2>2
  <2>4. CASE i = Len(disc.q) + 1
    <3>1. Len(disc.q) >= ForcedTh /\ Len(disc.q) > 1 /\ disc' \in DoEnqueue(disc, pkt)
      BY <1>1, <1>3, <2>4 DEF Send
    <3>2. PICK k \in Queueable : k.ecn = "CE" /\ disc'.q = Append(disc.q, k)
      BY <1>1, <1>3, <3>1, DoEnqueueMarks
    <3>3. disc'.q[Len(disc.q) + 1] = k
      BY <1>1, <3>2
    <3> QED
      BY <2>4, <3>2, <3>3
  <2>5. CASE i # Len(disc.q) + 1
    <3>1. i \in ForcedTh + 1 .. Len(disc.q) /\ i \in 1 .. Len(disc.q)
      BY <1>1, <2>3, <2>5
    <3> QED
      BY <1>1, <2>3, <3>1
  <2> QED
    BY <2>4, <2>5
<1>4. ASSUME NEW elapsed \in BOOLEAN, NEW wraps \in BOOLEAN, RunStep(elapsed, wraps),
             disc'.q # disc.q
      PROVE  disc'.q[i].ecn # "ECT"
  <2>1. disc.q # <<>> /\ disc'.q = Tail(disc.q)
    BY <1>4, RunStepStep
  <2>2. i + 1 \in ForcedTh + 1 .. Len(disc.q) /\ i + 1 > 2 /\ disc'.q[i] = disc.q[i + 1]
    BY <1>1, <2>1
  <2> QED
    BY <1>1, <2>2
<1>5. Wake \/ UNCHANGED vars => disc'.q = disc.q
  BY WakeStep DEF vars
<1>6. ASSUME NEW elapsed \in BOOLEAN, NEW wraps \in BOOLEAN, TransmitComplete(elapsed, wraps)
      PROVE  disc'.q = disc.q
  BY <1>6, TransmitCompleteStep
<1> QED
  BY <1>2, <1>3, <1>4, <1>5, <1>6 DEF Next

\* No unmarked ECN-capable packet lies beyond the forced threshold.
THEOREM MarksAreDeep == Spec => []DeepIsMarked
<1>1. Init => DeepIsMarked
  BY ThresholdAssumption DEF Init, EmptyDisc, DeepIsMarked, ForcedTh
<1> QED
  BY <1>1, DeepStep, InvHolds, PTL DEF Spec

\* What MarkingFifo sees.
Line == (IF wire = None THEN <<>> ELSE <<wire>>) \o dev.q \o disc.q

LEMMA Associates ==
  ASSUME NEW a \in Seq(Queueable), NEW b \in Seq(Queueable), NEW c \in Seq(Queueable)
  PROVE  a \o b \o c = a \o (b \o c) /\ a \o b \in Seq(Queueable)
OBVIOUS

LEMMA MoveHead ==
  ASSUME NEW a \in Seq(Queueable), NEW b \in Seq(Queueable), NEW c \in Seq(Queueable),
         NEW x \in Queueable
  PROVE  a \o Append(b, x) \o c = a \o b \o (<<x>> \o c)
<1>1. /\ <<x>> \in Seq(Queueable) /\ Append(b, x) = b \o <<x>>
      /\ b \o <<x>> \in Seq(Queueable) /\ <<x>> \o c \in Seq(Queueable)
  OBVIOUS
<1> DEFINE y == <<x>>
           u == b \o y
           v == y \o c
<1>2. y \in Seq(Queueable) /\ u \in Seq(Queueable) /\ v \in Seq(Queueable)
  BY <1>1
<1> HIDE DEF y
<1>3. u \o c = b \o v
  BY <1>2
<1> HIDE DEF u, v
<1>4. a \o u \o c = a \o (u \o c)
  BY <1>2
<1>5. a \o b \o v = a \o (b \o v)
  BY <1>2
<1>6. a \o u \o c = a \o b \o v
  BY <1>3, <1>4, <1>5
<1> QED
  BY <1>1, <1>6 DEF y, u, v

LEMMA LineStep ==
  ASSUME Header = 0, IInv, [Next]_vars
  PROVE  \/ \E pkt \in Packets : \E kept \in Kept(pkt) : Line' = Append(Line, kept)
         \/ Line # <<>> /\ Line' = Tail(Line)
         \/ Line' = Line
<1> DEFINE w == IF wire = None THEN <<>> ELSE <<wire>>
<1>1. /\ w \in Seq(Queueable) /\ dev.q \in Seq(Queueable) /\ disc.q \in Seq(Queueable)
      /\ (wire = None => dev.q = <<>>) /\ DevOK(dev)
  BY DEF IInv, DevOK, Devices, DiscOK, Discs
<1>2. \A a, b, c \in Seq(Queueable) : a \o b \o c = a \o (b \o c) /\ a \o b \in Seq(Queueable)
  OBVIOUS
<1>3. \A a, b \in Seq(Queueable) : \A x \in Queueable : a \o Append(b, x) = Append(a \o b, x)
  OBVIOUS
<1>4. \A b \in Seq(Queueable) : b # <<>> => <<Head(b)>> \o Tail(b) = b /\ Tail(b) \in Seq(Queueable)
                                            /\ Head(b) \in Queueable
  OBVIOUS
<1>5. \A a \in Seq(Queueable), x \in Queueable : Append(a, x) = a \o <<x>> /\ <<x>> \in Seq(Queueable)
  OBVIOUS
<1>6. \A b \in Seq(Queueable) : \A x \in Queueable :
        <<>> \o b = b /\ b \o <<>> = b /\ <<x>> \o b # <<>> /\ Tail(<<x>> \o b) = b
  OBVIOUS
<1>7. ASSUME NEW pkt \in Packets, Send(pkt)
      PROVE  Line' = Line \/ \E kept \in Kept(pkt) : Line' = Append(Line, kept)
  <2>1. /\ dev' = dev /\ wire' = wire
        /\ disc'.q = disc.q \/ \E kept \in Kept(pkt) : disc'.q = Append(disc.q, kept)
    BY <1>7, SendStep
  <2>2. ASSUME NEW kept \in Kept(pkt), disc'.q = Append(disc.q, kept)
        PROVE  Line' = Append(Line, kept)
    <3>1. kept \in Queueable
      BY KeptQueueable
    <3>2. w \o dev.q \in Seq(Queueable)
      BY <1>1, <1>2
    <3>3. Line = (w \o dev.q) \o disc.q /\ Line' = (w \o dev.q) \o Append(disc.q, kept)
      BY <2>1, <2>2 DEF Line
    <3> HIDE DEF w
    <3> QED
      BY <1>1, <1>3, <3>1, <3>2, <3>3
  <2> QED
    BY <2>1, <2>2 DEF Line
<1>8. ASSUME NEW elapsed \in BOOLEAN, NEW wraps \in BOOLEAN, RunStep(elapsed, wraps)
      PROVE  Line' = Line
  <2>1. CASE disc' = disc /\ dev' = dev /\ wire' = wire
    BY <2>1 DEF Line
  <2>2. CASE /\ ~IsStopped(dev) /\ disc.q # <<>>
             /\ Head(disc.q) \in Queueable
             /\ DeviceSend(Head(disc.q), elapsed, wraps)
             /\ disc'.q = Tail(disc.q)
    <3> DEFINE pkt == Head(disc.q)
    <3>1. BytesIn(dev.q) + SizeInDevice(pkt) <= DevMax
      <4>1. BytesIn(dev.q) + Mtu <= DevMax /\ BytesIn(dev.q) \in Nat
        BY <1>1, <2>2, BytesNat, DeviceAssumption DEF DevOK, IsStopped
      <4>2. SizeInDevice(pkt) \in Nat /\ SizeInDevice(pkt) <= Mtu
        BY <2>2, SizeBounds, DeviceAssumption
      <4> QED
        BY <4>1, <4>2, DeviceAssumption
    <3>2. SizeInDevice(pkt) \in Nat /\ BytesIn(dev.q) \in Nat
      BY <1>1, <2>2, BytesNat, SizeBounds
    <3>3. \/ /\ wire # None /\ wire' = wire /\ dev'.q = Append(dev.q, pkt)
          \/ /\ wire = None /\ dev.q = <<>> /\ dev'.q = <<>> /\ wire' = pkt /\ wire' # None
      BY <2>2, <3>1, <3>2, DeviceSendOK, NoneIsNoPacket, DeviceAssumption
    <3>4. disc.q = <<pkt>> \o Tail(disc.q) /\ Tail(disc.q) \in Seq(Queueable) /\ pkt \in Queueable
      BY <1>1, <1>4, <2>2
    <3> HIDE DEF pkt
    <3>5. CASE wire # None /\ wire' = wire /\ dev'.q = Append(dev.q, pkt)
      <4>1. Line' = w \o Append(dev.q, pkt) \o Tail(disc.q) /\ Line = w \o dev.q \o disc.q
        BY <2>2, <3>5 DEF Line
      <4> DEFINE t == Tail(disc.q)
                 b == dev.q
      <4>2. t \in Seq(Queueable) /\ w \in Seq(Queueable) /\ b \in Seq(Queueable)
        BY <1>1, <3>4
      <4>3. Line' = w \o Append(b, pkt) \o t /\ Line = w \o b \o (<<pkt>> \o t)
        BY <3>4, <4>1, Zenon
      <4> HIDE DEF w, t, b
      <4>4. w \o Append(b, pkt) \o t = w \o b \o (<<pkt>> \o t)
        BY <3>4, <4>2, MoveHead
      <4> QED
        BY <4>3, <4>4
    <3>6. CASE wire = None /\ dev.q = <<>> /\ dev'.q = <<>> /\ wire' = pkt /\ wire' # None
      <4>1. Line = <<>> \o <<>> \o disc.q /\ Line' = <<pkt>> \o <<>> \o Tail(disc.q)
        BY <2>2, <3>6 DEF Line
      <4>2. <<>> \o <<>> = <<>> /\ <<>> \o disc.q = disc.q /\ <<pkt>> \o <<>> = <<pkt>>
        BY <1>1, <1>5, <1>6, <3>4
      <4> QED
        BY <3>4, <4>1, <4>2
    <3> QED
      BY <3>3, <3>5, <3>6
  <2> QED
    BY <1>8, <2>1, <2>2, RunStepStep
<1>9. ASSUME NEW elapsed \in BOOLEAN, NEW wraps \in BOOLEAN, TransmitComplete(elapsed, wraps)
      PROVE  Line # <<>> /\ Line' = Tail(Line)
  <2>1. disc' = disc /\ wire # None /\ wire \in Queueable
    BY <1>9, TransmitCompleteStep DEF IInv
  <2>2. Line = <<wire>> \o (dev.q \o disc.q) /\ dev.q \o disc.q \in Seq(Queueable)
    <3>1. Line = <<wire>> \o dev.q \o disc.q
      BY <2>1 DEF Line
    <3> QED
      BY <1>1, <1>2, <1>5, <2>1, <3>1
  <2>3. Line # <<>> /\ Tail(Line) = dev.q \o disc.q
    BY <1>6, <2>1, <2>2
  <2>4. CASE dev.q = <<>> /\ wire' = None /\ dev' = dev
    <3>1. Line' = <<>> \o <<>> \o disc.q
      BY <2>1, <2>4 DEF Line
    <3> QED
      BY <1>1, <1>6, <2>3, <2>4, <3>1
  <2>5. CASE dev.q # <<>> /\ dev'.q = Tail(dev.q) /\ wire' = Head(dev.q) /\ wire' \in Queueable
    <3>1. Line' = <<Head(dev.q)>> \o Tail(dev.q) \o disc.q
      BY <2>1, <2>5, NoneIsNoPacket DEF Line
    <3>2. <<Head(dev.q)>> \o Tail(dev.q) = dev.q
      BY <1>1, <1>4, <2>5
    <3> QED
      BY <2>3, <3>1, <3>2
  <2> QED
    BY <1>9, <2>3, <2>4, <2>5, TransmitCompleteStep
<1>10. Wake \/ UNCHANGED vars => Line' = Line
  BY WakeStep DEF vars, Line
<1> QED
  BY <1>7, <1>8, <1>9, <1>10 DEF Next

\* The interface is a FIFO queue that loses and marks packets at its tail only.
THEOREM InterfaceIsFifo == Header = 0 /\ Spec => ImplementsFifo
<1>1. Init => Fifo!Init
  BY DEF Init, EmptyDisc, Fifo!Init
<1>2. Header = 0 /\ IInv /\ [Next]_vars => [Fifo!Next]_Line
  <2> SUFFICES ASSUME Header = 0, IInv, [Next]_vars PROVE [Fifo!Next]_Line
    OBVIOUS
  <2>1. \A pkt : Fifo!Admitted(pkt) = Kept(pkt)
    BY DEF Fifo!Admitted, Kept
  <2> QED
    BY <2>1, LineStep DEF Fifo!Next, Fifo!Admit, Fifo!Leave, Line
<1>3. ASSUME Header = 0 PROVE Spec => ImplementsFifo
  <2>1. IInv /\ [Next]_vars => [Fifo!Next]_Line
    BY <1>2, <1>3
  <2> QED
    BY <1>1, <2>1, InvHolds, PTL DEF Spec, ImplementsFifo, Fifo!Spec, Line
<1> QED
  BY <1>3
=============================================================================
