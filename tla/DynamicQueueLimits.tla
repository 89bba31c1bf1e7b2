------------------------- MODULE DynamicQueueLimits -------------------------
(***************************************************************************)
(* DynamicQueueLimits (dynamic-queue-limits.cc): how many bytes a device   *)
(* queue may hold.  The counters of bytes queued and completed only grow   *)
(* and wrap at Modulus; every comparison is made on differences, read as   *)
(* signed integers.                                                        *)
(***************************************************************************)
EXTENDS Integers

CONSTANTS
  Modulus,   \* the range of uint32_t, 2^32 in the code
  MinLimit,  \* m_minLimit
  MaxLimit   \* m_maxLimit

ASSUME ModulusAssumption == Modulus \in Nat \ {0}
ASSUME LimitAssumption ==
  /\ MinLimit \in Nat /\ MaxLimit \in Nat
  /\ MinLimit < Modulus /\ 2 * MaxLimit < Modulus

Word == 0 .. Modulus - 1
Wrap(x) == x % Modulus
Signed(x) == IF 2 * x < Modulus THEN x ELSE x - Modulus
Larger(x, y) == IF x < y THEN y ELSE x
Smaller(x, y) == IF x < y THEN x ELSE y

Limits ==
  [limit: Word, adjLimit: Word, numQueued: Word, numCompleted: Word,
   lastObjCnt: Word, prevNumQueued: Word, prevLastObjCnt: Word,
   prevOvlimit: Word, lowestSlack: Word]

\* Reset in the constructor; m_adjLimit has an initializer.
Reset ==
  [limit |-> 0, adjLimit |-> 0, numQueued |-> 0, numCompleted |-> 0,
   lastObjCnt |-> 0, prevNumQueued |-> 0, prevLastObjCnt |-> 0,
   prevOvlimit |-> 0, lowestSlack |-> Modulus - 1]

InProgressUnwrapped(dql) == dql.numQueued - dql.numCompleted

InProgress(dql) == Wrap(dql.numQueued - dql.numCompleted)

Available(dql) == Signed(Wrap(dql.adjLimit - dql.numQueued))

QueuedUnwrapped(dql, count) ==
  [dql EXCEPT !.lastObjCnt = count, !.numQueued = @ + count]

Queued(dql, count) ==
  [dql EXCEPT !.lastObjCnt = count, !.numQueued = Wrap(@ + count)]

\* The arguments are converted to int32_t.  When their difference overflows, the
\* result is undefined: wraps says whether the build wraps it, or compares the
\* arguments instead.
Posdiff(a, b, wraps) ==
  LET d == Signed(a) - Signed(b)
  IN  Larger(IF wraps THEN Signed(Wrap(d)) ELSE d, 0)

\* elapsed: the hold time has passed since m_slackStartTime.  Time is not kept.
Completed(dql, count, elapsed, wraps) ==
  LET completed == Wrap(dql.numCompleted + count)
      over == Posdiff(InProgress(dql), dql.limit, wraps)
      inprogress == Wrap(dql.numQueued - completed)
      prevInprogress == Wrap(dql.prevNumQueued - dql.numCompleted)
      allPrevCompleted == Signed(Wrap(completed - dql.prevNumQueued)) >= 0
      starved == \/ over # 0 /\ inprogress = 0
                 \/ dql.prevOvlimit # 0 /\ allPrevCompleted
      busy == inprogress # 0 /\ prevInprogress # 0 /\ ~allPrevCompleted
      slackLastObjs == IF dql.prevOvlimit # 0
                       THEN Posdiff(dql.prevLastObjCnt, dql.prevOvlimit, wraps) ELSE 0
      slack == Larger(Posdiff(Wrap(dql.limit + dql.prevOvlimit),
                              Wrap(2 * (completed - dql.numCompleted)), wraps),
                      slackLastObjs)
      lowest == Smaller(slack, dql.lowestSlack)
      wanted == IF starved
                THEN Wrap(dql.limit + Posdiff(completed, dql.prevNumQueued, wraps)
                            + dql.prevOvlimit)
                ELSE IF busy /\ elapsed THEN Posdiff(dql.limit, lowest, wraps)
                ELSE dql.limit
      limit == Smaller(Larger(wanted, MinLimit), MaxLimit)
  IN  [dql EXCEPT !.limit = limit,
                  !.adjLimit = Wrap(limit + completed),
                  !.prevOvlimit = IF limit # dql.limit THEN 0 ELSE over,
                  !.prevLastObjCnt = dql.lastObjCnt,
                  !.numCompleted = completed,
                  !.prevNumQueued = dql.numQueued,
                  !.lowestSlack = IF starved \/ (busy /\ elapsed) THEN Modulus - 1
                                  ELSE IF busy THEN lowest ELSE @]
=============================================================================
