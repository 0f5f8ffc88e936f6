--------------------------- MODULE EvDispatchProofs ---------------------------
(***************************************************************************)
(* Proofs about EvDispatch: type correctness, exclusive access to the      *)
(* queue, that the front of the queue is stable while it is worked on,     *)
(* that no deleted message is left in the queue, that no wake-up is lost,  *)
(* and that the two threads implement MsgChannel.                          *)
(***************************************************************************)
EXTENDS EvDispatch, TLAPS

(***************************************************************************)
(* The strengthening.  The queue is always a suffix of everything posted,  *)
(* and what is in front of that suffix is what has been handled, one       *)
(* message more between the handling of a message and its pop.             *)
(***************************************************************************)
QueueIsSuffix ==
    /\ Len(qfmsg) <= Len(posted)
    /\ \A i \in 1 .. Len(qfmsg) : qfmsg[i] = posted[Len(posted) - Len(qfmsg) + i]

HandledCount ==
    Len(handled) + Len(qfmsg)
        = Len(posted) + (IF dpc \in {"delete", "pop"} THEN 1 ELSE 0)

PostedDistinct ==
    \A i, j \in 1 .. Len(posted) : posted[i] = posted[j] => i = j

\* A message on its way into the queue has not been posted, by no thread.
PostingFresh ==
    \A t \in Threads : tpc[t] \in {"lock", "push"} =>
        /\ \A i \in 1 .. Len(posted) : posted[i] # tmsg[t]
        /\ \A u \in Threads \ {t} : tpc[u] \in {"lock", "push"} => tmsg[u] # tmsg[t]

PostedAllocated == \A i \in 1 .. Len(posted) : heap[posted[i]] # "free"

\* checkQueue's answer "not empty" stays right: only the dispatcher pops.
CheckStillTrue == (dpc = "checkUnlock" /\ ~empty) => qfmsg # <<>>

MutexHeldBy ==
    /\ QueueExclusive
    /\ \A t \in Threads : mutex_queue = t => tpc[t] \in {"push", "unlock"}
    /\ mutex_queue = Dispatcher => dpc \in DispatcherHolds

IInv ==
    /\ TypeOK
    /\ MutexHeldBy
    /\ CheckStillTrue /\ FrontStable
    /\ QueueIsSuffix /\ HandledCount
    /\ PostedDistinct /\ PostingFresh /\ PostedAllocated
    /\ QueueLive
    /\ NoLostWakeup
-----------------------------------------------------------------------------
USE DEF Alive, poster, dispatcher, history, DispatcherHolds, DispatcherIdle

\* The initial states satisfy the invariant.
LEMMA InitIInv == Init => IInv
<1> SUFFICES ASSUME Init PROVE IInv
    OBVIOUS
<1> USE DEF Init
<1>1. TypeOK
  <2>1. qfmsg \in Seq(Msgs) /\ posted \in Seq(Msgs) /\ handled \in Seq(Msgs)
    OBVIOUS
  <2>2. pending \in BOOLEAN /\ empty \in BOOLEAN /\ aborted \in BOOLEAN
    OBVIOUS
  <2>3. tpc \in [Threads -> {"ready", "lock", "push", "unlock", "send"}]
    OBVIOUS
  <2>4. heap \in [Msgs -> {"free", "live", "deleted"}]
    OBVIOUS
  <2>5. dpc \in DispatcherHolds \cup DispatcherIdle \cup {"checkLock", "procLock"}
    OBVIOUS
  <2> QED
    BY <2>1, <2>2, <2>3, <2>4, <2>5 DEF TypeOK
<1>2. MutexHeldBy
    BY EvDispatchAssumption DEF MutexHeldBy, QueueExclusive
<1>3. CheckStillTrue /\ FrontStable
    BY DEF CheckStillTrue, FrontStable
<1>4. QueueIsSuffix /\ HandledCount
    BY DEF QueueIsSuffix, HandledCount
<1>5. PostedDistinct /\ PostingFresh /\ PostedAllocated
    BY DEF PostedDistinct, PostingFresh, PostedAllocated
<1>6. QueueLive /\ NoLostWakeup
    BY DEF QueueLive, NoLostWakeup
<1> QED
    BY <1>1, <1>2, <1>3, <1>4, <1>5, <1>6 DEF IInv

\* Every step keeps the types.
LEMMA TypeStep == TypeOK /\ CheckStillTrue /\ FrontStable /\ [Next]_vars => TypeOK'
<1> SUFFICES ASSUME TypeOK, CheckStillTrue, FrontStable, [Next]_vars PROVE TypeOK'
    OBVIOUS
<1> USE DEF TypeOK
<1>1. CASE \E t \in Threads, m \in Msgs : ParsePacketBad(t, m)
    BY <1>1 DEF ParsePacketBad
<1>22. CASE \E t \in Threads, m \in Msgs : ParsePacketThrows(t, m)
    BY <1>22 DEF ParsePacketThrows
<1>2. CASE \E t \in Threads, m \in Msgs : ParsePacketGood(t, m)
    BY <1>2 DEF ParsePacketGood
<1>3. CASE \E t \in Threads : PostLock(t)
    BY <1>3 DEF PostLock
<1>4. CASE \E t \in Threads : PostPush(t)
    BY <1>4 DEF PostPush
<1>5. CASE \E t \in Threads : PostUnlock(t)
    BY <1>5 DEF PostUnlock
<1>6. CASE \E t \in Threads : PostSend(t)
    BY <1>6 DEF PostSend
<1>7. CASE Start
    BY <1>7 DEF Start
<1>8. CASE Wake
    BY <1>8 DEF Wake
<1>9. CASE CheckLock
    BY <1>9 DEF CheckLock
<1>10. CASE Check
    BY <1>10 DEF Check
<1>11. CASE CheckUnlock
    BY <1>11 DEF CheckUnlock
<1>12. CASE ProcLock
    BY <1>12 DEF ProcLock
<1>13. CASE Front
    BY <1>13 DEF Front, FrontStable
<1>14. CASE ProcUnhandled
    BY <1>14 DEF ProcUnhandled
<1>15. CASE ProcTransact
    BY <1>15 DEF ProcTransact
<1>16. CASE ProcReturn
    BY <1>16 DEF ProcReturn
<1>17. CASE DeleteAgain
    BY <1>17 DEF DeleteAgain
<1>21. CASE JvmDies
    BY <1>21 DEF JvmDies
<1>18. CASE Pop
    BY <1>18 DEF Pop, FrontStable
<1>19. CASE ProcUnlock
    BY <1>19 DEF ProcUnlock
<1>20. CASE UNCHANGED vars
    BY <1>20 DEF vars
<1> QED
    BY <1>1, <1>2, <1>3, <1>4, <1>5, <1>6, <1>7, <1>8, <1>9, <1>10, <1>11, <1>12, <1>13, <1>14, <1>15, <1>16, <1>17, <1>18, <1>19, <1>20, <1>21, <1>22 DEF Next, postMsg, afterpost_cb, Finished

\* Every step keeps the mutex with the thread that works on the queue.
LEMMA MutexStep == TypeOK /\ MutexHeldBy /\ [Next]_vars => MutexHeldBy'
<1> SUFFICES ASSUME TypeOK, MutexHeldBy, [Next]_vars PROVE MutexHeldBy'
    OBVIOUS
<1> USE EvDispatchAssumption DEF TypeOK, MutexHeldBy, QueueExclusive
<1>1. CASE \E t \in Threads, m \in Msgs : ParsePacketBad(t, m)
    BY <1>1 DEF ParsePacketBad
<1>22. CASE \E t \in Threads, m \in Msgs : ParsePacketThrows(t, m)
    BY <1>22 DEF ParsePacketThrows
<1>2. CASE \E t \in Threads, m \in Msgs : ParsePacketGood(t, m)
    BY <1>2 DEF ParsePacketGood
<1>3. CASE \E t \in Threads : PostLock(t)
    BY <1>3 DEF PostLock
<1>4. CASE \E t \in Threads : PostPush(t)
    BY <1>4 DEF PostPush
<1>5. CASE \E t \in Threads : PostUnlock(t)
    BY <1>5 DEF PostUnlock
<1>6. CASE \E t \in Threads : PostSend(t)
    BY <1>6 DEF PostSend
<1>7. CASE Start
    BY <1>7 DEF Start
<1>8. CASE Wake
    BY <1>8 DEF Wake
<1>9. CASE CheckLock
    BY <1>9 DEF CheckLock
<1>10. CASE Check
    BY <1>10 DEF Check
<1>11. CASE CheckUnlock
    BY <1>11 DEF CheckUnlock
<1>12. CASE ProcLock
    BY <1>12 DEF ProcLock
<1>13. CASE Front
    BY <1>13 DEF Front
<1>14. CASE ProcUnhandled
    BY <1>14 DEF ProcUnhandled
<1>15. CASE ProcTransact
    BY <1>15 DEF ProcTransact
<1>16. CASE ProcReturn
    BY <1>16 DEF ProcReturn
<1>17. CASE DeleteAgain
    BY <1>17 DEF DeleteAgain
<1>21. CASE JvmDies
    BY <1>21 DEF JvmDies
<1>18. CASE Pop
    BY <1>18 DEF Pop
<1>19. CASE ProcUnlock
    BY <1>19 DEF ProcUnlock
<1>20. CASE UNCHANGED vars
    BY <1>20 DEF vars
<1> QED
    BY <1>1, <1>2, <1>3, <1>4, <1>5, <1>6, <1>7, <1>8, <1>9, <1>10, <1>11, <1>12,
       <1>13, <1>14, <1>15, <1>16, <1>17, <1>18, <1>19, <1>20, <1>21, <1>22 DEF Next, postMsg,
       afterpost_cb, Finished

\* Every step keeps what afterpost_cb relies on about the front of the queue.
LEMMA FrontStep == TypeOK /\ CheckStillTrue /\ FrontStable /\ [Next]_vars => CheckStillTrue' /\ FrontStable'
<1> SUFFICES ASSUME TypeOK, CheckStillTrue, FrontStable, [Next]_vars PROVE CheckStillTrue' /\ FrontStable'
    OBVIOUS
<1> USE EvDispatchAssumption DEF TypeOK, CheckStillTrue, FrontStable
<1>1. CASE \E t \in Threads, m \in Msgs : ParsePacketBad(t, m)
    BY <1>1 DEF ParsePacketBad
<1>22. CASE \E t \in Threads, m \in Msgs : ParsePacketThrows(t, m)
    BY <1>22 DEF ParsePacketThrows
<1>2. CASE \E t \in Threads, m \in Msgs : ParsePacketGood(t, m)
    BY <1>2 DEF ParsePacketGood
<1>3. CASE \E t \in Threads : PostLock(t)
    BY <1>3 DEF PostLock
<1>4. CASE \E t \in Threads : PostPush(t)
  <2>1. PICK t \in Threads : PostPush(t)
    BY <1>4
  <2>2. tmsg[t] \in Msgs /\ qfmsg' = Append(qfmsg, tmsg[t])
    BY <2>1 DEF PostPush
  <2>3. qfmsg' # <<>>
    BY <2>2
  <2>4. qfmsg # <<>> => Head(qfmsg') = Head(qfmsg)
    BY <2>2
  <2> QED
    BY <2>1, <2>3, <2>4 DEF PostPush
<1>5. CASE \E t \in Threads : PostUnlock(t)
    BY <1>5 DEF PostUnlock
<1>6. CASE \E t \in Threads : PostSend(t)
    BY <1>6 DEF PostSend
<1>7. CASE Start
    BY <1>7 DEF Start
<1>8. CASE Wake
    BY <1>8 DEF Wake
<1>9. CASE CheckLock
    BY <1>9 DEF CheckLock
<1>10. CASE Check
    BY <1>10 DEF Check
<1>11. CASE CheckUnlock
    BY <1>11 DEF CheckUnlock
<1>12. CASE ProcLock
    BY <1>12 DEF ProcLock
<1>13. CASE Front
    BY <1>13 DEF Front
<1>14. CASE ProcUnhandled
    BY <1>14 DEF ProcUnhandled
<1>15. CASE ProcTransact
    BY <1>15 DEF ProcTransact
<1>16. CASE ProcReturn
    BY <1>16 DEF ProcReturn
<1>17. CASE DeleteAgain
    BY <1>17 DEF DeleteAgain
<1>21. CASE JvmDies
    BY <1>21 DEF JvmDies
<1>18. CASE Pop
    BY <1>18 DEF Pop
<1>19. CASE ProcUnlock
    BY <1>19 DEF ProcUnlock
<1>20. CASE UNCHANGED vars
    BY <1>20 DEF vars
<1> QED
    BY <1>1, <1>2, <1>3, <1>4, <1>5, <1>6, <1>7, <1>8, <1>9, <1>10, <1>11, <1>12,
       <1>13, <1>14, <1>15, <1>16, <1>17, <1>18, <1>19, <1>20, <1>21, <1>22 DEF Next, postMsg,
       afterpost_cb, Finished

\* Every step keeps a wake-up in sight.
LEMMA WakeStep == TypeOK /\ NoLostWakeup /\ [Next]_vars => NoLostWakeup'
<1> SUFFICES ASSUME TypeOK, NoLostWakeup, [Next]_vars PROVE NoLostWakeup'
    OBVIOUS
<1> USE EvDispatchAssumption DEF TypeOK, NoLostWakeup
<1>1. CASE \E t \in Threads, m \in Msgs : ParsePacketBad(t, m)
    BY <1>1 DEF ParsePacketBad
<1>22. CASE \E t \in Threads, m \in Msgs : ParsePacketThrows(t, m)
    BY <1>22 DEF ParsePacketThrows
<1>2. CASE \E t \in Threads, m \in Msgs : ParsePacketGood(t, m)
    BY <1>2 DEF ParsePacketGood
<1>3. CASE \E t \in Threads : PostLock(t)
    BY <1>3 DEF PostLock
<1>4. CASE \E t \in Threads : PostPush(t)
    BY <1>4 DEF PostPush
<1>5. CASE \E t \in Threads : PostUnlock(t)
    BY <1>5 DEF PostUnlock
<1>6. CASE \E t \in Threads : PostSend(t)
    BY <1>6 DEF PostSend
<1>7. CASE Start
    BY <1>7 DEF Start
<1>8. CASE Wake
    BY <1>8 DEF Wake
<1>9. CASE CheckLock
    BY <1>9 DEF CheckLock
<1>10. CASE Check
    BY <1>10 DEF Check
<1>11. CASE CheckUnlock
    BY <1>11 DEF CheckUnlock
<1>12. CASE ProcLock
    BY <1>12 DEF ProcLock
<1>13. CASE Front
    BY <1>13 DEF Front
<1>14. CASE ProcUnhandled
    BY <1>14 DEF ProcUnhandled
<1>15. CASE ProcTransact
    BY <1>15 DEF ProcTransact
<1>16. CASE ProcReturn
    BY <1>16 DEF ProcReturn
<1>17. CASE DeleteAgain
    BY <1>17 DEF DeleteAgain
<1>21. CASE JvmDies
    BY <1>21 DEF JvmDies
<1>18. CASE Pop
    BY <1>18 DEF Pop
<1>19. CASE ProcUnlock
    BY <1>19 DEF ProcUnlock
<1>20. CASE UNCHANGED vars
    BY <1>20 DEF vars
<1> QED
    BY <1>1, <1>2, <1>3, <1>4, <1>5, <1>6, <1>7, <1>8, <1>9, <1>10, <1>11, <1>12,
       <1>13, <1>14, <1>15, <1>16, <1>17, <1>18, <1>19, <1>20, <1>21, <1>22 DEF Next, postMsg,
       afterpost_cb, Finished

\* Every step keeps the queue a suffix of what was posted.
LEMMA SuffixStep == TypeOK /\ FrontStable /\ QueueIsSuffix /\ HandledCount /\ [Next]_vars => QueueIsSuffix' /\ HandledCount'
<1> SUFFICES ASSUME TypeOK, FrontStable, QueueIsSuffix, HandledCount, [Next]_vars PROVE QueueIsSuffix' /\ HandledCount'
    OBVIOUS
<1> USE EvDispatchAssumption DEF TypeOK, FrontStable, QueueIsSuffix, HandledCount
<1>1. CASE \E t \in Threads, m \in Msgs : ParsePacketBad(t, m)
    BY <1>1 DEF ParsePacketBad
<1>22. CASE \E t \in Threads, m \in Msgs : ParsePacketThrows(t, m)
    BY <1>22 DEF ParsePacketThrows
<1>2. CASE \E t \in Threads, m \in Msgs : ParsePacketGood(t, m)
    BY <1>2 DEF ParsePacketGood
<1>3. CASE \E t \in Threads : PostLock(t)
    BY <1>3 DEF PostLock
<1>4. CASE \E t \in Threads : PostPush(t)
  <2>1. PICK t \in Threads : PostPush(t)
    BY <1>4
  <2>2. /\ tmsg[t] \in Msgs
        /\ qfmsg' = Append(qfmsg, tmsg[t])
        /\ posted' = Append(posted, tmsg[t])
    BY <2>1 DEF PostPush
  <2>3. Len(qfmsg') = Len(qfmsg) + 1 /\ Len(posted') = Len(posted) + 1
    BY <2>2
  <2>4. HandledCount'
    <3>1. handled' = handled /\ dpc' = dpc
      BY <2>1 DEF PostPush
    <3>2. Len(handled) \in Nat /\ Len(qfmsg) \in Nat /\ Len(posted) \in Nat
      OBVIOUS
    <3>3. Len(handled') + Len(qfmsg') = Len(handled) + Len(qfmsg) + 1
      BY <2>3, <3>1, <3>2
    <3>4. CASE dpc \in {"delete", "pop"}
      <4>1. Len(handled) + Len(qfmsg) = Len(posted) + 1
        BY <3>4
      <4>2. Len(handled') + Len(qfmsg') = Len(posted') + 1
        BY <2>3, <3>2, <3>3, <4>1
      <4>3. dpc' \in {"delete", "pop"}
        BY <3>1, <3>4
      <4> QED
        BY <4>2, <4>3
    <3>5. CASE dpc \notin {"delete", "pop"}
      <4>1. Len(handled) + Len(qfmsg) = Len(posted)
        BY <3>2, <3>5
      <4>2. Len(handled') + Len(qfmsg') = Len(posted')
        BY <2>3, <3>2, <3>3, <4>1
      <4>3. dpc' \notin {"delete", "pop"}
        BY <3>1, <3>5
      <4> QED
        BY <2>3, <3>2, <4>2, <4>3
    <3> QED
      BY <3>4, <3>5
  <2>5. ASSUME NEW i \in 1 .. Len(qfmsg')
        PROVE  qfmsg'[i] = posted'[Len(posted') - Len(qfmsg') + i]
    <3>1. CASE i \in 1 .. Len(qfmsg)
      <4>1. Len(posted) - Len(qfmsg) + i \in 1 .. Len(posted)
        BY <3>1
      <4>2. qfmsg'[i] = qfmsg[i]
        BY <2>2, <3>1
      <4>3. posted'[Len(posted) - Len(qfmsg) + i] = posted[Len(posted) - Len(qfmsg) + i]
        BY <2>2, <4>1
      <4> QED
        BY <2>3, <3>1, <4>2, <4>3
    <3>2. CASE i = Len(qfmsg) + 1
      <4>1. qfmsg'[i] = tmsg[t] /\ posted'[Len(posted) + 1] = tmsg[t]
        BY <2>2, <3>2
      <4>2. Len(posted') - Len(qfmsg') + i = Len(posted) + 1
        BY <2>3, <3>2
      <4> QED
        BY <4>1, <4>2
    <3> QED
      BY <2>3, <3>1, <3>2
  <2> QED
    BY <2>3, <2>4, <2>5
<1>5. CASE \E t \in Threads : PostUnlock(t)
    BY <1>5 DEF PostUnlock
<1>6. CASE \E t \in Threads : PostSend(t)
    BY <1>6 DEF PostSend
<1>7. CASE Start
    BY <1>7 DEF Start
<1>8. CASE Wake
    BY <1>8 DEF Wake
<1>9. CASE CheckLock
    BY <1>9 DEF CheckLock
<1>10. CASE Check
    BY <1>10 DEF Check
<1>11. CASE CheckUnlock
    BY <1>11 DEF CheckUnlock
<1>12. CASE ProcLock
    BY <1>12 DEF ProcLock
<1>13. CASE Front
    BY <1>13 DEF Front
<1>14. CASE ProcUnhandled
    BY <1>14 DEF ProcUnhandled
<1>15. CASE ProcTransact
    BY <1>15 DEF ProcTransact
<1>16. CASE ProcReturn
    BY <1>16 DEF ProcReturn
<1>17. CASE DeleteAgain
    BY <1>17 DEF DeleteAgain
<1>21. CASE JvmDies
    BY <1>21 DEF JvmDies
<1>18. CASE Pop
    BY <1>18 DEF Pop
<1>19. CASE ProcUnlock
    BY <1>19 DEF ProcUnlock
<1>20. CASE UNCHANGED vars
    BY <1>20 DEF vars
<1> QED
    BY <1>1, <1>2, <1>3, <1>4, <1>5, <1>6, <1>7, <1>8, <1>9, <1>10, <1>11, <1>12,
       <1>13, <1>14, <1>15, <1>16, <1>17, <1>18, <1>19, <1>20, <1>21, <1>22 DEF Next, postMsg,
       afterpost_cb, Finished

\* Every step keeps the messages apart.
LEMMA DistinctStep == TypeOK /\ PostedDistinct /\ PostingFresh /\ PostedAllocated /\ QueueLive /\ [Next]_vars => PostedDistinct' /\ PostingFresh' /\ PostedAllocated'
<1> SUFFICES ASSUME TypeOK, PostedDistinct, PostingFresh, PostedAllocated, QueueLive, [Next]_vars PROVE PostedDistinct' /\ PostingFresh' /\ PostedAllocated'
    OBVIOUS
<1> USE EvDispatchAssumption DEF TypeOK, PostedDistinct, PostingFresh, PostedAllocated
<1>1. CASE \E t \in Threads, m \in Msgs : ParsePacketBad(t, m)
    BY <1>1 DEF ParsePacketBad
<1>22. CASE \E t \in Threads, m \in Msgs : ParsePacketThrows(t, m)
    BY <1>22 DEF ParsePacketThrows
<1>2. CASE \E t \in Threads, m \in Msgs : ParsePacketGood(t, m)
  <2>1. PICK t \in Threads, m \in Msgs : ParsePacketGood(t, m)
    BY <1>2
  <2>2. /\ tpc' = [tpc EXCEPT ![t] = "lock"]
        /\ tmsg' = [tmsg EXCEPT ![t] = m]
        /\ heap' = [heap EXCEPT ![m] = "live"]
        /\ heap[m] = "free"
        /\ posted' = posted
    BY <2>1 DEF ParsePacketGood
  <2>3. PostedDistinct' /\ PostedAllocated'
    BY <2>2
  <2>4. \A i \in 1 .. Len(posted) : posted[i] # m
    BY <2>2
  <2>5. \A u \in Threads : tpc[u] \in {"lock", "push"} => tmsg[u] # m
    BY <2>2 DEF QueueLive
  <2> QED
    BY <2>2, <2>3, <2>4, <2>5
<1>3. CASE \E t \in Threads : PostLock(t)
    BY <1>3 DEF PostLock
<1>4. CASE \E t \in Threads : PostPush(t)
  <2>1. PICK t \in Threads : PostPush(t)
    BY <1>4
  <2>2. /\ tpc[t] = "push"
        /\ tmsg[t] \in Msgs
        /\ posted' = Append(posted, tmsg[t])
        /\ tpc' = [tpc EXCEPT ![t] = "unlock"]
        /\ tmsg' = tmsg /\ heap' = heap
    BY <2>1 DEF PostPush
  <2>3. /\ Len(posted') = Len(posted) + 1
        /\ \A i \in 1 .. Len(posted) : posted'[i] = posted[i]
        /\ posted'[Len(posted) + 1] = tmsg[t]
    BY <2>2
  <2>4. \A i \in 1 .. Len(posted) : posted[i] # tmsg[t]
    BY <2>2
  <2>5. PostedDistinct'
    BY <2>3, <2>4, SMTT(20)
  <2>6. heap[tmsg[t]] # "free"
    BY <2>2 DEF QueueLive
  <2>7. PostedAllocated'
    BY <2>2, <2>3, <2>6
  <2>8. PostingFresh'
    BY <2>2, <2>3
  <2> QED
    BY <2>5, <2>7, <2>8
<1>5. CASE \E t \in Threads : PostUnlock(t)
    BY <1>5 DEF PostUnlock
<1>6. CASE \E t \in Threads : PostSend(t)
    BY <1>6 DEF PostSend
<1>7. CASE Start
    BY <1>7 DEF Start
<1>8. CASE Wake
    BY <1>8 DEF Wake
<1>9. CASE CheckLock
    BY <1>9 DEF CheckLock
<1>10. CASE Check
    BY <1>10 DEF Check
<1>11. CASE CheckUnlock
    BY <1>11 DEF CheckUnlock
<1>12. CASE ProcLock
    BY <1>12 DEF ProcLock
<1>13. CASE Front
    BY <1>13 DEF Front
<1>14. CASE ProcUnhandled
    BY <1>14 DEF ProcUnhandled
<1>15. CASE ProcTransact
    BY <1>15 DEF ProcTransact
<1>16. CASE ProcReturn
    BY <1>16 DEF ProcReturn
<1>17. CASE DeleteAgain
    BY <1>17 DEF DeleteAgain
<1>21. CASE JvmDies
    BY <1>21 DEF JvmDies
<1>18. CASE Pop
    BY <1>18 DEF Pop
<1>19. CASE ProcUnlock
    BY <1>19 DEF ProcUnlock
<1>20. CASE UNCHANGED vars
    BY <1>20 DEF vars
<1> QED
    BY <1>1, <1>2, <1>3, <1>4, <1>5, <1>6, <1>7, <1>8, <1>9, <1>10, <1>11, <1>12,
       <1>13, <1>14, <1>15, <1>16, <1>17, <1>18, <1>19, <1>20, <1>21, <1>22 DEF Next, postMsg,
       afterpost_cb, Finished

\* Every step keeps deleted messages out of the queue.
LEMMA LiveStep == TypeOK /\ FrontStable /\ QueueIsSuffix /\ PostedDistinct /\ PostingFresh /\ QueueLive /\ [Next]_vars => QueueLive'
<1> SUFFICES ASSUME TypeOK, FrontStable, QueueIsSuffix, PostedDistinct, PostingFresh, QueueLive, [Next]_vars PROVE QueueLive'
    OBVIOUS
<1> USE EvDispatchAssumption DEF TypeOK, FrontStable, QueueIsSuffix, PostedDistinct, PostingFresh, QueueLive
<1>1. CASE \E t \in Threads, m \in Msgs : ParsePacketBad(t, m)
    BY <1>1 DEF ParsePacketBad
<1>22. CASE \E t \in Threads, m \in Msgs : ParsePacketThrows(t, m)
    BY <1>22 DEF ParsePacketThrows
<1>2. CASE \E t \in Threads, m \in Msgs : ParsePacketGood(t, m)
    BY <1>2 DEF ParsePacketGood
<1>3. CASE \E t \in Threads : PostLock(t)
    BY <1>3 DEF PostLock
<1>4. CASE \E t \in Threads : PostPush(t)
    BY <1>4 DEF PostPush
<1>5. CASE \E t \in Threads : PostUnlock(t)
    BY <1>5 DEF PostUnlock
<1>6. CASE \E t \in Threads : PostSend(t)
    BY <1>6 DEF PostSend
<1>7. CASE Start
    BY <1>7 DEF Start
<1>8. CASE Wake
    BY <1>8 DEF Wake
<1>9. CASE CheckLock
    BY <1>9 DEF CheckLock
<1>10. CASE Check
    BY <1>10 DEF Check
<1>11. CASE CheckUnlock
    BY <1>11 DEF CheckUnlock
<1>12. CASE ProcLock
    BY <1>12 DEF ProcLock
<1>13. CASE Front
    BY <1>13 DEF Front
<1>14. CASE ProcUnhandled
  <2>1. /\ dpc = "proc" /\ dpc' = "delete"
        /\ heap' = [heap EXCEPT ![msg] = "deleted"]
        /\ qfmsg' = qfmsg /\ tpc' = tpc /\ tmsg' = tmsg
    BY <1>14 DEF ProcUnhandled
  <2>2. qfmsg # <<>> /\ qfmsg[1] = msg
    BY <2>1
  <2>3. ASSUME NEW i \in 1 .. Len(qfmsg), i # 1
        PROVE  heap'[qfmsg[i]] = "live"
    <3>1. heap[qfmsg[i]] = "live"
      BY <2>1, <2>3
    <3>2. qfmsg[i] # qfmsg[1]
      BY <2>2, <2>3, SMTT(20)
    <3> QED
      BY <2>1, <2>2, <3>1, <3>2
  <2>4. ASSUME NEW t \in Threads, tpc[t] \in {"lock", "push"}
        PROVE  heap'[tmsg[t]] = "live"
    <3>1. tmsg[t] # qfmsg[1]
      BY <2>2, <2>4, SMTT(20)
    <3> QED
      BY <2>1, <2>2, <2>4, <3>1
  <2> QED
    BY <2>1, <2>3, <2>4
<1>15. CASE ProcTransact
    BY <1>15 DEF ProcTransact
<1>16. CASE ProcReturn
  <2>1. /\ dpc = "transact" /\ dpc' = "delete"
        /\ heap' = [heap EXCEPT ![msg] = "deleted"]
        /\ qfmsg' = qfmsg /\ tpc' = tpc /\ tmsg' = tmsg
    BY <1>16 DEF ProcReturn
  <2>2. qfmsg # <<>> /\ qfmsg[1] = msg
    BY <2>1
  <2>3. ASSUME NEW i \in 1 .. Len(qfmsg), i # 1
        PROVE  heap'[qfmsg[i]] = "live"
    <3>1. heap[qfmsg[i]] = "live"
      BY <2>1, <2>3
    <3>2. qfmsg[i] # qfmsg[1]
      BY <2>2, <2>3, SMTT(20)
    <3> QED
      BY <2>1, <2>2, <3>1, <3>2
  <2>4. ASSUME NEW t \in Threads, tpc[t] \in {"lock", "push"}
        PROVE  heap'[tmsg[t]] = "live"
    <3>1. tmsg[t] # qfmsg[1]
      BY <2>2, <2>4, SMTT(20)
    <3> QED
      BY <2>1, <2>2, <2>4, <3>1
  <2> QED
    BY <2>1, <2>3, <2>4
<1>17. CASE DeleteAgain
    BY <1>17 DEF DeleteAgain
<1>21. CASE JvmDies
    BY <1>21 DEF JvmDies
<1>18. CASE Pop
    BY <1>18 DEF Pop
<1>19. CASE ProcUnlock
    BY <1>19 DEF ProcUnlock
<1>20. CASE UNCHANGED vars
    BY <1>20 DEF vars
<1> QED
    BY <1>1, <1>2, <1>3, <1>4, <1>5, <1>6, <1>7, <1>8, <1>9, <1>10, <1>11, <1>12,
       <1>13, <1>14, <1>15, <1>16, <1>17, <1>18, <1>19, <1>20, <1>21, <1>22 DEF Next, postMsg,
       afterpost_cb, Finished

\* IInv is inductive.
LEMMA NextIInv == IInv /\ [Next]_vars => IInv'
BY TypeStep, MutexStep, FrontStep, WakeStep, SuffixStep, DistinctStep, LiveStep DEF IInv

\* The invariant holds in every reachable state.
LEMMA Invariance == Spec => []IInv
BY InitIInv, NextIInv, PTL DEF Spec

\* Type correctness, for any number of threads and messages.
THEOREM TypeCorrect == Spec => []TypeOK
BY Invariance, PTL DEF IInv

\* mutex_queue protects the queue: nobody touches it without holding the mutex.
THEOREM Exclusive == Spec => []QueueExclusive
BY Invariance, PTL DEF IInv, MutexHeldBy

\* What afterpost_cb checked about the queue still holds when it uses it.
THEOREM FrontIsStable == Spec => []FrontStable
BY Invariance, PTL DEF IInv

\* No deleted message can be reached through the queue or by a posting thread.
THEOREM NoDeletedQueued == Spec => []QueueLive
BY Invariance, PTL DEF IInv

\* A message in the queue always has a wake-up ahead of it.
THEOREM WakeupKept == Spec => []NoLostWakeup
BY Invariance, PTL DEF IInv

\* A step of the two threads is a step of the abstract channel or changes nothing of it.
LEMMA ChannelStep == IInv /\ [Next]_vars => [Channel!Next]_Channel!chVars
<1> SUFFICES ASSUME IInv, [Next]_vars PROVE [Channel!Next]_Channel!chVars
    OBVIOUS
<1> USE DEF IInv, TypeOK, Channel!chVars
<1>1. ASSUME NEW t \in Threads, PostPush(t) PROVE Channel!Post
  <2>1. /\ tpc[t] = "push" /\ tmsg[t] \in Msgs
        /\ posted' = Append(posted, tmsg[t])
        /\ handled' = handled
    BY <1>1 DEF PostPush
  <2>2. tmsg[t] \notin Channel!Elements(posted)
    BY <2>1 DEF PostingFresh, Channel!Elements
  <2> QED
    BY <2>1, <2>2 DEF Channel!Post
<1>2. ASSUME ProcUnhandled \/ ProcReturn PROVE Channel!Handle
  <2>1. /\ dpc \in {"proc", "transact"}
        /\ handled' = Append(handled, msg)
        /\ posted' = posted
    BY <1>2 DEF ProcUnhandled, ProcReturn
  <2>2. qfmsg # <<>> /\ qfmsg[1] = msg
    BY <2>1 DEF FrontStable
  <2>3. Len(handled) + Len(qfmsg) = Len(posted)
    BY <2>1 DEF HandledCount
  <2>4. Len(handled) \in Nat /\ Len(qfmsg) \in Nat /\ Len(posted) \in Nat /\ Len(qfmsg) > 0
    BY <2>2
  <2>5. msg = posted[Len(handled) + 1]
    BY <2>2, <2>3, <2>4 DEF QueueIsSuffix
  <2> QED
    BY <2>1, <2>3, <2>4, <2>5 DEF Channel!Handle
<1>3. CASE \E t \in Threads : PostLock(t) \/ PostUnlock(t) \/ PostSend(t)
    BY <1>3 DEF PostLock, PostUnlock, PostSend
<1>4. CASE \E t \in Threads, m \in Msgs :
            ParsePacketBad(t, m) \/ ParsePacketThrows(t, m) \/ ParsePacketGood(t, m)
    BY <1>4 DEF ParsePacketBad, ParsePacketThrows, ParsePacketGood
<1>5. CASE Start \/ Wake \/ CheckLock \/ Check \/ CheckUnlock \/ ProcLock \/ Front
    BY <1>5 DEF Start, Wake, CheckLock, Check, CheckUnlock, ProcLock, Front
<1>6. CASE ProcTransact \/ JvmDies \/ DeleteAgain \/ Pop \/ ProcUnlock
    BY <1>6 DEF ProcTransact, JvmDies, DeleteAgain, Pop, ProcUnlock
<1>7. CASE UNCHANGED vars
    BY <1>7 DEF vars
<1> QED
    BY <1>1, <1>2, <1>3, <1>4, <1>5, <1>6, <1>7
    DEF Channel!Next, Next, postMsg, afterpost_cb, Finished

\* The dispatcher implements the abstract channel: every message is handled at most
\* once, in posting order and only after it was posted, for any number of threads.
THEOREM Refinement == Spec => ImplementsMsgChannel
<1>1. Init => Channel!Init
    BY DEF Init, Channel!Init
<1>2. IInv /\ [Next]_vars => [Channel!Next]_Channel!chVars
    BY ChannelStep
<1> QED
    BY <1>1, <1>2, Invariance, PTL DEF ImplementsMsgChannel, Channel!Spec, Spec
=============================================================================
