------------------------ MODULE HalEventQueue_proofs ------------------------
(***************************************************************************)
(* For every set of HAL threads, every set of payloads and every queue     *)
(* size: the callback queue is type correct, its counter equals the length *)
(* of the list, no wake-up is lost, and its steps are those of the         *)
(* bounded box.                                                            *)
(*                                                                         *)
(* The code's guards alone do not keep the counter from going below zero:  *)
(* the loop decrements it because the list is not empty.  So the type      *)
(* invariant is proved together with CounterMatchesList, with the fact     *)
(* that a thread between lock and append carries an event, and with the    *)
(* queue being empty until the callback is registered.                     *)
(***************************************************************************)
EXTENDS HalEventQueue, TLAPS

\* A thread that holds the mutex and has not appended yet holds its event.
CarriesEvent == \A t \in Threads : pc[t] = "locked" => cbe[t] \in Events

\* No callback runs before the registration, so the queue is still empty.
QuietUntilRegistered ==
    ~registered => hal_cb_queue = <<>> /\ \A t \in Threads : pc[t] = "idle"

QInv == TypeOK /\ CounterMatchesList /\ CarriesEvent /\ QuietUntilRegistered

USE QueueMaxAssumption, SavesLoopAssumption, OwnersAssumption, NoEventAssumption

-----------------------------------------------------------------------------
\* Initially nothing is queued and nobody is inside the callback.
LEMMA InitQInv == Init => QInv
<1> SUFFICES ASSUME Init PROVE QInv
  OBVIOUS
<1>1. TypeOK
  <2>1. <<>> \in Seq(Events)
    OBVIOUS
  <2>2. 0 \in 0 .. HAL_CB_QUEUE_MAX
    OBVIOUS
  <2>3. /\ pc \in [Threads -> {"idle", "locked", "queued", "unlocked", "send"}]
        /\ cbe \in [Threads -> Events \cup {NoEvent}]
    BY DEF Init
  <2> QED
    BY <2>1, <2>2, <2>3 DEF Init, TypeOK
<1>2. CounterMatchesList
  BY DEF Init, CounterMatchesList
<1>3. CarriesEvent
  BY DEF Init, CarriesEvent
<1>4. QuietUntilRegistered
  BY DEF Init, QuietUntilRegistered
<1> QED
  BY <1>1, <1>2, <1>3, <1>4 DEF QInv

\* Whatever step is taken, the counter keeps counting the list.
LEMMA NextQInv == QInv /\ [Next]_vars => QInv'
<1> SUFFICES ASSUME QInv, [Next]_vars PROVE QInv'
  OBVIOUS
<1> USE DEF QInv, TypeOK, CounterMatchesList, CarriesEvent, QuietUntilRegistered,
            initVars, queueVars, threadVars
<1>1. CASE HalInit
  BY <1>1 DEF HalInit
<1>2. ASSUME NEW t \in Threads, NEW e \in Events, CbLock(t, e)
      PROVE  QInv'
  BY <1>2 DEF CbLock
<1>3. ASSUME NEW t \in Threads, CbRefuse(t)
      PROVE  QInv'
  BY <1>3 DEF CbRefuse
<1>4. ASSUME NEW t \in Threads, CbEnqueue(t)
      PROVE  QInv'
  <2>1. cbe[t] \in Events
    BY <1>4 DEF CbEnqueue
  <2>2. /\ hal_cb_queue' \in Seq(Events)
        /\ Len(hal_cb_queue') = Len(hal_cb_queue) + 1
    BY <1>4, <2>1 DEF CbEnqueue
  <2>3. hal_cb_queue_len' \in 0 .. HAL_CB_QUEUE_MAX
    BY <1>4 DEF CbEnqueue
  <2> QED
    BY <1>4, <2>2, <2>3 DEF CbEnqueue
<1>5. ASSUME NEW t \in Threads, CbUnlock(t)
      PROVE  QInv'
  BY <1>5 DEF CbUnlock
<1>6. ASSUME NEW t \in Threads, CbCheck(t)
      PROVE  QInv'
  BY <1>6 DEF CbCheck
<1>7. ASSUME NEW t \in Threads, CbSend(t)
      PROVE  QInv'
  BY <1>7 DEF CbSend
<1>8. CASE LoopWake
  BY <1>8 DEF LoopWake
<1>9. CASE LoopLock
  BY <1>9 DEF LoopLock
<1>10. CASE LoopDequeue
  <2>1. /\ hal_cb_queue' \in Seq(Events)
        /\ Len(hal_cb_queue') = Len(hal_cb_queue) - 1
        /\ Len(hal_cb_queue) > 0
    BY <1>10 DEF LoopDequeue
  <2> QED
    BY <1>10, <2>1 DEF LoopDequeue
<1>11. CASE LoopUnlock
  BY <1>11 DEF LoopUnlock
<1>12. CASE UNCHANGED vars
  BY <1>12 DEF vars
<1> QED
  BY <1>1, <1>2, <1>3, <1>4, <1>5, <1>6, <1>7, <1>8, <1>9, <1>10, <1>11, <1>12
  DEF Next, CbStep, LoopStep

\* The type invariant: in particular the counter stays between zero and the
\* maximum under every interleaving of the HAL threads and the loop.
THEOREM TypeCorrect == Spec => []TypeOK
<1>1. QInv => TypeOK
  BY DEF QInv
<1> QED
  BY InitQInv, NextQInv, <1>1, PTL DEF Spec

\* The counter of clients.c:259-268 and 316 counts the list.
THEOREM CounterCorrect == Spec => []CounterMatchesList
<1>1. QInv => CounterMatchesList
  BY DEF QInv
<1> QED
  BY InitQInv, NextQInv, <1>1, PTL DEF Spec

-----------------------------------------------------------------------------
\* No step loses the wake-up: the flag is cleared only by the loop setting out
\* for the drain, and a thread leaves the callback without sending only when
\* the flag was set.
LEMMA WakeupStep == QInv /\ NoLostWakeup /\ [Next]_vars => NoLostWakeup'
<1> SUFFICES ASSUME QInv, NoLostWakeup, [Next]_vars PROVE NoLostWakeup'
  OBVIOUS
<1> USE DEF QInv, TypeOK, NoLostWakeup, initVars, queueVars, threadVars
<1>1. CASE HalInit
  BY <1>1 DEF HalInit
<1>2. ASSUME NEW t \in Threads, NEW e \in Events, CbLock(t, e)
      PROVE  NoLostWakeup'
  BY <1>2 DEF CbLock
<1>3. ASSUME NEW t \in Threads, CbRefuse(t)
      PROVE  NoLostWakeup'
  BY <1>3 DEF CbRefuse
<1>4. ASSUME NEW t \in Threads, CbEnqueue(t)
      PROVE  NoLostWakeup'
  BY <1>4 DEF CbEnqueue
<1>5. ASSUME NEW t \in Threads, CbUnlock(t)
      PROVE  NoLostWakeup'
  BY <1>5 DEF CbUnlock
<1>6. ASSUME NEW t \in Threads, CbCheck(t)
      PROVE  NoLostWakeup'
  <2>1. CASE hal_cb_loop /\ ~sent
    <3>1. pc'[t] = "send"
      BY <1>6, <2>1 DEF CbCheck
    <3> QED
      BY <3>1
  <2>2. CASE ~(hal_cb_loop /\ ~sent)
    BY <1>6, <2>2 DEF CbCheck
  <2> QED
    BY <2>1, <2>2
<1>7. ASSUME NEW t \in Threads, CbSend(t)
      PROVE  NoLostWakeup'
  BY <1>7 DEF CbSend
<1>8. CASE LoopWake
  BY <1>8 DEF LoopWake
<1>9. CASE LoopLock
  BY <1>9 DEF LoopLock
<1>10. CASE LoopDequeue
  BY <1>10 DEF LoopDequeue
<1>11. CASE LoopUnlock
  BY <1>11 DEF LoopUnlock
<1>12. CASE UNCHANGED vars
  BY <1>12 DEF vars
<1> QED
  BY <1>1, <1>2, <1>3, <1>4, <1>5, <1>6, <1>7, <1>8, <1>9, <1>10, <1>11, <1>12
  DEF Next, CbStep, LoopStep

\* The unlocked check of ev_async_pending never strands an entry.
THEOREM WakeupNeverLost == Spec => []NoLostWakeup
<1>1. Init => NoLostWakeup
  BY DEF Init, NoLostWakeup
<1> QED
  BY <1>1, InitQInv, NextQInv, WakeupStep, PTL DEF Spec

-----------------------------------------------------------------------------
\* The safety part of ImplementsBox: every step of the threads and the loop is
\* an accept or a delivery of the bounded box, or leaves the box alone.
THEOREM BoxImplemented == Spec => Abstract!Spec
<1>1. Init => Abstract!Init
  BY DEF Init, Abstract!Init
<1>2. QInv /\ [Next]_vars => [Abstract!Next]_hal_cb_queue
  <2> SUFFICES ASSUME QInv, [Next]_vars
               PROVE  [Abstract!Next]_hal_cb_queue
    OBVIOUS
  <2> USE DEF QInv, initVars, queueVars, threadVars
  <2>1. CASE HalInit
    BY <2>1 DEF HalInit, QuietUntilRegistered
  <2>4. ASSUME NEW t \in Threads, CbEnqueue(t)
        PROVE  Abstract!Next
    <3>1. cbe[t] \in Events
      BY <2>4 DEF CbEnqueue, CarriesEvent
    <3>2. Len(hal_cb_queue) < HAL_CB_QUEUE_MAX
      BY <2>4 DEF CbEnqueue, TypeOK, CounterMatchesList
    <3>3. Abstract!Accept(cbe[t])
      BY <2>4, <3>2 DEF CbEnqueue, Abstract!Accept
    <3> QED
      BY <3>1, <3>3 DEF Abstract!Next
  <2>5. ASSUME NEW t \in Threads,
               CbRefuse(t) \/ CbUnlock(t) \/ CbCheck(t) \/ CbSend(t)
                 \/ \E e \in Events : CbLock(t, e)
        PROVE  UNCHANGED hal_cb_queue
    BY <2>5 DEF CbRefuse, CbUnlock, CbCheck, CbSend, CbLock
  <2>6. CASE LoopDequeue
    BY <2>6 DEF LoopDequeue, Abstract!Next, Abstract!Deliver
  <2>7. CASE LoopWake \/ LoopLock \/ LoopUnlock
    BY <2>7 DEF LoopWake, LoopLock, LoopUnlock
  <2>8. CASE UNCHANGED vars
    BY <2>8 DEF vars
  <2> QED
    BY <2>1, <2>4, <2>5, <2>6, <2>7, <2>8 DEF Next, CbStep, LoopStep
<1> QED
  BY <1>1, <1>2, InitQInv, NextQInv, PTL DEF Spec, Abstract!Spec
=============================================================================
