--------------------------- MODULE HalEventQueue ---------------------------
(***************************************************************************)
(* The queue through which the Wi-Fi HAL hands its events to OpenSync.     *)
(* The HAL calls the registered callback from pthreads of its own; the     *)
(* callback appends the event under a mutex, drops it when the queue       *)
(* holds HAL_CB_QUEUE_MAX entries, and, after unlocking, wakes the libev   *)
(* loop with ev_async_send unless a wake-up is pending already.  The       *)
(* loop's async callback takes every entry out under the same mutex.       *)
(* clients.c, wps.c, radio.c, multi_ap.c and vif.c repeat this code with   *)
(* different payloads.  The lines in PROJECT.json are those of clients.c.  *)
(*                                                                         *)
(* vif.c's sta_hal_init never stores the loop pointer nor starts the async *)
(* watcher: SavesLoop = FALSE is that copy, TRUE are the four others.      *)
(***************************************************************************)
EXTENDS Naturals, Sequences

CONSTANTS
    Threads,            \* the pthreads the HAL calls the callback from
    Events,             \* the payloads of the events
    HAL_CB_QUEUE_MAX,   \* 20 in the code
    SavesLoop,          \* does the init function store hal_cb_loop?
    Loop, NoOne, NoEvent

ASSUME QueueMaxAssumption == HAL_CB_QUEUE_MAX \in Nat \ {0}
ASSUME SavesLoopAssumption == SavesLoop \in BOOLEAN
ASSUME OwnersAssumption ==
    Loop \notin Threads /\ NoOne \notin Threads /\ Loop # NoOne
ASSUME NoEventAssumption == NoEvent \notin Events

VARIABLES
    registered,         \* the HAL knows the callback
    hal_cb_loop,        \* hal_cb_loop # NULL, and the async watcher started
    hal_cb_lock,        \* owner of the mutex, NoOne when it is free
    hal_cb_queue,       \* the list of entries
    hal_cb_queue_len,   \* the counter kept next to the list
    sent,               \* the watcher's pending flag (libev)
    pc,                 \* where each HAL thread is in the callback
    cbe,                \* the event each HAL thread was called with
    lpc                 \* where the loop is: idle, woken, draining

vars == <<registered, hal_cb_loop, hal_cb_lock, hal_cb_queue,
          hal_cb_queue_len, sent, pc, cbe, lpc>>

threadVars == <<pc, cbe>>
queueVars == <<hal_cb_queue, hal_cb_queue_len>>
initVars == <<registered, hal_cb_loop>>

Init ==
    /\ registered = FALSE
    /\ hal_cb_loop = FALSE
    /\ hal_cb_lock = NoOne
    /\ hal_cb_queue = <<>>
    /\ hal_cb_queue_len = 0
    /\ sent = FALSE
    /\ pc = [t \in Threads |-> "idle"]
    /\ cbe = [t \in Threads |-> NoEvent]
    /\ lpc = "idle"

(***************************************************************************)
(* The init function: an empty queue, the loop pointer, the started        *)
(* watcher and, last, the registration with the HAL.  A further call only  *)
(* restarts the watcher that is active, which libev ignores.               *)
(***************************************************************************)
HalInit ==
    /\ ~registered
    /\ registered' = TRUE
    /\ hal_cb_loop' = SavesLoop
    /\ hal_cb_queue' = <<>>
    /\ hal_cb_queue_len' = 0
    /\ UNCHANGED <<hal_cb_lock, sent, threadVars, lpc>>

-----------------------------------------------------------------------------
(* The callback, in the HAL's thread t.                                    *)

\* The HAL calls the callback with event e; pthread_mutex_lock returns.
CbLock(t, e) ==
    /\ registered
    /\ pc[t] = "idle"
    /\ hal_cb_lock = NoOne
    /\ hal_cb_lock' = t
    /\ pc' = [pc EXCEPT ![t] = "locked"]
    /\ cbe' = [cbe EXCEPT ![t] = e]
    /\ UNCHANGED <<initVars, queueVars, sent, lpc>>

\* The queue is full: the event is ignored and the callback returns an error.
CbRefuse(t) ==
    /\ pc[t] = "locked"
    /\ hal_cb_queue_len = HAL_CB_QUEUE_MAX
    /\ hal_cb_lock' = NoOne
    /\ pc' = [pc EXCEPT ![t] = "idle"]
    /\ cbe' = [cbe EXCEPT ![t] = NoEvent]
    /\ UNCHANGED <<initVars, queueVars, sent, lpc>>

\* Mutated forms: the entry inserted at the head of the list; the entry
\* accepted without comparing the counter with the maximum.
CbEnqueueAtHead(t) ==
    /\ pc[t] = "locked"
    /\ hal_cb_queue_len # HAL_CB_QUEUE_MAX
    /\ hal_cb_queue' = <<cbe[t]>> \o hal_cb_queue
    /\ hal_cb_queue_len' = hal_cb_queue_len + 1
    /\ pc' = [pc EXCEPT ![t] = "queued"]
    /\ cbe' = [cbe EXCEPT ![t] = NoEvent]
    /\ UNCHANGED <<initVars, hal_cb_lock, sent, lpc>>

CbEnqueueUnchecked(t) ==
    /\ pc[t] = "locked"
    /\ Len(hal_cb_queue) <= HAL_CB_QUEUE_MAX
    /\ hal_cb_queue' = Append(hal_cb_queue, cbe[t])
    /\ hal_cb_queue_len' = hal_cb_queue_len + 1
    /\ pc' = [pc EXCEPT ![t] = "queued"]
    /\ cbe' = [cbe EXCEPT ![t] = NoEvent]
    /\ UNCHANGED <<initVars, hal_cb_lock, sent, lpc>>

\* There is room: append the entry and count it.
CbEnqueue(t) ==
    /\ pc[t] = "locked"
    /\ hal_cb_queue_len # HAL_CB_QUEUE_MAX
    /\ hal_cb_queue' = Append(hal_cb_queue, cbe[t])
    /\ hal_cb_queue_len' = hal_cb_queue_len + 1
    /\ pc' = [pc EXCEPT ![t] = "queued"]
    /\ cbe' = [cbe EXCEPT ![t] = NoEvent]
    /\ UNCHANGED <<initVars, hal_cb_lock, sent, lpc>>

CbUnlock(t) ==
    /\ pc[t] = "queued"
    /\ hal_cb_lock' = NoOne
    /\ pc' = [pc EXCEPT ![t] = "unlocked"]
    /\ UNCHANGED <<initVars, queueVars, sent, cbe, lpc>>

\* ev_async_pending is read without the mutex; nothing is sent if a wake-up
\* is pending already or if there is no loop to wake.
CbCheck(t) ==
    /\ pc[t] = "unlocked"
    /\ pc' = [pc EXCEPT ![t] = IF hal_cb_loop /\ ~sent THEN "send" ELSE "idle"]
    /\ UNCHANGED <<initVars, hal_cb_lock, queueVars, sent, cbe, lpc>>

CbSend(t) ==
    /\ pc[t] = "send"
    /\ sent' = TRUE
    /\ pc' = [pc EXCEPT ![t] = "idle"]
    /\ UNCHANGED <<initVars, hal_cb_lock, queueVars, cbe, lpc>>

-----------------------------------------------------------------------------
(* The event loop.                                                         *)

\* libev clears the pending flag and then invokes the watcher's callback.
LoopWake ==
    /\ lpc = "idle"
    /\ sent
    /\ sent' = FALSE
    /\ lpc' = "woken"
    /\ UNCHANGED <<initVars, hal_cb_lock, queueVars, threadVars>>

LoopLock ==
    /\ lpc = "woken"
    /\ hal_cb_lock = NoOne
    /\ hal_cb_lock' = Loop
    /\ lpc' = "draining"
    /\ UNCHANGED <<initVars, queueVars, sent, threadVars>>

\* One turn of the callback's while loop.
LoopDequeue ==
    /\ lpc = "draining"
    /\ hal_cb_queue # <<>>
    /\ hal_cb_queue' = Tail(hal_cb_queue)
    /\ hal_cb_queue_len' = hal_cb_queue_len - 1
    /\ UNCHANGED <<initVars, hal_cb_lock, sent, threadVars, lpc>>

\* Mutated form: the callback handles one entry per wake-up.
LoopUnlockEarly ==
    /\ lpc = "draining"
    /\ hal_cb_lock' = NoOne
    /\ lpc' = "idle"
    /\ UNCHANGED <<initVars, queueVars, sent, threadVars>>

LoopUnlock ==
    /\ lpc = "draining"
    /\ hal_cb_queue = <<>>
    /\ hal_cb_lock' = NoOne
    /\ lpc' = "idle"
    /\ UNCHANGED <<initVars, queueVars, sent, threadVars>>

-----------------------------------------------------------------------------
CbStep(t) == CbRefuse(t) \/ CbEnqueue(t) \/ CbUnlock(t) \/ CbCheck(t) \/ CbSend(t)
LoopStep == LoopWake \/ LoopDequeue \/ LoopUnlock

Next ==
    \/ HalInit
    \/ \E t \in Threads : CbStep(t) \/ \E e \in Events : CbLock(t, e)
    \/ LoopStep
    \/ LoopLock

Spec == Init /\ [][Next]_vars

(***************************************************************************)
(* Fairness: a HAL thread that is inside the callback leaves it, the loop  *)
(* keeps running, and the loop does not starve on the mutex, which the HAL *)
(* threads hold only for the few instructions of an append.  Nothing is    *)
(* assumed about the HAL producing events.                                 *)
(***************************************************************************)
FairSpec ==
    /\ Spec
    /\ \A t \in Threads : WF_vars(CbStep(t))
    /\ WF_vars(LoopStep)
    /\ SF_vars(LoopLock)

-----------------------------------------------------------------------------
(* Properties.                                                             *)

TypeOK ==
    /\ registered \in BOOLEAN
    /\ hal_cb_loop \in BOOLEAN
    /\ hal_cb_lock \in Threads \cup {Loop, NoOne}
    /\ hal_cb_queue \in Seq(Events)
    /\ hal_cb_queue_len \in 0 .. HAL_CB_QUEUE_MAX
    /\ sent \in BOOLEAN
    /\ pc \in [Threads -> {"idle", "locked", "queued", "unlocked", "send"}]
    /\ cbe \in [Threads -> Events \cup {NoEvent}]
    /\ lpc \in {"idle", "woken", "draining"}

\* The counter that decides about dropping an event and the list it counts
\* never disagree, whatever threads append while the loop removes: no event is
\* refused while there is room and the list never outgrows its maximum.
CounterMatchesList == hal_cb_queue_len = Len(hal_cb_queue)

\* No wake-up is lost.  An entry that sits in the queue of a started loop is
\* accounted for: the wake-up is pending, or the loop is on its way to the
\* drain, or the thread that appended an entry has yet to check the flag.
\* The callback reads the flag without the mutex, so this rests on appending
\* before checking and on libev clearing the flag before calling back.
NoLostWakeup ==
    hal_cb_loop /\ hal_cb_queue # <<>>
      => \/ sent
         \/ lpc # "idle"
         \/ \E t \in Threads : pc[t] \in {"queued", "unlocked", "send"}

\* The code implements the bounded box of AbstractEventQueue, its liveness
\* included: accepted events are handled once, in order, and eventually.
Abstract == INSTANCE AbstractEventQueue WITH box <- hal_cb_queue
ImplementsBox == Abstract!FairSpec

\* An entry that the callback accepted is handled by the loop, which is what
\* the comments "Init async watcher" and "Already was initialized, just
\* [re]start async watcher" (vif.c:1331, vif.c:1319) say sta_hal_init sets up.
EntriesAreHandled == hal_cb_queue # <<>> ~> hal_cb_queue = <<>>
=============================================================================
