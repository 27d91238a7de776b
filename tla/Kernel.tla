------------------------------- MODULE Kernel -------------------------------
(***************************************************************************)
(* The FreeRTOS kernel (FreeRTOS/src/tasks.c, queue.c, list.c, port.c) as  *)
(* the firmware uses it through sys_arch.c: tasks of fixed priority that   *)
(* block on a mailbox, on the mutex of the lwIP heap or on time, an        *)
(* interrupt that posts to the mailbox, and the tick.                      *)
(*                                                                         *)
(* A step of a task is one critical section, or one stretch that runs with *)
(* the scheduler suspended.  Interrupts come between any two steps; the    *)
(* context switch (PendSV) has the lowest interrupt priority and runs      *)
(* before the next step of a task.  The scheduler's state is one record k, *)
(* because its operations are composed of each other.                      *)
(***************************************************************************)
EXTENDS Integers, Sequences, FiniteSets, SequencesExt

CONSTANTS
  Tasks,            \* the tasks but the idle task
  IDLE,             \* the idle task
  uxBasePriority,   \* the priority a task is created with
  Mbox, Mutex,      \* the two queues
  uxLength,         \* the length of the mailbox
  Callback, Packet, \* what tasks and what the interrupt post to the mailbox
  Fetchers, Posters, Lockers, Sleepers,   \* which tasks make which calls
  FetchWaits,       \* the time limits of a fetch, 0 for none
  Delays,           \* the arguments of vTaskDelay
  W,                \* ticks wrap at W, 2^32 in the code
  MaxMissed,        \* bound: ticks while the scheduler is suspended
  MaxLate,          \* bound: ticks from the end of a timed wait to its check
  Nothing

ASSUME KernelAssumption ==
  /\ W \in Nat /\ W > 2
  /\ uxLength \in Nat \ {0}
  /\ MaxMissed \in Nat \ {0} /\ MaxLate \in Nat \ {0}
  /\ uxBasePriority \in [Tasks \cup {IDLE} -> Nat]
  /\ IsFiniteSet(Tasks) /\ IDLE \notin Tasks /\ Nothing \notin Tasks /\ Mbox # Mutex
  /\ Fetchers \cup Posters \cup Lockers \cup Sleepers \subseteq Tasks
  /\ \A n \in FetchWaits \cup Delays : n \in Nat /\ n + MaxLate <= W /\ n < W - 1

VARIABLES
  k,      \* the scheduler: its lists, the tick, the current task
  q,      \* the contents and the locks of both queues
  task    \* for each task, where it is in its call

vars == <<k, q, task>>

portMAX_DELAY == W - 1
queueUNLOCKED == -1
Queues == {Mbox, Mutex}
AllTasks == Tasks \cup {IDLE}
Priorities == {uxBasePriority[t] : t \in AllTasks}
Highest(S) == CHOOSE p \in S : \A r \in S : r <= p

Length(x) == IF x = Mutex THEN 1 ELSE uxLength

-----------------------------------------------------------------------------
(* Lists. *)

(* uxListRemove of the item of t, if the list has it. *)
Without(s, t) ==
  IF t \in ToSet(s) THEN RemoveAt(s, CHOOSE i \in 1 .. Len(s) : s[i] = t) ELSE s

(* The items at the head of a list, up to the first whose value exceeds v. *)
NotAbove(s, value, v) ==
  CHOOSE n \in 0 .. Len(s) : /\ \A i \in 1 .. n : value[s[i]] <= v
                             /\ n < Len(s) => value[s[n + 1]] > v

(* The item goes before the first one whose value exceeds its own. *)
vListInsert(s, t, value) == InsertAt(s, NotAbove(s, value, value[t]) + 1, t)

(* A ready list is turned so that the entry pxIndex points to is the last. *)
vListInsertEnd(s, t) == Append(s, t)

EventOrder(kk) == [t \in AllTasks |-> -kk.uxPriority[t]]

-----------------------------------------------------------------------------
(* The scheduler. *)

Init ==
  /\ k = [cur |-> IDLE, tick |-> 0, next |-> portMAX_DELAY,
          suspended |-> FALSE, missedTicks |-> 0, missedYield |-> FALSE,
          yield |-> TRUE, top |-> Highest(Priorities),
          ready |-> [p \in Priorities |->
                       SetToSeq({t \in AllTasks : uxBasePriority[t] = p})],
          delayed |-> <<>>, overflow |-> <<>>, forever |-> {}, pending |-> <<>>,
          toReceive |-> [x \in Queues |-> <<>>], toSend |-> [x \in Queues |-> <<>>],
          uxPriority |-> uxBasePriority, wake |-> [t \in AllTasks |-> 0],
          entered |-> [t \in AllTasks |-> [tick |-> 0, wrapped |-> TRUE]],
          due |-> [t \in AllTasks |-> -MaxLate], late |-> {}]
  /\ q = [x \in Queues |->
            [buf |-> [i \in 0 .. Length(x) - 1 |-> Nothing],
             writeTo |-> 0, readFrom |-> Length(x) - 1,
             waiting |-> IF x = Mutex THEN 1 ELSE 0,
             txLock |-> queueUNLOCKED, rxLock |-> queueUNLOCKED,
             holder |-> Nothing, taken |-> Nothing]]
  /\ task = [t \in Tasks |-> [pc |-> "app"]]

prvAddTaskToReadyQueue(kk, t) ==
  LET p == kk.uxPriority[t] IN
  [kk EXCEPT !.ready[p] = vListInsertEnd(@, t), !.top = IF p > @ THEN p ELSE @]

(* uxListRemove of the task's xGenericListItem, whichever list holds it. *)
RemoveGeneric(kk, t) ==
  [kk EXCEPT !.ready = [p \in Priorities |-> Without(@[p], t)],
             !.delayed = Without(@, t), !.overflow = Without(@, t),
             !.forever = @ \ {t}]

(* uxListRemove of the task's xEventListItem. *)
RemoveEvent(kk, t) ==
  [kk EXCEPT !.toReceive = [x \in Queues |-> Without(@[x], t)],
             !.toSend = [x \in Queues |-> Without(@[x], t)],
             !.pending = Without(@, t)]

(* The wake time of a ready task is not read again: 0. *)
MakeReady(kk, t) == [prvAddTaskToReadyQueue(RemoveGeneric(kk, t), t) EXCEPT !.wake[t] = 0]

(* Fault: the recorded time of the next wake-up only moves when the list was empty. *)
FaultAddCurrentTaskToDelayedList(kk, n) ==
  LET t == kk.cur
      wake == (kk.tick + n) % W
      k1 == [RemoveGeneric(kk, t) EXCEPT !.wake[t] = wake]
  IN  IF wake < kk.tick
      THEN [k1 EXCEPT !.overflow = vListInsert(@, t, k1.wake)]
      ELSE [k1 EXCEPT !.delayed = vListInsert(@, t, k1.wake),
                      !.next = IF @ = portMAX_DELAY THEN wake ELSE @]

(* The current task leaves its ready list to sleep n ticks. *)
prvAddCurrentTaskToDelayedList(kk, n) ==
  LET t == kk.cur
      wake == (kk.tick + n) % W
      k1 == [RemoveGeneric(kk, t) EXCEPT !.wake[t] = wake]
  IN  IF wake < kk.tick
      THEN [k1 EXCEPT !.overflow = vListInsert(@, t, k1.wake)]
      ELSE [k1 EXCEPT !.delayed = vListInsert(@, t, k1.wake),
                      !.next = IF wake < @ THEN wake ELSE @]

vTaskPlaceOnEventList(kk, list, x, n) ==
  LET t == kk.cur
      value == EventOrder(kk)
      k1 == IF list = "receive" THEN [kk EXCEPT !.toReceive[x] = vListInsert(@, t, value)]
                                ELSE [kk EXCEPT !.toSend[x] = vListInsert(@, t, value)]
  IN  IF n = portMAX_DELAY
      THEN [RemoveGeneric(k1, t) EXCEPT !.forever = @ \cup {t}]
      ELSE prvAddCurrentTaskToDelayedList(k1, n)

(* The first waiter t of an event list is made ready, or pending while the *)
(* scheduler is suspended.                                                 *)
xTaskRemoveFromEventList(kk, t) ==
  IF kk.suspended
  THEN [RemoveEvent(kk, t) EXCEPT !.pending = vListInsertEnd(@, t)]
  ELSE MakeReady(RemoveEvent(kk, t), t)

YieldNeeded(kk, t) == kk.uxPriority[t] >= kk.uxPriority[kk.cur]

(* A task wakes the first waiter and yields if it must. *)
WakeFirst(kk, list) ==
  IF list = <<>> THEN kk
  ELSE [xTaskRemoveFromEventList(kk, Head(list)) EXCEPT
          !.yield = @ \/ YieldNeeded(kk, Head(list))]

(* The first n tasks of a list become ready or pending, one by one. *)
WakeEach(kk, s, n) ==
  LET after[i \in 0 .. n] ==
        IF i = 0 THEN kk ELSE xTaskRemoveFromEventList(after[i - 1], s[i])
  IN  after[n]

(* The tasks at the head of the delayed list that are due leave it, and    *)
(* the event lists they wait in.  The scheduler is not suspended.          *)
prvCheckDelayedTasks(kk) ==
  LET n == NotAbove(kk.delayed, kk.wake, kk.tick) IN
  IF kk.tick < kk.next THEN kk
  ELSE [WakeEach(kk, kk.delayed, n) EXCEPT
          !.next = IF n = Len(kk.delayed) THEN portMAX_DELAY ELSE kk.wake[kk.delayed[n + 1]]]

(* Fault: the two lists are not swapped when the tick counter wraps. *)
FaultIncrementTick(kk) ==
  prvCheckDelayedTasks(
    [kk EXCEPT !.tick = (@ + 1) % W,
               !.due = [t \in AllTasks |-> IF @[t] > -MaxLate THEN @[t] - 1 ELSE @[t]],
               !.entered = [t \in AllTasks |->
                              [@[t] EXCEPT !.wrapped = @ \/ kk.tick = W - 1]]])

(* One tick is processed.  "wrapped" is a task's xOverflowCount compared   *)
(* with xNumOfOverflows; "due" counts down what is left of its wait.       *)
vTaskIncrementTick(kk) ==
  LET tick == (kk.tick + 1) % W
      k1 == [kk EXCEPT !.tick = tick,
                       !.due = [t \in AllTasks |-> IF @[t] > -MaxLate THEN @[t] - 1 ELSE @[t]]]
      k2 == IF tick # 0 THEN k1
            ELSE [k1 EXCEPT !.delayed = k1.overflow, !.overflow = k1.delayed,
                            !.entered = [t \in AllTasks |-> [@[t] EXCEPT !.wrapped = TRUE]],
                            !.next = IF k1.overflow = <<>> THEN portMAX_DELAY
                                     ELSE k1.wake[Head(k1.overflow)]]
  IN  prvCheckDelayedTasks(k2)

(* Fault: the tasks that interrupts made pending are not compared with the current one. *)
FaultYieldRequired(kk) == kk.missedTicks > 0 \/ kk.missedYield

YieldRequired(kk) ==
  \/ kk.missedTicks > 0
  \/ kk.missedYield
  \/ \E t \in ToSet(kk.pending) : YieldNeeded(kk, t)

(* The pending tasks become ready, the missed ticks are processed, and a   *)
(* switch is asked for when either may have readied a task.                *)
xTaskResumeAll(kk) ==
  LET k1 == WakeEach([kk EXCEPT !.suspended = FALSE], kk.pending, Len(kk.pending))
      ticked[n \in 0 .. MaxMissed] == IF n = 0 THEN k1 ELSE vTaskIncrementTick(ticked[n - 1])
  IN  [ticked[kk.missedTicks] EXCEPT
         !.missedTicks = 0,
         !.yield = @ \/ YieldRequired(kk),
         !.missedYield = FALSE]

(* Fault: the holder does not get the priority of the task that waits. *)
FaultPriorityInherit(kk, h) == kk

(* The holder of a mutex takes over the priority of a task that waits. *)
vTaskPriorityInherit(kk, h) ==
  LET p == kk.uxPriority[kk.cur] IN
  IF h = Nothing THEN kk
  ELSE IF kk.uxPriority[h] >= p THEN kk
  ELSE IF h \in ToSet(kk.ready[kk.uxPriority[h]])
  THEN MakeReady([kk EXCEPT !.uxPriority[h] = p], h)
  ELSE [kk EXCEPT !.uxPriority[h] = p]

vTaskPriorityDisinherit(kk, h) ==
  IF h = Nothing THEN kk
  ELSE IF kk.uxPriority[h] = uxBasePriority[h] THEN kk
  ELSE MakeReady([kk EXCEPT !.uxPriority[h] = uxBasePriority[h]], h)

(* PendSV: the next entry of the highest list that is not empty, searched  *)
(* from the recorded priority downwards.                                   *)
vTaskSwitchContext ==
  /\ k.yield
  /\ k' = IF k.suspended THEN [k EXCEPT !.yield = FALSE, !.missedYield = TRUE]
          ELSE LET p == Highest({r \in Priorities : r <= k.top /\ k.ready[r] # <<>>})
                   s == k.ready[p]
               IN  [k EXCEPT !.yield = FALSE, !.top = p, !.cur = Head(s),
                             !.ready[p] = Tail(s) \o <<Head(s)>>, !.late = {}]
  /\ UNCHANGED <<q, task>>

-----------------------------------------------------------------------------
(* Queues. *)

prvCopyDataToQueue(x, m) ==
  LET c == q[x] IN
  [q EXCEPT ![x].waiting = @ + 1,
            ![x].buf = IF x = Mutex THEN @ ELSE [@ EXCEPT ![c.writeTo] = m],
            ![x].writeTo = IF x = Mutex THEN @ ELSE (@ + 1) % Length(x),
            ![x].holder = Nothing]

(* Fault: the item is copied before the pointer moves on. *)
FaultCopyDataFromQueue(x, t) ==
  LET r == IF x = Mutex THEN q[x].readFrom ELSE (q[x].readFrom + 1) % Length(x) IN
  [q EXCEPT ![x].readFrom = r, ![x].taken = q[x].buf[q[x].readFrom], ![x].buf[r] = Nothing,
            ![x].waiting = @ - 1,
            ![x].holder = IF x = Mutex THEN t ELSE @]

(* A place that has been read is not read again: Nothing. *)
prvCopyDataFromQueue(x, t) ==
  LET r == IF x = Mutex THEN q[x].readFrom ELSE (q[x].readFrom + 1) % Length(x) IN
  [q EXCEPT ![x].readFrom = r, ![x].taken = q[x].buf[r], ![x].buf[r] = Nothing,
            ![x].waiting = @ - 1,
            ![x].holder = IF x = Mutex THEN t ELSE @]

-----------------------------------------------------------------------------
(* A task in a call.  "expired" is what xTaskCheckForTimeOut answered.     *)

Running(t) == k.cur = t /\ ~k.yield /\ t \in Tasks

Go(t, pc) == task' = [task EXCEPT ![t].pc = pc]

Return(t) == task' = [task EXCEPT ![t] = [pc |-> "app"]]

(* What is kept of a wait until its call returns. *)
EndWait(kk, t) == [kk EXCEPT !.due[t] = -MaxLate, !.entered[t] = [tick |-> 0, wrapped |-> TRUE]]

At(t, pc) == Running(t) /\ task[t].pc = pc

(* A delay of 0 only yields. *)
Begin(t, fn, x, n, m) ==
  /\ At(t, "app")
  /\ task' = [task EXCEPT ![t] = [pc |-> IF fn # "delay" THEN "top"
                                         ELSE IF n > 0 THEN "suspend" ELSE "yield",
                                  fn |-> fn, x |-> x, wait |-> n, item |-> m,
                                  entrySet |-> FALSE, expired |-> FALSE]]
  /\ UNCHANGED <<k, q>>

Holding(t) == q[Mutex].holder = t

(* The operating system port of lwIP.  The heap's mutex is never held      *)
(* while its holder makes another call (mem.c).                            *)
sys_mbox_post(t) ==
  t \in Posters /\ ~Holding(t) /\ Begin(t, "send", Mbox, portMAX_DELAY, Callback)

sys_mbox_trypost(t) ==
  t \in Posters /\ ~Holding(t) /\ Begin(t, "send", Mbox, 0, Callback)

sys_arch_mbox_fetch(t, n) ==
  /\ t \in Fetchers /\ ~Holding(t)
  /\ Begin(t, "receive", Mbox, IF n = 0 THEN portMAX_DELAY ELSE n, Nothing)

sys_mutex_lock(t) ==
  t \in Lockers /\ ~Holding(t) /\ Begin(t, "receive", Mutex, portMAX_DELAY, Nothing)

sys_mutex_unlock(t) == Holding(t) /\ Begin(t, "send", Mutex, 0, Nothing)

vTaskDelay(t, n) == t \in Sleepers /\ ~Holding(t) /\ Begin(t, "delay", Nothing, n, Nothing)

(* The wait of the call that could not be served at once begins. *)
vTaskSetTimeOutState(t) ==
  LET c == task[t] IN
  /\ k' = IF c.entrySet \/ c.wait = portMAX_DELAY THEN k
          ELSE [k EXCEPT !.due[t] = c.wait, !.entered[t] = [tick |-> k.tick, wrapped |-> FALSE]]
  /\ task' = [task EXCEPT ![t].pc = "suspend", ![t].entrySet = TRUE]

(* The critical section at the top of the loop of xQueueGenericSend. *)
xQueueGenericSend(t) ==
  LET x == task[t].x IN
  /\ At(t, "top") /\ task[t].fn = "send"
  /\ IF q[x].waiting < Length(x)
     THEN /\ q' = prvCopyDataToQueue(x, task[t].item)
          /\ k' = WakeFirst(IF x = Mutex THEN vTaskPriorityDisinherit(k, q[x].holder) ELSE k,
                            k.toReceive[x])
          /\ Return(t)
     ELSE /\ UNCHANGED q
          /\ IF task[t].wait = 0 THEN Return(t) /\ UNCHANGED k
                                 ELSE vTaskSetTimeOutState(t)

(* The critical section at the top of the loop of xQueueGenericReceive. *)
xQueueGenericReceive(t) ==
  LET x == task[t].x IN
  /\ At(t, "top") /\ task[t].fn = "receive"
  /\ IF q[x].waiting > 0
     THEN /\ q' = prvCopyDataFromQueue(x, t)
          /\ k' = WakeFirst(EndWait(k, t), k.toSend[x])
          /\ Return(t)
     ELSE /\ UNCHANGED q
          /\ IF task[t].wait = 0 THEN Return(t) /\ UNCHANGED k
                                 ELSE vTaskSetTimeOutState(t)

vTaskSuspendAll(t) ==
  /\ At(t, "suspend")
  /\ k' = [k EXCEPT !.suspended = TRUE]
  /\ Go(t, IF task[t].fn = "delay" THEN "delay" ELSE "lock")
  /\ UNCHANGED q

(* The body of vTaskDelay, with the scheduler suspended. *)
Delay(t) ==
  /\ At(t, "delay")
  /\ k' = [prvAddCurrentTaskToDelayedList(k, task[t].wait) EXCEPT !.due[t] = task[t].wait]
  /\ Go(t, "resume")
  /\ UNCHANGED q

(* Fault: the queue is not locked before it is tested. *)
FaultLockQueue(t) == At(t, "lock") /\ Go(t, "check") /\ UNCHANGED <<k, q>>

prvLockQueue(t) ==
  /\ At(t, "lock")
  /\ q' = [q EXCEPT ![task[t].x].txLock = IF @ = queueUNLOCKED THEN 0 ELSE @,
                    ![task[t].x].rxLock = IF @ = queueUNLOCKED THEN 0 ELSE @]
  /\ Go(t, "check")
  /\ UNCHANGED k

xTaskCheckForTimeOut(t) ==
  LET c == task[t]
      elapsed == (k.tick - k.entered[t].tick) % W
      passed == k.entered[t].wrapped /\ k.tick >= k.entered[t].tick
  IN
  /\ At(t, "check")
  /\ IF c.wait = portMAX_DELAY THEN Go(t, "test") /\ UNCHANGED k
     ELSE IF ~passed /\ elapsed < c.wait
     THEN /\ task' = [task EXCEPT ![t].pc = "test", ![t].wait = @ - elapsed]
          /\ k' = [k EXCEPT !.entered[t] = [tick |-> k.tick, wrapped |-> FALSE]]
     ELSE task' = [task EXCEPT ![t].pc = "unlockTx", ![t].expired = TRUE] /\ UNCHANGED k
  /\ UNCHANGED q

(* prvIsQueueEmpty or prvIsQueueFull: the call blocks only if it is so. *)
prvIsQueueBlocked(t) ==
  LET x == task[t].x
      blocked == q[x].waiting = IF task[t].fn = "receive" THEN 0 ELSE Length(x)
  IN
  /\ At(t, "test")
  /\ Go(t, IF ~blocked THEN "unlockTx"
           ELSE IF task[t].fn = "receive" /\ x = Mutex THEN "inherit" ELSE "place")
  /\ UNCHANGED <<k, q>>

Inherit(t) ==
  /\ At(t, "inherit")
  /\ k' = vTaskPriorityInherit(k, q[Mutex].holder)
  /\ Go(t, "place")
  /\ UNCHANGED q

Place(t) ==
  /\ At(t, "place")
  /\ k' = vTaskPlaceOnEventList(k, task[t].fn, task[t].x, task[t].wait)
  /\ Go(t, "unlockTx")
  /\ UNCHANGED q

(* The first n waiters of a list become pending. *)
WakeMany(kk, list, n) ==
  LET m == IF n < Len(list) THEN n ELSE Len(list) IN
  IF m <= 0 THEN kk
  ELSE [WakeEach(kk, list, m) EXCEPT
          !.missedYield = @ \/ \E i \in 1 .. m : YieldNeeded(kk, list[i])]

(* The two critical sections of prvUnlockQueue. *)
UnlockTx(t) ==
  LET x == task[t].x IN
  /\ At(t, "unlockTx")
  /\ k' = WakeMany(k, k.toReceive[x], q[x].txLock)
  /\ q' = [q EXCEPT ![x].txLock = queueUNLOCKED]
  /\ Go(t, "unlockRx")

UnlockRx(t) ==
  LET x == task[t].x IN
  /\ At(t, "unlockRx")
  /\ k' = WakeMany(k, k.toSend[x], q[x].rxLock)
  /\ q' = [q EXCEPT ![x].rxLock = queueUNLOCKED]
  /\ Go(t, "resume")

(* xTaskResumeAll; a call that blocked yields unless that has just happened. *)
Resume(t) ==
  LET c == task[t]
      blocked == t \notin ToSet(k.ready[k.uxPriority[t]])
  IN
  /\ At(t, "resume")
  /\ k' = xTaskResumeAll(IF c.expired THEN EndWait(k, t) ELSE k)
  /\ IF c.expired THEN Return(t)
     ELSE IF blocked /\ ~YieldRequired(k) THEN Go(t, "yield")
     ELSE IF c.fn = "delay" THEN Return(t)
     ELSE Go(t, "top")
  /\ UNCHANGED q

(* portYIELD_WITHIN_API after a call that blocked. *)
Yield(t) ==
  /\ At(t, "yield")
  /\ k' = [k EXCEPT !.yield = TRUE]
  /\ IF task[t].fn = "delay" THEN Return(t) ELSE Go(t, "top")
  /\ UNCHANGED q

-----------------------------------------------------------------------------
(* Interrupts. *)

(* A timed wait is checked at most MaxLate ticks after it ended, missed ticks included. *)
InTime ==
  \A t \in Tasks :
    IF task[t].pc = "app" THEN TRUE
    ELSE task[t].entrySet /\ task[t].wait # portMAX_DELAY => k.due[t] - k.missedTicks > -MaxLate

(* The tick always asks for a switch. *)
xPortSysTickHandler ==
  /\ InTime
  /\ IF k.suspended
     THEN k.missedTicks < MaxMissed /\ k' = [k EXCEPT !.missedTicks = @ + 1, !.yield = TRUE]
     ELSE k' = [vTaskIncrementTick(k) EXCEPT !.yield = TRUE]
  /\ UNCHANGED <<q, task>>

(* sys_mbox_trypost in an interrupt: xHigherPriorityTaskWoken is dropped,  *)
(* so a task it readies above the current one is late until a switch.      *)
xQueueGenericSendFromISR ==
  LET c == q[Mbox]
      list == k.toReceive[Mbox]
      copied == prvCopyDataToQueue(Mbox, Packet)
  IN
  /\ c.waiting < Length(Mbox)
  /\ IF c.txLock # queueUNLOCKED
     THEN k' = k /\ q' = [copied EXCEPT ![Mbox].txLock = @ + 1]
     ELSE /\ q' = copied
          /\ k' = IF list = <<>> THEN k
                  ELSE [xTaskRemoveFromEventList(k, Head(list)) EXCEPT
                          !.late = IF k.suspended THEN @ ELSE @ \cup {Head(list)}]
  /\ UNCHANGED task

-----------------------------------------------------------------------------
InCall(t) ==
  \/ xQueueGenericSend(t) \/ xQueueGenericReceive(t)
  \/ vTaskSuspendAll(t) \/ Delay(t) \/ prvLockQueue(t) \/ xTaskCheckForTimeOut(t)
  \/ prvIsQueueBlocked(t) \/ Inherit(t) \/ Place(t) \/ UnlockTx(t) \/ UnlockRx(t)
  \/ Resume(t) \/ Yield(t)

Application(t) ==
  \/ sys_mbox_post(t) \/ sys_mbox_trypost(t)
  \/ \E n \in FetchWaits : sys_arch_mbox_fetch(t, n)
  \/ sys_mutex_lock(t) \/ sys_mutex_unlock(t)
  \/ \E n \in Delays : vTaskDelay(t, n)

Next ==
  \/ \E t \in Tasks : Application(t) \/ InCall(t)
  \/ vTaskSwitchContext
  \/ xPortSysTickHandler
  \/ xQueueGenericSendFromISR

Spec == Init /\ [][Next]_vars

(* The processor runs the current task through its call, and a holder to   *)
(* the release of the mutex, in the time the ticks leave it; it takes a    *)
(* pending switch, and time goes on.  Nothing makes a task that computes   *)
(* call the kernel, nor an interrupt come.                                 *)
Work == \E t \in Tasks : InCall(t) \/ sys_mutex_unlock(t)

FairSpec == Spec /\ SF_vars(Work) /\ WF_vars(vTaskSwitchContext) /\ WF_vars(xPortSysTickHandler)

-----------------------------------------------------------------------------
(* Properties *)

pcs == {"app", "top", "suspend", "delay", "lock", "check", "test", "inherit", "place",
        "unlockTx", "unlockRx", "resume", "yield"}

Lists == {k.ready[p] : p \in Priorities} \cup {k.delayed, k.overflow}
EventLists == {k.toReceive[x] : x \in Queues} \cup {k.toSend[x] : x \in Queues}
                \cup {k.pending}

(* The counters stay in their ranges, every task's generic item is in exactly one
   list, its event item in at most one, and no list holds a task twice
   (uxListRemove and vListInsert in tasks.c). *)
TypeOK ==
  /\ k.tick \in 0 .. W - 1 /\ k.next \in 0 .. W - 1 /\ k.missedTicks \in 0 .. MaxMissed
  /\ \A t \in Tasks : task[t].pc \in pcs
  /\ \A x \in Queues : q[x].waiting \in 0 .. Length(x)
                       /\ q[x].txLock \in -1 .. uxLength /\ q[x].rxLock \in -1 .. uxLength
  /\ \A s \in Lists \cup EventLists : IsInjective(s)
  /\ \A t \in AllTasks :
       \/ t \in k.forever /\ \A s \in Lists : t \notin ToSet(s)
       \/ t \notin k.forever /\ \E s \in Lists : t \in ToSet(s)
                                             /\ \A r \in Lists \ {s} : t \notin ToSet(r)

Waits(t, fn, x) == task[t].pc # "app" /\ task[t].fn = fn /\ task[t].x = x

(* The tasks that are in a call on a queue, are awake and will look at the queue again. *)
Awake(fn, x, list) ==
  {t \in Tasks : Waits(t, fn, x) /\ ~task[t].expired /\ t \notin ToSet(list)}

(* While the event lists of a queue are open, a task sleeps for an item only as long as
   every item in the queue has an awake task to take it, and likewise for free places
   (the lock counts of prvLockQueue and prvUnlockQueue against posts from interrupts). *)
NoLostWakeup ==
  \A x \in Queues :
    /\ q[x].txLock = queueUNLOCKED /\ k.toReceive[x] # <<>> =>
         q[x].waiting <= Cardinality(Awake("receive", x, k.toReceive[x]))
    /\ q[x].rxLock = queueUNLOCKED /\ k.toSend[x] # <<>> =>
         Length(x) - q[x].waiting <= Cardinality(Awake("send", x, k.toSend[x]))

(* A task in a delayed list sleeps for exactly the ticks that are left of the wait it asked
   for, across the wrap of the tick counter and the swap of the two lists, and the
   recorded time of the next wake-up never hides one (prvAddCurrentTaskToDelayedList,
   vTaskIncrementTick, prvCheckDelayedTasks); and a call gives up only when the whole time
   it was given has passed (xTaskCheckForTimeOut, whose remaining time is recomputed at
   every wake-up). *)
SleepsExactly ==
  /\ TypeOK
  /\ \A t \in ToSet(k.delayed) : k.due[t] = k.wake[t] - k.tick /\ k.due[t] > 0
                                  /\ k.next <= k.wake[t]
  /\ \A t \in ToSet(k.overflow) : k.due[t] = W + k.wake[t] - k.tick
  /\ \A t \in Tasks : task[t].pc # "app" => (task[t].expired => k.due[t] <= 0)

(* With no switch pending and the scheduler running, no ready task has a higher priority
   than the current one, but for those an interrupt readied since the last switch
   (portYIELD_WITHIN_API, vTaskMissedYield and the recorded top priority). *)
HighestRuns ==
  ~k.suspended /\ ~k.yield =>
    \A p \in Priorities : \A t \in ToSet(k.ready[p]) :
      p <= k.uxPriority[k.cur] \/ t \in k.late

(* Whoever holds the mutex runs at least at the priority of every task asleep on it, and
   a task that holds nothing is back at its own priority (vTaskPriorityInherit and
   vTaskPriorityDisinherit). *)
NoInversion ==
  \A t \in Tasks :
    /\ \A u \in ToSet(k.toReceive[Mutex]) :
         q[Mutex].holder = t => k.uxPriority[t] >= k.uxPriority[u]
    /\ q[Mutex].holder # t => k.uxPriority[t] = uxBasePriority[t]

(* The ring buffer of a queue read as a sequence, oldest item first. *)
Contents(x) ==
  [i \in 1 .. q[x].waiting |-> q[x].buf[(q[x].readFrom + i) % Length(x)]]

(* The mailbox is a bounded first-in first-out queue (prvCopyDataToQueue and
   prvCopyDataFromQueue with their wrapping pointers). *)
MailboxSpec == INSTANCE Mailbox WITH
                 Messages <- {Callback, Packet}, Capacity <- uxLength,
                 queue <- Contents(Mbox), taken <- q[Mbox].taken
ImplementsMailbox == MailboxSpec!Spec

(* A fetch with a time limit returns, with a message or without one
   (sys_arch_mbox_fetch in tcpip_thread, on which the timers of lwIP depend). *)
FetchReturns ==
  \A t \in Fetchers :
    (task[t].pc # "app" /\ task[t].fn = "receive" /\ task[t].x = Mbox
       /\ task[t].wait # portMAX_DELAY) ~> task[t].pc = "app"
=============================================================================
