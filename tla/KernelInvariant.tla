-------------------------- MODULE KernelInvariant ---------------------------
(***************************************************************************)
(* What the proofs about Kernel are made of.                               *)
(*                                                                         *)
(* Each operation of the scheduler is summarised by what it does to the    *)
(* lists (Woke, Placed, Ticked, Switched ...), and each step of Next by    *)
(* what it does to the state (SendEff, PlaceEff, PostEff ...).             *)
(*                                                                         *)
(* The inductive invariant is built in layers, each kept by the steps'     *)
(* effects given the layers below it:                                      *)
(*   IInv       the ring buffer and the types of the queues and calls;     *)
(*   Base       the lists, the calls, the locks and the time limits        *)
(*              (SleepsExactly);                                           *)
(*   Scheduled  the priorities, the mutex and who waits for it             *)
(*              (HighestRuns and NoInversion);                             *)
(*   Claimed    the items of the mailbox and who will take them            *)
(*              (NoLostWakeup).                                            *)
(***************************************************************************)
EXTENDS Kernel

-----------------------------------------------------------------------------
(* The ring buffer. *)

(* What a place of a queue may hold. *)
Items == {Callback, Packet, Nothing}

(* A queue with its pointers inside its buffer.                            *)
Cell(x) == [buf : [0 .. Length(x) - 1 -> Items],
            writeTo : 0 .. Length(x) - 1, readFrom : 0 .. Length(x) - 1,
            waiting : 0 .. Length(x), txLock : Int, rxLock : Int,
            holder : Tasks \cup {Nothing}, taken : Items]

(* The queues have their types. *)
QueuesOK == /\ q = [x \in Queues |-> q[x]]
            /\ \A x \in Queues : q[x] \in Cell(x)

(* The write pointer is as many places ahead of the next item to be read   *)
(* as there are items waiting.                                             *)
Ring ==
  q[Mbox].writeTo = (q[Mbox].readFrom + 1 + q[Mbox].waiting) % uxLength

(* A task is outside the kernel or in a call on one of the queues, and     *)
(* what a task posts to the mailbox is a callback.                         *)
CallOK(c) ==
  /\ c = [pc |-> c.pc, fn |-> c.fn, x |-> c.x, wait |-> c.wait,
          item |-> c.item, entrySet |-> c.entrySet, expired |-> c.expired]
  /\ c.fn \in {"send", "receive", "delay"}
  /\ c.fn # "delay" => c.x \in Queues
  /\ c.fn = "delay" => c.pc \in {"suspend", "delay", "resume", "yield"}
  /\ c.fn = "send" /\ c.x = Mbox => c.item = Callback

(* The calls have their types. *)
TasksOK == /\ task = [t \in Tasks |-> task[t]]
           /\ \A t \in Tasks : task[t] = [pc |-> "app"] \/ CallOK(task[t])

(* The inductive invariant. *)
IInv == QueuesOK /\ Ring /\ TasksOK

-----------------------------------------------------------------------------
(* The ring buffer read as a sequence. *)

(* n items, the first one place after r.                                   *)
Read(r, n, buf) == [i \in 1 .. n |-> buf[(r + i) % uxLength]]

(* The places of the buffer of the mailbox. *)
Places == 0 .. uxLength - 1

-----------------------------------------------------------------------------
(* The steps. *)

(* What a step may do to the mailbox: nothing, or what Mailbox allows.     *)
MboxStep == \/ Contents(Mbox)' = Contents(Mbox) /\ q'[Mbox].taken = q[Mbox].taken
            \/ MailboxSpec!Next

-----------------------------------------------------------------------------
(* Lists. *)

(* A list holds a task at most once. *)
List(s) == s \in Seq(AllTasks) /\ \A i, j \in 1 .. Len(s) : s[i] = s[j] => i = j

(* u comes before v. *)
Before(s, u, v) == \E i, j \in 1 .. Len(s) : i < j /\ s[i] = u /\ s[j] = v

(* The order of a list agrees with the values of its items. *)
Ordered(s, value) == \A u, v \in AllTasks : Before(s, u, v) => value[u] <= value[v]

-----------------------------------------------------------------------------
(* The operations of the scheduler on its lists. *)

(* The fields of the scheduler's record. *)
Fields == {"cur", "tick", "next", "suspended", "missedTicks", "missedYield", "yield", "top",
           "ready", "delayed", "overflow", "forever", "pending", "toReceive", "toSend",
           "uxPriority", "wake", "entered", "due", "late"}

(* The fields that are not lists have their types. *)
Numbers(kk) ==
  /\ kk.cur \in AllTasks
  /\ kk.tick \in 0 .. W - 1 /\ kk.next \in 0 .. W - 1 /\ kk.missedTicks \in 0 .. MaxMissed
  /\ kk.suspended \in BOOLEAN /\ kk.missedYield \in BOOLEAN /\ kk.yield \in BOOLEAN
  /\ kk.top \in Nat /\ kk.forever \subseteq Tasks /\ kk.late \subseteq Tasks
  /\ kk.uxPriority \in [AllTasks -> Priorities]
  /\ kk.wake \in [AllTasks -> 0 .. W - 1]
  /\ kk.due \in [AllTasks -> Int]
  /\ kk.entered \in [AllTasks -> [tick : 0 .. W - 1, wrapped : BOOLEAN]]

(* The fields that are lists have their types. *)
ListsOK(kk) ==
  /\ DOMAIN kk.ready = Priorities /\ DOMAIN kk.toReceive = Queues /\ DOMAIN kk.toSend = Queues
  /\ \A p \in Priorities : List(kk.ready[p])
  /\ List(kk.delayed) /\ List(kk.overflow) /\ List(kk.pending)
  /\ \A x \in Queues : List(kk.toReceive[x]) /\ List(kk.toSend[x])

(* The type of the scheduler's record. *)
Shape(kk) == DOMAIN kk = Fields /\ Numbers(kk) /\ ListsOK(kk)

(* r is s without the tasks of S. *)
Thinned(r, s, S) ==
  /\ List(r) /\ ToSet(r) = ToSet(s) \ S
  /\ \A u, v : Before(r, u, v) => Before(s, u, v)

(* What no list operation touches. *)
SameFixed(kk, r) ==
  /\ r.cur = kk.cur /\ r.tick = kk.tick /\ r.next = kk.next /\ r.suspended = kk.suspended
  /\ r.missedTicks = kk.missedTicks /\ r.missedYield = kk.missedYield /\ r.yield = kk.yield
  /\ r.uxPriority = kk.uxPriority /\ r.entered = kk.entered /\ r.due = kk.due /\ r.late = kk.late

(* A task in a ready list is in the list of its priority. *)
ReadyAt(kk) == \A p \in Priorities : \A t \in ToSet(kk.ready[p]) : kk.uxPriority[t] = p

(* The tasks of S are taken out of the event lists. *)
Thins(kk, r, S) ==
  /\ Thinned(r.pending, kk.pending, S)
  /\ \A x \in Queues : /\ Thinned(r.toReceive[x], kk.toReceive[x], S)
                       /\ Thinned(r.toSend[x], kk.toSend[x], S)

(* The tasks of S have been made ready. *)
Readied(kk, r, S) ==
  /\ Shape(r) /\ SameFixed(kk, r) /\ S \subseteq AllTasks
  /\ \A p \in Priorities, t \in AllTasks :
       t \in ToSet(r.ready[p]) <=> t \in ToSet(kk.ready[p]) \/ (t \in S /\ kk.uxPriority[t] = p)
  /\ Thinned(r.delayed, kk.delayed, S) /\ Thinned(r.overflow, kk.overflow, S)
  /\ r.forever = kk.forever \ S
  /\ Thins(kk, r, S)
  /\ kk.top <= r.top /\ \A t \in S : kk.uxPriority[t] <= r.top
  /\ \A t \in AllTasks \ S : r.wake[t] = kk.wake[t]

(* The tasks of S have been made pending. *)
Pended(kk, r, S) ==
  /\ Shape(r) /\ SameFixed(kk, r) /\ S \subseteq AllTasks
  /\ r.ready = kk.ready /\ r.delayed = kk.delayed /\ r.overflow = kk.overflow
  /\ r.forever = kk.forever /\ r.wake = kk.wake /\ r.top = kk.top
  /\ ToSet(r.pending) = ToSet(kk.pending) \cup S
  /\ \A x \in Queues : /\ Thinned(r.toReceive[x], kk.toReceive[x], S)
                       /\ Thinned(r.toSend[x], kk.toSend[x], S)

(* The task t is taken out of the lists of generic items. *)
Removed(kk, r, t) ==
  /\ Shape(r) /\ SameFixed(kk, r)
  /\ \A p \in Priorities : Thinned(r.ready[p], kk.ready[p], {t})
  /\ Thinned(r.delayed, kk.delayed, {t}) /\ Thinned(r.overflow, kk.overflow, {t})
  /\ r.forever = kk.forever \ {t}
  /\ r.pending = kk.pending /\ r.toReceive = kk.toReceive /\ r.toSend = kk.toSend
  /\ r.top = kk.top /\ r.wake = kk.wake

(* The task t is taken out of the lists of event items. *)
Called(kk, r, t) ==
  /\ Shape(r) /\ SameFixed(kk, r) /\ Thins(kk, r, {t})
  /\ r.ready = kk.ready /\ r.delayed = kk.delayed /\ r.overflow = kk.overflow
  /\ r.forever = kk.forever /\ r.top = kk.top /\ r.wake = kk.wake

(* The task t is added to its ready list. *)
Added(kk, r, t) ==
  /\ Shape(r) /\ SameFixed(kk, r)
  /\ \A p \in Priorities : p # kk.uxPriority[t] => ToSet(r.ready[p]) = ToSet(kk.ready[p])
  /\ ToSet(r.ready[kk.uxPriority[t]]) = ToSet(kk.ready[kk.uxPriority[t]]) \cup {t}
  /\ r.delayed = kk.delayed /\ r.overflow = kk.overflow /\ r.forever = kk.forever
  /\ r.pending = kk.pending /\ r.toReceive = kk.toReceive /\ r.toSend = kk.toSend
  /\ r.wake = kk.wake
  /\ kk.top <= r.top /\ kk.uxPriority[t] <= r.top

(* The wake time of t is v. *)
Rewoken(kk, r, t, v) ==
  /\ Shape(r) /\ SameFixed(kk, r)
  /\ r.ready = kk.ready /\ r.delayed = kk.delayed /\ r.overflow = kk.overflow
  /\ r.forever = kk.forever /\ r.top = kk.top
  /\ r.pending = kk.pending /\ r.toReceive = kk.toReceive /\ r.toSend = kk.toSend
  /\ r.wake = [kk.wake EXCEPT ![t] = v]

(* The task t is in its ready list and in no other list of generic items. *)
MadeReady(kk, r, t) ==
  /\ Shape(r) /\ SameFixed(kk, r)
  /\ \A p \in Priorities : p # kk.uxPriority[t] => ToSet(r.ready[p]) = ToSet(kk.ready[p]) \ {t}
  /\ ToSet(r.ready[kk.uxPriority[t]]) = ToSet(kk.ready[kk.uxPriority[t]]) \cup {t}
  /\ Thinned(r.delayed, kk.delayed, {t}) /\ Thinned(r.overflow, kk.overflow, {t})
  /\ r.forever = kk.forever \ {t}
  /\ r.pending = kk.pending /\ r.toReceive = kk.toReceive /\ r.toSend = kk.toSend
  /\ kk.top <= r.top /\ kk.uxPriority[t] <= r.top
  /\ \A u \in AllTasks \ {t} : r.wake[u] = kk.wake[u]

-----------------------------------------------------------------------------

(* The loop of WakeEach. *)
Waking(f, kk, s, n) ==
  f = [i \in 0 .. n |-> IF i = 0 THEN kk ELSE xTaskRemoveFromEventList(f[i - 1], s[i])]

(* The first n tasks of a list. *)
FirstOf(s, n) == {s[i] : i \in 1 .. n}

(* f[i] is the scheduler when i tasks have been woken. *)
WakesBy(f, kk, s, n) ==
  /\ f[0] = kk /\ f[n] = WakeEach(kk, s, n)
  /\ \A i \in 1 .. n : f[i] = xTaskRemoveFromEventList(f[i - 1], s[i])

(* t is in its ready list. *)
Ready(kk, t) == t \in ToSet(kk.ready[kk.uxPriority[t]])

(* Every task is in one list of generic items; the idle task is ready. *)
Apart(kk) ==
  /\ ReadyAt(kk)
  /\ \A t \in AllTasks :
       /\ Ready(kk, t) => t \notin ToSet(kk.delayed) /\ t \notin ToSet(kk.overflow) /\ t \notin kk.forever
       /\ t \in ToSet(kk.delayed) => t \notin ToSet(kk.overflow) /\ t \notin kk.forever
       /\ t \in ToSet(kk.overflow) => t \notin kk.forever
       /\ Ready(kk, t) \/ t \in ToSet(kk.delayed) \/ t \in ToSet(kk.overflow) \/ t \in kk.forever
       /\ Ready(kk, t) => kk.uxPriority[t] <= kk.top
  /\ Ready(kk, IDLE)

(* The tasks in the two delayed lists. *)
Slept(kk) == ToSet(kk.delayed) \cup ToSet(kk.overflow)

(* What a tick does to the tasks: those of S become ready. *)
Moved(kk, r, S) ==
  /\ r.cur = kk.cur /\ r.suspended = kk.suspended /\ r.missedTicks = kk.missedTicks
  /\ r.missedYield = kk.missedYield /\ r.yield = kk.yield /\ r.late = kk.late
  /\ r.uxPriority = kk.uxPriority
  /\ S \subseteq AllTasks
  /\ \A t \in AllTasks : Ready(r, t) <=> Ready(kk, t) \/ t \in S
  /\ Slept(r) = Slept(kk) \ S /\ r.forever = kk.forever \ S
  /\ Thins(kk, r, S)

(* A task in a delayed list sleeps for what is left of its wait. *)
DelayedOK(kk) ==
  /\ \A t \in ToSet(kk.delayed) :
       kk.due[t] = kk.wake[t] - kk.tick /\ kk.due[t] > 0 /\ kk.next <= kk.wake[t]
  /\ \A t \in ToSet(kk.overflow) : kk.due[t] = W + kk.wake[t] - kk.tick
  /\ Ordered(kk.delayed, kk.wake) /\ Ordered(kk.overflow, kk.wake)

(* The ticks since t entered its wait, the missed ones left out. *)
Elapsed(kk, t) == kk.tick - kk.entered[t].tick + (IF kk.entered[t].wrapped THEN W ELSE 0)

(* The time since t entered its wait of w ticks is known, with m ticks to come. *)
TimedAt(kk, w, t, m) ==
  /\ kk.due[t] = w - Elapsed(kk, t) /\ Elapsed(kk, t) >= 0
  /\ kk.due[t] - m >= -MaxLate

(* n ticks have been processed. *)
Ticks(kk, r, n) ==
  /\ Shape(r) /\ Apart(r) /\ DelayedOK(r)
  /\ \E S : S \subseteq Slept(kk) /\ Moved(kk, r, S)
  /\ \A t \in AllTasks : r.due[t] <= kk.due[t]
  /\ \A t \in AllTasks, w \in Nat, m \in Nat :
       n <= m /\ w + MaxLate <= W /\ TimedAt(kk, w, t, m) => TimedAt(r, w, t, m - n)

-----------------------------------------------------------------------------
(* Scalars change, lists stay. *)

(* next is v, all else is as before. *)
Renexted(kk, r, v) ==
  /\ r.cur = kk.cur /\ r.tick = kk.tick /\ r.next = v /\ r.suspended = kk.suspended
  /\ r.missedTicks = kk.missedTicks /\ r.missedYield = kk.missedYield /\ r.yield = kk.yield
  /\ r.uxPriority = kk.uxPriority /\ r.entered = kk.entered /\ r.due = kk.due /\ r.late = kk.late
  /\ r.ready = kk.ready /\ r.delayed = kk.delayed /\ r.overflow = kk.overflow
  /\ r.forever = kk.forever /\ r.top = kk.top /\ r.wake = kk.wake
  /\ r.pending = kk.pending /\ r.toReceive = kk.toReceive /\ r.toSend = kk.toSend

(* vTaskIncrementTick before it checks the delayed list. *)
Counted(kk, tick) ==
  [kk EXCEPT !.tick = tick,
             !.due = [t \in AllTasks |-> IF @[t] > -MaxLate THEN @[t] - 1 ELSE @[t]]]

(* The delayed lists are swapped. *)
Swapped(kk) ==
  [kk EXCEPT !.delayed = kk.overflow, !.overflow = kk.delayed,
             !.entered = [t \in AllTasks |-> [@[t] EXCEPT !.wrapped = TRUE]],
             !.next = IF kk.overflow = <<>> THEN portMAX_DELAY
                      ELSE kk.wake[Head(kk.overflow)]]

(* The tick has advanced and the delayed list is not checked yet. *)
Advanced(kk) ==
  LET tick == (kk.tick + 1) % W
  IN  IF tick # 0 THEN Counted(kk, tick) ELSE Swapped(Counted(kk, tick))

(* What a tick leaves alone. *)
SameTasks(kk, r) ==
  /\ r.cur = kk.cur /\ r.suspended = kk.suspended
  /\ r.missedTicks = kk.missedTicks /\ r.missedYield = kk.missedYield /\ r.yield = kk.yield
  /\ r.uxPriority = kk.uxPriority /\ r.late = kk.late
  /\ r.ready = kk.ready /\ r.forever = kk.forever /\ r.top = kk.top /\ r.wake = kk.wake
  /\ r.pending = kk.pending /\ r.toReceive = kk.toReceive /\ r.toSend = kk.toSend

(* One tick less is left of every wait. *)
OneLess(kk, r) ==
  \A t \in AllTasks : r.due[t] = IF kk.due[t] > -MaxLate THEN kk.due[t] - 1 ELSE kk.due[t]

(* The delayed lists before those that are due are taken out. *)
AlmostOK(kk) ==
  /\ \A t \in ToSet(kk.delayed) :
       kk.due[t] = kk.wake[t] - kk.tick /\ kk.due[t] >= 0 /\ kk.next <= kk.wake[t]
  /\ \A t \in ToSet(kk.overflow) : kk.due[t] = W + kk.wake[t] - kk.tick
  /\ Ordered(kk.delayed, kk.wake) /\ Ordered(kk.overflow, kk.wake)

(* Only the flags differ. *)
SameLists(kk, r) ==
  /\ r.cur = kk.cur /\ r.tick = kk.tick /\ r.next = kk.next /\ r.top = kk.top
  /\ r.ready = kk.ready /\ r.delayed = kk.delayed /\ r.overflow = kk.overflow
  /\ r.forever = kk.forever /\ r.pending = kk.pending
  /\ r.toReceive = kk.toReceive /\ r.toSend = kk.toSend
  /\ r.uxPriority = kk.uxPriority /\ r.wake = kk.wake
  /\ r.entered = kk.entered /\ r.due = kk.due /\ r.late = kk.late

(* The flags have their types. *)
FlagsOK(r) ==
  /\ DOMAIN r = Fields /\ r.suspended \in BOOLEAN /\ r.missedTicks \in 0 .. MaxMissed
  /\ r.missedYield \in BOOLEAN /\ r.yield \in BOOLEAN

-----------------------------------------------------------------------------

(* The loop of xTaskResumeAll over the missed ticks. *)
Ticking(f, kk, n) == f = [i \in 0 .. n |-> IF i = 0 THEN kk ELSE vTaskIncrementTick(f[i - 1])]

(* The scheduler after n ticks, as xTaskResumeAll computes it. *)
AfterTicks(kk, n) ==
  LET ticked[i \in 0 .. MaxMissed] == IF i = 0 THEN kk ELSE vTaskIncrementTick(ticked[i - 1])
  IN  ticked[n]

(* f[i] is the scheduler after i ticks. *)
TicksBy(f, kk) ==
  /\ f[0] = kk
  /\ \A i \in 0 .. MaxMissed : f[i] = AfterTicks(kk, i)
  /\ \A i \in 1 .. MaxMissed : f[i] = vTaskIncrementTick(f[i - 1])

-----------------------------------------------------------------------------

(* xTaskResumeAll. *)
Resumed(kk, r, S) ==
  /\ Shape(r) /\ Apart(r) /\ DelayedOK(r)
  /\ r.cur = kk.cur /\ r.suspended = FALSE /\ r.missedTicks = 0 /\ r.missedYield = FALSE
  /\ r.yield = (kk.yield \/ YieldRequired(kk))
  /\ r.late = kk.late /\ r.uxPriority = kk.uxPriority
  /\ ToSet(kk.pending) \subseteq S /\ S \subseteq ToSet(kk.pending) \cup Slept(kk)
  /\ kk.missedTicks = 0 => S = ToSet(kk.pending)
  /\ \A t \in AllTasks : Ready(r, t) <=> Ready(kk, t) \/ t \in S
  /\ Slept(r) = Slept(kk) \ S /\ r.forever = kk.forever \ S
  /\ r.pending = <<>>
  /\ Thins(kk, r, S)
  /\ \A t \in AllTasks : r.due[t] <= kk.due[t]
  /\ \A t \in AllTasks, w \in Nat :
       w + MaxLate <= W /\ TimedAt(kk, w, t, kk.missedTicks) => TimedAt(r, w, t, 0)

(* DelayedOK with d for what is left of the waits. *)
DelayedFor(kk, d) ==
  /\ \A t \in ToSet(kk.delayed) : d[t] = kk.wake[t] - kk.tick /\ d[t] > 0 /\ kk.next <= kk.wake[t]
  /\ \A t \in ToSet(kk.overflow) : d[t] = W + kk.wake[t] - kk.tick
  /\ Ordered(kk.delayed, kk.wake) /\ Ordered(kk.overflow, kk.wake)

-----------------------------------------------------------------------------
(* The current task goes to sleep. *)

(* t leaves the ready lists. *)
Unready(kk, r, t) ==
  /\ r.cur = kk.cur /\ r.tick = kk.tick /\ r.suspended = kk.suspended
  /\ r.missedTicks = kk.missedTicks /\ r.missedYield = kk.missedYield /\ r.yield = kk.yield
  /\ r.uxPriority = kk.uxPriority /\ r.entered = kk.entered /\ r.due = kk.due /\ r.late = kk.late
  /\ \A u \in AllTasks : Ready(r, u) <=> Ready(kk, u) /\ u # t

(* t sleeps for n ticks. *)
Parked(kk, r, t, n) ==
  /\ Shape(r) /\ Apart(r) /\ Unready(kk, r, t)
  /\ r.pending = kk.pending /\ r.toReceive = kk.toReceive /\ r.toSend = kk.toSend
  /\ Slept(r) = Slept(kk) \cup {t} /\ r.forever = kk.forever
  /\ \A d : DelayedFor(kk, d) /\ d[t] = n => DelayedFor(r, d)

(* What a step does to the lists: the tasks of S become ready, those of P *)
(* pending.                                                               *)
Woke(kk, r, S, P) ==
  /\ Shape(r) /\ Apart(r) /\ S \subseteq AllTasks /\ P \subseteq AllTasks
  /\ \A t \in AllTasks : Ready(r, t) <=> Ready(kk, t) \/ t \in S
  /\ Slept(r) = Slept(kk) \ S /\ r.forever = kk.forever \ S
  /\ \A x \in Queues : /\ Thinned(r.toReceive[x], kk.toReceive[x], S \cup P)
                       /\ Thinned(r.toSend[x], kk.toSend[x], S \cup P)
  /\ ToSet(r.pending) = (ToSet(kk.pending) \cup P) \ S

(* The delayed lists stay right. *)
KeepsTime(kk, r) == r.tick = kk.tick /\ \A d : DelayedFor(kk, d) => DelayedFor(r, d)

(* Fields that no list operation reads change. *)
Near(kk, r) ==
  /\ r.tick = kk.tick /\ r.next = kk.next /\ r.top = kk.top
  /\ r.ready = kk.ready /\ r.delayed = kk.delayed /\ r.overflow = kk.overflow
  /\ r.forever = kk.forever /\ r.pending = kk.pending
  /\ r.toReceive = kk.toReceive /\ r.toSend = kk.toSend
  /\ r.uxPriority = kk.uxPriority /\ r.wake = kk.wake

(* The types of the fields outside the lists. *)
RestOK(r) ==
  /\ DOMAIN r = Fields /\ r.cur \in AllTasks
  /\ r.suspended \in BOOLEAN /\ r.missedTicks \in 0 .. MaxMissed
  /\ r.missedYield \in BOOLEAN /\ r.yield \in BOOLEAN /\ r.late \subseteq Tasks
  /\ r.due \in [AllTasks -> Int]
  /\ r.entered \in [AllTasks -> [tick : 0 .. W - 1, wrapped : BOOLEAN]]

(* The current task, the flags and the waits are as before. *)
SameRest(kk, r) ==
  /\ r.cur = kk.cur /\ r.suspended = kk.suspended /\ r.missedTicks = kk.missedTicks
  /\ r.missedYield = kk.missedYield /\ r.yield = kk.yield
  /\ r.entered = kk.entered /\ r.due = kk.due /\ r.late = kk.late

(* The task h, which is ready, gets the priority p. *)
Raised(kk, r, h, p) ==
  /\ Woke(kk, r, {}, {}) /\ KeepsTime(kk, r) /\ SameRest(kk, r)
  /\ r.uxPriority = [kk.uxPriority EXCEPT ![h] = p]
  /\ r.toReceive = kk.toReceive /\ r.toSend = kk.toSend

-----------------------------------------------------------------------------
(* The context switch. *)

(* The scheduler has switched to a ready task of the highest priority. *)
Switched(kk, r) ==
  /\ Woke(kk, r, {}, {}) /\ KeepsTime(kk, r)
  /\ r.toReceive = kk.toReceive /\ r.toSend = kk.toSend /\ r.pending = kk.pending
  /\ r.uxPriority = kk.uxPriority /\ r.due = kk.due /\ r.entered = kk.entered
  /\ r.suspended = kk.suspended /\ r.missedTicks = kk.missedTicks
  /\ r.missedYield = kk.missedYield /\ r.yield = FALSE /\ r.late = {}
  /\ Ready(r, r.cur) /\ r.cur \in AllTasks
  /\ \A t \in AllTasks : Ready(r, t) => r.uxPriority[t] <= r.uxPriority[r.cur]

(* The switch as vTaskSwitchContext makes it. *)
SwitchTo(kk) ==
  LET p == Highest({r \in Priorities : r <= kk.top /\ kk.ready[r] # <<>>})
      s == kk.ready[p]
  IN  [kk EXCEPT !.yield = FALSE, !.top = p, !.cur = Head(s),
                 !.ready[p] = Tail(s) \o <<Head(s)>>, !.late = {}]

(* The head of a list as a set. *)
First(list) == IF list = <<>> THEN {} ELSE {Head(list)}

(* The tasks of S have been made ready, all but the flag yield is as before. *)
Wakes(kk, r, S, y) ==
  /\ Woke(kk, r, S, {}) /\ KeepsTime(kk, r)
  /\ r.cur = kk.cur /\ r.suspended = kk.suspended /\ r.missedTicks = kk.missedTicks
  /\ r.missedYield = kk.missedYield /\ r.yield = y
  /\ r.entered = kk.entered /\ r.due = kk.due /\ r.late = kk.late
  /\ r.uxPriority = kk.uxPriority

(* The tasks of P have been made pending, all but the flag missedYield is as before. *)
Pends(kk, r, P, y) ==
  /\ Woke(kk, r, {}, P) /\ KeepsTime(kk, r)
  /\ r.cur = kk.cur /\ r.suspended = kk.suspended /\ r.missedTicks = kk.missedTicks
  /\ r.missedYield = y /\ r.yield = kk.yield
  /\ r.entered = kk.entered /\ r.due = kk.due /\ r.late = kk.late
  /\ r.uxPriority = kk.uxPriority

(* The interrupt wakes h. *)
IsrWake(kk, h) ==
  [xTaskRemoveFromEventList(kk, h) EXCEPT
     !.late = IF kk.suspended THEN @ ELSE @ \cup {h}]

(* A tick with the scheduler running. *)
Ticked(kk, r, S) ==
  /\ Woke(kk, r, S, {}) /\ DelayedOK(r) /\ S \subseteq Slept(kk)
  /\ r.cur = kk.cur /\ r.suspended = kk.suspended /\ r.missedTicks = kk.missedTicks
  /\ r.missedYield = kk.missedYield /\ r.yield = TRUE /\ r.late = kk.late
  /\ r.uxPriority = kk.uxPriority
  /\ \A t \in AllTasks : r.due[t] <= kk.due[t]
  /\ \A t \in AllTasks, w \in Nat :
       w + MaxLate <= W /\ TimedAt(kk, w, t, 1) => TimedAt(r, w, t, 0)

-----------------------------------------------------------------------------
(* vTaskPlaceOnEventList. *)

(* s is the list r with t added. *)
Joined(s, r, t, value) ==
  /\ List(s) /\ ToSet(s) = ToSet(r) \cup {t}
  /\ Ordered(r, value) => Ordered(s, value)

(* t has gone to sleep in the event list of queue x for n ticks. *)
Placed(kk, r, t, list, x, n) ==
  /\ Shape(r) /\ Apart(r) /\ Unready(kk, r, t) /\ r.pending = kk.pending
  /\ \A y \in Queues :
       /\ IF list = "receive" /\ y = x THEN Joined(r.toReceive[y], kk.toReceive[y], t, EventOrder(kk))
          ELSE r.toReceive[y] = kk.toReceive[y]
       /\ IF list # "receive" /\ y = x THEN Joined(r.toSend[y], kk.toSend[y], t, EventOrder(kk))
          ELSE r.toSend[y] = kk.toSend[y]
  /\ IF n = portMAX_DELAY THEN Slept(r) = Slept(kk) /\ r.forever = kk.forever \cup {t}
     ELSE Slept(r) = Slept(kk) \cup {t} /\ r.forever = kk.forever
  /\ \A d : DelayedFor(kk, d) /\ (n # portMAX_DELAY => d[t] = n) => DelayedFor(r, d)

(* An event list changes. *)
Listed(kk, r) ==
  /\ r.cur = kk.cur /\ r.tick = kk.tick /\ r.next = kk.next /\ r.suspended = kk.suspended
  /\ r.missedTicks = kk.missedTicks /\ r.missedYield = kk.missedYield /\ r.yield = kk.yield
  /\ r.uxPriority = kk.uxPriority /\ r.entered = kk.entered /\ r.due = kk.due /\ r.late = kk.late
  /\ r.top = kk.top /\ r.ready = kk.ready /\ r.delayed = kk.delayed /\ r.overflow = kk.overflow
  /\ r.forever = kk.forever /\ r.pending = kk.pending /\ r.wake = kk.wake

(* Sleeping without a limit. *)
Forever(kk, t) == [RemoveGeneric(kk, t) EXCEPT !.forever = @ \cup {t}]

(* kk with t in the event list of queue x. *)
Listing(kk, t, list, x) ==
  IF list = "receive" THEN [kk EXCEPT !.toReceive[x] = vListInsert(@, t, EventOrder(kk))]
                      ELSE [kk EXCEPT !.toSend[x] = vListInsert(@, t, EventOrder(kk))]

-----------------------------------------------------------------------------
(* What the steps do to the calls and to the queues. *)

(* Only the call of t changes. *)
Others(t) == \A u \in Tasks : u # t => task'[u] = task[u]

(* t goes on in its call. *)
Goes(t, pc) ==
  /\ Others(t) /\ task'[t].pc = pc
  /\ task'[t].fn = task[t].fn /\ task'[t].x = task[t].x /\ task'[t].wait = task[t].wait
  /\ task'[t].entrySet = task[t].entrySet /\ task'[t].expired = task[t].expired

(* t returns. *)
Leaves(t) == Others(t) /\ task'[t].pc = "app"

(* The counts of queue x change, the other queue does not. *)
Counts(x, n, h, tx, rx) ==
  /\ \A y \in Queues : y # x => q'[y] = q[y]
  /\ q'[x].waiting = n /\ q'[x].holder = h /\ q'[x].txLock = tx /\ q'[x].rxLock = rx

-----------------------------------------------------------------------------
(* The inductive invariant of the scheduler. *)

(* Where the scheduler is suspended in a call. *)
SuspendedPcs == {"delay", "lock", "check", "test", "inherit", "place", "unlockTx", "unlockRx", "resume"}

(* Where a task that has been placed may be in its call. *)
PlacedPcs == {"unlockTx", "unlockRx", "resume", "yield"}

(* Where a task may sleep in its call. *)
AsleepPcs == {"top", "unlockTx", "unlockRx", "resume", "yield"}

(* Where the queue of a call is locked. *)
LockPcs == {"check", "test", "inherit", "place", "unlockTx"}

(* The scheduler is suspended for the stretch of a call of the current task. *)
SuspOK ==
  /\ k.suspended => k.cur \in Tasks
  /\ \A t \in Tasks : task[t].pc \in SuspendedPcs <=> k.suspended /\ t = k.cur
  /\ ~k.suspended => k.missedTicks = 0 /\ ToSet(k.pending) = {}

(* t sleeps in a call on queue x. *)
SleepsIn(t, fn, x) ==
  /\ t \in Tasks /\ task[t].pc \in AsleepPcs /\ task[t].fn = fn /\ task[t].x = x
  /\ ~task[t].expired /\ ~Ready(k, t)

(* Who is in an event list sleeps in a call on its queue, and who is pending has been *)
(* called from the mailbox.                                                           *)
EventsOK ==
  /\ \A x \in Queues : /\ \A t \in ToSet(k.toReceive[x]) : SleepsIn(t, "receive", x)
                       /\ \A t \in ToSet(k.toSend[x]) : SleepsIn(t, "send", x)
  /\ \A t \in ToSet(k.pending) : SleepsIn(t, "receive", Mbox) /\ t \notin ToSet(k.toReceive[Mbox])
  /\ \A t \in Slept(k) : t \notin ToSet(k.toReceive[Mutex])

(* The current task is ready, or is on its way to a switch. *)
CurOK ==
  k.cur \in Tasks /\ (k.suspended \/ ~k.yield) /\ ~Ready(k, k.cur) =>
    task[k.cur].pc \in PlacedPcs /\ ~task[k.cur].expired

(* A queue is locked by the current task alone. *)
LocksOK ==
  /\ \A x \in Queues :
       /\ q[x].txLock >= -1 /\ q[x].txLock <= q[x].waiting /\ q[x].rxLock \in {-1, 0}
       /\ q[x].txLock >= 0 =>
            k.cur \in Tasks /\ task[k.cur].pc \in LockPcs /\ task[k.cur].x = x
       /\ q[x].rxLock >= 0 =>
            k.cur \in Tasks /\ task[k.cur].pc \in LockPcs \cup {"unlockRx"} /\ task[k.cur].x = x
  /\ q[Mutex].txLock <= 0
  /\ \A t \in Tasks : task[t].pc \in LockPcs => q[task[t].x].txLock >= 0

(* The mutex has a holder or a token; its holder is ready and does nothing but release it. *)
MutexOK ==
  /\ q[Mutex].waiting = IF q[Mutex].holder = Nothing THEN 1 ELSE 0
  /\ \A t \in Tasks :
       /\ Holding(t) => Ready(k, t)
       /\ Holding(t) /\ task[t].pc # "app" => Waits(t, "send", Mutex)
       /\ Waits(t, "send", Mutex) => Holding(t) /\ task[t].pc = "top"
       /\ Waits(t, "receive", Mutex) => task[t].wait = portMAX_DELAY /\ ~task[t].expired
       /\ Waits(t, "receive", Mutex) /\ task[t].pc \in {"inherit", "place"} => q[Mutex].holder # Nothing
       /\ task[t].pc = "inherit" => Waits(t, "receive", Mutex)

(* Who is late waits for the mailbox, and is not in the middle of its call. *)
LateOK ==
  \A t \in k.late : /\ t \in Tasks /\ Waits(t, "receive", Mbox)
                    /\ t = k.cur => ~k.suspended /\ (k.yield \/ task[t].pc = "yield")

(* No ready task is above the current one, unless it is late or a switch is asked for. *)
FineOK ==
  k.suspended \/ ~k.yield =>
    \A t \in AllTasks : Ready(k, t) => k.uxPriority[t] <= k.uxPriority[k.cur] \/ t \in k.late

(* The waiters of the mutex are in the order of their priorities. *)
Sorted == Ordered(k.toReceive[Mutex], EventOrder(k))

(* A free mutex that tasks wait for is about to be taken by one of their best. *)
Handover ==
  q[Mutex].holder = Nothing /\ ToSet(k.toReceive[Mutex]) # {} =>
    \E w \in Tasks : /\ Waits(w, "receive", Mutex) /\ task[w].pc \in {"top", "yield"} /\ Ready(k, w)
                     /\ \A u \in ToSet(k.toReceive[Mutex]) : k.uxPriority[u] <= k.uxPriority[w]

(* u waits for the mutex, or is about to. *)
Lent(u) == u \in ToSet(k.toReceive[Mutex]) \/ (task[u].pc = "place" /\ Waits(u, "receive", Mutex))

(* A raised priority of the holder is that of a task that waits for the mutex. *)
Inheritance ==
  \A h \in Tasks : Holding(h) /\ k.uxPriority[h] # uxBasePriority[h] =>
    /\ uxBasePriority[h] < k.uxPriority[h]
    /\ \E u \in Tasks : k.uxPriority[u] = k.uxPriority[h] /\ Lent(u)

(* The holder has inherited when a task is about to sleep on the mutex. *)
AtPlace ==
  \A t, h \in Tasks : task[t].pc = "place" /\ Waits(t, "receive", Mutex) /\ Holding(h) =>
    k.uxPriority[t] <= k.uxPriority[h]

(* The arguments of the calls and what the tasks have found out. *)
CallsOK ==
  \A t \in Tasks : task[t].pc # "app" =>
    /\ task[t].wait \in 0 .. W - 1
    /\ task[t].wait = 0 => task[t].pc = "top" \/ (task[t].fn = "delay" /\ task[t].pc = "yield")
    /\ task[t].fn = "delay" => task[t].wait < W - 1 /\ ~task[t].expired
    /\ task[t].expired => task[t].pc \in {"unlockTx", "unlockRx", "resume"} /\ task[t].wait # portMAX_DELAY
    /\ task[t].fn # "delay" /\ task[t].wait \notin {0, portMAX_DELAY} =>
         task[t].fn = "receive" /\ task[t].x = Mbox /\ task[t].wait + MaxLate <= W
    /\ task[t].fn # "delay" /\ task[t].pc # "top" => task[t].entrySet
    /\ task[t].pc = "delay" => task[t].fn = "delay"

(* The invariant of the lists, the calls and the locks. *)
Ground == /\ IInv /\ Shape(k) /\ Apart(k) /\ DelayedOK(k)
          /\ SuspOK /\ EventsOK /\ CurOK /\ LocksOK /\ MutexOK /\ CallsOK

(* The queue of t cannot serve its call. *)
Blocked(t) ==
  IF task[t].fn = "receive" THEN q[task[t].x].waiting = 0 ELSE q[task[t].x].waiting = Length(task[t].x)

(* The flags are as before. *)
SameFlags(kk, r) ==
  /\ r.cur = kk.cur /\ r.suspended = kk.suspended /\ r.missedTicks = kk.missedTicks
  /\ r.missedYield = kk.missedYield /\ r.yield = kk.yield /\ r.late = kk.late

(* The waits of all other tasks are as before. *)
OtherWaits(t) == \A u \in AllTasks : u # t => k'.due[u] = k.due[u] /\ k'.entered[u] = k.entered[u]

(* Only the wait of t changes. *)
WaitOf(t) ==
  /\ Woke(k, k', {}, {}) /\ KeepsTime(k, k') /\ SameFlags(k, k')
  /\ k'.uxPriority = k.uxPriority /\ OtherWaits(t)
  /\ k'.toReceive = k.toReceive /\ k'.toSend = k.toSend /\ k'.pending = k.pending

-----------------------------------------------------------------------------
(* A task begins a call. *)

(* The five calls of the application. *)
BeginsAs(t) ==
  LET c == task'[t] IN
  \/ c.fn = "send" /\ c.x = Mbox /\ c.wait \in {0, portMAX_DELAY} /\ c.pc = "top" /\ ~Holding(t)
  \/ /\ c.fn = "receive" /\ c.x = Mbox /\ c.pc = "top" /\ ~Holding(t)
     /\ c.wait = portMAX_DELAY \/ (c.wait \in Nat \ {0} /\ c.wait + MaxLate <= W /\ c.wait < W - 1)
  \/ c.fn = "receive" /\ c.x = Mutex /\ c.wait = portMAX_DELAY /\ c.pc = "top" /\ ~Holding(t)
  \/ c.fn = "send" /\ c.x = Mutex /\ c.wait = 0 /\ c.pc = "top" /\ Holding(t)
  \/ /\ c.fn = "delay" /\ c.wait \in Nat /\ c.wait < W - 1 /\ ~Holding(t)
     /\ c.pc = IF c.wait > 0 THEN "suspend" ELSE "yield"

(* t begins a call. *)
BeginEff(t) ==
  /\ At(t, "app") /\ Others(t) /\ k' = k /\ q' = q
  /\ ~task'[t].entrySet /\ ~task'[t].expired
  /\ BeginsAs(t)

(* t puts an item into queue x, or releases the mutex. *)
SendEff(t, x) ==
  /\ At(t, "top") /\ task[t].fn = "send" /\ task[t].x = x /\ x \in Queues
  /\ q[x].waiting < Length(x)
  /\ Counts(x, q[x].waiting + 1, Nothing, q[x].txLock, q[x].rxLock) /\ Leaves(t)
  /\ Woke(k, k', First(k.toReceive[x]), {}) /\ KeepsTime(k, k')
  /\ k'.cur = k.cur /\ k'.suspended = k.suspended /\ k'.missedTicks = k.missedTicks
  /\ k'.late = k.late /\ k'.due = k.due /\ k'.entered = k.entered
  /\ k'.uxPriority = IF x = Mutex THEN [k.uxPriority EXCEPT ![t] = uxBasePriority[t]] ELSE k.uxPriority
  /\ k'.yield = (k.toReceive[x] # <<>> /\ k'.uxPriority[Head(k.toReceive[x])] >= k'.uxPriority[t])

(* t takes an item from queue x, or the mutex. *)
ReceiveEff(t, x) ==
  /\ At(t, "top") /\ task[t].fn = "receive" /\ task[t].x = x /\ x \in Queues
  /\ q[x].waiting > 0
  /\ Counts(x, q[x].waiting - 1, IF x = Mutex THEN t ELSE q[x].holder, q[x].txLock, q[x].rxLock)
  /\ Leaves(t)
  /\ Woke(k, k', First(k.toSend[x]), {}) /\ KeepsTime(k, k')
  /\ k'.cur = k.cur /\ k'.suspended = k.suspended /\ k'.missedTicks = k.missedTicks
  /\ k'.late = k.late /\ OtherWaits(t) /\ k'.uxPriority = k.uxPriority
  /\ k'.yield = (k.toSend[x] # <<>> /\ k.uxPriority[Head(k.toSend[x])] >= k.uxPriority[t])

(* t gives up a call that may not wait. *)
RefuseEff(t) ==
  /\ At(t, "top") /\ task[t].fn # "delay" /\ Blocked(t)
  /\ k' = k /\ q' = q /\ Leaves(t)

(* t starts the clock of its call, unless it runs already. *)
EnterEff(t) ==
  /\ At(t, "top") /\ task[t].fn # "delay" /\ Blocked(t) /\ task[t].wait # 0
  /\ q' = q /\ WaitOf(t)
  /\ Others(t) /\ task'[t].pc = "suspend" /\ task'[t].entrySet
  /\ task'[t].fn = task[t].fn /\ task'[t].x = task[t].x /\ task'[t].wait = task[t].wait
  /\ task'[t].expired = task[t].expired
  /\ IF task[t].entrySet \/ task[t].wait = portMAX_DELAY
     THEN k'.due[t] = k.due[t] /\ k'.entered[t] = k.entered[t]
     ELSE k'.due[t] = task[t].wait /\ k'.entered[t] = [tick |-> k.tick, wrapped |-> FALSE]

(* The wait of t is set to n ticks, from the time e. *)
Rewaited(kk, r, t, n, e) ==
  /\ Woke(kk, r, {}, {}) /\ KeepsTime(kk, r) /\ SameFlags(kk, r)
  /\ r.uxPriority = kk.uxPriority
  /\ r.toReceive = kk.toReceive /\ r.toSend = kk.toSend /\ r.pending = kk.pending
  /\ r.due[t] = n /\ r.entered[t] = e
  /\ \A u \in AllTasks : u # t => r.due[u] = kk.due[u] /\ r.entered[u] = kk.entered[u]

(* Only flags of the scheduler change. *)
FlagStep ==
  /\ Woke(k, k', {}, {}) /\ KeepsTime(k, k')
  /\ k'.cur = k.cur /\ k'.uxPriority = k.uxPriority /\ k'.late = k.late
  /\ k'.due = k.due /\ k'.entered = k.entered
  /\ k'.toReceive = k.toReceive /\ k'.toSend = k.toSend /\ k'.pending = k.pending

(* t suspends the scheduler. *)
SuspendEff(t) ==
  /\ At(t, "suspend") /\ q' = q /\ FlagStep /\ k'.suspended = TRUE
  /\ k'.yield = k.yield /\ k'.missedTicks = k.missedTicks
  /\ Goes(t, IF task[t].fn = "delay" THEN "delay" ELSE "lock")

(* t yields at the end of a call that blocked. *)
YieldEff(t) ==
  /\ At(t, "yield") /\ q' = q /\ FlagStep /\ k'.suspended = k.suspended
  /\ k'.yield = TRUE /\ k'.missedTicks = k.missedTicks
  /\ IF task[t].fn = "delay" THEN Leaves(t) ELSE Goes(t, "top")

(* t locks queue x. *)
LockEff(t, x) ==
  /\ At(t, "lock") /\ task[t].x = x /\ x \in Queues /\ k' = k /\ Goes(t, "check")
  /\ Counts(x, q[x].waiting, q[x].holder, IF q[x].txLock = -1 THEN 0 ELSE q[x].txLock,
            IF q[x].rxLock = -1 THEN 0 ELSE q[x].rxLock)

(* What xTaskCheckForTimeOut computes. *)
Since(t) == (k.tick - k.entered[t].tick) % W

(* The answer of xTaskCheckForTimeOut when the tick counter has wrapped. *)
Passed(t) == k.entered[t].wrapped /\ k.tick >= k.entered[t].tick

(* t checks its time limit. *)
CheckEff(t) ==
  /\ At(t, "check") /\ q' = q
  /\ \/ task[t].wait = portMAX_DELAY /\ Goes(t, "test") /\ k' = k
     \/ /\ task[t].wait # portMAX_DELAY /\ ~Passed(t) /\ Since(t) < task[t].wait
        /\ Others(t) /\ task'[t].pc = "test" /\ task'[t].wait = task[t].wait - Since(t)
        /\ task'[t].fn = task[t].fn /\ task'[t].x = task[t].x
        /\ task'[t].entrySet = task[t].entrySet /\ task'[t].expired = task[t].expired
        /\ Rewaited(k, k', t, k.due[t], [tick |-> k.tick, wrapped |-> FALSE])
     \/ /\ task[t].wait # portMAX_DELAY /\ (Passed(t) \/ ~(Since(t) < task[t].wait))
        /\ Others(t) /\ task'[t].pc = "unlockTx" /\ task'[t].expired
        /\ task'[t].fn = task[t].fn /\ task'[t].x = task[t].x /\ task'[t].wait = task[t].wait
        /\ task'[t].entrySet = task[t].entrySet
        /\ k' = k

(* t tests the locked queue. *)
TestEff(t) ==
  /\ At(t, "test") /\ k' = k /\ q' = q /\ task[t].fn # "delay"
  /\ \/ ~Blocked(t) /\ Goes(t, "unlockTx")
     \/ Blocked(t) /\ task[t].fn = "receive" /\ task[t].x = Mutex /\ Goes(t, "inherit")
     \/ Blocked(t) /\ ~(task[t].fn = "receive" /\ task[t].x = Mutex) /\ Goes(t, "place")

(* t goes to sleep in vTaskDelay. *)
DelayEff(t) ==
  /\ At(t, "delay") /\ task[t].fn = "delay" /\ task[t].wait \in 1 .. W - 2
  /\ Ready(k, t) /\ q' = q /\ Goes(t, "resume")
  /\ Shape(k') /\ Apart(k') /\ DelayedOK(k')
  /\ SameFlags(k, k') /\ k'.uxPriority = k.uxPriority
  /\ k'.pending = k.pending /\ k'.toReceive = k.toReceive /\ k'.toSend = k.toSend
  /\ \A u \in AllTasks : Ready(k', u) <=> Ready(k, u) /\ u # t
  /\ Slept(k') = Slept(k) \cup {t} /\ k'.forever = k.forever
  /\ k'.tick = k.tick /\ k'.entered = k.entered
  /\ \A u \in AllTasks : u # t => k'.due[u] = k.due[u]

(* The holder h inherits the priority of t. *)
InheritEff(t, h) ==
  /\ At(t, "inherit") /\ Waits(t, "receive", Mutex) /\ q' = q /\ Goes(t, "place")
  /\ h \in Tasks /\ Holding(h) /\ Ready(k, h) /\ h # t
  /\ IF k.uxPriority[h] >= k.uxPriority[t] THEN k' = k
     ELSE Raised(k, k', h, k.uxPriority[t])

(* t goes to sleep on queue x. *)
PlaceEff(t, x) ==
  /\ At(t, "place") /\ task[t].fn \in {"send", "receive"} /\ task[t].x = x /\ x \in Queues
  /\ task[t].wait \in 1 .. W - 1 /\ Ready(k, t) /\ ~task[t].expired
  /\ q' = q /\ Goes(t, "unlockTx")
  /\ Placed(k, k', t, task[t].fn, x, task[t].wait)

(* The tasks that UnlockTx makes pending. *)
CalledOut(t, x, P, m) ==
  /\ m \in 0 .. Len(k.toReceive[x]) /\ P = FirstOf(k.toReceive[x], m)
  /\ q[x].txLock <= 0 => m = 0
  /\ q[x].txLock > 0 => m = IF q[x].txLock < Len(k.toReceive[x]) THEN q[x].txLock ELSE Len(k.toReceive[x])

(* t unlocks queue x and calls the first m receivers. *)
UnlockTxEff(t, x, P, m) ==
  /\ At(t, "unlockTx") /\ task[t].fn # "delay" /\ task[t].x = x /\ x \in Queues
  /\ Goes(t, "unlockRx") /\ Counts(x, q[x].waiting, q[x].holder, -1, q[x].rxLock)
  /\ CalledOut(t, x, P, m) /\ \E y : Pends(k, k', P, y)

(* t unlocks queue x for the senders. *)
UnlockRxEff(t, x) ==
  /\ At(t, "unlockRx") /\ task[t].fn # "delay" /\ task[t].x = x /\ x \in Queues
  /\ Goes(t, "resume") /\ Counts(x, q[x].waiting, q[x].holder, q[x].txLock, -1)
  /\ k' = k

(* t resumes the scheduler and the tasks of S become ready. *)
ResumeEff(t, S) ==
  /\ At(t, "resume") /\ q' = q
  /\ Woke(k, k', S, {}) /\ DelayedOK(k') /\ ToSet(k'.pending) = {}
  /\ k'.cur = k.cur /\ k'.late = k.late /\ k'.uxPriority = k.uxPriority
  /\ k'.suspended = FALSE /\ k'.missedTicks = 0 /\ k'.yield = YieldRequired(k)
  /\ ToSet(k.pending) \subseteq S /\ S \subseteq ToSet(k.pending) \cup Slept(k)
  /\ k.missedTicks = 0 => S = ToSet(k.pending)
  /\ \A u \in AllTasks : u # t \/ ~task[t].expired => k'.due[u] <= k.due[u]
  /\ \A u \in AllTasks, w \in Nat : u # t \/ ~task[t].expired =>
       (w + MaxLate <= W /\ TimedAt(k, w, u, k.missedTicks) => TimedAt(k', w, u, 0))
  /\ IF task[t].expired THEN Leaves(t)
     ELSE IF ~Ready(k, t) /\ ~k'.yield THEN Goes(t, "yield")
     ELSE IF task[t].fn = "delay" THEN Leaves(t)
     ELSE Goes(t, "top")

(* What t leaves of its wait when it gives up. *)
Ended(t) == IF task[t].expired THEN EndWait(k, t) ELSE k

(* The scheduler when t has given up its wait. *)
EndedAs(t, a) ==
  /\ Shape(a) /\ Apart(a) /\ DelayedOK(a) /\ Woke(k, a, {}, {})
  /\ SameFlags(k, a) /\ a.uxPriority = k.uxPriority /\ ToSet(a.pending) = ToSet(k.pending)
  /\ Slept(a) = Slept(k)
  /\ \A u \in AllTasks : u # t \/ ~task[t].expired => a.due[u] = k.due[u]
  /\ \A u \in AllTasks : u # t \/ ~task[t].expired =>
       \A w, m : TimedAt(k, w, u, m) => TimedAt(a, w, u, m)
  /\ YieldRequired(a) = YieldRequired(k)

-----------------------------------------------------------------------------
(* Steps that are not a task's. *)

(* A switch is held back while the scheduler is suspended. *)
HoldEff ==
  /\ k.yield /\ k.suspended /\ q' = q /\ task' = task
  /\ FlagStep /\ k'.suspended = k.suspended /\ k'.yield = FALSE /\ k'.missedTicks = k.missedTicks

(* The switch. *)
SwitchEff == k.yield /\ ~k.suspended /\ q' = q /\ task' = task /\ Switched(k, k')

(* A tick is counted while the scheduler is suspended. *)
MissEff ==
  /\ InTime /\ k.suspended /\ q' = q /\ task' = task /\ FlagStep
  /\ k'.suspended = k.suspended /\ k'.yield = TRUE /\ k'.missedTicks = k.missedTicks + 1

(* A tick readies the tasks of S. *)
TickEff(S) == InTime /\ ~k.suspended /\ q' = q /\ task' = task /\ Ticked(k, k', S)

(* The interrupt counts its post while the mailbox is locked. *)
CountEff ==
  /\ q[Mbox].waiting < Length(Mbox) /\ q[Mbox].txLock # -1 /\ k' = k /\ task' = task
  /\ Counts(Mbox, q[Mbox].waiting + 1, Nothing, q[Mbox].txLock + 1, q[Mbox].rxLock)

(* It wakes nobody, *)
QuietEff ==
  /\ q[Mbox].waiting < Length(Mbox) /\ q[Mbox].txLock = -1 /\ k' = k /\ task' = task
  /\ k.toReceive[Mbox] = <<>>
  /\ Counts(Mbox, q[Mbox].waiting + 1, Nothing, q[Mbox].txLock, q[Mbox].rxLock)

(* or the first task that waits. *)
PostEff(h, S, P) ==
  /\ q[Mbox].waiting < Length(Mbox) /\ q[Mbox].txLock = -1 /\ task' = task
  /\ k.toReceive[Mbox] # <<>> /\ h = Head(k.toReceive[Mbox]) /\ h \in ToSet(k.toReceive[Mbox])
  /\ h \in Tasks
  /\ Counts(Mbox, q[Mbox].waiting + 1, Nothing, q[Mbox].txLock, q[Mbox].rxLock)
  /\ Woke(k, k', S, P) /\ KeepsTime(k, k') /\ k'.uxPriority = k.uxPriority
  /\ k'.cur = k.cur /\ k'.suspended = k.suspended /\ k'.missedTicks = k.missedTicks
  /\ k'.yield = k.yield /\ k'.due = k.due /\ k'.entered = k.entered
  /\ IF k.suspended THEN S = {} /\ P = {h} /\ k'.late = k.late
     ELSE S = {h} /\ P = {} /\ k'.late = k.late \cup {h}

(* What a step of the task t does. *)
TaskEff(t) ==
  \/ BeginEff(t) \/ RefuseEff(t) \/ EnterEff(t) \/ SuspendEff(t) \/ DelayEff(t) \/ CheckEff(t)
  \/ TestEff(t) \/ YieldEff(t)
  \/ \E x : SendEff(t, x) \/ ReceiveEff(t, x) \/ LockEff(t, x) \/ PlaceEff(t, x) \/ UnlockRxEff(t, x)
  \/ \E h : InheritEff(t, h)
  \/ \E x, P, m : UnlockTxEff(t, x, P, m)
  \/ \E S : ResumeEff(t, S)

(* What a step of an interrupt does. *)
IsrEff ==
  \/ HoldEff \/ SwitchEff \/ MissEff \/ CountEff \/ QuietEff
  \/ \E S : TickEff(S)
  \/ \E h, S, P : PostEff(h, S, P)

-----------------------------------------------------------------------------
(* The shape of the lists. *)

(* The step of t keeps it in its lists, unless it is placed. *)
Stays(t) == \/ \E P : P \subseteq ToSet(k.toReceive[Mbox]) /\ Woke(k, k', {}, P)
            \/ \E S : Woke(k, k', S, {})
            \/ DelayEff(t)
            \/ \E x : PlaceEff(t, x)

-----------------------------------------------------------------------------
(* The arguments of the calls. *)

(* CallsOK for one call. *)
CallFine(c) ==
  /\ c.wait \in 0 .. W - 1
  /\ c.wait = 0 => c.pc = "top" \/ (c.fn = "delay" /\ c.pc = "yield")
  /\ c.fn = "delay" => c.wait < W - 1 /\ ~c.expired
  /\ c.expired => c.pc \in {"unlockTx", "unlockRx", "resume"} /\ c.wait # portMAX_DELAY
  /\ c.fn # "delay" /\ c.wait \notin {0, portMAX_DELAY} =>
       c.fn = "receive" /\ c.x = Mbox /\ c.wait + MaxLate <= W
  /\ c.fn # "delay" /\ c.pc # "top" => c.entrySet
  /\ c.pc = "delay" => c.fn = "delay"

(* A call may go on at pc. *)
GoFine(c, pc) ==
  /\ c.wait = 0 => pc = "top" \/ (c.fn = "delay" /\ pc = "yield")
  /\ c.expired => pc \in {"unlockTx", "unlockRx", "resume"}
  /\ c.fn # "delay" /\ pc # "top" => c.entrySet
  /\ pc = "delay" => c.fn = "delay"

(* Of the tasks that run, only one that has been placed is not ready. *)
PlacedEff(t) ==
  \/ YieldEff(t) \/ \E x : UnlockRxEff(t, x)
  \/ \E x, P, m : UnlockTxEff(t, x, P, m)
  \/ \E S : ResumeEff(t, S)

-----------------------------------------------------------------------------
(* Who is in an event list sleeps in a call on its queue. *)

(* A task that sleeps in a call goes on to sleep in it. *)
SleepsOn(u) ==
  task[u].pc \in AsleepPcs /\ task[u].fn \in {"send", "receive"} /\ ~task[u].expired /\ ~Ready(k, u) =>
    /\ task'[u].pc \in AsleepPcs /\ task'[u].fn = task[u].fn /\ task'[u].x = task[u].x
    /\ ~task'[u].expired

-----------------------------------------------------------------------------
(* The mutex and its holder. *)

(* MutexOK for one task. *)
MutexFine(u) ==
  /\ Holding(u) /\ task[u].pc # "app" => Waits(u, "send", Mutex)
  /\ Waits(u, "send", Mutex) => Holding(u) /\ task[u].pc = "top"
  /\ Waits(u, "receive", Mutex) => task[u].wait = portMAX_DELAY /\ ~task[u].expired
  /\ Waits(u, "receive", Mutex) /\ task[u].pc \in {"inherit", "place"} => q[Mutex].holder # Nothing
  /\ task[u].pc = "inherit" => Waits(u, "receive", Mutex)

(* What a step may leave of the mutex. *)
SameMutex == q'[Mutex].waiting = q[Mutex].waiting /\ q'[Mutex].holder = q[Mutex].holder

-----------------------------------------------------------------------------
(* The time limits. *)

(* The wait of a call with a limit counts the time since it was entered. *)
TimedFine(u) ==
  task[u].pc # "app" /\ task[u].fn # "delay" /\ task[u].wait \notin {0, portMAX_DELAY} /\ task[u].entrySet =>
    /\ TimedAt(k, task[u].wait, u, k.missedTicks)
    /\ task[u].expired => k.due[u] <= 0
    /\ task[u].pc \in {"test", "place"} => k.due[u] = task[u].wait

(* Every wait with a limit counts the time since it was entered. *)
TimedOK == \A u \in Tasks : TimedFine(u)

(* Only the wait of t may change. *)
SameTimes(t) == k'.tick = k.tick /\ k'.missedTicks = k.missedTicks /\ OtherWaits(t)

-----------------------------------------------------------------------------
(* The delayed lists. *)

(* Every task is at a known place of its call. *)
PcsOK == \A u \in Tasks : task[u].pc \in pcs

(* The invariant of the lists and of time. *)
Base == Ground /\ TimedOK /\ PcsOK

-----------------------------------------------------------------------------
(* The mutex, its holder and its waiters. *)

(* The step changes neither priorities nor the holder nor who waits for the mutex. *)
Calm(t) ==
  /\ k'.uxPriority = k.uxPriority
  /\ q'[Mutex].holder = q[Mutex].holder
  /\ Thinned(k'.toReceive[Mutex], k.toReceive[Mutex], {})
  /\ \A u \in AllTasks : u # t /\ Ready(k, u) => Ready(k', u)

(* A step of t that does not place it, nor lets it go on to be placed, for the mutex. *)
CalmEff(t) ==
  /\ Calm(t)
  /\ task[t].pc = "place" => ~Waits(t, "receive", Mutex)
  /\ task'[t].pc = "place" => ~Waits(t, "receive", Mutex)'

(* The steps that change the mutex, its waiters or a priority. *)
MutexEff(t) ==
  \/ SendEff(t, Mutex) \/ ReceiveEff(t, Mutex)
  \/ task[t].fn = "receive" /\ PlaceEff(t, Mutex)
  \/ \E h : InheritEff(t, h)

(* A task that holds nothing is at its own priority. *)
OwnPriority == \A t \in Tasks : q[Mutex].holder # t => k.uxPriority[t] = uxBasePriority[t]

(* The holder is not below a task that waits. *)
AboveWaiters ==
  \A h \in Tasks : Holding(h) => \A u \in ToSet(k.toReceive[Mutex]) : k.uxPriority[u] <= k.uxPriority[h]

(* The invariant of the mutex and of the priorities. *)
Ranks == Sorted /\ OwnPriority /\ AboveWaiters /\ Handover /\ Inheritance /\ AtPlace

-----------------------------------------------------------------------------
(* Calm steps. *)

(* The invariant of the priorities. *)
Scheduled == Base /\ LateOK /\ FineOK /\ Ranks

-----------------------------------------------------------------------------
(* Every item has an awake task to take it. *)

(* u is in a call on the mailbox and looks at it again once it runs. *)
Looks(u, fn) ==
  task[u].pc \in AsleepPcs /\ task[u].fn = fn /\ task[u].x = Mbox /\ ~task[u].expired

(* The awake tasks that will look for an item. *)
Receivers == {u \in Tasks : Looks(u, "receive") /\ u \notin ToSet(k.toReceive[Mbox])}

(* The awake tasks that will look for a free place. *)
Senders == {u \in Tasks : Looks(u, "send") /\ u \notin ToSet(k.toSend[Mbox])}

(* What interrupts posted while the mailbox was locked. *)
Posted == IF q[Mbox].txLock > 0 THEN q[Mbox].txLock ELSE 0

(* Who sleeps for an item does so as every item has an awake taker, or was counted. *)
ReceiveClaim ==
  ToSet(k.toReceive[Mbox]) # {} => q[Mbox].waiting <= Cardinality(Receivers) + Posted

(* Who sleeps for a place does so as every free place has an awake taker. *)
SendClaim ==
  ToSet(k.toSend[Mbox]) # {} => uxLength - q[Mbox].waiting <= Cardinality(Senders)

(* What the task about to sleep has seen still holds, but for counted posts. *)
PlaceClaim ==
  \A t \in Tasks : task[t].pc = "place" /\ task[t].x = Mbox =>
    /\ task[t].fn = "receive" => q[Mbox].waiting <= q[Mbox].txLock
    /\ task[t].fn = "send" => q[Mbox].waiting >= uxLength

-----------------------------------------------------------------------------
(* Steps that keep the takers. *)

(* Nobody who will look at the mailbox leaves its call. *)
KeepsTakers(fn) == \A u \in Tasks : Looks(u, fn) => Looks(u, fn)'

(* The counts of the mailbox stay, nobody joins its waiters. *)
SameMbox == q'[Mbox].waiting = q[Mbox].waiting /\ Posted' = Posted

(* Nobody joins the event lists of the mailbox. *)
Shorter ==
  /\ ToSet(k'.toReceive[Mbox]) \subseteq ToSet(k.toReceive[Mbox])
  /\ ToSet(k'.toSend[Mbox]) \subseteq ToSet(k.toSend[Mbox])

(* The steps of a task that touch the counts or the event lists of the mailbox. *)
MboxEff(t) ==
  \/ SendEff(t, Mbox) \/ ReceiveEff(t, Mbox) \/ PlaceEff(t, Mbox)
  \/ \E P, m : UnlockTxEff(t, Mbox, P, m)

-----------------------------------------------------------------------------

(* Nobody sleeps on what nobody will take. *)
Claimed == Scheduled /\ ReceiveClaim /\ SendClaim /\ PlaceClaim
=============================================================================
