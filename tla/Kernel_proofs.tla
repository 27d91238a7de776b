--------------------------- MODULE Kernel_proofs ----------------------------
(***************************************************************************)
(* Proofs about Kernel, for every length of the mailbox, every finite set  *)
(* of tasks, their priorities and their time limits, in three parts.       *)
(*                                                                         *)
(* The ring buffer with its two wrapping pointers is a bounded first-in    *)
(* first-out queue (ImplementsMailbox).  Nothing is needed of the          *)
(* scheduler: its record k is arbitrary.                                   *)
(*                                                                         *)
(* Every operation of the scheduler, and then every step of Next, has the  *)
(* effect that KernelInvariant states.                                     *)
(*                                                                         *)
(* Every effect keeps the layers of the invariant that KernelInvariant     *)
(* defines: Base (SleepsExactly), Scheduled (HighestRuns and NoInversion)  *)
(* and Claimed (NoLostWakeup).                                             *)
(***************************************************************************)
EXTENDS KernelInvariant, SequenceTheorems, FiniteSetTheorems, NaturalsInduction,
        WellFoundedInduction, TLAPS

-----------------------------------------------------------------------------
(* Arithmetic of the pointers. *)

(* A pointer that has moved at most two rounds, wrapped.                   *)
LEMMA Wrapped ==
  ASSUME NEW L \in Nat \ {0}, NEW a \in 0 .. 2 * L
  PROVE  a % L = IF a < L THEN a ELSE IF a < 2 * L THEN a - L ELSE 0
OBVIOUS

(* Advancing a pointer and wrapping it commute.                            *)
LEMMA WrappedStep ==
  ASSUME NEW L \in Nat \ {0}, NEW a \in 0 .. 2 * L - 1
  PROVE  /\ (a % L) \in 0 .. L - 1
         /\ ((a % L) + 1) % L = (a + 1) % L
<1>1. a % L = IF a < L THEN a ELSE a - L
  OBVIOUS
<1>2. (a + 1) % L = IF a + 1 < L THEN a + 1 ELSE IF a + 1 < 2 * L THEN a + 1 - L ELSE 0
  OBVIOUS
<1>3. (a % L) \in 0 .. L - 1
  BY <1>1
<1> DEFINE b == a % L
<1>4. b \in 0 .. L - 1
  BY <1>3
<1> HIDE DEF b
<1>5. (b + 1) % L = IF b + 1 < L THEN b + 1 ELSE 0
  BY <1>4
<1> QED
  BY <1>1, <1>2, <1>3, <1>5 DEF b

-----------------------------------------------------------------------------
(* The tasks. *)

(* A task that goes on in its call keeps what it was called with.          *)
LEMMA GoOn ==
  ASSUME TasksOK, NEW t \in Tasks, NEW pc,
         task[t].pc # "app", Go(t, pc),
         task[t].fn = "delay" => pc \in {"suspend", "delay", "resume", "yield"}
  PROVE  TasksOK'
<1>1. CallOK(task[t])
  BY DEF TasksOK
<1>2. task' = [task EXCEPT ![t] = [task[t] EXCEPT !.pc = pc]]
  BY DEF Go
<1> DEFINE c == [task[t] EXCEPT !.pc = pc]
<1>3. c = [pc |-> pc, fn |-> task[t].fn, x |-> task[t].x,
           wait |-> task[t].wait, item |-> task[t].item,
           entrySet |-> task[t].entrySet, expired |-> task[t].expired]
  BY <1>1 DEF CallOK
<1> HIDE DEF c
<1>4. CallOK(c)
  BY <1>1, <1>3 DEF CallOK
<1>5. task' = [u \in Tasks |-> IF u = t THEN c ELSE task[u]]
  BY <1>2 DEF c, TasksOK
<1> QED
  BY <1>4, <1>5 DEF TasksOK

(* A task that returns from its call is outside the kernel.                *)
LEMMA Returns ==
  ASSUME TasksOK, NEW t \in Tasks, Return(t)
  PROVE  TasksOK'
<1>1. task' = [u \in Tasks |-> IF u = t THEN [pc |-> "app"] ELSE task[u]]
  BY DEF Return, TasksOK
<1> QED
  BY <1>1 DEF TasksOK

(* A task enters the kernel with the arguments of one of its calls.        *)
LEMMA Begins ==
  ASSUME TasksOK, NEW t \in Tasks, NEW fn \in {"send", "receive", "delay"},
         NEW x, NEW n, NEW m, Begin(t, fn, x, n, m),
         fn # "delay" => x \in Queues,
         fn = "send" /\ x = Mbox => m = Callback
  PROVE  TasksOK'
<1> DEFINE c == [pc |-> IF fn # "delay" THEN "top"
                        ELSE IF n > 0 THEN "suspend" ELSE "yield",
                 fn |-> fn, x |-> x, wait |-> n, item |-> m,
                 entrySet |-> FALSE, expired |-> FALSE]
<1>1. CallOK(c)
  BY DEF CallOK
<1>2. task' = [u \in Tasks |-> IF u = t THEN c ELSE task[u]]
  BY DEF Begin, TasksOK
<1> HIDE DEF c
<1> QED
  BY <1>1, <1>2 DEF TasksOK

(* So does every call of the operating system port.                        *)
LEMMA ApplicationTasks ==
  ASSUME TasksOK, NEW t \in Tasks, Application(t)
  PROVE  TasksOK' /\ UNCHANGED <<k, q>>
<1>1. CASE sys_mbox_post(t)
  BY <1>1, Begins DEF sys_mbox_post, Queues, Begin
<1>2. CASE sys_mbox_trypost(t)
  BY <1>2, Begins DEF sys_mbox_trypost, Queues, Begin
<1>3. CASE \E n \in FetchWaits : sys_arch_mbox_fetch(t, n)
  <2> PICK n \in FetchWaits : sys_arch_mbox_fetch(t, n)
    BY <1>3
  <2> DEFINE lim == IF n = 0 THEN portMAX_DELAY ELSE n
  <2>1. Begin(t, "receive", Mbox, lim, Nothing)
    BY DEF sys_arch_mbox_fetch
  <2> HIDE DEF lim
  <2> QED
    BY <2>1, Begins DEF Queues, Begin
<1>4. CASE sys_mutex_lock(t)
  BY <1>4, Begins DEF sys_mutex_lock, Queues, Begin
<1>5. CASE sys_mutex_unlock(t)
  <2>1. Begin(t, "send", Mutex, 0, Nothing)
    BY <1>5 DEF sys_mutex_unlock
  <2> QED
    BY <2>1, Begins, KernelAssumption DEF Queues, Begin
<1>6. CASE \E n \in Delays : vTaskDelay(t, n)
  <2> PICK n \in Delays : vTaskDelay(t, n)
    BY <1>6
  <2>1. Begin(t, "delay", Nothing, n, Nothing)
    BY DEF vTaskDelay
  <2> QED
    BY <2>1, Begins DEF Begin
<1> QED
  BY <1>1, <1>2, <1>3, <1>4, <1>5, <1>6 DEF Application

(* What changing two fields of a call leaves.                              *)
LEMMA TwoFields ==
  ASSUME NEW c, CallOK(c), NEW a, NEW b
  PROVE  /\ [c EXCEPT !.pc = a, !.entrySet = b] =
              [pc |-> a, fn |-> c.fn, x |-> c.x, wait |-> c.wait,
               item |-> c.item, entrySet |-> b, expired |-> c.expired]
         /\ [c EXCEPT !.pc = a, !.wait = b] =
              [pc |-> a, fn |-> c.fn, x |-> c.x, wait |-> b,
               item |-> c.item, entrySet |-> c.entrySet, expired |-> c.expired]
         /\ [c EXCEPT !.pc = a, !.expired = b] =
              [pc |-> a, fn |-> c.fn, x |-> c.x, wait |-> c.wait,
               item |-> c.item, entrySet |-> c.entrySet, expired |-> b]
<1> DEFINE d == [c EXCEPT !.pc = a]
<1>1. d = [pc |-> a, fn |-> c.fn, x |-> c.x, wait |-> c.wait,
           item |-> c.item, entrySet |-> c.entrySet, expired |-> c.expired]
  BY DEF CallOK
<1> HIDE DEF d
<1>2. /\ [d EXCEPT !.entrySet = b] =
              [pc |-> a, fn |-> c.fn, x |-> c.x, wait |-> c.wait,
               item |-> c.item, entrySet |-> b, expired |-> c.expired]
      /\ [d EXCEPT !.wait = b] =
              [pc |-> a, fn |-> c.fn, x |-> c.x, wait |-> b,
               item |-> c.item, entrySet |-> c.entrySet, expired |-> c.expired]
      /\ [d EXCEPT !.expired = b] =
              [pc |-> a, fn |-> c.fn, x |-> c.x, wait |-> c.wait,
               item |-> c.item, entrySet |-> c.entrySet, expired |-> b]
  BY <1>1
<1>3. /\ [c EXCEPT !.pc = a, !.entrySet = b] = [d EXCEPT !.entrySet = b]
      /\ [c EXCEPT !.pc = a, !.wait = b] = [d EXCEPT !.wait = b]
      /\ [c EXCEPT !.pc = a, !.expired = b] = [d EXCEPT !.expired = b]
  BY DEF d
<1> QED
  BY <1>2, <1>3

(* The first failure to be served starts the clock of the call.            *)
LEMMA TimeOutTasks ==
  ASSUME TasksOK, NEW t \in Tasks, task[t].pc = "top", vTaskSetTimeOutState(t)
  PROVE  TasksOK'
<1>1. CallOK(task[t])
  BY DEF TasksOK
<1> DEFINE c == [pc |-> "suspend", fn |-> task[t].fn, x |-> task[t].x,
                 wait |-> task[t].wait, item |-> task[t].item,
                 entrySet |-> TRUE, expired |-> task[t].expired]
<1>2. c = [task[t] EXCEPT !.pc = "suspend", !.entrySet = TRUE]
  BY <1>1, TwoFields
<1>3. CallOK(c)
  BY <1>1 DEF CallOK
<1>4. task' = [u \in Tasks |-> IF u = t THEN c ELSE task[u]]
  BY <1>2 DEF vTaskSetTimeOutState, TasksOK
<1> HIDE DEF c
<1> QED
  BY <1>3, <1>4 DEF TasksOK

(* A wake-up recomputes the time that is left, or gives up.                *)
LEMMA CheckTasks ==
  ASSUME TasksOK, NEW t \in Tasks, xTaskCheckForTimeOut(t)
  PROVE  TasksOK'
<1>0. task[t].pc = "check" /\ CallOK(task[t])
  BY DEF TasksOK, xTaskCheckForTimeOut, At
<1>1. ASSUME NEW pc \in {"test", "unlockTx"}, NEW n, NEW e, NEW c,
             c = [pc |-> pc, fn |-> task[t].fn, x |-> task[t].x,
                  wait |-> n, item |-> task[t].item,
                  entrySet |-> task[t].entrySet, expired |-> e],
             task' = [task EXCEPT ![t] = c]
      PROVE  TasksOK'
  <2>1. CallOK(c)
    BY <1>0, <1>1 DEF CallOK
  <2>2. task' = [u \in Tasks |-> IF u = t THEN c ELSE task[u]]
    BY <1>1 DEF TasksOK
  <2> QED
    BY <2>1, <2>2 DEF TasksOK
<1>2. CASE Go(t, "test")
  BY <1>0, <1>2, GoOn DEF CallOK
<1>3. ASSUME NEW e, task' = [task EXCEPT ![t].pc = "test", ![t].wait = @ - e]
      PROVE  TasksOK'
  <2> DEFINE n == task[t].wait - e
             c == [task[t] EXCEPT !.pc = "test", !.wait = n]
  <2>1. task' = [task EXCEPT ![t] = c]
    BY <1>3, <1>0 DEF CallOK
  <2> HIDE DEF n
  <2>2. c = [pc |-> "test", fn |-> task[t].fn, x |-> task[t].x,
             wait |-> n, item |-> task[t].item,
             entrySet |-> task[t].entrySet, expired |-> task[t].expired]
    BY <1>0, TwoFields
  <2> QED
    BY <1>1, <2>1, <2>2
<1>4. ASSUME task' = [task EXCEPT ![t].pc = "unlockTx", ![t].expired = TRUE]
      PROVE  TasksOK'
  <2> DEFINE c == [task[t] EXCEPT !.pc = "unlockTx", !.expired = TRUE]
  <2>1. task' = [task EXCEPT ![t] = c]
    BY <1>4
  <2>2. c = [pc |-> "unlockTx", fn |-> task[t].fn, x |-> task[t].x,
             wait |-> task[t].wait, item |-> task[t].item,
             entrySet |-> task[t].entrySet, expired |-> TRUE]
    BY <1>0, TwoFields
  <2> QED
    BY <1>1, <2>1, <2>2
<1> QED
  BY <1>2, <1>3, <1>4 DEF xTaskCheckForTimeOut

-----------------------------------------------------------------------------
(* The ring buffer read as a sequence. *)

(* The places of the items are in the buffer, and no two are the same.     *)
LEMMA PlacesApart ==
  ASSUME NEW r \in Places
  PROVE  /\ \A i \in 0 .. uxLength : ((r + i) % uxLength) \in Places
         /\ \A i, j \in 1 .. uxLength :
              (r + i) % uxLength = (r + j) % uxLength => i = j
<1>1. uxLength \in Nat \ {0}
  BY KernelAssumption
<1>2. \A i \in 0 .. uxLength :
        (r + i) % uxLength = IF r + i < uxLength THEN r + i
                             ELSE r + i - uxLength
  <2> TAKE i \in 0 .. uxLength
  <2>1. r + i \in 0 .. 2 * uxLength - 1
    BY <1>1 DEF Places
  <2> QED
    BY <1>1, <2>1 DEF Places
<1> QED
  BY <1>1, <1>2 DEF Places

(* What is read are items.                                                 *)
LEMMA ReadType ==
  ASSUME NEW r \in Places, NEW n \in 0 .. uxLength,
         NEW buf \in [Places -> Items]
  PROVE  Read(r, n, buf) \in Seq(Items) /\ Len(Read(r, n, buf)) = n
<1>1. uxLength \in Nat \ {0}
  BY KernelAssumption
<1>2. \A i \in 1 .. n : buf[(r + i) % uxLength] \in Items
  BY <1>1, PlacesApart
<1> QED
  BY <1>1, <1>2 DEF Read

(* An item written where the write pointer stands is read last.            *)
LEMMA RingPut ==
  ASSUME NEW r \in Places, NEW w \in Places, NEW n \in 0 .. uxLength - 1,
         NEW buf \in [Places -> Items], NEW m \in Items,
         w = (r + 1 + n) % uxLength
  PROVE  /\ ((w + 1) % uxLength) \in Places
         /\ (w + 1) % uxLength = (r + 1 + (n + 1)) % uxLength
         /\ Read(r, n + 1, [buf EXCEPT ![w] = m]) = Append(Read(r, n, buf), m)
<1>1. uxLength \in Nat \ {0}
  BY KernelAssumption
<1> DEFINE a == r + 1 + n
           after == [buf EXCEPT ![w] = m]
<1>2. a \in 0 .. 2 * uxLength - 1 /\ a = r + (n + 1) /\ a + 1 = r + 1 + (n + 1)
  BY <1>1 DEF Places
<1>3. /\ ((w + 1) % uxLength) \in Places
      /\ (w + 1) % uxLength = (r + 1 + (n + 1)) % uxLength
  <2> HIDE DEF a
  <2>1. ((a % uxLength) + 1) % uxLength = (a + 1) % uxLength
    BY <1>1, <1>2, WrappedStep
  <2>2. (w + 1) % uxLength = (a + 1) % uxLength
    BY <2>1 DEF a
  <2>3. ((w + 1) % uxLength) \in Places
    BY <1>1 DEF Places
  <2> QED
    BY <1>2, <2>2, <2>3
<1>4. after \in [Places -> Items]
  OBVIOUS
<1>5. /\ Read(r, n, buf) \in Seq(Items) /\ Len(Read(r, n, buf)) = n
      /\ Read(r, n + 1, after) \in Seq(Items)
      /\ Len(Read(r, n + 1, after)) = n + 1
  <2>1. n \in 0 .. uxLength /\ n + 1 \in 0 .. uxLength
    BY <1>1
  <2> QED
    BY <1>4, <2>1, ReadType
<1>6. \A i \in 1 .. n : Read(r, n + 1, after)[i] = Read(r, n, buf)[i]
  <2> TAKE i \in 1 .. n
  <2>1. i \in 1 .. uxLength /\ n + 1 \in 1 .. uxLength /\ i # n + 1
        /\ i \in 1 .. n + 1 /\ i \in 0 .. uxLength
    BY <1>1
  <2>2. /\ ((r + i) % uxLength) \in Places
        /\ (r + i) % uxLength # (r + (n + 1)) % uxLength
    BY <2>1, PlacesApart
  <2>3. w = (r + (n + 1)) % uxLength
    BY <1>2
  <2>4. after[(r + i) % uxLength] = buf[(r + i) % uxLength]
    BY <2>2, <2>3
  <2> QED
    BY <2>1, <2>4 DEF Read
<1>7. Read(r, n + 1, after)[n + 1] = m
  <2>1. n + 1 \in 1 .. n + 1
    BY <1>1
  <2>2. (r + (n + 1)) % uxLength = w
    BY <1>2
  <2> HIDE DEF after
  <2>3. Read(r, n + 1, after)[n + 1] = after[(r + (n + 1)) % uxLength]
    BY <2>1 DEF Read
  <2> QED
    BY <2>2, <2>3 DEF after
<1> DEFINE s == Read(r, n, buf)
           t == Read(r, n + 1, after)
<1> HIDE DEF s, t
<1>8. Append(s, m) \in Seq(Items) /\ Len(Append(s, m)) = n + 1
      /\ Append(s, m)[n + 1] = m
      /\ \A i \in 1 .. n : Append(s, m)[i] = s[i]
  BY <1>5, AppendProperties DEF s
<1>9. \A i \in 1 .. n + 1 : t[i] = Append(s, m)[i]
  <2> TAKE i \in 1 .. n + 1
  <2>1. i \in 1 .. n \/ i = n + 1
    BY <1>1
  <2> QED
    BY <2>1, <1>6, <1>7, <1>8 DEF s, t
<1>10. t = Append(s, m)
  BY <1>5, <1>8, <1>9, SeqEqual DEF t
<1> QED
  BY <1>3, <1>10 DEF s, t

(* The item after the read pointer is the first, and taking it leaves the  *)
(* others.                                                                 *)
LEMMA RingTake ==
  ASSUME NEW r \in Places, NEW r1 \in Places, NEW n \in 1 .. uxLength,
         NEW buf \in [Places -> Items],
         r1 = (r + 1) % uxLength
  PROVE  /\ (r1 + 1 + (n - 1)) % uxLength = (r + 1 + n) % uxLength
         /\ Head(Read(r, n, buf)) = buf[r1]
         /\ Read(r1, n - 1, [buf EXCEPT ![r1] = Nothing]) =
              Tail(Read(r, n, buf))
<1>1. uxLength \in Nat \ {0}
  BY KernelAssumption
<1> DEFINE after == [buf EXCEPT ![r1] = Nothing]
<1>2. r1 \in Places
  OBVIOUS
<1>3. \A i \in 0 .. uxLength :
        (r1 + i) % uxLength = (r + (i + 1)) % uxLength
  <2>1. r1 = IF r + 1 < uxLength THEN r + 1 ELSE 0
    BY <1>1 DEF Places
  <2> TAKE i \in 0 .. uxLength
  <2> DEFINE a == r1 + i
             b == r + (i + 1)
  <2>2. a = IF r + 1 < uxLength THEN b ELSE b - uxLength
    BY <1>1, <2>1 DEF Places
  <2>3. b \in 0 .. 2 * uxLength /\ a \in 0 .. 2 * uxLength
        /\ (r + 1 >= uxLength => b >= uxLength /\ a < 2 * uxLength)
    BY <1>1, <2>1 DEF Places
  <2> HIDE DEF a, b
  <2>4. b % uxLength = IF b < uxLength THEN b
                       ELSE IF b < 2 * uxLength THEN b - uxLength ELSE 0
    BY <1>1, <2>3, Wrapped
  <2>5. a % uxLength = IF a < uxLength THEN a
                       ELSE IF a < 2 * uxLength THEN a - uxLength ELSE 0
    BY <1>1, <2>3, Wrapped
  <2>6. a % uxLength = b % uxLength
    BY <1>1, <2>2, <2>3, <2>4, <2>5 DEF Places
  <2> QED
    BY <2>6 DEF a, b
<1>4. (r1 + 1 + (n - 1)) % uxLength = (r + 1 + n) % uxLength
  <2>1. n \in 0 .. uxLength /\ r1 + 1 + (n - 1) = r1 + n
        /\ r + 1 + n = r + (n + 1)
    BY <1>1, <1>2 DEF Places
  <2> QED
    BY <1>3, <2>1
<1> DEFINE s == Read(r, n, buf)
           t == Read(r1, n - 1, after)
<1>5. after \in [Places -> Items]
  BY DEF Items
<1>6. s \in Seq(Items) /\ Len(s) = n /\ t \in Seq(Items) /\ Len(t) = n - 1
  <2>1. n \in 0 .. uxLength /\ n - 1 \in 0 .. uxLength
    BY <1>1
  <2> HIDE DEF after
  <2> QED
    BY <1>2, <1>5, <2>1, ReadType
<1>7. s[1] = buf[r1]
  <2>1. 1 \in 1 .. n
    BY <1>1
  <2> QED
    BY <2>1 DEF Read
<1>8. \A i \in 1 .. n - 1 : t[i] = s[i + 1]
  <2> TAKE i \in 1 .. n - 1
  <2>1. i \in 0 .. uxLength /\ i \in 1 .. uxLength
        /\ i + 1 \in 1 .. n /\ i + 1 \in 1 .. uxLength
        /\ 1 \in 1 .. uxLength /\ i + 1 # 1
    BY <1>1
  <2>2. /\ (r1 + i) % uxLength = (r + (i + 1)) % uxLength
        /\ ((r1 + i) % uxLength) \in Places
    BY <1>2, <1>3, <2>1, PlacesApart
  <2>3. (r + (i + 1)) % uxLength # (r + 1) % uxLength
    BY <2>1, PlacesApart
  <2>4. after[(r1 + i) % uxLength] = buf[(r + (i + 1)) % uxLength]
    BY <2>2, <2>3
  <2> HIDE DEF after
  <2>5. t[i] = after[(r1 + i) % uxLength]
    BY DEF Read
  <2>6. s[i + 1] = buf[(r + (i + 1)) % uxLength]
    BY <2>1 DEF Read
  <2> QED
    BY <2>4, <2>5, <2>6
<1> HIDE DEF s, t
<1>9. s # <<>>
  BY <1>6
<1>10. /\ Tail(s) \in Seq(Items) /\ Len(Tail(s)) = n - 1
       /\ \A i \in 1 .. n - 1 : Tail(s)[i] = s[i + 1]
       /\ Head(s) = s[1]
  BY <1>6, <1>9, HeadTailProperties
<1>11. t = Tail(s)
  BY <1>6, <1>8, <1>10, SeqEqual
<1> QED
  BY <1>4, <1>7, <1>10, <1>11 DEF s, t

-----------------------------------------------------------------------------
(* The queues. *)

(* The mailbox has cells, and its items are in those from readFrom on.     *)
LEMMA CellFacts ==
  ASSUME QueuesOK
  PROVE  /\ Mbox \in Queues /\ Mutex \in Queues /\ Mbox # Mutex
         /\ uxLength \in Nat \ {0}
         /\ Length(Mbox) = uxLength /\ Length(Mutex) = 1
         /\ q[Mbox].buf \in [Places -> Items]
         /\ q[Mbox].readFrom \in Places /\ q[Mbox].writeTo \in Places
         /\ q[Mbox].waiting \in 0 .. uxLength
         /\ Contents(Mbox) = Read(q[Mbox].readFrom, q[Mbox].waiting, q[Mbox].buf)
<1>1. /\ Mbox \in Queues /\ Mutex \in Queues /\ Mbox # Mutex
      /\ Length(Mbox) = uxLength /\ Length(Mutex) = 1
      /\ uxLength \in Nat \ {0}
  BY KernelAssumption DEF Queues, Length
<1>2. q[Mbox] \in Cell(Mbox)
  BY <1>1 DEF QueuesOK
<1>3. /\ q[Mbox].buf \in [Places -> Items]
      /\ q[Mbox].readFrom \in Places /\ q[Mbox].writeTo \in Places
      /\ q[Mbox].waiting \in 0 .. uxLength
  BY <1>1, <1>2 DEF Cell, Places
<1> QED
  BY <1>1, <1>3 DEF Contents, Read

(* The mailbox does not notice what happens to the other queue, or to the  *)
(* locks.                                                                  *)
LEMMA OtherCell ==
  ASSUME QueuesOK, Ring, NEW x \in Queues, NEW d \in Cell(x),
         q' = [q EXCEPT ![x] = d],
         x = Mbox => /\ d.buf = q[x].buf /\ d.writeTo = q[x].writeTo
                     /\ d.readFrom = q[x].readFrom /\ d.waiting = q[x].waiting
                     /\ d.taken = q[x].taken
  PROVE  /\ QueuesOK' /\ Ring'
         /\ Contents(Mbox)' = Contents(Mbox) /\ q'[Mbox].taken = q[Mbox].taken
<1>1. q' = [y \in Queues |-> IF y = x THEN d ELSE q[y]]
  BY DEF QueuesOK
<1>2. QueuesOK'
  BY <1>1 DEF QueuesOK, Cell, Length
<1>3. /\ q'[Mbox].buf = q[Mbox].buf /\ q'[Mbox].writeTo = q[Mbox].writeTo
      /\ q'[Mbox].readFrom = q[Mbox].readFrom
      /\ q'[Mbox].waiting = q[Mbox].waiting /\ q'[Mbox].taken = q[Mbox].taken
  BY <1>1, CellFacts
<1> QED
  BY <1>2, <1>3 DEF Ring, Contents, Length

(* What is read after the item is written at the write pointer.            *)
LEMMA MboxPut ==
  ASSUME QueuesOK, Ring, NEW m \in Items, q[Mbox].waiting < uxLength
  PROVE  /\ ((q[Mbox].writeTo + 1) % uxLength) \in Places
         /\ (q[Mbox].writeTo + 1) % uxLength =
              (q[Mbox].readFrom + 1 + (q[Mbox].waiting + 1)) % uxLength
         /\ Read(q[Mbox].readFrom, q[Mbox].waiting + 1,
                 [q[Mbox].buf EXCEPT ![q[Mbox].writeTo] = m]) =
              Append(Read(q[Mbox].readFrom, q[Mbox].waiting, q[Mbox].buf), m)
<1> DEFINE rf == q[Mbox].readFrom
           wt == q[Mbox].writeTo
           k1 == q[Mbox].waiting
           bf == q[Mbox].buf
<1>1. k1 \in 0 .. uxLength - 1
  BY CellFacts
<1>2. wt = (rf + 1 + k1) % uxLength
  BY DEF Ring
<1>3. rf \in Places /\ wt \in Places /\ bf \in [Places -> Items]
  BY CellFacts
<1> DEFINE N == 0 .. uxLength - 1
           P(a, b, n, f) == b = (a + 1 + n) % uxLength
           Q(a, b, n, f) ==
             /\ ((b + 1) % uxLength) \in Places
             /\ (b + 1) % uxLength = (a + 1 + (n + 1)) % uxLength
             /\ Read(a, n + 1, [f EXCEPT ![b] = m]) = Append(Read(a, n, f), m)
<1>4. \A a \in Places, b \in Places, n \in N, f \in [Places -> Items] :
        P(a, b, n, f) => Q(a, b, n, f)
  BY RingPut
<1>5. k1 \in N /\ P(rf, wt, k1, bf)
  BY <1>1, <1>2
<1> HIDE DEF N, P, Q
<1>6. Q(rf, wt, k1, bf)
  BY <1>3, <1>4, <1>5
<1> HIDE DEF rf, wt, k1, bf
<1>7. /\ ((wt + 1) % uxLength) \in Places
      /\ (wt + 1) % uxLength = (rf + 1 + (k1 + 1)) % uxLength
      /\ Read(rf, k1 + 1, [bf EXCEPT ![wt] = m]) = Append(Read(rf, k1, bf), m)
  BY <1>6 DEF Q
<1> QED
  BY <1>7 DEF rf, wt, k1, bf

(* prvCopyDataToQueue on the mailbox puts the item last.                   *)
LEMMA CopyToMbox ==
  ASSUME QueuesOK, Ring, NEW m \in Items, q[Mbox].waiting < Length(Mbox),
         NEW copied, copied = prvCopyDataToQueue(Mbox, m),
         NEW n \in Int,
         \/ q' = [copied EXCEPT ![Mbox].txLock = n]
         \/ q' = copied /\ n = q[Mbox].txLock
  PROVE  /\ QueuesOK' /\ Ring'
         /\ Len(Contents(Mbox)) < uxLength
         /\ Contents(Mbox)' = Append(Contents(Mbox), m)
         /\ q'[Mbox].taken = q[Mbox].taken
<1> DEFINE c == q[Mbox]
           w == (c.writeTo + 1) % uxLength
           b == [c.buf EXCEPT ![c.writeTo] = m]
           d == [buf |-> b, writeTo |-> w, readFrom |-> c.readFrom,
                 waiting |-> c.waiting + 1, txLock |-> n, rxLock |-> c.rxLock,
                 holder |-> Nothing, taken |-> c.taken]
<1>0. /\ c \in Cell(Mbox) /\ Mbox \in Queues /\ Mbox # Mutex
      /\ Length(Mbox) = uxLength
  BY CellFacts DEF QueuesOK
<1>1. /\ w \in Places
      /\ w = (c.readFrom + 1 + (c.waiting + 1)) % uxLength
      /\ Read(c.readFrom, c.waiting + 1, b) =
           Append(Read(c.readFrom, c.waiting, c.buf), m)
  BY <1>0, MboxPut
<1>2. b \in [Places -> Items] /\ c.waiting + 1 \in 0 .. uxLength
  BY CellFacts
<1>3. q' = [q EXCEPT ![Mbox] = d]
  <2>1. copied = [q EXCEPT ![Mbox] = [c EXCEPT !.waiting = c.waiting + 1,
                     !.buf = b, !.writeTo = w, !.holder = Nothing]]
    BY <1>0 DEF prvCopyDataToQueue
  <2> DEFINE e == [c EXCEPT !.waiting = c.waiting + 1,
                     !.buf = b, !.writeTo = w, !.holder = Nothing]
  <2>2. e = [buf |-> b, writeTo |-> w, readFrom |-> c.readFrom,
             waiting |-> c.waiting + 1, txLock |-> c.txLock,
             rxLock |-> c.rxLock, holder |-> Nothing, taken |-> c.taken]
    <3> DEFINE n1 == c.waiting + 1
               w1 == w
               b1 == b
               c1 == c
    <3>1. c1 \in Cell(Mbox)
      BY <1>0
    <3> HIDE DEF n1, c1, w1, b1
    <3>2. c1 = [buf |-> c1.buf, writeTo |-> c1.writeTo, readFrom |-> c1.readFrom, waiting |-> c1.waiting,
                txLock |-> c1.txLock, rxLock |-> c1.rxLock, holder |-> c1.holder, taken |-> c1.taken]
      BY <3>1 DEF Cell
    <3> DEFINE e1 == [c1 EXCEPT !.waiting = n1]
    <3>3. e1 = [buf |-> c1.buf, writeTo |-> c1.writeTo, readFrom |-> c1.readFrom, waiting |-> n1,
                txLock |-> c1.txLock, rxLock |-> c1.rxLock, holder |-> c1.holder, taken |-> c1.taken]
      BY <3>2
    <3> HIDE DEF e1
    <3> DEFINE e2 == [e1 EXCEPT !.buf = b1]
    <3>4. e2 = [buf |-> b1, writeTo |-> c1.writeTo, readFrom |-> c1.readFrom, waiting |-> n1,
                txLock |-> c1.txLock, rxLock |-> c1.rxLock, holder |-> c1.holder, taken |-> c1.taken]
      BY <3>3
    <3> HIDE DEF e2
    <3> DEFINE e3 == [e2 EXCEPT !.writeTo = w1]
    <3>5. e3 = [buf |-> b1, writeTo |-> w1, readFrom |-> c1.readFrom, waiting |-> n1,
                txLock |-> c1.txLock, rxLock |-> c1.rxLock, holder |-> c1.holder, taken |-> c1.taken]
      BY <3>4
    <3> HIDE DEF e3
    <3> DEFINE e4 == [e3 EXCEPT !.holder = Nothing]
    <3>6. e4 = [buf |-> b1, writeTo |-> w1, readFrom |-> c1.readFrom, waiting |-> n1,
                txLock |-> c1.txLock, rxLock |-> c1.rxLock, holder |-> Nothing, taken |-> c1.taken]
      BY <3>5
    <3> HIDE DEF e4
    <3> QED
      BY <3>6 DEF e1, e2, e3, e4, n1, c1, w1, b1
  <2> HIDE DEF e, b, w
  <2>3. [e EXCEPT !.txLock = n] = d
    BY <2>2
  <2>4. copied = [y \in Queues |-> IF y = Mbox THEN e ELSE q[y]]
    BY <2>1 DEF e, QueuesOK
  <2>5. q' = [y \in Queues |-> IF y = Mbox THEN [e EXCEPT !.txLock = n]
                               ELSE q[y]]
    <3>1. CASE q' = [copied EXCEPT ![Mbox].txLock = n]
      BY <1>0, <2>4, <3>1
    <3>2. CASE q' = copied /\ n = q[Mbox].txLock
      <4>1. d = e
        BY <2>2, <3>2
      <4> QED
        BY <2>3, <2>4, <3>2, <4>1
    <3> QED
      BY <3>1, <3>2
  <2> HIDE DEF d
  <2> QED
    BY <2>3, <2>5 DEF QueuesOK
<1>4. d \in Cell(Mbox)
  <2> HIDE DEF b, w
  <2> QED
    BY <1>0, <1>1, <1>2 DEF Cell, Places
<1>5. q' = [y \in Queues |-> IF y = Mbox THEN d ELSE q[y]]
  <2> HIDE DEF d
  <2> QED
    BY <1>3 DEF QueuesOK
<1>6. QueuesOK'
  <2> HIDE DEF d
  <2> QED
    BY <1>4, <1>5 DEF QueuesOK, Cell, Length
<1>7. /\ q'[Mbox].buf = b /\ q'[Mbox].writeTo = w
      /\ q'[Mbox].readFrom = c.readFrom
      /\ q'[Mbox].waiting = c.waiting + 1 /\ q'[Mbox].taken = c.taken
  <2> HIDE DEF b, w
  <2> QED
    BY <1>0, <1>5
<1>8. Ring'
  BY <1>1, <1>7 DEF Ring
<1>9. Contents(Mbox)' = Read(c.readFrom, c.waiting + 1, b)
  <2> HIDE DEF b
  <2> QED
    BY <1>0, <1>7 DEF Contents, Read, Length
<1>10. Contents(Mbox) = Read(c.readFrom, c.waiting, c.buf)
       /\ Len(Read(c.readFrom, c.waiting, c.buf)) = c.waiting
  BY CellFacts, ReadType
<1>11. Len(Contents(Mbox)) < uxLength
  BY <1>0, <1>10
<1> QED
  BY <1>1, <1>6, <1>7, <1>8, <1>9, <1>10, <1>11

(* prvCopyDataFromQueue on the mailbox takes the first item.               *)
LEMMA CopyFromMbox ==
  ASSUME QueuesOK, Ring, NEW t, q[Mbox].waiting > 0,
         q' = prvCopyDataFromQueue(Mbox, t)
  PROVE  /\ QueuesOK' /\ Ring'
         /\ Contents(Mbox) # <<>>
         /\ q'[Mbox].taken = Head(Contents(Mbox))
         /\ Contents(Mbox)' = Tail(Contents(Mbox))
<1> DEFINE c == q[Mbox]
           r == (c.readFrom + 1) % uxLength
           b == [c.buf EXCEPT ![r] = Nothing]
           d == [buf |-> b, writeTo |-> c.writeTo, readFrom |-> r,
                 waiting |-> c.waiting - 1, txLock |-> c.txLock,
                 rxLock |-> c.rxLock, holder |-> c.holder,
                 taken |-> c.buf[r]]
<1>0. /\ c \in Cell(Mbox) /\ Mbox \in Queues /\ Mbox # Mutex
      /\ Length(Mbox) = uxLength
  BY CellFacts DEF QueuesOK
<1>1. c.waiting \in 1 .. uxLength /\ c.waiting - 1 \in 0 .. uxLength
  BY CellFacts
<1>2. /\ r \in Places
      /\ (r + 1 + (c.waiting - 1)) % uxLength =
           (c.readFrom + 1 + c.waiting) % uxLength
      /\ Head(Read(c.readFrom, c.waiting, c.buf)) = c.buf[r]
      /\ Read(r, c.waiting - 1, b) = Tail(Read(c.readFrom, c.waiting, c.buf))
  <2> DEFINE rf == c.readFrom
             k1 == c.waiting
             bf == c.buf
  <2>1. rf \in Places /\ k1 \in 1 .. uxLength /\ bf \in [Places -> Items]
        /\ r = (rf + 1) % uxLength /\ r \in Places
    BY <1>1, CellFacts DEF Places
  <2> HIDE DEF rf, k1, bf, r
  <2>2. /\ (r + 1 + (k1 - 1)) % uxLength = (rf + 1 + k1) % uxLength
        /\ Head(Read(rf, k1, bf)) = bf[r]
        /\ Read(r, k1 - 1, [bf EXCEPT ![r] = Nothing]) = Tail(Read(rf, k1, bf))
    BY ZenonT(40), <2>1, RingTake
  <2> QED
    BY <2>1, <2>2 DEF rf, k1, bf
<1>3. b \in [Places -> Items] /\ c.buf[r] \in Items
  <2> HIDE DEF r
  <2> QED
    BY <1>2, CellFacts DEF Items
<1>4. q' = [q EXCEPT ![Mbox] = d]
  <2>1. q' = [q EXCEPT ![Mbox] = [c EXCEPT !.readFrom = r, !.taken = c.buf[r],
                !.buf = b, !.waiting = c.waiting - 1, !.holder = c.holder]]
    BY <1>0 DEF prvCopyDataFromQueue, Cell
  <2> DEFINE u == c.buf[r]
             e == [c EXCEPT !.readFrom = r, !.taken = u,
                     !.buf = b, !.waiting = c.waiting - 1, !.holder = c.holder]
  <2>2. e = [buf |-> b, writeTo |-> c.writeTo, readFrom |-> r,
             waiting |-> c.waiting - 1, txLock |-> c.txLock,
             rxLock |-> c.rxLock, holder |-> c.holder, taken |-> u]
    <3> DEFINE n1 == c.waiting - 1
               r1 == r
               b1 == b
               c1 == c
               u1 == u
               h1 == c.holder
    <3>1. c1 \in Cell(Mbox)
      BY <1>0
    <3> HIDE DEF n1, c1, r1, b1, u1, h1
    <3>2. c1 = [buf |-> c1.buf, writeTo |-> c1.writeTo, readFrom |-> c1.readFrom, waiting |-> c1.waiting,
                txLock |-> c1.txLock, rxLock |-> c1.rxLock, holder |-> c1.holder, taken |-> c1.taken]
      BY <3>1 DEF Cell
    <3> DEFINE e1 == [c1 EXCEPT !.readFrom = r1]
    <3>3. e1 = [buf |-> c1.buf, writeTo |-> c1.writeTo, readFrom |-> r1, waiting |-> c1.waiting,
                txLock |-> c1.txLock, rxLock |-> c1.rxLock, holder |-> c1.holder, taken |-> c1.taken]
      BY <3>2
    <3> HIDE DEF e1
    <3> DEFINE e2 == [e1 EXCEPT !.taken = u1]
    <3>4. e2 = [buf |-> c1.buf, writeTo |-> c1.writeTo, readFrom |-> r1, waiting |-> c1.waiting,
                txLock |-> c1.txLock, rxLock |-> c1.rxLock, holder |-> c1.holder, taken |-> u1]
      BY <3>3
    <3> HIDE DEF e2
    <3> DEFINE e3 == [e2 EXCEPT !.buf = b1]
    <3>5. e3 = [buf |-> b1, writeTo |-> c1.writeTo, readFrom |-> r1, waiting |-> c1.waiting,
                txLock |-> c1.txLock, rxLock |-> c1.rxLock, holder |-> c1.holder, taken |-> u1]
      BY <3>4
    <3> HIDE DEF e3
    <3> DEFINE e4 == [e3 EXCEPT !.waiting = n1]
    <3>6. e4 = [buf |-> b1, writeTo |-> c1.writeTo, readFrom |-> r1, waiting |-> n1,
                txLock |-> c1.txLock, rxLock |-> c1.rxLock, holder |-> c1.holder, taken |-> u1]
      BY <3>5
    <3> HIDE DEF e4
    <3> DEFINE e5 == [e4 EXCEPT !.holder = h1]
    <3>7. e5 = [buf |-> b1, writeTo |-> c1.writeTo, readFrom |-> r1, waiting |-> n1,
                txLock |-> c1.txLock, rxLock |-> c1.rxLock, holder |-> h1, taken |-> u1]
      BY <3>6
    <3> HIDE DEF e5
    <3> QED
      BY <3>7 DEF e1, e2, e3, e4, e5, n1, c1, r1, b1, u1, h1
  <2> QED
    BY <2>1, <2>2
<1>5. d \in Cell(Mbox)
  <2> HIDE DEF b, r
  <2> QED
    BY <1>0, <1>1, <1>2, <1>3 DEF Cell, Places
<1>6. q' = [y \in Queues |-> IF y = Mbox THEN d ELSE q[y]]
  <2> HIDE DEF d
  <2> QED
    BY <1>4 DEF QueuesOK
<1>7. QueuesOK'
  <2> HIDE DEF d
  <2> QED
    BY <1>5, <1>6 DEF QueuesOK, Cell, Length
<1>8. /\ q'[Mbox].buf = b /\ q'[Mbox].writeTo = c.writeTo
      /\ q'[Mbox].readFrom = r
      /\ q'[Mbox].waiting = c.waiting - 1 /\ q'[Mbox].taken = c.buf[r]
  <2> HIDE DEF b, r
  <2> QED
    BY <1>0, <1>6
<1>9. Ring'
  <2> HIDE DEF r
  <2> QED
    BY <1>2, <1>8 DEF Ring
<1>10. Contents(Mbox)' = Read(r, c.waiting - 1, b)
  <2> HIDE DEF b, r
  <2> QED
    BY <1>0, <1>8 DEF Contents, Read, Length
<1>11. Contents(Mbox) = Read(c.readFrom, c.waiting, c.buf)
       /\ Len(Read(c.readFrom, c.waiting, c.buf)) = c.waiting
  BY CellFacts, ReadType
<1>12. Contents(Mbox) # <<>>
  BY <1>1, <1>11
<1> QED
  BY <1>2, <1>7, <1>8, <1>9, <1>10, <1>11, <1>12

(* Giving and taking the mutex leaves the mailbox alone.                   *)
LEMMA CopyMutex ==
  ASSUME QueuesOK, Ring,
         \/ \E m : q' = prvCopyDataToQueue(Mutex, m) /\ q[Mutex].waiting < 1
         \/ \E t \in Tasks : /\ q' = prvCopyDataFromQueue(Mutex, t)
                             /\ q[Mutex].waiting > 0
  PROVE  /\ QueuesOK' /\ Ring'
         /\ Contents(Mbox)' = Contents(Mbox) /\ q'[Mbox].taken = q[Mbox].taken
<1> DEFINE c == q[Mutex]
<1>0. Mutex \in Queues /\ Mutex # Mbox /\ Length(Mutex) = 1 /\ c \in Cell(Mutex)
  BY CellFacts DEF QueuesOK
<1>1. CASE \E m : q' = prvCopyDataToQueue(Mutex, m) /\ c.waiting < 1
  <2> DEFINE n == c.waiting + 1
             d == [c EXCEPT !.waiting = n, !.buf = c.buf,
                            !.writeTo = c.writeTo, !.holder = Nothing]
  <2>1. q' = [q EXCEPT ![Mutex] = d]
    BY <1>0, <1>1 DEF prvCopyDataToQueue, Cell
  <2>2. n \in 0 .. Length(Mutex)
    BY <1>0, <1>1 DEF Cell
  <2> HIDE DEF n
  <2>3. d \in Cell(Mutex)
    BY <1>0, <2>2 DEF Cell
  <2> HIDE DEF d
  <2> QED
    BY <1>0, <2>1, <2>3, OtherCell
<1>2. CASE \E t \in Tasks : q' = prvCopyDataFromQueue(Mutex, t) /\ c.waiting > 0
  <2> PICK t \in Tasks : q' = prvCopyDataFromQueue(Mutex, t)
    BY <1>2
  <2> DEFINE n == c.waiting - 1
             r == c.readFrom
             u == c.buf[r]
             b == [c.buf EXCEPT ![r] = Nothing]
             d == [c EXCEPT !.readFrom = r, !.taken = u, !.buf = b,
                            !.waiting = n, !.holder = t]
  <2>1. q' = [q EXCEPT ![Mutex] = d]
    BY ZenonT(40), <1>0 DEF prvCopyDataFromQueue, Cell
  <2>2. /\ n \in 0 .. Length(Mutex) /\ r \in 0 .. Length(Mutex) - 1
        /\ u \in Items /\ b \in [0 .. Length(Mutex) - 1 -> Items]
    BY <1>0, <1>2 DEF Cell, Items
  <2> HIDE DEF n, r, u, b
  <2>3. d \in Cell(Mutex)
    BY <1>0, <2>2 DEF Cell
  <2> HIDE DEF d
  <2> QED
    BY <1>0, <2>1, <2>3, OtherCell
<1> QED
  BY <1>1, <1>2

(* Locking and unlocking a queue leaves its contents alone.                *)
LEMMA LockCells ==
  ASSUME QueuesOK, Ring, NEW x \in Queues, NEW tx \in Int, NEW rx \in Int,
         NEW d, d = [q[x] EXCEPT !.txLock = tx, !.rxLock = rx],
         q' = [q EXCEPT ![x] = d]
  PROVE  /\ QueuesOK' /\ Ring'
         /\ Contents(Mbox)' = Contents(Mbox) /\ q'[Mbox].taken = q[Mbox].taken
<1>1. q[x] \in Cell(x)
  BY DEF QueuesOK
<1>2. d \in Cell(x)
  BY <1>1 DEF Cell
<1>3. /\ d.buf = q[x].buf /\ d.writeTo = q[x].writeTo
      /\ d.readFrom = q[x].readFrom /\ d.waiting = q[x].waiting
      /\ d.taken = q[x].taken
  BY <1>1 DEF Cell
<1> QED
  BY <1>2, <1>3, OtherCell

-----------------------------------------------------------------------------
(* The steps. *)

(* A send by a task keeps the invariant and is a step of the mailbox or    *)
(* none.                                                                   *)
LEMMA SendStep ==
  ASSUME IInv, NEW t \in Tasks, xQueueGenericSend(t)
  PROVE  IInv' /\ MboxStep
<1> DEFINE x == task[t].x
<1>0. task[t].pc = "top" /\ task[t].fn = "send" /\ QueuesOK /\ Ring /\ TasksOK
  BY DEF xQueueGenericSend, At, IInv
<1>1. CallOK(task[t])
  BY <1>0 DEF TasksOK
<1>2. x \in Queues /\ (x = Mbox => task[t].item = Callback)
  BY <1>0, <1>1 DEF CallOK
<1>3. CASE q[x].waiting < Length(x)
  <2>1. q' = prvCopyDataToQueue(x, task[t].item) /\ Return(t)
    BY <1>3 DEF xQueueGenericSend
  <2>2. TasksOK'
    BY <1>0, <2>1, Returns
  <2>3. CASE x = Mutex
    <3>1. Length(Mutex) = 1
      BY <1>0, CellFacts
    <3>2. \E m : q' = prvCopyDataToQueue(Mutex, m) /\ q[Mutex].waiting < 1
      BY <1>3, <2>1, <2>3, <3>1
    <3> QED
      BY <1>0, <2>2, <3>2, CopyMutex DEF IInv, MboxStep
  <2>4. CASE x = Mbox
    <3>1. q' = prvCopyDataToQueue(Mbox, Callback) /\ q[Mbox].waiting < Length(Mbox)
      BY <1>2, <1>3, <2>1, <2>4
    <3>2. q[Mbox].txLock \in Int /\ Callback \in Items
      BY <1>0, CellFacts DEF QueuesOK, Cell, Items
    <3>3. /\ QueuesOK' /\ Ring' /\ Len(Contents(Mbox)) < uxLength
          /\ Contents(Mbox)' = Append(Contents(Mbox), Callback)
          /\ q'[Mbox].taken = q[Mbox].taken
      BY <1>0, <3>1, <3>2, CopyToMbox
    <3> QED
      BY <2>2, <3>3 DEF IInv, MboxStep, MailboxSpec!Next, MailboxSpec!Put
  <2> QED
    BY <1>2, <2>3, <2>4 DEF Queues
<1>4. CASE ~(q[x].waiting < Length(x))
  <2>1. UNCHANGED q /\ (Return(t) \/ vTaskSetTimeOutState(t))
    BY <1>4 DEF xQueueGenericSend
  <2>2. TasksOK'
    BY <1>0, <2>1, Returns, TimeOutTasks
  <2> QED
    BY <1>0, <2>1, <2>2 DEF IInv, MboxStep, QueuesOK, Ring, Contents
<1> QED
  BY <1>3, <1>4

(* A receive keeps the invariant and is a step of the mailbox or none.     *)
LEMMA ReceiveStep ==
  ASSUME IInv, NEW t \in Tasks, xQueueGenericReceive(t)
  PROVE  IInv' /\ MboxStep
<1> DEFINE x == task[t].x
<1>0. task[t].pc = "top" /\ task[t].fn = "receive"
      /\ QueuesOK /\ Ring /\ TasksOK
  BY DEF xQueueGenericReceive, At, IInv
<1>1. CallOK(task[t])
  BY <1>0 DEF TasksOK
<1>2. x \in Queues
  BY <1>0, <1>1 DEF CallOK
<1>3. CASE q[x].waiting > 0
  <2>1. q' = prvCopyDataFromQueue(x, t) /\ Return(t)
    BY <1>3 DEF xQueueGenericReceive
  <2>2. TasksOK'
    BY <1>0, <2>1, Returns
  <2>3. CASE x = Mutex
    <3>1. \E u \in Tasks : /\ q' = prvCopyDataFromQueue(Mutex, u)
                           /\ q[Mutex].waiting > 0
      BY <1>3, <2>1, <2>3
    <3> QED
      BY <1>0, <2>2, <3>1, CopyMutex DEF IInv, MboxStep
  <2>4. CASE x = Mbox
    <3>1. q' = prvCopyDataFromQueue(Mbox, t) /\ q[Mbox].waiting > 0
      BY <1>3, <2>1, <2>4
    <3>2. /\ QueuesOK' /\ Ring' /\ Contents(Mbox) # <<>>
          /\ q'[Mbox].taken = Head(Contents(Mbox))
          /\ Contents(Mbox)' = Tail(Contents(Mbox))
      BY <1>0, <3>1, CopyFromMbox
    <3> QED
      BY <2>2, <3>2 DEF IInv, MboxStep, MailboxSpec!Next, MailboxSpec!Take
  <2> QED
    BY <1>2, <2>3, <2>4 DEF Queues
<1>4. CASE ~(q[x].waiting > 0)
  <2>1. UNCHANGED q /\ (Return(t) \/ vTaskSetTimeOutState(t))
    BY <1>4 DEF xQueueGenericReceive
  <2>2. TasksOK'
    BY <1>0, <2>1, Returns, TimeOutTasks
  <2> QED
    BY <1>0, <2>1, <2>2 DEF IInv, MboxStep, QueuesOK, Ring, Contents
<1> QED
  BY <1>3, <1>4

(* Locking a queue, and the two halves of unlocking it.                    *)
LEMMA LockStep ==
  ASSUME IInv, NEW t \in Tasks, prvLockQueue(t) \/ UnlockTx(t) \/ UnlockRx(t)
  PROVE  IInv' /\ MboxStep
<1> DEFINE x == task[t].x
           c == q[x]
<1>0. /\ QueuesOK /\ Ring /\ TasksOK
      /\ task[t].pc \in {"lock", "unlockTx", "unlockRx"}
  BY DEF prvLockQueue, UnlockTx, UnlockRx, At, IInv
<1>1. CallOK(task[t])
  BY <1>0 DEF TasksOK
<1>2. task[t].fn # "delay" /\ x \in Queues
  BY <1>0, <1>1 DEF CallOK
<1>3. TasksOK'
  <2>1. \E pc : Go(t, pc)
    BY DEF prvLockQueue, UnlockTx, UnlockRx
  <2> QED
    BY <1>0, <1>2, <2>1, GoOn
<1>4. c \in Cell(x) /\ c.txLock \in Int /\ c.rxLock \in Int
  BY <1>0, <1>2 DEF QueuesOK, Cell
<1>5. \E tx, rx \in Int :
        q' = [q EXCEPT ![x] = [c EXCEPT !.txLock = tx, !.rxLock = rx]]
  <2>1. CASE prvLockQueue(t)
    <3> DEFINE tx == IF c.txLock = queueUNLOCKED THEN 0 ELSE c.txLock
               rx == IF c.rxLock = queueUNLOCKED THEN 0 ELSE c.rxLock
    <3>1. tx \in Int /\ rx \in Int
      BY <1>4
    <3>2. q' = [q EXCEPT ![x] = [c EXCEPT !.txLock = tx, !.rxLock = rx]]
      BY <1>4, <2>1 DEF prvLockQueue, Cell
    <3> QED
      BY <3>1, <3>2
  <2>2. CASE UnlockTx(t)
    <3>1. q' = [q EXCEPT ![x] = [c EXCEPT !.txLock = queueUNLOCKED,
                                          !.rxLock = c.rxLock]]
      BY <1>4, <2>2 DEF UnlockTx, Cell
    <3>2. queueUNLOCKED \in Int
      BY DEF queueUNLOCKED
    <3> QED
      BY <1>4, <3>1, <3>2
  <2>3. CASE UnlockRx(t)
    <3>1. q' = [q EXCEPT ![x] = [c EXCEPT !.txLock = c.txLock,
                                          !.rxLock = queueUNLOCKED]]
      BY <1>4, <2>3 DEF UnlockRx, Cell
    <3>2. queueUNLOCKED \in Int
      BY DEF queueUNLOCKED
    <3> QED
      BY <1>4, <3>1, <3>2
  <2> QED
    BY <2>1, <2>2, <2>3
<1>6. PICK tx, rx \in Int :
        q' = [q EXCEPT ![x] = [c EXCEPT !.txLock = tx, !.rxLock = rx]]
  BY <1>5
<1>7. /\ QueuesOK' /\ Ring'
      /\ Contents(Mbox)' = Contents(Mbox) /\ q'[Mbox].taken = q[Mbox].taken
  BY <1>0, <1>2, <1>6, LockCells
<1> QED
  BY <1>3, <1>7 DEF IInv, MboxStep

(* The steps of a call that leave the queues alone.                        *)
LEMMA OtherStep ==
  ASSUME IInv, NEW t \in Tasks,
         \/ vTaskSuspendAll(t) \/ Delay(t) \/ xTaskCheckForTimeOut(t)
         \/ prvIsQueueBlocked(t) \/ Inherit(t) \/ Place(t)
         \/ Resume(t) \/ Yield(t)
  PROVE  IInv' /\ MboxStep
<1>0. QueuesOK /\ Ring /\ TasksOK
  BY DEF IInv
<1>1. UNCHANGED q
  BY DEF vTaskSuspendAll, Delay, xTaskCheckForTimeOut, prvIsQueueBlocked,
         Inherit, Place, Resume, Yield
<1>2. ASSUME NEW pc, Go(t, pc), task[t].pc # "app",
             task[t].fn = "delay" => pc \in {"suspend", "delay", "resume", "yield"}
      PROVE  TasksOK'
  BY <1>0, <1>2, GoOn
<1>3. task[t].pc # "app" /\ CallOK(task[t])
  <2>1. task[t].pc # "app"
    BY DEF vTaskSuspendAll, Delay, xTaskCheckForTimeOut, prvIsQueueBlocked,
           Inherit, Place, Resume, Yield, At
  <2> QED
    BY <1>0, <2>1 DEF TasksOK
<1>4. TasksOK'
  <2>1. CASE vTaskSuspendAll(t)
    <3>1. Go(t, IF task[t].fn = "delay" THEN "delay" ELSE "lock")
      BY <2>1 DEF vTaskSuspendAll
    <3> QED
      BY <1>2, <1>3, <3>1
  <2>2. CASE Delay(t)
    BY <1>2, <1>3, <2>2 DEF Delay
  <2>3. CASE xTaskCheckForTimeOut(t)
    BY <1>0, <2>3, CheckTasks
  <2>4. CASE prvIsQueueBlocked(t)
    <3>1. task[t].pc = "test" /\ \E pc : Go(t, pc)
      BY <2>4 DEF prvIsQueueBlocked, At
    <3>2. task[t].fn # "delay"
      BY <1>3, <3>1 DEF CallOK
    <3> QED
      BY <1>2, <1>3, <3>1, <3>2
  <2>5. CASE Inherit(t)
    <3>1. task[t].pc = "inherit" /\ Go(t, "place")
      BY <2>5 DEF Inherit, At
    <3> QED
      BY <1>2, <1>3, <3>1 DEF CallOK
  <2>6. CASE Place(t)
    <3>1. task[t].pc = "place" /\ Go(t, "unlockTx")
      BY <2>6 DEF Place, At
    <3> QED
      BY <1>2, <1>3, <3>1 DEF CallOK
  <2>7. CASE Resume(t)
    <3>1. \/ Return(t)
          \/ Go(t, "yield")
          \/ Go(t, "top") /\ task[t].fn # "delay"
      BY <2>7 DEF Resume
    <3> QED
      BY <1>0, <1>2, <1>3, <3>1, Returns
  <2>8. CASE Yield(t)
    <3>1. \/ Return(t)
          \/ Go(t, "top") /\ task[t].fn # "delay"
      BY <2>8 DEF Yield
    <3> QED
      BY <1>0, <1>2, <1>3, <3>1, Returns
  <2> QED
    BY <2>1, <2>2, <2>3, <2>4, <2>5, <2>6, <2>7, <2>8
<1> QED
  BY <1>0, <1>1, <1>4 DEF IInv, MboxStep, QueuesOK, Ring, Contents

(* The interrupt that posts a packet.                                      *)
LEMMA IsrStep ==
  ASSUME IInv, xQueueGenericSendFromISR
  PROVE  IInv' /\ MboxStep
<1>0. QueuesOK /\ Ring /\ TasksOK /\ UNCHANGED task
      /\ q[Mbox].waiting < Length(Mbox)
  BY DEF IInv, xQueueGenericSendFromISR
<1> DEFINE copied == prvCopyDataToQueue(Mbox, Packet)
<1>1. Packet \in Items /\ q[Mbox].txLock \in Int
  BY <1>0, CellFacts DEF QueuesOK, Cell, Items
<1>2. copied[Mbox].txLock = q[Mbox].txLock
  BY <1>0, CellFacts DEF prvCopyDataToQueue, QueuesOK, Cell
<1>3. \/ q' = [copied EXCEPT ![Mbox].txLock = copied[Mbox].txLock + 1]
      \/ q' = copied
  BY DEF xQueueGenericSendFromISR
<1> HIDE DEF copied
<1>4. \E n \in Int : \/ q' = [copied EXCEPT ![Mbox].txLock = n]
                     \/ q' = copied /\ n = q[Mbox].txLock
  BY <1>1, <1>2, <1>3
<1>5. PICK n \in Int : \/ q' = [copied EXCEPT ![Mbox].txLock = n]
                       \/ q' = copied /\ n = q[Mbox].txLock
  BY <1>4
<1>6. /\ QueuesOK' /\ Ring' /\ Len(Contents(Mbox)) < uxLength
      /\ Contents(Mbox)' = Append(Contents(Mbox), Packet)
      /\ q'[Mbox].taken = q[Mbox].taken
  BY <1>0, <1>1, <1>5, CopyToMbox DEF copied
<1>7. TasksOK'
  BY <1>0 DEF TasksOK
<1> QED
  BY <1>6, <1>7 DEF IInv, MboxStep, MailboxSpec!Next, MailboxSpec!Put

(* Every step keeps the invariant and is a step of Mailbox or none.        *)
LEMMA Step ==
  ASSUME IInv, [Next]_vars
  PROVE  IInv' /\ MboxStep
<1>1. ASSUME NEW t \in Tasks, Application(t)
      PROVE  IInv' /\ MboxStep
  <2>1. TasksOK' /\ UNCHANGED q
    BY <1>1, ApplicationTasks DEF IInv
  <2> QED
    BY <2>1 DEF IInv, MboxStep, QueuesOK, Ring, Contents
<1>2. ASSUME NEW t \in Tasks, InCall(t)
      PROVE  IInv' /\ MboxStep
  BY <1>2, SendStep, ReceiveStep, LockStep, OtherStep DEF InCall
<1>3. CASE UNCHANGED <<q, task>>
  BY <1>3 DEF IInv, MboxStep, QueuesOK, Ring, TasksOK, Contents
<1>4. CASE xQueueGenericSendFromISR
  BY <1>4, IsrStep
<1> QED
  BY <1>1, <1>2, <1>3, <1>4
     DEF Next, vars, vTaskSwitchContext, xPortSysTickHandler

(* The invariant holds when the scheduler starts.                          *)
LEMMA InitInvariant ==
  ASSUME Init
  PROVE  IInv /\ Contents(Mbox) = <<>> /\ q[Mbox].taken = Nothing
<1> DEFINE e(x) == [buf |-> [i \in 0 .. Length(x) - 1 |-> Nothing],
                    writeTo |-> 0, readFrom |-> Length(x) - 1,
                    waiting |-> IF x = Mutex THEN 1 ELSE 0,
                    txLock |-> queueUNLOCKED, rxLock |-> queueUNLOCKED,
                    holder |-> Nothing, taken |-> Nothing]
<1>1. q = [x \in Queues |-> e(x)] /\ task = [t \in Tasks |-> [pc |-> "app"]]
  BY DEF Init
<1>2. /\ Mbox \in Queues /\ Mutex \in Queues /\ Mbox # Mutex
      /\ Length(Mbox) = uxLength /\ Length(Mutex) = 1
      /\ uxLength \in Nat \ {0}
  BY KernelAssumption DEF Queues, Length
<1>3. ASSUME NEW x \in Queues PROVE e(x) \in Cell(x)
  <2>1. Length(x) \in Nat \ {0}
    BY <1>2 DEF Length
  <2> QED
    BY <2>1 DEF Cell, queueUNLOCKED, Items
<1>4. q[Mbox] = e(Mbox)
  BY <1>1, <1>2
<1>5. /\ q[Mbox].writeTo = 0 /\ q[Mbox].readFrom = uxLength - 1
      /\ q[Mbox].waiting = 0 /\ q[Mbox].taken = Nothing
  BY <1>2, <1>4
<1>6. QueuesOK
  <2> HIDE DEF e
  <2> QED
    BY <1>1, <1>3 DEF QueuesOK
<1>7. Ring
  <2>1. ASSUME NEW a, a = q[Mbox].readFrom + 1 + q[Mbox].waiting
        PROVE  a = uxLength
    BY <1>2, <1>5, <2>1
  <2>2. uxLength % uxLength = 0
    BY <1>2
  <2>3. q[Mbox].readFrom + 1 + q[Mbox].waiting = uxLength
    BY <2>1
  <2> QED
    BY <1>5, <2>2, <2>3 DEF Ring
<1>8. TasksOK
  BY <1>1 DEF TasksOK
<1>9. Contents(Mbox) = <<>>
  BY <1>5 DEF Contents
<1> QED
  BY <1>5, <1>6, <1>7, <1>8, <1>9 DEF IInv

(* The queues, their pointers and the calls on them keep the invariant.    *)
THEOREM Invariant == Spec => []IInv
<1>1. Init => IInv
  BY InitInvariant
<1>2. IInv /\ [Next]_vars => IInv'
  BY Step
<1> QED
  BY <1>1, <1>2, PTL DEF Spec

(* The mailbox of FreeRTOS, a ring buffer with two wrapping pointers that  *)
(* tasks and an interrupt post to and a task takes from, is a bounded      *)
(* first-in first-out queue, whatever the scheduler does between the       *)
(* critical sections.                                                      *)
THEOREM MailboxTheorem == Spec => ImplementsMailbox
<1>1. Init => MailboxSpec!Init
  BY InitInvariant DEF MailboxSpec!Init
<1>2. IInv /\ [Next]_vars => [MailboxSpec!Next]_<<Contents(Mbox), q[Mbox].taken>>
  BY Step DEF MboxStep
<1> QED
  BY <1>1, <1>2, Invariant, PTL DEF Spec, ImplementsMailbox, MailboxSpec!Spec

-----------------------------------------------------------------------------
(* Lists. *)

(* A set of numbers that is not empty has a least one. *)
LEMMA LeastOf ==
  ASSUME NEW S, S \subseteq Nat, S # {}
  PROVE  \E x \in S : \A y \in S : x <= y
<1> DEFINE R == OpToRel(<, Nat)
<1>1. IsWellFoundedOn(R, Nat)
  BY NatLessThanWellFounded
<1>2. \A x, y \in Nat : x < y => <<x, y>> \in R
  BY DEF OpToRel
<1> HIDE DEF R
<1>3. \E x \in S : \A y \in S : ~(<<y, x>> \in R)
  BY <1>1, WFMin
<1>4. PICK x \in S : \A y \in S : ~(<<y, x>> \in R)
  BY <1>3
<1>5. \A y \in S : x <= y
  <2> SUFFICES ASSUME NEW y \in S
               PROVE  x <= y
    OBVIOUS
  <2>1. x \in Nat /\ y \in Nat /\ ~(y < x)
    BY <1>2, <1>4
  <2> QED
    BY <2>1
<1> QED
  BY <1>5

(* The elements of a sequence of tasks. *)
LEMMA ToSetIs ==
  ASSUME NEW s \in Seq(AllTasks)
  PROVE  /\ \A t : t \in ToSet(s) <=> \E i \in 1 .. Len(s) : s[i] = t
         /\ ToSet(s) \subseteq AllTasks
         /\ Len(s) \in Nat
         /\ s = <<>> <=> ToSet(s) = {}
<1>1. Len(s) \in Nat /\ DOMAIN s = 1 .. Len(s) /\ \A i \in 1 .. Len(s) : s[i] \in AllTasks
  OBVIOUS
<1>2. \A t : t \in ToSet(s) <=> \E i \in 1 .. Len(s) : s[i] = t
  BY <1>1 DEF ToSet
<1>3. s = <<>> => ToSet(s) = {}
  BY <1>2
<1>4. s # <<>> => 1 \in 1 .. Len(s)
  BY <1>1
<1>5. s # <<>> => s[1] \in ToSet(s)
  BY <1>2, <1>4
<1>6. ToSet(s) \subseteq AllTasks
  BY <1>1, <1>2
<1> QED
  BY <1>1, <1>2, <1>3, <1>5, <1>6

(* The empty list. *)
LEMMA EmptyList == List(<<>>) /\ ToSet(<<>>) = {}
  BY DEF List, ToSet

(* What RemoveAt of the community modules returns. *)
LEMMA RemoveAtIs ==
  ASSUME NEW s \in Seq(AllTasks), NEW i \in 1 .. Len(s)
  PROVE  /\ RemoveAt(s, i) \in Seq(AllTasks)
         /\ Len(RemoveAt(s, i)) = Len(s) - 1
         /\ \A j \in 1 .. Len(s) - 1 : RemoveAt(s, i)[j] = IF j < i THEN s[j] ELSE s[j + 1]
<1> DEFINE u == SubSeq(s, 1, i - 1)
           v == SubSeq(s, i + 1, Len(s))
<1>1. Len(s) \in Nat
  OBVIOUS
<1>2. u \in Seq(AllTasks) /\ Len(u) = i - 1 /\ \A j \in 1 .. i - 1 : u[j] = s[j]
  BY <1>1
<1>3. v \in Seq(AllTasks) /\ Len(v) = Len(s) - i /\ \A j \in 1 .. Len(s) - i : v[j] = s[i + j]
  BY <1>1
<1> HIDE DEF u, v
<1>4. /\ u \o v \in Seq(AllTasks) /\ Len(u \o v) = Len(s) - 1
      /\ \A j \in 1 .. Len(s) - 1 : (u \o v)[j] = IF j <= i - 1 THEN u[j] ELSE v[j - (i - 1)]
  <2>1. u \o v \in Seq(AllTasks) /\ Len(u \o v) = Len(u) + Len(v)
    <3>1. u \in Seq(AllTasks) /\ v \in Seq(AllTasks)
      BY <1>2, <1>3
    <3> QED
      BY <3>1
  <2>2. \A j \in 1 .. Len(u) + Len(v) : (u \o v)[j] = IF j <= Len(u) THEN u[j] ELSE v[j - Len(u)]
    BY <1>2, <1>3
  <2>3. Len(u) + Len(v) = Len(s) - 1
    BY <1>1, <1>2, <1>3
  <2> QED
    BY <1>2, <2>1, <2>2, <2>3
<1>5. \A j \in 1 .. Len(s) - 1 : (u \o v)[j] = IF j < i THEN s[j] ELSE s[j + 1]
  <2> SUFFICES ASSUME NEW j \in 1 .. Len(s) - 1
               PROVE  (u \o v)[j] = IF j < i THEN s[j] ELSE s[j + 1]
    OBVIOUS
  <2>1. CASE j < i
    BY <1>1, <1>2, <1>4, <2>1
  <2>2. CASE ~(j < i)
    <3>1. j - (i - 1) \in 1 .. Len(s) - i /\ i + (j - (i - 1)) = j + 1
      BY <1>1, <2>2
    <3> QED
      BY <1>1, <1>3, <1>4, <2>2, <3>1
  <2> QED
    BY <2>1, <2>2
<1> QED
  BY <1>4, <1>5 DEF RemoveAt, u, v

(* What InsertAt of the community modules returns. *)
LEMMA InsertAtIs ==
  ASSUME NEW s \in Seq(AllTasks), NEW i \in 1 .. Len(s) + 1, NEW t \in AllTasks
  PROVE  /\ InsertAt(s, i, t) \in Seq(AllTasks)
         /\ Len(InsertAt(s, i, t)) = Len(s) + 1
         /\ \A j \in 1 .. Len(s) + 1 :
              InsertAt(s, i, t)[j] = IF j < i THEN s[j] ELSE IF j = i THEN t ELSE s[j - 1]
<1> DEFINE u == SubSeq(s, 1, i - 1)
           v == SubSeq(s, i, Len(s))
           w == u \o <<t>>
<1>1. Len(s) \in Nat
  OBVIOUS
<1>2. u \in Seq(AllTasks) /\ Len(u) = i - 1 /\ \A j \in 1 .. i - 1 : u[j] = s[j]
  BY <1>1
<1>3. v \in Seq(AllTasks) /\ Len(v) = Len(s) - i + 1
      /\ \A j \in 1 .. Len(s) - i + 1 : v[j] = s[i + j - 1]
  BY <1>1
<1> HIDE DEF u, v
<1>4. w \in Seq(AllTasks) /\ Len(w) = i /\ w[i] = t /\ \A j \in 1 .. i - 1 : w[j] = u[j]
  BY <1>1, <1>2
<1> HIDE DEF w
<1>5. /\ w \o v \in Seq(AllTasks) /\ Len(w \o v) = Len(s) + 1
      /\ \A j \in 1 .. Len(s) + 1 : (w \o v)[j] = IF j <= i THEN w[j] ELSE v[j - i]
  BY <1>1, <1>3, <1>4
<1>6. \A j \in 1 .. Len(s) + 1 :
         (w \o v)[j] = IF j < i THEN s[j] ELSE IF j = i THEN t ELSE s[j - 1]
  <2> SUFFICES ASSUME NEW j \in 1 .. Len(s) + 1
               PROVE  (w \o v)[j] = IF j < i THEN s[j] ELSE IF j = i THEN t ELSE s[j - 1]
    OBVIOUS
  <2>1. CASE j < i
    BY <1>1, <1>2, <1>4, <1>5, <2>1
  <2>2. CASE j = i
    BY <1>1, <1>4, <1>5, <2>2
  <2>3. CASE j > i
    <3>1. j - i \in 1 .. Len(s) - i + 1 /\ i + (j - i) - 1 = j - 1
      BY <1>1, <2>3
    <3> QED
      BY <1>1, <1>3, <1>5, <2>3, <3>1
  <2>4. j < i \/ j = i \/ j > i
    BY <1>1
  <2> QED
    BY <2>1, <2>2, <2>3, <2>4
<1> QED
  BY <1>5, <1>6 DEF InsertAt, u, v, w

(* uxListRemove takes t out and leaves the others in their order. *)
LEMMA WithoutFacts ==
  ASSUME NEW s, List(s), NEW t
  PROVE  /\ List(Without(s, t))
         /\ ToSet(Without(s, t)) = ToSet(s) \ {t}
         /\ \A u, v : Before(Without(s, t), u, v) => Before(s, u, v)
<1>1. s \in Seq(AllTasks) /\ Len(s) \in Nat
  BY DEF List
<1>2. CASE t \notin ToSet(s)
  BY <1>2 DEF Without
<1>3. CASE t \in ToSet(s)
  <2> DEFINE i == CHOOSE i \in 1 .. Len(s) : s[i] = t
             r == RemoveAt(s, i)
  <2>1. i \in 1 .. Len(s) /\ s[i] = t
    BY <1>1, <1>3, ToSetIs
  <2> HIDE DEF i
  <2>2. /\ r \in Seq(AllTasks) /\ Len(r) = Len(s) - 1
        /\ \A j \in 1 .. Len(s) - 1 : r[j] = IF j < i THEN s[j] ELSE s[j + 1]
    BY <1>1, <2>1, RemoveAtIs
  <2>3. Without(s, t) = r
    BY <1>3 DEF Without, i
  <2> HIDE DEF r
  <2> DEFINE at(j) == IF j < i THEN j ELSE j + 1
  <2>4. \A j \in 1 .. Len(r) : at(j) \in 1 .. Len(s) /\ at(j) # i /\ r[j] = s[at(j)]
    BY <1>1, <2>1, <2>2
  <2>5. \A j, m \in 1 .. Len(r) : (at(j) = at(m) => j = m) /\ (j < m => at(j) < at(m))
    BY <1>1, <2>1, <2>2
  <2>6. \A m \in 1 .. Len(s) : m # i => \E j \in 1 .. Len(r) : at(j) = m
    <3> SUFFICES ASSUME NEW m \in 1 .. Len(s), m # i
                 PROVE  \E j \in 1 .. Len(r) : at(j) = m
      OBVIOUS
    <3>1. CASE m < i
      <4>1. m \in 1 .. Len(r) /\ at(m) = m
        BY <1>1, <2>1, <2>2, <3>1
      <4> QED
        BY <4>1
    <3>2. CASE m > i
      <4>1. m - 1 \in 1 .. Len(r) /\ at(m - 1) = m
        BY <1>1, <2>1, <2>2, <3>2
      <4> QED
        BY <4>1
    <3> QED
      BY <1>1, <2>1, <3>1, <3>2
  <2> HIDE DEF at
  <2>7. \A j, m \in 1 .. Len(s) : s[j] = s[m] => j = m
    BY DEF List
  <2>8. List(r)
    BY <2>2, <2>4, <2>5, <2>7 DEF List
  <2>9. ToSet(r) = ToSet(s) \ {t}
    <3>1. \A u : u \in ToSet(r) <=> \E j \in 1 .. Len(r) : r[j] = u
      BY <2>2, ToSetIs
    <3>2. \A u : u \in ToSet(s) <=> \E j \in 1 .. Len(s) : s[j] = u
      BY <1>1, ToSetIs
    <3>3. ASSUME NEW u \in ToSet(r)
          PROVE  u \in ToSet(s) /\ u # t
      BY <2>1, <2>4, <2>7, <3>1, <3>2
    <3>4. ASSUME NEW u \in ToSet(s), u # t
          PROVE  u \in ToSet(r)
      <4>1. PICK m \in 1 .. Len(s) : s[m] = u
        BY <3>2
      <4>2. m # i
        BY <2>1, <3>4, <4>1
      <4>3. PICK j \in 1 .. Len(r) : at(j) = m
        BY <2>6, <4>2
      <4> QED
        BY <2>4, <3>1, <4>1, <4>3
    <3> QED
      BY <3>3, <3>4
  <2>10. \A u, v : Before(r, u, v) => Before(s, u, v)
    <3> SUFFICES ASSUME NEW u, NEW v, NEW j \in 1 .. Len(r), NEW m \in 1 .. Len(r),
                        j < m, r[j] = u, r[m] = v
                 PROVE  Before(s, u, v)
      BY DEF Before
    <3>1. at(j) \in 1 .. Len(s) /\ at(m) \in 1 .. Len(s) /\ at(j) < at(m)
          /\ s[at(j)] = u /\ s[at(m)] = v
      BY <2>4, <2>5
    <3> QED
      BY <3>1 DEF Before
  <2> QED
    BY <2>3, <2>8, <2>9, <2>10
<1> QED
  BY <1>2, <1>3

(* A task that is not in a list cannot be taken out of it. *)
LEMMA WithoutSame ==
  ASSUME NEW s, NEW t, t \notin ToSet(s)
  PROVE  Without(s, t) = s
  BY DEF Without

(* The length of the head of a list is well defined. *)
LEMMA NotAboveFacts ==
  ASSUME NEW s \in Seq(AllTasks), NEW value, NEW v \in Int,
         \A t \in AllTasks : value[t] \in Int
  PROVE  LET n == NotAbove(s, value, v) IN
         /\ n \in 0 .. Len(s)
         /\ \A i \in 1 .. n : value[s[i]] <= v
         /\ n < Len(s) => value[s[n + 1]] > v
<1> DEFINE P(n) == /\ \A i \in 1 .. n : value[s[i]] <= v
                   /\ n < Len(s) => value[s[n + 1]] > v
           B == {n \in Nat : n >= Len(s) \/ value[s[n + 1]] > v}
<1>1. Len(s) \in Nat /\ \A i \in 1 .. Len(s) : s[i] \in AllTasks
  OBVIOUS
<1>2. B \subseteq Nat /\ Len(s) \in B
  BY <1>1
<1>3. PICK n \in B : \A m \in B : n <= m
  BY <1>2, LeastOf
<1>4. n \in 0 .. Len(s)
  BY <1>1, <1>2, <1>3
<1>5. ASSUME NEW i \in 1 .. n
      PROVE  value[s[i]] <= v
  <2>1. i - 1 \in Nat /\ ~(n <= i - 1) /\ i \in 1 .. Len(s)
    BY <1>1, <1>4
  <2>2. i - 1 \notin B
    BY <1>3, <2>1
  <2>3. ~(value[s[(i - 1) + 1]] > v)
    BY <2>1, <2>2
  <2>4. (i - 1) + 1 = i /\ value[s[i]] \in Int
    BY <1>1, <2>1
  <2> QED
    BY <2>3, <2>4
<1>6. P(n)
  BY <1>1, <1>3, <1>4, <1>5
<1>7. \E m \in 0 .. Len(s) : P(m)
  BY <1>4, <1>6
<1> QED
  BY <1>7 DEF NotAbove

(* vListInsert adds t and keeps an ordered list ordered. *)
LEMMA InsertFacts ==
  ASSUME NEW s, List(s), NEW t \in AllTasks, t \notin ToSet(s), NEW value,
         \A u \in AllTasks : value[u] \in Int
  PROVE  /\ List(vListInsert(s, t, value))
         /\ ToSet(vListInsert(s, t, value)) = ToSet(s) \cup {t}
         /\ Ordered(s, value) => Ordered(vListInsert(s, t, value), value)
<1> DEFINE n == NotAbove(s, value, value[t])
           i == n + 1
           r == InsertAt(s, i, t)
<1>1. s \in Seq(AllTasks) /\ Len(s) \in Nat /\ \A j \in 1 .. Len(s) : s[j] \in AllTasks
  BY DEF List
<1>2. /\ n \in 0 .. Len(s)
      /\ \A j \in 1 .. n : value[s[j]] <= value[t]
      /\ n < Len(s) => value[s[n + 1]] > value[t]
  BY <1>1, NotAboveFacts
<1> HIDE DEF n
<1>3. i \in 1 .. Len(s) + 1
  BY <1>1, <1>2
<1>4. /\ r \in Seq(AllTasks) /\ Len(r) = Len(s) + 1
      /\ \A j \in 1 .. Len(s) + 1 : r[j] = IF j < i THEN s[j] ELSE IF j = i THEN t ELSE s[j - 1]
  BY ZenonT(40), <1>1, <1>3, InsertAtIs
<1>5. vListInsert(s, t, value) = r
  BY DEF vListInsert, n
<1> HIDE DEF r
<1> DEFINE at(j) == IF j < i THEN j ELSE j - 1
<1>6. \A j \in 1 .. Len(r) : j # i => at(j) \in 1 .. Len(s) /\ r[j] = s[at(j)]
  BY <1>1, <1>3, <1>4
<1>7. \A j, m \in 1 .. Len(r) : j # i /\ m # i =>
        (at(j) = at(m) => j = m) /\ (j < m => at(j) < at(m))
  BY <1>1, <1>3, <1>4
<1>8. i \in 1 .. Len(r) /\ r[i] = t
  BY <1>1, <1>3, <1>4
<1>9. \A m \in 1 .. Len(s) : \E j \in 1 .. Len(r) : j # i /\ at(j) = m
  <2> SUFFICES ASSUME NEW m \in 1 .. Len(s)
               PROVE  \E j \in 1 .. Len(r) : j # i /\ at(j) = m
    OBVIOUS
  <2>1. CASE m < i
    <3>1. m \in 1 .. Len(r) /\ m # i /\ at(m) = m
      BY <1>1, <1>4, <2>1
    <3> QED
      BY <3>1
  <2>2. CASE ~(m < i)
    <3>1. m + 1 \in 1 .. Len(r) /\ m + 1 # i /\ at(m + 1) = m
      BY <1>1, <1>3, <1>4, <2>2
    <3> QED
      BY <3>1
  <2> QED
    BY <2>1, <2>2
<1>10. \A j \in 1 .. Len(r) : (j < i => at(j) = j) /\ (j > i => at(j) = j - 1)
  BY <1>3, <1>4
<1> HIDE DEF at
<1>11. \A j, m \in 1 .. Len(s) : s[j] = s[m] => j = m
  BY DEF List
<1>12. \A u : u \in ToSet(r) <=> \E j \in 1 .. Len(r) : r[j] = u
  BY <1>4, ToSetIs
<1>13. \A u : u \in ToSet(s) <=> \E j \in 1 .. Len(s) : s[j] = u
  BY <1>1, ToSetIs
<1>14. \A j \in 1 .. Len(s) : s[j] # t
  BY <1>13
<1>15. List(r)
  <2> SUFFICES ASSUME NEW j \in 1 .. Len(r), NEW m \in 1 .. Len(r), r[j] = r[m]
               PROVE  j = m
    BY <1>4 DEF List
  <2> QED
    BY <1>6, <1>7, <1>8, <1>11, <1>14
<1>16. ToSet(r) = ToSet(s) \cup {t}
  <2>1. ASSUME NEW u \in ToSet(r), u # t
        PROVE  u \in ToSet(s)
    BY <1>6, <1>8, <1>12, <1>13, <2>1
  <2>2. ASSUME NEW u \in ToSet(s)
        PROVE  u \in ToSet(r)
    BY <1>6, <1>9, <1>12, <1>13
  <2>3. t \in ToSet(r)
    BY <1>8, <1>12
  <2> QED
    BY <2>1, <2>2, <2>3
<1>17. ASSUME Ordered(s, value)
       PROVE  Ordered(r, value)
  <2> SUFFICES ASSUME NEW j \in 1 .. Len(r), NEW m \in 1 .. Len(r), j < m
               PROVE  value[r[j]] <= value[r[m]]
    BY DEF Ordered, Before
  <2>1. \A a, b \in 1 .. Len(s) : a < b => value[s[a]] <= value[s[b]]
    BY <1>1, <1>17 DEF Ordered, Before
  <2>2. CASE j # i /\ m # i
    BY <1>6, <1>7, <2>1, <2>2
  <2>3. CASE m = i
    <3>1. j < i /\ j \in 1 .. n
      BY <1>1, <1>2, <1>4, <2>3
    <3>2. r[j] = s[j]
      BY <1>6, <1>10, <3>1, <2>3
    <3> QED
      BY <1>2, <1>8, <2>3, <3>1, <3>2
  <2>4. CASE j = i
    <3>1. at(m) = m - 1 /\ m - 1 \in 1 .. Len(s) /\ r[m] = s[m - 1] /\ n < Len(s) /\ n + 1 \in 1 .. Len(s)
          /\ n + 1 <= m - 1
      BY <1>1, <1>2, <1>4, <1>6, <1>10, <2>4
    <3>2. value[s[n + 1]] <= value[s[m - 1]]
      <4>1. CASE n + 1 = m - 1
        BY <1>1, <3>1, <4>1
      <4>2. CASE n + 1 < m - 1
        BY <2>1, <3>1, <4>2
      <4> QED
        BY <1>2, <3>1, <4>1, <4>2
    <3>3. value[t] \in Int /\ value[s[n + 1]] \in Int /\ value[s[m - 1]] \in Int
      BY <1>1, <3>1
    <3> QED
      BY <1>2, <1>8, <2>4, <3>1, <3>2, <3>3
  <2> QED
    BY <2>2, <2>3, <2>4
<1> QED
  BY <1>5, <1>15, <1>16, <1>17

(* vListInsertEnd adds a task to a list. *)
LEMMA AppendFacts ==
  ASSUME NEW s, List(s), NEW t \in AllTasks, t \notin ToSet(s)
  PROVE  /\ List(Append(s, t))
         /\ ToSet(Append(s, t)) = ToSet(s) \cup {t}
<1> DEFINE r == Append(s, t)
<1>1. s \in Seq(AllTasks) /\ Len(s) \in Nat
  BY DEF List
<1>2. r \in Seq(AllTasks) /\ Len(r) = Len(s) + 1 /\ r[Len(s) + 1] = t
      /\ \A i \in 1 .. Len(s) : r[i] = s[i]
  BY <1>1
<1> HIDE DEF r
<1>3. \A u : u \in ToSet(r) <=> \E j \in 1 .. Len(r) : r[j] = u
  BY <1>2, ToSetIs
<1>4. \A u : u \in ToSet(s) <=> \E j \in 1 .. Len(s) : s[j] = u
  BY <1>1, ToSetIs
<1>5. \A i \in 1 .. Len(r) : i \in 1 .. Len(s) \/ i = Len(s) + 1
  BY <1>1, <1>2
<1>6. \A i \in 1 .. Len(s) : i \in 1 .. Len(r)
  BY <1>1, <1>2
<1>7. Len(s) + 1 \in 1 .. Len(r)
  BY <1>1, <1>2
<1>8. List(r)
  <2> SUFFICES ASSUME NEW i \in 1 .. Len(r), NEW j \in 1 .. Len(r), r[i] = r[j]
               PROVE  i = j
    BY <1>2 DEF List
  <2>1. \A a, b \in 1 .. Len(s) : s[a] = s[b] => a = b
    BY DEF List
  <2> QED
    BY <1>2, <1>4, <1>5, <2>1
<1>9. ToSet(r) = ToSet(s) \cup {t}
  BY <1>2, <1>3, <1>4, <1>5, <1>6, <1>7
<1> QED
  BY <1>8, <1>9 DEF r

(* The head of a list comes before the others. *)
LEMMA HeadFacts ==
  ASSUME NEW s, List(s), s # <<>>
  PROVE  /\ Head(s) \in ToSet(s) /\ Head(s) \in AllTasks
         /\ \A u \in ToSet(s) : u # Head(s) => Before(s, Head(s), u)
<1>1. s \in Seq(AllTasks) /\ Len(s) \in Nat /\ Head(s) = s[1] /\ 1 \in 1 .. Len(s) /\ s[1] \in AllTasks
  BY DEF List
<1>2. \A u : u \in ToSet(s) <=> \E j \in 1 .. Len(s) : s[j] = u
  BY <1>1, ToSetIs
<1>3. ASSUME NEW u \in ToSet(s), u # Head(s)
      PROVE  Before(s, Head(s), u)
  <2>1. PICK j \in 1 .. Len(s) : s[j] = u
    BY <1>2
  <2>2. 1 < j
    BY <1>1, <1>3, <2>1
  <2> QED
    BY <1>1, <2>1, <2>2 DEF Before
<1> QED
  BY <1>1, <1>2, <1>3

(* The head of a list goes to its end. *)
LEMMA RotateFacts ==
  ASSUME NEW s, List(s), s # <<>>
  PROVE  /\ List(Tail(s) \o <<Head(s)>>)
         /\ ToSet(Tail(s) \o <<Head(s)>>) = ToSet(s)
<1> DEFINE r == Tail(s) \o <<Head(s)>>
<1>1. s \in Seq(AllTasks) /\ Len(s) \in Nat /\ Len(s) > 0
  BY DEF List
<1>2. r \in Seq(AllTasks) /\ Len(r) = Len(s)
      /\ \A i \in 1 .. Len(s) : r[i] = IF i < Len(s) THEN s[i + 1] ELSE s[1]
  BY <1>1
<1> HIDE DEF r
<1>3. \A u : u \in ToSet(r) <=> \E j \in 1 .. Len(r) : r[j] = u
  BY <1>2, ToSetIs
<1>4. \A u : u \in ToSet(s) <=> \E j \in 1 .. Len(s) : s[j] = u
  BY <1>1, ToSetIs
<1>5. \A a, b \in 1 .. Len(s) : s[a] = s[b] => a = b
  BY DEF List
<1> DEFINE at(i) == IF i < Len(s) THEN i + 1 ELSE 1
<1>6. \A i \in 1 .. Len(s) : at(i) \in 1 .. Len(s) /\ r[i] = s[at(i)]
  BY <1>1, <1>2
<1>7. \A i, j \in 1 .. Len(s) : at(i) = at(j) => i = j
  BY <1>1
<1>8. \A m \in 1 .. Len(s) : \E i \in 1 .. Len(s) : at(i) = m
  <2> SUFFICES ASSUME NEW m \in 1 .. Len(s)
               PROVE  \E i \in 1 .. Len(s) : at(i) = m
    OBVIOUS
  <2>1. CASE m = 1
    <3>1. Len(s) \in 1 .. Len(s) /\ at(Len(s)) = m
      BY <1>1, <2>1
    <3> QED
      BY <3>1
  <2>2. CASE m > 1
    <3>1. m - 1 \in 1 .. Len(s) /\ at(m - 1) = m
      BY <1>1, <2>2
    <3> QED
      BY <3>1
  <2> QED
    BY <2>1, <2>2
<1> HIDE DEF at
<1>9. List(r)
  BY <1>2, <1>5, <1>6, <1>7 DEF List
<1>10. ToSet(r) = ToSet(s)
  <2>1. \A u : u \in ToSet(r) => u \in ToSet(s)
    BY <1>2, <1>3, <1>4, <1>6
  <2>2. \A u : u \in ToSet(s) => u \in ToSet(r)
    <3> SUFFICES ASSUME NEW u \in ToSet(s)
                 PROVE  u \in ToSet(r)
      OBVIOUS
    <3>1. PICK m \in 1 .. Len(s) : s[m] = u
      BY <1>4
    <3>2. PICK i \in 1 .. Len(s) : at(i) = m
      BY <1>8
    <3>3. r[i] = u /\ i \in 1 .. Len(r)
      BY <1>2, <1>6, <3>1, <3>2
    <3> QED
      BY <1>3, <3>3
  <2> QED
    BY <2>1, <2>2
<1> QED
  BY <1>9, <1>10 DEF r

-----------------------------------------------------------------------------
(* The operations of the scheduler on its lists. *)

USE KernelAssumption

(* Priorities are numbers, and every task is created with one. *)
LEMMA PrioritiesType == Priorities \subseteq Nat /\ \A t \in AllTasks : uxBasePriority[t] \in Priorities
  BY DEF Priorities, AllTasks

(* One task is taken out of a list. *)
LEMMA ThinnedOne ==
  ASSUME NEW s, List(s), NEW t
  PROVE  Thinned(Without(s, t), s, {t})
  BY WithoutFacts DEF Thinned

(* No task is taken out of a list. *)
LEMMA ThinnedNone ==
  ASSUME NEW s, List(s)
  PROVE  Thinned(s, s, {})
  BY DEF Thinned

(* Taking tasks out of a list twice. *)
LEMMA ThinnedTwice ==
  ASSUME NEW s, NEW r, NEW u, NEW S, NEW T, Thinned(r, s, S), Thinned(u, r, T)
  PROVE  Thinned(u, s, S \cup T)
  BY DEF Thinned

(* A list stays ordered when tasks are taken out of it. *)
LEMMA ThinnedOrder ==
  ASSUME NEW s, NEW r, NEW S, Thinned(r, s, S), NEW value, Ordered(s, value)
  PROVE  Ordered(r, value)
  BY DEF Thinned, Ordered

(* RemoveGeneric takes the task's generic item out of its list. *)
LEMMA RemoveGenericFacts ==
  ASSUME NEW kk, Shape(kk), NEW t
  PROVE  Removed(kk, RemoveGeneric(kk, t), t)
<1> DEFINE r == RemoveGeneric(kk, t)
<1>1. DOMAIN kk = Fields
  BY DEF Shape
<1>2. DOMAIN r = Fields
  BY <1>1 DEF Fields, RemoveGeneric
<1>3. SameFixed(kk, r)
  BY <1>1 DEF Fields, RemoveGeneric, SameFixed
<1>4. /\ r.forever = kk.forever \ {t}
      /\ r.pending = kk.pending /\ r.toReceive = kk.toReceive /\ r.toSend = kk.toSend
      /\ r.top = kk.top /\ r.wake = kk.wake
      /\ r.ready = [p \in Priorities |-> Without(kk.ready[p], t)]
      /\ r.delayed = Without(kk.delayed, t) /\ r.overflow = Without(kk.overflow, t)
  BY <1>1 DEF Fields, RemoveGeneric
<1> HIDE DEF r
<1>5. \A p \in Priorities : Thinned(r.ready[p], kk.ready[p], {t})
  BY <1>4, ThinnedOne DEF Shape, ListsOK
<1>6. Thinned(r.delayed, kk.delayed, {t}) /\ Thinned(r.overflow, kk.overflow, {t})
  BY <1>4, ThinnedOne DEF Shape, ListsOK
<1>7. ListsOK(r)
  BY <1>4, <1>5, <1>6 DEF Shape, ListsOK, Thinned
<1>8. Numbers(r)
  BY <1>3, <1>4 DEF Shape, Numbers, SameFixed
<1>9. Shape(r)
  BY <1>2, <1>7, <1>8 DEF Shape
<1>10. Removed(kk, r, t)
  BY <1>3, <1>4, <1>5, <1>6, <1>9 DEF Removed
<1> QED
  BY <1>10 DEF r

(* RemoveEvent takes the task's event item out of its list. *)
LEMMA RemoveEventFacts ==
  ASSUME NEW kk, Shape(kk), NEW t
  PROVE  Called(kk, RemoveEvent(kk, t), t)
<1> DEFINE r == RemoveEvent(kk, t)
<1>1. DOMAIN kk = Fields
  BY DEF Shape
<1>2. DOMAIN r = Fields
  BY <1>1 DEF Fields, RemoveEvent
<1>3. SameFixed(kk, r)
  BY <1>1 DEF Fields, RemoveEvent, SameFixed
<1>4. /\ r.ready = kk.ready /\ r.delayed = kk.delayed /\ r.overflow = kk.overflow
      /\ r.forever = kk.forever /\ r.top = kk.top /\ r.wake = kk.wake
      /\ r.toReceive = [x \in Queues |-> Without(kk.toReceive[x], t)]
      /\ r.toSend = [x \in Queues |-> Without(kk.toSend[x], t)]
      /\ r.pending = Without(kk.pending, t)
  BY <1>1 DEF Fields, RemoveEvent
<1> HIDE DEF r
<1>5. Thins(kk, r, {t})
  BY <1>4, ThinnedOne DEF Shape, ListsOK, Thins
<1>7. ListsOK(r)
  BY <1>4, <1>5 DEF Shape, ListsOK, Thinned, Thins
<1>8. Numbers(r)
  BY <1>3, <1>4 DEF Shape, Numbers, SameFixed
<1>9. Shape(r)
  BY <1>2, <1>7, <1>8 DEF Shape
<1>10. Called(kk, r, t)
  BY <1>3, <1>4, <1>5, <1>9 DEF Called
<1> QED
  BY <1>10 DEF r

(* prvAddTaskToReadyQueue adds the task, and the recorded top priority covers it. *)
LEMMA AddReadyFacts ==
  ASSUME NEW kk, Shape(kk), NEW t \in AllTasks, t \notin ToSet(kk.ready[kk.uxPriority[t]])
  PROVE  Added(kk, prvAddTaskToReadyQueue(kk, t), t)
<1> DEFINE r == prvAddTaskToReadyQueue(kk, t)
           p == kk.uxPriority[t]
<1>1. DOMAIN kk = Fields /\ DOMAIN kk.ready = Priorities /\ p \in Priorities /\ p \in Nat
      /\ kk.top \in Nat
  BY PrioritiesType DEF Shape, ListsOK, Numbers
<1> HIDE DEF p
<1>2. r = [kk EXCEPT !.ready[p] = Append(@, t), !.top = IF p > @ THEN p ELSE @]
  BY DEF prvAddTaskToReadyQueue, p, vListInsertEnd
<1> HIDE DEF r
<1>3. DOMAIN r = Fields
  BY <1>1, <1>2 DEF Fields
<1>4. SameFixed(kk, r)
  BY <1>1, <1>2 DEF Fields, SameFixed
<1>5. /\ r.delayed = kk.delayed /\ r.overflow = kk.overflow /\ r.forever = kk.forever
      /\ r.pending = kk.pending /\ r.toReceive = kk.toReceive /\ r.toSend = kk.toSend
      /\ r.wake = kk.wake
      /\ r.top = IF p > kk.top THEN p ELSE kk.top
      /\ r.ready = [kk.ready EXCEPT ![p] = Append(kk.ready[p], t)]
  BY <1>1, <1>2 DEF Fields
<1>6. List(Append(kk.ready[p], t)) /\ ToSet(Append(kk.ready[p], t)) = ToSet(kk.ready[p]) \cup {t}
  BY <1>1, AppendFacts DEF Shape, ListsOK, p
<1>7. List(r.ready[p]) /\ ToSet(r.ready[p]) = ToSet(kk.ready[p]) \cup {t}
  BY <1>1, <1>5, <1>6
<1>8. \A s \in Priorities : s # p => r.ready[s] = kk.ready[s]
  BY <1>1, <1>5
<1>9. \A s \in Priorities : List(r.ready[s])
  BY <1>7, <1>8 DEF Shape, ListsOK
<1>10. DOMAIN r.ready = Priorities
  BY <1>1, <1>5
<1>11. ListsOK(r)
  BY <1>5, <1>9, <1>10 DEF Shape, ListsOK
<1>12. kk.top <= r.top /\ p <= r.top /\ r.top \in Nat
  BY <1>1, <1>5
<1>13. Numbers(r)
  BY <1>4, <1>5, <1>12 DEF Shape, Numbers, SameFixed
<1>14. Shape(r)
  BY <1>3, <1>11, <1>13 DEF Shape
<1>15. Added(kk, r, t)
  BY <1>4, <1>5, <1>7, <1>8, <1>12, <1>14 DEF Added, p
<1> QED
  BY <1>15 DEF r

(* Only the wake time of one task changes. *)
LEMMA ForgetWake ==
  ASSUME NEW kk, Shape(kk), NEW t \in AllTasks, NEW v \in 0 .. W - 1
  PROVE  Rewoken(kk, [kk EXCEPT !.wake[t] = v], t, v)
<1> DEFINE r == [kk EXCEPT !.wake[t] = v]
<1>1. DOMAIN kk = Fields /\ kk.wake \in [AllTasks -> 0 .. W - 1]
  BY DEF Shape, Numbers
<1>2. DOMAIN r = Fields /\ SameFixed(kk, r)
         /\ r.ready = kk.ready /\ r.delayed = kk.delayed /\ r.overflow = kk.overflow
         /\ r.forever = kk.forever /\ r.top = kk.top
         /\ r.pending = kk.pending /\ r.toReceive = kk.toReceive /\ r.toSend = kk.toSend
         /\ r.wake = [kk.wake EXCEPT ![t] = v]
  BY <1>1 DEF Fields, SameFixed
<1> HIDE DEF r
<1>3. Numbers(r)
  BY <1>1, <1>2 DEF Shape, Numbers, SameFixed
<1>4. ListsOK(r)
  BY <1>2 DEF Shape, ListsOK
<1>5. Rewoken(kk, r, t, v)
  BY <1>2, <1>3, <1>4 DEF Shape, Rewoken
<1> QED
  BY <1>5 DEF r

(* What is left alone twice is left alone. *)
LEMMA SameTrans ==
  ASSUME NEW kk, NEW r, NEW s, SameFixed(kk, r), SameFixed(r, s)
  PROVE  SameFixed(kk, s)
  BY DEF SameFixed

(* MakeReady moves the task to its ready list from wherever it was. *)
LEMMA MakeReadyFacts ==
  ASSUME NEW kk, Shape(kk), NEW t \in AllTasks
  PROVE  MadeReady(kk, MakeReady(kk, t), t)
<1> DEFINE a == RemoveGeneric(kk, t)
           b == prvAddTaskToReadyQueue(a, t)
           r == [b EXCEPT !.wake[t] = 0]
<1>1. Removed(kk, a, t)
  BY RemoveGenericFacts
<1>2. a.uxPriority = kk.uxPriority /\ kk.uxPriority[t] \in Priorities /\ Shape(a)
  BY <1>1 DEF Removed, SameFixed, Shape, Numbers
<1>3. t \notin ToSet(a.ready[a.uxPriority[t]])
  BY <1>1, <1>2 DEF Removed, Thinned
<1> HIDE DEF a
<1>4. Added(a, b, t)
  BY <1>2, <1>3, AddReadyFacts
<1> HIDE DEF b
<1>5. 0 \in 0 .. W - 1 /\ Shape(b)
  BY <1>4 DEF Added
<1>6. Rewoken(b, r, t, 0)
  BY <1>5, ForgetWake
<1>7. r = MakeReady(kk, t)
  BY DEF MakeReady, a, b
<1> HIDE DEF r
<1>8. SameFixed(kk, r) /\ Shape(r)
  BY <1>1, <1>4, <1>6, SameTrans DEF Removed, Added, Rewoken
<1> DEFINE P == kk.uxPriority[t]
<1>9. \A p \in Priorities : p # P => ToSet(r.ready[p]) = ToSet(kk.ready[p]) \ {t}
  BY <1>1, <1>2, <1>4, <1>6 DEF Thinned, Removed, Added, Rewoken
<1>10. ToSet(r.ready[P]) = ToSet(kk.ready[P]) \cup {t}
  <2>1. ToSet(a.ready[P]) = ToSet(kk.ready[P]) \ {t}
    BY <1>1, <1>2 DEF Removed, Thinned
  <2>2. ToSet(b.ready[P]) = ToSet(a.ready[P]) \cup {t}
    BY <1>2, <1>4 DEF Added
  <2>3. r.ready = b.ready
    BY <1>6 DEF Rewoken
  <2> QED
    BY <2>1, <2>2, <2>3
<1>11. /\ Thinned(r.delayed, kk.delayed, {t}) /\ Thinned(r.overflow, kk.overflow, {t})
         /\ r.forever = kk.forever \ {t}
         /\ r.pending = kk.pending /\ r.toReceive = kk.toReceive /\ r.toSend = kk.toSend
         /\ kk.top <= r.top /\ kk.uxPriority[t] <= r.top
  BY <1>1, <1>2, <1>4, <1>6 DEF Removed, Added, Rewoken
<1>12. \A u \in AllTasks \ {t} : r.wake[u] = kk.wake[u]
  <2>1. b.wake = kk.wake /\ r.wake = [b.wake EXCEPT ![t] = 0] /\ kk.wake \in [AllTasks -> 0 .. W - 1]
    BY <1>1, <1>4, <1>6 DEF Removed, Added, Rewoken, Shape, Numbers
  <2> QED
    BY <2>1
<1>13. MadeReady(kk, r, t)
  BY <1>8, <1>9, <1>10, <1>11, <1>12 DEF MadeReady
<1> QED
  BY <1>7, <1>13

(* xTaskRemoveFromEventList readies the task while the scheduler runs. *)
LEMMA ReadiedOne ==
  ASSUME NEW kk, Shape(kk), ReadyAt(kk), NEW t \in AllTasks, ~kk.suspended
  PROVE  Readied(kk, xTaskRemoveFromEventList(kk, t), {t})
<1> DEFINE a == RemoveEvent(kk, t)
           r == MakeReady(a, t)
<1>1. Called(kk, a, t)
  BY RemoveEventFacts
<1>2. Shape(a)
  BY <1>1 DEF Called
<1> HIDE DEF a
<1>3. MadeReady(a, r, t)
  BY <1>2, MakeReadyFacts
<1>4. r = xTaskRemoveFromEventList(kk, t)
  BY DEF xTaskRemoveFromEventList, a
<1> HIDE DEF r
<1>5. Shape(r) /\ SameFixed(kk, r)
  BY <1>1, <1>3, SameTrans DEF Called, MadeReady
<1>6. a.uxPriority = kk.uxPriority /\ kk.uxPriority[t] \in Priorities
  BY <1>1 DEF Called, SameFixed, Shape, Numbers
<1>7. ASSUME NEW p \in Priorities, NEW u \in AllTasks
      PROVE  u \in ToSet(r.ready[p]) <=> u \in ToSet(kk.ready[p]) \/ (u \in {t} /\ kk.uxPriority[u] = p)
  <2>1. a.ready = kk.ready
    BY <1>1 DEF Called
  <2>2. t \in ToSet(kk.ready[p]) => kk.uxPriority[t] = p
    BY DEF ReadyAt
  <2>3. CASE p = kk.uxPriority[t]
    <3>1. ToSet(r.ready[p]) = ToSet(kk.ready[p]) \cup {t}
      BY <1>3, <1>6, <2>1, <2>3 DEF MadeReady
    <3> QED
      BY <2>3, <3>1
  <2>4. CASE p # kk.uxPriority[t]
    <3>1. ToSet(r.ready[p]) = ToSet(kk.ready[p]) \ {t}
      BY <1>3, <1>6, <2>1, <2>4 DEF MadeReady
    <3> QED
      BY <2>2, <2>4, <3>1
  <2> QED
    BY <2>3, <2>4
<1>8. Thinned(r.delayed, kk.delayed, {t}) /\ Thinned(r.overflow, kk.overflow, {t})
      /\ r.forever = kk.forever \ {t} /\ kk.top <= r.top /\ kk.uxPriority[t] <= r.top
  BY <1>1, <1>3, <1>6 DEF Called, MadeReady
<1>9. Thins(kk, r, {t})
  BY <1>1, <1>3 DEF Called, MadeReady, Thins
<1>10. \A u \in AllTasks \ {t} : r.wake[u] = kk.wake[u]
  BY <1>1, <1>3 DEF Called, MadeReady
<1>11. Readied(kk, r, {t})
  BY <1>5, <1>7, <1>8, <1>9, <1>10 DEF Readied
<1> QED
  BY <1>4, <1>11

(* xTaskRemoveFromEventList makes the task pending while the scheduler is suspended. *)
LEMMA PendedOne ==
  ASSUME NEW kk, Shape(kk), NEW t \in AllTasks, kk.suspended
  PROVE  Pended(kk, xTaskRemoveFromEventList(kk, t), {t})
<1> DEFINE a == RemoveEvent(kk, t)
           r == [a EXCEPT !.pending = vListInsertEnd(@, t)]
<1>1. Called(kk, a, t)
  BY RemoveEventFacts
<1>2. Shape(a) /\ DOMAIN a = Fields /\ List(a.pending) /\ ToSet(a.pending) = ToSet(kk.pending) \ {t}
  BY <1>1 DEF Called, Shape, Thins, Thinned
<1>3. r = xTaskRemoveFromEventList(kk, t)
  BY DEF xTaskRemoveFromEventList
<1> HIDE DEF a
<1>4. /\ DOMAIN r = Fields /\ SameFixed(a, r)
      /\ r.pending = Append(a.pending, t)
      /\ r.ready = a.ready /\ r.delayed = a.delayed /\ r.overflow = a.overflow
      /\ r.forever = a.forever /\ r.wake = a.wake /\ r.top = a.top
      /\ r.toReceive = a.toReceive /\ r.toSend = a.toSend
  BY <1>2 DEF vListInsertEnd, Fields, SameFixed
<1> HIDE DEF r
<1>5. List(r.pending) /\ ToSet(r.pending) = ToSet(kk.pending) \cup {t}
  <2>1. t \notin ToSet(a.pending)
    BY <1>2
  <2>2. List(Append(a.pending, t)) /\ ToSet(Append(a.pending, t)) = ToSet(a.pending) \cup {t}
    BY <1>2, <2>1, AppendFacts
  <2> QED
    BY <1>2, <1>4, <2>2
<1>6. ListsOK(r)
  BY <1>2, <1>4, <1>5 DEF Shape, ListsOK
<1>7. Numbers(r)
  BY <1>2, <1>4 DEF Shape, Numbers, SameFixed
<1>8. SameFixed(kk, r)
  BY <1>1, <1>4, SameTrans DEF Called
<1>9. Pended(kk, r, {t})
  BY <1>1, <1>4, <1>5, <1>6, <1>7, <1>8 DEF Pended, Shape, Called, Thins
<1> QED
  BY <1>3, <1>9

(* Readied tasks are in the list of their priority. *)
LEMMA ReadiedKeeps ==
  ASSUME NEW kk, NEW r, NEW S, Readied(kk, r, S), ReadyAt(kk), ListsOK(kk)
  PROVE  ReadyAt(r) /\ Shape(r) /\ r.suspended = kk.suspended
<1>1. ASSUME NEW p \in Priorities, NEW t \in ToSet(r.ready[p])
      PROVE  r.uxPriority[t] = p
  <2>1. t \in AllTasks
    BY ToSetIs DEF Readied, Shape, ListsOK, List
  <2>2. t \in ToSet(kk.ready[p]) \/ (t \in S /\ kk.uxPriority[t] = p)
    BY <2>1 DEF Readied
  <2>3. r.uxPriority = kk.uxPriority
    BY DEF Readied, SameFixed
  <2> QED
    BY <2>2, <2>3 DEF ReadyAt
<1> QED
  BY <1>1 DEF ReadyAt, Readied, SameFixed

(* Two rounds of taking tasks out of the event lists are one. *)
LEMMA ThinsTwice ==
  ASSUME NEW kk, NEW r, NEW s, NEW S, NEW T, Thins(kk, r, S), Thins(r, s, T)
  PROVE  Thins(kk, s, S \cup T)
  BY ThinnedTwice DEF Thins

(* Two rounds of readying tasks are one. *)
LEMMA ReadiedTwice ==
  ASSUME NEW kk, NEW r, NEW s, NEW S, NEW T, Readied(kk, r, S), Readied(r, s, T), Shape(kk)
  PROVE  Readied(kk, s, S \cup T)
<1>1. SameFixed(kk, s) /\ Shape(s) /\ S \cup T \subseteq AllTasks
  BY SameTrans DEF Readied
<1>2. r.uxPriority = kk.uxPriority
  BY DEF Readied, SameFixed
<1>3. ASSUME NEW p \in Priorities, NEW t \in AllTasks
      PROVE  t \in ToSet(s.ready[p]) <=>
               t \in ToSet(kk.ready[p]) \/ (t \in S \cup T /\ kk.uxPriority[t] = p)
  BY <1>2 DEF Readied
<1>4. Thins(kk, s, S \cup T)
  BY ThinsTwice DEF Readied
<1>5. Thinned(s.delayed, kk.delayed, S \cup T) /\ Thinned(s.overflow, kk.overflow, S \cup T)
  BY ThinnedTwice DEF Readied
<1>6. s.forever = kk.forever \ (S \cup T)
  BY DEF Readied
<1>7. kk.top <= s.top /\ \A t \in S \cup T : kk.uxPriority[t] <= s.top
  <2>1. kk.top \in Nat /\ r.top \in Nat /\ s.top \in Nat /\ r.top <= s.top /\ kk.top <= r.top
    BY DEF Readied, Shape, Numbers
  <2>2. ASSUME NEW t \in S
        PROVE  kk.uxPriority[t] <= s.top
    <3>1. kk.uxPriority[t] <= r.top /\ kk.uxPriority[t] \in Nat
      BY ZenonT(40), PrioritiesType DEF Readied, Shape, Numbers
    <3> QED
      BY <2>1, <3>1
  <2>3. \A t \in T : kk.uxPriority[t] <= s.top
    BY <1>2 DEF Readied
  <2> QED
    BY <2>1, <2>2, <2>3
<1>8. \A t \in AllTasks \ (S \cup T) : s.wake[t] = kk.wake[t]
  BY DEF Readied
<1> QED
  BY <1>1, <1>3, <1>4, <1>5, <1>6, <1>7, <1>8 DEF Readied

(* Nothing is readied. *)
LEMMA ReadiedNone ==
  ASSUME NEW kk, Shape(kk)
  PROVE  Readied(kk, kk, {})
<1>1. Thins(kk, kk, {}) /\ Thinned(kk.delayed, kk.delayed, {}) /\ Thinned(kk.overflow, kk.overflow, {})
  BY ThinnedNone DEF Thins, Shape, ListsOK
<1>2. kk.top <= kk.top
  BY DEF Shape, Numbers
<1> QED
  BY <1>1, <1>2 DEF Readied, SameFixed

(* Two rounds of making tasks pending are one. *)
LEMMA PendedTwice ==
  ASSUME NEW kk, NEW r, NEW s, NEW S, NEW T, Pended(kk, r, S), Pended(r, s, T)
  PROVE  Pended(kk, s, S \cup T)
<1>1. SameFixed(kk, s) /\ Shape(s) /\ S \cup T \subseteq AllTasks
  BY SameTrans DEF Pended
<1>2. \A x \in Queues : /\ Thinned(s.toReceive[x], kk.toReceive[x], S \cup T)
                        /\ Thinned(s.toSend[x], kk.toSend[x], S \cup T)
  BY ThinnedTwice DEF Pended
<1>3. ToSet(s.pending) = ToSet(kk.pending) \cup (S \cup T)
  BY DEF Pended
<1>4. /\ s.ready = kk.ready /\ s.delayed = kk.delayed /\ s.overflow = kk.overflow
      /\ s.forever = kk.forever /\ s.wake = kk.wake /\ s.top = kk.top
  BY DEF Pended
<1> QED
  BY <1>1, <1>2, <1>3, <1>4 DEF Pended

(* Nothing is made pending. *)
LEMMA PendedNone ==
  ASSUME NEW kk, Shape(kk)
  PROVE  Pended(kk, kk, {})
<1>1. \A x \in Queues : /\ Thinned(kk.toReceive[x], kk.toReceive[x], {})
                        /\ Thinned(kk.toSend[x], kk.toSend[x], {})
  BY ThinnedNone DEF Shape, ListsOK
<1> QED
  BY <1>1 DEF Pended, SameFixed

-----------------------------------------------------------------------------

(* The recursive function of WakeEach exists. *)
LEMMA WakingExists ==
  ASSUME NEW kk, NEW s, NEW n \in Nat
  PROVE  \E f : Waking(f, kk, s, n)
<1> DEFINE B == {i \in Nat : ~ \E f : Waking(f, kk, s, i)}
<1> SUFFICES ASSUME B # {}
             PROVE  FALSE
  OBVIOUS
<1>1. PICK b \in B : \A i \in B : b <= i
  <2>1. B \subseteq Nat
    OBVIOUS
  <2> QED
    BY <2>1, LeastOf
<1>2. b \in Nat /\ ~ \E f : Waking(f, kk, s, b)
  OBVIOUS
<1>3. CASE b = 0
  <2> DEFINE f == [i \in 0 .. 0 |-> kk]
  <2>1. f = [i \in 0 .. 0 |-> IF i = 0 THEN kk ELSE xTaskRemoveFromEventList(f[i - 1], s[i])]
    OBVIOUS
  <2>2. Waking(f, kk, s, 0)
    BY <2>1 DEF Waking
  <2> QED
    BY <1>2, <1>3, <2>2
<1>4. CASE b > 0
  <2>1. b - 1 \in Nat /\ ~(b <= b - 1)
    BY <1>2, <1>4
  <2>2. b - 1 \notin B
    BY <1>1, <2>1
  <2>3. PICK f : Waking(f, kk, s, b - 1)
    BY <2>1, <2>2
  <2> DEFINE g == [i \in 0 .. b |-> IF i = b THEN xTaskRemoveFromEventList(f[b - 1], s[b]) ELSE f[i]]
             h == [i \in 0 .. b |-> IF i = 0 THEN kk ELSE xTaskRemoveFromEventList(g[i - 1], s[i])]
  <2>4. \A i \in 0 .. b - 1 : f[i] = IF i = 0 THEN kk ELSE xTaskRemoveFromEventList(f[i - 1], s[i])
    BY <2>3 DEF Waking
  <2>5. \A i \in 0 .. b : g[i] = h[i]
    <3> SUFFICES ASSUME NEW i \in 0 .. b
                 PROVE  g[i] = h[i]
      OBVIOUS
    <3>1. CASE i = 0
      <4>1. i # b /\ i \in 0 .. b - 1
        BY <1>2, <1>4, <3>1
      <4> QED
        BY <2>4, <3>1, <4>1
    <3>2. CASE i # 0
      <4>1. i - 1 \in 0 .. b /\ i - 1 # b
        BY <1>2, <3>2
      <4>2. g[i - 1] = f[i - 1]
        BY <4>1
      <4>3. CASE i = b
        BY <3>2, <4>2, <4>3
      <4>4. CASE i # b
        <5>1. i \in 0 .. b - 1
          BY <1>2, <4>4
        <5> QED
          BY <2>4, <3>2, <4>2, <4>4, <5>1
      <4> QED
        BY <4>3, <4>4
    <3> QED
      BY <3>1, <3>2
  <2>6. g = h
    BY <2>5
  <2>7. Waking(g, kk, s, b)
    BY <2>6 DEF Waking
  <2> QED
    BY <1>2, <2>7
<1> QED
  BY <1>2, <1>3, <1>4

(* WakeEach is the last of the schedulers its loop goes through. *)
LEMMA WakingFacts ==
  ASSUME NEW kk, NEW s, NEW n \in Nat
  PROVE  \E f : WakesBy(f, kk, s, n)
<1> DEFINE f == CHOOSE f : Waking(f, kk, s, n)
<1>1. Waking(f, kk, s, n)
  BY WakingExists
<1>2. f = CHOOSE g : g = [i \in 0 .. n |-> IF i = 0 THEN kk ELSE xTaskRemoveFromEventList(g[i - 1], s[i])]
  BY DEF Waking
<1>3. f[n] = WakeEach(kk, s, n)
  BY <1>2 DEF WakeEach
<1> HIDE DEF f
<1>4. f[0] = kk
  BY <1>1 DEF Waking
<1>5. \A i \in 1 .. n : f[i] = xTaskRemoveFromEventList(f[i - 1], s[i])
  BY <1>1 DEF Waking
<1>6. WakesBy(f, kk, s, n)
  BY <1>3, <1>4, <1>5 DEF WakesBy
<1> QED
  BY <1>6

(* WakeEach readies the first n tasks of a list while the scheduler runs. *)
LEMMA WakeEachReadies ==
  ASSUME NEW kk, Shape(kk), ReadyAt(kk), ~kk.suspended,
         NEW s \in Seq(AllTasks), NEW n \in 0 .. Len(s)
  PROVE  Readied(kk, WakeEach(kk, s, n), FirstOf(s, n))
<1>1. n \in Nat /\ Len(s) \in Nat /\ \A i \in 1 .. Len(s) : s[i] \in AllTasks
  OBVIOUS
<1>2. PICK f : WakesBy(f, kk, s, n)
  BY <1>1, WakingFacts
<1> DEFINE B == {i \in Nat : i <= n /\ ~Readied(kk, f[i], FirstOf(s, i))}
<1>3. ASSUME B # {}
      PROVE  FALSE
  <2>1. PICK b \in B : \A i \in B : b <= i
    <3>1. B \subseteq Nat
      OBVIOUS
    <3> QED
      BY <1>3, <3>1, LeastOf
  <2>2. b \in Nat /\ b <= n /\ ~Readied(kk, f[b], FirstOf(s, b))
    BY <2>1
  <2>3. CASE b = 0
    <3>1. FirstOf(s, 0) = {}
      BY DEF FirstOf
    <3> QED
      BY <1>2, <2>2, <2>3, <3>1, ReadiedNone DEF WakesBy
  <2>4. CASE b > 0
    <3>1. b - 1 \in Nat /\ b - 1 <= n /\ ~(b <= b - 1) /\ b \in 1 .. n /\ b \in 1 .. Len(s)
      BY <1>1, <2>2, <2>4
    <3>2. Readied(kk, f[b - 1], FirstOf(s, b - 1))
      BY <2>1, <3>1
    <3>3. ReadyAt(f[b - 1]) /\ Shape(f[b - 1]) /\ ~f[b - 1].suspended
      BY <3>2, ReadiedKeeps DEF Shape
    <3>4. s[b] \in AllTasks
      BY <1>1, <3>1
    <3>5. Readied(f[b - 1], f[b], {s[b]})
      BY <1>2, <3>1, <3>3, <3>4, ReadiedOne DEF WakesBy
    <3>6. Readied(kk, f[b], FirstOf(s, b - 1) \cup {s[b]})
      BY <3>2, <3>5, ReadiedTwice
    <3>7. FirstOf(s, b - 1) \cup {s[b]} = FirstOf(s, b)
      <4>1. \A i : i \in 1 .. b <=> i \in 1 .. b - 1 \/ i = b
        BY <3>1
      <4> QED
        BY <4>1 DEF FirstOf
    <3> QED
      BY <2>2, <3>6, <3>7
  <2> QED
    BY <2>2, <2>3, <2>4
<1>4. Readied(kk, f[n], FirstOf(s, n))
  BY <1>1, <1>3
<1> QED
  BY <1>2, <1>4 DEF WakesBy

(* WakeEach makes the first n tasks of a list pending while the scheduler is suspended. *)
LEMMA WakeEachPends ==
  ASSUME NEW kk, Shape(kk), kk.suspended,
         NEW s \in Seq(AllTasks), NEW n \in 0 .. Len(s)
  PROVE  Pended(kk, WakeEach(kk, s, n), FirstOf(s, n))
<1>1. n \in Nat /\ Len(s) \in Nat /\ \A i \in 1 .. Len(s) : s[i] \in AllTasks
  OBVIOUS
<1>2. PICK f : WakesBy(f, kk, s, n)
  BY <1>1, WakingFacts
<1> DEFINE B == {i \in Nat : i <= n /\ ~Pended(kk, f[i], FirstOf(s, i))}
<1>3. ASSUME B # {}
      PROVE  FALSE
  <2>1. PICK b \in B : \A i \in B : b <= i
    <3>1. B \subseteq Nat
      OBVIOUS
    <3> QED
      BY <1>3, <3>1, LeastOf
  <2>2. b \in Nat /\ b <= n /\ ~Pended(kk, f[b], FirstOf(s, b))
    BY <2>1
  <2>3. CASE b = 0
    <3>1. FirstOf(s, 0) = {}
      BY DEF FirstOf
    <3> QED
      BY <1>2, <2>2, <2>3, <3>1, PendedNone DEF WakesBy
  <2>4. CASE b > 0
    <3>1. b - 1 \in Nat /\ b - 1 <= n /\ ~(b <= b - 1) /\ b \in 1 .. n /\ b \in 1 .. Len(s)
      BY <1>1, <2>2, <2>4
    <3>2. Pended(kk, f[b - 1], FirstOf(s, b - 1))
      BY <2>1, <3>1
    <3>3. Shape(f[b - 1]) /\ f[b - 1].suspended
      BY <3>2 DEF Pended, SameFixed
    <3>4. s[b] \in AllTasks
      BY <1>1, <3>1
    <3>5. Pended(f[b - 1], f[b], {s[b]})
      BY <1>2, <3>1, <3>3, <3>4, PendedOne DEF WakesBy
    <3>6. Pended(kk, f[b], FirstOf(s, b - 1) \cup {s[b]})
      BY <3>2, <3>5, PendedTwice
    <3>7. FirstOf(s, b - 1) \cup {s[b]} = FirstOf(s, b)
      <4>1. \A i : i \in 1 .. b <=> i \in 1 .. b - 1 \/ i = b
        BY <3>1
      <4> QED
        BY <4>1 DEF FirstOf
    <3> QED
      BY <2>2, <3>6, <3>7
  <2> QED
    BY <2>2, <2>3, <2>4
<1>4. Pended(kk, f[n], FirstOf(s, n))
  BY <1>1, <1>3
<1> QED
  BY <1>2, <1>4 DEF WakesBy

(* Who is ready after tasks have been readied. *)
LEMMA ReadiedReady ==
  ASSUME NEW kk, Shape(kk), NEW r, NEW S, Readied(kk, r, S)
  PROVE  \A t \in AllTasks : Ready(r, t) <=> Ready(kk, t) \/ t \in S
<1>1. r.uxPriority = kk.uxPriority /\ \A t \in AllTasks : kk.uxPriority[t] \in Priorities
  BY DEF Readied, SameFixed, Shape, Numbers
<1> QED
  BY <1>1 DEF Readied, Ready

(* Readied tasks leave every other list of generic items. *)
LEMMA ReadiedApart ==
  ASSUME NEW kk, Shape(kk), Apart(kk), NEW r, NEW S, Readied(kk, r, S)
  PROVE  Apart(r)
<1>1. ReadyAt(r)
  BY ReadiedKeeps DEF Apart, Shape
<1>2. \A t \in AllTasks : Ready(r, t) <=> Ready(kk, t) \/ t \in S
  BY ReadiedReady
<1>3. ToSet(r.delayed) = ToSet(kk.delayed) \ S /\ ToSet(r.overflow) = ToSet(kk.overflow) \ S
      /\ r.forever = kk.forever \ S
  BY DEF Readied, Thinned
<1>4. ASSUME NEW t \in AllTasks, Ready(r, t)
      PROVE  r.uxPriority[t] <= r.top
  <2>1. r.uxPriority = kk.uxPriority /\ kk.top <= r.top /\ kk.top \in Nat /\ r.top \in Nat
        /\ kk.uxPriority[t] \in Nat
    BY PrioritiesType DEF Readied, SameFixed, Shape, Numbers
  <2>2. CASE t \in S
    BY <2>1, <2>2 DEF Readied
  <2>3. CASE Ready(kk, t)
    <3>1. kk.uxPriority[t] <= kk.top
      BY <2>3 DEF Apart
    <3> QED
      BY <2>1, <3>1
  <2> QED
    BY <1>2, <1>4, <2>2, <2>3
<1>5. IDLE \in AllTasks
  BY DEF AllTasks
<1> QED
  BY <1>1, <1>2, <1>3, <1>4, <1>5 DEF Apart

(* Readying tasks is a move of theirs. *)
LEMMA ReadiedMoved ==
  ASSUME NEW kk, Shape(kk), NEW r, NEW S, Readied(kk, r, S)
  PROVE  Moved(kk, r, S)
<1>1. \A t \in AllTasks : Ready(r, t) <=> Ready(kk, t) \/ t \in S
  BY ReadiedReady
<1>2. Slept(r) = Slept(kk) \ S /\ r.forever = kk.forever \ S
  BY DEF Slept, Readied, Thinned
<1> QED
  BY <1>1, <1>2 DEF Moved, Readied, SameFixed

(* Two moves are one. *)
LEMMA MovedTwice ==
  ASSUME NEW kk, NEW r, NEW s, NEW S, NEW T, Moved(kk, r, S), Moved(r, s, T)
  PROVE  Moved(kk, s, S \cup T)
<1>1. Thins(kk, s, S \cup T)
  BY ThinsTwice DEF Moved
<1>2. /\ s.cur = kk.cur /\ s.suspended = kk.suspended /\ s.missedTicks = kk.missedTicks
      /\ s.missedYield = kk.missedYield /\ s.yield = kk.yield /\ s.late = kk.late
      /\ s.uxPriority = kk.uxPriority
  BY DEF Moved
<1>3. /\ S \cup T \subseteq AllTasks
      /\ \A t \in AllTasks : Ready(s, t) <=> Ready(kk, t) \/ t \in S \cup T
      /\ Slept(s) = Slept(kk) \ (S \cup T) /\ s.forever = kk.forever \ (S \cup T)
  BY DEF Moved
<1> QED
  BY <1>1, <1>2, <1>3 DEF Moved

-----------------------------------------------------------------------------
(* Scalars change, lists stay. *)

(* Only the recorded time of the next wake-up changes. *)
LEMMA NextFacts ==
  ASSUME NEW kk, Shape(kk), NEW v \in 0 .. W - 1
  PROVE  Shape([kk EXCEPT !.next = v]) /\ Renexted(kk, [kk EXCEPT !.next = v], v)
<1> DEFINE r == [kk EXCEPT !.next = v]
<1>1. DOMAIN kk = Fields
  BY DEF Shape
<1>2. DOMAIN r = Fields /\ Renexted(kk, r, v)
  BY <1>1 DEF Fields, Renexted
<1> HIDE DEF r
<1>3. ListsOK(r)
  BY <1>2 DEF Shape, ListsOK, Renexted
<1>4. Numbers(r)
  BY <1>2 DEF Shape, Numbers, Renexted
<1> QED
  BY <1>2, <1>3, <1>4 DEF Shape, r

(* vTaskIncrementTick advances the tick and then checks the delayed list. *)
LEMMA IncrementIs ==
  ASSUME NEW kk
  PROVE  vTaskIncrementTick(kk) = prvCheckDelayedTasks(Advanced(kk))
  BY DEF vTaskIncrementTick, Advanced, Counted, Swapped

(* The tick advances without a wrap. *)
LEMMA AdvancedPlain ==
  ASSUME NEW kk, Shape(kk), kk.tick # W - 1
  PROVE  LET r == Advanced(kk) IN
         /\ Shape(r) /\ SameTasks(kk, r) /\ OneLess(kk, r)
         /\ r.tick = kk.tick + 1
         /\ r.delayed = kk.delayed /\ r.overflow = kk.overflow
         /\ r.entered = kk.entered /\ r.next = kk.next
<1> DEFINE r == Counted(kk, kk.tick + 1)
<1>1. DOMAIN kk = Fields /\ kk.tick \in 0 .. W - 1 /\ W \in Nat /\ kk.due \in [AllTasks -> Int]
  BY DEF Shape, Numbers
<1>2. kk.tick + 1 \in 1 .. W - 1
  BY <1>1
<1>3. (kk.tick + 1) % W = kk.tick + 1
  BY <1>1, <1>2
<1>4. Advanced(kk) = r
  BY <1>2, <1>3 DEF Advanced
<1>5. /\ DOMAIN r = Fields /\ SameTasks(kk, r) /\ r.tick = kk.tick + 1
      /\ r.delayed = kk.delayed /\ r.overflow = kk.overflow
      /\ r.entered = kk.entered /\ r.next = kk.next
      /\ r.due = [t \in AllTasks |-> IF kk.due[t] > -MaxLate THEN kk.due[t] - 1 ELSE kk.due[t]]
  BY <1>1 DEF Fields, SameTasks, Counted
<1> HIDE DEF r
<1>6. OneLess(kk, r) /\ r.due \in [AllTasks -> Int]
  BY <1>1, <1>5 DEF OneLess
<1>7. ListsOK(r)
  BY <1>5 DEF Shape, ListsOK, SameTasks
<1>8. Numbers(r)
  BY <1>1, <1>2, <1>5, <1>6 DEF Shape, Numbers, SameTasks
<1>9. Shape(r)
  BY <1>5, <1>7, <1>8 DEF Shape
<1> QED
  BY <1>4, <1>5, <1>6, <1>9

(* The tick wraps and the two delayed lists are swapped. *)
LEMMA AdvancedWraps ==
  ASSUME NEW kk, Shape(kk), kk.tick = W - 1
  PROVE  LET r == Advanced(kk) IN
         /\ Shape(r) /\ SameTasks(kk, r) /\ OneLess(kk, r)
         /\ r.tick = 0
         /\ r.delayed = kk.overflow /\ r.overflow = kk.delayed
         /\ \A t \in AllTasks : r.entered[t].tick = kk.entered[t].tick /\ r.entered[t].wrapped = TRUE
         /\ kk.overflow # <<>> => r.next = kk.wake[Head(kk.overflow)]
<1> DEFINE a == Counted(kk, 0)
           v == IF a.overflow = <<>> THEN portMAX_DELAY ELSE a.wake[Head(a.overflow)]
           r == Swapped(a)
<1>1. DOMAIN kk = Fields /\ W \in Nat /\ W > 2 /\ kk.due \in [AllTasks -> Int]
      /\ kk.wake \in [AllTasks -> 0 .. W - 1]
      /\ kk.entered \in [AllTasks -> [tick : 0 .. W - 1, wrapped : BOOLEAN]]
  BY DEF Shape, Numbers
<1>2. (kk.tick + 1) % W = 0
  BY <1>1
<1>3. Advanced(kk) = r
  BY <1>2 DEF Advanced
<1>4. /\ DOMAIN a = Fields /\ SameTasks(kk, a) /\ a.tick = 0
      /\ a.delayed = kk.delayed /\ a.overflow = kk.overflow
      /\ a.entered = kk.entered
      /\ a.due = [t \in AllTasks |-> IF kk.due[t] > -MaxLate THEN kk.due[t] - 1 ELSE kk.due[t]]
  BY <1>1 DEF Fields, SameTasks, Counted
<1> HIDE DEF a
<1>5. v \in 0 .. W - 1 /\ (kk.overflow # <<>> => v = kk.wake[Head(kk.overflow)])
  <2>1. a.wake = kk.wake
    BY <1>4 DEF SameTasks
  <2>2. CASE kk.overflow = <<>>
    BY <1>1, <1>4, <2>2 DEF portMAX_DELAY
  <2>3. CASE kk.overflow # <<>>
    <3>1. Head(kk.overflow) \in AllTasks
      BY <2>3, HeadFacts DEF Shape, ListsOK
    <3> QED
      BY <1>1, <1>4, <2>1, <2>3, <3>1
  <2> QED
    BY <2>2, <2>3
<1>a. r = [a EXCEPT !.delayed = a.overflow, !.overflow = a.delayed,
                      !.entered = [t \in AllTasks |-> [@[t] EXCEPT !.wrapped = TRUE]],
                      !.next = v]
  BY DEF Swapped
<1> HIDE DEF v, r
<1>6. /\ DOMAIN r = Fields /\ r.tick = 0 /\ r.due = a.due
      /\ r.delayed = kk.overflow /\ r.overflow = kk.delayed
      /\ r.entered = [t \in AllTasks |-> [kk.entered[t] EXCEPT !.wrapped = TRUE]]
      /\ r.next = v
  BY <1>4, <1>a DEF Fields
<1>7. SameTasks(a, r)
  BY <1>4, <1>a DEF Fields, SameTasks
<1>8. SameTasks(kk, r)
  BY <1>4, <1>7 DEF SameTasks
<1>9. OneLess(kk, r) /\ r.due \in [AllTasks -> Int]
  BY <1>1, <1>4, <1>6 DEF OneLess
<1>10. /\ r.entered \in [AllTasks -> [tick : 0 .. W - 1, wrapped : BOOLEAN]]
       /\ \A t \in AllTasks : r.entered[t].tick = kk.entered[t].tick /\ r.entered[t].wrapped = TRUE
  <2>1. ASSUME NEW t \in AllTasks
        PROVE  /\ r.entered[t] \in [tick : 0 .. W - 1, wrapped : BOOLEAN]
               /\ r.entered[t].tick = kk.entered[t].tick /\ r.entered[t].wrapped = TRUE
    <3>1. kk.entered[t] \in [tick : 0 .. W - 1, wrapped : BOOLEAN]
      BY <1>1
    <3>2. r.entered[t] = [kk.entered[t] EXCEPT !.wrapped = TRUE]
      BY <1>6
    <3> QED
      BY ONLY <3>1, <3>2
  <2> QED
    BY <1>6, <2>1
<1>11. ListsOK(r)
  BY <1>6, <1>8 DEF Shape, ListsOK, SameTasks
<1>12. 0 \in 0 .. W - 1
  BY <1>1
<1>13. Numbers(r)
  BY <1>5, <1>6, <1>8, <1>9, <1>10, <1>12 DEF Shape, Numbers, SameTasks
<1>14. Shape(r)
  BY <1>6, <1>11, <1>13 DEF Shape
<1> QED
  BY <1>3, <1>5, <1>6, <1>8, <1>9, <1>10, <1>14

(* Two tasks in an order are in the list. *)
LEMMA BeforeIn ==
  ASSUME NEW s \in Seq(AllTasks), NEW u, NEW v, Before(s, u, v)
  PROVE  u \in ToSet(s) /\ v \in ToSet(s)
  BY ToSetIs DEF Before

(* A list is a sequence of tasks. *)
LEMMA ListIn ==
  ASSUME NEW s, List(s)
  PROVE  ToSet(s) \subseteq AllTasks /\ s \in Seq(AllTasks)
  BY ToSetIs DEF List

(* Values of the items that stay. *)
LEMMA ThinnedOrdered ==
  ASSUME NEW s, NEW r, NEW S, Thinned(r, s, S), NEW v, NEW w, Ordered(s, v),
         \A t \in AllTasks \ S : w[t] = v[t]
  PROVE  Ordered(r, w)
<1> SUFFICES ASSUME NEW a \in AllTasks, NEW b \in AllTasks, Before(r, a, b)
             PROVE  w[a] <= w[b]
  BY DEF Ordered
<1>1. a \in ToSet(r) /\ b \in ToSet(r)
  BY BeforeIn DEF Thinned, List
<1>2. w[a] = v[a] /\ w[b] = v[b]
  BY <1>1 DEF Thinned
<1>3. v[a] <= v[b]
  BY DEF Ordered, Thinned
<1> QED
  BY <1>2, <1>3

(* prvCheckDelayedTasks readies tasks that are due, and leaves none in the list. *)
LEMMA CheckFacts ==
  ASSUME NEW kk, Shape(kk), Apart(kk), AlmostOK(kk), ~kk.suspended
  PROVE  \E r : /\ r = prvCheckDelayedTasks(kk)
                /\ Shape(r) /\ Apart(r) /\ DelayedOK(r)
                /\ r.tick = kk.tick /\ r.entered = kk.entered /\ r.due = kk.due
                /\ \E S : S \subseteq ToSet(kk.delayed) /\ Moved(kk, r, S)
<1>1. /\ kk.tick \in 0 .. W - 1 /\ kk.next \in 0 .. W - 1 /\ kk.due \in [AllTasks -> Int]
      /\ kk.wake \in [AllTasks -> 0 .. W - 1] /\ W \in Nat
  BY DEF Shape, Numbers
<1>2. CASE kk.tick < kk.next
  <2>1. prvCheckDelayedTasks(kk) = kk
    BY <1>2 DEF prvCheckDelayedTasks
  <2>2. DelayedOK(kk)
    <3>1. ASSUME NEW t \in ToSet(kk.delayed)
          PROVE  kk.due[t] > 0
      <4>1. t \in AllTasks
        BY ListIn DEF Shape, ListsOK
      <4>2. kk.due[t] = kk.wake[t] - kk.tick /\ kk.next <= kk.wake[t]
        BY DEF AlmostOK
      <4> QED
        BY <1>1, <1>2, <4>1, <4>2
    <3> QED
      BY <3>1 DEF AlmostOK, DelayedOK
  <2>3. Moved(kk, kk, {})
    BY ReadiedNone, ReadiedMoved
  <2>4. {} \subseteq ToSet(kk.delayed)
    OBVIOUS
  <2> QED
    BY <2>1, <2>2, <2>3, <2>4
<1>3. CASE ~(kk.tick < kk.next)
  <2> DEFINE s == kk.delayed
             n == NotAbove(s, kk.wake, kk.tick)
             w == WakeEach(kk, s, n)
             v == IF n = Len(s) THEN portMAX_DELAY ELSE kk.wake[s[n + 1]]
             r == [w EXCEPT !.next = v]
             S == FirstOf(s, n)
  <2>1. s \in Seq(AllTasks) /\ List(s) /\ Len(s) \in Nat /\ \A i \in 1 .. Len(s) : s[i] \in AllTasks
    <3>1. List(s)
      BY DEF Shape, ListsOK
    <3>2. s \in Seq(AllTasks)
      BY <3>1 DEF List
    <3> QED
      BY <3>1, <3>2
  <2>2. \A t \in AllTasks : kk.wake[t] \in Int
    BY <1>1
  <2>3. /\ n \in 0 .. Len(s)
        /\ \A i \in 1 .. n : kk.wake[s[i]] <= kk.tick
        /\ n < Len(s) => kk.wake[s[n + 1]] > kk.tick
    <3>1. kk.tick \in Int
      BY <1>1
    <3> QED
      BY <2>1, <2>2, <3>1, NotAboveFacts
  <2>4. prvCheckDelayedTasks(kk) = r
    BY <1>3 DEF prvCheckDelayedTasks
  <2> HIDE DEF s, n
  <2>5. Readied(kk, w, S)
    BY <2>1, <2>3, WakeEachReadies DEF Apart
  <2>6. S \subseteq ToSet(s)
    <3>1. \A i \in 1 .. n : i \in 1 .. Len(s)
      BY <2>1, <2>3
    <3> QED
      BY <2>1, <3>1, ToSetIs DEF FirstOf
  <2>7. v \in 0 .. W - 1
    <3>1. CASE n = Len(s)
      BY <1>1, <3>1 DEF portMAX_DELAY
    <3>2. CASE n # Len(s)
      <4>1. n + 1 \in 1 .. Len(s)
        BY <2>1, <2>3, <3>2
      <4>2. s[n + 1] \in AllTasks
        BY <2>1, <4>1
      <4> QED
        BY <1>1, <3>2, <4>2
    <3> QED
      BY <3>1, <3>2
  <2> HIDE DEF w
  <2>8. ASSUME NEW t \in ToSet(s) \ S
        PROVE  kk.wake[t] > kk.tick /\ v <= kk.wake[t]
    <3>1. PICK i \in 1 .. Len(s) : s[i] = t
      BY <2>1, ToSetIs
    <3>2. ~(i \in 1 .. n)
      BY <2>8, <3>1 DEF FirstOf
    <3>3. n + 1 \in 1 .. Len(s) /\ n < Len(s) /\ n # Len(s) /\ n + 1 <= i
      BY <2>1, <2>3, <3>2
    <3>4. v = kk.wake[s[n + 1]] /\ v > kk.tick
      BY <2>3, <3>3
    <3>5. s[n + 1] \in AllTasks /\ t \in AllTasks
      BY <2>1, <3>1, <3>3
    <3>6. kk.wake[s[n + 1]] <= kk.wake[t]
      <4>1. CASE n + 1 = i
        BY <1>1, <3>1, <3>5, <4>1
      <4>2. CASE n + 1 < i
        <5>1. Before(s, s[n + 1], t)
          BY <3>1, <3>3, <4>2 DEF Before
        <5> QED
          BY <3>5, <5>1 DEF AlmostOK, Ordered, s
      <4> QED
        BY <2>1, <2>3, <3>3, <4>1, <4>2
    <3>7. kk.wake[t] \in Int /\ kk.wake[s[n + 1]] \in Int /\ kk.tick \in Int
      BY <1>1, <3>5
    <3> QED
      BY <3>4, <3>6, <3>7
  <2> HIDE DEF v, S
  <2>9. Shape(r) /\ Renexted(w, r, v)
    BY <2>5, <2>7, NextFacts DEF Readied
  <2> HIDE DEF r
  <2>10. Apart(w) /\ Moved(kk, w, S)
    BY <2>5, ReadiedApart, ReadiedMoved
  <2>11. Apart(r)
    BY <2>9, <2>10 DEF Apart, Renexted, Ready, ReadyAt
  <2>12. Moved(kk, r, S)
    BY <2>9, <2>10 DEF Moved, Renexted, Ready, Slept, Thins
  <2>13. r.tick = kk.tick /\ r.entered = kk.entered /\ r.due = kk.due /\ r.next = v
    BY <2>5, <2>9 DEF Readied, SameFixed, Renexted
  <2>14. Thinned(r.delayed, s, S) /\ Thinned(r.overflow, kk.overflow, S)
         /\ \A t \in AllTasks \ S : r.wake[t] = kk.wake[t]
    BY <2>5, <2>9 DEF Readied, Renexted, s
  <2>15. DelayedOK(r)
    <3>1. Ordered(r.delayed, r.wake) /\ Ordered(r.overflow, r.wake)
      BY <2>14, ThinnedOrdered DEF AlmostOK, s
    <3>2. ASSUME NEW t \in ToSet(r.delayed)
          PROVE  r.due[t] = r.wake[t] - r.tick /\ r.due[t] > 0 /\ r.next <= r.wake[t]
      <4>1. t \in ToSet(s) \ S
        BY <2>14 DEF Thinned
      <4>2. t \in AllTasks
        BY <2>1, <4>1, ToSetIs
      <4>3. r.wake[t] = kk.wake[t]
        BY <2>14, <4>1, <4>2
      <4>4. kk.due[t] = kk.wake[t] - kk.tick
        BY <4>1 DEF AlmostOK, s
      <4>5. kk.wake[t] \in Int /\ kk.tick \in Int
        BY <1>1, <4>2
      <4> QED
        BY <2>8, <2>13, <4>1, <4>3, <4>4, <4>5
    <3>3. ASSUME NEW t \in ToSet(r.overflow)
          PROVE  r.due[t] = W + r.wake[t] - r.tick
      <4>1. t \in ToSet(kk.overflow) \ S
        BY <2>14 DEF Thinned
      <4>2. t \in AllTasks
        BY <4>1, ListIn DEF Shape, ListsOK
      <4> QED
        BY <2>13, <2>14, <4>1, <4>2 DEF AlmostOK
    <3> QED
      BY <3>1, <3>2, <3>3 DEF DelayedOK
  <2> QED
    BY <2>4, <2>6, <2>9, <2>11, <2>12, <2>13, <2>15 DEF s
<1> QED
  BY <1>2, <1>3

(* One tick. *)
LEMMA AdvancedFacts ==
  ASSUME NEW kk, Shape(kk), Apart(kk), DelayedOK(kk)
  PROVE  LET r == Advanced(kk) IN
         /\ Shape(r) /\ Apart(r) /\ AlmostOK(r) /\ SameTasks(kk, r) /\ OneLess(kk, r)
         /\ Slept(r) = Slept(kk)
<1> DEFINE r == Advanced(kk)
<1>1. /\ kk.tick \in 0 .. W - 1 /\ kk.next \in 0 .. W - 1 /\ kk.due \in [AllTasks -> Int]
      /\ kk.wake \in [AllTasks -> 0 .. W - 1] /\ W \in Nat /\ W > 2 /\ MaxLate \in Nat
  BY DEF Shape, Numbers
<1>2. ToSet(kk.delayed) \subseteq AllTasks /\ ToSet(kk.overflow) \subseteq AllTasks
  BY ListIn DEF Shape, ListsOK
<1>3. \A t \in ToSet(kk.delayed) :
         kk.due[t] = kk.wake[t] - kk.tick /\ kk.due[t] > 0 /\ kk.next <= kk.wake[t]
  BY DEF DelayedOK
<1>4. \A t \in ToSet(kk.overflow) : kk.due[t] = W + kk.wake[t] - kk.tick
  BY DEF DelayedOK
<1>5. CASE kk.tick # W - 1
  <2>1. /\ Shape(r) /\ SameTasks(kk, r) /\ OneLess(kk, r)
        /\ r.tick = kk.tick + 1
        /\ r.delayed = kk.delayed /\ r.overflow = kk.overflow
        /\ r.entered = kk.entered /\ r.next = kk.next
    BY <1>5, AdvancedPlain
  <2> HIDE DEF r
  <2>2. Apart(r) /\ Slept(r) = Slept(kk)
    BY <2>1 DEF Apart, SameTasks, Ready, ReadyAt, Slept
  <2>3. ASSUME NEW t \in ToSet(kk.delayed)
        PROVE  r.due[t] = r.wake[t] - r.tick /\ r.due[t] >= 0 /\ r.next <= r.wake[t]
    <3>1. t \in AllTasks /\ r.due[t] = (IF kk.due[t] > -MaxLate THEN kk.due[t] - 1 ELSE kk.due[t])
          /\ r.wake = kk.wake
      BY <1>2, <2>1 DEF OneLess, SameTasks
    <3>2. kk.due[t] \in Int /\ kk.wake[t] \in Int /\ kk.due[t] = kk.wake[t] - kk.tick /\ kk.due[t] > 0
      BY <1>1, <1>3, <3>1
    <3> QED
      BY <1>1, <1>3, <2>1, <3>1, <3>2
  <2>4. ASSUME NEW t \in ToSet(kk.overflow)
        PROVE  r.due[t] = W + r.wake[t] - r.tick
    <3>1. t \in AllTasks /\ r.due[t] = (IF kk.due[t] > -MaxLate THEN kk.due[t] - 1 ELSE kk.due[t])
          /\ r.wake = kk.wake
      BY <1>2, <2>1 DEF OneLess, SameTasks
    <3>2. kk.due[t] \in Int /\ kk.wake[t] \in 0 .. W - 1 /\ kk.due[t] = W + kk.wake[t] - kk.tick
      BY <1>1, <1>4, <3>1
    <3> QED
      BY <1>1, <2>1, <3>1, <3>2
  <2>5. Ordered(r.delayed, r.wake) /\ Ordered(r.overflow, r.wake)
    BY <2>1 DEF DelayedOK, SameTasks
  <2>6. AlmostOK(r)
    BY <2>1, <2>3, <2>4, <2>5 DEF AlmostOK
  <2> QED
    BY <2>1, <2>2, <2>6 DEF r
<1>6. CASE kk.tick = W - 1
  <2>1. /\ Shape(r) /\ SameTasks(kk, r) /\ OneLess(kk, r)
        /\ r.tick = 0
        /\ r.delayed = kk.overflow /\ r.overflow = kk.delayed
        /\ kk.overflow # <<>> => r.next = kk.wake[Head(kk.overflow)]
    BY <1>6, AdvancedWraps
  <2> HIDE DEF r
  <2>2. Apart(r) /\ Slept(r) = Slept(kk)
    BY <2>1 DEF Apart, SameTasks, Ready, ReadyAt, Slept
  <2>3. ToSet(kk.delayed) = {}
    <3> SUFFICES ASSUME NEW t \in ToSet(kk.delayed)
                 PROVE  FALSE
      OBVIOUS
    <3>1. t \in AllTasks /\ kk.due[t] = kk.wake[t] - kk.tick /\ kk.due[t] > 0 /\ kk.wake[t] \in 0 .. W - 1
      BY <1>1, <1>2, <1>3
    <3> QED
      BY <1>1, <1>6, <3>1
  <2>4. ASSUME NEW t \in ToSet(r.delayed)
        PROVE  r.due[t] = r.wake[t] - r.tick /\ r.due[t] >= 0 /\ r.next <= r.wake[t]
    <3>1. t \in AllTasks /\ r.due[t] = (IF kk.due[t] > -MaxLate THEN kk.due[t] - 1 ELSE kk.due[t])
          /\ r.wake = kk.wake /\ t \in ToSet(kk.overflow)
      BY <1>2, <2>1, <2>4 DEF OneLess, SameTasks
    <3>2. kk.due[t] \in Int /\ kk.wake[t] \in 0 .. W - 1 /\ kk.due[t] = W + kk.wake[t] - kk.tick
      BY <1>1, <1>4, <3>1
    <3>3. r.due[t] = r.wake[t] - r.tick /\ r.due[t] >= 0
      BY <1>1, <1>6, <2>1, <3>1, <3>2
    <3>4. List(kk.overflow) /\ kk.overflow # <<>>
      BY <3>1, EmptyList DEF Shape, ListsOK
    <3>5. kk.wake[Head(kk.overflow)] <= kk.wake[t]
      <4>1. CASE t = Head(kk.overflow)
        BY <3>2, <4>1
      <4>2. CASE t # Head(kk.overflow)
        <5>1. Before(kk.overflow, Head(kk.overflow), t) /\ Head(kk.overflow) \in AllTasks
          BY <3>1, <3>4, <4>2, HeadFacts
        <5> QED
          BY <3>1, <5>1 DEF DelayedOK, Ordered
      <4> QED
        BY <4>1, <4>2
    <3> QED
      BY <2>1, <3>1, <3>3, <3>4, <3>5
  <2>5. Ordered(r.delayed, r.wake) /\ Ordered(r.overflow, r.wake)
    BY <2>1 DEF DelayedOK, SameTasks
  <2>6. AlmostOK(r)
    BY <2>1, <2>3, <2>4, <2>5 DEF AlmostOK
  <2> QED
    BY <2>1, <2>2, <2>6 DEF r
<1> QED
  BY <1>5, <1>6

(* The time since a wait was entered grows with the tick, across the wrap. *)
LEMMA AdvancedTime ==
  ASSUME NEW kk, Shape(kk), NEW t \in AllTasks, NEW w \in Nat, NEW m \in Nat,
         1 <= m, w + MaxLate <= W, TimedAt(kk, w, t, m)
  PROVE  TimedAt(Advanced(kk), w, t, m - 1)
<1> DEFINE r == Advanced(kk)
           e == kk.entered[t].tick
<1>1. /\ kk.tick \in 0 .. W - 1 /\ kk.due[t] \in Int /\ e \in 0 .. W - 1
      /\ kk.entered[t].wrapped \in BOOLEAN /\ W \in Nat /\ W > 2 /\ MaxLate \in Nat
  BY DEF Shape, Numbers
<1>2. kk.due[t] = w - Elapsed(kk, t) /\ Elapsed(kk, t) >= 0 /\ kk.due[t] - m >= -MaxLate
  BY DEF TimedAt
<1>3. Elapsed(kk, t) = kk.tick - e + (IF kk.entered[t].wrapped THEN W ELSE 0)
  BY DEF Elapsed
<1>4. Elapsed(kk, t) \in Int
  BY <1>1, <1>3
<1> HIDE DEF e
<1>5. CASE kk.tick # W - 1
  <2>1. OneLess(kk, r) /\ r.tick = kk.tick + 1 /\ r.entered = kk.entered
    BY <1>5, AdvancedPlain
  <2> HIDE DEF r
  <2>2. r.due[t] = kk.due[t] - 1
    BY <1>1, <1>2, <2>1 DEF OneLess
  <2>3. Elapsed(r, t) = Elapsed(kk, t) + 1
    <3>1. Elapsed(r, t) = kk.tick + 1 - e + (IF kk.entered[t].wrapped THEN W ELSE 0)
      <4>1. Elapsed(r, t) = r.tick - r.entered[t].tick + (IF r.entered[t].wrapped THEN W ELSE 0)
        BY DEF Elapsed
      <4>2. r.entered[t].tick = e
        BY <2>1 DEF e
      <4> QED
        BY <1>1, <2>1, <4>1, <4>2
    <3> QED
      BY <1>1, <1>3, <3>1
  <2> QED
    <3>1. TimedAt(r, w, t, m - 1)
      BY <1>1, <1>2, <1>4, <2>2, <2>3 DEF TimedAt
    <3> QED
      BY <3>1 DEF r
<1>6. CASE kk.tick = W - 1
  <2>1. OneLess(kk, r) /\ r.tick = 0 /\ r.entered[t].tick = e /\ r.entered[t].wrapped = TRUE
    BY <1>6, AdvancedWraps DEF e
  <2>2. r.due[t] = kk.due[t] - 1
    BY <1>1, <1>2, <2>1 DEF OneLess
  <2>3. Elapsed(kk, t) < W
    BY <1>1, <1>2, <1>4
  <2>4. kk.entered[t].wrapped = FALSE
    BY <1>1, <1>3, <1>6, <2>3
  <2>5. Elapsed(r, t) = 0 - e + W
    BY <2>1 DEF Elapsed
  <2>6. Elapsed(r, t) = Elapsed(kk, t) + 1
    BY <1>1, <1>3, <1>6, <2>4, <2>5
  <2> QED
    BY <1>1, <1>2, <1>4, <2>2, <2>6 DEF TimedAt
<1> QED
  BY <1>5, <1>6

(* One tick keeps the lists, and the times of the waits, right. *)
LEMMA TickFacts ==
  ASSUME NEW kk, Shape(kk), Apart(kk), DelayedOK(kk), ~kk.suspended
  PROVE  Ticks(kk, vTaskIncrementTick(kk), 1)
<1> DEFINE a == Advanced(kk)
<1>1. /\ Shape(a) /\ Apart(a) /\ AlmostOK(a) /\ SameTasks(kk, a) /\ OneLess(kk, a)
      /\ Slept(a) = Slept(kk)
  BY AdvancedFacts
<1>2. ASSUME NEW t \in AllTasks, NEW w \in Nat, NEW m \in Nat,
             1 <= m, w + MaxLate <= W, TimedAt(kk, w, t, m)
      PROVE  TimedAt(a, w, t, m - 1)
  BY <1>2, AdvancedTime
<1>3. vTaskIncrementTick(kk) = prvCheckDelayedTasks(a)
  BY IncrementIs
<1> HIDE DEF a
<1>4. ~a.suspended
  BY <1>1 DEF SameTasks
<1>5. PICK r : /\ r = prvCheckDelayedTasks(a)
                /\ Shape(r) /\ Apart(r) /\ DelayedOK(r)
                /\ r.tick = a.tick /\ r.entered = a.entered /\ r.due = a.due
                /\ \E S : S \subseteq ToSet(a.delayed) /\ Moved(a, r, S)
  BY <1>1, <1>4, CheckFacts
<1>6. PICK S : S \subseteq ToSet(a.delayed) /\ Moved(a, r, S)
  BY <1>5
<1>7. S \subseteq Slept(kk)
  BY <1>1, <1>6 DEF Slept
<1>8. Moved(kk, r, S)
  <2>1. Thins(kk, r, S)
    BY <1>1, <1>6 DEF Moved, Thins, SameTasks
  <2>2. \A t \in AllTasks : Ready(a, t) <=> Ready(kk, t)
    BY <1>1 DEF Ready, SameTasks
  <2> QED
    BY <1>1, <1>6, <2>1, <2>2 DEF Moved, SameTasks
<1>9. \A t \in AllTasks : r.due[t] <= kk.due[t]
  <2>1. \A t \in AllTasks : kk.due[t] \in Int
    BY DEF Shape, Numbers
  <2> QED
    BY <1>1, <1>5, <2>1 DEF OneLess
<1>10. \A t \in AllTasks, w \in Nat, m \in Nat :
         1 <= m /\ w + MaxLate <= W /\ TimedAt(kk, w, t, m) => TimedAt(r, w, t, m - 1)
  BY <1>2, <1>5 DEF TimedAt, Elapsed
<1>11. Ticks(kk, r, 1)
  BY <1>5, <1>7, <1>8, <1>9, <1>10 DEF Ticks
<1> QED
  BY <1>3, <1>5, <1>11

(* Flags keep the shape of the scheduler. *)
LEMMA SameListsShape ==
  ASSUME NEW kk, NEW r, Shape(kk), SameLists(kk, r), FlagsOK(r)
  PROVE  Shape(r)
<1>1. Numbers(r)
  BY DEF Shape, Numbers, SameLists, FlagsOK
<1>2. ListsOK(r)
  BY DEF Shape, ListsOK, SameLists
<1> QED
  BY <1>1, <1>2 DEF Shape, FlagsOK

(* Flags keep the lists right. *)
LEMMA SameListsKeep ==
  ASSUME NEW kk, NEW r, SameLists(kk, r)
  PROVE  /\ Apart(kk) => Apart(r)
         /\ DelayedOK(kk) => DelayedOK(r)
         /\ \A t : Ready(r, t) <=> Ready(kk, t)
         /\ Slept(r) = Slept(kk)
         /\ \A w, t, m : TimedAt(kk, w, t, m) <=> TimedAt(r, w, t, m)
<1>1. \A t : Ready(r, t) <=> Ready(kk, t)
  BY DEF Ready, SameLists
<1>2. Slept(r) = Slept(kk)
  BY DEF Slept, SameLists
<1>3. Apart(kk) => Apart(r)
  BY <1>1 DEF Apart, ReadyAt, SameLists
<1>4. DelayedOK(kk) => DelayedOK(r)
  BY DEF DelayedOK, SameLists
<1>5. \A w, t, m : TimedAt(kk, w, t, m) <=> TimedAt(r, w, t, m)
  BY DEF TimedAt, Elapsed, SameLists
<1> QED
  BY <1>1, <1>2, <1>3, <1>4, <1>5

-----------------------------------------------------------------------------

(* The loop over the missed ticks. *)
LEMMA TicksZero ==
  ASSUME NEW kk, Shape(kk), Apart(kk), DelayedOK(kk)
  PROVE  Ticks(kk, kk, 0)
<1>1. Moved(kk, kk, {})
  BY ReadiedNone, ReadiedMoved
<1>2. \A t \in AllTasks : kk.due[t] <= kk.due[t]
  BY DEF Shape, Numbers
<1>3. \A m \in Nat : m - 0 = m
  OBVIOUS
<1>4. {} \subseteq Slept(kk)
  OBVIOUS
<1>5. \A t \in AllTasks, w \in Nat, m \in Nat :
       0 <= m /\ w + MaxLate <= W /\ TimedAt(kk, w, t, m) => TimedAt(kk, w, t, m - 0)
  BY <1>3
<1> QED
  BY <1>1, <1>2, <1>4, <1>5 DEF Ticks

(* One more tick. *)
LEMMA TicksMore ==
  ASSUME NEW kk, NEW r, NEW s, NEW n \in Nat, Shape(kk), Ticks(kk, r, n), Ticks(r, s, 1)
  PROVE  Ticks(kk, s, n + 1)
<1>1. PICK S : S \subseteq Slept(kk) /\ Moved(kk, r, S)
  BY DEF Ticks
<1>2. PICK T : T \subseteq Slept(r) /\ Moved(r, s, T)
  BY DEF Ticks
<1>3. Moved(kk, s, S \cup T)
  BY <1>1, <1>2, MovedTwice
<1>4. S \cup T \subseteq Slept(kk)
  BY <1>1, <1>2 DEF Moved
<1>5. ASSUME NEW t \in AllTasks
      PROVE  s.due[t] <= kk.due[t]
  <2>1. s.due[t] \in Int /\ r.due[t] \in Int /\ kk.due[t] \in Int
    BY DEF Ticks, Shape, Numbers
  <2>2. s.due[t] <= r.due[t] /\ r.due[t] <= kk.due[t]
    BY DEF Ticks
  <2> QED
    BY <2>1, <2>2
<1>6. ASSUME NEW t \in AllTasks, NEW w \in Nat, NEW m \in Nat,
             n + 1 <= m, w + MaxLate <= W, TimedAt(kk, w, t, m)
      PROVE  TimedAt(s, w, t, m - (n + 1))
  <2>1. n <= m /\ m - n \in Nat /\ 1 <= m - n /\ (m - n) - 1 = m - (n + 1)
    BY <1>6
  <2>2. TimedAt(r, w, t, m - n)
    BY <1>6, <2>1 DEF Ticks
  <2>3. TimedAt(s, w, t, (m - n) - 1)
    BY <1>6, <2>1, <2>2 DEF Ticks
  <2> QED
    BY <2>1, <2>3
<1> QED
  BY <1>3, <1>4, <1>5, <1>6 DEF Ticks

(* The recursive function of xTaskResumeAll exists. *)
LEMMA TickingExists ==
  ASSUME NEW kk, NEW n \in Nat
  PROVE  \E f : Ticking(f, kk, n)
<1> DEFINE B == {i \in Nat : ~ \E f : Ticking(f, kk, i)}
<1> SUFFICES ASSUME B # {}
             PROVE  FALSE
  OBVIOUS
<1>1. PICK b \in B : \A i \in B : b <= i
  <2>1. B \subseteq Nat
    OBVIOUS
  <2> QED
    BY <2>1, LeastOf
<1>2. b \in Nat /\ ~ \E f : Ticking(f, kk, b)
  OBVIOUS
<1>3. CASE b = 0
  <2> DEFINE f == [i \in 0 .. 0 |-> kk]
  <2>1. f = [i \in 0 .. 0 |-> IF i = 0 THEN kk ELSE vTaskIncrementTick(f[i - 1])]
    OBVIOUS
  <2>2. Ticking(f, kk, 0)
    BY <2>1 DEF Ticking
  <2> QED
    BY <1>2, <1>3, <2>2
<1>4. CASE b > 0
  <2>1. b - 1 \in Nat /\ ~(b <= b - 1)
    BY <1>2, <1>4
  <2>2. b - 1 \notin B
    BY <1>1, <2>1
  <2>3. PICK f : Ticking(f, kk, b - 1)
    BY <2>1, <2>2
  <2> DEFINE g == [i \in 0 .. b |-> IF i = b THEN vTaskIncrementTick(f[b - 1]) ELSE f[i]]
             h == [i \in 0 .. b |-> IF i = 0 THEN kk ELSE vTaskIncrementTick(g[i - 1])]
  <2>4. \A i \in 0 .. b - 1 : f[i] = IF i = 0 THEN kk ELSE vTaskIncrementTick(f[i - 1])
    BY <2>3 DEF Ticking
  <2>5. \A i \in 0 .. b : g[i] = h[i]
    <3> SUFFICES ASSUME NEW i \in 0 .. b
                 PROVE  g[i] = h[i]
      OBVIOUS
    <3>1. CASE i = 0
      <4>1. i # b /\ i \in 0 .. b - 1
        BY <1>2, <1>4, <3>1
      <4> QED
        BY <2>4, <3>1, <4>1
    <3>2. CASE i # 0
      <4>1. i - 1 \in 0 .. b /\ i - 1 # b
        BY <1>2, <3>2
      <4>2. g[i - 1] = f[i - 1]
        BY <4>1
      <4>3. CASE i = b
        BY <3>2, <4>2, <4>3
      <4>4. CASE i # b
        <5>1. i \in 0 .. b - 1
          BY <1>2, <4>4
        <5> QED
          BY <2>4, <3>2, <4>2, <4>4, <5>1
      <4> QED
        BY <4>3, <4>4
    <3> QED
      BY <3>1, <3>2
  <2>6. g = h
    BY <2>5
  <2>7. Ticking(g, kk, b)
    BY <2>6 DEF Ticking
  <2> QED
    BY <1>2, <2>7
<1> QED
  BY <1>2, <1>3, <1>4

(* The loop over the missed ticks processes one tick after the other. *)
LEMMA TickingFacts ==
  ASSUME NEW kk
  PROVE  \E f : TicksBy(f, kk)
<1> DEFINE f == CHOOSE f : Ticking(f, kk, MaxMissed)
<1>1. Ticking(f, kk, MaxMissed) /\ MaxMissed \in Nat
  BY TickingExists
<1>2. f = CHOOSE g : g = [i \in 0 .. MaxMissed |-> IF i = 0 THEN kk ELSE vTaskIncrementTick(g[i - 1])]
  BY DEF Ticking
<1>3. \A i \in 0 .. MaxMissed : f[i] = AfterTicks(kk, i)
  BY <1>2 DEF AfterTicks
<1> HIDE DEF f
<1>4. f[0] = kk
  BY <1>1 DEF Ticking
<1>5. \A i \in 1 .. MaxMissed : f[i] = vTaskIncrementTick(f[i - 1])
  BY <1>1 DEF Ticking
<1>6. TicksBy(f, kk)
  BY <1>3, <1>4, <1>5 DEF TicksBy
<1> QED
  BY <1>6

(* The loop over the missed ticks keeps the lists right. *)
LEMMA TickedFacts ==
  ASSUME NEW kk, Shape(kk), Apart(kk), DelayedOK(kk), ~kk.suspended, NEW n \in 0 .. MaxMissed
  PROVE  Ticks(kk, AfterTicks(kk, n), n) /\ (n = 0 => AfterTicks(kk, n) = kk)
<1>1. PICK f : TicksBy(f, kk)
  BY TickingFacts
<1> DEFINE B == {i \in Nat : i <= n /\ ~Ticks(kk, f[i], i)}
<1>2. n \in Nat /\ n <= MaxMissed /\ MaxMissed \in Nat
  OBVIOUS
<1>3. ASSUME B # {}
      PROVE  FALSE
  <2>1. PICK b \in B : \A i \in B : b <= i
    <3>1. B \subseteq Nat
      OBVIOUS
    <3> QED
      BY <1>3, <3>1, LeastOf
  <2>2. b \in Nat /\ b <= n /\ ~Ticks(kk, f[b], b)
    BY <2>1
  <2>3. CASE b = 0
    BY <1>1, <2>2, <2>3, TicksZero DEF TicksBy
  <2>4. CASE b > 0
    <3>1. b - 1 \in Nat /\ b - 1 <= n /\ ~(b <= b - 1) /\ b \in 1 .. MaxMissed /\ (b - 1) + 1 = b
      BY <1>2, <2>2, <2>4
    <3>2. Ticks(kk, f[b - 1], b - 1)
      BY <2>1, <3>1
    <3>3. Shape(f[b - 1]) /\ Apart(f[b - 1]) /\ DelayedOK(f[b - 1])
      BY <3>2 DEF Ticks
    <3>4. ~f[b - 1].suspended
      BY <3>2 DEF Ticks, Moved
    <3>5. Ticks(f[b - 1], f[b], 1)
      BY <1>1, <3>1, <3>3, <3>4, TickFacts DEF TicksBy
    <3>6. Ticks(kk, f[b], (b - 1) + 1)
      BY <3>1, <3>2, <3>5, TicksMore
    <3> QED
      BY <2>2, <3>1, <3>6
  <2> QED
    BY <2>2, <2>3, <2>4
<1>4. Ticks(kk, f[n], n)
  BY <1>2, <1>3
<1> QED
  BY <1>1, <1>4 DEF TicksBy

-----------------------------------------------------------------------------

(* xTaskResumeAll readies all pending tasks, and those the missed ticks were due for. *)
LEMMA ResumeFacts ==
  ASSUME NEW kk, Shape(kk), Apart(kk), DelayedOK(kk)
  PROVE  \E S : Resumed(kk, xTaskResumeAll(kk), S)
<1> DEFINE a == [kk EXCEPT !.suspended = FALSE]
           P == ToSet(kk.pending)
           n == Len(kk.pending)
           b == WakeEach(a, kk.pending, n)
           c == AfterTicks(b, kk.missedTicks)
           r == [c EXCEPT !.missedTicks = 0, !.yield = @ \/ YieldRequired(kk), !.missedYield = FALSE]
<1>1. xTaskResumeAll(kk) = r
  BY DEF xTaskResumeAll, AfterTicks
<1>2. DOMAIN kk = Fields /\ List(kk.pending) /\ kk.pending \in Seq(AllTasks) /\ n \in Nat
  BY DEF Shape, ListsOK, List
<1>3. SameLists(kk, a) /\ DOMAIN a = Fields /\ a.suspended = FALSE /\ a.missedTicks = kk.missedTicks
      /\ a.missedYield = kk.missedYield /\ a.yield = kk.yield
  BY <1>2 DEF Fields, SameLists
<1> HIDE DEF a
<1>4. FlagsOK(a)
  BY <1>3 DEF FlagsOK, Shape, Numbers
<1>5. Shape(a) /\ Apart(a) /\ DelayedOK(a)
  BY <1>3, <1>4, SameListsShape, SameListsKeep
<1>6. Readied(a, b, P)
  <2>1. FirstOf(kk.pending, n) = P
    <3>1. DOMAIN kk.pending = 1 .. n
      BY <1>2
    <3> QED
      BY <3>1 DEF FirstOf, ToSet
  <2>2. n \in 0 .. Len(kk.pending)
    BY <1>2
  <2>3. ReadyAt(a) /\ ~a.suspended
    BY <1>3, <1>5 DEF Apart
  <2>4. Readied(a, b, FirstOf(kk.pending, n))
    BY <1>2, <1>5, <2>2, <2>3, WakeEachReadies
  <2> QED
    BY <2>1, <2>4
<1> HIDE DEF b
<1>7. Shape(b) /\ Apart(b) /\ Moved(a, b, P)
  BY <1>5, <1>6, ReadiedApart, ReadiedMoved DEF Readied
<1>8. DelayedOK(b)
  <2>1. SameFixed(a, b) /\ Thinned(b.delayed, a.delayed, P) /\ Thinned(b.overflow, a.overflow, P)
        /\ \A t \in AllTasks \ P : b.wake[t] = a.wake[t]
    BY <1>6 DEF Readied
  <2>2. Ordered(b.delayed, b.wake) /\ Ordered(b.overflow, b.wake)
    BY <1>5, <2>1, ThinnedOrdered DEF DelayedOK
  <2>3. ASSUME NEW t \in ToSet(b.delayed)
        PROVE  b.due[t] = b.wake[t] - b.tick /\ b.due[t] > 0 /\ b.next <= b.wake[t]
    <3>1. t \in ToSet(a.delayed) /\ t \notin P
      BY <2>1 DEF Thinned
    <3>2. t \in AllTasks
      BY <1>5, <3>1, ListIn DEF Shape, ListsOK
    <3> QED
      BY <1>5, <2>1, <3>1, <3>2 DEF DelayedOK, SameFixed
  <2>4. ASSUME NEW t \in ToSet(b.overflow)
        PROVE  b.due[t] = W + b.wake[t] - b.tick
    <3>1. t \in ToSet(a.overflow) /\ t \notin P
      BY <2>1 DEF Thinned
    <3>2. t \in AllTasks
      BY <1>5, <3>1, ListIn DEF Shape, ListsOK
    <3> QED
      BY <1>5, <2>1, <3>1, <3>2 DEF DelayedOK, SameFixed
  <2> QED
    BY <2>2, <2>3, <2>4 DEF DelayedOK
<1>9. kk.missedTicks \in 0 .. MaxMissed
  BY DEF Shape, Numbers
<1>10. ~b.suspended
  BY <1>3, <1>7 DEF Moved
<1>11. Ticks(b, c, kk.missedTicks) /\ (kk.missedTicks = 0 => c = b)
  BY <1>7, <1>8, <1>9, <1>10, TickedFacts
<1> HIDE DEF c
<1>12. Shape(c) /\ Apart(c) /\ DelayedOK(c) /\ DOMAIN c = Fields
  BY <1>11 DEF Ticks, Shape
<1>13. SameLists(c, r) /\ DOMAIN r = Fields /\ r.suspended = c.suspended /\ r.missedTicks = 0
       /\ r.missedYield = FALSE /\ r.yield = (c.yield \/ YieldRequired(kk))
  BY <1>12 DEF Fields, SameLists
<1> HIDE DEF r
<1>14. c.suspended = FALSE /\ c.yield = kk.yield /\ c.cur = kk.cur /\ c.late = kk.late
       /\ c.uxPriority = kk.uxPriority
  BY <1>3, <1>7, <1>11 DEF Ticks, Moved, SameLists
<1>15. FlagsOK(r)
  <2>1. 0 \in 0 .. MaxMissed
    OBVIOUS
  <2> QED
    BY <1>13, <1>14, <2>1 DEF FlagsOK
<1>16. Shape(r) /\ Apart(r) /\ DelayedOK(r)
  BY <1>12, <1>13, <1>15, SameListsShape, SameListsKeep
<1>17. PICK T : /\ T \subseteq Slept(b) /\ Moved(b, c, T)
                /\ kk.missedTicks = 0 => T = {}
  <2>1. CASE kk.missedTicks = 0
    <3>1. Moved(b, b, {}) /\ {} \subseteq Slept(b)
      BY <1>7, ReadiedNone, ReadiedMoved
    <3> QED
      BY <1>11, <2>1, <3>1
  <2>2. CASE kk.missedTicks # 0
    BY <1>11, <2>2 DEF Ticks
  <2> QED
    BY <2>1, <2>2
<1> DEFINE S == P \cup T
<1>18. Moved(a, c, S)
  BY <1>7, <1>17, MovedTwice
<1>19. /\ \A t \in AllTasks : Ready(r, t) <=> Ready(kk, t) \/ t \in S
       /\ Slept(r) = Slept(kk) \ S /\ r.forever = kk.forever \ S
  <2>1. \A t \in AllTasks : (Ready(r, t) <=> Ready(c, t)) /\ (Ready(a, t) <=> Ready(kk, t))
    BY <1>3, <1>13, SameListsKeep
  <2>2. Slept(r) = Slept(c) /\ Slept(a) = Slept(kk)
    BY <1>3, <1>13, SameListsKeep
  <2> QED
    BY <1>3, <1>13, <1>18, <2>1, <2>2 DEF Moved, SameLists
<1>20. Thins(kk, r, S)
  BY <1>3, <1>13, <1>18 DEF Moved, Thins, SameLists
<1>21. r.pending = <<>>
  <2>1. ToSet(r.pending) = {} /\ List(r.pending)
    BY <1>20 DEF Thins, Thinned
  <2> QED
    BY <2>1, ToSetIs DEF List
<1>22. S \subseteq P \cup Slept(kk) /\ P \subseteq S /\ (kk.missedTicks = 0 => S = P)
  <2>1. Slept(b) \subseteq Slept(kk)
    BY <1>3, <1>7, SameListsKeep DEF Moved
  <2> QED
    BY <1>17, <2>1
<1>23. \A t \in AllTasks : r.due[t] <= kk.due[t]
  <2>1. r.due = c.due /\ b.due = kk.due
    BY <1>3, <1>6, <1>13 DEF SameLists, Readied, SameFixed
  <2> QED
    BY <1>11, <2>1 DEF Ticks
<1>24. ASSUME NEW t \in AllTasks, NEW w \in Nat, w + MaxLate <= W, TimedAt(kk, w, t, kk.missedTicks)
       PROVE  TimedAt(r, w, t, 0)
  <2>1. TimedAt(b, w, t, kk.missedTicks)
    BY <1>3, <1>6, <1>24 DEF TimedAt, Elapsed, SameLists, Readied, SameFixed
  <2>2. kk.missedTicks \in Nat /\ kk.missedTicks <= kk.missedTicks /\ kk.missedTicks - kk.missedTicks = 0
    BY <1>9
  <2>3. TimedAt(c, w, t, kk.missedTicks - kk.missedTicks)
    BY <1>11, <1>24, <2>1, <2>2 DEF Ticks
  <2> QED
    BY <1>13, <2>2, <2>3, SameListsKeep
<1> HIDE DEF S, P
<1>25. Resumed(kk, r, S)
  <2>1. r.cur = kk.cur /\ r.suspended = FALSE /\ r.yield = (kk.yield \/ YieldRequired(kk))
        /\ r.late = kk.late /\ r.uxPriority = kk.uxPriority
    BY <1>13, <1>14 DEF SameLists
  <2>2. ToSet(kk.pending) = P
    BY DEF P
  <2> QED
    BY <1>13, <1>16, <1>19, <1>20, <1>21, <1>22, <1>23, <1>24, <2>1, <2>2 DEF Resumed
<1> QED
  BY <1>1, <1>25

(* DelayedOK reads the waits the scheduler records. *)
LEMMA DelayedForIs ==
  ASSUME NEW kk
  PROVE  DelayedOK(kk) <=> DelayedFor(kk, kk.due)
  BY DEF DelayedOK, DelayedFor

(* Only the waits of the tasks in the delayed lists matter. *)
LEMMA DelayedForSame ==
  ASSUME NEW kk, NEW d, NEW e, DelayedFor(kk, d), \A t \in Slept(kk) : e[t] = d[t]
  PROVE  DelayedFor(kk, e)
  BY DEF DelayedFor, Slept

(* Thinned lists stay right. *)
LEMMA DelayedThinned ==
  ASSUME NEW kk, Shape(kk), NEW r, NEW S, NEW d, DelayedFor(kk, d),
         Thinned(r.delayed, kk.delayed, S), Thinned(r.overflow, kk.overflow, S),
         \A t \in AllTasks \ S : r.wake[t] = kk.wake[t],
         r.tick = kk.tick, r.next = kk.next
  PROVE  DelayedFor(r, d)
<1>1. Ordered(r.delayed, r.wake) /\ Ordered(r.overflow, r.wake)
  BY ThinnedOrdered DEF DelayedFor
<1>2. ASSUME NEW t \in ToSet(r.delayed)
      PROVE  d[t] = r.wake[t] - r.tick /\ d[t] > 0 /\ r.next <= r.wake[t]
  <2>1. t \in ToSet(kk.delayed) /\ t \notin S
    BY DEF Thinned
  <2>2. t \in AllTasks
    BY <2>1, ListIn DEF Shape, ListsOK
  <2> QED
    BY <2>1, <2>2 DEF DelayedFor
<1>3. ASSUME NEW t \in ToSet(r.overflow)
      PROVE  d[t] = W + r.wake[t] - r.tick
  <2>1. t \in ToSet(kk.overflow) /\ t \notin S
    BY DEF Thinned
  <2>2. t \in AllTasks
    BY <2>1, ListIn DEF Shape, ListsOK
  <2> QED
    BY <2>1, <2>2 DEF DelayedFor
<1> QED
  BY <1>1, <1>2, <1>3 DEF DelayedFor

(* Readied tasks leave the delayed lists right. *)
LEMMA ReadiedDelayed ==
  ASSUME NEW kk, Shape(kk), NEW r, NEW S, NEW d, Readied(kk, r, S), DelayedFor(kk, d)
  PROVE  DelayedFor(r, d)
  BY DelayedThinned DEF Readied, SameFixed

-----------------------------------------------------------------------------
(* The current task goes to sleep. *)

(* A task that leaves its list is not ready, all others are as before. *)
LEMMA RemovedReady ==
  ASSUME NEW kk, Shape(kk), NEW r, NEW t, Removed(kk, r, t), Apart(kk)
  PROVE  /\ \A u \in AllTasks : Ready(r, u) <=> Ready(kk, u) /\ u # t
         /\ ReadyAt(r)
<1>1. r.uxPriority = kk.uxPriority /\ \A u \in AllTasks : kk.uxPriority[u] \in Priorities
  BY DEF Removed, SameFixed, Shape, Numbers
<1>2. \A p \in Priorities : ToSet(r.ready[p]) = ToSet(kk.ready[p]) \ {t}
  BY DEF Removed, Thinned
<1>3. ReadyAt(r)
  BY <1>1, <1>2 DEF ReadyAt, Apart
<1> QED
  BY <1>1, <1>2, <1>3 DEF Ready

(* The wake time that prvAddCurrentTaskToDelayedList computes, in both lists. *)
LEMMA WakeTime ==
  ASSUME NEW tick \in 0 .. W - 1, NEW n \in 1 .. W - 1
  PROVE  LET wake == (tick + n) % W IN
         /\ wake \in 0 .. W - 1
         /\ wake < tick => W + wake - tick = n
         /\ ~(wake < tick) => wake - tick = n
<1>1. W \in Nat /\ W > 2
  OBVIOUS
<1>2. CASE tick + n < W
  <2>1. (tick + n) % W = tick + n
    BY <1>1, <1>2
  <2> QED
    BY <1>1, <1>2, <2>1
<1>3. CASE tick + n >= W
  <2>1. (tick + n) % W = tick + n - W
    BY <1>1, <1>3
  <2> QED
    BY <1>1, <1>3, <2>1
<1> QED
  BY <1>1, <1>2, <1>3

(* The order of a list depends on the values of its items alone. *)
LEMMA OrderSame ==
  ASSUME NEW s, List(s), NEW v, NEW w, Ordered(s, v), \A t \in ToSet(s) : w[t] = v[t]
  PROVE  Ordered(s, w)
<1> SUFFICES ASSUME NEW a \in AllTasks, NEW b \in AllTasks, Before(s, a, b)
             PROVE  w[a] <= w[b]
  BY DEF Ordered
<1>1. a \in ToSet(s) /\ b \in ToSet(s)
  BY BeforeIn DEF List
<1> QED
  BY <1>1 DEF Ordered

(* prvAddCurrentTaskToDelayedList puts the task to sleep for exactly n ticks. *)
LEMMA ParkFacts ==
  ASSUME NEW kk, Shape(kk), Apart(kk), NEW t \in Tasks, t = kk.cur, Ready(kk, t),
         NEW n \in 1 .. W - 1
  PROVE  Parked(kk, prvAddCurrentTaskToDelayedList(kk, n), t, n)
<1> DEFINE wake == (kk.tick + n) % W
           a == RemoveGeneric(kk, t)
           b == [a EXCEPT !.wake[t] = wake]
<1>1. kk.tick \in 0 .. W - 1 /\ t \in AllTasks /\ W \in Nat
  BY DEF Shape, Numbers, AllTasks
<1>2. /\ wake \in 0 .. W - 1
      /\ wake < kk.tick => W + wake - kk.tick = n
      /\ ~(wake < kk.tick) => wake - kk.tick = n
  BY <1>1, WakeTime
<1> HIDE DEF wake
<1>3. Removed(kk, a, t)
  BY RemoveGenericFacts
<1>4. Shape(a)
  BY <1>3 DEF Removed
<1> HIDE DEF a
<1>5. Rewoken(a, b, t, wake)
  BY <1>1, <1>2, <1>4, ForgetWake
<1>6. prvAddCurrentTaskToDelayedList(kk, n) =
        IF wake < kk.tick
        THEN [b EXCEPT !.overflow = vListInsert(@, t, b.wake)]
        ELSE [b EXCEPT !.delayed = vListInsert(@, t, b.wake), !.next = IF wake < @ THEN wake ELSE @]
  BY DEF prvAddCurrentTaskToDelayedList, wake, a
<1> HIDE DEF b
<1>7. t \notin ToSet(kk.delayed) /\ t \notin ToSet(kk.overflow) /\ t \notin kk.forever
  BY <1>1 DEF Apart
<1>8. /\ List(b.delayed) /\ ToSet(b.delayed) = ToSet(kk.delayed)
      /\ List(b.overflow) /\ ToSet(b.overflow) = ToSet(kk.overflow)
      /\ b.forever = kk.forever
      /\ b.pending = kk.pending /\ b.toReceive = kk.toReceive /\ b.toSend = kk.toSend
      /\ b.wake = [kk.wake EXCEPT ![t] = wake] /\ b.next = kk.next /\ b.tick = kk.tick
      /\ b.top = kk.top /\ b.ready = a.ready
  <2>1. Thinned(a.delayed, kk.delayed, {t}) /\ Thinned(a.overflow, kk.overflow, {t})
    BY <1>3 DEF Removed
  <2>2. /\ a.forever = kk.forever \ {t} /\ a.wake = kk.wake /\ a.next = kk.next /\ a.tick = kk.tick
        /\ a.pending = kk.pending /\ a.toReceive = kk.toReceive /\ a.toSend = kk.toSend
        /\ a.top = kk.top
    BY <1>3 DEF Removed, SameFixed
  <2>3. /\ b.delayed = a.delayed /\ b.overflow = a.overflow /\ b.forever = a.forever
        /\ b.pending = a.pending /\ b.toReceive = a.toReceive /\ b.toSend = a.toSend
        /\ b.wake = [a.wake EXCEPT ![t] = wake] /\ b.next = a.next /\ b.tick = a.tick
        /\ b.top = a.top /\ b.ready = a.ready
    BY <1>5 DEF Rewoken, SameFixed
  <2>4. kk.forever \ {t} = kk.forever
    BY <1>7
  <2>5. ToSet(kk.delayed) \ {t} = ToSet(kk.delayed) /\ ToSet(kk.overflow) \ {t} = ToSet(kk.overflow)
    BY <1>7
  <2>6. /\ List(a.delayed) /\ ToSet(a.delayed) = ToSet(kk.delayed)
        /\ List(a.overflow) /\ ToSet(a.overflow) = ToSet(kk.overflow)
    BY <2>1, <2>5 DEF Thinned
  <2> QED
    BY <2>2, <2>3, <2>4, <2>6
<1>9. /\ SameFixed(kk, b) /\ Shape(b) /\ DOMAIN b = Fields
      /\ \A u \in AllTasks : b.wake[u] \in Int
  BY <1>3, <1>5, SameTrans DEF Removed, Rewoken, Shape, Numbers
<1>10. kk.wake \in [AllTasks -> 0 .. W - 1] /\ kk.next \in 0 .. W - 1
  BY DEF Shape, Numbers
<1>11. b.wake[t] = wake /\ \A u \in AllTasks \ {t} : b.wake[u] = kk.wake[u]
  BY <1>1, <1>8, <1>10
<1>12. \A u \in AllTasks : Ready(b, u) <=> Ready(kk, u) /\ u # t
  <2>1. \A u \in AllTasks : Ready(a, u) <=> Ready(kk, u) /\ u # t
    BY <1>3, RemovedReady
  <2>2. a.uxPriority = kk.uxPriority /\ b.uxPriority = kk.uxPriority
    BY <1>3, <1>9 DEF Removed, SameFixed
  <2> QED
    BY <1>8, <2>1, <2>2 DEF Ready
<1>13. ReadyAt(b)
  <2>1. ReadyAt(a) /\ a.uxPriority = kk.uxPriority
    BY <1>3, RemovedReady DEF Removed, SameFixed
  <2> QED
    BY <1>8, <1>9, <2>1 DEF ReadyAt, SameFixed
<1>14. ToSet(kk.delayed) \subseteq AllTasks /\ ToSet(kk.overflow) \subseteq AllTasks
  BY ListIn DEF Shape, ListsOK
<1>15. ASSUME NEW d, DelayedFor(kk, d)
       PROVE  Ordered(b.delayed, b.wake) /\ Ordered(b.overflow, b.wake)
  <2>1. \A u \in AllTasks \ {t} : b.wake[u] = kk.wake[u]
    BY <1>11
  <2>2. Thinned(b.delayed, kk.delayed, {t}) /\ Thinned(b.overflow, kk.overflow, {t})
    BY <1>3, <1>5 DEF Removed, Rewoken
  <2> QED
    BY <1>15, <2>1, <2>2, ThinnedOrdered DEF DelayedFor
<1>16. IDLE # t /\ IDLE \in AllTasks
  BY DEF AllTasks
<1>17. CASE wake < kk.tick
  <2> DEFINE v == vListInsert(b.overflow, t, b.wake)
             r == [b EXCEPT !.overflow = vListInsert(@, t, b.wake)]
  <2>1. prvAddCurrentTaskToDelayedList(kk, n) = r
    BY <1>6, <1>17
  <2>i. List(b.overflow) /\ t \notin ToSet(b.overflow) /\ ToSet(b.overflow) = ToSet(kk.overflow)
    BY <1>7, <1>8
  <2>j. \A u \in AllTasks : b.wake[u] \in Int
    BY <1>9
  <2>2. /\ List(v) /\ ToSet(v) = ToSet(kk.overflow) \cup {t}
        /\ Ordered(b.overflow, b.wake) => Ordered(v, b.wake)
    BY <1>1, <2>i, <2>j, InsertFacts
  <2>3. r = [b EXCEPT !.overflow = v]
    OBVIOUS
  <2> HIDE DEF v, r
  <2>4. /\ DOMAIN r = Fields /\ SameFixed(b, r) /\ r.overflow = v /\ r.delayed = b.delayed
        /\ r.forever = b.forever /\ r.pending = b.pending /\ r.toReceive = b.toReceive
        /\ r.toSend = b.toSend /\ r.wake = b.wake /\ r.top = b.top /\ r.ready = b.ready
    BY <1>9, <2>3 DEF Fields, SameFixed
  <2>5. Shape(r)
    <3>1. ListsOK(r)
      BY <1>9, <2>2, <2>4 DEF Shape, ListsOK
    <3>2. Numbers(r)
      BY <1>9, <2>4 DEF Shape, Numbers, SameFixed
    <3> QED
      BY <2>4, <3>1, <3>2 DEF Shape
  <2>6. SameFixed(kk, r)
    BY <1>9, <2>4, SameTrans
  <2>7. \A u \in AllTasks : Ready(r, u) <=> Ready(kk, u) /\ u # t
    BY <1>12, <2>4 DEF Ready, SameFixed
  <2>8. ReadyAt(r)
    BY <1>13, <2>4 DEF ReadyAt, SameFixed
  <2>9. /\ ToSet(r.delayed) = ToSet(kk.delayed) /\ ToSet(r.overflow) = ToSet(kk.overflow) \cup {t}
        /\ r.forever = kk.forever /\ r.top = kk.top /\ r.uxPriority = kk.uxPriority
    BY <1>8, <2>2, <2>4, <2>6 DEF SameFixed
  <2>10. Apart(r)
    BY <1>7, <1>16, <2>7, <2>8, <2>9 DEF Apart
  <2>11. ASSUME NEW d, DelayedFor(kk, d), d[t] = n
         PROVE  DelayedFor(r, d)
    <3>1. Ordered(r.delayed, r.wake) /\ Ordered(r.overflow, r.wake)
      BY <1>15, <2>2, <2>4, <2>11
    <3>2. r.tick = kk.tick /\ r.next = kk.next
      BY <2>6 DEF SameFixed
    <3>3. ASSUME NEW u \in ToSet(r.delayed)
          PROVE  d[u] = r.wake[u] - r.tick /\ d[u] > 0 /\ r.next <= r.wake[u]
      <4>1. u \in ToSet(kk.delayed) /\ u \in AllTasks \ {t}
        BY <1>7, <1>14, <2>9
      <4> QED
        BY <1>11, <2>4, <2>11, <3>2, <4>1 DEF DelayedFor
    <3>4. ASSUME NEW u \in ToSet(r.overflow)
          PROVE  d[u] = W + r.wake[u] - r.tick
      <4>1. CASE u = t
        BY <1>2, <1>11, <1>17, <2>4, <2>11, <3>2, <4>1
      <4>2. CASE u # t
        <5>1. u \in ToSet(kk.overflow) /\ u \in AllTasks \ {t}
          BY <1>14, <2>9, <4>2
        <5> QED
          BY <1>11, <2>4, <2>11, <3>2, <5>1 DEF DelayedFor
      <4> QED
        BY <4>1, <4>2
    <3> QED
      BY <3>1, <3>3, <3>4 DEF DelayedFor
  <2>12. Unready(kk, r, t)
    BY <2>6, <2>7 DEF Unready, SameFixed
  <2>13. Slept(r) = Slept(kk) \cup {t}
    BY <2>9 DEF Slept
  <2>14. r.pending = kk.pending /\ r.toReceive = kk.toReceive /\ r.toSend = kk.toSend
    BY <1>8, <2>4
  <2>15. Parked(kk, r, t, n)
    BY <2>5, <2>9, <2>10, <2>11, <2>12, <2>13, <2>14 DEF Parked
  <2> QED
    BY <2>1, <2>15
<1>18. CASE ~(wake < kk.tick)
  <2> DEFINE v == vListInsert(b.delayed, t, b.wake)
             m == IF wake < b.next THEN wake ELSE b.next
             r == [b EXCEPT !.delayed = vListInsert(@, t, b.wake), !.next = IF wake < @ THEN wake ELSE @]
  <2>1. prvAddCurrentTaskToDelayedList(kk, n) = r
    BY <1>6, <1>18
  <2>i. List(b.delayed) /\ t \notin ToSet(b.delayed) /\ ToSet(b.delayed) = ToSet(kk.delayed)
    BY <1>7, <1>8
  <2>j. \A u \in AllTasks : b.wake[u] \in Int
    BY <1>9
  <2>2. /\ List(v) /\ ToSet(v) = ToSet(kk.delayed) \cup {t}
        /\ Ordered(b.delayed, b.wake) => Ordered(v, b.wake)
    BY <1>1, <2>i, <2>j, InsertFacts
  <2>3. r = [b EXCEPT !.delayed = v, !.next = m]
    OBVIOUS
  <2>a. m \in 0 .. W - 1 /\ m <= kk.next /\ m <= wake
    BY <1>1, <1>2, <1>8, <1>10
  <2> HIDE DEF v, r, m
  <2>4. /\ DOMAIN r = Fields /\ r.delayed = v /\ r.overflow = b.overflow
        /\ r.forever = b.forever /\ r.pending = b.pending /\ r.toReceive = b.toReceive
        /\ r.toSend = b.toSend /\ r.wake = b.wake /\ r.top = b.top /\ r.ready = b.ready
        /\ r.next = m
        /\ r.cur = b.cur /\ r.tick = b.tick /\ r.suspended = b.suspended
        /\ r.missedTicks = b.missedTicks /\ r.missedYield = b.missedYield /\ r.yield = b.yield
        /\ r.uxPriority = b.uxPriority /\ r.entered = b.entered /\ r.due = b.due /\ r.late = b.late
    BY <1>9, <2>3 DEF Fields
  <2>5. Shape(r)
    <3>1. ListsOK(r)
      BY <1>9, <2>2, <2>4 DEF Shape, ListsOK
    <3>2. Numbers(r)
      BY <1>9, <2>4, <2>a DEF Shape, Numbers
    <3> QED
      BY <2>4, <3>1, <3>2 DEF Shape
  <2>7. \A u \in AllTasks : Ready(r, u) <=> Ready(kk, u) /\ u # t
    BY <1>12, <2>4 DEF Ready
  <2>8. ReadyAt(r)
    BY <1>13, <2>4 DEF ReadyAt
  <2>9. /\ ToSet(r.delayed) = ToSet(kk.delayed) \cup {t} /\ ToSet(r.overflow) = ToSet(kk.overflow)
        /\ r.forever = kk.forever /\ r.top = kk.top /\ r.uxPriority = kk.uxPriority
    BY <1>8, <1>9, <2>2, <2>4 DEF SameFixed
  <2>10. Apart(r)
    BY <1>7, <1>16, <2>7, <2>8, <2>9 DEF Apart
  <2>11. ASSUME NEW d, DelayedFor(kk, d), d[t] = n
         PROVE  DelayedFor(r, d)
    <3>1. Ordered(r.delayed, r.wake) /\ Ordered(r.overflow, r.wake)
      BY <1>15, <2>2, <2>4, <2>11
    <3>2. r.tick = kk.tick /\ r.next = m
      BY <1>8, <2>4
    <3>3. ASSUME NEW u \in ToSet(r.delayed)
          PROVE  d[u] = r.wake[u] - r.tick /\ d[u] > 0 /\ r.next <= r.wake[u]
      <4>1. CASE u = t
        BY <1>1, <1>2, <1>11, <1>18, <2>4, <2>11, <2>a, <3>2, <4>1
      <4>2. CASE u # t
        <5>1. u \in ToSet(kk.delayed) /\ u \in AllTasks \ {t}
          BY <1>14, <2>9, <4>2
        <5>2. d[u] = kk.wake[u] - kk.tick /\ d[u] > 0 /\ kk.next <= kk.wake[u]
          BY <2>11, <5>1 DEF DelayedFor
        <5>3. r.wake[u] = kk.wake[u] /\ kk.wake[u] \in 0 .. W - 1
          BY <1>10, <1>11, <2>4, <5>1
        <5> QED
          BY <1>1, <1>10, <2>a, <3>2, <5>2, <5>3
      <4> QED
        BY <4>1, <4>2
    <3>4. ASSUME NEW u \in ToSet(r.overflow)
          PROVE  d[u] = W + r.wake[u] - r.tick
      <4>1. u \in ToSet(kk.overflow) /\ u \in AllTasks \ {t}
        BY <1>7, <1>14, <2>9
      <4> QED
        BY <1>11, <2>4, <2>11, <3>2, <4>1 DEF DelayedFor
    <3> QED
      BY <3>1, <3>3, <3>4 DEF DelayedFor
  <2>12. Unready(kk, r, t)
    BY <1>9, <2>4, <2>7 DEF Unready, SameFixed
  <2>13. Slept(r) = Slept(kk) \cup {t}
    BY <2>9 DEF Slept
  <2>14. r.pending = kk.pending /\ r.toReceive = kk.toReceive /\ r.toSend = kk.toSend
    BY <1>8, <2>4
  <2>15. Parked(kk, r, t, n)
    BY <2>5, <2>9, <2>10, <2>11, <2>12, <2>13, <2>14 DEF Parked
  <2> QED
    BY <2>1, <2>15
<1> QED
  BY <1>17, <1>18

(* The fields outside the lists have their types. *)
LEMMA RestIs ==
  ASSUME NEW kk, Shape(kk)
  PROVE  RestOK(kk)
  BY DEF Shape, Numbers, RestOK

(* A change outside the lists keeps them right. *)
LEMMA NearFacts ==
  ASSUME NEW kk, Shape(kk), Apart(kk), NEW r, Near(kk, r), RestOK(r)
  PROVE  Woke(kk, r, {}, {}) /\ KeepsTime(kk, r)
<1>1. Shape(r)
  <2>1. ListsOK(r)
    BY DEF Shape, ListsOK, Near
  <2>2. Numbers(r)
    BY DEF Shape, Numbers, Near, RestOK
  <2> QED
    BY <2>1, <2>2 DEF Shape, RestOK
<1>2. \A t : Ready(r, t) <=> Ready(kk, t)
  BY DEF Ready, Near
<1>3. ReadyAt(r)
  BY DEF ReadyAt, Near, Apart
<1>4. Apart(r)
  BY <1>2, <1>3 DEF Apart, Near
<1>5. \A x \in Queues : /\ Thinned(r.toReceive[x], kk.toReceive[x], {})
                        /\ Thinned(r.toSend[x], kk.toSend[x], {})
  BY ThinnedNone DEF Shape, ListsOK, Near
<1>6. Slept(r) = Slept(kk)
  BY DEF Slept, Near
<1>7. KeepsTime(kk, r)
  BY DEF KeepsTime, DelayedFor, Near
<1>8. {} \cup {} = {}
  OBVIOUS
<1>9. r.forever = kk.forever /\ ToSet(r.pending) = ToSet(kk.pending)
  BY DEF Near
<1> QED
  BY <1>1, <1>2, <1>4, <1>5, <1>6, <1>7, <1>8, <1>9 DEF Woke

(* A step that wakes nobody, before one that wakes. *)
LEMMA WokeThen ==
  ASSUME NEW kk, NEW r, NEW s, NEW S, NEW P, Woke(kk, r, {}, {}), Woke(r, s, S, P)
  PROVE  Woke(kk, s, S, P)
<1>1. ASSUME NEW x \in Queues
      PROVE  /\ Thinned(s.toReceive[x], kk.toReceive[x], S \cup P)
             /\ Thinned(s.toSend[x], kk.toSend[x], S \cup P)
  <2>1. {} \cup {} = {} /\ {} \cup (S \cup P) = S \cup P
    OBVIOUS
  <2>2. Thinned(r.toReceive[x], kk.toReceive[x], {}) /\ Thinned(s.toReceive[x], r.toReceive[x], S \cup P)
        /\ Thinned(r.toSend[x], kk.toSend[x], {}) /\ Thinned(s.toSend[x], r.toSend[x], S \cup P)
    BY ZenonT(40), <2>1 DEF Woke
  <2>3. Thinned(s.toReceive[x], kk.toReceive[x], {} \cup (S \cup P))
    BY ONLY <2>2, ThinnedTwice
  <2>4. Thinned(s.toSend[x], kk.toSend[x], {} \cup (S \cup P))
    BY ONLY <2>2, ThinnedTwice
  <2> QED
    BY <2>1, <2>3, <2>4
<1>2. ToSet(s.pending) = (ToSet(kk.pending) \cup P) \ S
  BY DEF Woke
<1>3. /\ Shape(s) /\ Apart(s) /\ S \subseteq AllTasks /\ P \subseteq AllTasks
      /\ \A t \in AllTasks : Ready(s, t) <=> Ready(kk, t) \/ t \in S
      /\ Slept(s) = Slept(kk) \ S /\ s.forever = kk.forever \ S
  BY DEF Woke
<1> QED
  BY <1>1, <1>2, <1>3 DEF Woke

(* A step that wakes nobody, after one that wakes. *)
LEMMA WokeAfter ==
  ASSUME NEW kk, NEW r, NEW s, NEW S, NEW P, Woke(kk, r, S, P), Woke(r, s, {}, {})
  PROVE  Woke(kk, s, S, P)
<1>1. ASSUME NEW x \in Queues
      PROVE  /\ Thinned(s.toReceive[x], kk.toReceive[x], S \cup P)
             /\ Thinned(s.toSend[x], kk.toSend[x], S \cup P)
  <2>1. {} \cup {} = {} /\ (S \cup P) \cup {} = S \cup P
    OBVIOUS
  <2>2. Thinned(r.toReceive[x], kk.toReceive[x], S \cup P) /\ Thinned(s.toReceive[x], r.toReceive[x], {})
        /\ Thinned(r.toSend[x], kk.toSend[x], S \cup P) /\ Thinned(s.toSend[x], r.toSend[x], {})
    BY ZenonT(40), <2>1 DEF Woke
  <2>3. Thinned(s.toReceive[x], kk.toReceive[x], (S \cup P) \cup {})
    BY ONLY <2>2, ThinnedTwice
  <2>4. Thinned(s.toSend[x], kk.toSend[x], (S \cup P) \cup {})
    BY ONLY <2>2, ThinnedTwice
  <2> QED
    BY <2>1, <2>3, <2>4
<1>2. ToSet(s.pending) = (ToSet(kk.pending) \cup P) \ S
  BY DEF Woke
<1>3. /\ Shape(s) /\ Apart(s) /\ S \subseteq AllTasks /\ P \subseteq AllTasks
      /\ \A t \in AllTasks : Ready(s, t) <=> Ready(kk, t) \/ t \in S
      /\ Slept(s) = Slept(kk) \ S /\ s.forever = kk.forever \ S
  BY DEF Woke
<1> QED
  BY <1>1, <1>2, <1>3 DEF Woke

(* The delayed lists stay right twice. *)
LEMMA KeepsTwice ==
  ASSUME NEW kk, NEW r, NEW s, KeepsTime(kk, r), KeepsTime(r, s)
  PROVE  KeepsTime(kk, s)
  BY DEF KeepsTime

(* Readying tasks wakes them and keeps the delayed lists right. *)
LEMMA ReadiedWoke ==
  ASSUME NEW kk, Shape(kk), Apart(kk), NEW r, NEW S, Readied(kk, r, S)
  PROVE  Woke(kk, r, S, {}) /\ KeepsTime(kk, r)
<1>1. Shape(r) /\ Apart(r) /\ S \subseteq AllTasks
  BY ReadiedApart DEF Readied
<1>2. \A t \in AllTasks : Ready(r, t) <=> Ready(kk, t) \/ t \in S
  BY ReadiedReady
<1>3. Slept(r) = Slept(kk) \ S /\ r.forever = kk.forever \ S
  BY DEF Slept, Readied, Thinned
<1>4. \A x \in Queues : /\ Thinned(r.toReceive[x], kk.toReceive[x], S)
                        /\ Thinned(r.toSend[x], kk.toSend[x], S)
  BY DEF Readied, Thins
<1>5. ToSet(r.pending) = ToSet(kk.pending) \ S
  BY DEF Readied, Thins, Thinned
<1>6. KeepsTime(kk, r)
  <2>1. r.tick = kk.tick
    BY DEF Readied, SameFixed
  <2> QED
    BY <2>1, ReadiedDelayed DEF KeepsTime
<1>7. S \cup {} = S /\ ToSet(kk.pending) \cup {} = ToSet(kk.pending)
  OBVIOUS
<1> QED
  BY <1>1, <1>2, <1>3, <1>4, <1>5, <1>6, <1>7 DEF Woke

(* Making tasks pending keeps the delayed lists right. *)
LEMMA PendedWoke ==
  ASSUME NEW kk, Shape(kk), Apart(kk), NEW r, NEW S, Pended(kk, r, S)
  PROVE  Woke(kk, r, {}, S) /\ KeepsTime(kk, r)
<1>1. Shape(r) /\ S \subseteq AllTasks /\ r.uxPriority = kk.uxPriority /\ r.tick = kk.tick /\ r.next = kk.next
  BY DEF Pended, SameFixed
<1>2. \A t : Ready(r, t) <=> Ready(kk, t)
  BY <1>1 DEF Ready, Pended
<1>3. ReadyAt(r)
  BY <1>1 DEF ReadyAt, Pended, Apart
<1>4. Apart(r)
  BY <1>1, <1>2, <1>3 DEF Apart, Pended
<1>5. Slept(r) = Slept(kk) /\ r.forever = kk.forever
  BY DEF Slept, Pended
<1>6. \A x \in Queues : /\ Thinned(r.toReceive[x], kk.toReceive[x], S)
                        /\ Thinned(r.toSend[x], kk.toSend[x], S)
  BY DEF Pended
<1>7. ToSet(r.pending) = ToSet(kk.pending) \cup S
  BY DEF Pended
<1>8. KeepsTime(kk, r)
  BY <1>1 DEF KeepsTime, DelayedFor, Pended
<1>9. {} \cup S = S
  OBVIOUS
<1> QED
  BY <1>1, <1>2, <1>4, <1>5, <1>6, <1>7, <1>8, <1>9 DEF Woke

(* A ready task moves to the list of its new priority and nothing else changes. *)
LEMMA RaiseFacts ==
  ASSUME NEW kk, Shape(kk), Apart(kk), NEW h \in AllTasks, Ready(kk, h), NEW p \in Priorities
  PROVE  Raised(kk, MakeReady([kk EXCEPT !.uxPriority[h] = p], h), h, p)
<1> DEFINE a == [kk EXCEPT !.uxPriority[h] = p]
           r == MakeReady(a, h)
<1>1. /\ DOMAIN a = Fields /\ a.uxPriority = [kk.uxPriority EXCEPT ![h] = p]
      /\ SameRest(kk, a) /\ a.tick = kk.tick /\ a.next = kk.next /\ a.top = kk.top
      /\ a.ready = kk.ready /\ a.delayed = kk.delayed /\ a.overflow = kk.overflow
      /\ a.forever = kk.forever /\ a.pending = kk.pending
      /\ a.toReceive = kk.toReceive /\ a.toSend = kk.toSend /\ a.wake = kk.wake
  BY DEF Shape, Fields, SameRest
<1> HIDE DEF a
<1>2. kk.uxPriority \in [AllTasks -> Priorities] /\ Priorities \subseteq Nat
  BY PrioritiesType DEF Shape, Numbers
<1>3. a.uxPriority \in [AllTasks -> Priorities] /\ a.uxPriority[h] = p
      /\ \A u \in AllTasks \ {h} : a.uxPriority[u] = kk.uxPriority[u]
  BY <1>1, <1>2
<1>4. Shape(a)
  <2>1. ListsOK(a)
    BY <1>1 DEF Shape, ListsOK
  <2>2. Numbers(a)
    BY <1>1, <1>3 DEF Shape, Numbers, SameRest
  <2> QED
    BY <1>1, <2>1, <2>2 DEF Shape
<1>5. MadeReady(a, r, h)
  BY <1>4, MakeReadyFacts
<1> HIDE DEF r
<1>6. Shape(r) /\ SameFixed(a, r)
  BY <1>5 DEF MadeReady
<1>7. SameRest(kk, r) /\ r.uxPriority = a.uxPriority /\ r.tick = kk.tick /\ r.next = kk.next
  BY <1>1, <1>6 DEF SameRest, SameFixed
<1>8. /\ \A s \in Priorities : s # p => ToSet(r.ready[s]) = ToSet(kk.ready[s]) \ {h}
      /\ ToSet(r.ready[p]) = ToSet(kk.ready[p]) \cup {h}
  BY <1>1, <1>3, <1>5 DEF MadeReady
<1>9. ASSUME NEW u \in AllTasks PROVE Ready(r, u) <=> Ready(kk, u)
  <2>1. CASE u = h
    BY <1>3, <1>7, <1>8, <2>1 DEF Ready
  <2>2. CASE u # h
    <3>1. r.uxPriority[u] = kk.uxPriority[u] /\ kk.uxPriority[u] \in Priorities
      BY <1>2, <1>3, <1>7, <2>2
    <3>2. u \in ToSet(r.ready[kk.uxPriority[u]]) <=> u \in ToSet(kk.ready[kk.uxPriority[u]])
      BY <1>8, <2>2, <3>1
    <3> QED
      BY <3>1, <3>2 DEF Ready
  <2> QED
    BY <2>1, <2>2
<1>10. ReadyAt(r)
  <2> SUFFICES ASSUME NEW s \in Priorities, NEW u \in ToSet(r.ready[s])
               PROVE  r.uxPriority[u] = s
    BY DEF ReadyAt
  <2>0. u \in AllTasks
    BY <1>6, ListIn DEF Shape, ListsOK
  <2>1. CASE u = h
    BY <1>3, <1>7, <1>8, <2>1
  <2>2. CASE u # h
    <3>1. u \in ToSet(kk.ready[s])
      BY <1>8, <2>2
    <3> QED
      BY <1>3, <1>7, <2>0, <2>2, <3>1 DEF Apart, ReadyAt
  <2> QED
    BY <2>1, <2>2
<1>11. h \notin ToSet(kk.delayed) /\ h \notin ToSet(kk.overflow) /\ h \notin kk.forever
  BY DEF Apart
<1>12. Thinned(r.delayed, kk.delayed, {h}) /\ Thinned(r.overflow, kk.overflow, {h})
       /\ r.forever = kk.forever \ {h} /\ a.top <= r.top /\ p <= r.top
       /\ r.pending = kk.pending /\ r.toReceive = kk.toReceive /\ r.toSend = kk.toSend
       /\ \A u \in AllTasks \ {h} : r.wake[u] = kk.wake[u]
  BY <1>1, <1>3, <1>5 DEF MadeReady
<1>13. ToSet(r.delayed) = ToSet(kk.delayed) /\ ToSet(r.overflow) = ToSet(kk.overflow)
       /\ r.forever = kk.forever
  <2>1. ToSet(r.delayed) = ToSet(kk.delayed) \ {h} /\ ToSet(r.overflow) = ToSet(kk.overflow) \ {h}
    BY <1>12 DEF Thinned
  <2> QED
    BY <1>11, <1>12, <2>1
<1>14. ASSUME NEW u \in AllTasks, Ready(r, u)
       PROVE  r.uxPriority[u] <= r.top
  <2>1. kk.top \in Nat /\ r.top \in Nat /\ a.top = kk.top /\ p \in Nat
    BY <1>1, <1>2, <1>6 DEF Shape, Numbers
  <2>2. CASE u = h
    BY <1>3, <1>7, <1>12, <2>2
  <2>3. CASE u # h
    <3>1. kk.uxPriority[u] <= kk.top /\ kk.uxPriority[u] \in Nat
      BY <1>2, <1>9, <1>14 DEF Apart
    <3>2. r.uxPriority[u] = kk.uxPriority[u]
      BY <1>3, <1>7, <2>3
    <3> QED
      BY <1>12, <2>1, <3>1, <3>2
  <2> QED
    BY <2>2, <2>3
<1>15. Apart(r)
  <2>1. IDLE \in AllTasks
    BY DEF AllTasks
  <2> QED
    BY <1>9, <1>10, <1>13, <1>14, <2>1 DEF Apart
<1>16. KeepsTime(kk, r)
  <2>1. ASSUME NEW d, DelayedFor(kk, d) PROVE DelayedFor(r, d)
    BY <1>7, <1>12, <2>1, DelayedThinned
  <2> QED
    BY <1>7, <2>1 DEF KeepsTime
<1>17. \A x \in Queues : /\ Thinned(r.toReceive[x], kk.toReceive[x], {})
                         /\ Thinned(r.toSend[x], kk.toSend[x], {})
  BY <1>12, ThinnedNone DEF Shape, ListsOK
<1>18. {} \cup {} = {} /\ Slept(r) = Slept(kk) /\ ToSet(r.pending) = ToSet(kk.pending)
  BY <1>12, <1>13 DEF Slept
<1>19. Woke(kk, r, {}, {})
  BY <1>6, <1>9, <1>13, <1>15, <1>17, <1>18 DEF Woke
<1>20. Raised(kk, r, h, p)
  BY <1>1, <1>7, <1>12, <1>16, <1>19 DEF Raised
<1> QED
  BY <1>20 DEF r, a

-----------------------------------------------------------------------------
(* The context switch. *)

(* A bounded set of priorities has a highest one. *)
LEMMA HighestIs ==
  ASSUME NEW S, S \subseteq Nat, S # {}, NEW b \in Nat, \A s \in S : s <= b
  PROVE  Highest(S) \in S /\ \A s \in S : s <= Highest(S)
<1> DEFINE B == {b - s : s \in S}
<1>1. B \subseteq Nat /\ B # {}
  OBVIOUS
<1>2. PICK m \in B : \A n \in B : m <= n
  BY <1>1, LeastOf
<1>3. PICK p \in S : m = b - p
  OBVIOUS
<1>4. ASSUME NEW s \in S PROVE s <= p
  <2>1. b - s \in B
    OBVIOUS
  <2>2. m <= b - s
    BY <1>2, <2>1
  <2>3. s \in Nat /\ p \in Nat /\ b \in Nat
    OBVIOUS
  <2> QED
    BY <1>3, <2>2, <2>3
<1> QED
  BY <1>4 DEF Highest

(* vTaskSwitchContext runs a ready task of the highest priority. *)
LEMMA SwitchFacts ==
  ASSUME NEW kk, Shape(kk), Apart(kk)
  PROVE  Switched(kk, SwitchTo(kk))
<1> DEFINE B == {r \in Priorities : r <= kk.top /\ kk.ready[r] # <<>>}
           p == Highest(B)
           s == kk.ready[p]
           v == Tail(s) \o <<Head(s)>>
           r == [kk EXCEPT !.yield = FALSE, !.top = p, !.cur = Head(s),
                           !.ready[p] = v, !.late = {}]
<1>1. kk.uxPriority \in [AllTasks -> Priorities] /\ Priorities \subseteq Nat /\ kk.top \in Nat
      /\ IDLE \in AllTasks
  BY PrioritiesType DEF Shape, Numbers, AllTasks
<1>2. ASSUME NEW t \in AllTasks, Ready(kk, t)
      PROVE  kk.uxPriority[t] \in B
  <2>1. kk.uxPriority[t] \in Priorities /\ kk.uxPriority[t] <= kk.top
    BY <1>1, <1>2 DEF Apart
  <2>2. kk.ready[kk.uxPriority[t]] # <<>>
    BY <1>2, EmptyList DEF Ready
  <2> QED
    BY <2>1, <2>2
<1>3. B # {} /\ B \subseteq Nat /\ \A b \in B : b <= kk.top
  BY <1>1, <1>2 DEF Apart
<1>4. p \in B /\ \A b \in B : b <= p
  <2> HIDE DEF B
  <2> QED
    BY <1>1, <1>3, HighestIs
<1> HIDE DEF p
<1>5. p \in Priorities /\ s # <<>> /\ List(s) /\ p \in Nat
  BY <1>1, <1>4 DEF Shape, ListsOK
<1>6. Head(s) \in ToSet(s) /\ Head(s) \in AllTasks /\ List(v) /\ ToSet(v) = ToSet(s)
  BY <1>5, HeadFacts, RotateFacts
<1> HIDE DEF B
<1>7. SwitchTo(kk) = r
  BY DEF SwitchTo, p, B
<1>8. DOMAIN kk = Fields /\ DOMAIN kk.ready = Priorities
  BY DEF Shape, ListsOK
<1> HIDE DEF s, v
<1>9. /\ DOMAIN r = Fields /\ r.tick = kk.tick /\ r.next = kk.next /\ r.suspended = kk.suspended
      /\ r.missedTicks = kk.missedTicks /\ r.missedYield = kk.missedYield
      /\ r.uxPriority = kk.uxPriority /\ r.entered = kk.entered /\ r.due = kk.due
      /\ r.delayed = kk.delayed /\ r.overflow = kk.overflow /\ r.forever = kk.forever
      /\ r.pending = kk.pending /\ r.toReceive = kk.toReceive /\ r.toSend = kk.toSend
      /\ r.wake = kk.wake
      /\ r.yield = FALSE /\ r.top = p /\ r.cur = Head(s) /\ r.late = {}
      /\ r.ready = [kk.ready EXCEPT ![p] = v]
  BY <1>8 DEF Fields
<1> HIDE DEF r
<1>10. DOMAIN r.ready = Priorities /\ r.ready[p] = v /\ \A z \in Priorities : z # p => r.ready[z] = kk.ready[z]
  BY <1>5, <1>8, <1>9
<1>11. \A z \in Priorities : List(r.ready[z]) /\ ToSet(r.ready[z]) = ToSet(kk.ready[z])
  BY <1>6, <1>10 DEF Shape, ListsOK, s
<1>12. Shape(r)
  <2>1. ListsOK(r)
    BY <1>9, <1>10, <1>11 DEF Shape, ListsOK
  <2>2. Numbers(r)
    BY <1>5, <1>6, <1>9 DEF Shape, Numbers
  <2> QED
    BY <1>9, <2>1, <2>2 DEF Shape
<1>13. \A t \in AllTasks : Ready(r, t) <=> Ready(kk, t)
  BY <1>1, <1>9, <1>11 DEF Ready
<1>14. ReadyAt(r)
  BY <1>9, <1>11 DEF ReadyAt, Apart
<1>15. \A t \in AllTasks : Ready(r, t) => r.uxPriority[t] <= r.top
  BY <1>2, <1>4, <1>9, <1>13
<1>16. Apart(r)
  BY <1>1, <1>9, <1>13, <1>14, <1>15 DEF Apart
<1>17. kk.uxPriority[Head(s)] = p
  BY <1>5, <1>6 DEF Apart, ReadyAt, s
<1>18. Ready(r, r.cur)
  BY <1>6, <1>9, <1>10, <1>17 DEF Ready
<1>19. KeepsTime(kk, r)
  BY <1>9 DEF KeepsTime, DelayedFor
<1>20. Woke(kk, r, {}, {})
  <2>1. \A x \in Queues : /\ Thinned(r.toReceive[x], kk.toReceive[x], {})
                          /\ Thinned(r.toSend[x], kk.toSend[x], {})
    BY <1>9, ThinnedNone DEF Shape, ListsOK
  <2>2. {} \cup {} = {} /\ Slept(r) = Slept(kk) /\ ToSet(r.pending) = ToSet(kk.pending)
    BY <1>9 DEF Slept
  <2> QED
    BY <1>9, <1>12, <1>13, <1>16, <2>1, <2>2 DEF Woke
<1>21. Switched(kk, r)
  BY <1>6, <1>9, <1>15, <1>17, <1>18, <1>19, <1>20 DEF Switched
<1> QED
  BY <1>7, <1>21

(* WakeFirst readies the head of the list, and asks for a switch if it must. *)
LEMMA WakeFirstFacts ==
  ASSUME NEW kk, Shape(kk), Apart(kk), ~kk.suspended, NEW list, List(list)
  PROVE  Wakes(kk, WakeFirst(kk, list), First(list),
               kk.yield \/ (list # <<>> /\ YieldNeeded(kk, Head(list))))
<1>1. CASE list = <<>>
  <2>1. WakeFirst(kk, list) = kk /\ First(list) = {}
    BY <1>1 DEF WakeFirst, First
  <2>2. Near(kk, kk) /\ RestOK(kk)
    BY RestIs DEF Near
  <2>3. Woke(kk, kk, {}, {}) /\ KeepsTime(kk, kk)
    BY <2>2, NearFacts
  <2>4. kk.yield = (kk.yield \/ FALSE) /\ (list # <<>> /\ YieldNeeded(kk, Head(list))) = FALSE
    BY <1>1 DEF Shape, Numbers
  <2> QED
    BY <2>1, <2>3, <2>4 DEF Wakes
<1>2. CASE list # <<>>
  <2> DEFINE h == Head(list)
             a == xTaskRemoveFromEventList(kk, h)
             y == YieldNeeded(kk, h)
             r == [a EXCEPT !.yield = @ \/ y]
  <2>1. WakeFirst(kk, list) = r /\ First(list) = {h}
    BY <1>2 DEF WakeFirst, First
  <2>2. h \in AllTasks
    BY <1>2, HeadFacts
  <2>3. y \in BOOLEAN
    BY DEF YieldNeeded
  <2> HIDE DEF h, y
  <2>4. Readied(kk, a, {h})
    BY <2>2, ReadiedOne DEF Apart
  <2> HIDE DEF a
  <2>5. Woke(kk, a, {h}, {}) /\ KeepsTime(kk, a) /\ Shape(a) /\ Apart(a) /\ SameFixed(kk, a)
    BY <2>4, ReadiedWoke DEF Readied, Woke
  <2>6. DOMAIN a = Fields /\ RestOK(a)
    BY <2>5, RestIs DEF Shape
  <2>7. /\ Near(a, r) /\ r.cur = a.cur /\ r.suspended = a.suspended /\ r.missedTicks = a.missedTicks
        /\ r.missedYield = a.missedYield /\ r.yield = (a.yield \/ y)
        /\ r.entered = a.entered /\ r.due = a.due /\ r.late = a.late /\ DOMAIN r = Fields
    BY <2>6 DEF Fields, Near
  <2> HIDE DEF r
  <2>8. RestOK(r)
    <3>1. r.yield \in BOOLEAN
      BY <2>3, <2>6, <2>7
    <3> QED
      BY <2>6, <2>7, <3>1 DEF RestOK
  <2>9. Woke(a, r, {}, {}) /\ KeepsTime(a, r)
    BY <2>5, <2>7, <2>8, NearFacts
  <2>10. Woke(kk, r, {h}, {}) /\ KeepsTime(kk, r)
    BY <2>5, <2>9, WokeAfter, KeepsTwice
  <2>11. r.yield = (kk.yield \/ y)
    BY <2>5, <2>7 DEF SameFixed
  <2>12. y = (list # <<>> /\ YieldNeeded(kk, Head(list)))
    BY <1>2, <2>3 DEF y, h
  <2> QED
    BY <2>1, <2>5, <2>7, <2>10, <2>11, <2>12 DEF Wakes, SameFixed, Near
<1> QED
  BY <1>1, <1>2

(* The first none of a list. *)
LEMMA FirstOfNone ==
  ASSUME NEW s
  PROVE  FirstOf(s, 0) = {}
<1>1. 1 .. 0 = {}
  OBVIOUS
<1> QED
  BY <1>1 DEF FirstOf

(* WakeMany makes as many waiters pending as the lock counted, or all there are. *)
LEMMA WakeManyFacts ==
  ASSUME NEW kk, Shape(kk), Apart(kk), kk.suspended, NEW list, List(list), NEW n \in Int
  PROVE  \E m \in 0 .. Len(list), y \in BOOLEAN :
           /\ n <= 0 => m = 0
           /\ n > 0 => m = IF n < Len(list) THEN n ELSE Len(list)
           /\ Pends(kk, WakeMany(kk, list, n), FirstOf(list, m), y)
<1> DEFINE m == IF n < Len(list) THEN n ELSE Len(list)
<1>1. list \in Seq(AllTasks) /\ Len(list) \in Nat
  BY DEF List
<1>2. CASE m <= 0
  <2>1. WakeMany(kk, list, n) = kk
    BY <1>2 DEF WakeMany
  <2>2. Near(kk, kk) /\ RestOK(kk)
    BY RestIs DEF Near
  <2>3. Woke(kk, kk, {}, {}) /\ KeepsTime(kk, kk)
    BY <2>2, NearFacts
  <2>4. FirstOf(list, 0) = {}
    BY FirstOfNone
  <2>5. Pends(kk, kk, FirstOf(list, 0), kk.missedYield)
    BY <2>3, <2>4 DEF Pends
  <2>6. 0 \in 0 .. Len(list) /\ (n > 0 => 0 = m)
    BY <1>1, <1>2
  <2>7. kk.missedYield \in BOOLEAN
    BY DEF Shape, Numbers
  <2> QED
    BY <2>1, <2>5, <2>6, <2>7
<1>3. CASE ~(m <= 0)
  <2> DEFINE a == WakeEach(kk, list, m)
             y == \E i \in 1 .. m : YieldNeeded(kk, list[i])
             r == [a EXCEPT !.missedYield = @ \/ y]
  <2>1. WakeMany(kk, list, n) = r
    BY <1>3 DEF WakeMany
  <2>2. m \in 0 .. Len(list) /\ n > 0
    BY <1>1, <1>3
  <2>3. y \in BOOLEAN
    OBVIOUS
  <2> HIDE DEF m, y
  <2>4. Pended(kk, a, FirstOf(list, m))
    BY <1>1, <2>2, WakeEachPends
  <2> HIDE DEF a
  <2>5. Woke(kk, a, {}, FirstOf(list, m)) /\ KeepsTime(kk, a) /\ Shape(a) /\ Apart(a) /\ SameFixed(kk, a)
    BY <2>4, PendedWoke DEF Pended, Woke
  <2>6. DOMAIN a = Fields /\ RestOK(a)
    BY <2>5, RestIs DEF Shape
  <2>7. /\ Near(a, r) /\ r.cur = a.cur /\ r.suspended = a.suspended /\ r.missedTicks = a.missedTicks
        /\ r.missedYield = (a.missedYield \/ y) /\ r.yield = a.yield
        /\ r.entered = a.entered /\ r.due = a.due /\ r.late = a.late /\ DOMAIN r = Fields
    BY <2>6 DEF Fields, Near
  <2> HIDE DEF r
  <2>8. r.missedYield \in BOOLEAN
    BY <2>3, <2>6, <2>7
  <2>9. RestOK(r)
    BY <2>6, <2>7, <2>8 DEF RestOK
  <2>10. Woke(a, r, {}, {}) /\ KeepsTime(a, r)
    BY <2>5, <2>7, <2>9, NearFacts
  <2>11. Woke(kk, r, {}, FirstOf(list, m)) /\ KeepsTime(kk, r)
    BY <2>5, <2>10, WokeAfter, KeepsTwice
  <2>12. Pends(kk, r, FirstOf(list, m), r.missedYield)
    BY <2>5, <2>7, <2>11 DEF Pends, SameFixed, Near
  <2>13. m = IF n < Len(list) THEN n ELSE Len(list)
    BY DEF m
  <2>14. ~(n <= 0)
    BY <2>2
  <2> QED
    BY <2>1, <2>2, <2>8, <2>12, <2>13, <2>14
<1> QED
  BY <1>2, <1>3

(* The interrupt readies h, or makes it pending, and says that it is late. *)
LEMMA IsrWakeFacts ==
  ASSUME NEW kk, Shape(kk), Apart(kk), NEW h \in Tasks
  PROVE  \E S, P :
           /\ Woke(kk, IsrWake(kk, h), S, P) /\ KeepsTime(kk, IsrWake(kk, h))
           /\ IF kk.suspended THEN S = {} /\ P = {h} /\ SameRest(kk, IsrWake(kk, h))
              ELSE /\ S = {h} /\ P = {} /\ IsrWake(kk, h).late = kk.late \cup {h}
                   /\ SameRest([kk EXCEPT !.late = kk.late \cup {h}], IsrWake(kk, h))
           /\ IsrWake(kk, h).uxPriority = kk.uxPriority
<1> DEFINE a == xTaskRemoveFromEventList(kk, h)
           v == IF kk.suspended THEN a.late ELSE a.late \cup {h}
           r == [a EXCEPT !.late = v]
           S == IF kk.suspended THEN {} ELSE {h}
           P == IF kk.suspended THEN {h} ELSE {}
<1>1. h \in AllTasks
  BY DEF AllTasks
<1>2. IsrWake(kk, h) = r
  BY DEF IsrWake
<1>3. Woke(kk, a, S, P) /\ KeepsTime(kk, a) /\ SameFixed(kk, a)
  <2>1. CASE kk.suspended
    <3>1. Pended(kk, a, {h})
      BY <1>1, <2>1, PendedOne
    <3> HIDE DEF a
    <3> QED
      BY <2>1, <3>1, PendedWoke DEF Pended
  <2>2. CASE ~kk.suspended
    <3>1. Readied(kk, a, {h})
      BY <1>1, <2>2, ReadiedOne DEF Apart
    <3> HIDE DEF a
    <3> QED
      BY <2>2, <3>1, ReadiedWoke DEF Readied
  <2> QED
    BY <2>1, <2>2
<1> HIDE DEF a
<1>4. Shape(a) /\ Apart(a) /\ RestOK(a) /\ DOMAIN a = Fields
  BY <1>3, RestIs DEF Woke, Shape
<1>5. v \subseteq Tasks
  BY <1>4 DEF RestOK
<1>v. v = IF kk.suspended THEN kk.late ELSE kk.late \cup {h}
  BY <1>3 DEF SameFixed
<1> HIDE DEF v
<1>6. /\ Near(a, r) /\ r.cur = a.cur /\ r.suspended = a.suspended /\ r.missedTicks = a.missedTicks
      /\ r.missedYield = a.missedYield /\ r.yield = a.yield
      /\ r.entered = a.entered /\ r.due = a.due /\ r.late = v /\ DOMAIN r = Fields
  BY <1>4 DEF Fields, Near
<1> HIDE DEF r
<1>7. RestOK(r)
  BY <1>4, <1>5, <1>6 DEF RestOK
<1>8. Woke(a, r, {}, {}) /\ KeepsTime(a, r)
  BY <1>4, <1>6, <1>7, NearFacts
<1>9. Woke(kk, r, S, P) /\ KeepsTime(kk, r)
  BY <1>3, <1>8, WokeAfter, KeepsTwice
<1>10. r.uxPriority = kk.uxPriority
  BY <1>3, <1>6 DEF SameFixed, Near
<1>11. CASE kk.suspended
  <2>1. SameRest(kk, r)
    BY <1>3, <1>6, <1>v, <1>11 DEF SameRest, SameFixed
  <2> QED
    BY <1>2, <1>9, <1>10, <1>11, <2>1
<1>12. CASE ~kk.suspended
  <2> DEFINE b == [kk EXCEPT !.late = kk.late \cup {h}]
  <2>1. b.late = kk.late \cup {h} /\ b.cur = kk.cur /\ b.suspended = kk.suspended
        /\ b.missedTicks = kk.missedTicks /\ b.missedYield = kk.missedYield /\ b.yield = kk.yield
        /\ b.entered = kk.entered /\ b.due = kk.due
    BY DEF Shape, Fields
  <2> HIDE DEF b
  <2>2. SameRest(b, r) /\ r.late = kk.late \cup {h}
    BY <1>3, <1>6, <1>v, <1>12, <2>1 DEF SameRest, SameFixed
  <2> QED
    BY <1>2, <1>9, <1>10, <1>12, <2>2 DEF b
<1> QED
  BY <1>11, <1>12

(* A move wakes the tasks that become ready. *)
LEMMA MovedWoke ==
  ASSUME NEW kk, NEW r, NEW S, Moved(kk, r, S), Shape(r), Apart(r)
  PROVE  Woke(kk, r, S, {})
<1>1. \A x \in Queues : /\ Thinned(r.toReceive[x], kk.toReceive[x], S)
                        /\ Thinned(r.toSend[x], kk.toSend[x], S)
  BY DEF Moved, Thins
<1>2. ToSet(r.pending) = ToSet(kk.pending) \ S
  BY DEF Moved, Thins, Thinned
<1>3. S \cup {} = S /\ ToSet(kk.pending) \cup {} = ToSet(kk.pending)
  OBVIOUS
<1> QED
  BY <1>1, <1>2, <1>3 DEF Woke, Moved

(* The tick handler readies the tasks that are due. *)
LEMMA TickedIs ==
  ASSUME NEW kk, Shape(kk), Apart(kk), DelayedOK(kk), ~kk.suspended
  PROVE  \E S : Ticked(kk, [vTaskIncrementTick(kk) EXCEPT !.yield = TRUE], S)
<1> DEFINE a == vTaskIncrementTick(kk)
           r == [a EXCEPT !.yield = TRUE]
<1>1. Ticks(kk, a, 1)
  BY TickFacts
<1> HIDE DEF a
<1>2. PICK S : S \subseteq Slept(kk) /\ Moved(kk, a, S)
  BY <1>1 DEF Ticks
<1>3. Shape(a) /\ Apart(a) /\ DelayedOK(a) /\ DOMAIN a = Fields /\ RestOK(a)
  BY <1>1, RestIs DEF Ticks, Shape
<1>4. /\ Near(a, r) /\ r.cur = a.cur /\ r.suspended = a.suspended /\ r.missedTicks = a.missedTicks
      /\ r.missedYield = a.missedYield /\ r.yield = TRUE
      /\ r.entered = a.entered /\ r.due = a.due /\ r.late = a.late /\ DOMAIN r = Fields
  BY <1>3 DEF Fields, Near
<1> HIDE DEF r
<1>5. RestOK(r)
  BY <1>3, <1>4 DEF RestOK
<1>6. Woke(a, r, {}, {}) /\ KeepsTime(a, r)
  BY <1>3, <1>4, <1>5, NearFacts
<1>7. Woke(kk, a, S, {})
  BY <1>2, <1>3, MovedWoke
<1>8. Woke(kk, r, S, {})
  BY <1>6, <1>7, WokeAfter
<1>9. DelayedOK(r)
  BY <1>3, <1>4, <1>6, DelayedForIs DEF KeepsTime
<1>10. /\ \A t \in AllTasks : r.due[t] <= kk.due[t]
       /\ \A t \in AllTasks, w \in Nat :
            w + MaxLate <= W /\ TimedAt(kk, w, t, 1) => TimedAt(r, w, t, 0)
  <2>1. \A t \in AllTasks : r.due[t] <= kk.due[t]
    BY <1>1, <1>4 DEF Ticks
  <2>2. ASSUME NEW t \in AllTasks, NEW w \in Nat, w + MaxLate <= W, TimedAt(kk, w, t, 1)
        PROVE  TimedAt(r, w, t, 0)
    <3>1. 1 \in Nat /\ 1 <= 1 /\ 1 - 1 = 0
      OBVIOUS
    <3>2. TimedAt(a, w, t, 1 - 1)
      BY <1>1, <2>2, <3>1 DEF Ticks
    <3>3. r.tick = a.tick
      BY <1>4 DEF Near
    <3> QED
      BY <1>4, <3>1, <3>2, <3>3 DEF TimedAt, Elapsed
  <2> QED
    BY <2>1, <2>2
<1>11. Ticked(kk, r, S)
  BY <1>2, <1>4, <1>8, <1>9, <1>10 DEF Ticked, Moved, Near
<1> QED
  BY <1>11 DEF r, a

(* xTaskResumeAll wakes the tasks that it readies. *)
LEMMA ResumedWoke ==
  ASSUME NEW kk, NEW r, NEW S, Resumed(kk, r, S), Shape(kk)
  PROVE  Woke(kk, r, S, {})
<1>1. \A x \in Queues : /\ Thinned(r.toReceive[x], kk.toReceive[x], S)
                        /\ Thinned(r.toSend[x], kk.toSend[x], S)
  BY DEF Resumed, Thins
<1>2. ToSet(r.pending) = ToSet(kk.pending) \ S
  BY DEF Resumed, Thins, Thinned
<1>3. S \cup {} = S /\ ToSet(kk.pending) \cup {} = ToSet(kk.pending)
  OBVIOUS
<1>4. S \subseteq AllTasks
  <2>1. ToSet(kk.pending) \subseteq AllTasks /\ Slept(kk) \subseteq AllTasks
    BY ListIn DEF Shape, ListsOK, Slept
  <2> QED
    BY <2>1 DEF Resumed
<1> QED
  BY <1>1, <1>2, <1>3, <1>4 DEF Woke, Resumed

-----------------------------------------------------------------------------
(* vTaskPlaceOnEventList. *)

(* A change of the event lists keeps the other lists right. *)
LEMMA ListedFacts ==
  ASSUME NEW kk, Shape(kk), Apart(kk), NEW r, Listed(kk, r), DOMAIN r = Fields,
         DOMAIN r.toReceive = Queues, DOMAIN r.toSend = Queues,
         \A x \in Queues : List(r.toReceive[x]) /\ List(r.toSend[x])
  PROVE  /\ Shape(r) /\ Apart(r) /\ \A t : Ready(r, t) <=> Ready(kk, t)
         /\ \A d : DelayedFor(kk, d) => DelayedFor(r, d)
<1>1. ListsOK(r)
  BY DEF Listed, Shape, ListsOK
<1>2. Numbers(r)
  BY DEF Listed, Shape, Numbers
<1>3. \A t : Ready(r, t) <=> Ready(kk, t)
  BY DEF Ready, Listed
<1>4. ReadyAt(r)
  BY DEF ReadyAt, Listed, Apart
<1>5. Apart(r)
  BY <1>3, <1>4 DEF Apart, Listed
<1>6. \A d : DelayedFor(kk, d) => DelayedFor(r, d)
  BY DEF DelayedFor, Listed
<1> QED
  BY <1>1, <1>2, <1>3, <1>5, <1>6 DEF Shape

(* A task without a time limit goes to the list of suspended tasks. *)
LEMMA ForeverFacts ==
  ASSUME NEW kk, Shape(kk), Apart(kk), NEW t \in Tasks, Ready(kk, t)
  PROVE  LET r == Forever(kk, t) IN
         /\ Shape(r) /\ Apart(r) /\ Unready(kk, r, t)
         /\ r.pending = kk.pending /\ r.toReceive = kk.toReceive /\ r.toSend = kk.toSend
         /\ Slept(r) = Slept(kk) /\ r.forever = kk.forever \cup {t}
         /\ \A d : DelayedFor(kk, d) => DelayedFor(r, d)
<1> DEFINE a == RemoveGeneric(kk, t)
           v == a.forever \cup {t}
           r == [a EXCEPT !.forever = v]
<1>1. Removed(kk, a, t)
  BY RemoveGenericFacts
<1>2. Forever(kk, t) = r
  BY DEF Forever
<1> HIDE DEF a
<1>3. Shape(a) /\ SameFixed(kk, a) /\ DOMAIN a = Fields
  BY <1>1 DEF Removed, Shape
<1>4. v = kk.forever \cup {t} /\ v \subseteq Tasks
  BY <1>1, <1>3 DEF Removed, Shape, Numbers
<1> HIDE DEF v
<1>5. /\ DOMAIN r = Fields /\ SameFixed(a, r) /\ r.delayed = a.delayed /\ r.overflow = a.overflow
      /\ r.forever = v /\ r.pending = a.pending /\ r.toReceive = a.toReceive
      /\ r.toSend = a.toSend /\ r.wake = a.wake /\ r.top = a.top /\ r.ready = a.ready
  BY <1>3 DEF Fields, SameFixed
<1> HIDE DEF r
<1>6. SameFixed(kk, r)
  BY <1>3, <1>5, SameTrans
<1>7. Shape(r)
  <2>1. ListsOK(r)
    BY <1>3, <1>5 DEF Shape, ListsOK
  <2>2. Numbers(r)
    BY <1>3, <1>4, <1>5 DEF Shape, Numbers, SameFixed
  <2> QED
    BY <1>5, <2>1, <2>2 DEF Shape
<1>8. (\A u \in AllTasks : Ready(r, u) <=> Ready(kk, u) /\ u # t) /\ ReadyAt(r)
  <2>1. (\A u \in AllTasks : Ready(a, u) <=> Ready(kk, u) /\ u # t) /\ ReadyAt(a)
    BY <1>1, RemovedReady
  <2>2. r.uxPriority = a.uxPriority
    BY <1>5 DEF SameFixed
  <2> QED
    BY <1>5, <2>1, <2>2 DEF Ready, ReadyAt
<1>9. t \notin ToSet(kk.delayed) /\ t \notin ToSet(kk.overflow) /\ t \notin kk.forever
      /\ t \in AllTasks /\ IDLE # t /\ IDLE \in AllTasks
  BY DEF Apart, AllTasks
<1>10. Thinned(r.delayed, kk.delayed, {t}) /\ Thinned(r.overflow, kk.overflow, {t})
  BY <1>1, <1>5 DEF Removed
<1>11. ToSet(r.delayed) = ToSet(kk.delayed) /\ ToSet(r.overflow) = ToSet(kk.overflow)
  <2>1. ToSet(r.delayed) = ToSet(kk.delayed) \ {t} /\ ToSet(r.overflow) = ToSet(kk.overflow) \ {t}
    BY <1>10 DEF Thinned
  <2> QED
    BY <1>9, <2>1
<1>12. r.top = kk.top /\ r.uxPriority = kk.uxPriority /\ r.forever = kk.forever \cup {t}
  BY <1>1, <1>4, <1>5, <1>6 DEF Removed, SameFixed
<1>13. Apart(r)
  BY <1>8, <1>9, <1>11, <1>12 DEF Apart
<1>14. \A d : DelayedFor(kk, d) => DelayedFor(r, d)
  <2>1. \A u \in AllTasks \ {t} : r.wake[u] = kk.wake[u]
    BY <1>1, <1>5 DEF Removed
  <2>2. r.tick = kk.tick /\ r.next = kk.next
    BY <1>6 DEF SameFixed
  <2>3. ASSUME NEW d, DelayedFor(kk, d) PROVE DelayedFor(r, d)
    BY <1>10, <2>1, <2>2, <2>3, DelayedThinned
  <2> QED
    BY <2>3
<1>15. Unready(kk, r, t)
  BY <1>6, <1>8 DEF Unready, SameFixed
<1>16. Slept(r) = Slept(kk) /\ r.pending = kk.pending /\ r.toReceive = kk.toReceive /\ r.toSend = kk.toSend
  BY <1>1, <1>5, <1>11 DEF Slept, Removed
<1> QED
  BY <1>2, <1>7, <1>12, <1>13, <1>14, <1>15, <1>16

(* The task joins one event list, in the order of priorities. *)
LEMMA ListingFacts ==
  ASSUME NEW kk, Shape(kk), Apart(kk), NEW t \in Tasks, NEW list, NEW x \in Queues,
         t \notin ToSet(kk.toReceive[x]), t \notin ToSet(kk.toSend[x])
  PROVE  LET r == Listing(kk, t, list, x) IN
         /\ Shape(r) /\ Apart(r) /\ Listed(kk, r)
         /\ \A u : Ready(r, u) <=> Ready(kk, u)
         /\ \A d : DelayedFor(kk, d) => DelayedFor(r, d)
         /\ \A y \in Queues :
              /\ IF list = "receive" /\ y = x THEN Joined(r.toReceive[y], kk.toReceive[y], t, EventOrder(kk))
                 ELSE r.toReceive[y] = kk.toReceive[y]
              /\ IF list # "receive" /\ y = x THEN Joined(r.toSend[y], kk.toSend[y], t, EventOrder(kk))
                 ELSE r.toSend[y] = kk.toSend[y]
<1> DEFINE value == EventOrder(kk)
           r == Listing(kk, t, list, x)
<1>1. t \in AllTasks /\ DOMAIN kk = Fields /\ DOMAIN kk.toReceive = Queues /\ DOMAIN kk.toSend = Queues
      /\ \A y \in Queues : List(kk.toReceive[y]) /\ List(kk.toSend[y])
  BY DEF AllTasks, Shape, ListsOK
<1>2. \A u \in AllTasks : value[u] \in Int
  <2>1. ASSUME NEW u \in AllTasks PROVE kk.uxPriority[u] \in Nat
    BY PrioritiesType DEF Shape, Numbers
  <2> QED
    BY <2>1 DEF EventOrder
<1> HIDE DEF value
<1>3. CASE list = "receive"
  <2> DEFINE v == vListInsert(kk.toReceive[x], t, value)
  <2>1. List(v) /\ Joined(v, kk.toReceive[x], t, value)
    BY <1>1, <1>2, InsertFacts DEF Joined
  <2>2. r = [kk EXCEPT !.toReceive[x] = v]
    BY <1>3 DEF Listing, value
  <2> HIDE DEF r, v
  <2>3. Listed(kk, r) /\ DOMAIN r = Fields /\ r.toReceive = [kk.toReceive EXCEPT ![x] = v] /\ r.toSend = kk.toSend
    BY <1>1, <2>2 DEF Fields, Listed
  <2>4. DOMAIN r.toReceive = Queues /\ r.toReceive[x] = v
        /\ \A y \in Queues : y # x => r.toReceive[y] = kk.toReceive[y]
    BY <1>1, <2>3
  <2>5. \A y \in Queues : List(r.toReceive[y]) /\ List(r.toSend[y])
    BY <1>1, <2>1, <2>3, <2>4
  <2>6. /\ Shape(r) /\ Apart(r) /\ \A u : Ready(r, u) <=> Ready(kk, u)
        /\ \A d : DelayedFor(kk, d) => DelayedFor(r, d)
    BY <1>1, <2>3, <2>4, <2>5, ListedFacts
  <2>7. ASSUME NEW y \in Queues
        PROVE  /\ IF list = "receive" /\ y = x THEN Joined(r.toReceive[y], kk.toReceive[y], t, value)
                  ELSE r.toReceive[y] = kk.toReceive[y]
               /\ IF list # "receive" /\ y = x THEN Joined(r.toSend[y], kk.toSend[y], t, value)
                  ELSE r.toSend[y] = kk.toSend[y]
    BY <1>3, <2>1, <2>3, <2>4
  <2> QED
    BY <2>3, <2>6, <2>7 DEF r, value
<1>4. CASE list # "receive"
  <2> DEFINE v == vListInsert(kk.toSend[x], t, value)
  <2>1. List(v) /\ Joined(v, kk.toSend[x], t, value)
    BY <1>1, <1>2, InsertFacts DEF Joined
  <2>2. r = [kk EXCEPT !.toSend[x] = v]
    BY <1>4 DEF Listing, value
  <2> HIDE DEF r, v
  <2>3. Listed(kk, r) /\ DOMAIN r = Fields /\ r.toSend = [kk.toSend EXCEPT ![x] = v] /\ r.toReceive = kk.toReceive
    BY <1>1, <2>2 DEF Fields, Listed
  <2>4. DOMAIN r.toSend = Queues /\ r.toSend[x] = v
        /\ \A y \in Queues : y # x => r.toSend[y] = kk.toSend[y]
    BY <1>1, <2>3
  <2>5. \A y \in Queues : List(r.toReceive[y]) /\ List(r.toSend[y])
    BY <1>1, <2>1, <2>3, <2>4
  <2>6. /\ Shape(r) /\ Apart(r) /\ \A u : Ready(r, u) <=> Ready(kk, u)
        /\ \A d : DelayedFor(kk, d) => DelayedFor(r, d)
    BY <1>1, <2>3, <2>4, <2>5, ListedFacts
  <2>7. ASSUME NEW y \in Queues
        PROVE  /\ IF list = "receive" /\ y = x THEN Joined(r.toReceive[y], kk.toReceive[y], t, value)
                  ELSE r.toReceive[y] = kk.toReceive[y]
               /\ IF list # "receive" /\ y = x THEN Joined(r.toSend[y], kk.toSend[y], t, value)
                  ELSE r.toSend[y] = kk.toSend[y]
    BY <1>4, <2>1, <2>3, <2>4
  <2> QED
    BY <2>3, <2>6, <2>7 DEF r, value
<1> QED
  BY <1>3, <1>4

(* vTaskPlaceOnEventList puts the task to sleep in an event list and in a delayed list. *)
LEMMA PlaceFacts ==
  ASSUME NEW kk, Shape(kk), Apart(kk), NEW t \in Tasks, t = kk.cur, Ready(kk, t),
         NEW list, NEW x \in Queues, NEW n \in 1 .. W - 1,
         t \notin ToSet(kk.toReceive[x]), t \notin ToSet(kk.toSend[x])
  PROVE  Placed(kk, vTaskPlaceOnEventList(kk, list, x, n), t, list, x, n)
<1> DEFINE a == Listing(kk, t, list, x)
           r == IF n = portMAX_DELAY THEN Forever(a, t) ELSE prvAddCurrentTaskToDelayedList(a, n)
<1>1. vTaskPlaceOnEventList(kk, list, x, n) = r
  BY DEF vTaskPlaceOnEventList, Listing, Forever
<1>2. /\ Shape(a) /\ Apart(a) /\ Listed(kk, a)
      /\ \A u : Ready(a, u) <=> Ready(kk, u)
      /\ \A d : DelayedFor(kk, d) => DelayedFor(a, d)
      /\ \A y \in Queues :
           /\ IF list = "receive" /\ y = x THEN Joined(a.toReceive[y], kk.toReceive[y], t, EventOrder(kk))
              ELSE a.toReceive[y] = kk.toReceive[y]
           /\ IF list # "receive" /\ y = x THEN Joined(a.toSend[y], kk.toSend[y], t, EventOrder(kk))
              ELSE a.toSend[y] = kk.toSend[y]
  BY ListingFacts
<1> HIDE DEF a
<1>3. t = a.cur /\ Ready(a, t) /\ Slept(a) = Slept(kk) /\ a.forever = kk.forever /\ a.pending = kk.pending
  BY <1>2 DEF Listed, Slept
<1>4. CASE n = portMAX_DELAY
  <2>1. r = Forever(a, t)
    BY <1>4
  <2> HIDE DEF r
  <2>2. /\ Shape(r) /\ Apart(r) /\ Unready(a, r, t)
        /\ r.pending = a.pending /\ r.toReceive = a.toReceive /\ r.toSend = a.toSend
        /\ Slept(r) = Slept(a) /\ r.forever = a.forever \cup {t}
        /\ \A d : DelayedFor(a, d) => DelayedFor(r, d)
    BY <1>2, <1>3, <2>1, ForeverFacts
  <2>3. Unready(kk, r, t)
    BY <1>2, <2>2 DEF Unready, Listed
  <2>4. \A y \in Queues :
           /\ IF list = "receive" /\ y = x THEN Joined(r.toReceive[y], kk.toReceive[y], t, EventOrder(kk))
              ELSE r.toReceive[y] = kk.toReceive[y]
           /\ IF list # "receive" /\ y = x THEN Joined(r.toSend[y], kk.toSend[y], t, EventOrder(kk))
              ELSE r.toSend[y] = kk.toSend[y]
    BY <1>2, <2>2
  <2>5. \A d : DelayedFor(kk, d) /\ (n # portMAX_DELAY => d[t] = n) => DelayedFor(r, d)
    BY <1>2, <2>2
  <2>6. Placed(kk, r, t, list, x, n)
    BY <1>3, <1>4, <2>2, <2>3, <2>4, <2>5 DEF Placed
  <2> QED
    BY <1>1, <2>6
<1>5. CASE n # portMAX_DELAY
  <2>1. r = prvAddCurrentTaskToDelayedList(a, n)
    BY <1>5
  <2> HIDE DEF r
  <2>2. Parked(a, r, t, n)
    BY <1>2, <1>3, <2>1, ParkFacts
  <2>3. Unready(kk, r, t)
    BY <1>2, <2>2 DEF Unready, Listed, Parked
  <2>4. \A y \in Queues :
           /\ IF list = "receive" /\ y = x THEN Joined(r.toReceive[y], kk.toReceive[y], t, EventOrder(kk))
              ELSE r.toReceive[y] = kk.toReceive[y]
           /\ IF list # "receive" /\ y = x THEN Joined(r.toSend[y], kk.toSend[y], t, EventOrder(kk))
              ELSE r.toSend[y] = kk.toSend[y]
    BY <1>2, <2>2 DEF Parked
  <2>5. \A d : DelayedFor(kk, d) /\ (n # portMAX_DELAY => d[t] = n) => DelayedFor(r, d)
    BY <1>2, <1>5, <2>2 DEF Parked
  <2>6. Placed(kk, r, t, list, x, n)
    BY <1>3, <1>5, <2>2, <2>3, <2>4, <2>5 DEF Placed, Parked
  <2> QED
    BY <1>1, <2>6
<1> QED
  BY <1>4, <1>5

-----------------------------------------------------------------------------
(* What the steps do to the calls and to the queues. *)

(* Go changes where the task is in its call. *)
LEMMA GoesFacts ==
  ASSUME TasksOK, NEW t \in Tasks, task[t].pc # "app", NEW pc, Go(t, pc)
  PROVE  Goes(t, pc)
<1>1. CallOK(task[t]) /\ DOMAIN task = Tasks
  BY DEF TasksOK
<1>2. task' = [task EXCEPT ![t] = [task[t] EXCEPT !.pc = pc]]
  BY DEF Go
<1> DEFINE c == [task[t] EXCEPT !.pc = pc]
<1>3. c = [pc |-> pc, fn |-> task[t].fn, x |-> task[t].x,
           wait |-> task[t].wait, item |-> task[t].item,
           entrySet |-> task[t].entrySet, expired |-> task[t].expired]
  BY <1>1 DEF CallOK
<1> HIDE DEF c
<1>4. task'[t] = c /\ Others(t)
  BY <1>1, <1>2 DEF c, Others
<1> QED
  BY <1>3, <1>4 DEF Goes

(* Return ends the call. *)
LEMMA LeavesFacts ==
  ASSUME TasksOK, NEW t \in Tasks, Return(t)
  PROVE  Leaves(t)
  BY DEF TasksOK, Return, Leaves, Others

(* prvCopyDataToQueue adds one item and frees the mutex. *)
LEMMA CopyToFacts ==
  ASSUME QueuesOK, NEW x \in Queues, NEW m, q' = prvCopyDataToQueue(x, m)
  PROVE  Counts(x, q[x].waiting + 1, Nothing, q[x].txLock, q[x].rxLock)
<1>1. q[x] \in Cell(x) /\ DOMAIN q = Queues
  BY DEF QueuesOK
<1>2. \A y \in Queues : y # x => q'[y] = q[y]
  BY <1>1 DEF prvCopyDataToQueue
<1>3. q'[x].waiting = q[x].waiting + 1 /\ q'[x].holder = Nothing
      /\ q'[x].txLock = q[x].txLock /\ q'[x].rxLock = q[x].rxLock
  BY <1>1 DEF prvCopyDataToQueue, Cell
<1> QED
  BY <1>2, <1>3 DEF Counts

(* prvCopyDataFromQueue takes one item, or the mutex. *)
LEMMA CopyFromFacts ==
  ASSUME QueuesOK, NEW x \in Queues, NEW t, q' = prvCopyDataFromQueue(x, t)
  PROVE  Counts(x, q[x].waiting - 1, IF x = Mutex THEN t ELSE q[x].holder, q[x].txLock, q[x].rxLock)
<1>1. q[x] \in Cell(x) /\ DOMAIN q = Queues
  BY DEF QueuesOK
<1>2. \A y \in Queues : y # x => q'[y] = q[y]
  BY <1>1 DEF prvCopyDataFromQueue
<1>3. q'[x].waiting = q[x].waiting - 1 /\ q'[x].holder = (IF x = Mutex THEN t ELSE q[x].holder)
      /\ q'[x].txLock = q[x].txLock /\ q'[x].rxLock = q[x].rxLock
  BY <1>1 DEF prvCopyDataFromQueue, Cell
<1> QED
  BY <1>2, <1>3 DEF Counts

(* The locks of one queue change. *)
LEMMA LockFacts ==
  ASSUME QueuesOK, NEW x \in Queues, NEW tx, NEW rx,
         q' = [q EXCEPT ![x].txLock = tx, ![x].rxLock = rx]
  PROVE  Counts(x, q[x].waiting, q[x].holder, tx, rx)
<1>1. q[x] \in Cell(x) /\ DOMAIN q = Queues
  BY DEF QueuesOK
<1>2. \A y \in Queues : y # x => q'[y] = q[y]
  BY <1>1
<1>3. q'[x].waiting = q[x].waiting /\ q'[x].holder = q[x].holder
      /\ q'[x].txLock = tx /\ q'[x].rxLock = rx
  BY <1>1 DEF Cell
<1> QED
  BY <1>2, <1>3 DEF Counts

-----------------------------------------------------------------------------
(* Facts about the task that runs. *)

(* A task in a call is in one of the three calls. *)
LEMMA InCallFacts ==
  ASSUME Ground, NEW t \in Tasks, task[t].pc # "app"
  PROVE  /\ task[t].fn \in {"send", "receive", "delay"}
         /\ task[t].fn # "delay" => task[t].x \in Queues
         /\ task[t].fn = "delay" => task[t].pc \in {"suspend", "delay", "resume", "yield"}
  BY DEF Ground, IInv, TasksOK, CallOK

(* The counts of a queue have their types. *)
LEMMA QueueFacts ==
  ASSUME Ground, NEW x \in Queues
  PROVE  /\ q[x].waiting \in 0 .. Length(x) /\ q[x].txLock \in Int /\ q[x].rxLock \in Int
         /\ q[x].holder \in Tasks \cup {Nothing}
         /\ Length(x) \in Nat \ {0} /\ Length(Mutex) = 1 /\ Length(Mbox) = uxLength
         /\ Mbox \in Queues /\ Mutex \in Queues /\ Mbox # Mutex
<1>1. q[x] \in Cell(x)
  BY DEF Ground, IInv, QueuesOK
<1>2. Length(x) \in Nat \ {0} /\ Length(Mutex) = 1 /\ Length(Mbox) = uxLength
  BY DEF Length
<1> QED
  BY <1>1, <1>2 DEF Cell, Queues

(* The scheduler runs when the current task is outside its suspended stretch. *)
LEMMA NotSuspended ==
  ASSUME Ground, NEW t \in Tasks, NEW pc, At(t, pc), pc \notin SuspendedPcs
  PROVE  ~k.suspended /\ k.missedTicks = 0 /\ ToSet(k.pending) = {}
  BY DEF Ground, SuspOK, At, Running

(* The scheduler is suspended when the current task is inside its suspended stretch. *)
LEMMA IsSuspended ==
  ASSUME Ground, NEW t \in Tasks, NEW pc, At(t, pc), pc \in SuspendedPcs
  PROVE  k.suspended
  BY DEF Ground, SuspOK, At, Running

(* The task that runs is ready, unless it has just been placed. *)
LEMMA RunsReady ==
  ASSUME Ground, NEW t \in Tasks, NEW pc, At(t, pc), pc \notin PlacedPcs
  PROVE  Ready(k, t)
  BY DEF Ground, CurOK, At, Running

(* A ready task is in no other list. *)
LEMMA NotInLists ==
  ASSUME Ground, NEW t \in Tasks, Ready(k, t), NEW x \in Queues
  PROVE  t \notin ToSet(k.toReceive[x]) /\ t \notin ToSet(k.toSend[x]) /\ t \notin ToSet(k.pending)
         /\ t \notin Slept(k) /\ t \notin k.forever
<1>1. t \in AllTasks
  BY DEF AllTasks
<1> QED
  BY <1>1 DEF Ground, EventsOK, SleepsIn, Apart, Slept

-----------------------------------------------------------------------------
(* A task begins a call. *)

(* What Begin changes. *)
LEMMA BeginIs ==
  ASSUME Ground, NEW t \in Tasks, NEW fn, NEW x, NEW n, NEW m, Begin(t, fn, x, n, m)
  PROVE  /\ At(t, "app") /\ Others(t) /\ k' = k /\ q' = q
         /\ ~task'[t].entrySet /\ ~task'[t].expired
         /\ task'[t].fn = fn /\ task'[t].x = x /\ task'[t].wait = n
         /\ task'[t].pc = IF fn # "delay" THEN "top" ELSE IF n > 0 THEN "suspend" ELSE "yield"
<1>1. DOMAIN task = Tasks
  BY DEF Ground, IInv, TasksOK
<1>2. task'[t] = [pc |-> IF fn # "delay" THEN "top" ELSE IF n > 0 THEN "suspend" ELSE "yield",
                  fn |-> fn, x |-> x, wait |-> n, item |-> m,
                  entrySet |-> FALSE, expired |-> FALSE]
  BY <1>1 DEF Begin
<1>3. Others(t)
  BY <1>1 DEF Begin, Others
<1>4. At(t, "app") /\ k' = k /\ q' = q
  BY DEF Begin
<1> QED
  BY <1>2, <1>3, <1>4

(* The application's calls are the five of BeginsAs. *)
LEMMA BeginFacts ==
  ASSUME Ground, NEW t \in Tasks, Application(t)
  PROVE  BeginEff(t)
<1>1. CASE sys_mbox_post(t)
  <2>1. Begin(t, "send", Mbox, portMAX_DELAY, Callback) /\ ~Holding(t)
    BY <1>1 DEF sys_mbox_post
  <2> QED
    BY <2>1, BeginIs DEF BeginEff, BeginsAs
<1>2. CASE sys_mbox_trypost(t)
  <2>1. Begin(t, "send", Mbox, 0, Callback) /\ ~Holding(t)
    BY <1>2 DEF sys_mbox_trypost
  <2> QED
    BY <2>1, BeginIs DEF BeginEff, BeginsAs
<1>3. CASE \E n \in FetchWaits : sys_arch_mbox_fetch(t, n)
  <2> PICK n \in FetchWaits : sys_arch_mbox_fetch(t, n)
    BY <1>3
  <2> DEFINE w == IF n = 0 THEN portMAX_DELAY ELSE n
  <2>1. Begin(t, "receive", Mbox, w, Nothing) /\ ~Holding(t)
    BY DEF sys_arch_mbox_fetch
  <2>2. w = portMAX_DELAY \/ (w \in Nat \ {0} /\ w + MaxLate <= W /\ w < W - 1)
    OBVIOUS
  <2> HIDE DEF w
  <2> QED
    BY <2>1, <2>2, BeginIs DEF BeginEff, BeginsAs
<1>4. CASE sys_mutex_lock(t)
  <2>1. Begin(t, "receive", Mutex, portMAX_DELAY, Nothing) /\ ~Holding(t)
    BY <1>4 DEF sys_mutex_lock
  <2> QED
    BY <2>1, BeginIs DEF BeginEff, BeginsAs
<1>5. CASE sys_mutex_unlock(t)
  <2>1. Begin(t, "send", Mutex, 0, Nothing) /\ Holding(t)
    BY <1>5 DEF sys_mutex_unlock
  <2> QED
    BY <2>1, BeginIs DEF BeginEff, BeginsAs
<1>6. CASE \E n \in Delays : vTaskDelay(t, n)
  <2> PICK n \in Delays : vTaskDelay(t, n)
    BY <1>6
  <2>1. Begin(t, "delay", Nothing, n, Nothing) /\ ~Holding(t)
    BY DEF vTaskDelay
  <2>2. n \in Nat /\ n < W - 1
    OBVIOUS
  <2> QED
    BY <2>1, <2>2, BeginIs DEF BeginEff, BeginsAs
<1> QED
  BY <1>1, <1>2, <1>3, <1>4, <1>5, <1>6 DEF Application

(* The lists of the woken are those of the current state. *)
LEMMA RunsNow ==
  ASSUME Ground, NEW t \in Tasks, NEW pc, At(t, pc)
  PROVE  /\ k.cur = t /\ k.yield = FALSE /\ task[t].pc = pc /\ t \in AllTasks
         /\ k.uxPriority \in [AllTasks -> Priorities]
         /\ \A x \in Queues : List(k.toReceive[x]) /\ List(k.toSend[x])
  BY DEF Ground, At, Running, Shape, Numbers, ListsOK, AllTasks

(* vTaskPriorityDisinherit gives the task back its own priority. *)
LEMMA DisinheritFacts ==
  ASSUME Ground, NEW t \in Tasks, At(t, "top"), task[t].fn = "send", task[t].x = Mutex
  PROVE  Raised(k, vTaskPriorityDisinherit(k, q[Mutex].holder), t, uxBasePriority[t])
<1>1. Holding(t)
  BY DEF Ground, MutexOK, Waits, At
<1>2. q[Mutex].holder = t /\ t # Nothing
  BY <1>1 DEF Holding
<1>3. Ready(k, t) /\ Shape(k) /\ Apart(k)
  BY RunsReady DEF PlacedPcs, Ground
<1>4. t \in AllTasks /\ uxBasePriority[t] \in Priorities /\ k.uxPriority \in [AllTasks -> Priorities]
  BY RunsNow, PrioritiesType
<1>5. CASE k.uxPriority[t] = uxBasePriority[t]
  <2>1. vTaskPriorityDisinherit(k, q[Mutex].holder) = k
    BY <1>2, <1>5 DEF vTaskPriorityDisinherit
  <2>2. Near(k, k) /\ RestOK(k)
    BY <1>3, RestIs DEF Near
  <2>3. Woke(k, k, {}, {}) /\ KeepsTime(k, k)
    BY <1>3, <2>2, NearFacts
  <2>4. k.uxPriority = [k.uxPriority EXCEPT ![t] = uxBasePriority[t]]
    BY <1>4, <1>5
  <2> QED
    BY <2>1, <2>3, <2>4 DEF Raised, SameRest
<1>6. CASE k.uxPriority[t] # uxBasePriority[t]
  <2>1. vTaskPriorityDisinherit(k, q[Mutex].holder) =
          MakeReady([k EXCEPT !.uxPriority[t] = uxBasePriority[t]], t)
    BY <1>2, <1>6 DEF vTaskPriorityDisinherit
  <2> QED
    BY <1>3, <1>4, <2>1, RaiseFacts
<1> QED
  BY <1>5, <1>6

(* Only the wait of t changes. *)
LEMMA RewaitFacts ==
  ASSUME NEW kk, Shape(kk), Apart(kk), NEW t \in Tasks, NEW n \in Int,
         NEW e \in [tick : 0 .. W - 1, wrapped : BOOLEAN]
  PROVE  /\ Rewaited(kk, [kk EXCEPT !.due[t] = n, !.entered[t] = e], t, n, e)
         /\ Rewaited(kk, [kk EXCEPT !.entered[t] = e], t, kk.due[t], e)
<1>1. DOMAIN kk = Fields /\ kk.due \in [AllTasks -> Int] /\ t \in AllTasks
      /\ kk.entered \in [AllTasks -> [tick : 0 .. W - 1, wrapped : BOOLEAN]] /\ RestOK(kk)
  BY RestIs DEF Shape, Numbers, AllTasks
<1>2. ASSUME NEW r, NEW m \in Int, DOMAIN r = Fields, Near(kk, r), SameFlags(kk, r),
             r.entered = [kk.entered EXCEPT ![t] = e], r.due = [kk.due EXCEPT ![t] = m]
      PROVE  Rewaited(kk, r, t, m, e)
  <2>4. /\ r.due[t] = m /\ r.entered[t] = e
        /\ \A u \in AllTasks : u # t => r.due[u] = kk.due[u] /\ r.entered[u] = kk.entered[u]
    BY <1>1, <1>2
  <2>5. r.due \in [AllTasks -> Int] /\ r.entered \in [AllTasks -> [tick : 0 .. W - 1, wrapped : BOOLEAN]]
    BY <1>1, <1>2
  <2>6. RestOK(r)
    BY <1>1, <1>2, <2>5 DEF RestOK, SameFlags
  <2>7. Woke(kk, r, {}, {}) /\ KeepsTime(kk, r)
    BY <1>2, <2>6, NearFacts
  <2> QED
    BY <1>2, <2>4, <2>7 DEF Rewaited, Near
<1> DEFINE a == [kk EXCEPT !.due[t] = n, !.entered[t] = e]
           b == [kk EXCEPT !.entered[t] = e]
<1>3. /\ DOMAIN a = Fields /\ Near(kk, a) /\ SameFlags(kk, a)
      /\ a.entered = [kk.entered EXCEPT ![t] = e] /\ a.due = [kk.due EXCEPT ![t] = n]
  BY <1>1 DEF Fields, Near, SameFlags
<1>4. /\ DOMAIN b = Fields /\ Near(kk, b) /\ SameFlags(kk, b)
      /\ b.entered = [kk.entered EXCEPT ![t] = e] /\ b.due = kk.due
  BY <1>1 DEF Fields, Near, SameFlags
<1>5. kk.due = [kk.due EXCEPT ![t] = kk.due[t]] /\ kk.due[t] \in Int
  BY <1>1
<1> HIDE DEF a, b
<1>6. Rewaited(kk, a, t, n, e)
  BY <1>2, <1>3
<1>7. Rewaited(kk, b, t, kk.due[t], e)
  BY <1>2, <1>4, <1>5
<1> QED
  BY <1>6, <1>7 DEF a, b

(* vTaskSetTimeOutState starts the clock of a wait. *)
LEMMA EnterFacts ==
  ASSUME Ground, NEW t \in Tasks, At(t, "top"), task[t].fn # "delay", Blocked(t), task[t].wait # 0,
         q' = q, vTaskSetTimeOutState(t)
  PROVE  EnterEff(t)
<1>1. CallOK(task[t]) /\ DOMAIN task = Tasks /\ task[t].wait \in 0 .. W - 1 /\ Shape(k) /\ Apart(k)
  BY DEF Ground, IInv, TasksOK, CallsOK, At
<1> DEFINE c == [pc |-> "suspend", fn |-> task[t].fn, x |-> task[t].x,
                 wait |-> task[t].wait, item |-> task[t].item,
                 entrySet |-> TRUE, expired |-> task[t].expired]
<1>2. c = [task[t] EXCEPT !.pc = "suspend", !.entrySet = TRUE]
  BY <1>1, TwoFields
<1>3. task'[t] = c /\ Others(t)
  BY <1>1, <1>2 DEF vTaskSetTimeOutState, Others
<1>4. CASE task[t].entrySet \/ task[t].wait = portMAX_DELAY
  <2>1. k' = k
    BY <1>4 DEF vTaskSetTimeOutState
  <2>2. Near(k, k) /\ RestOK(k)
    BY <1>1, RestIs DEF Near
  <2>3. WaitOf(t)
    BY <1>1, <2>1, <2>2, NearFacts DEF WaitOf, OtherWaits, SameFlags
  <2> QED
    BY <1>3, <1>4, <2>1, <2>3 DEF EnterEff
<1>5. CASE ~(task[t].entrySet \/ task[t].wait = portMAX_DELAY)
  <2> DEFINE e == [tick |-> k.tick, wrapped |-> FALSE]
  <2>1. k' = [k EXCEPT !.due[t] = task[t].wait, !.entered[t] = e]
    BY <1>5 DEF vTaskSetTimeOutState
  <2>2. e \in [tick : 0 .. W - 1, wrapped : BOOLEAN] /\ task[t].wait \in Int
    BY <1>1 DEF Shape, Numbers
  <2> HIDE DEF e
  <2>3. Rewaited(k, k', t, task[t].wait, e)
    BY <1>1, <2>1, <2>2, RewaitFacts
  <2>4. WaitOf(t) /\ k'.due[t] = task[t].wait /\ k'.entered[t] = e
    BY <2>3 DEF WaitOf, OtherWaits, Rewaited
  <2> QED
    BY <1>3, <1>5, <2>4 DEF EnterEff, e
<1> QED
  BY <1>4, <1>5

(* EndWait forgets the wait of t. *)
LEMMA EndWaitFacts ==
  ASSUME Ground, NEW t \in Tasks
  PROVE  Rewaited(k, EndWait(k, t), t, -MaxLate, [tick |-> 0, wrapped |-> TRUE])
<1> DEFINE e == [tick |-> 0, wrapped |-> TRUE]
           n == -MaxLate
<1>1. e \in [tick : 0 .. W - 1, wrapped : BOOLEAN] /\ n \in Int /\ Shape(k) /\ Apart(k)
  BY DEF Ground
<1>2. EndWait(k, t) = [k EXCEPT !.due[t] = n, !.entered[t] = e]
  BY DEF EndWait
<1> HIDE DEF e, n
<1>3. Rewaited(k, [k EXCEPT !.due[t] = n, !.entered[t] = e], t, n, e)
  BY ONLY <1>1, RewaitFacts, t \in Tasks
<1>4. Rewaited(k, EndWait(k, t), t, n, e)
  BY <1>2, <1>3
<1> QED
  BY <1>4 DEF e, n

(* What xQueueGenericSend does at the top of its loop. *)
LEMMA SendFacts ==
  ASSUME Ground, NEW t \in Tasks, xQueueGenericSend(t)
  PROVE  SendEff(t, task[t].x) \/ RefuseEff(t) \/ EnterEff(t)
<1> DEFINE x == task[t].x
<1>1. At(t, "top") /\ task[t].fn = "send" /\ task[t].pc # "app"
  BY DEF xQueueGenericSend, At
<1>2. x \in Queues /\ IInv /\ QueuesOK /\ TasksOK /\ Shape(k) /\ Apart(k)
  BY <1>1, InCallFacts DEF Ground, IInv
<1>3. ~k.suspended
  BY <1>1, NotSuspended DEF SuspendedPcs
<1>4. CASE q[x].waiting < Length(x)
  <2> DEFINE list == k.toReceive[x]
             a == IF x = Mutex THEN vTaskPriorityDisinherit(k, q[x].holder) ELSE k
             p == IF x = Mutex THEN [k.uxPriority EXCEPT ![t] = uxBasePriority[t]] ELSE k.uxPriority
             y == a.yield \/ (list # <<>> /\ YieldNeeded(a, Head(list)))
  <2>1. /\ q' = prvCopyDataToQueue(x, task[t].item)
        /\ k' = WakeFirst(a, list)
        /\ Return(t)
    BY <1>4 DEF xQueueGenericSend
  <2>2. Counts(x, q[x].waiting + 1, Nothing, q[x].txLock, q[x].rxLock) /\ Leaves(t)
    BY <1>2, <2>1, CopyToFacts, LeavesFacts
  <2>3. Woke(k, a, {}, {}) /\ KeepsTime(k, a) /\ SameRest(k, a) /\ a.uxPriority = p
    <3>1. CASE x = Mutex
      BY <1>1, <3>1, DisinheritFacts DEF Raised
    <3>2. CASE x # Mutex
      <4>1. Near(k, k) /\ RestOK(k)
        BY <1>2, RestIs DEF Near
      <4> QED
        BY <1>2, <3>2, <4>1, NearFacts DEF SameRest
    <3> QED
      BY <3>1, <3>2
  <2> HIDE DEF a
  <2>4. Shape(a) /\ Apart(a) /\ ~a.suspended /\ List(list)
    BY <1>1, <1>2, <1>3, <2>3, RunsNow DEF Woke, SameRest
  <2> HIDE DEF list
  <2>5. Wakes(a, k', First(list), y)
    BY <2>1, <2>4, WakeFirstFacts
  <2>6. Woke(k, k', First(list), {}) /\ KeepsTime(k, k')
    BY <2>3, <2>5, WokeThen, KeepsTwice DEF Wakes
  <2>7. /\ k'.cur = k.cur /\ k'.suspended = k.suspended /\ k'.missedTicks = k.missedTicks
        /\ k'.late = k.late /\ k'.due = k.due /\ k'.entered = k.entered /\ k'.uxPriority = p
        /\ k'.yield = y
    BY <2>3, <2>5 DEF Wakes, SameRest
  <2>8. y = (list # <<>> /\ p[Head(list)] >= p[t])
    BY <1>1, <2>3, RunsNow DEF YieldNeeded, SameRest
  <2> HIDE DEF y, p
  <2>9. k'.yield = (list # <<>> /\ k'.uxPriority[Head(list)] >= k'.uxPriority[t])
    BY <2>7, <2>8
  <2>10. SendEff(t, x)
    BY <1>1, <1>2, <1>4, <2>2, <2>6, <2>7, <2>9 DEF SendEff, list, p
  <2> QED
    BY <2>10
<1>5. CASE ~(q[x].waiting < Length(x))
  <2>0. Blocked(t)
    BY <1>1, <1>2, <1>5, QueueFacts DEF Blocked
  <2>1. q' = q /\ IF task[t].wait = 0 THEN Return(t) /\ k' = k ELSE vTaskSetTimeOutState(t)
    BY <1>5 DEF xQueueGenericSend
  <2>2. CASE task[t].wait = 0
    BY <1>1, <1>2, <2>0, <2>1, <2>2, LeavesFacts DEF RefuseEff
  <2>3. CASE task[t].wait # 0
    <3>1. vTaskSetTimeOutState(t)
      BY <2>1, <2>3
    <3>2. EnterEff(t)
      BY <1>1, <2>0, <2>1, <2>3, <3>1, EnterFacts
    <3> QED
      BY <3>2
  <2> QED
    BY <2>2, <2>3
<1> QED
  BY <1>4, <1>5

(* What xQueueGenericReceive does at the top of its loop. *)
LEMMA ReceiveFacts ==
  ASSUME Ground, NEW t \in Tasks, xQueueGenericReceive(t)
  PROVE  ReceiveEff(t, task[t].x) \/ RefuseEff(t) \/ EnterEff(t)
<1> DEFINE x == task[t].x
<1>1. At(t, "top") /\ task[t].fn = "receive" /\ task[t].pc # "app"
  BY DEF xQueueGenericReceive, At
<1>2. x \in Queues /\ IInv /\ QueuesOK /\ TasksOK /\ Shape(k) /\ Apart(k)
  BY <1>1, InCallFacts DEF Ground, IInv
<1>3. ~k.suspended
  BY <1>1, NotSuspended DEF SuspendedPcs
<1>4. CASE q[x].waiting > 0
  <2> DEFINE list == k.toSend[x]
             a == EndWait(k, t)
             p == k.uxPriority
             y == a.yield \/ (list # <<>> /\ YieldNeeded(a, Head(list)))
  <2>1. /\ q' = prvCopyDataFromQueue(x, t)
        /\ k' = WakeFirst(a, list)
        /\ Return(t)
    BY <1>4 DEF xQueueGenericReceive
  <2>2. Counts(x, q[x].waiting - 1, IF x = Mutex THEN t ELSE q[x].holder, q[x].txLock, q[x].rxLock)
        /\ Leaves(t)
    BY <1>2, <2>1, CopyFromFacts, LeavesFacts
  <2>3. /\ Woke(k, a, {}, {}) /\ KeepsTime(k, a) /\ SameFlags(k, a)
        /\ a.uxPriority = p
        /\ \A u \in AllTasks : u # t => a.due[u] = k.due[u] /\ a.entered[u] = k.entered[u]
    BY EndWaitFacts DEF Rewaited
  <2> HIDE DEF a
  <2>4. Shape(a) /\ Apart(a) /\ ~a.suspended /\ List(list)
    BY <1>1, <1>2, <1>3, <2>3, RunsNow DEF Woke, SameFlags
  <2> HIDE DEF list
  <2>5. Wakes(a, k', First(list), y)
    BY <2>1, <2>4, WakeFirstFacts
  <2>6. Woke(k, k', First(list), {}) /\ KeepsTime(k, k')
    BY <2>3, <2>5, WokeThen, KeepsTwice DEF Wakes
  <2>7. /\ k'.cur = k.cur /\ k'.suspended = k.suspended /\ k'.missedTicks = k.missedTicks
        /\ k'.late = k.late /\ OtherWaits(t) /\ k'.uxPriority = p
        /\ k'.yield = y
    BY <2>3, <2>5 DEF Wakes, SameFlags, OtherWaits
  <2>8. y = (list # <<>> /\ p[Head(list)] >= p[t])
    BY <1>1, <2>3, RunsNow DEF YieldNeeded, SameFlags
  <2> HIDE DEF y, p
  <2>9. k'.yield = (list # <<>> /\ p[Head(list)] >= p[t])
    BY <2>7, <2>8
  <2>10. ReceiveEff(t, x)
    BY <1>1, <1>2, <1>4, <2>2, <2>6, <2>7, <2>9 DEF ReceiveEff, list, p
  <2> QED
    BY <2>10
<1>5. CASE ~(q[x].waiting > 0)
  <2>0. Blocked(t)
    BY <1>1, <1>2, <1>5, QueueFacts DEF Blocked
  <2>1. q' = q /\ IF task[t].wait = 0 THEN Return(t) /\ k' = k ELSE vTaskSetTimeOutState(t)
    BY <1>5 DEF xQueueGenericReceive
  <2>2. CASE task[t].wait = 0
    BY <1>1, <1>2, <2>0, <2>1, <2>2, LeavesFacts DEF RefuseEff
  <2>3. CASE task[t].wait # 0
    <3>1. vTaskSetTimeOutState(t)
      BY <2>1, <2>3
    <3>2. EnterEff(t)
      BY <1>1, <2>0, <2>1, <2>3, <3>1, EnterFacts
    <3> QED
      BY <3>2
  <2> QED
    BY <2>2, <2>3
<1> QED
  BY <1>4, <1>5

(* A change of flags is a FlagStep. *)
LEMMA FlagFacts ==
  ASSUME Ground, NEW s \in BOOLEAN, NEW y \in BOOLEAN, NEW m \in BOOLEAN, NEW n \in 0 .. MaxMissed,
         k' = [k EXCEPT !.suspended = s, !.yield = y, !.missedYield = m, !.missedTicks = n]
  PROVE  /\ FlagStep /\ k'.suspended = s /\ k'.yield = y /\ k'.missedYield = m /\ k'.missedTicks = n
<1>1. DOMAIN k = Fields /\ Shape(k) /\ Apart(k) /\ RestOK(k)
  BY RestIs DEF Ground, Shape
<1>2. /\ DOMAIN k' = Fields /\ Near(k, k') /\ k'.cur = k.cur /\ k'.late = k.late
      /\ k'.due = k.due /\ k'.entered = k.entered
      /\ k'.suspended = s /\ k'.yield = y /\ k'.missedYield = m /\ k'.missedTicks = n
  BY <1>1 DEF Fields, Near
<1>3. RestOK(k')
  BY <1>1, <1>2 DEF RestOK
<1>4. Woke(k, k', {}, {}) /\ KeepsTime(k, k')
  BY <1>1, <1>2, <1>3, NearFacts
<1> QED
  BY <1>2, <1>4 DEF FlagStep, Near

(* The flags have their types. *)
LEMMA FlagTypes ==
  ASSUME Ground
  PROVE  /\ k.suspended \in BOOLEAN /\ k.yield \in BOOLEAN /\ k.missedYield \in BOOLEAN
         /\ k.missedTicks \in 0 .. MaxMissed /\ DOMAIN k = Fields
  BY DEF Ground, Shape, Numbers

(* What vTaskSuspendAll does. *)
LEMMA SuspendFacts ==
  ASSUME Ground, NEW t \in Tasks, vTaskSuspendAll(t)
  PROVE  SuspendEff(t)
<1>1. At(t, "suspend") /\ task[t].pc # "app" /\ q' = q
  BY DEF vTaskSuspendAll, At
<1>2. Goes(t, IF task[t].fn = "delay" THEN "delay" ELSE "lock")
  BY <1>1, GoesFacts DEF vTaskSuspendAll, Ground, IInv
<1>3. k' = [k EXCEPT !.suspended = TRUE, !.yield = k.yield, !.missedYield = k.missedYield,
                     !.missedTicks = k.missedTicks]
  BY FlagTypes DEF vTaskSuspendAll, Fields
<1>4. FlagStep /\ k'.suspended = TRUE /\ k'.yield = k.yield /\ k'.missedTicks = k.missedTicks
  <2>1. TRUE \in BOOLEAN
    OBVIOUS
  <2> QED
    BY <1>3, <2>1, FlagTypes, FlagFacts
<1> QED
  BY <1>1, <1>2, <1>4 DEF SuspendEff

(* What the yield at the end of a call does. *)
LEMMA YieldFacts ==
  ASSUME Ground, NEW t \in Tasks, Yield(t)
  PROVE  YieldEff(t)
<1>1. At(t, "yield") /\ task[t].pc # "app" /\ q' = q /\ TasksOK
  BY DEF Yield, At, Ground, IInv
<1>2. IF task[t].fn = "delay" THEN Leaves(t) ELSE Goes(t, "top")
  BY <1>1, GoesFacts, LeavesFacts DEF Yield
<1>3. k' = [k EXCEPT !.suspended = k.suspended, !.yield = TRUE, !.missedYield = k.missedYield,
                     !.missedTicks = k.missedTicks]
  BY FlagTypes DEF Yield, Fields
<1>4. FlagStep /\ k'.suspended = k.suspended /\ k'.yield = TRUE /\ k'.missedTicks = k.missedTicks
  <2>1. TRUE \in BOOLEAN
    OBVIOUS
  <2> QED
    BY <1>3, <2>1, FlagTypes, FlagFacts
<1> QED
  BY <1>1, <1>2, <1>4 DEF YieldEff

(* What prvLockQueue does. *)
LEMMA LockingFacts ==
  ASSUME Ground, NEW t \in Tasks, prvLockQueue(t)
  PROVE  LockEff(t, task[t].x)
<1> DEFINE x == task[t].x
           tx == IF q[x].txLock = -1 THEN 0 ELSE q[x].txLock
           rx == IF q[x].rxLock = -1 THEN 0 ELSE q[x].rxLock
<1>1. At(t, "lock") /\ task[t].pc = "lock" /\ k' = k /\ TasksOK /\ QueuesOK
  BY DEF prvLockQueue, At, Ground, IInv
<1>2. x \in Queues
  BY <1>1, InCallFacts
<1>3. Goes(t, "check")
  BY <1>1, GoesFacts DEF prvLockQueue
<1>4. q' = [q EXCEPT ![x].txLock = tx, ![x].rxLock = rx]
  <2>1. q[x] \in Cell(x) /\ DOMAIN q = Queues
    BY <1>1, <1>2 DEF QueuesOK
  <2> QED
    BY <1>2, <2>1 DEF prvLockQueue, queueUNLOCKED, Cell
<1> HIDE DEF tx, rx
<1>5. Counts(x, q[x].waiting, q[x].holder, tx, rx)
  BY <1>1, <1>2, <1>4, LockFacts
<1> QED
  BY <1>1, <1>2, <1>3, <1>5 DEF LockEff, tx, rx

(* What xTaskCheckForTimeOut does. *)
LEMMA CheckTimeFacts ==
  ASSUME Ground, NEW t \in Tasks, xTaskCheckForTimeOut(t)
  PROVE  CheckEff(t)
<1>1. At(t, "check") /\ task[t].pc = "check" /\ q' = q /\ TasksOK /\ Shape(k) /\ Apart(k)
  BY DEF xTaskCheckForTimeOut, At, Ground, IInv
<1>2. CallOK(task[t]) /\ DOMAIN task = Tasks
  BY <1>1 DEF TasksOK
<1>3. CASE task[t].wait = portMAX_DELAY
  BY <1>1, <1>3, GoesFacts DEF xTaskCheckForTimeOut, CheckEff
<1>4. CASE task[t].wait # portMAX_DELAY /\ ~Passed(t) /\ Since(t) < task[t].wait
  <2> DEFINE e == [tick |-> k.tick, wrapped |-> FALSE]
             n == task[t].wait - Since(t)
  <2>1. /\ task' = [task EXCEPT ![t].pc = "test", ![t].wait = @ - Since(t)]
        /\ k' = [k EXCEPT !.entered[t] = e]
    BY <1>4 DEF xTaskCheckForTimeOut, Passed, Since
  <2>2. e \in [tick : 0 .. W - 1, wrapped : BOOLEAN] /\ 0 \in Int
    BY <1>1 DEF Shape, Numbers
  <2> HIDE DEF e
  <2>3. Rewaited(k, [k EXCEPT !.entered[t] = e], t, k.due[t], e)
    BY ONLY <1>1, <2>2, RewaitFacts, t \in Tasks
  <2>4. Rewaited(k, k', t, k.due[t], [tick |-> k.tick, wrapped |-> FALSE])
    BY <2>1, <2>3 DEF e
  <2> DEFINE c == [task[t] EXCEPT !.pc = "test", !.wait = n]
  <2>5. task' = [task EXCEPT ![t] = c]
    BY <1>2, <2>1 DEF CallOK
  <2> HIDE DEF n
  <2>6. c = [pc |-> "test", fn |-> task[t].fn, x |-> task[t].x, wait |-> n, item |-> task[t].item,
             entrySet |-> task[t].entrySet, expired |-> task[t].expired]
    BY <1>2, TwoFields
  <2> HIDE DEF c
  <2>7. task'[t] = c /\ Others(t)
    BY <1>2, <2>5 DEF Others
  <2> QED
    BY <1>1, <1>4, <2>4, <2>6, <2>7 DEF CheckEff, n
<1>5. CASE task[t].wait # portMAX_DELAY /\ (Passed(t) \/ ~(Since(t) < task[t].wait))
  <2> DEFINE c == [task[t] EXCEPT !.pc = "unlockTx", !.expired = TRUE]
  <2>1. /\ task' = [task EXCEPT ![t].pc = "unlockTx", ![t].expired = TRUE]
        /\ k' = k
    BY <1>5 DEF xTaskCheckForTimeOut, Passed, Since
  <2>2. task' = [task EXCEPT ![t] = c]
    BY <2>1
  <2>3. c = [pc |-> "unlockTx", fn |-> task[t].fn, x |-> task[t].x, wait |-> task[t].wait,
             item |-> task[t].item, entrySet |-> task[t].entrySet, expired |-> TRUE]
    BY <1>2, TwoFields
  <2> HIDE DEF c
  <2>4. task'[t] = c /\ Others(t)
    BY <1>2, <2>2 DEF Others
  <2>5. /\ task'[t].pc = "unlockTx" /\ task'[t].expired = TRUE /\ task'[t].fn = task[t].fn
        /\ task'[t].x = task[t].x /\ task'[t].wait = task[t].wait
        /\ task'[t].entrySet = task[t].entrySet
    BY <2>3, <2>4
  <2> QED
    BY <1>1, <1>5, <2>1, <2>4, <2>5 DEF CheckEff
<1> QED
  BY <1>3, <1>4, <1>5

(* What the test of the locked queue does. *)
LEMMA TestFacts ==
  ASSUME Ground, NEW t \in Tasks, prvIsQueueBlocked(t)
  PROVE  TestEff(t)
<1>1. At(t, "test") /\ task[t].pc = "test" /\ q' = q /\ k' = k /\ TasksOK
  BY DEF prvIsQueueBlocked, At, Ground, IInv
<1>2. task[t].fn # "delay"
  BY <1>1, InCallFacts
<1>3. Go(t, IF ~Blocked(t) THEN "unlockTx"
            ELSE IF task[t].fn = "receive" /\ task[t].x = Mutex THEN "inherit" ELSE "place")
  BY DEF prvIsQueueBlocked, Blocked
<1>4. Goes(t, IF ~Blocked(t) THEN "unlockTx"
              ELSE IF task[t].fn = "receive" /\ task[t].x = Mutex THEN "inherit" ELSE "place")
  BY <1>1, <1>3, GoesFacts
<1> QED
  BY <1>1, <1>2, <1>4 DEF TestEff

(* Steps of the stretch with the scheduler suspended. *)

(* What the body of vTaskDelay does. *)
LEMMA DelayFacts ==
  ASSUME Ground, NEW t \in Tasks, Delay(t)
  PROVE  DelayEff(t)
<1> DEFINE n == task[t].wait
           a == prvAddCurrentTaskToDelayedList(k, n)
<1>1. At(t, "delay") /\ task[t].pc = "delay" /\ q' = q /\ TasksOK /\ Shape(k) /\ Apart(k) /\ DelayedOK(k)
  BY DEF Delay, At, Ground, IInv
<1>2. task[t].fn = "delay"
  BY <1>1 DEF Ground, CallsOK
<1>3. n \in 1 .. W - 2
  BY <1>1, <1>2 DEF Ground, CallsOK
<1>4. Ready(k, t) /\ k.cur = t /\ t \in AllTasks
  BY <1>1, RunsReady, RunsNow DEF PlacedPcs
<1>5. Goes(t, "resume")
  BY <1>1, GoesFacts DEF Delay
<1>6. k' = [a EXCEPT !.due[t] = n]
  BY DEF Delay
<1>7. Parked(k, a, t, n)
  <2>1. n \in 1 .. W - 1
    BY <1>3
  <2> QED
    BY ONLY <1>1, <1>4, <2>1, ParkFacts, t \in Tasks
<1>8. Shape(a) /\ Apart(a)
  BY <1>7 DEF Parked
<1> HIDE DEF a
<1>9. DOMAIN a = Fields /\ RestOK(a) /\ a.due \in [AllTasks -> Int]
  BY <1>8, RestIs DEF Shape, Numbers
<1>10. /\ Near(a, k') /\ k'.due = [a.due EXCEPT ![t] = n] /\ SameFlags(a, k')
       /\ DOMAIN k' = Fields /\ k'.entered = a.entered
  BY <1>6, <1>9 DEF Near, Fields, SameFlags
<1>11. RestOK(k')
  <2>1. k'.due \in [AllTasks -> Int]
    BY <1>3, <1>4, <1>9, <1>10
  <2> QED
    BY <1>9, <1>10, <2>1 DEF RestOK, SameFlags
<1>12. Woke(a, k', {}, {}) /\ KeepsTime(a, k')
  BY <1>8, <1>10, <1>11, NearFacts
<1>13. /\ Unready(k, a, t) /\ a.pending = k.pending /\ a.toReceive = k.toReceive /\ a.toSend = k.toSend
       /\ Slept(a) = Slept(k) \cup {t} /\ a.forever = k.forever
  BY <1>7 DEF Parked
<1> DEFINE d == [k.due EXCEPT ![t] = n]
<1>14. d = k'.due /\ d[t] = n /\ \A u \in AllTasks : u # t => d[u] = k.due[u]
  BY <1>4, <1>9, <1>10, <1>13 DEF Unready
<1>15. t \notin Slept(k)
  BY <1>1, <1>4 DEF Apart, Slept
<1>16. Slept(k) \subseteq AllTasks
  BY <1>1, ListIn DEF Slept, Shape, ListsOK
<1> HIDE DEF d
<1>17. DelayedFor(k, d)
  <2>1. DelayedFor(k, k.due)
    BY <1>1, DelayedForIs
  <2>2. \A u \in Slept(k) : d[u] = k.due[u]
    BY <1>14, <1>15, <1>16
  <2> QED
    BY <2>1, <2>2, DelayedForSame
<1>18. DelayedFor(a, d)
  BY <1>7, <1>14, <1>17 DEF Parked
<1>19. DelayedOK(k')
  BY <1>12, <1>14, <1>18, DelayedForIs DEF KeepsTime
<1>20. Shape(k') /\ Apart(k') /\ Slept(k') = Slept(a) /\ \A u \in AllTasks : Ready(k', u) <=> Ready(a, u)
  BY <1>12 DEF Woke
<1>21. SameFlags(k, k') /\ k'.uxPriority = k.uxPriority /\ k'.pending = k.pending
       /\ k'.toReceive = k.toReceive /\ k'.toSend = k.toSend /\ k'.forever = k.forever
       /\ k'.tick = k.tick /\ k'.entered = k.entered
  BY <1>10, <1>13 DEF Near, SameFlags, Unready
<1>22. \A u \in AllTasks : Ready(k', u) <=> Ready(k, u) /\ u # t
  BY <1>13, <1>20 DEF Unready
<1> QED
  BY <1>1, <1>2, <1>3, <1>4, <1>5, <1>13, <1>14, <1>19, <1>20, <1>21, <1>22 DEF DelayEff

(* What the inheritance of a priority does. *)
LEMMA InheritFacts ==
  ASSUME Ground, NEW t \in Tasks, Inherit(t)
  PROVE  \E h : InheritEff(t, h)
<1> DEFINE h == q[Mutex].holder
           p == k.uxPriority[t]
<1>1. At(t, "inherit") /\ task[t].pc = "inherit" /\ q' = q /\ TasksOK /\ Shape(k) /\ Apart(k)
  BY DEF Inherit, At, Ground, IInv
<1>2. Waits(t, "receive", Mutex) /\ h # Nothing
  BY <1>1 DEF Ground, MutexOK
<1>3. h \in Tasks /\ Holding(h)
  <2>1. Mutex \in Queues
    BY DEF Queues
  <2> QED
    BY <1>2, <2>1, QueueFacts DEF Holding
<1>4. Ready(k, h) /\ h # t
  BY <1>1, <1>2, <1>3 DEF Ground, MutexOK, Waits
<1>5. Goes(t, "place")
  BY <1>1, GoesFacts DEF Inherit
<1>6. k.cur = t /\ k.uxPriority \in [AllTasks -> Priorities] /\ t \in AllTasks /\ h \in AllTasks
  BY <1>1, <1>3, RunsNow DEF AllTasks
<1>7. k' = vTaskPriorityInherit(k, h)
  BY DEF Inherit
<1>8. CASE k.uxPriority[h] >= p
  <2>1. k' = k
    BY <1>2, <1>6, <1>7, <1>8 DEF vTaskPriorityInherit
  <2> QED
    BY <1>1, <1>2, <1>3, <1>4, <1>5, <1>8, <2>1 DEF InheritEff
<1>9. CASE ~(k.uxPriority[h] >= p)
  <2>1. k' = MakeReady([k EXCEPT !.uxPriority[h] = p], h)
    BY <1>2, <1>4, <1>6, <1>7, <1>9 DEF vTaskPriorityInherit, Ready
  <2>2. p \in Priorities
    BY <1>6
  <2> HIDE DEF h, p
  <2>3. Raised(k, k', h, p)
    BY <1>1, <1>4, <1>6, <2>1, <2>2, RaiseFacts
  <2> QED
    BY <1>1, <1>2, <1>3, <1>4, <1>5, <1>9, <2>3 DEF InheritEff, p
<1> QED
  BY <1>8, <1>9

(* What vTaskPlaceOnEventList does in a call. *)
LEMMA PlacingFacts ==
  ASSUME Ground, NEW t \in Tasks, Place(t)
  PROVE  PlaceEff(t, task[t].x)
<1> DEFINE x == task[t].x
           n == task[t].wait
           fn == task[t].fn
<1>1. At(t, "place") /\ task[t].pc = "place" /\ q' = q /\ TasksOK /\ Shape(k) /\ Apart(k)
  BY DEF Place, At, Ground, IInv
<1>2. x \in Queues /\ fn \in {"send", "receive"} 
  BY <1>1, InCallFacts
<1>3. n \in 1 .. W - 1 /\ ~task[t].expired
  BY <1>1 DEF Ground, CallsOK
<1>4. Ready(k, t) /\ k.cur = t
  BY <1>1, RunsReady, RunsNow DEF PlacedPcs
<1>5. Goes(t, "unlockTx")
  BY <1>1, GoesFacts DEF Place
<1>6. k' = vTaskPlaceOnEventList(k, fn, x, n)
  BY DEF Place
<1>7. t \notin ToSet(k.toReceive[x]) /\ t \notin ToSet(k.toSend[x])
  BY <1>2, <1>4, NotInLists
<1> HIDE DEF x, n, fn
<1>8. Placed(k, vTaskPlaceOnEventList(k, fn, x, n), t, fn, x, n)
  BY ONLY <1>1, <1>2, <1>3, <1>4, <1>7, PlaceFacts, t \in Tasks
<1>9. Placed(k, k', t, fn, x, n)
  BY <1>6, <1>8
<1> QED
  BY <1>1, <1>2, <1>3, <1>4, <1>5, <1>9 DEF PlaceEff, x, n, fn

(* What the first critical section of prvUnlockQueue does. *)
LEMMA UnlockTxFacts ==
  ASSUME Ground, NEW t \in Tasks, UnlockTx(t)
  PROVE  \E P, m : UnlockTxEff(t, task[t].x, P, m)
<1> DEFINE x == task[t].x
           list == k.toReceive[x]
           n == q[x].txLock
<1>1. At(t, "unlockTx") /\ task[t].pc = "unlockTx" /\ TasksOK /\ QueuesOK /\ Shape(k) /\ Apart(k)
  BY DEF UnlockTx, At, Ground, IInv
<1>2. task[t].fn # "delay" /\ x \in Queues
  BY <1>1, InCallFacts
<1>3. k.suspended /\ List(list)
  BY <1>1, <1>2, IsSuspended, RunsNow DEF SuspendedPcs
<1>4. Goes(t, "unlockRx")
  BY <1>1, GoesFacts DEF UnlockTx
<1>5. Counts(x, q[x].waiting, q[x].holder, -1, q[x].rxLock)
  <2>1. q[x] \in Cell(x) /\ DOMAIN q = Queues
    BY <1>1, <1>2 DEF QueuesOK
  <2>2. q' = [q EXCEPT ![x].txLock = -1]
    BY DEF UnlockTx, queueUNLOCKED
  <2>3. q' = [q EXCEPT ![x].txLock = -1, ![x].rxLock = q[x].rxLock]
    BY <1>2, <2>1, <2>2 DEF Cell
  <2> QED
    BY <1>1, <1>2, <2>3, LockFacts
<1>6. k' = WakeMany(k, list, n)
  BY DEF UnlockTx
<1>7. n \in Int
  BY <1>2, QueueFacts
<1> HIDE DEF x, list, n
<1>8. PICK m \in 0 .. Len(list), y \in BOOLEAN :
           /\ n <= 0 => m = 0
           /\ n > 0 => m = IF n < Len(list) THEN n ELSE Len(list)
           /\ Pends(k, WakeMany(k, list, n), FirstOf(list, m), y)
  BY ONLY <1>1, <1>3, <1>7, WakeManyFacts
<1>9. Pends(k, k', FirstOf(list, m), y)
  BY <1>6, <1>8
<1>10. CalledOut(t, x, FirstOf(list, m), m)
  BY <1>8 DEF CalledOut, list, n
<1>11. UnlockTxEff(t, x, FirstOf(list, m), m)
  BY <1>1, <1>2, <1>4, <1>5, <1>9, <1>10 DEF UnlockTxEff, x
<1> QED
  BY <1>11 DEF x

(* What the second critical section of prvUnlockQueue does: nobody is called. *)
LEMMA UnlockRxFacts ==
  ASSUME Ground, NEW t \in Tasks, UnlockRx(t)
  PROVE  UnlockRxEff(t, task[t].x)
<1> DEFINE x == task[t].x
<1>1. At(t, "unlockRx") /\ task[t].pc = "unlockRx" /\ TasksOK /\ QueuesOK /\ Shape(k)
  BY DEF UnlockRx, At, Ground, IInv
<1>2. task[t].fn # "delay" /\ x \in Queues
  BY <1>1, InCallFacts
<1>3. List(k.toSend[x])
  BY <1>1, <1>2, RunsNow
<1>4. Goes(t, "resume")
  BY <1>1, GoesFacts DEF UnlockRx
<1>5. Counts(x, q[x].waiting, q[x].holder, q[x].txLock, -1)
  <2>1. q[x] \in Cell(x) /\ DOMAIN q = Queues
    BY <1>1, <1>2 DEF QueuesOK
  <2>2. q' = [q EXCEPT ![x].rxLock = -1]
    BY DEF UnlockRx, queueUNLOCKED
  <2>3. q' = [q EXCEPT ![x].txLock = q[x].txLock, ![x].rxLock = -1]
    BY <1>2, <2>1, <2>2 DEF Cell
  <2> QED
    BY <1>1, <1>2, <2>3, LockFacts
<1>6. k' = k
  <2>1. q[x].rxLock \in {-1, 0}
    BY <1>2 DEF Ground, LocksOK
  <2>2. Len(k.toSend[x]) \in Nat
    BY <1>3, ToSetIs DEF List
  <2> QED
    BY SMTT(30), <2>1, <2>2 DEF UnlockRx, WakeMany
<1> QED
  BY <1>1, <1>2, <1>4, <1>5, <1>6 DEF UnlockRxEff

(* A wait that is given up leaves the lists alone. *)
LEMMA EndedFacts ==
  ASSUME Ground, NEW t \in Tasks, At(t, "resume")
  PROVE  EndedAs(t, Ended(t))
<1> DEFINE a == Ended(t)
<1>0. Shape(k) /\ Apart(k) /\ DelayedOK(k)
  BY DEF Ground
<1>1. CASE ~task[t].expired
  <2>1. a = k
    BY <1>1 DEF Ended
  <2>2. Near(k, k) /\ RestOK(k)
    BY <1>0, RestIs DEF Near
  <2>3. Woke(k, k, {}, {})
    BY <1>0, <2>2, NearFacts
  <2>4. EndedAs(t, k)
    BY <1>0, <2>3 DEF EndedAs, SameFlags
  <2> QED
    BY <2>1, <2>4
<1>2. CASE task[t].expired
  <2>1. a = EndWait(k, t)
    BY <1>2 DEF Ended
  <2> HIDE DEF a
  <2>2. Rewaited(k, a, t, -MaxLate, [tick |-> 0, wrapped |-> TRUE])
    BY <2>1, EndWaitFacts
  <2>3. /\ Woke(k, a, {}, {}) /\ KeepsTime(k, a) /\ SameFlags(k, a)
        /\ a.uxPriority = k.uxPriority /\ a.pending = k.pending
        /\ \A u \in AllTasks : u # t => a.due[u] = k.due[u] /\ a.entered[u] = k.entered[u]
    BY <2>2 DEF Rewaited
  <2>4. Ready(k, t)
    BY <1>2 DEF Ground, CurOK, At, Running
  <2>5. t \notin Slept(k) /\ t \in AllTasks
    BY <1>0, <2>4 DEF Apart, Slept, AllTasks
  <2>6. Slept(k) \subseteq AllTasks
    BY <1>0, ListIn DEF Slept, Shape, ListsOK
  <2>7. DelayedFor(k, k.due)
    BY <1>0, DelayedForIs
  <2>8. DelayedFor(k, a.due)
    <3>1. \A u \in Slept(k) : a.due[u] = k.due[u]
      BY <2>3, <2>5, <2>6
    <3> QED
      BY <2>7, <3>1, DelayedForSame
  <2>9. DelayedOK(a)
    BY <2>3, <2>8, DelayedForIs DEF KeepsTime
  <2>10. Shape(a) /\ Apart(a) /\ Slept(a) = Slept(k)
    BY <2>3 DEF Woke
  <2>11. \A u \in AllTasks : u # t => \A w, m : TimedAt(k, w, u, m) => TimedAt(a, w, u, m)
    <3>1. a.tick = k.tick
      BY <2>3 DEF KeepsTime
    <3> QED
      BY <2>3, <3>1 DEF TimedAt, Elapsed
  <2>12. YieldRequired(a) = YieldRequired(k)
    BY <2>3 DEF YieldRequired, YieldNeeded, SameFlags
  <2>13. EndedAs(t, a)
    <3>1. ToSet(a.pending) = ToSet(k.pending)
      BY <2>3
    <3>2. \A u \in AllTasks : u # t \/ ~task[t].expired => a.due[u] = k.due[u]
      BY <1>2, <2>3
    <3>3. \A u \in AllTasks : u # t \/ ~task[t].expired =>
            \A w, m : TimedAt(k, w, u, m) => TimedAt(a, w, u, m)
      BY <1>2, <2>11
    <3> QED
      BY <2>3, <2>9, <2>10, <2>12, <3>1, <3>2, <3>3 DEF EndedAs
  <2> QED
    BY <2>13 DEF a
<1> QED
  BY <1>1, <1>2

(* What xTaskResumeAll does at the end of the suspended stretch. *)
LEMMA ResumingFacts ==
  ASSUME Ground, NEW t \in Tasks, Resume(t)
  PROVE  \E S : ResumeEff(t, S)
<1> DEFINE a == Ended(t)
<1>1. At(t, "resume") /\ task[t].pc = "resume" /\ TasksOK /\ q' = q
  BY DEF Resume, At, Ground, IInv
<1>2. k' = xTaskResumeAll(a)
  BY DEF Resume, Ended
<1>3. EndedAs(t, a)
  BY <1>1, EndedFacts
<1> HIDE DEF a
<1>4. Shape(a) /\ Apart(a) /\ DelayedOK(a)
  BY <1>3 DEF EndedAs
<1>5. PICK S : Resumed(a, k', S)
  BY <1>2, <1>4, ResumeFacts
<1>6. Woke(a, k', S, {})
  BY <1>4, <1>5, ResumedWoke
<1>7. Woke(k, k', S, {})
  BY <1>3, <1>6, WokeThen DEF EndedAs
<1>8. /\ DelayedOK(k') /\ k'.cur = k.cur /\ k'.suspended = FALSE /\ k'.missedTicks = 0
      /\ k'.late = k.late /\ k'.uxPriority = k.uxPriority
      /\ ToSet(k.pending) \subseteq S /\ S \subseteq ToSet(k.pending) \cup Slept(k)
      /\ k.missedTicks = 0 => S = ToSet(k.pending)
  BY <1>3, <1>5 DEF EndedAs, Resumed, SameFlags
<1>9. k'.yield = YieldRequired(k)
  <2>1. k'.yield = (a.yield \/ YieldRequired(a)) /\ a.yield = k.yield
    BY <1>3, <1>5 DEF EndedAs, Resumed, SameFlags
  <2>2. k.yield = FALSE /\ YieldRequired(a) = YieldRequired(k)
    BY <1>1, <1>3, RunsNow DEF EndedAs
  <2>3. YieldRequired(k) \in BOOLEAN
    <3>1. k.missedYield \in BOOLEAN
      BY FlagTypes
    <3> QED
      BY <3>1 DEF YieldRequired
  <2> QED
    BY <2>1, <2>2, <2>3
<1>10. ToSet(k'.pending) = {}
  BY <1>5, EmptyList DEF Resumed
<1>11. \A u \in AllTasks : u # t \/ ~task[t].expired => k'.due[u] <= k.due[u]
  BY <1>3, <1>5 DEF EndedAs, Resumed
<1>12. \A u \in AllTasks, w \in Nat : u # t \/ ~task[t].expired =>
         (w + MaxLate <= W /\ TimedAt(k, w, u, k.missedTicks) => TimedAt(k', w, u, 0))
  <2>1. a.missedTicks = k.missedTicks
    BY <1>3 DEF EndedAs, SameFlags
  <2>2. \A u \in AllTasks, w \in Nat :
          w + MaxLate <= W /\ TimedAt(a, w, u, k.missedTicks) => TimedAt(k', w, u, 0)
    BY <1>5, <2>1 DEF Resumed
  <2>3. \A u \in AllTasks : u # t \/ ~task[t].expired =>
          \A w, m : TimedAt(k, w, u, m) => TimedAt(a, w, u, m)
    BY <1>3 DEF EndedAs
  <2> QED
    BY <2>2, <2>3
<1>13. IF task[t].expired THEN Leaves(t)
       ELSE IF ~Ready(k, t) /\ ~k'.yield THEN Goes(t, "yield")
       ELSE IF task[t].fn = "delay" THEN Leaves(t)
       ELSE Goes(t, "top")
  <2>1. IF task[t].expired THEN Return(t)
        ELSE IF ~Ready(k, t) /\ ~k'.yield THEN Go(t, "yield")
        ELSE IF task[t].fn = "delay" THEN Return(t)
        ELSE Go(t, "top")
    BY <1>9 DEF Resume, Ready
  <2> QED
    BY <1>1, <2>1, GoesFacts, LeavesFacts
<1>14. ResumeEff(t, S)
  BY <1>1, <1>7, <1>8, <1>9, <1>10, <1>11, <1>12, <1>13 DEF ResumeEff
<1> QED
  BY <1>14

-----------------------------------------------------------------------------
(* Steps that are not a task's. *)

(* What the context switch does. *)
LEMMA SwitchingFacts ==
  ASSUME Ground, vTaskSwitchContext
  PROVE  HoldEff \/ SwitchEff
<1>1. k.yield /\ q' = q /\ task' = task /\ Shape(k) /\ Apart(k)
  BY DEF vTaskSwitchContext, Ground
<1>2. CASE k.suspended
  <2>1. k' = [k EXCEPT !.yield = FALSE, !.missedYield = TRUE]
    BY <1>2 DEF vTaskSwitchContext
  <2>2. k' = [k EXCEPT !.suspended = k.suspended, !.yield = FALSE, !.missedYield = TRUE,
                     !.missedTicks = k.missedTicks]
    BY <2>1, FlagTypes DEF Fields
  <2>3. TRUE \in BOOLEAN /\ FALSE \in BOOLEAN
    OBVIOUS
  <2>4. FlagStep /\ k'.suspended = k.suspended /\ k'.yield = FALSE /\ k'.missedTicks = k.missedTicks
    BY <2>2, <2>3, FlagTypes, FlagFacts
  <2> QED
    BY <1>1, <1>2, <2>4 DEF HoldEff
<1>3. CASE ~k.suspended
  <2>1. k' = SwitchTo(k)
    BY <1>3 DEF vTaskSwitchContext, SwitchTo
  <2>2. Switched(k, k')
    BY <1>1, <2>1, SwitchFacts
  <2> QED
    BY <1>1, <1>3, <2>2 DEF SwitchEff
<1> QED
  BY <1>2, <1>3

(* What the tick handler does. *)
LEMMA TickingStep ==
  ASSUME Ground, xPortSysTickHandler
  PROVE  MissEff \/ \E S : TickEff(S)
<1>1. InTime /\ q' = q /\ task' = task /\ Shape(k) /\ Apart(k) /\ DelayedOK(k)
  BY DEF xPortSysTickHandler, Ground
<1>2. CASE k.suspended
  <2>1. k.missedTicks < MaxMissed /\ k' = [k EXCEPT !.missedTicks = @ + 1, !.yield = TRUE]
    BY <1>2 DEF xPortSysTickHandler
  <2>2. k' = [k EXCEPT !.suspended = k.suspended, !.yield = TRUE, !.missedYield = k.missedYield,
                     !.missedTicks = k.missedTicks + 1]
    BY <2>1, FlagTypes DEF Fields
  <2>3. TRUE \in BOOLEAN /\ k.missedTicks + 1 \in 0 .. MaxMissed
    BY <2>1, FlagTypes
  <2>4. FlagStep /\ k'.suspended = k.suspended /\ k'.yield = TRUE /\ k'.missedTicks = k.missedTicks + 1
    BY <2>2, <2>3, FlagTypes, FlagFacts
  <2> QED
    BY <1>1, <1>2, <2>4 DEF MissEff
<1>3. CASE ~k.suspended
  <2>1. k' = [vTaskIncrementTick(k) EXCEPT !.yield = TRUE]
    BY <1>3 DEF xPortSysTickHandler
  <2>2. \E S : Ticked(k, k', S)
    BY <1>1, <1>3, <2>1, TickedIs
  <2> QED
    BY <1>1, <1>3, <2>2 DEF TickEff
<1> QED
  BY <1>2, <1>3

(* What the interrupt's post does. *)
LEMMA IsrFacts ==
  ASSUME Ground, xQueueGenericSendFromISR
  PROVE  CountEff \/ QuietEff \/ \E h, S, P : PostEff(h, S, P)
<1> DEFINE list == k.toReceive[Mbox]
           copied == prvCopyDataToQueue(Mbox, Packet)
           h == Head(list)
<1>1. q[Mbox].waiting < Length(Mbox) /\ task' = task /\ QueuesOK /\ Shape(k) /\ Apart(k) /\ Mbox \in Queues
  BY DEF xQueueGenericSendFromISR, Ground, IInv, Queues
<1>2. CASE q[Mbox].txLock # -1
  <2>1. k' = k /\ q' = [copied EXCEPT ![Mbox].txLock = @ + 1]
    BY <1>2 DEF xQueueGenericSendFromISR, queueUNLOCKED
  <2>2. Counts(Mbox, q[Mbox].waiting + 1, Nothing, q[Mbox].txLock + 1, q[Mbox].rxLock)
    <3>1. q[Mbox] \in Cell(Mbox) /\ DOMAIN q = Queues
      BY <1>1 DEF QueuesOK
    <3>2. \A y \in Queues : y # Mbox => q'[y] = q[y]
      BY <2>1, <3>1 DEF prvCopyDataToQueue
    <3>3. q'[Mbox].waiting = q[Mbox].waiting + 1 /\ q'[Mbox].holder = Nothing
          /\ q'[Mbox].txLock = q[Mbox].txLock + 1 /\ q'[Mbox].rxLock = q[Mbox].rxLock
      BY <1>1, <2>1, <3>1 DEF prvCopyDataToQueue, Cell
    <3> QED
      BY <3>2, <3>3 DEF Counts
  <2>3. CountEff
    BY <1>1, <1>2, <2>1, <2>2 DEF CountEff
  <2> QED
    BY <2>3
<1>3. CASE q[Mbox].txLock = -1
  <2>1. /\ q' = copied
        /\ k' = IF list = <<>> THEN k ELSE IsrWake(k, h)
    BY <1>3 DEF xQueueGenericSendFromISR, queueUNLOCKED, IsrWake
  <2>2. Counts(Mbox, q[Mbox].waiting + 1, Nothing, q[Mbox].txLock, q[Mbox].rxLock)
    BY <1>1, <2>1, CopyToFacts
  <2>3. CASE list = <<>>
    <3>1. QuietEff
      BY <1>1, <1>3, <2>1, <2>2, <2>3 DEF QuietEff
    <3> QED
      BY <3>1
  <2>4. CASE list # <<>>
    <3>1. List(list)
      BY <1>1 DEF Shape, ListsOK
    <3>2. h \in ToSet(list)
      BY <2>4, <3>1, HeadFacts
    <3>3. h \in Tasks
      BY <1>1, <3>2 DEF Ground, EventsOK, SleepsIn
    <3>4. k' = IsrWake(k, h)
      BY <2>1, <2>4
    <3> HIDE DEF h, list
    <3>5. PICK S, P :
           /\ Woke(k, k', S, P) /\ KeepsTime(k, k')
           /\ IF k.suspended THEN S = {} /\ P = {h} /\ SameRest(k, k')
              ELSE /\ S = {h} /\ P = {} /\ k'.late = k.late \cup {h}
                   /\ SameRest([k EXCEPT !.late = k.late \cup {h}], k')
           /\ k'.uxPriority = k.uxPriority
      BY <1>1, <3>3, <3>4, IsrWakeFacts
    <3>6. /\ k'.cur = k.cur /\ k'.suspended = k.suspended /\ k'.missedTicks = k.missedTicks
          /\ k'.yield = k.yield /\ k'.due = k.due /\ k'.entered = k.entered
      <4>1. DOMAIN k = Fields
        BY <1>1 DEF Shape
      <4> QED
        BY <3>5, <4>1 DEF SameRest, Fields
    <3>7. k.suspended => k'.late = k.late
      BY <3>5 DEF SameRest
    <3>8. PostEff(h, S, P)
      BY <1>1, <1>3, <2>2, <2>4, <3>2, <3>3, <3>5, <3>6, <3>7 DEF PostEff, h, list
    <3> QED
      BY <3>8
  <2> QED
    BY <2>3, <2>4
<1> QED
  <2>1. q[Mbox].txLock \in Int
    BY <1>1, QueueFacts
  <2> QED
    BY <1>2, <1>3

(* A step in a call has one of the effects. *)
LEMMA InCallEff ==
  ASSUME Ground, NEW t \in Tasks, InCall(t)
  PROVE  TaskEff(t)
<1>1. CASE xQueueGenericSend(t)
  BY <1>1, SendFacts DEF TaskEff
<1>2. CASE xQueueGenericReceive(t)
  BY <1>2, ReceiveFacts DEF TaskEff
<1>3. CASE vTaskSuspendAll(t)
  BY <1>3, SuspendFacts DEF TaskEff
<1>4. CASE Delay(t)
  BY <1>4, DelayFacts DEF TaskEff
<1>5. CASE prvLockQueue(t)
  BY <1>5, LockingFacts DEF TaskEff
<1>6. CASE xTaskCheckForTimeOut(t)
  BY <1>6, CheckTimeFacts DEF TaskEff
<1>7. CASE prvIsQueueBlocked(t)
  BY <1>7, TestFacts DEF TaskEff
<1>8. CASE Inherit(t)
  BY <1>8, InheritFacts DEF TaskEff
<1>9. CASE Place(t)
  BY <1>9, PlacingFacts DEF TaskEff
<1>10. CASE UnlockTx(t)
  BY <1>10, UnlockTxFacts DEF TaskEff
<1>11. CASE UnlockRx(t)
  BY <1>11, UnlockRxFacts DEF TaskEff
<1>12. CASE Resume(t)
  BY <1>12, ResumingFacts DEF TaskEff
<1>13. CASE Yield(t)
  BY <1>13, YieldFacts DEF TaskEff
<1> QED
  BY <1>1, <1>2, <1>3, <1>4, <1>5, <1>6, <1>7, <1>8, <1>9, <1>10, <1>11, <1>12, <1>13 DEF InCall

(* Every step has one of the effects. *)
LEMMA NextEff ==
  ASSUME Ground, Next
  PROVE  IsrEff \/ \E t \in Tasks : TaskEff(t)
<1>1. CASE \E t \in Tasks : Application(t) \/ InCall(t)
  <2> PICK t \in Tasks : Application(t) \/ InCall(t)
    BY <1>1
  <2>1. CASE Application(t)
    BY <2>1, BeginFacts DEF TaskEff
  <2>2. CASE InCall(t)
    BY <2>2, InCallEff
  <2> QED
    BY <2>1, <2>2
<1>2. CASE vTaskSwitchContext
  BY <1>2, SwitchingFacts DEF IsrEff
<1>3. CASE xPortSysTickHandler
  BY <1>3, TickingStep DEF IsrEff
<1>4. CASE xQueueGenericSendFromISR
  BY <1>4, IsrFacts DEF IsrEff
<1> QED
  BY <1>1, <1>2, <1>3, <1>4 DEF Next

-----------------------------------------------------------------------------
(* The shape of the lists. *)

(* A step that leaves the scheduler alone. *)
LEMMA WokeNone ==
  ASSUME Ground, k' = k
  PROVE  Woke(k, k', {}, {}) /\ KeepsTime(k, k')
<1>1. Shape(k) /\ Apart(k) /\ Near(k, k) /\ RestOK(k)
  BY RestIs DEF Ground, Near
<1>2. Woke(k, k, {}, {}) /\ KeepsTime(k, k)
  BY <1>1, NearFacts
<1> QED
  BY <1>2

(* Only the mailbox has waiters to call when a queue is unlocked. *)
LEMMA CalledFacts ==
  ASSUME Ground, NEW t, NEW x \in Queues, NEW P, NEW m, CalledOut(t, x, P, m)
  PROVE  P \subseteq ToSet(k.toReceive[x]) /\ P \subseteq ToSet(k.toReceive[Mbox])
         /\ (x = Mutex => P = {})
<1>1. List(k.toReceive[x]) /\ k.toReceive[x] \in Seq(AllTasks)
  BY DEF Ground, Shape, ListsOK, List
<1>2. m \in 0 .. Len(k.toReceive[x]) /\ P = FirstOf(k.toReceive[x], m)
  BY DEF CalledOut
<1>3. P \subseteq ToSet(k.toReceive[x])
  BY <1>1, <1>2, ToSetIs DEF FirstOf
<1>4. CASE x = Mutex
  <2>1. q[x].txLock <= 0
    BY <1>4 DEF Ground, LocksOK
  <2>2. m = 0
    BY <2>1 DEF CalledOut
  <2>3. P = {}
    BY <1>2, <2>2, FirstOfNone
  <2> QED
    BY <1>4, <2>3
<1>5. CASE x # Mutex
  <2>1. x = Mbox
    BY <1>5 DEF Queues
  <2> QED
    BY <1>3, <1>5, <2>1
<1> QED
  BY <1>4, <1>5

(* How a step of a task changes the lists. *)
LEMMA TaskStays ==
  ASSUME Ground, NEW t \in Tasks, TaskEff(t)
  PROVE  Stays(t)
<1>1. CASE BeginEff(t) \/ RefuseEff(t) \/ TestEff(t)
  BY <1>1, WokeNone DEF BeginEff, RefuseEff, TestEff, Stays
<1>2. CASE EnterEff(t)
  BY <1>2 DEF EnterEff, WaitOf, Stays
<1>3. CASE SuspendEff(t) \/ YieldEff(t)
  BY <1>3 DEF SuspendEff, YieldEff, FlagStep, Stays
<1>4. CASE DelayEff(t)
  BY <1>4 DEF Stays
<1>5. CASE CheckEff(t)
  <2>1. k' = k \/ Rewaited(k, k', t, k.due[t], [tick |-> k.tick, wrapped |-> FALSE])
    BY <1>5 DEF CheckEff
  <2> QED
    BY <2>1, WokeNone DEF Rewaited, Stays
<1>6. CASE \E x : SendEff(t, x) \/ ReceiveEff(t, x) \/ LockEff(t, x) \/ PlaceEff(t, x) \/ UnlockRxEff(t, x)
  <2> PICK x : SendEff(t, x) \/ ReceiveEff(t, x) \/ LockEff(t, x) \/ PlaceEff(t, x) \/ UnlockRxEff(t, x)
    BY <1>6
  <2>1. CASE SendEff(t, x)
    BY <2>1 DEF SendEff, Stays
  <2>2. CASE ReceiveEff(t, x)
    BY <2>2 DEF ReceiveEff, Stays
  <2>3. CASE LockEff(t, x) \/ UnlockRxEff(t, x)
    BY <2>3, WokeNone DEF LockEff, UnlockRxEff, Stays
  <2>4. CASE PlaceEff(t, x)
    BY <2>4 DEF Stays
  <2> QED
    BY <2>1, <2>2, <2>3, <2>4
<1>7. CASE \E h : InheritEff(t, h)
  <2> PICK h : InheritEff(t, h)
    BY <1>7
  <2>1. k' = k \/ Raised(k, k', h, k.uxPriority[t])
    BY DEF InheritEff
  <2> QED
    BY <2>1, WokeNone DEF Raised, Stays
<1>8. CASE \E x, P, m : UnlockTxEff(t, x, P, m)
  <2> PICK x, P, m : UnlockTxEff(t, x, P, m)
    BY <1>8
  <2>1. x \in Queues /\ CalledOut(t, x, P, m) /\ Woke(k, k', {}, P)
    BY DEF UnlockTxEff, Pends
  <2>2. P \subseteq ToSet(k.toReceive[Mbox])
    BY <2>1, CalledFacts
  <2> QED
    BY <2>1, <2>2 DEF Stays
<1>9. CASE \E S : ResumeEff(t, S)
  BY <1>9 DEF ResumeEff, Stays
<1> QED
  BY <1>1, <1>2, <1>3, <1>4, <1>5, <1>6, <1>7, <1>8, <1>9 DEF TaskEff

(* How a step of an interrupt changes the lists. *)
LEMMA IsrStays ==
  ASSUME Ground, IsrEff
  PROVE  \E S, P : P \subseteq ToSet(k.toReceive[Mbox]) /\ Woke(k, k', S, P)
<1>1. CASE CountEff \/ QuietEff
  BY <1>1, WokeNone DEF CountEff, QuietEff
<1>2. CASE HoldEff \/ MissEff
  BY <1>2 DEF HoldEff, MissEff, FlagStep
<1>3. CASE SwitchEff
  BY <1>3 DEF SwitchEff, Switched
<1>4. CASE \E S : TickEff(S)
  BY <1>4 DEF TickEff, Ticked
<1>5. CASE \E h, S, P : PostEff(h, S, P)
  <2> PICK h, S, P : PostEff(h, S, P)
    BY <1>5
  <2>1. Woke(k, k', S, P) /\ P \subseteq {h} /\ h \in ToSet(k.toReceive[Mbox])
    BY DEF PostEff
  <2> QED
    BY <2>1
<1> QED
  BY <1>1, <1>2, <1>3, <1>4, <1>5 DEF IsrEff

(* Every step keeps the shape of the lists. *)
LEMMA ShapeKept ==
  ASSUME Ground, IsrEff \/ \E t \in Tasks : TaskEff(t)
  PROVE  Shape(k') /\ Apart(k')
<1>1. CASE IsrEff
  BY <1>1, IsrStays DEF Woke
<1>2. CASE \E t \in Tasks : TaskEff(t)
  <2> PICK t \in Tasks : TaskEff(t)
    BY <1>2
  <2>1. Stays(t)
    BY TaskStays
  <2> QED
    BY <2>1 DEF Stays, Woke, DelayEff, PlaceEff, Placed
<1> QED
  BY <1>1, <1>2

-----------------------------------------------------------------------------
(* The scheduler is suspended for a stretch of a call. *)

(* A step of the current task enters or leaves its suspended stretch. *)
LEMMA SuspByTask ==
  ASSUME Ground, NEW t \in Tasks, k.cur = t, k'.cur = t, Others(t),
         task'[t].pc \in SuspendedPcs <=> k'.suspended,
         ~k'.suspended => k'.missedTicks = 0 /\ ToSet(k'.pending) = {}
  PROVE  SuspOK'
<1>1. \A u \in Tasks : u # t => task'[u].pc \notin SuspendedPcs
  BY DEF Ground, SuspOK, Others
<1> QED
  BY <1>1 DEF SuspOK

(* The same when the scheduler stays as it is. *)
LEMMA SuspSame ==
  ASSUME Ground, NEW t \in Tasks, NEW pc, At(t, pc), Others(t), k'.cur = t,
         k'.suspended = k.suspended, k'.missedTicks = k.missedTicks,
         k.suspended \/ ToSet(k'.pending) = {},
         task'[t].pc \in SuspendedPcs <=> pc \in SuspendedPcs
  PROVE  SuspOK'
<1>1. k.cur = t /\ task[t].pc = pc
  BY RunsNow
<1>2. k.suspended <=> pc \in SuspendedPcs
  BY <1>1 DEF Ground, SuspOK
<1>3. ~k.suspended => k.missedTicks = 0
  BY DEF Ground, SuspOK
<1> QED
  BY <1>1, <1>2, <1>3, SuspByTask

(* A step of a task keeps SuspOK. *)
LEMMA SuspKept ==
  ASSUME Ground, NEW t \in Tasks, TaskEff(t)
  PROVE  SuspOK'
<1>1. ASSUME BeginEff(t) PROVE SuspOK'
  <2>1. /\ At(t, "app") /\ Others(t) /\ k' = k /\ task'[t].pc \in {"top", "suspend", "yield"}
    BY <1>1 DEF BeginEff, BeginsAs
  <2>2. k.cur = t /\ ToSet(k.pending) = {}
    BY <2>1, RunsNow, NotSuspended DEF SuspendedPcs
  <2> QED
    BY <2>1, <2>2, SuspSame DEF SuspendedPcs
<1>2. ASSUME RefuseEff(t) PROVE SuspOK'
  <2>1. /\ At(t, "top") /\ Others(t) /\ k' = k /\ task'[t].pc = "app"
    BY <1>2 DEF RefuseEff, Leaves
  <2>2. k.cur = t /\ ToSet(k.pending) = {}
    BY <2>1, RunsNow, NotSuspended DEF SuspendedPcs
  <2> QED
    BY <2>1, <2>2, SuspSame DEF SuspendedPcs
<1>3. ASSUME EnterEff(t) PROVE SuspOK'
  <2>1. /\ At(t, "top") /\ Others(t) /\ task'[t].pc = "suspend" /\ SameFlags(k, k') /\ k'.pending = k.pending
    BY <1>3 DEF EnterEff, WaitOf
  <2>2. k.cur = t /\ ToSet(k.pending) = {}
    BY <2>1, RunsNow, NotSuspended DEF SuspendedPcs
  <2> QED
    BY <2>1, <2>2, SuspSame DEF SuspendedPcs, SameFlags
<1>4. ASSUME SuspendEff(t) PROVE SuspOK'
  <2>1. At(t, "suspend") /\ Others(t) /\ task'[t].pc \in {"delay", "lock"} /\ k'.suspended /\ k'.cur = k.cur
    BY <1>4 DEF SuspendEff, Goes, FlagStep
  <2> QED
    BY <2>1, SuspByTask, RunsNow DEF SuspendedPcs
<1>5. ASSUME DelayEff(t) PROVE SuspOK'
  <2>1. At(t, "delay") /\ Others(t) /\ task'[t].pc = "resume" /\ SameFlags(k, k')
    BY <1>5 DEF DelayEff, Goes
  <2>2. k.suspended /\ k.cur = t
    BY <2>1, IsSuspended, RunsNow DEF SuspendedPcs
  <2> QED
    BY <2>1, <2>2, SuspSame DEF SuspendedPcs, SameFlags
<1>6. ASSUME CheckEff(t) PROVE SuspOK'
  <2>1. At(t, "check") /\ Others(t) /\ task'[t].pc \in {"test", "unlockTx"}
        /\ (k' = k \/ Rewaited(k, k', t, k.due[t], [tick |-> k.tick, wrapped |-> FALSE]))
    BY <1>6 DEF CheckEff, Goes
  <2>2. SameFlags(k, k')
    BY <2>1 DEF SameFlags, Rewaited
  <2>3. k.suspended /\ k.cur = t
    BY <2>1, IsSuspended, RunsNow DEF SuspendedPcs
  <2> QED
    BY <2>1, <2>2, <2>3, SuspSame DEF SuspendedPcs, SameFlags
<1>7. ASSUME TestEff(t) PROVE SuspOK'
  <2>1. At(t, "test") /\ Others(t) /\ task'[t].pc \in {"unlockTx", "inherit", "place"} /\ k' = k
    BY <1>7 DEF TestEff, Goes
  <2>2. k.suspended /\ k.cur = t
    BY <2>1, IsSuspended, RunsNow DEF SuspendedPcs
  <2> QED
    BY <2>1, <2>2, SuspSame DEF SuspendedPcs
<1>8. ASSUME YieldEff(t) PROVE SuspOK'
  <2>1. /\ At(t, "yield") /\ Others(t) /\ task'[t].pc \in {"app", "top"} /\ FlagStep
        /\ k'.suspended = k.suspended /\ k'.missedTicks = k.missedTicks
    BY <1>8 DEF YieldEff, Leaves, Goes
  <2>2. k.cur = t /\ ToSet(k.pending) = {}
    BY <2>1, RunsNow, NotSuspended DEF SuspendedPcs
  <2> QED
    BY <2>1, <2>2, SuspSame DEF SuspendedPcs, FlagStep
<1>9. ASSUME NEW x, SendEff(t, x) PROVE SuspOK'
  <2>1. /\ At(t, "top") /\ Others(t) /\ task'[t].pc = "app" /\ k'.cur = k.cur
        /\ k'.suspended = k.suspended /\ k'.missedTicks = k.missedTicks
        /\ ToSet(k'.pending) = ToSet(k.pending) \ First(k.toReceive[x])
    BY <1>9 DEF SendEff, Leaves, Woke
  <2>2. k.cur = t /\ ToSet(k.pending) = {}
    BY <2>1, RunsNow, NotSuspended DEF SuspendedPcs
  <2>3. ToSet(k'.pending) = {}
    BY <2>1, <2>2
  <2> QED
    BY <2>1, <2>2, <2>3, SuspSame DEF SuspendedPcs
<1>10. ASSUME NEW x, ReceiveEff(t, x) PROVE SuspOK'
  <2>1. /\ At(t, "top") /\ Others(t) /\ task'[t].pc = "app" /\ k'.cur = k.cur
        /\ k'.suspended = k.suspended /\ k'.missedTicks = k.missedTicks
        /\ ToSet(k'.pending) = ToSet(k.pending) \ First(k.toSend[x])
    BY <1>10 DEF ReceiveEff, Leaves, Woke
  <2>2. k.cur = t /\ ToSet(k.pending) = {}
    BY <2>1, RunsNow, NotSuspended DEF SuspendedPcs
  <2>3. ToSet(k'.pending) = {}
    BY <2>1, <2>2
  <2> QED
    BY <2>1, <2>2, <2>3, SuspSame DEF SuspendedPcs
<1>11. ASSUME NEW x, LockEff(t, x) PROVE SuspOK'
  <2>1. At(t, "lock") /\ Others(t) /\ task'[t].pc = "check" /\ k' = k
    BY <1>11 DEF LockEff, Goes
  <2>2. k.suspended /\ k.cur = t
    BY <2>1, IsSuspended, RunsNow DEF SuspendedPcs
  <2> QED
    BY <2>1, <2>2, SuspSame DEF SuspendedPcs
<1>12. ASSUME NEW x, PlaceEff(t, x) PROVE SuspOK'
  <2>1. At(t, "place") /\ Others(t) /\ task'[t].pc = "unlockTx" /\ Unready(k, k', t)
    BY <1>12 DEF PlaceEff, Goes, Placed
  <2>2. k.suspended /\ k.cur = t
    BY <2>1, IsSuspended, RunsNow DEF SuspendedPcs
  <2> QED
    BY <2>1, <2>2, SuspSame DEF SuspendedPcs, Unready
<1>13. ASSUME NEW x, UnlockRxEff(t, x) PROVE SuspOK'
  <2>1. At(t, "unlockRx") /\ Others(t) /\ task'[t].pc = "resume" /\ k' = k
    BY <1>13 DEF UnlockRxEff, Goes
  <2>2. k.suspended /\ k.cur = t
    BY <2>1, IsSuspended, RunsNow DEF SuspendedPcs
  <2> QED
    BY <2>1, <2>2, SuspSame DEF SuspendedPcs
<1>14. ASSUME NEW h, InheritEff(t, h) PROVE SuspOK'
  <2>1. At(t, "inherit") /\ Others(t) /\ task'[t].pc = "place"
        /\ (k' = k \/ Raised(k, k', h, k.uxPriority[t]))
    BY <1>14 DEF InheritEff, Goes
  <2>2. k'.cur = k.cur /\ k'.suspended = k.suspended /\ k'.missedTicks = k.missedTicks
    BY <2>1 DEF Raised, SameRest
  <2>3. k.suspended /\ k.cur = t
    BY <2>1, IsSuspended, RunsNow DEF SuspendedPcs
  <2> QED
    BY <2>1, <2>2, <2>3, SuspSame DEF SuspendedPcs
<1>15. ASSUME NEW x, NEW P, NEW m, UnlockTxEff(t, x, P, m) PROVE SuspOK'
  <2>1. At(t, "unlockTx") /\ Others(t) /\ task'[t].pc = "unlockRx"
        /\ k'.cur = k.cur /\ k'.suspended = k.suspended /\ k'.missedTicks = k.missedTicks
    BY <1>15 DEF UnlockTxEff, Goes, Pends
  <2>2. k.suspended /\ k.cur = t
    BY <2>1, IsSuspended, RunsNow DEF SuspendedPcs
  <2> QED
    BY <2>1, <2>2, SuspSame DEF SuspendedPcs
<1>16. ASSUME NEW S, ResumeEff(t, S) PROVE SuspOK'
  <2>1. At(t, "resume") /\ Others(t) /\ task'[t].pc \in {"app", "yield", "top"} /\ k'.cur = k.cur
        /\ k'.suspended = FALSE /\ k'.missedTicks = 0 /\ ToSet(k'.pending) = {}
    BY <1>16 DEF ResumeEff, Goes, Leaves
  <2> QED
    BY <2>1, SuspByTask, RunsNow DEF SuspendedPcs
<1> HIDE DEF SuspOK
<1> QED
  BY ONLY <1>1, <1>2, <1>3, <1>4, <1>5, <1>6, <1>7, <1>8, <1>9, <1>10, <1>11, <1>12, <1>13, <1>14, <1>15, <1>16,
     TaskEff(t) DEF TaskEff

(* An interrupt keeps SuspOK. *)
LEMMA SuspIsr ==
  ASSUME Ground, IsrEff
  PROVE  SuspOK'
<1>0. SuspOK
  BY DEF Ground
<1>1. CASE CountEff \/ QuietEff
  BY <1>0, <1>1 DEF CountEff, QuietEff, SuspOK
<1>2. CASE HoldEff \/ MissEff
  <2>1. /\ k.suspended /\ k'.suspended = k.suspended /\ k'.cur = k.cur /\ task' = task
    BY <1>2 DEF HoldEff, MissEff, FlagStep
  <2> QED
    BY <1>0, <2>1 DEF SuspOK
<1>3. CASE SwitchEff
  <2>1. ~k.suspended /\ k'.suspended = k.suspended /\ task' = task /\ k'.pending = k.pending
        /\ k'.missedTicks = k.missedTicks
    BY <1>3 DEF SwitchEff, Switched
  <2> QED
    BY <1>0, <2>1 DEF SuspOK
<1>4. CASE \E S : TickEff(S)
  <2> PICK S : TickEff(S)
    BY <1>4
  <2>1. ~k.suspended /\ k'.suspended = k.suspended /\ task' = task
        /\ k'.missedTicks = k.missedTicks /\ ToSet(k'.pending) = ToSet(k.pending) \ S
    BY DEF TickEff, Ticked, Woke
  <2> QED
    BY <1>0, <2>1 DEF SuspOK
<1>5. CASE \E h, S, P : PostEff(h, S, P)
  <2> PICK h, S, P : PostEff(h, S, P)
    BY <1>5
  <2>1. k'.suspended = k.suspended /\ task' = task /\ k'.cur = k.cur
        /\ k'.missedTicks = k.missedTicks /\ ToSet(k'.pending) = (ToSet(k.pending) \cup P) \ S
        /\ (~k.suspended => P = {})
    BY DEF PostEff, Woke
  <2> QED
    BY <1>0, <2>1 DEF SuspOK
<1> QED
  BY <1>1, <1>2, <1>3, <1>4, <1>5 DEF IsrEff

-----------------------------------------------------------------------------
(* The arguments of the calls. *)

(* Only the call of t changes. *)
LEMMA CallsByTask ==
  ASSUME Ground, NEW t \in Tasks, Others(t), task'[t].pc = "app" \/ CallFine(task'[t])
  PROVE  CallsOK'
<1>1. CallsOK
  BY DEF Ground
<1>2. ASSUME NEW u \in Tasks, task'[u].pc # "app"
      PROVE  CallFine(task'[u])
  <2>1. CASE u = t
    BY <1>2, <2>1
  <2>2. CASE u # t
    BY <1>1, <1>2, <2>2 DEF Others, CallsOK, CallFine
  <2> QED
    BY <2>1, <2>2
<1> QED
  BY <1>2 DEF CallsOK, CallFine

(* The call of t goes on. *)
LEMMA CallsGo ==
  ASSUME Ground, NEW t \in Tasks, task[t].pc # "app", NEW pc, Goes(t, pc), GoFine(task[t], pc)
  PROVE  CallsOK'
<1>1. CallFine(task[t])
  BY DEF Ground, CallsOK, CallFine
<1>2. CallFine(task'[t])
  BY <1>1 DEF CallFine, Goes, GoFine
<1> QED
  BY <1>2, CallsByTask DEF Goes

(* A step of a task keeps CallsOK. *)
LEMMA CallsKept ==
  ASSUME Ground, NEW t \in Tasks, TaskEff(t)
  PROVE  CallsOK'
<1>0. ASSUME NEW pc, At(t, pc), pc # "app"
      PROVE  CallFine(task[t]) /\ task[t].pc = pc
  <2>1. task[t].pc = pc
    BY <1>0 DEF At
  <2> QED
    BY <1>0, <2>1 DEF Ground, CallsOK, CallFine
<1>1. ASSUME BeginEff(t) PROVE CallsOK'
  <2>1. Others(t) /\ BeginsAs(t) /\ ~task'[t].entrySet /\ ~task'[t].expired
    BY <1>1 DEF BeginEff
  <2>2. CallFine(task'[t])
    BY <2>1 DEF BeginsAs, CallFine, portMAX_DELAY
  <2> QED
    BY <2>1, <2>2, CallsByTask
<1>2. ASSUME Leaves(t) PROVE CallsOK'
  BY <1>2, CallsByTask DEF Leaves
<1>3. ASSUME EnterEff(t) PROVE CallsOK'
  <2>1. /\ At(t, "top") /\ task[t].fn # "delay" /\ task[t].wait # 0
        /\ Others(t) /\ task'[t].pc = "suspend" /\ task'[t].entrySet
        /\ task'[t].fn = task[t].fn /\ task'[t].x = task[t].x /\ task'[t].wait = task[t].wait
        /\ task'[t].expired = task[t].expired
    BY <1>3 DEF EnterEff
  <2>2. CallFine(task[t]) /\ task[t].pc = "top"
    BY <1>0, <2>1
  <2>3. CallFine(task'[t])
    BY <2>1, <2>2 DEF CallFine
  <2> QED
    BY <2>1, <2>3, CallsByTask
<1>4. ASSUME SuspendEff(t) PROVE CallsOK'
  <2>1. At(t, "suspend") /\ Goes(t, IF task[t].fn = "delay" THEN "delay" ELSE "lock")
    BY <1>4 DEF SuspendEff
  <2>2. CallFine(task[t]) /\ task[t].pc = "suspend"
    BY <1>0, <2>1
  <2>3. GoFine(task[t], IF task[t].fn = "delay" THEN "delay" ELSE "lock")
    BY <2>2 DEF CallFine, GoFine
  <2> QED
    BY <2>1, <2>2, <2>3, CallsGo
<1>5. ASSUME DelayEff(t) PROVE CallsOK'
  <2>1. At(t, "delay") /\ Goes(t, "resume")
    BY <1>5 DEF DelayEff
  <2>2. CallFine(task[t]) /\ task[t].pc = "delay"
    BY <1>0, <2>1
  <2>3. GoFine(task[t], "resume")
    BY <2>2 DEF CallFine, GoFine
  <2> QED
    BY <2>1, <2>2, <2>3, CallsGo
<1>6. ASSUME CheckEff(t) PROVE CallsOK'
  <2>1. At(t, "check")
    BY <1>6 DEF CheckEff
  <2>2. CallFine(task[t]) /\ task[t].pc = "check" /\ task[t].fn # "delay"
    BY <1>0, <2>1, InCallFacts
  <2>3. CASE Goes(t, "test")
    <3>1. GoFine(task[t], "test")
      BY <2>2 DEF CallFine, GoFine
    <3> QED
      BY <2>2, <2>3, <3>1, CallsGo
  <2>4. CASE /\ task[t].wait # portMAX_DELAY /\ ~Passed(t) /\ Since(t) < task[t].wait
             /\ Others(t) /\ task'[t].pc = "test" /\ task'[t].wait = task[t].wait - Since(t)
             /\ task'[t].fn = task[t].fn /\ task'[t].x = task[t].x
             /\ task'[t].entrySet = task[t].entrySet /\ task'[t].expired = task[t].expired
    <3>1. Since(t) \in 0 .. W - 1
      <4>1. k.tick \in Int /\ k.entered[t].tick \in Int
        BY DEF Ground, Shape, Numbers, AllTasks
      <4> QED
        BY <4>1 DEF Since
    <3>2. CallFine(task'[t])
      BY <2>2, <2>4, <3>1 DEF CallFine, portMAX_DELAY
    <3> QED
      BY <2>4, <3>2, CallsByTask
  <2>5. CASE /\ task[t].wait # portMAX_DELAY
             /\ Others(t) /\ task'[t].pc = "unlockTx" /\ task'[t].expired
             /\ task'[t].fn = task[t].fn /\ task'[t].x = task[t].x /\ task'[t].wait = task[t].wait
             /\ task'[t].entrySet = task[t].entrySet
    <3>1. CallFine(task'[t])
      BY <2>2, <2>5 DEF CallFine
    <3> QED
      BY <2>5, <3>1, CallsByTask
  <2> QED
    BY <1>6, <2>3, <2>4, <2>5 DEF CheckEff
<1>7. ASSUME TestEff(t) PROVE CallsOK'
  <2>1. At(t, "test") /\ \E pc \in {"unlockTx", "inherit", "place"} : Goes(t, pc)
    BY <1>7 DEF TestEff
  <2>2. CallFine(task[t]) /\ task[t].pc = "test"
    BY <1>0, <2>1
  <2>3. PICK pc \in {"unlockTx", "inherit", "place"} : Goes(t, pc)
    BY <2>1
  <2>4. GoFine(task[t], pc)
    BY <2>2 DEF CallFine, GoFine
  <2> QED
    BY <2>2, <2>3, <2>4, CallsGo
<1>8. ASSUME YieldEff(t) PROVE CallsOK'
  <2>1. At(t, "yield") /\ (Leaves(t) \/ Goes(t, "top"))
    BY <1>8 DEF YieldEff
  <2>2. CallFine(task[t]) /\ task[t].pc = "yield"
    BY <1>0, <2>1
  <2>3. ~task[t].expired => GoFine(task[t], "top") /\ GoFine(task[t], "yield")
    BY <2>2 DEF CallFine, GoFine
  <2>4. task[t].pc = "yield" => ~task[t].expired
    BY <2>2 DEF CallFine
  <2> QED
    BY <1>2, <2>1, <2>2, <2>3, <2>4, CallsGo
<1>9. ASSUME NEW x, SendEff(t, x) \/ ReceiveEff(t, x) PROVE CallsOK'
  BY <1>2, <1>9 DEF SendEff, ReceiveEff
<1>11. ASSUME NEW x, LockEff(t, x) PROVE CallsOK'
  <2>1. At(t, "lock") /\ Goes(t, "check")
    BY <1>11 DEF LockEff
  <2>2. CallFine(task[t]) /\ task[t].pc = "lock"
    BY <1>0, <2>1
  <2>3. GoFine(task[t], "check")
    BY <2>2 DEF CallFine, GoFine
  <2> QED
    BY <2>1, <2>2, <2>3, CallsGo
<1>12. ASSUME NEW x, PlaceEff(t, x) PROVE CallsOK'
  <2>1. At(t, "place") /\ Goes(t, "unlockTx")
    BY <1>12 DEF PlaceEff
  <2>2. CallFine(task[t]) /\ task[t].pc = "place"
    BY <1>0, <2>1
  <2>3. GoFine(task[t], "unlockTx")
    BY <2>2 DEF CallFine, GoFine
  <2> QED
    BY <2>1, <2>2, <2>3, CallsGo
<1>13. ASSUME NEW x, UnlockRxEff(t, x) PROVE CallsOK'
  <2>1. At(t, "unlockRx") /\ Goes(t, "resume")
    BY <1>13 DEF UnlockRxEff
  <2>2. CallFine(task[t]) /\ task[t].pc = "unlockRx"
    BY <1>0, <2>1
  <2>3. GoFine(task[t], "resume")
    BY <2>2 DEF CallFine, GoFine
  <2> QED
    BY <2>1, <2>2, <2>3, CallsGo
<1>14. ASSUME NEW h, InheritEff(t, h) PROVE CallsOK'
  <2>1. At(t, "inherit") /\ Goes(t, "place")
    BY <1>14 DEF InheritEff
  <2>2. CallFine(task[t]) /\ task[t].pc = "inherit"
    BY <1>0, <2>1
  <2>3. GoFine(task[t], "place")
    BY <2>2 DEF CallFine, GoFine
  <2> QED
    BY <2>1, <2>2, <2>3, CallsGo
<1>15. ASSUME NEW x, NEW P, NEW m, UnlockTxEff(t, x, P, m) PROVE CallsOK'
  <2>1. At(t, "unlockTx") /\ Goes(t, "unlockRx")
    BY <1>15 DEF UnlockTxEff
  <2>2. CallFine(task[t]) /\ task[t].pc = "unlockTx"
    BY <1>0, <2>1
  <2>3. GoFine(task[t], "unlockRx")
    BY <2>2 DEF CallFine, GoFine
  <2> QED
    BY <2>1, <2>2, <2>3, CallsGo
<1>16. ASSUME NEW S, ResumeEff(t, S) PROVE CallsOK'
  <2>1. At(t, "resume") /\ \/ Leaves(t)
                           \/ ~task[t].expired /\ (Goes(t, "yield") \/ Goes(t, "top"))
    BY <1>16 DEF ResumeEff
  <2>2. CallFine(task[t]) /\ task[t].pc = "resume"
    BY <1>0, <2>1
  <2>3. ~task[t].expired => GoFine(task[t], "top") /\ GoFine(task[t], "yield")
    BY <2>2 DEF CallFine, GoFine
  <2>4. task[t].pc = "yield" => ~task[t].expired
    BY <2>2 DEF CallFine
  <2> QED
    BY <1>2, <2>1, <2>2, <2>3, <2>4, CallsGo
<1>17. RefuseEff(t) => Leaves(t)
  BY DEF RefuseEff
<1> HIDE DEF CallsOK
<1> QED
  BY ONLY <1>1, <1>2, <1>3, <1>4, <1>5, <1>6, <1>7, <1>8, <1>9, <1>11, <1>12, <1>13, <1>14, <1>15, <1>16, <1>17,
     TaskEff(t) DEF TaskEff

(* An interrupt keeps CallsOK. *)
LEMMA CallsIsr ==
  ASSUME Ground, IsrEff
  PROVE  CallsOK' /\ task' = task
<1>1. task' = task
  BY DEF IsrEff, HoldEff, MissEff, SwitchEff, CountEff, QuietEff, TickEff, PostEff
<1> QED
  BY <1>1 DEF Ground, CallsOK

(* A step of a task is the step of the current one. *)
LEMMA CurSame ==
  ASSUME Ground, NEW t \in Tasks, TaskEff(t)
  PROVE  k.cur = t /\ k'.cur = t /\ Others(t)
<1>1. ASSUME NEW pc, At(t, pc) PROVE k.cur = t
  BY <1>1, RunsNow
<1>2. ASSUME BeginEff(t) \/ RefuseEff(t) \/ TestEff(t) PROVE k.cur = t /\ k'.cur = t /\ Others(t)
  BY <1>1, <1>2 DEF BeginEff, RefuseEff, TestEff, Leaves, Goes
<1>3. ASSUME EnterEff(t) PROVE k.cur = t /\ k'.cur = t /\ Others(t)
  BY <1>1, <1>3 DEF EnterEff, WaitOf, SameFlags
<1>4. ASSUME SuspendEff(t) \/ YieldEff(t) PROVE k.cur = t /\ k'.cur = t /\ Others(t)
  BY <1>1, <1>4 DEF SuspendEff, YieldEff, FlagStep, Goes, Leaves
<1>5. ASSUME DelayEff(t) PROVE k.cur = t /\ k'.cur = t /\ Others(t)
  BY <1>1, <1>5 DEF DelayEff, SameFlags, Goes
<1>6. ASSUME CheckEff(t) PROVE k.cur = t /\ k'.cur = t /\ Others(t)
  BY <1>1, <1>6 DEF CheckEff, Rewaited, SameFlags, Goes
<1>7. ASSUME NEW x, SendEff(t, x) \/ ReceiveEff(t, x) PROVE k.cur = t /\ k'.cur = t /\ Others(t)
  BY <1>1, <1>7 DEF SendEff, ReceiveEff, Leaves
<1>8. ASSUME NEW x, LockEff(t, x) \/ UnlockRxEff(t, x) PROVE k.cur = t /\ k'.cur = t /\ Others(t)
  BY <1>1, <1>8 DEF LockEff, UnlockRxEff, Goes
<1>9. ASSUME NEW x, PlaceEff(t, x) PROVE k.cur = t /\ k'.cur = t /\ Others(t)
  BY <1>1, <1>9 DEF PlaceEff, Placed, Unready, Goes
<1>10. ASSUME NEW h, InheritEff(t, h) PROVE k.cur = t /\ k'.cur = t /\ Others(t)
  BY <1>1, <1>10 DEF InheritEff, Raised, SameRest, Goes
<1>11. ASSUME NEW x, NEW P, NEW m, UnlockTxEff(t, x, P, m) PROVE k.cur = t /\ k'.cur = t /\ Others(t)
  BY <1>1, <1>11 DEF UnlockTxEff, Pends, Goes
<1>12. ASSUME NEW S, ResumeEff(t, S) PROVE k.cur = t /\ k'.cur = t /\ Others(t)
  BY <1>1, <1>12 DEF ResumeEff, Goes, Leaves
<1> QED
  BY <1>2, <1>3, <1>4, <1>5, <1>6, <1>7, <1>8, <1>9, <1>10, <1>11, <1>12 DEF TaskEff

(* A task that runs and is not ready has been placed. *)
LEMMA PlacedOnly ==
  ASSUME Ground, NEW t \in Tasks, TaskEff(t), ~Ready(k, t)
  PROVE  PlacedEff(t) /\ ~task[t].expired
<1>1. ASSUME NEW pc, pc \notin PlacedPcs PROVE ~At(t, pc)
  BY <1>1, RunsReady
<1>2. ~(BeginEff(t) \/ RefuseEff(t) \/ EnterEff(t) \/ SuspendEff(t) \/ DelayEff(t) \/ CheckEff(t) \/ TestEff(t))
  BY <1>1 DEF BeginEff, RefuseEff, EnterEff, SuspendEff, DelayEff, CheckEff, TestEff, PlacedPcs
<1>3. \A x : ~(SendEff(t, x) \/ ReceiveEff(t, x) \/ LockEff(t, x) \/ PlaceEff(t, x))
  BY <1>1 DEF SendEff, ReceiveEff, LockEff, PlaceEff, PlacedPcs
<1>4. \A h : ~InheritEff(t, h)
  BY <1>1 DEF InheritEff, PlacedPcs
<1>5. PlacedEff(t)
  BY <1>2, <1>3, <1>4 DEF TaskEff, PlacedEff
<1>6. \E pc : At(t, pc)
  BY <1>5 DEF PlacedEff, YieldEff, UnlockRxEff, UnlockTxEff, ResumeEff
<1> QED
  BY <1>5, <1>6 DEF Ground, CurOK, At, Running

(* A step of a task keeps CurOK. *)
LEMMA CurKept ==
  ASSUME Ground, NEW t \in Tasks, TaskEff(t)
  PROVE  CurOK'
<1>0. k'.cur = t /\ Others(t) /\ t \in AllTasks
  BY CurSame DEF AllTasks
<1>1. CASE Ready(k, t) /\ \E S, P : Woke(k, k', S, P)
  BY <1>0, <1>1 DEF Woke, CurOK
<1>2. CASE DelayEff(t)
  <2>1. task'[t].pc = "resume" /\ task'[t].expired = task[t].expired /\ task[t].fn = "delay" /\ task[t].pc # "app"
    BY <1>2 DEF DelayEff, Goes, At
  <2> QED
    BY <1>0, <2>1 DEF CurOK, PlacedPcs, Ground, CallsOK
<1>3. CASE \E x : PlaceEff(t, x)
  <2>1. task'[t].pc = "unlockTx" /\ task'[t].expired = task[t].expired /\ ~task[t].expired
    BY <1>3 DEF PlaceEff, Goes
  <2> QED
    BY <1>0, <2>1 DEF CurOK, PlacedPcs
<1>4. CASE ~Ready(k, t)
  <2>1. PlacedEff(t) /\ ~task[t].expired
    BY <1>4, PlacedOnly
  <2>2. CASE YieldEff(t)
    <3>1. k'.yield /\ k'.suspended = k.suspended /\ At(t, "yield")
      BY <2>2 DEF YieldEff
    <3>2. ~k.suspended
      BY <3>1, NotSuspended DEF SuspendedPcs
    <3> QED
      BY <3>1, <3>2 DEF CurOK
  <2>3. CASE \E x : UnlockRxEff(t, x)
    BY <1>0, <2>1, <2>3 DEF UnlockRxEff, Goes, CurOK, PlacedPcs
  <2>4. CASE \E x, P, m : UnlockTxEff(t, x, P, m)
    BY <1>0, <2>1, <2>4 DEF UnlockTxEff, Goes, CurOK, PlacedPcs
  <2>5. CASE \E S : ResumeEff(t, S)
    <3> PICK S : ResumeEff(t, S)
      BY <2>5
    <3>1. k'.suspended = FALSE /\ (k'.yield \/ Goes(t, "yield"))
      BY <1>4, <2>1 DEF ResumeEff
    <3> QED
      BY <1>0, <2>1, <3>1 DEF CurOK, Goes, PlacedPcs
  <2> QED
    BY <2>1, <2>2, <2>3, <2>4, <2>5 DEF PlacedEff
<1>5. Stays(t)
  BY TaskStays
<1> QED
  BY <1>1, <1>2, <1>3, <1>4, <1>5 DEF Stays

(* An interrupt keeps CurOK. *)
LEMMA CurIsr ==
  ASSUME Ground, IsrEff
  PROVE  CurOK'
<1>0. CurOK /\ task' = task
  BY CallsIsr DEF Ground
<1>1. PICK S, P : Woke(k, k', S, P)
  BY IsrStays
<1>2. \A u \in AllTasks : Ready(k, u) => Ready(k', u)
  BY <1>1 DEF Woke
<1>3. k.cur \in AllTasks
  BY DEF Ground, Shape, Numbers
<1>4. CASE SwitchEff
  BY <1>4 DEF SwitchEff, Switched, CurOK
<1>5. CASE HoldEff \/ MissEff
  <2>1. k.suspended /\ k'.cur = k.cur
    BY <1>5 DEF HoldEff, MissEff, FlagStep
  <2> QED
    BY <1>0, <1>2, <1>3, <2>1 DEF CurOK
<1>6. CASE \E T : TickEff(T)
  BY <1>6 DEF TickEff, Ticked, CurOK
<1>7. CASE CountEff \/ QuietEff
  BY <1>0, <1>7 DEF CountEff, QuietEff, CurOK
<1>8. CASE \E h, T, R : PostEff(h, T, R)
  <2>1. k'.cur = k.cur /\ k'.suspended = k.suspended /\ k'.yield = k.yield
    BY <1>8 DEF PostEff
  <2> QED
    BY <1>0, <1>2, <1>3, <2>1 DEF CurOK
<1> QED
  BY <1>4, <1>5, <1>6, <1>7, <1>8 DEF IsrEff

-----------------------------------------------------------------------------
(* Who is in an event list sleeps in a call on its queue. *)

(* Sleeping tasks stay in their calls. *)
LEMMA SleepersStay ==
  ASSUME Ground, NEW t \in Tasks, TaskEff(t)
  PROVE  \A u \in Tasks : SleepsOn(u)
<1>1. Others(t)
  BY CurSame
<1>2. SleepsOn(t)
  <2>1. CASE Ready(k, t)
    BY <2>1 DEF SleepsOn
  <2>2. CASE ~Ready(k, t)
    <3>1. PlacedEff(t) /\ ~task[t].expired
      BY <2>2, PlacedOnly
    <3>2. CASE YieldEff(t)
      BY <3>1, <3>2 DEF YieldEff, Goes, SleepsOn, AsleepPcs
    <3>3. CASE \E x : UnlockRxEff(t, x)
      BY <3>1, <3>3 DEF UnlockRxEff, Goes, SleepsOn, AsleepPcs
    <3>4. CASE \E x, P, m : UnlockTxEff(t, x, P, m)
      BY <3>1, <3>4 DEF UnlockTxEff, Goes, SleepsOn, AsleepPcs
    <3>5. CASE \E S : ResumeEff(t, S)
      BY <3>1, <3>5 DEF ResumeEff, Goes, SleepsOn, AsleepPcs
    <3> QED
      BY <3>1, <3>2, <3>3, <3>4, <3>5 DEF PlacedEff
  <2> QED
    BY <2>1, <2>2
<1> QED
  BY <1>1, <1>2 DEF SleepsOn, Others

(* A sleeping task sleeps on until it is ready. *)
LEMMA SleepsStill ==
  ASSUME NEW u, NEW fn \in {"send", "receive"}, NEW x, SleepsIn(u, fn, x), SleepsOn(u), ~Ready(k', u)
  PROVE  SleepsIn(u, fn, x)'
  BY DEF SleepsIn, SleepsOn

(* Waking tasks keeps EventsOK. *)
LEMMA EventsByWoke ==
  ASSUME Ground, NEW S, NEW P, Woke(k, k', S, P), P \subseteq ToSet(k.toReceive[Mbox]),
         \A u \in Tasks : SleepsOn(u)
  PROVE  EventsOK'
<1>0. EventsOK /\ Mbox \in Queues /\ Mutex \in Queues
  BY DEF Ground, Queues
<1>1. \A u \in AllTasks : Ready(k', u) <=> Ready(k, u) \/ u \in S
  BY DEF Woke
<1>2. \A x \in Queues : /\ ToSet(k'.toReceive[x]) = ToSet(k.toReceive[x]) \ (S \cup P)
                        /\ ToSet(k'.toSend[x]) = ToSet(k.toSend[x]) \ (S \cup P)
  BY DEF Woke, Thinned
<1>3. ToSet(k'.pending) = (ToSet(k.pending) \cup P) \ S /\ Slept(k') = Slept(k) \ S
  BY DEF Woke
<1>4. ASSUME NEW u, NEW fn \in {"send", "receive"}, NEW x, SleepsIn(u, fn, x), u \notin S
      PROVE  SleepsIn(u, fn, x)'
  <2>1. u \in Tasks /\ u \in AllTasks /\ ~Ready(k, u)
    BY <1>4 DEF SleepsIn, AllTasks
  <2> QED
    BY <1>1, <1>4, <2>1, SleepsStill
<1>5. ASSUME NEW x \in Queues, NEW u \in ToSet(k'.toReceive[x]) PROVE SleepsIn(u, "receive", x)'
  <2>1. u \in ToSet(k.toReceive[x]) /\ u \notin S
    BY <1>2, <1>5
  <2>2. SleepsIn(u, "receive", x)
    BY <1>0, <2>1 DEF EventsOK
  <2> QED
    BY <1>4, <2>1, <2>2
<1>6. ASSUME NEW x \in Queues, NEW u \in ToSet(k'.toSend[x]) PROVE SleepsIn(u, "send", x)'
  <2>1. u \in ToSet(k.toSend[x]) /\ u \notin S
    BY <1>2, <1>6
  <2>2. SleepsIn(u, "send", x)
    BY <1>0, <2>1 DEF EventsOK
  <2> QED
    BY <1>4, <2>1, <2>2
<1>7. ASSUME NEW u \in ToSet(k'.pending)
      PROVE  SleepsIn(u, "receive", Mbox)' /\ u \notin ToSet(k'.toReceive[Mbox])
  <2>1. (u \in ToSet(k.pending) \/ u \in P) /\ u \notin S
    BY <1>3, <1>7
  <2>2. SleepsIn(u, "receive", Mbox)
    BY <1>0, <2>1 DEF EventsOK
  <2>3. SleepsIn(u, "receive", Mbox)'
    BY <1>4, <2>1, <2>2
  <2>4. u \notin ToSet(k'.toReceive[Mbox])
    BY <1>0, <1>2, <2>1 DEF EventsOK
  <2> QED
    BY <2>3, <2>4
<1>8. \A u \in Slept(k') : u \notin ToSet(k'.toReceive[Mutex])
  BY <1>0, <1>2, <1>3 DEF EventsOK
<1> HIDE DEF SleepsIn
<1> QED
  BY <1>5, <1>6, <1>7, <1>8 DEF EventsOK

(* vTaskDelay keeps EventsOK. *)
LEMMA EventsDelay ==
  ASSUME Ground, NEW t \in Tasks, DelayEff(t), \A u \in Tasks : SleepsOn(u)
  PROVE  EventsOK'
<1>0. EventsOK /\ Mbox \in Queues /\ Mutex \in Queues
  BY DEF Ground, Queues
<1>1. /\ \A u \in AllTasks : Ready(k', u) <=> Ready(k, u) /\ u # t
      /\ k'.toReceive = k.toReceive /\ k'.toSend = k.toSend /\ k'.pending = k.pending
      /\ Slept(k') = Slept(k) \cup {t} /\ Ready(k, t)
  BY DEF DelayEff
<1>2. ASSUME NEW u, NEW fn \in {"send", "receive"}, NEW x, SleepsIn(u, fn, x)
      PROVE  SleepsIn(u, fn, x)'
  <2>1. u \in Tasks /\ u \in AllTasks /\ ~Ready(k, u)
    BY <1>2 DEF SleepsIn, AllTasks
  <2> QED
    BY <1>1, <1>2, <2>1, SleepsStill
<1>3. t \notin ToSet(k.toReceive[Mutex])
  BY <1>0, <1>1, NotInLists
<1> HIDE DEF SleepsIn
<1>4. \A x \in Queues : /\ \A u \in ToSet(k'.toReceive[x]) : SleepsIn(u, "receive", x)'
                        /\ \A u \in ToSet(k'.toSend[x]) : SleepsIn(u, "send", x)'
  BY <1>0, <1>1, <1>2 DEF EventsOK
<1>5. \A u \in ToSet(k'.pending) : SleepsIn(u, "receive", Mbox)' /\ u \notin ToSet(k'.toReceive[Mbox])
  BY <1>0, <1>1, <1>2 DEF EventsOK
<1>6. \A u \in Slept(k') : u \notin ToSet(k'.toReceive[Mutex])
  BY <1>0, <1>1, <1>3 DEF EventsOK
<1> QED
  BY <1>4, <1>5, <1>6 DEF EventsOK

(* vTaskPlaceOnEventList keeps EventsOK. *)
LEMMA EventsPlace ==
  ASSUME Ground, NEW t \in Tasks, NEW x, PlaceEff(t, x), \A u \in Tasks : SleepsOn(u)
  PROVE  EventsOK'
<1>0. EventsOK /\ Mbox \in Queues /\ Mutex \in Queues /\ x \in Queues
  BY DEF Ground, Queues, PlaceEff
<1> DEFINE fn == task[t].fn
           n == task[t].wait
<1>1. /\ \A u \in AllTasks : Ready(k', u) <=> Ready(k, u) /\ u # t
      /\ k'.pending = k.pending /\ Ready(k, t)
      /\ IF n = portMAX_DELAY THEN Slept(k') = Slept(k) ELSE Slept(k') = Slept(k) \cup {t}
  BY DEF PlaceEff, Placed, Unready
<1>2. \A y \in Queues :
       /\ ToSet(k'.toReceive[y]) = ToSet(k.toReceive[y]) \cup (IF fn = "receive" /\ y = x THEN {t} ELSE {})
       /\ ToSet(k'.toSend[y]) = ToSet(k.toSend[y]) \cup (IF fn # "receive" /\ y = x THEN {t} ELSE {})
  <2>1. ASSUME NEW y \in Queues
        PROVE  /\ IF fn = "receive" /\ y = x THEN Joined(k'.toReceive[y], k.toReceive[y], t, EventOrder(k))
                  ELSE k'.toReceive[y] = k.toReceive[y]
               /\ IF fn # "receive" /\ y = x THEN Joined(k'.toSend[y], k.toSend[y], t, EventOrder(k))
                  ELSE k'.toSend[y] = k.toSend[y]
    BY DEF PlaceEff, Placed
  <2> QED
    BY <2>1 DEF Joined
<1>3. ASSUME NEW u, NEW f \in {"send", "receive"}, NEW y, SleepsIn(u, f, y)
      PROVE  SleepsIn(u, f, y)'
  <2>1. u \in Tasks /\ u \in AllTasks /\ ~Ready(k, u)
    BY <1>3 DEF SleepsIn, AllTasks
  <2> QED
    BY <1>1, <1>3, <2>1, SleepsStill
<1>4. /\ fn = "receive" => SleepsIn(t, "receive", x)'
      /\ fn # "receive" => SleepsIn(t, "send", x)'
  <2>1. /\ task'[t].pc = "unlockTx" /\ task'[t].fn = task[t].fn /\ task'[t].x = x
        /\ ~task'[t].expired /\ fn \in {"send", "receive"}
    BY DEF PlaceEff, Goes
  <2>2. ~Ready(k', t)
    BY <1>1 DEF AllTasks
  <2> QED
    BY <2>1, <2>2 DEF SleepsIn, AsleepPcs
<1>5. \A y \in Queues : t \notin ToSet(k.toReceive[y]) /\ t \notin ToSet(k.pending)
  BY <1>1, NotInLists
<1>6. fn = "receive" /\ x = Mutex => n = portMAX_DELAY
  <2>1. task[t].x = x /\ task[t].pc = "place"
    BY DEF PlaceEff, At
  <2> QED
    BY <2>1 DEF Ground, MutexOK, Waits
<1> HIDE DEF SleepsIn, fn, n
<1>7. ASSUME NEW y \in Queues, NEW u \in ToSet(k'.toReceive[y]) PROVE SleepsIn(u, "receive", y)'
  <2>1. u \in ToSet(k.toReceive[y]) \/ (u = t /\ fn = "receive" /\ y = x)
    BY <1>2, <1>7
  <2>2. u \in ToSet(k.toReceive[y]) => SleepsIn(u, "receive", y)
    BY <1>0 DEF EventsOK
  <2> QED
    BY <1>3, <1>4, <2>1, <2>2
<1>8. ASSUME NEW y \in Queues, NEW u \in ToSet(k'.toSend[y]) PROVE SleepsIn(u, "send", y)'
  <2>1. u \in ToSet(k.toSend[y]) \/ (u = t /\ fn # "receive" /\ y = x)
    BY <1>2, <1>8
  <2>2. u \in ToSet(k.toSend[y]) => SleepsIn(u, "send", y)
    BY <1>0 DEF EventsOK
  <2> QED
    BY <1>3, <1>4, <2>1, <2>2
<1>9. ASSUME NEW u \in ToSet(k'.pending)
      PROVE  SleepsIn(u, "receive", Mbox)' /\ u \notin ToSet(k'.toReceive[Mbox])
  <2>1. u \in ToSet(k.pending) /\ u # t
    BY <1>0, <1>1, <1>5, <1>9
  <2>2. SleepsIn(u, "receive", Mbox) /\ u \notin ToSet(k.toReceive[Mbox])
    BY <1>0, <2>1 DEF EventsOK
  <2> QED
    BY <1>0, <1>2, <1>3, <2>1, <2>2
<1>10. \A u \in Slept(k') : u \notin ToSet(k'.toReceive[Mutex])
  <2>1. \A u \in Slept(k) : u \notin ToSet(k.toReceive[Mutex])
    BY <1>0 DEF EventsOK
  <2>2. t \notin Slept(k)
    BY <1>0, <1>1, NotInLists
  <2> QED
    BY <1>0, <1>1, <1>2, <1>5, <1>6, <2>1, <2>2
<1> QED
  BY <1>7, <1>8, <1>9, <1>10 DEF EventsOK

(* A step of a task keeps EventsOK. *)
LEMMA EventsKept ==
  ASSUME Ground, NEW t \in Tasks, TaskEff(t)
  PROVE  EventsOK'
<1>1. \A u \in Tasks : SleepsOn(u)
  BY SleepersStay
<1>2. Stays(t)
  BY TaskStays
<1>3. CASE \E P : P \subseteq ToSet(k.toReceive[Mbox]) /\ Woke(k, k', {}, P)
  BY <1>1, <1>3, EventsByWoke
<1>4. CASE \E S : Woke(k, k', S, {})
  <2>1. {} \subseteq ToSet(k.toReceive[Mbox])
    OBVIOUS
  <2> QED
    BY <1>1, <1>4, <2>1, EventsByWoke
<1>5. CASE DelayEff(t)
  BY <1>1, <1>5, EventsDelay
<1>6. CASE \E x : PlaceEff(t, x)
  BY <1>1, <1>6, EventsPlace
<1> QED
  BY <1>2, <1>3, <1>4, <1>5, <1>6 DEF Stays

(* An interrupt keeps EventsOK. *)
LEMMA EventsIsr ==
  ASSUME Ground, IsrEff
  PROVE  EventsOK'
<1>1. \A u \in Tasks : SleepsOn(u)
  BY CallsIsr DEF SleepsOn
<1>2. \E S, P : P \subseteq ToSet(k.toReceive[Mbox]) /\ Woke(k, k', S, P)
  BY IsrStays
<1> QED
  BY <1>1, <1>2, EventsByWoke

-----------------------------------------------------------------------------
(* The locks of the queues. *)

(* No queue is locked outside the stretch that locks one. *)
LEMMA Unlocked ==
  ASSUME Ground, NEW t \in Tasks, NEW pc, At(t, pc), pc \notin LockPcs, pc # "unlockRx"
  PROVE  /\ \A x \in Queues : q[x].txLock = -1 /\ q[x].rxLock = -1
         /\ \A u \in Tasks : task[u].pc \notin LockPcs
<1>1. k.cur = t /\ task[t].pc = pc /\ LocksOK
  BY RunsNow DEF Ground
<1>2. \A x \in Queues : q[x].txLock \in Int /\ q[x].rxLock \in Int
  BY QueueFacts
<1>3. \A x \in Queues : q[x].txLock = -1 /\ q[x].rxLock = -1
  BY <1>1, <1>2 DEF LocksOK
<1>4. \A u \in Tasks : u # t => task[u].pc \notin LockPcs
  BY <1>1 DEF Ground, SuspOK, LockPcs, SuspendedPcs
<1> QED
  BY <1>1, <1>3, <1>4

(* With no queue locked, LocksOK holds. *)
LEMMA LocksNone ==
  ASSUME IInv', \A x \in Queues : q'[x].txLock = -1 /\ q'[x].rxLock = -1,
         \A u \in Tasks : task'[u].pc \notin LockPcs
  PROVE  LocksOK'
<1>1. ASSUME NEW x \in Queues PROVE q'[x].waiting \in Nat
  <2>1. q'[x] \in Cell(x) /\ Length(x) \in Nat
    BY DEF IInv, QueuesOK, Length
  <2> QED
    BY <2>1 DEF Cell
<1>2. Mutex \in Queues
  BY DEF Queues
<1> QED
  BY <1>1, <1>2 DEF LocksOK

(* The stretch with the locked queue goes on. *)
LEMMA LocksSame ==
  ASSUME Ground, NEW t \in Tasks, NEW pc, At(t, pc), k'.cur = t, pc \in LockPcs, q' = q,
         Others(t), task'[t].pc \in LockPcs, task'[t].x = task[t].x
  PROVE  LocksOK'
<1>1. k.cur = t /\ task[t].pc = pc /\ LocksOK
  BY RunsNow DEF Ground
<1>2. \A u \in Tasks : u # t => task[u].pc \notin LockPcs /\ task'[u].pc \notin LockPcs
  BY <1>1 DEF Ground, SuspOK, LockPcs, SuspendedPcs, Others
<1>3. \A x \in Queues : q[x].txLock \in Int /\ q[x].rxLock \in Int
  BY QueueFacts
<1> QED
  BY <1>1, <1>2, <1>3 DEF LocksOK

(* A step of a task keeps LocksOK. *)
LEMMA LocksKept ==
  ASSUME Ground, NEW t \in Tasks, TaskEff(t), IInv'
  PROVE  LocksOK'
<1>0. Others(t) /\ k.cur = t /\ k'.cur = t
  BY CurSame
<1>1. ASSUME NEW pc, At(t, pc), pc \notin LockPcs, pc # "unlockRx",
             \A x \in Queues : q'[x].txLock = q[x].txLock /\ q'[x].rxLock = q[x].rxLock,
             task'[t].pc \notin LockPcs
      PROVE  LocksOK'
  <2>1. /\ \A x \in Queues : q[x].txLock = -1 /\ q[x].rxLock = -1
        /\ \A u \in Tasks : task[u].pc \notin LockPcs
    BY <1>1, Unlocked
  <2>2. \A u \in Tasks : task'[u].pc \notin LockPcs
    BY <1>0, <1>1, <2>1 DEF Others
  <2> QED
    BY <1>1, <2>1, <2>2, LocksNone
<1>2. ASSUME BeginEff(t) PROVE LocksOK'
  <2>1. At(t, "app") /\ q' = q /\ task'[t].pc \in {"top", "suspend", "yield"}
    BY <1>2 DEF BeginEff, BeginsAs
  <2> QED
    BY <1>1, <2>1 DEF LockPcs
<1>3. ASSUME RefuseEff(t) \/ EnterEff(t) PROVE LocksOK'
  <2>1. At(t, "top") /\ q' = q /\ task'[t].pc \in {"app", "suspend"}
    BY <1>3 DEF RefuseEff, EnterEff, Leaves
  <2> QED
    BY <1>1, <2>1 DEF LockPcs
<1>4. ASSUME SuspendEff(t) PROVE LocksOK'
  <2>1. At(t, "suspend") /\ q' = q /\ task'[t].pc \in {"delay", "lock"}
    BY <1>4 DEF SuspendEff, Goes
  <2> QED
    BY <1>1, <2>1 DEF LockPcs
<1>5. ASSUME DelayEff(t) PROVE LocksOK'
  <2>1. At(t, "delay") /\ q' = q /\ task'[t].pc = "resume"
    BY <1>5 DEF DelayEff, Goes
  <2> QED
    BY <1>1, <2>1 DEF LockPcs
<1>6. ASSUME YieldEff(t) PROVE LocksOK'
  <2>1. At(t, "yield") /\ q' = q /\ task'[t].pc \in {"top", "app"}
    BY <1>6 DEF YieldEff, Goes, Leaves
  <2> QED
    BY <1>1, <2>1 DEF LockPcs
<1>7. ASSUME NEW S, ResumeEff(t, S) PROVE LocksOK'
  <2>1. At(t, "resume") /\ q' = q /\ task'[t].pc \in {"top", "app", "yield"}
    BY <1>7 DEF ResumeEff, Goes, Leaves
  <2> QED
    BY <1>1, <2>1 DEF LockPcs
<1>8. ASSUME NEW x, SendEff(t, x) \/ ReceiveEff(t, x) PROVE LocksOK'
  <2>1. /\ At(t, "top") /\ task'[t].pc = "app"
        /\ \A y \in Queues : q'[y].txLock = q[y].txLock /\ q'[y].rxLock = q[y].rxLock
    BY <1>8 DEF SendEff, ReceiveEff, Leaves, Counts
  <2> QED
    BY <1>1, <2>1 DEF LockPcs
<1>9. ASSUME CheckEff(t) PROVE LocksOK'
  <2>1. At(t, "check") /\ q' = q /\ task'[t].pc \in {"test", "unlockTx"} /\ task'[t].x = task[t].x
    BY <1>9 DEF CheckEff, Goes
  <2> QED
    BY <1>0, <2>1, LocksSame DEF LockPcs
<1>10. ASSUME TestEff(t) PROVE LocksOK'
  <2>1. At(t, "test") /\ q' = q /\ task'[t].pc \in {"inherit", "place", "unlockTx"} /\ task'[t].x = task[t].x
    BY <1>10 DEF TestEff, Goes
  <2> QED
    BY <1>0, <2>1, LocksSame DEF LockPcs
<1>11. ASSUME NEW h, InheritEff(t, h) PROVE LocksOK'
  <2>1. At(t, "inherit") /\ q' = q /\ task'[t].pc = "place" /\ task'[t].x = task[t].x
    BY <1>11 DEF InheritEff, Goes
  <2> QED
    BY <1>0, <2>1, LocksSame DEF LockPcs
<1>12. ASSUME NEW x, PlaceEff(t, x) PROVE LocksOK'
  <2>1. At(t, "place") /\ q' = q /\ task'[t].pc = "unlockTx" /\ task'[t].x = task[t].x
    BY <1>12 DEF PlaceEff, Goes
  <2> QED
    BY <1>0, <2>1, LocksSame DEF LockPcs
<1>13. ASSUME NEW x, LockEff(t, x) PROVE LocksOK'
  <2>1. At(t, "lock") /\ x \in Queues /\ task'[t].pc = "check" /\ task'[t].x = x
    BY <1>13 DEF LockEff, Goes
  <2>2. /\ \A y \in Queues : q[y].txLock = -1 /\ q[y].rxLock = -1
        /\ \A u \in Tasks : task[u].pc \notin LockPcs
    BY <2>1, Unlocked DEF LockPcs
  <2>3. /\ q'[x].txLock = 0 /\ q'[x].rxLock = 0 /\ q'[x].waiting = q[x].waiting
        /\ \A y \in Queues : y # x => q'[y] = q[y]
    BY <1>13, <2>1, <2>2 DEF LockEff, Counts
  <2>4. \A y \in Queues : q[y].waiting >= 0 /\ q[y].waiting \in Int
    BY QueueFacts
  <2>5. \A u \in Tasks : task'[u].pc \in LockPcs => u = t
    BY <1>0, <2>2 DEF Others
  <2>6. Mutex \in Queues
    BY DEF Queues
  <2> QED
    BY <1>0, <2>1, <2>2, <2>3, <2>4, <2>5, <2>6 DEF LocksOK, LockPcs
<1>14. ASSUME NEW x, NEW P, NEW m, UnlockTxEff(t, x, P, m) PROVE LocksOK'
  <2>1. /\ At(t, "unlockTx") /\ x \in Queues /\ task[t].x = x /\ task'[t].pc = "unlockRx" /\ task'[t].x = x
        /\ q'[x].txLock = -1 /\ q'[x].rxLock = q[x].rxLock /\ q'[x].waiting = q[x].waiting
        /\ \A y \in Queues : y # x => q'[y] = q[y]
    BY <1>14 DEF UnlockTxEff, Goes, Counts
  <2>2. \A u \in Tasks : u # t => task'[u].pc \notin LockPcs
    BY <1>0, <2>1 DEF Ground, SuspOK, LockPcs, SuspendedPcs, Others
  <2>3. \A y \in Queues : q[y].waiting >= 0 /\ q[y].waiting \in Int /\ q[y].txLock \in Int /\ q[y].rxLock \in Int
    BY QueueFacts
  <2>4. LocksOK /\ task[t].pc = "unlockTx" /\ Mutex \in Queues
    BY <2>1 DEF Ground, At, Queues
  <2> QED
    BY <1>0, <2>1, <2>2, <2>3, <2>4 DEF LocksOK, LockPcs
<1>15. ASSUME NEW x, UnlockRxEff(t, x) PROVE LocksOK'
  <2>1. /\ At(t, "unlockRx") /\ x \in Queues /\ task[t].x = x /\ task'[t].pc = "resume"
        /\ q'[x].rxLock = -1 /\ q'[x].txLock = q[x].txLock
        /\ \A y \in Queues : y # x => q'[y] = q[y]
    BY <1>15 DEF UnlockRxEff, Goes, Counts
  <2>2. LocksOK /\ task[t].pc = "unlockRx"
    BY <2>1 DEF Ground, At
  <2>3. \A y \in Queues : q[y].txLock \in Int /\ q[y].rxLock \in Int
    BY QueueFacts
  <2>4. \A y \in Queues : q[y].txLock = -1 /\ (y # x => q[y].rxLock = -1)
    BY <1>0, <2>1, <2>2, <2>3 DEF LocksOK, LockPcs
  <2>5. \A u \in Tasks : task'[u].pc \notin LockPcs
    BY <1>0, <2>1 DEF Ground, SuspOK, LockPcs, SuspendedPcs, Others
  <2>6. \A y \in Queues : q'[y].txLock = -1 /\ q'[y].rxLock = -1
    BY <2>1, <2>4
  <2> QED
    BY <2>5, <2>6, LocksNone
<1> HIDE DEF LocksOK
<1> QED
  BY <1>2, <1>3, <1>4, <1>5, <1>6, <1>7, <1>8, <1>9, <1>10, <1>11, <1>12, <1>13, <1>14, <1>15 DEF TaskEff

(* An interrupt keeps LocksOK. *)
LEMMA LocksIsr ==
  ASSUME Ground, IsrEff
  PROVE  LocksOK'
<1>0. LocksOK /\ task' = task /\ Mbox \in Queues /\ Mutex \in Queues /\ Mbox # Mutex
  BY CallsIsr DEF Ground, Queues
<1>1. \A x \in Queues : q[x].txLock \in Int /\ q[x].rxLock \in Int /\ q[x].waiting \in Nat
  BY QueueFacts
<1>2. CASE CountEff
  <2>1. /\ q'[Mbox].waiting = q[Mbox].waiting + 1 /\ q'[Mbox].txLock = q[Mbox].txLock + 1
        /\ q'[Mbox].rxLock = q[Mbox].rxLock /\ q'[Mutex] = q[Mutex] /\ k' = k /\ q[Mbox].txLock # -1
    BY <1>0, <1>2 DEF CountEff, Counts
  <2>2. \A x \in Queues : x = Mbox \/ x = Mutex
    BY DEF Queues
  <2>3. q[Mbox].txLock >= 0
    BY <1>0, <1>1, <2>1 DEF LocksOK
  <2>4. \A t \in Tasks : task[t].pc \in LockPcs => q'[task[t].x].txLock >= 0
    <3> SUFFICES ASSUME NEW t \in Tasks, task[t].pc \in LockPcs PROVE q'[task[t].x].txLock >= 0
      OBVIOUS
    <3>1. task[t].x \in Queues /\ q[task[t].x].txLock >= 0
      BY <1>0, InCallFacts DEF LocksOK, LockPcs
    <3> QED
      BY <1>1, <2>1, <2>2, <2>3, <3>1
  <2>5. \A x \in Queues :
         /\ q'[x].txLock >= -1 /\ q'[x].txLock <= q'[x].waiting /\ q'[x].rxLock \in {-1, 0}
         /\ q'[x].txLock >= 0 => q[x].txLock >= 0
         /\ q'[x].rxLock >= 0 => q[x].rxLock >= 0
    BY <1>0, <1>1, <2>1, <2>2, <2>3 DEF LocksOK
  <2> QED
    BY <1>0, <2>1, <2>4, <2>5 DEF LocksOK
<1>3. CASE QuietEff \/ \E h, S, P : PostEff(h, S, P)
  <2>1. /\ q'[Mbox].waiting = q[Mbox].waiting + 1 /\ q'[Mbox].txLock = q[Mbox].txLock
        /\ q'[Mbox].rxLock = q[Mbox].rxLock /\ q'[Mutex] = q[Mutex] /\ k'.cur = k.cur
    BY <1>0, <1>3 DEF QuietEff, PostEff, Counts
  <2>2. \A x \in Queues : q'[x].txLock = q[x].txLock /\ q'[x].rxLock = q[x].rxLock /\ q'[x].waiting >= q[x].waiting
          /\ q'[x].waiting \in Nat
    BY <1>1, <2>1 DEF Queues
  <2>3. \A x \in Queues : q'[x].txLock <= q'[x].waiting
    BY <1>0, <1>1, <2>2 DEF LocksOK
  <2>4. \A t \in Tasks : task[t].pc \in LockPcs => task[t].x \in Queues
    BY InCallFacts DEF LockPcs
  <2> QED
    BY <1>0, <2>1, <2>2, <2>3, <2>4 DEF LocksOK
<1>4. CASE HoldEff \/ MissEff
  BY <1>0, <1>4 DEF HoldEff, MissEff, FlagStep, LocksOK
<1>5. CASE \E S : TickEff(S)
  BY <1>0, <1>5 DEF TickEff, Ticked, LocksOK
<1>6. CASE SwitchEff
  <2>1. q' = q /\ ~k.suspended
    BY <1>6 DEF SwitchEff
  <2>2. \A t \in Tasks : task[t].pc \notin LockPcs /\ task[t].pc # "unlockRx"
    BY <2>1 DEF Ground, SuspOK, SuspendedPcs, LockPcs
  <2>3. \A x \in Queues : ~(q[x].txLock >= 0) /\ ~(q[x].rxLock >= 0)
    BY <1>0, <2>2 DEF LocksOK
  <2> QED
    BY <1>0, <2>1, <2>2, <2>3 DEF LocksOK
<1> QED
  BY <1>2, <1>3, <1>4, <1>5, <1>6 DEF IsrEff

-----------------------------------------------------------------------------
(* The mutex and its holder. *)

(* MutexOK, task by task. *)
LEMMA MutexIs ==
  MutexOK <=> /\ q[Mutex].waiting = IF q[Mutex].holder = Nothing THEN 1 ELSE 0
              /\ \A u \in Tasks : (Holding(u) => Ready(k, u)) /\ MutexFine(u)
  BY DEF MutexOK, MutexFine

(* A step of t that leaves the mutex alone keeps MutexOK. *)
LEMMA MutexByTask ==
  ASSUME Ground, NEW t \in Tasks, Others(t), SameMutex,
         \A u \in Tasks : Holding(u) => Ready(k', u),
         MutexFine(t)'
  PROVE  MutexOK'
<1>1. /\ q[Mutex].waiting = IF q[Mutex].holder = Nothing THEN 1 ELSE 0
      /\ \A u \in Tasks : MutexFine(u)
  BY MutexIs DEF Ground
<1>2. ASSUME NEW u \in Tasks PROVE MutexFine(u)'
  <2>1. CASE u = t
    BY <2>1
  <2>2. CASE u # t
    BY <1>1, <2>2 DEF MutexFine, Others, SameMutex, Holding, Waits
  <2> QED
    BY <2>1, <2>2
<1>3. \A u \in Tasks : Holding(u)' => Ready(k', u)
  BY DEF Holding, SameMutex
<1>4. /\ q'[Mutex].waiting = IF q'[Mutex].holder = Nothing THEN 1 ELSE 0
      /\ \A u \in Tasks : (Holding(u)' => Ready(k', u)) /\ MutexFine(u)'
  BY <1>1, <1>2, <1>3 DEF SameMutex
<1> QED
  BY <1>4 DEF MutexOK, MutexFine

(* The holder of the mutex stays ready. *)
LEMMA HoldersReady ==
  ASSUME Ground, NEW t \in Tasks, TaskEff(t)
  PROVE  \A u \in Tasks : Holding(u) => Ready(k', u)
<1>0. \A u \in Tasks : Holding(u) => Ready(k, u) /\ u \in AllTasks
  BY DEF Ground, MutexOK, AllTasks
<1>1. ASSUME NEW pc \in {"delay", "place"}, At(t, pc) PROVE ~Holding(t)
  BY <1>1 DEF Ground, MutexOK, Waits, At
<1>2. Stays(t)
  BY TaskStays
<1>3. CASE \E S, P : Woke(k, k', S, P)
  BY <1>0, <1>3 DEF Woke
<1>4. CASE DelayEff(t)
  <2>1. At(t, "delay") /\ \A u \in AllTasks : Ready(k', u) <=> Ready(k, u) /\ u # t
    BY <1>4 DEF DelayEff
  <2> QED
    BY <1>0, <1>1, <2>1
<1>5. CASE \E x : PlaceEff(t, x)
  <2>1. At(t, "place") /\ \A u \in AllTasks : Ready(k', u) <=> Ready(k, u) /\ u # t
    BY <1>5 DEF PlaceEff, Placed, Unready
  <2> QED
    BY <1>0, <1>1, <2>1
<1> QED
  BY <1>2, <1>3, <1>4, <1>5 DEF Stays

(* A call that goes on keeps what t knows of the mutex. *)
LEMMA MutexGoes ==
  ASSUME Ground, NEW t \in Tasks, task[t].pc \notin {"app", "top"}, NEW pc, Goes(t, pc), SameMutex,
         pc \in {"inherit", "place"} => q[Mutex].holder # Nothing \/ ~Waits(t, "receive", Mutex),
         pc = "inherit" => Waits(t, "receive", Mutex),
         pc # "app"
  PROVE  MutexFine(t)'
<1>1. MutexFine(t)
  BY MutexIs DEF Ground
<1>2. ~Holding(t) /\ ~Waits(t, "send", Mutex)
  BY <1>1 DEF MutexFine
<1> QED
  BY <1>1, <1>2 DEF MutexFine, Goes, SameMutex, Holding, Waits

(* A step of a task keeps MutexOK. *)
LEMMA MutexKept ==
  ASSUME Ground, NEW t \in Tasks, TaskEff(t)
  PROVE  MutexOK'
<1>0. Others(t) /\ k.cur = t /\ k'.cur = t
  BY CurSame
<1>1. \A u \in Tasks : Holding(u) => Ready(k', u)
  BY HoldersReady
<1>2. ASSUME MutexFine(t)', SameMutex PROVE MutexOK'
  BY <1>0, <1>1, <1>2, MutexByTask
<1>3. ASSUME NEW pc, At(t, pc), pc \notin {"app", "top"},
             NEW pc2, pc2 \notin {"app", "inherit", "place"}, Goes(t, pc2), SameMutex
      PROVE  MutexOK'
  <2>1. MutexFine(t)'
    BY <1>3, MutexGoes DEF At
  <2> QED
    BY <1>2, <1>3, <2>1
<1>4. ASSUME Leaves(t), SameMutex PROVE MutexOK'
  <2>1. MutexFine(t)'
    BY <1>4 DEF Leaves, MutexFine, Waits
  <2> QED
    BY <1>2, <1>4, <2>1
<1>5. (q' = q => SameMutex) /\ Mutex \in Queues /\ Mbox \in Queues /\ Mbox # Mutex
  BY DEF SameMutex, Queues
<1>6. MutexFine(t)
  BY MutexIs DEF Ground
<1>7. ASSUME BeginEff(t) PROVE MutexOK'
  <2>1. At(t, "app") /\ q' = q /\ ~task'[t].expired /\ BeginsAs(t) /\ (Holding(t)' <=> Holding(t))
    BY <1>7 DEF BeginEff, Holding
  <2>2. MutexFine(t)'
    BY <2>1 DEF BeginsAs, MutexFine, Waits
  <2> QED
    BY <1>2, <1>5, <2>1, <2>2
<1>8. ASSUME RefuseEff(t) PROVE MutexOK'
  BY <1>4, <1>5, <1>8 DEF RefuseEff
<1>9. ASSUME EnterEff(t) PROVE MutexOK'
  <2>1. /\ At(t, "top") /\ task[t].fn # "delay" /\ Blocked(t) /\ q' = q
        /\ task'[t].pc = "suspend" /\ task[t].pc = "top"
        /\ task'[t].fn = task[t].fn /\ task'[t].x = task[t].x /\ task'[t].wait = task[t].wait
        /\ task'[t].expired = task[t].expired
    BY <1>9 DEF EnterEff, At
  <2>2. ~Waits(t, "send", Mutex)
    <3> SUFFICES ASSUME Waits(t, "send", Mutex) PROVE FALSE
      OBVIOUS
    <3>1. Holding(t)
      BY <1>6 DEF MutexFine
    <3>2. q[Mutex].waiting = 0
      BY <3>1 DEF Ground, MutexOK, Holding
    <3>3. q[Mutex].waiting = Length(Mutex)
      BY <2>1 DEF Blocked, Waits
    <3> QED
      BY <3>2, <3>3 DEF Length
  <2>3. ~Holding(t)
    BY <1>6, <2>1, <2>2 DEF MutexFine
  <2>4. ~Holding(t)'
    BY <2>1, <2>3 DEF Holding
  <2>5. ~Waits(t, "send", Mutex)' /\ (Waits(t, "receive", Mutex)' => Waits(t, "receive", Mutex))
    BY <2>1, <2>2 DEF Waits
  <2>6. MutexFine(t)'
    BY <1>6, <2>1, <2>4, <2>5 DEF MutexFine
  <2> QED
    BY <1>2, <1>5, <2>1, <2>6
<1>10. ASSUME SuspendEff(t) PROVE MutexOK'
  BY <1>3, <1>5, <1>10 DEF SuspendEff
<1>11. ASSUME DelayEff(t) PROVE MutexOK'
  BY <1>3, <1>5, <1>11 DEF DelayEff
<1>12. ASSUME CheckEff(t) PROVE MutexOK'
  <2>1. At(t, "check") /\ q' = q /\ task[t].pc = "check"
    BY <1>12 DEF CheckEff, At
  <2>2. ~Holding(t) /\ ~Waits(t, "send", Mutex)
    BY <1>6, <2>1 DEF MutexFine
  <2>3. /\ task'[t].pc \in {"test", "unlockTx"} /\ task'[t].fn = task[t].fn /\ task'[t].x = task[t].x
        /\ task[t].wait = portMAX_DELAY => task'[t].wait = task[t].wait /\ task'[t].expired = task[t].expired
    BY <1>12 DEF CheckEff, Goes
  <2>4. ~Holding(t)' /\ ~Waits(t, "send", Mutex)' /\ (Waits(t, "receive", Mutex)' => Waits(t, "receive", Mutex))
    BY <2>1, <2>2, <2>3 DEF Holding, Waits
  <2>5. MutexFine(t)'
    BY <1>6, <2>3, <2>4 DEF MutexFine
  <2> QED
    BY <1>2, <1>5, <2>1, <2>5
<1>13. ASSUME TestEff(t) PROVE MutexOK'
  <2>1. At(t, "test") /\ q' = q /\ task[t].pc = "test"
    BY <1>13 DEF TestEff, At
  <2>2. Blocked(t) /\ task[t].fn = "receive" /\ task[t].x = Mutex => q[Mutex].holder # Nothing
    <3>1. q[Mutex].waiting = IF q[Mutex].holder = Nothing THEN 1 ELSE 0
      BY DEF Ground, MutexOK
    <3> QED
      BY <3>1 DEF Blocked
  <2>3. PICK pc \in {"unlockTx", "inherit", "place"} :
          /\ Goes(t, pc)
          /\ pc = "inherit" => Blocked(t) /\ task[t].fn = "receive" /\ task[t].x = Mutex
          /\ pc = "place" => ~(task[t].fn = "receive" /\ task[t].x = Mutex)
    BY <1>13 DEF TestEff
  <2>4. /\ pc \in {"inherit", "place"} => q[Mutex].holder # Nothing \/ ~Waits(t, "receive", Mutex)
        /\ pc = "inherit" => Waits(t, "receive", Mutex)
    BY <2>1, <2>2, <2>3 DEF Waits
  <2>5. MutexFine(t)'
    BY <1>5, <2>1, <2>3, <2>4, MutexGoes
  <2> QED
    BY <1>2, <1>5, <2>1, <2>5
<1>14. ASSUME YieldEff(t) PROVE MutexOK'
  BY <1>3, <1>4, <1>5, <1>14 DEF YieldEff
<1>15. ASSUME NEW x, SendEff(t, x) PROVE MutexOK'
  <2>1. Leaves(t) /\ Counts(x, q[x].waiting + 1, Nothing, q[x].txLock, q[x].rxLock) /\ At(t, "top")
        /\ task[t].fn = "send" /\ task[t].x = x /\ x \in Queues /\ q[x].waiting < Length(x) /\ task[t].pc = "top"
    BY <1>15 DEF SendEff, At
  <2>2. CASE x # Mutex
    BY <1>4, <1>5, <2>1, <2>2 DEF Counts, SameMutex
  <2>3. CASE x = Mutex
    <3>1. Waits(t, "send", Mutex) /\ Holding(t)
      BY <1>6, <2>1, <2>3 DEF Waits, MutexFine
    <3>2. q[Mutex].waiting = 0
      BY <3>1 DEF Ground, MutexOK, Holding
    <3>3. q'[Mutex].waiting = 1 /\ q'[Mutex].holder = Nothing
      BY <2>1, <2>3, <3>2 DEF Counts
    <3>4. \A u \in Tasks : ~Holding(u)' /\ (u # t => ~Holding(u))
      BY <3>1, <3>3 DEF Holding
    <3>5. \A u \in Tasks : u # t => task'[u] = task[u] /\ task[u].pc \notin {"inherit", "place"}
      BY <1>0, <2>1 DEF Others, Ground, SuspOK, SuspendedPcs
    <3>6. ASSUME NEW u \in Tasks PROVE MutexFine(u)'
      <4>1. CASE u = t
        BY <2>1, <4>1 DEF MutexFine, Leaves, Waits
      <4>2. CASE u # t
        <5>1. MutexFine(u)
          BY MutexIs DEF Ground
        <5>2. ~Waits(u, "send", Mutex)
          BY <3>4, <4>2, <5>1 DEF MutexFine
        <5> QED
          BY <3>4, <3>5, <4>2, <5>1, <5>2 DEF MutexFine, Waits
      <4> QED
        BY <4>1, <4>2
    <3>7. /\ q'[Mutex].waiting = IF q'[Mutex].holder = Nothing THEN 1 ELSE 0
          /\ \A u \in Tasks : (Holding(u)' => Ready(k', u)) /\ MutexFine(u)'
      BY <3>3, <3>4, <3>6
    <3> QED
      BY <3>7 DEF MutexOK, MutexFine
  <2> QED
    BY <2>2, <2>3
<1>16. ASSUME NEW x, ReceiveEff(t, x) PROVE MutexOK'
  <2>1. /\ Leaves(t) /\ At(t, "top") /\ task[t].pc = "top"
        /\ Counts(x, q[x].waiting - 1, IF x = Mutex THEN t ELSE q[x].holder, q[x].txLock, q[x].rxLock)
        /\ task[t].fn = "receive" /\ task[t].x = x /\ x \in Queues /\ q[x].waiting > 0
        /\ Woke(k, k', First(k.toSend[x]), {})
    BY <1>16 DEF ReceiveEff, At
  <2>2. CASE x # Mutex
    BY <1>4, <1>5, <2>1, <2>2 DEF Counts, SameMutex
  <2>3. CASE x = Mutex
    <3>1. q[Mutex].holder = Nothing /\ q[Mutex].waiting = 1
      BY <2>1, <2>3 DEF Ground, MutexOK
    <3>2. q'[Mutex].waiting = 0 /\ q'[Mutex].holder = t
      BY <2>1, <2>3, <3>1 DEF Counts
    <3>3. \A u \in Tasks : ~Holding(u) /\ (Holding(u)' => u = t)
      BY <3>1, <3>2 DEF Holding
    <3>4. Ready(k', t)
      <4>1. Ready(k, t) /\ t \in AllTasks
        BY <2>1, RunsReady DEF PlacedPcs, AllTasks
      <4> QED
        BY <2>1, <4>1 DEF Woke
    <3>6. ASSUME NEW u \in Tasks PROVE MutexFine(u)'
      <4>1. CASE u = t
        BY <2>1, <4>1 DEF MutexFine, Leaves, Waits
      <4>2. CASE u # t
        <5>1. MutexFine(u)
          BY MutexIs DEF Ground
        <5>2. ~Waits(u, "send", Mutex)
          BY <3>3, <5>1 DEF MutexFine
        <5>3. task'[u] = task[u] /\ q'[Mutex].holder # Nothing
          BY <1>0, <3>2, <4>2 DEF Others
        <5> QED
          BY <3>3, <4>2, <5>1, <5>2, <5>3 DEF MutexFine, Waits
      <4> QED
        BY <4>1, <4>2
    <3>7. /\ q'[Mutex].waiting = IF q'[Mutex].holder = Nothing THEN 1 ELSE 0
          /\ \A u \in Tasks : (Holding(u)' => Ready(k', u)) /\ MutexFine(u)'
      BY <3>2, <3>3, <3>4, <3>6
    <3> QED
      BY <3>7 DEF MutexOK, MutexFine
  <2> QED
    BY <2>2, <2>3
<1>17. ASSUME NEW x, LockEff(t, x) PROVE MutexOK'
  <2>1. SameMutex
    BY <1>5, <1>17 DEF LockEff, Counts, SameMutex
  <2> QED
    BY <1>3, <1>17, <2>1 DEF LockEff
<1>18. ASSUME NEW x, PlaceEff(t, x) PROVE MutexOK'
  BY <1>3, <1>5, <1>18 DEF PlaceEff
<1>19. ASSUME NEW x, UnlockRxEff(t, x) PROVE MutexOK'
  <2>1. SameMutex
    BY <1>5, <1>19 DEF UnlockRxEff, Counts, SameMutex
  <2> QED
    BY <1>3, <1>19, <2>1 DEF UnlockRxEff
<1>20. ASSUME NEW h, InheritEff(t, h) PROVE MutexOK'
  <2>1. At(t, "inherit") /\ Goes(t, "place") /\ q' = q /\ Holding(h) /\ h \in Tasks /\ task[t].pc = "inherit"
    BY <1>20 DEF InheritEff, At
  <2>2. q[Mutex].holder # Nothing
    BY <2>1 DEF Holding
  <2>3. MutexFine(t)'
    BY <1>5, <2>1, <2>2, MutexGoes
  <2> QED
    BY <1>2, <1>5, <2>1, <2>3
<1>21. ASSUME NEW x, NEW P, NEW m, UnlockTxEff(t, x, P, m) PROVE MutexOK'
  <2>1. SameMutex
    BY <1>5, <1>21 DEF UnlockTxEff, Counts, SameMutex
  <2> QED
    BY <1>3, <1>21, <2>1 DEF UnlockTxEff
<1>22. ASSUME NEW S, ResumeEff(t, S) PROVE MutexOK'
  BY <1>3, <1>4, <1>5, <1>22 DEF ResumeEff
<1> HIDE DEF MutexOK
<1> QED
  BY <1>7, <1>8, <1>9, <1>10, <1>11, <1>12, <1>13, <1>14, <1>15, <1>16, <1>17, <1>18, <1>19, <1>20, <1>21,
     <1>22 DEF TaskEff

(* Interrupts leave the mutex alone. *)
LEMMA IsrMutex ==
  ASSUME Ground, IsrEff
  PROVE  q'[Mutex] = q[Mutex]
<1>1. Mutex \in Queues /\ Mbox # Mutex
  BY DEF Queues
<1> QED
  BY <1>1 DEF IsrEff, HoldEff, MissEff, SwitchEff, CountEff, QuietEff, TickEff, PostEff, Counts

(* An interrupt keeps MutexOK. *)
LEMMA MutexIsr ==
  ASSUME Ground, IsrEff
  PROVE  MutexOK'
<1>1. q'[Mutex] = q[Mutex] /\ task' = task
  BY IsrMutex, CallsIsr
<1>2. \A u \in AllTasks : Ready(k, u) => Ready(k', u)
  BY IsrStays DEF Woke
<1> QED
  BY <1>1, <1>2 DEF Ground, MutexOK, Holding, Waits, AllTasks

-----------------------------------------------------------------------------
(* The time limits. *)

(* Only the wait of t changes. *)
LEMMA TimedByTask ==
  ASSUME TimedOK, NEW t \in Tasks, Others(t), SameTimes(t), TimedFine(t)'
  PROVE  TimedOK'
<1>1. ASSUME NEW u \in Tasks, u # t PROVE TimedFine(u)'
  <2>1. /\ task'[u] = task[u] /\ k'.due[u] = k.due[u] /\ k'.entered[u] = k.entered[u]
        /\ k'.tick = k.tick /\ k'.missedTicks = k.missedTicks
    BY <1>1 DEF Others, SameTimes, OtherWaits, AllTasks
  <2>2. TimedFine(u)
    BY DEF TimedOK
  <2> QED
    BY <2>1, <2>2 DEF TimedFine, TimedAt, Elapsed
<1> QED
  BY <1>1 DEF TimedOK

(* The wait of t goes on. *)
LEMMA TimedGoes ==
  ASSUME TimedOK, NEW t \in Tasks, task[t].pc # "app", NEW pc, Goes(t, pc), SameTimes(t),
         k'.due[t] = k.due[t], k'.entered[t] = k.entered[t],
         pc \in {"test", "place"} => task[t].pc \in {"test", "place"} \/ task[t].wait = portMAX_DELAY
  PROVE  TimedOK'
<1>1. TimedFine(t)
  BY DEF TimedOK
<1>2. TimedFine(t)'
  BY <1>1 DEF TimedFine, TimedAt, Elapsed, Goes, SameTimes
<1> QED
  BY <1>2, TimedByTask DEF Goes

(* A task that returns has no wait. *)
LEMMA TimedLeaves ==
  ASSUME TimedOK, NEW t \in Tasks, Leaves(t), SameTimes(t)
  PROVE  TimedOK'
<1>1. TimedFine(t)'
  BY DEF TimedFine, Leaves
<1> QED
  BY <1>1, TimedByTask DEF Leaves

(* What xTaskCheckForTimeOut computes is the time that has passed. *)
LEMMA SinceIs ==
  ASSUME Ground, NEW t \in Tasks, NEW w \in 1 .. W - 2, w + MaxLate <= W,
         TimedAt(k, w, t, k.missedTicks)
  PROVE  /\ ~Passed(t) => k.due[t] = w - Since(t)
         /\ Passed(t) => k.due[t] <= 0
<1>1. /\ k.tick \in 0 .. W - 1 /\ k.entered[t].tick \in 0 .. W - 1 /\ k.entered[t].wrapped \in BOOLEAN
      /\ k.missedTicks \in Nat /\ k.due[t] \in Int
  BY DEF Ground, Shape, Numbers, AllTasks
<1> DEFINE d == k.tick - k.entered[t].tick
<1>2. d \in -(W - 1) .. W - 1
  BY <1>1
<1>3. Since(t) = IF d >= 0 THEN d ELSE d + W
  BY <1>2 DEF Since
<1>4. k.due[t] = w - (d + (IF k.entered[t].wrapped THEN W ELSE 0))
      /\ d + (IF k.entered[t].wrapped THEN W ELSE 0) >= 0
      /\ k.due[t] - k.missedTicks >= -MaxLate
  BY DEF TimedAt, Elapsed
<1>5. CASE Passed(t)
  BY <1>1, <1>4, <1>5 DEF Passed
<1>6. CASE ~Passed(t)
  <2>1. CASE k.entered[t].wrapped
    <3>1. d < 0
      BY <1>1, <1>6, <2>1 DEF Passed
    <3> QED
      BY <1>1, <1>2, <1>3, <1>4, <1>6, <2>1, <3>1
  <2>2. CASE ~k.entered[t].wrapped
    BY <1>1, <1>2, <1>3, <1>4, <1>6, <2>2
  <2> QED
    BY <2>1, <2>2
<1> QED
  BY <1>5, <1>6

(* xTaskCheckForTimeOut keeps the account of the time that has passed. *)
LEMMA TimedCheck ==
  ASSUME Ground, TimedOK, NEW t \in Tasks, CheckEff(t)
  PROVE  TimedOK'
<1>0. At(t, "check") /\ task[t].pc = "check"
  BY DEF CheckEff, At
<1>1. CASE task[t].wait = portMAX_DELAY /\ Goes(t, "test") /\ k' = k
  BY <1>0, <1>1, TimedGoes DEF SameTimes, OtherWaits
<1> DEFINE w == task[t].wait
<1>2. task[t].fn # "delay" /\ task[t].entrySet /\ w \in 1 .. W - 1
  BY <1>0, InCallFacts DEF Ground, CallsOK
<1>3. w # portMAX_DELAY => w + MaxLate <= W /\ w \in 1 .. W - 2 /\ TimedAt(k, w, t, k.missedTicks)
  <2>1. TimedFine(t)
    BY DEF TimedOK
  <2> QED
    BY <1>0, <1>2, <2>1 DEF Ground, CallsOK, portMAX_DELAY, TimedFine
<1>4. /\ w # portMAX_DELAY /\ ~Passed(t) => k.due[t] = w - Since(t)
      /\ w # portMAX_DELAY /\ Passed(t) => k.due[t] <= 0
  BY <1>3, SinceIs
<1>5. /\ k.tick \in 0 .. W - 1 /\ k.missedTicks \in Nat /\ k.due[t] \in Int
  BY DEF Ground, Shape, Numbers, AllTasks
<1>6. CASE /\ w # portMAX_DELAY /\ ~Passed(t) /\ Since(t) < w
           /\ Others(t) /\ task'[t].pc = "test" /\ task'[t].wait = w - Since(t)
           /\ task'[t].expired = task[t].expired
           /\ Rewaited(k, k', t, k.due[t], [tick |-> k.tick, wrapped |-> FALSE])
  <2>1. /\ k'.tick = k.tick /\ k'.missedTicks = k.missedTicks /\ OtherWaits(t)
        /\ k'.due[t] = k.due[t] /\ k'.entered[t] = [tick |-> k.tick, wrapped |-> FALSE]
    BY <1>6 DEF Rewaited, KeepsTime, SameFlags, OtherWaits
  <2>2. ~task[t].expired
    BY <1>0 DEF Ground, CallsOK
  <2>3. Elapsed(k', t) = 0
    BY <1>5, <2>1 DEF Elapsed
  <2>4. k'.due[t] = task'[t].wait /\ k'.due[t] - k'.missedTicks >= -MaxLate /\ k'.due[t] \in Int
    BY <1>3, <1>4, <1>5, <1>6, <2>1 DEF TimedAt
  <2>5. TimedAt(k', task'[t].wait, t, k'.missedTicks)
    BY <2>3, <2>4 DEF TimedAt
  <2>6. TimedFine(t)'
    BY <1>6, <2>2, <2>4, <2>5 DEF TimedFine
  <2> QED
    BY <1>6, <2>1, <2>6, TimedByTask DEF SameTimes
<1>7. CASE /\ w # portMAX_DELAY /\ (Passed(t) \/ ~(Since(t) < w))
           /\ Others(t) /\ task'[t].pc = "unlockTx" /\ task'[t].expired
           /\ task'[t].wait = w
           /\ k' = k
  <2>1. Since(t) \in Int
    <3>1. k.entered[t].tick \in Int
      BY DEF Ground, Shape, Numbers, AllTasks
    <3> QED
      BY <1>5, <3>1 DEF Since
  <2>2. k.due[t] <= 0
    BY <1>2, <1>4, <1>5, <1>7, <2>1
  <2>3. TimedFine(t)'
    BY <1>3, <1>7, <2>2 DEF TimedFine
  <2> QED
    BY <1>7, <2>3, TimedByTask DEF SameTimes, OtherWaits
<1> QED
  BY <1>1, <1>6, <1>7 DEF CheckEff

(* xTaskResumeAll keeps the account of the time that has passed. *)
LEMMA TimedResume ==
  ASSUME Ground, TimedOK, NEW t \in Tasks, NEW S, ResumeEff(t, S)
  PROVE  TimedOK'
<1>0. /\ At(t, "resume") /\ task[t].pc = "resume" /\ Others(t) /\ k'.missedTicks = 0
      /\ \A u \in AllTasks : u # t \/ ~task[t].expired => k'.due[u] <= k.due[u]
      /\ \A u \in AllTasks, w \in Nat : u # t \/ ~task[t].expired =>
           (w + MaxLate <= W /\ TimedAt(k, w, u, k.missedTicks) => TimedAt(k', w, u, 0))
      /\ \/ Leaves(t)
         \/ ~task[t].expired /\ (Goes(t, "yield") \/ Goes(t, "top"))
  BY DEF ResumeEff, At, Leaves, Goes
<1>1. k.due \in [AllTasks -> Int] /\ k'.due \in [AllTasks -> Int]
  <2>1. Shape(k) /\ Shape(k')
    BY DEF Ground, ResumeEff, Woke
  <2> QED
    BY <2>1 DEF Shape, Numbers
<1>2. ASSUME NEW u \in Tasks PROVE TimedFine(u)'
  <2>0. u \in AllTasks /\ TimedFine(u)
    BY DEF AllTasks, TimedOK
  <2>1. CASE task'[u].pc = "app"
    BY <2>1 DEF TimedFine
  <2>2. CASE task'[u].pc # "app"
    <3>1. /\ u # t \/ ~task[t].expired
          /\ task[u].pc # "app" /\ task'[u].fn = task[u].fn /\ task'[u].x = task[u].x
          /\ task'[u].wait = task[u].wait /\ task'[u].entrySet = task[u].entrySet
          /\ task'[u].expired = task[u].expired /\ task'[u].pc \notin {"test", "place"}
      <4>1. CASE u = t
        BY <1>0, <2>2, <4>1 DEF Leaves, Goes
      <4>2. CASE u # t
        <5>1. task'[u] = task[u]
          BY <1>0, <4>2 DEF Others
        <5>2. task[u].pc \notin SuspendedPcs
          BY <1>0, <4>2 DEF Ground, SuspOK, At, Running
        <5> QED
          BY <2>2, <4>2, <5>1, <5>2 DEF SuspendedPcs
      <4> QED
        BY <4>1, <4>2
    <3>2. CASE task[u].fn # "delay" /\ task[u].wait \notin {0, portMAX_DELAY} /\ task[u].entrySet
      <4>1. task[u].wait \in Nat /\ task[u].wait + MaxLate <= W
        BY <3>1, <3>2 DEF Ground, CallsOK
      <4>2. TimedAt(k, task[u].wait, u, k.missedTicks) /\ (task[u].expired => k.due[u] <= 0)
        BY <2>0, <3>1, <3>2 DEF TimedFine
      <4>3. TimedAt(k', task[u].wait, u, 0)
        BY <1>0, <2>0, <3>1, <4>1, <4>2
      <4>4. task[u].expired => k'.due[u] <= 0
        BY <1>0, <1>1, <2>0, <3>1, <4>2
      <4> QED
        BY <1>0, <3>1, <4>3, <4>4 DEF TimedFine
    <3>3. CASE ~(task[u].fn # "delay" /\ task[u].wait \notin {0, portMAX_DELAY} /\ task[u].entrySet)
      BY <3>1, <3>3 DEF TimedFine
    <3> QED
      BY <3>2, <3>3
  <2> QED
    BY <2>1, <2>2
<1> QED
  BY <1>2 DEF TimedOK

(* A step of a task keeps TimedOK. *)
LEMMA TimedKept ==
  ASSUME Ground, TimedOK, NEW t \in Tasks, TaskEff(t)
  PROVE  TimedOK'
<1> USE DEF SameTimes
<1> HIDE DEF TimedOK, Ground
<1>0. t \in AllTasks
  BY DEF AllTasks
<1>1. ASSUME BeginEff(t) PROVE TimedOK'
  <2>1. TimedFine(t)'
    BY <1>1 DEF BeginEff, TimedFine
  <2> QED
    BY <1>1, <2>1, TimedByTask DEF BeginEff, OtherWaits
<1>2. ASSUME RefuseEff(t) PROVE TimedOK'
  BY <1>2, TimedLeaves DEF RefuseEff, OtherWaits
<1>3. ASSUME EnterEff(t) PROVE TimedOK'
  <2>1. SameTimes(t) /\ At(t, "top") /\ Others(t)
    BY <1>3 DEF EnterEff, WaitOf, KeepsTime, SameFlags
  <2>2. k.missedTicks = 0
    BY <2>1, NotSuspended DEF SuspendedPcs
  <2>3. TimedFine(t) /\ k.tick \in Int
    BY DEF TimedOK, Ground, Shape, Numbers
  <2>4. /\ task'[t].pc = "suspend" /\ task'[t].wait = task[t].wait /\ task'[t].fn = task[t].fn
        /\ task'[t].expired = task[t].expired /\ task[t].pc = "top"
    BY <1>3 DEF EnterEff, At
  <2>5. CASE task[t].entrySet \/ task[t].wait = portMAX_DELAY
    <3>1. k'.due[t] = k.due[t] /\ k'.entered[t] = k.entered[t]
      BY <1>3, <2>5 DEF EnterEff
    <3>2. TimedFine(t)'
      BY <2>1, <2>3, <2>4, <2>5, <3>1 DEF TimedFine, TimedAt, Elapsed
    <3> QED
      BY <2>1, <3>2, TimedByTask
  <2>6. CASE ~(task[t].entrySet \/ task[t].wait = portMAX_DELAY)
    <3>1. k'.due[t] = task[t].wait /\ k'.entered[t] = [tick |-> k.tick, wrapped |-> FALSE]
      BY <1>3, <2>6 DEF EnterEff
    <3>2. ~task[t].expired /\ task[t].wait \in 0 .. W - 1
      BY <2>4 DEF Ground, CallsOK
    <3>3. Elapsed(k', t) = 0
      BY <2>1, <2>3, <3>1 DEF Elapsed
    <3>4. TimedAt(k', task'[t].wait, t, k'.missedTicks)
      BY <2>1, <2>2, <2>4, <3>1, <3>2, <3>3 DEF TimedAt
    <3>5. TimedFine(t)'
      BY <2>4, <3>2, <3>4 DEF TimedFine
    <3> QED
      BY <2>1, <3>5, TimedByTask
  <2> QED
    BY <2>5, <2>6
<1>4. ASSUME SuspendEff(t) PROVE TimedOK'
  <2>1. SameTimes(t) /\ k'.due[t] = k.due[t] /\ k'.entered[t] = k.entered[t] /\ task[t].pc # "app"
    BY <1>4 DEF SuspendEff, FlagStep, KeepsTime, OtherWaits, At
  <2>2. PICK pc : Goes(t, pc) /\ pc \notin {"test", "place"}
    BY <1>4 DEF SuspendEff
  <2> QED
    BY <2>1, <2>2, TimedGoes
<1>5. ASSUME YieldEff(t) PROVE TimedOK'
  <2>1. SameTimes(t) /\ k'.due[t] = k.due[t] /\ k'.entered[t] = k.entered[t] /\ task[t].pc # "app"
    BY <1>5 DEF YieldEff, FlagStep, KeepsTime, OtherWaits, At
  <2>2. Leaves(t) \/ Goes(t, "top")
    BY <1>5 DEF YieldEff
  <2> QED
    BY <2>1, <2>2, TimedGoes, TimedLeaves
<1>6. ASSUME DelayEff(t) PROVE TimedOK'
  <2>1. SameTimes(t) /\ Others(t)
    BY <1>6 DEF DelayEff, SameFlags, OtherWaits, Goes
  <2>2. TimedFine(t)'
    BY <1>6 DEF DelayEff, Goes, TimedFine
  <2> QED
    BY <2>1, <2>2, TimedByTask
<1>7. ASSUME TestEff(t) PROVE TimedOK'
  <2>1. SameTimes(t) /\ k'.due[t] = k.due[t] /\ k'.entered[t] = k.entered[t]
        /\ task[t].pc # "app" /\ task[t].pc = "test"
    BY <1>7 DEF TestEff, OtherWaits, At
  <2>2. PICK pc : Goes(t, pc)
    BY <1>7 DEF TestEff
  <2> QED
    BY <2>1, <2>2, TimedGoes
<1>8. ASSUME NEW x, SendEff(t, x) PROVE TimedOK'
  BY <1>8, TimedLeaves DEF SendEff, KeepsTime, OtherWaits
<1>9. ASSUME NEW x, ReceiveEff(t, x) PROVE TimedOK'
  BY <1>9, TimedLeaves DEF ReceiveEff, KeepsTime
<1>10. ASSUME NEW x, LockEff(t, x) PROVE TimedOK'
  <2>1. SameTimes(t) /\ k'.due[t] = k.due[t] /\ k'.entered[t] = k.entered[t]
        /\ task[t].pc # "app" /\ Goes(t, "check")
    BY <1>10 DEF LockEff, OtherWaits, At
  <2> QED
    BY <2>1, TimedGoes
<1>11. ASSUME NEW x, PlaceEff(t, x) PROVE TimedOK'
  <2>1. SameTimes(t) /\ k'.due[t] = k.due[t] /\ k'.entered[t] = k.entered[t]
        /\ task[t].pc # "app" /\ Goes(t, "unlockTx")
    BY <1>11 DEF PlaceEff, Placed, Unready, OtherWaits, At
  <2> QED
    BY <2>1, TimedGoes
<1>12. ASSUME NEW x, UnlockRxEff(t, x) PROVE TimedOK'
  <2>1. SameTimes(t) /\ k'.due[t] = k.due[t] /\ k'.entered[t] = k.entered[t]
        /\ task[t].pc # "app" /\ Goes(t, "resume")
    BY <1>12 DEF UnlockRxEff, OtherWaits, At
  <2> QED
    BY <2>1, TimedGoes
<1>13. ASSUME NEW h, InheritEff(t, h) PROVE TimedOK'
  <2>1. /\ k'.tick = k.tick /\ k'.missedTicks = k.missedTicks
        /\ k'.due = k.due /\ k'.entered = k.entered
    BY <1>13 DEF InheritEff, Raised, SameRest, KeepsTime
  <2>2. /\ task[t].pc # "app" /\ Goes(t, "place") /\ Waits(t, "receive", Mutex)
    BY <1>13 DEF InheritEff, At
  <2>3. task[t].wait = portMAX_DELAY
    BY <2>2 DEF Ground, MutexOK
  <2> QED
    BY <2>1, <2>2, <2>3, TimedGoes DEF OtherWaits
<1>14. ASSUME NEW x, NEW P, NEW m, UnlockTxEff(t, x, P, m) PROVE TimedOK'
  <2>1. SameTimes(t) /\ k'.due[t] = k.due[t] /\ k'.entered[t] = k.entered[t]
        /\ task[t].pc # "app" /\ Goes(t, "unlockRx")
    BY <1>14 DEF UnlockTxEff, Pends, KeepsTime, OtherWaits, At
  <2> QED
    BY <2>1, TimedGoes
<1> QED
  BY <1>1, <1>2, <1>3, <1>4, <1>5, <1>6, <1>7, <1>8, <1>9, <1>10, <1>11, <1>12, <1>13, <1>14,
     TimedCheck, TimedResume DEF TaskEff

(* Ticks that are processed or counted. *)
LEMMA TimedSame ==
  ASSUME TimedOK, task' = task, k'.tick = k.tick, k'.missedTicks = k.missedTicks,
         k'.due = k.due, k'.entered = k.entered
  PROVE  TimedOK'
BY DEF TimedOK, TimedFine, TimedAt, Elapsed

(* What InTime leaves room for. *)
LEMMA RoomFacts ==
  ASSUME Ground, TimedOK, InTime, NEW u \in Tasks,
         task[u].pc # "app", task[u].fn # "delay", task[u].wait \notin {0, portMAX_DELAY}, task[u].entrySet
  PROVE  TimedAt(k, task[u].wait, u, k.missedTicks + 1)
<1>1. k.due[u] \in Int /\ k.missedTicks \in Nat
  BY DEF Ground, Shape, Numbers, AllTasks
<1>2. TimedAt(k, task[u].wait, u, k.missedTicks)
  BY DEF TimedOK, TimedFine
<1>3. k.due[u] - k.missedTicks > -MaxLate
  BY DEF InTime
<1> QED
  BY <1>1, <1>2, <1>3 DEF TimedAt

(* A missed tick is counted and keeps TimedOK. *)
LEMMA TimedMiss ==
  ASSUME Ground, TimedOK, MissEff
  PROVE  TimedOK'
<1>1. ASSUME NEW u \in Tasks PROVE TimedFine(u)'
  <2>1. /\ task' = task /\ k'.due = k.due /\ k'.entered = k.entered /\ k'.tick = k.tick
        /\ k'.missedTicks = k.missedTicks + 1 /\ InTime
    BY DEF MissEff, FlagStep, KeepsTime
  <2>2. CASE task[u].pc # "app" /\ task[u].fn # "delay" /\ task[u].wait \notin {0, portMAX_DELAY} /\ task[u].entrySet
    <3>1. TimedAt(k, task[u].wait, u, k.missedTicks + 1)
      BY <2>1, <2>2, RoomFacts
    <3>2. TimedAt(k', task'[u].wait, u, k'.missedTicks)
      BY <2>1, <3>1 DEF TimedAt, Elapsed
    <3>3. TimedFine(u)
      BY DEF TimedOK
    <3> QED
      BY <2>1, <2>2, <3>2, <3>3 DEF TimedFine
  <2> QED
    BY <2>1, <2>2 DEF TimedFine
<1> QED
  BY <1>1 DEF TimedOK

(* A tick keeps TimedOK. *)
LEMMA TimedTick ==
  ASSUME Ground, TimedOK, NEW S, TickEff(S)
  PROVE  TimedOK'
<1>0. /\ task' = task /\ InTime /\ ~k.suspended /\ k'.missedTicks = k.missedTicks
      /\ \A u \in AllTasks : k'.due[u] <= k.due[u]
      /\ \A u \in AllTasks, w \in Nat :
           w + MaxLate <= W /\ TimedAt(k, w, u, 1) => TimedAt(k', w, u, 0)
      /\ Shape(k')
  BY DEF TickEff, Ticked, Woke
<1>1. k.missedTicks = 0
  BY <1>0 DEF Ground, SuspOK
<1>2. ASSUME NEW u \in Tasks PROVE TimedFine(u)'
  <2>1. CASE task[u].pc # "app" /\ task[u].fn # "delay" /\ task[u].wait \notin {0, portMAX_DELAY} /\ task[u].entrySet
    <3>1. TimedAt(k, task[u].wait, u, 1)
      BY <1>0, <1>1, <2>1, RoomFacts
    <3>2. task[u].wait \in Nat /\ task[u].wait + MaxLate <= W /\ u \in AllTasks
      BY <2>1 DEF Ground, CallsOK, AllTasks
    <3>3. TimedAt(k', task'[u].wait, u, k'.missedTicks)
      BY <1>0, <1>1, <3>1, <3>2
    <3>4. TimedFine(u)
      BY DEF TimedOK
    <3>5. k.due[u] \in Int /\ k'.due[u] \in Int
      BY <1>0, <3>2 DEF Ground, Shape, Numbers
    <3>6. task[u].expired => k'.due[u] <= 0
      BY <1>0, <2>1, <3>2, <3>4, <3>5 DEF TimedFine
    <3>7. task[u].pc \notin {"test", "place"}
      BY <1>0 DEF Ground, SuspOK, SuspendedPcs
    <3> QED
      BY <1>0, <3>3, <3>6, <3>7 DEF TimedFine
  <2> QED
    BY <1>0, <2>1 DEF TimedFine
<1> QED
  BY <1>2 DEF TimedOK

(* An interrupt keeps TimedOK. *)
LEMMA TimedIsr ==
  ASSUME Ground, TimedOK, IsrEff
  PROVE  TimedOK'
<1> HIDE DEF TimedOK
<1>1. ASSUME HoldEff PROVE TimedOK'
  BY <1>1, TimedSame DEF HoldEff, FlagStep, KeepsTime
<1>2. ASSUME SwitchEff PROVE TimedOK'
  BY <1>2, TimedSame DEF SwitchEff, Switched, KeepsTime
<1>3. ASSUME CountEff \/ QuietEff PROVE TimedOK'
  BY <1>3, TimedSame DEF CountEff, QuietEff
<1>4. ASSUME NEW h, NEW S, NEW P, PostEff(h, S, P) PROVE TimedOK'
  BY <1>4, TimedSame DEF PostEff, KeepsTime
<1> QED
  BY <1>1, <1>2, <1>3, <1>4, TimedMiss, TimedTick DEF IsrEff

-----------------------------------------------------------------------------
(* The delayed lists. *)

(* The delayed lists stay right when the waits of their tasks do. *)
LEMMA DelayedSame ==
  ASSUME DelayedOK(k), KeepsTime(k, k'), \A u \in Slept(k') : k'.due[u] = k.due[u]
  PROVE  DelayedOK(k')
<1>1. DelayedFor(k, k.due)
  BY DelayedForIs
<1>2. DelayedFor(k', k.due)
  BY <1>1 DEF KeepsTime
<1>3. DelayedFor(k', k'.due)
  BY <1>2, DelayedForSame
<1> QED
  BY <1>3, DelayedForIs

(* A task that is ready is in no delayed list, whatever becomes of its wait. *)
LEMMA DelayedOthers ==
  ASSUME Ground, NEW t \in Tasks, Ready(k, t), KeepsTime(k, k'), OtherWaits(t),
         NEW S, Woke(k, k', S, {})
  PROVE  DelayedOK(k')
<1>1. t \notin Slept(k)
  BY DEF Ground, Apart, Slept, AllTasks
<1>2. Slept(k') \subseteq Slept(k) /\ Slept(k) \subseteq AllTasks
  <2>1. Slept(k') \subseteq Slept(k)
    BY DEF Woke
  <2>2. List(k.delayed) /\ List(k.overflow)
    BY DEF Ground, Shape, ListsOK
  <2> QED
    BY <2>1, <2>2, ListIn DEF Slept
<1>3. \A u \in Slept(k') : k'.due[u] = k.due[u]
  BY <1>1, <1>2 DEF OtherWaits
<1> QED
  BY <1>3, DelayedSame DEF Ground

(* A step of a task keeps the delayed lists right. *)
LEMMA DelayedKept ==
  ASSUME Ground, TimedOK, NEW t \in Tasks, TaskEff(t)
  PROVE  DelayedOK(k')
<1> HIDE DEF TimedOK, Ground, DelayedOK
<1>0. DelayedOK(k)
  BY DEF Ground
<1>a. ASSUME k' = k PROVE DelayedOK(k')
  BY <1>0, <1>a
<1>1. ASSUME BeginEff(t) \/ RefuseEff(t) \/ TestEff(t) PROVE DelayedOK(k')
  BY <1>1, <1>a DEF BeginEff, RefuseEff, TestEff
<1>2. ASSUME NEW x, LockEff(t, x) \/ UnlockRxEff(t, x) PROVE DelayedOK(k')
  BY <1>2, <1>a DEF LockEff, UnlockRxEff
<1>3. ASSUME EnterEff(t) PROVE DelayedOK(k')
  <2>1. At(t, "top") /\ KeepsTime(k, k') /\ OtherWaits(t) /\ Woke(k, k', {}, {})
    BY <1>3 DEF EnterEff, WaitOf
  <2>2. Ready(k, t)
    BY <2>1, RunsReady DEF PlacedPcs
  <2> QED
    BY <2>1, <2>2, DelayedOthers
<1>4. ASSUME SuspendEff(t) \/ YieldEff(t) PROVE DelayedOK(k')
  BY <1>0, <1>4, DelayedSame DEF SuspendEff, YieldEff, FlagStep
<1>5. ASSUME DelayEff(t) PROVE DelayedOK(k')
  BY <1>5 DEF DelayEff
<1>6. ASSUME CheckEff(t) PROVE DelayedOK(k')
  <2>1. CASE Rewaited(k, k', t, k.due[t], [tick |-> k.tick, wrapped |-> FALSE])
    <3>1. KeepsTime(k, k') /\ k'.due[t] = k.due[t] /\ Woke(k, k', {}, {})
      BY <2>1 DEF Rewaited
    <3>2. \A u \in AllTasks : k'.due[u] = k.due[u]
      BY <2>1 DEF Rewaited
    <3>3. Slept(k') \subseteq AllTasks
      <4>1. List(k'.delayed) /\ List(k'.overflow)
        BY <3>1 DEF Woke, Shape, ListsOK
      <4> QED
        BY <4>1, ListIn DEF Slept
    <3> QED
      BY <1>0, <3>1, <3>2, <3>3, DelayedSame
  <2> QED
    BY <1>6, <2>1, <1>a DEF CheckEff
<1>7. ASSUME NEW x, SendEff(t, x) PROVE DelayedOK(k')
  BY <1>0, <1>7, DelayedSame DEF SendEff
<1>8. ASSUME NEW x, ReceiveEff(t, x) PROVE DelayedOK(k')
  <2>1. At(t, "top") /\ KeepsTime(k, k') /\ OtherWaits(t) /\ Woke(k, k', First(k.toSend[x]), {})
    BY <1>8 DEF ReceiveEff
  <2>2. Ready(k, t)
    BY <2>1, RunsReady DEF PlacedPcs
  <2> QED
    BY <2>1, <2>2, DelayedOthers
<1>9. ASSUME NEW x, PlaceEff(t, x) PROVE DelayedOK(k')
  <2>1. /\ Placed(k, k', t, task[t].fn, x, task[t].wait) /\ task[t].pc = "place"
        /\ task[t].fn # "delay" /\ task[t].wait \in 1 .. W - 1
    BY <1>9 DEF PlaceEff, At
  <2>2. task[t].wait # portMAX_DELAY => k.due[t] = task[t].wait
    <3>1. task[t].entrySet
      BY <2>1 DEF Ground, CallsOK
    <3> QED
      BY <2>1, <3>1 DEF TimedOK, TimedFine
  <2>3. DelayedFor(k, k.due)
    BY <1>0, DelayedForIs
  <2>4. DelayedFor(k', k.due) /\ k'.due = k.due
    BY <2>1, <2>2, <2>3 DEF Placed, Unready
  <2> QED
    BY <2>4, DelayedForIs
<1>10. ASSUME NEW h, InheritEff(t, h) PROVE DelayedOK(k')
  <2>1. CASE k' = k
    BY <1>a, <2>1
  <2>2. CASE Raised(k, k', h, k.uxPriority[t])
    BY <1>0, <2>2, DelayedSame DEF Raised, SameRest
  <2> QED
    BY <1>10, <2>1, <2>2 DEF InheritEff
<1>11. ASSUME NEW x, NEW P, NEW m, UnlockTxEff(t, x, P, m) PROVE DelayedOK(k')
  BY <1>0, <1>11, DelayedSame DEF UnlockTxEff, Pends
<1>12. ASSUME NEW S, ResumeEff(t, S) PROVE DelayedOK(k')
  BY <1>12 DEF ResumeEff
<1> QED
  BY <1>1, <1>2, <1>3, <1>4, <1>5, <1>6, <1>7, <1>8, <1>9, <1>10, <1>11, <1>12 DEF TaskEff

(* An interrupt keeps the delayed lists right. *)
LEMMA DelayedIsr ==
  ASSUME Ground, IsrEff
  PROVE  DelayedOK(k')
<1> HIDE DEF Ground, DelayedOK
<1>0. DelayedOK(k)
  BY DEF Ground
<1>1. ASSUME HoldEff PROVE DelayedOK(k')
  BY <1>0, <1>1, DelayedSame DEF HoldEff, FlagStep
<1>2. ASSUME SwitchEff PROVE DelayedOK(k')
  BY <1>0, <1>2, DelayedSame DEF SwitchEff, Switched
<1>3. ASSUME CountEff \/ QuietEff PROVE DelayedOK(k')
  BY <1>0, <1>3 DEF CountEff, QuietEff
<1>4. ASSUME NEW h, NEW S, NEW P, PostEff(h, S, P) PROVE DelayedOK(k')
  BY <1>0, <1>4, DelayedSame DEF PostEff
<1>5. ASSUME MissEff PROVE DelayedOK(k')
  BY <1>0, <1>5, DelayedSame DEF MissEff, FlagStep
<1>6. ASSUME NEW S, TickEff(S) PROVE DelayedOK(k')
  BY <1>6 DEF TickEff, Ticked
<1> QED
  BY <1>1, <1>2, <1>3, <1>4, <1>5, <1>6 DEF IsrEff

(* A step of a task keeps PcsOK. *)
LEMMA PcsKept ==
  ASSUME Ground, PcsOK, NEW t \in Tasks, TaskEff(t)
  PROVE  PcsOK'
<1>0. Others(t)
  BY CurSame
<1>a. ASSUME task'[t].pc \in pcs PROVE PcsOK'
  BY <1>0, <1>a DEF PcsOK, Others
<1> SUFFICES task'[t].pc \in pcs
  BY <1>a
<1> HIDE DEF Ground, PcsOK
<1>1. ASSUME NEW pc, Goes(t, pc), pc \in pcs PROVE task'[t].pc \in pcs
  BY <1>1 DEF Goes
<1>2. ASSUME Leaves(t) PROVE task'[t].pc \in pcs
  BY <1>2 DEF Leaves, pcs
<1>3. ASSUME BeginEff(t) PROVE task'[t].pc \in pcs
  <2>1. task'[t].pc \in {"top", "suspend", "yield"}
    BY <1>3 DEF BeginEff, BeginsAs
  <2> QED
    BY <2>1 DEF pcs
<1>4. ASSUME EnterEff(t) \/ CheckEff(t) PROVE task'[t].pc \in pcs
  BY <1>4 DEF EnterEff, CheckEff, pcs, Goes
<1>5. ASSUME SuspendEff(t) \/ DelayEff(t) \/ TestEff(t) \/ YieldEff(t) PROVE task'[t].pc \in pcs
  BY <1>5 DEF SuspendEff, DelayEff, TestEff, YieldEff, Goes, Leaves, pcs
<1>6. ASSUME RefuseEff(t) PROVE task'[t].pc \in pcs
  BY <1>2, <1>6 DEF RefuseEff
<1>7. ASSUME NEW x, SendEff(t, x) \/ ReceiveEff(t, x) PROVE task'[t].pc \in pcs
  BY <1>2, <1>7 DEF SendEff, ReceiveEff
<1>8. ASSUME NEW x, LockEff(t, x) \/ PlaceEff(t, x) \/ UnlockRxEff(t, x) PROVE task'[t].pc \in pcs
  BY <1>8 DEF LockEff, PlaceEff, UnlockRxEff, Goes, pcs
<1>9. ASSUME NEW h, InheritEff(t, h) PROVE task'[t].pc \in pcs
  BY <1>9 DEF InheritEff, Goes, pcs
<1>10. ASSUME NEW x, NEW P, NEW m, UnlockTxEff(t, x, P, m) PROVE task'[t].pc \in pcs
  BY <1>10 DEF UnlockTxEff, Goes, pcs
<1>11. ASSUME NEW S, ResumeEff(t, S) PROVE task'[t].pc \in pcs
  BY <1>11 DEF ResumeEff, Goes, Leaves, pcs
<1> QED
  BY <1>3, <1>4, <1>5, <1>6, <1>7, <1>8, <1>9, <1>10, <1>11 DEF TaskEff

(* Every step keeps Base. *)
LEMMA BaseStep ==
  ASSUME Base, Next
  PROVE  Base'
<1>0. Ground /\ TimedOK /\ PcsOK
  BY DEF Base
<1>1. IInv'
  BY <1>0, Step DEF Ground
<1>2. IsrEff \/ \E t \in Tasks : TaskEff(t)
  BY <1>0, NextEff
<1>3. Shape(k') /\ Apart(k')
  BY <1>0, <1>2, ShapeKept
<1>4. CASE IsrEff
  <2>1. SuspOK' /\ EventsOK' /\ CurOK' /\ LocksOK' /\ MutexOK' /\ CallsOK' /\ task' = task
    BY <1>0, <1>4, SuspIsr, EventsIsr, CurIsr, LocksIsr, MutexIsr, CallsIsr
  <2>2. DelayedOK(k') /\ TimedOK'
    BY <1>0, <1>4, DelayedIsr, TimedIsr
  <2>3. PcsOK'
    BY <1>0, <2>1 DEF PcsOK
  <2> QED
    BY <1>1, <1>3, <2>1, <2>2, <2>3 DEF Base, Ground
<1>5. ASSUME NEW t \in Tasks, TaskEff(t) PROVE Base'
  <2>1. SuspOK' /\ EventsOK' /\ CurOK' /\ MutexOK' /\ CallsOK'
    BY <1>0, <1>5, SuspKept, EventsKept, CurKept, MutexKept, CallsKept
  <2>2. LocksOK'
    BY <1>0, <1>1, <1>5, LocksKept
  <2>3. DelayedOK(k') /\ TimedOK' /\ PcsOK'
    BY <1>0, <1>5, DelayedKept, TimedKept, PcsKept
  <2> QED
    BY <1>1, <1>3, <2>1, <2>2, <2>3 DEF Base, Ground
<1> QED
  BY <1>2, <1>4, <1>5

(* A stuttering step keeps Base. *)
LEMMA BaseSame ==
  ASSUME Base, UNCHANGED vars
  PROVE  Base'
<1>1. k' = k /\ q' = q /\ task' = task
  BY DEF vars
<1>2. IInv' /\ Shape(k') /\ Apart(k') /\ DelayedOK(k')
  BY <1>1, Step DEF Base, Ground
<1>3. SuspOK' /\ CurOK' /\ LocksOK' /\ CallsOK'
  BY <1>1 DEF Base, Ground, SuspOK, CurOK, LocksOK, CallsOK
<1>4. EventsOK'
  BY <1>1 DEF Base, Ground, EventsOK, SleepsIn
<1>5. MutexOK'
  BY <1>1 DEF Base, Ground, MutexOK, Holding, Waits
<1>6. TimedOK' /\ PcsOK'
  BY <1>1 DEF Base, TimedOK, TimedFine, PcsOK
<1> QED
  BY <1>2, <1>3, <1>4, <1>5, <1>6 DEF Base, Ground

-----------------------------------------------------------------------------
(* The initial state. *)

(* A finite set is listed without repetition. *)
LEMMA SetToSeqIs ==
  ASSUME NEW S, IsFiniteSet(S), S \subseteq AllTasks
  PROVE  List(SetToSeq(S)) /\ ToSet(SetToSeq(S)) = S
<1>1. PICK n \in Nat : ExistsBijection(1 .. n, S)
  BY FS_NatBijection
<1>2. Cardinality(S) = n
  BY <1>1, FS_CountingElements
<1>3. PICK f : f \in Bijection(1 .. n, S)
  BY <1>1 DEF ExistsBijection
<1>4. f \in [1 .. Cardinality(S) -> S] /\ IsInjective(f)
  BY <1>2, <1>3 DEF Bijection, Injection
<1> DEFINE s == SetToSeq(S)
<1>5. s \in [1 .. Cardinality(S) -> S] /\ IsInjective(s)
  BY <1>4 DEF SetToSeq
<1> HIDE DEF s
<1>6. s \in Seq(AllTasks) /\ Len(s) = n /\ DOMAIN s = 1 .. n
  <2>1. s \in [1 .. n -> S] /\ s \in Seq(S)
    BY <1>2, <1>5
  <2> QED
    BY <2>1
<1>7. List(s)
  BY <1>5, <1>6 DEF List, IsInjective
<1>8. s \in Injection(1 .. n, S)
  BY <1>2, <1>5 DEF Injection
<1>9. Cardinality(1 .. n) = n
  BY FS_Interval
<1>10. s \in Surjection(1 .. n, S)
  BY <1>2, <1>8, <1>9, FS_Injection
<1>11. ToSet(s) = S
  <2>1. ToSet(s) \subseteq S
    BY <1>2, <1>5, <1>6 DEF ToSet
  <2>2. S \subseteq ToSet(s)
    BY <1>6, <1>10 DEF ToSet, Surjection
  <2> QED
    BY <2>1, <2>2
<1> QED
  BY <1>7, <1>11 DEF s

(* The priorities have a greatest one. *)
LEMMA TopPriority ==
  Highest(Priorities) \in Nat /\ \A p \in Priorities : p <= Highest(Priorities)
<1>1. IsFiniteSet(AllTasks)
  BY FS_AddElement DEF AllTasks
<1>2. PICK n \in Nat : ExistsBijection(1 .. n, AllTasks)
  BY <1>1, FS_NatBijection
<1>3. PICK f : f \in Bijection(1 .. n, AllTasks)
  BY <1>2 DEF ExistsBijection
<1>4. f \in [1 .. n -> AllTasks] /\ \A t \in AllTasks : \E i \in 1 .. n : f[i] = t
  BY <1>3 DEF Bijection, Injection, Surjection
<1> DEFINE Bounded(m) == \E b \in Nat : \A i \in 1 .. m : uxBasePriority[f[i]] <= b
           Bad == {m \in 0 .. n : ~Bounded(m)}
<1>5. \A t \in AllTasks : uxBasePriority[t] \in Nat
  BY DEF AllTasks
<1> HIDE DEF Bounded
<1>6. Bad = {}
  <2>a. Bad \subseteq Nat
    OBVIOUS
  <2> SUFFICES ASSUME Bad # {} PROVE FALSE
    OBVIOUS
  <2>1. PICK m \in Bad : \A y \in Bad : m <= y
    <3> HIDE DEF Bad
    <3> QED
      BY <2>a, LeastOf
  <2>b. m \in 0 .. n /\ ~Bounded(m)
    OBVIOUS
  <2>2. m # 0
    <3>1. 0 \in Nat /\ \A i \in 1 .. 0 : uxBasePriority[f[i]] <= 0
      OBVIOUS
    <3>2. Bounded(0)
      BY <3>1 DEF Bounded
    <3> QED
      BY <2>b, <3>2
  <2>3. m - 1 \in 0 .. n /\ Bounded(m - 1)
    <3>1. m - 1 \in 0 .. n /\ ~(m <= m - 1)
      BY <2>2, <2>b
    <3>2. m - 1 \notin Bad
      BY <2>1, <3>1
    <3> QED
      BY <3>1, <3>2
  <2>4. PICK b \in Nat : \A i \in 1 .. m - 1 : uxBasePriority[f[i]] <= b
    BY <2>3 DEF Bounded
  <2>5. uxBasePriority[f[m]] \in Nat
    BY <1>4, <1>5, <2>1, <2>2
  <2>6. Bounded(m)
    <3> DEFINE c == b + uxBasePriority[f[m]]
    <3>1. c \in Nat
      BY <2>5
    <3>2. \A i \in 1 .. m : uxBasePriority[f[i]] <= c
      <4> TAKE i \in 1 .. m
      <4>1. CASE i = m
        BY <2>5, <4>1
      <4>2. CASE i # m
        <5>1. i \in 1 .. m - 1 /\ f[i] \in AllTasks
          BY <1>4, <2>1, <4>2
        <5>2. uxBasePriority[f[i]] <= b /\ uxBasePriority[f[i]] \in Nat
          BY <1>5, <2>4, <5>1
        <5> QED
          BY <2>5, <5>2
      <4> QED
        BY <4>1, <4>2
    <3> HIDE DEF c
    <3> QED
      BY <3>1, <3>2 DEF Bounded
  <2> QED
    BY <2>b, <2>6
<1>7. PICK b \in Nat : \A i \in 1 .. n : uxBasePriority[f[i]] <= b
  <2>1. n \notin Bad
    BY <1>6
  <2>2. Bounded(n)
    BY <2>1
  <2> QED
    BY <2>2 DEF Bounded
<1>8. Priorities \subseteq Nat /\ \A p \in Priorities : p <= b
  BY <1>4, <1>5, <1>7 DEF Priorities
<1>9. Priorities # {}
  BY DEF Priorities, AllTasks
<1> QED
  BY <1>8, <1>9, HighestIs

(* Initially every task is in the ready list of its priority. *)
LEMMA InitReady ==
  ASSUME Init
  PROVE  /\ DOMAIN k.ready = Priorities
         /\ \A p \in Priorities : List(k.ready[p]) /\ ToSet(k.ready[p]) = {t \in AllTasks : uxBasePriority[t] = p}
<1>1. k.ready = [p \in Priorities |-> SetToSeq({t \in AllTasks : uxBasePriority[t] = p})]
  BY DEF Init
<1>2. IsFiniteSet(AllTasks)
  BY FS_AddElement DEF AllTasks
<1>3. ASSUME NEW p \in Priorities
      PROVE  List(k.ready[p]) /\ ToSet(k.ready[p]) = {t \in AllTasks : uxBasePriority[t] = p}
  <2> DEFINE S == {t \in AllTasks : uxBasePriority[t] = p}
  <2>1. S \subseteq AllTasks /\ S \in SUBSET AllTasks /\ k.ready[p] = SetToSeq(S)
    BY <1>1
  <2>2. IsFiniteSet(S)
    BY <1>2, <2>1, FS_Subset
  <2> HIDE DEF S
  <2>3. List(SetToSeq(S)) /\ ToSet(SetToSeq(S)) = S
    BY <2>1, <2>2, SetToSeqIs
  <2> QED
    BY <2>1, <2>3 DEF S
<1> QED
  BY <1>1, <1>3

(* Initially the lists are right. *)
LEMMA InitShape ==
  ASSUME Init
  PROVE  Shape(k) /\ Apart(k) /\ DelayedOK(k)
<1> DEFINE tops == Highest(Priorities)
<1>1. tops \in Nat /\ \A p \in Priorities : p <= tops
  BY TopPriority
<1> HIDE DEF tops
<1>2. /\ DOMAIN k = Fields /\ k.cur = IDLE /\ k.tick = 0 /\ k.next = portMAX_DELAY
      /\ k.suspended = FALSE /\ k.missedTicks = 0 /\ k.missedYield = FALSE /\ k.yield = TRUE
      /\ k.top = tops /\ k.forever = {} /\ k.late = {}
      /\ k.uxPriority = uxBasePriority
  BY DEF Init, tops, Fields
<1>3. /\ k.delayed = <<>> /\ k.overflow = <<>> /\ k.pending = <<>>
      /\ k.toReceive = [x \in Queues |-> <<>>] /\ k.toSend = [x \in Queues |-> <<>>]
      /\ k.wake = [t \in AllTasks |-> 0]
      /\ k.entered = [t \in AllTasks |-> [tick |-> 0, wrapped |-> TRUE]]
      /\ k.due = [t \in AllTasks |-> -MaxLate]
  BY DEF Init
<1>4. /\ DOMAIN k.ready = Priorities
      /\ \A p \in Priorities : List(k.ready[p]) /\ ToSet(k.ready[p]) = {t \in AllTasks : uxBasePriority[t] = p}
  BY InitReady
<1>5. uxBasePriority \in [AllTasks -> Priorities] /\ IDLE \in AllTasks
  BY PrioritiesType DEF AllTasks
<1>6. Numbers(k)
  <2>1. portMAX_DELAY \in 0 .. W - 1 /\ 0 \in 0 .. W - 1 /\ 0 \in 0 .. MaxMissed /\ -MaxLate \in Int
    BY DEF portMAX_DELAY
  <2>2. k.wake \in [AllTasks -> 0 .. W - 1] /\ k.due \in [AllTasks -> Int]
    BY <1>3, <2>1
  <2>3. k.entered \in [AllTasks -> [tick : 0 .. W - 1, wrapped : BOOLEAN]]
    BY <1>3, <2>1
  <2> QED
    BY <1>1, <1>2, <1>5, <2>1, <2>2, <2>3 DEF Numbers
<1>7. ListsOK(k)
  BY <1>3, <1>4, EmptyList DEF ListsOK
<1>8. \A t \in AllTasks : Ready(k, t)
  BY <1>2, <1>4, <1>5 DEF Ready
<1>9. Apart(k)
  <2>1. ReadyAt(k)
    BY <1>2, <1>4 DEF ReadyAt
  <2>2. ASSUME NEW t \in AllTasks PROVE k.uxPriority[t] <= k.top
    BY <1>1, <1>2, <1>5
  <2>3. ToSet(k.delayed) = {} /\ ToSet(k.overflow) = {} /\ k.forever = {}
    BY <1>2, <1>3, EmptyList
  <2> QED
    BY <1>5, <1>8, <2>1, <2>2, <2>3 DEF Apart
<1>10. DelayedOK(k)
  <2>1. ToSet(k.delayed) = {} /\ ToSet(k.overflow) = {}
    BY <1>3, EmptyList
  <2>2. ASSUME NEW v PROVE Ordered(<<>>, v)
    BY DEF Ordered, Before
  <2> QED
    BY <1>3, <2>1, <2>2 DEF DelayedOK
<1> QED
  BY <1>2, <1>6, <1>7, <1>9, <1>10 DEF Shape

(* Base holds initially. *)
LEMMA InitBase ==
  ASSUME Init
  PROVE  Base
<1>1. IInv
  BY InitInvariant
<1>2. Shape(k) /\ Apart(k) /\ DelayedOK(k)
  BY InitShape
<1>3. /\ k.cur = IDLE /\ k.suspended = FALSE /\ k.missedTicks = 0 /\ k.yield = TRUE
      /\ k.delayed = <<>> /\ k.overflow = <<>> /\ k.pending = <<>>
      /\ k.toReceive = [x \in Queues |-> <<>>] /\ k.toSend = [x \in Queues |-> <<>>]
  BY DEF Init
<1>4. \A t \in Tasks : task[t].pc = "app"
  BY DEF Init
<1>5. \A x \in Queues : /\ q[x].waiting = IF x = Mutex THEN 1 ELSE 0
                        /\ q[x].txLock = -1 /\ q[x].rxLock = -1 /\ q[x].holder = Nothing
  BY DEF Init, queueUNLOCKED
<1>6. ToSet(<<>>) = {}
  BY EmptyList
<1>7. SuspOK
  BY <1>3, <1>4, <1>6 DEF SuspOK, SuspendedPcs
<1>8. EventsOK
  <2>1. \A x \in Queues : ToSet(k.toReceive[x]) = {} /\ ToSet(k.toSend[x]) = {}
    BY <1>3, <1>6
  <2>2. ToSet(k.pending) = {} /\ Slept(k) = {}
    BY <1>3, <1>6 DEF Slept
  <2> QED
    BY <2>1, <2>2 DEF EventsOK, Queues
<1>9. CurOK
  BY <1>3 DEF CurOK
<1>10. LocksOK
  BY <1>4, <1>5 DEF LocksOK, LockPcs, Queues
<1>11. MutexOK
  BY <1>4, <1>5 DEF MutexOK, Holding, Waits, Queues
<1>12. CallsOK /\ TimedOK /\ PcsOK
  BY <1>4 DEF CallsOK, TimedOK, TimedFine, PcsOK, pcs
<1> QED
  BY <1>1, <1>2, <1>7, <1>8, <1>9, <1>10, <1>11, <1>12 DEF Base, Ground

(* The lists of tasks.c, the calls, the locks of the queues and the time limits stay   *)
(* consistent: Base is inductive. A task is in one list of generic items, who is in an *)
(* event list sleeps in a call on its queue, the scheduler is suspended and a queue    *)
(* locked for a stretch of the current call only, and what is left of a timed wait is  *)
(* the time asked for less the ticks since, across the wrap of the counter.            *)
THEOREM BaseInvariant == Spec => []Base
<1>1. Init => Base
  BY InitBase
<1>2. Base /\ [Next]_vars => Base'
  BY BaseStep, BaseSame
<1> QED
  BY <1>1, <1>2, PTL DEF Spec

-----------------------------------------------------------------------------

(* Every task has its generic item in one list. *)
LEMMA OneList ==
  ASSUME Base, NEW t \in AllTasks
  PROVE  \/ t \in k.forever /\ \A s \in Lists : t \notin ToSet(s)
         \/ t \notin k.forever /\ \E s \in Lists : t \in ToSet(s)
                                             /\ \A r \in Lists \ {s} : t \notin ToSet(r)
<1> DEFINE p == k.uxPriority[t]
<1>0. Shape(k) /\ Apart(k) /\ p \in Priorities
  BY DEF Base, Ground, Shape, Numbers
<1>1. ASSUME NEW r \in Priorities, t \in ToSet(k.ready[r]) PROVE Ready(k, t) /\ r = p
  BY <1>0, <1>1 DEF Apart, ReadyAt, Ready
<1>2. /\ Ready(k, t) => t \notin ToSet(k.delayed) /\ t \notin ToSet(k.overflow) /\ t \notin k.forever
      /\ t \in ToSet(k.delayed) => t \notin ToSet(k.overflow) /\ t \notin k.forever
      /\ t \in ToSet(k.overflow) => t \notin k.forever
      /\ Ready(k, t) \/ t \in ToSet(k.delayed) \/ t \in ToSet(k.overflow) \/ t \in k.forever
  BY <1>0 DEF Apart
<1>3. CASE t \in k.forever
  BY <1>1, <1>2, <1>3 DEF Lists
<1>4. CASE Ready(k, t)
  <2>1. k.ready[p] \in Lists /\ t \in ToSet(k.ready[p])
    BY <1>0, <1>4 DEF Lists, Ready
  <2>2. ASSUME NEW r \in Lists \ {k.ready[p]} PROVE t \notin ToSet(r)
    BY <1>1, <1>2, <1>4, <2>2 DEF Lists
  <2> QED
    BY <1>2, <1>4, <2>1, <2>2
<1>5. CASE t \in ToSet(k.delayed)
  <2>1. k.delayed \in Lists
    BY DEF Lists
  <2>2. ASSUME NEW r \in Lists \ {k.delayed} PROVE t \notin ToSet(r)
    BY <1>1, <1>2, <1>5, <2>2 DEF Lists
  <2> QED
    BY <1>2, <1>5, <2>1, <2>2
<1>6. CASE t \in ToSet(k.overflow)
  <2>1. k.overflow \in Lists
    BY DEF Lists
  <2>2. ASSUME NEW r \in Lists \ {k.overflow} PROVE t \notin ToSet(r)
    BY <1>1, <1>2, <1>6, <2>2 DEF Lists
  <2> QED
    BY <1>2, <1>6, <2>1, <2>2
<1> QED
  BY <1>2, <1>3, <1>4, <1>5, <1>6

(* Base implies the type invariant. *)
LEMMA TypesHold ==
  ASSUME Base
  PROVE  TypeOK
<1>0. Ground /\ Shape(k) /\ Numbers(k) /\ ListsOK(k)
  BY DEF Base, Ground, Shape
<1>1. k.tick \in 0 .. W - 1 /\ k.next \in 0 .. W - 1 /\ k.missedTicks \in 0 .. MaxMissed
  BY <1>0 DEF Numbers
<1>2. \A t \in Tasks : task[t].pc \in pcs
  BY DEF Base, PcsOK
<1>3. ASSUME NEW x \in Queues
      PROVE  q[x].waiting \in 0 .. Length(x)
             /\ q[x].txLock \in -1 .. uxLength /\ q[x].rxLock \in -1 .. uxLength
  <2>1. q[x].waiting \in 0 .. Length(x) /\ q[x].txLock \in Int /\ q[x].rxLock \in Int
    BY <1>0, QueueFacts
  <2>2. Length(x) \in Nat /\ Length(x) <= uxLength
    BY DEF Length
  <2>3. q[x].txLock >= -1 /\ q[x].txLock <= q[x].waiting /\ q[x].rxLock \in {-1, 0}
    BY <1>0 DEF Ground, LocksOK
  <2> QED
    BY <2>1, <2>2, <2>3
<1>4. ASSUME NEW s \in Lists \cup EventLists PROVE IsInjective(s)
  <2>1. List(s)
    BY <1>0 DEF Lists, EventLists, ListsOK
  <2>2. DOMAIN s = 1 .. Len(s)
    BY <2>1 DEF List
  <2> QED
    BY <2>1, <2>2 DEF List, IsInjective
<1>5. \A t \in AllTasks :
       \/ t \in k.forever /\ \A s \in Lists : t \notin ToSet(s)
       \/ t \notin k.forever /\ \E s \in Lists : t \in ToSet(s)
                                             /\ \A r \in Lists \ {s} : t \notin ToSet(r)
  BY OneList
<1> QED
  BY <1>1, <1>2, <1>3, <1>4, <1>5 DEF TypeOK

(* Base implies SleepsExactly. *)
LEMMA ExactlyHolds ==
  ASSUME Base
  PROVE  SleepsExactly
<1>1. TypeOK
  BY TypesHold
<1>2. DelayedOK(k)
  BY DEF Base, Ground
<1>3. ASSUME NEW t \in Tasks, task[t].pc # "app", task[t].expired PROVE k.due[t] <= 0
  <2>1. task[t].fn # "delay" /\ task[t].pc # "top" /\ task[t].wait # portMAX_DELAY
    BY <1>3 DEF Base, Ground, CallsOK
  <2>2. task[t].entrySet /\ task[t].wait # 0
    BY <1>3, <2>1 DEF Base, Ground, CallsOK
  <2> QED
    BY <1>3, <2>1, <2>2 DEF Base, TimedOK, TimedFine
<1> QED
  BY <1>1, <1>2, <1>3 DEF SleepsExactly, DelayedOK

(* A task in a delayed list sleeps for exactly the ticks left of its wait, across the  *)
(* wrap of the counter and the swap of the lists, and a call gives up only when all of *)
(* its time has passed (prvAddCurrentTaskToDelayedList, vTaskIncrementTick,            *)
(* prvCheckDelayedTasks and xTaskCheckForTimeOut), for any number of tasks, any limits *)
(* and any number of missed ticks.                                                     *)
THEOREM SleepsExactlyTheorem == Spec => []SleepsExactly
<1>1. Base => SleepsExactly
  BY ExactlyHolds
<1> QED
  BY <1>1, BaseInvariant, PTL

-----------------------------------------------------------------------------
(* Who an interrupt readied. *)

(* A step of a task makes nobody late. *)
LEMMA LateSame ==
  ASSUME Ground, NEW t \in Tasks, TaskEff(t)
  PROVE  k'.late = k.late
<1> HIDE DEF Ground
<1>1. ASSUME BeginEff(t) \/ RefuseEff(t) \/ TestEff(t) PROVE k'.late = k.late
  BY <1>1 DEF BeginEff, RefuseEff, TestEff
<1>2. ASSUME NEW x, LockEff(t, x) \/ UnlockRxEff(t, x) PROVE k'.late = k.late
  BY <1>2 DEF LockEff, UnlockRxEff
<1>3. ASSUME EnterEff(t) \/ DelayEff(t) PROVE k'.late = k.late
  BY <1>3 DEF EnterEff, WaitOf, DelayEff, SameFlags
<1>4. ASSUME SuspendEff(t) \/ YieldEff(t) PROVE k'.late = k.late
  BY <1>4 DEF SuspendEff, YieldEff, FlagStep
<1>5. ASSUME CheckEff(t) PROVE k'.late = k.late
  BY <1>5 DEF CheckEff, Rewaited, SameFlags
<1>6. ASSUME NEW x, SendEff(t, x) \/ ReceiveEff(t, x) PROVE k'.late = k.late
  BY <1>6 DEF SendEff, ReceiveEff
<1>7. ASSUME NEW x, PlaceEff(t, x) PROVE k'.late = k.late
  BY <1>7 DEF PlaceEff, Placed, Unready
<1>8. ASSUME NEW h, InheritEff(t, h) PROVE k'.late = k.late
  BY <1>8 DEF InheritEff, Raised, SameRest
<1>9. ASSUME NEW x, NEW P, NEW m, UnlockTxEff(t, x, P, m) PROVE k'.late = k.late
  BY <1>9 DEF UnlockTxEff, Pends
<1>10. ASSUME NEW S, ResumeEff(t, S) PROVE k'.late = k.late
  BY <1>10 DEF ResumeEff
<1> QED
  BY <1>1, <1>2, <1>3, <1>4, <1>5, <1>6, <1>7, <1>8, <1>9, <1>10 DEF TaskEff

(* Only one step of a task starts where it yields. *)
LEMMA YieldsOnly ==
  ASSUME NEW t \in Tasks, TaskEff(t), task[t].pc = "yield"
  PROVE  YieldEff(t)
BY DEF TaskEff, At, BeginEff, RefuseEff, EnterEff, SuspendEff, DelayEff, CheckEff, TestEff, SendEff,
       ReceiveEff, LockEff, PlaceEff, UnlockRxEff, InheritEff, UnlockTxEff, ResumeEff

(* A step of a task keeps LateOK. *)
LEMMA LateKept ==
  ASSUME Ground, LateOK, NEW t \in Tasks, TaskEff(t)
  PROVE  LateOK'
<1>1. k.cur = t /\ k'.cur = t /\ Others(t) /\ k'.late = k.late /\ ~k.yield
  <2>1. ~k.yield
    BY DEF TaskEff, At, Running, BeginEff, RefuseEff, EnterEff, SuspendEff, DelayEff, CheckEff, TestEff,
       SendEff, ReceiveEff, LockEff, PlaceEff, UnlockRxEff, InheritEff, UnlockTxEff, ResumeEff, YieldEff
  <2> QED
    BY <2>1, CurSame, LateSame
<1>2. ASSUME NEW u \in k.late, u # t
      PROVE  u \in Tasks /\ Waits(u, "receive", Mbox)' /\ u # k'.cur
  BY <1>1, <1>2 DEF LateOK, Others, Waits
<1>3. ASSUME t \in k.late
      PROVE  Waits(t, "receive", Mbox)' /\ ~k'.suspended /\ k'.yield
  <2>1. Waits(t, "receive", Mbox) /\ ~k.suspended /\ task[t].pc = "yield"
    BY <1>1, <1>3 DEF LateOK
  <2>2. YieldEff(t)
    BY <2>1, YieldsOnly
  <2> QED
    BY <2>1, <2>2 DEF YieldEff, Goes, Waits
<1> QED
  BY <1>1, <1>2, <1>3 DEF LateOK

(* An interrupt keeps LateOK. *)
LEMMA LateIsr ==
  ASSUME Ground, LateOK, IsrEff
  PROVE  LateOK'
<1>0. task' = task
  BY CallsIsr
<1>1. ASSUME HoldEff PROVE LateOK'
  <2>1. k.suspended /\ k'.late = k.late /\ k'.cur = k.cur
    BY <1>1 DEF HoldEff, FlagStep
  <2> QED
    BY <1>0, <2>1 DEF LateOK, Waits
<1>2. ASSUME SwitchEff PROVE LateOK'
  BY <1>2 DEF SwitchEff, Switched, LateOK
<1>3. ASSUME CountEff \/ QuietEff PROVE LateOK'
  <2>1. k' = k
    BY <1>3 DEF CountEff, QuietEff
  <2> QED
    BY <1>0, <2>1 DEF LateOK, Waits
<1>4. ASSUME NEW h, NEW S, NEW P, PostEff(h, S, P) PROVE LateOK'
  <2>1. k'.cur = k.cur /\ k'.suspended = k.suspended /\ k'.yield = k.yield
    BY <1>4 DEF PostEff
  <2>2. CASE k.suspended
    <3>1. k'.late = k.late
      BY <1>4, <2>2 DEF PostEff
    <3> QED
      BY <1>0, <2>1, <3>1 DEF LateOK, Waits
  <2>3. CASE ~k.suspended
    <3>1. k'.late = k.late \cup {h} /\ h \in Tasks /\ h \in ToSet(k.toReceive[Mbox])
      BY <1>4, <2>3 DEF PostEff
    <3>2. SleepsIn(h, "receive", Mbox)
      BY <3>1 DEF Ground, EventsOK, Queues
    <3>3. Waits(h, "receive", Mbox)
      BY <3>2 DEF SleepsIn, AsleepPcs, Waits
    <3>4. h = k.cur => k.yield \/ task[h].pc = "yield"
      <4>1. task[h].pc \notin SuspendedPcs
        BY <2>3, <3>1 DEF Ground, SuspOK
      <4>2. h = k.cur /\ ~k.yield => task[h].pc \in PlacedPcs
        BY <2>3, <3>1, <3>2 DEF Ground, CurOK, SleepsIn
      <4> QED
        BY <4>1, <4>2 DEF SuspendedPcs, PlacedPcs
    <3> QED
      BY <1>0, <2>1, <2>3, <3>1, <3>3, <3>4 DEF LateOK, Waits
  <2> QED
    BY <2>2, <2>3
<1>5. ASSUME MissEff PROVE LateOK'
  <2>1. k.suspended /\ k'.late = k.late /\ k'.cur = k.cur
    BY <1>5 DEF MissEff, FlagStep
  <2> QED
    BY <1>0, <2>1 DEF LateOK, Waits
<1>6. ASSUME NEW S, TickEff(S) PROVE LateOK'
  <2>1. ~k.suspended /\ k'.suspended = k.suspended /\ k'.late = k.late /\ k'.cur = k.cur /\ k'.yield = TRUE
    BY <1>6 DEF TickEff, Ticked
  <2> QED
    BY <1>0, <2>1 DEF LateOK, Waits
<1> QED
  BY <1>1, <1>2, <1>3, <1>4, <1>5, <1>6 DEF IsrEff

-----------------------------------------------------------------------------
(* The highest task runs. *)

(* No task becomes ready, the current one keeps its priority. *)
LEMMA FineSame ==
  ASSUME FineOK, k.suspended \/ ~k.yield, k'.cur = k.cur, k'.uxPriority = k.uxPriority, k'.late = k.late,
         \A u \in AllTasks : Ready(k', u) => Ready(k, u)
  PROVE  FineOK'
BY DEF FineOK

(* One that becomes ready is below the current task, or a switch is asked for. *)
LEMMA FineWoken ==
  ASSUME FineOK, ~k.yield, k'.cur = k.cur, k'.uxPriority = k.uxPriority, k'.late = k.late,
         NEW S, \A u \in AllTasks : Ready(k', u) => Ready(k, u) \/ u \in S,
         ~k'.yield => \A u \in S : k.uxPriority[u] <= k.uxPriority[k.cur],
         ~k'.suspended
  PROVE  FineOK'
BY DEF FineOK

(* The first task of a list. *)
LEMMA FirstFacts ==
  ASSUME NEW list, List(list), NEW u \in First(list)
  PROVE  list # <<>> /\ u = Head(list) /\ u \in ToSet(list) /\ u \in AllTasks
BY HeadFacts DEF First

(* The waiters of a mutex and the release. *)
LEMMA ReleaseFacts ==
  ASSUME Ground, Sorted, Inheritance, NEW t \in Tasks, At(t, "top"), Holding(t),
         k.uxPriority[t] # uxBasePriority[t]
  PROVE  /\ k.toReceive[Mutex] # <<>>
         /\ Head(k.toReceive[Mutex]) \in AllTasks /\ Head(k.toReceive[Mutex]) # t
         /\ k.uxPriority[Head(k.toReceive[Mutex])] >= k.uxPriority[t]
         /\ k.uxPriority[t] > uxBasePriority[t]
<1>0. /\ uxBasePriority[t] < k.uxPriority[t]
      /\ \E u \in Tasks : k.uxPriority[u] = k.uxPriority[t] /\ Lent(u)
  BY DEF Inheritance
<1>1. PICK u \in Tasks : k.uxPriority[u] = k.uxPriority[t] /\ Lent(u)
  BY <1>0
<1>2. ~k.suspended
  BY NotSuspended DEF SuspendedPcs
<1>3. task[u].pc # "place"
  BY <1>2 DEF Ground, SuspOK, SuspendedPcs
<1> DEFINE s == k.toReceive[Mutex]
<1>4. u \in ToSet(s)
  BY <1>1, <1>3 DEF Lent
<1>5. List(s) /\ Mutex \in Queues
  BY DEF Ground, Shape, ListsOK, Queues
<1>6. s # <<>>
  BY <1>4, EmptyList
<1>7. Head(s) \in ToSet(s) /\ Head(s) \in AllTasks /\ (u # Head(s) => Before(s, Head(s), u))
  BY <1>4, <1>5, <1>6, HeadFacts
<1>8. t \notin ToSet(s)
  BY <1>5, NotInLists DEF Ground, MutexOK
<1>9. k.uxPriority[Head(s)] \in Nat /\ k.uxPriority[u] \in Nat /\ u \in AllTasks /\ t \in AllTasks
  BY <1>7, PrioritiesType DEF Ground, Shape, Numbers, AllTasks
<1>10. k.uxPriority[Head(s)] >= k.uxPriority[u]
  <2>1. u # Head(s) => EventOrder(k)[Head(s)] <= EventOrder(k)[u]
    BY <1>7, <1>9 DEF Sorted, Ordered
  <2> QED
    BY <1>7, <1>9, <2>1 DEF EventOrder
<1> QED
  BY <1>0, <1>1, <1>6, <1>7, <1>8, <1>9, <1>10

(* xQueueGenericSend keeps FineOK. *)
LEMMA FineSend ==
  ASSUME Ground, FineOK, Sorted, Inheritance, NEW t \in Tasks, NEW x, SendEff(t, x)
  PROVE  FineOK'
<1>0. /\ At(t, "top") /\ x \in Queues /\ task[t].fn = "send" /\ task[t].x = x
      /\ k'.cur = k.cur /\ k'.late = k.late /\ k'.suspended = k.suspended
      /\ Woke(k, k', First(k.toReceive[x]), {})
      /\ k'.uxPriority = (IF x = Mutex THEN [k.uxPriority EXCEPT ![t] = uxBasePriority[t]] ELSE k.uxPriority)
      /\ k'.yield = (k.toReceive[x] # <<>> /\ k'.uxPriority[Head(k.toReceive[x])] >= k'.uxPriority[t])
  BY DEF SendEff
<1>1. /\ k.cur = t /\ k.yield = FALSE /\ t \in AllTasks /\ k.uxPriority \in [AllTasks -> Priorities]
      /\ List(k.toReceive[x])
  BY <1>0, RunsNow
<1>2. ~k.suspended
  BY <1>0, NotSuspended DEF SuspendedPcs
<1>3. \A u \in AllTasks : Ready(k', u) => Ready(k, u) \/ u \in First(k.toReceive[x])
  BY <1>0 DEF Woke
<1>4. CASE k'.uxPriority = k.uxPriority
  <2>1. ASSUME ~k'.yield, NEW u \in First(k.toReceive[x]) PROVE k.uxPriority[u] <= k.uxPriority[k.cur]
    <3>1. k.toReceive[x] # <<>> /\ u = Head(k.toReceive[x]) /\ u \in AllTasks
      BY <1>1, <2>1, FirstFacts
    <3>2. ~(k.uxPriority[u] >= k.uxPriority[t])
      BY <1>0, <1>4, <2>1, <3>1
    <3>3. k.uxPriority[u] \in Nat /\ k.uxPriority[t] \in Nat
      BY <1>1, <3>1, PrioritiesType
    <3> QED
      BY <1>1, <3>2, <3>3
  <2> QED
    BY <1>0, <1>1, <1>2, <1>3, <1>4, <2>1, FineWoken
<1>5. CASE k'.uxPriority # k.uxPriority
  <2>1. x = Mutex /\ k.uxPriority[t] # uxBasePriority[t]
    BY <1>0, <1>1, <1>5
  <2>2. Holding(t)
    BY <1>0, <2>1 DEF Ground, MutexOK, Waits, At
  <2> DEFINE h == Head(k.toReceive[Mutex])
  <2>3. /\ k.toReceive[Mutex] # <<>> /\ h \in AllTasks /\ h # t
        /\ k.uxPriority[h] >= k.uxPriority[t] /\ k.uxPriority[t] > uxBasePriority[t]
    BY <1>0, <2>1, <2>2, ReleaseFacts
  <2> HIDE DEF h
  <2>4. k'.uxPriority[h] = k.uxPriority[h] /\ k'.uxPriority[t] = uxBasePriority[t]
    BY <1>0, <1>1, <2>1, <2>3
  <2>5. k.uxPriority[h] \in Nat /\ k.uxPriority[t] \in Nat /\ uxBasePriority[t] \in Nat
    BY <1>1, <2>3, PrioritiesType
  <2>6. k'.uxPriority[h] >= k'.uxPriority[t]
    BY <2>3, <2>4, <2>5
  <2>7. k'.yield
    BY <1>0, <2>1, <2>3, <2>6 DEF h
  <2> QED
    BY <1>0, <1>2, <2>7 DEF FineOK
<1> QED
  BY <1>4, <1>5

(* xQueueGenericReceive keeps FineOK. *)
LEMMA FineReceive ==
  ASSUME Ground, FineOK, NEW t \in Tasks, NEW x, ReceiveEff(t, x)
  PROVE  FineOK'
<1>0. /\ At(t, "top") /\ x \in Queues
      /\ k'.cur = k.cur /\ k'.late = k.late /\ k'.suspended = k.suspended
      /\ Woke(k, k', First(k.toSend[x]), {})
      /\ k'.uxPriority = k.uxPriority
      /\ k'.yield = (k.toSend[x] # <<>> /\ k.uxPriority[Head(k.toSend[x])] >= k.uxPriority[t])
  BY DEF ReceiveEff
<1>1. /\ k.cur = t /\ k.yield = FALSE /\ t \in AllTasks /\ k.uxPriority \in [AllTasks -> Priorities]
      /\ List(k.toSend[x])
  BY <1>0, RunsNow
<1>2. ~k.suspended
  BY <1>0, NotSuspended DEF SuspendedPcs
<1>3. \A u \in AllTasks : Ready(k', u) => Ready(k, u) \/ u \in First(k.toSend[x])
  BY <1>0 DEF Woke
<1>4. ASSUME ~k'.yield, NEW u \in First(k.toSend[x]) PROVE k.uxPriority[u] <= k.uxPriority[k.cur]
  <2>1. k.toSend[x] # <<>> /\ u = Head(k.toSend[x]) /\ u \in AllTasks
    BY <1>1, <1>4, FirstFacts
  <2>2. ~(k.uxPriority[u] >= k.uxPriority[t])
    BY <1>0, <1>4, <2>1
  <2>3. k.uxPriority[u] \in Nat /\ k.uxPriority[t] \in Nat
    BY <1>1, <2>1, PrioritiesType
  <2> QED
    BY <1>1, <2>2, <2>3
<1> QED
  BY <1>0, <1>1, <1>2, <1>3, <1>4, FineWoken

(* xTaskResumeAll keeps FineOK. *)
LEMMA FineResume ==
  ASSUME Ground, FineOK, NEW t \in Tasks, NEW S, ResumeEff(t, S)
  PROVE  FineOK'
<1>0. /\ At(t, "resume") /\ k'.cur = k.cur /\ k'.late = k.late /\ k'.suspended = FALSE
      /\ Woke(k, k', S, {}) /\ k'.uxPriority = k.uxPriority /\ k'.yield = YieldRequired(k)
      /\ (k.missedTicks = 0 => S = ToSet(k.pending))
  BY DEF ResumeEff
<1>1. k.cur = t /\ k.yield = FALSE /\ t \in AllTasks /\ k.uxPriority \in [AllTasks -> Priorities]
  BY <1>0, RunsNow
<1>2. ASSUME ~k'.yield, NEW u \in S PROVE k.uxPriority[u] <= k.uxPriority[k.cur]
  <2>1. ~(k.missedTicks > 0) /\ k.missedTicks \in Nat
    BY <1>0, <1>2 DEF YieldRequired, Ground, Shape, Numbers
  <2>2. u \in ToSet(k.pending) /\ u \in AllTasks
    BY <1>0, <1>2, <2>1 DEF Woke
  <2>3. ~(k.uxPriority[u] >= k.uxPriority[k.cur])
    BY <1>0, <1>2, <2>2 DEF YieldRequired, YieldNeeded
  <2>4. k.uxPriority[u] \in Nat /\ k.uxPriority[t] \in Nat
    BY <1>1, <2>2, PrioritiesType
  <2> QED
    BY <1>1, <2>3, <2>4
<1>3. \A u \in AllTasks : Ready(k', u) => Ready(k, u) \/ u \in S
  BY <1>0 DEF Woke
<1> QED
  BY <1>0, <1>1, <1>2, <1>3, FineWoken

(* An inherited priority keeps FineOK. *)
LEMMA FineInherit ==
  ASSUME Ground, FineOK, NEW t \in Tasks, NEW h, InheritEff(t, h)
  PROVE  FineOK'
<1>0. /\ At(t, "inherit") /\ h \in Tasks /\ Ready(k, h) /\ h # t
      /\ k' = k \/ Raised(k, k', h, k.uxPriority[t])
  BY DEF InheritEff
<1>1. k.cur = t /\ k.yield = FALSE /\ t \in AllTasks /\ k.uxPriority \in [AllTasks -> Priorities]
  BY <1>0, RunsNow
<1>2. CASE k' = k
  BY <1>2 DEF FineOK
<1>3. CASE Raised(k, k', h, k.uxPriority[t])
  <2>1. /\ k'.cur = k.cur /\ k'.late = k.late
        /\ k'.uxPriority = [k.uxPriority EXCEPT ![h] = k.uxPriority[t]]
        /\ \A u \in AllTasks : Ready(k', u) => Ready(k, u)
    BY <1>3 DEF Raised, SameRest, Woke
  <2>2. k'.uxPriority[t] = k.uxPriority[t] /\ k'.uxPriority[h] = k.uxPriority[t] /\ k.uxPriority[t] \in Nat
        /\ \A u \in AllTasks : u # h => k'.uxPriority[u] = k.uxPriority[u]
    BY <1>0, <1>1, <2>1, PrioritiesType DEF AllTasks
  <2>3. ASSUME NEW u \in AllTasks, Ready(k', u) PROVE k'.uxPriority[u] <= k'.uxPriority[k'.cur] \/ u \in k'.late
    <3>1. k.uxPriority[u] <= k.uxPriority[t] \/ u \in k.late
      BY <1>1, <2>1, <2>3 DEF FineOK
    <3> QED
      BY <1>1, <2>1, <2>2, <3>1
  <2> QED
    BY <2>3 DEF FineOK
<1> QED
  BY <1>0, <1>2, <1>3

(* Steps after which no other task is ready. *)
LEMMA FineKept ==
  ASSUME Ground, FineOK, Sorted, Inheritance, NEW t \in Tasks, TaskEff(t)
  PROVE  FineOK'
<1> HIDE DEF Ground, FineOK
<1>0. ASSUME k' = k PROVE FineOK'
  BY <1>0 DEF FineOK
<1>1. ASSUME BeginEff(t) \/ RefuseEff(t) \/ TestEff(t) PROVE FineOK'
  BY <1>0, <1>1 DEF BeginEff, RefuseEff, TestEff
<1>2. ASSUME NEW x, LockEff(t, x) \/ UnlockRxEff(t, x) PROVE FineOK'
  BY <1>0, <1>2 DEF LockEff, UnlockRxEff
<1>a. ASSUME NEW P, Woke(k, k', {}, P), k'.cur = k.cur, k'.uxPriority = k.uxPriority, k'.late = k.late, ~k.yield
      PROVE FineOK'
  BY <1>a, FineSame DEF Woke
<1>3. ASSUME EnterEff(t) PROVE FineOK'
  BY <1>3, <1>a DEF EnterEff, WaitOf, SameFlags, At, Running
<1>4. ASSUME SuspendEff(t) \/ YieldEff(t) PROVE FineOK'
  BY <1>4, <1>a DEF SuspendEff, YieldEff, FlagStep, At, Running
<1>5. ASSUME CheckEff(t) PROVE FineOK'
  <2>1. CASE Rewaited(k, k', t, k.due[t], [tick |-> k.tick, wrapped |-> FALSE])
    BY <1>5, <1>a, <2>1 DEF Rewaited, CheckEff, SameFlags, At, Running
  <2> QED
    BY <1>0, <1>5, <2>1 DEF CheckEff
<1>6. ASSUME DelayEff(t) PROVE FineOK'
  BY <1>6, FineSame DEF DelayEff, SameFlags, At, Running
<1>7. ASSUME NEW x, PlaceEff(t, x) PROVE FineOK'
  BY <1>7, FineSame DEF PlaceEff, Placed, Unready, At, Running
<1>8. ASSUME NEW x, NEW P, NEW m, UnlockTxEff(t, x, P, m) PROVE FineOK'
  BY <1>8, <1>a DEF UnlockTxEff, Pends, At, Running
<1> QED
  BY <1>1, <1>2, <1>3, <1>4, <1>5, <1>6, <1>7, <1>8, FineSend, FineReceive, FineResume, FineInherit DEF TaskEff

(* An interrupt keeps FineOK. *)
LEMMA FineIsr ==
  ASSUME Ground, FineOK, IsrEff
  PROVE  FineOK'
<1> HIDE DEF Ground, FineOK
<1>1. ASSUME HoldEff \/ MissEff PROVE FineOK'
  <2>1. /\ k.suspended /\ k'.cur = k.cur /\ k'.uxPriority = k.uxPriority /\ k'.late = k.late
        /\ Woke(k, k', {}, {})
    BY <1>1 DEF HoldEff, MissEff, FlagStep
  <2> QED
    BY <2>1, FineSame DEF Woke
<1>2. ASSUME SwitchEff PROVE FineOK'
  BY <1>2 DEF SwitchEff, Switched, FineOK
<1>3. ASSUME CountEff \/ QuietEff PROVE FineOK'
  BY <1>3 DEF CountEff, QuietEff, FineOK
<1>4. ASSUME NEW h, NEW S, NEW P, PostEff(h, S, P) PROVE FineOK'
  <2>1. /\ k'.cur = k.cur /\ k'.suspended = k.suspended /\ k'.yield = k.yield
        /\ k'.uxPriority = k.uxPriority /\ k.late \subseteq k'.late
        /\ \A u \in AllTasks : Ready(k', u) => Ready(k, u) \/ u \in S
        /\ S \subseteq k'.late
    BY <1>4 DEF PostEff, Woke
  <2> QED
    BY <2>1 DEF FineOK
<1>5. ASSUME NEW S, TickEff(S) PROVE FineOK'
  BY <1>5 DEF TickEff, Ticked, FineOK
<1> QED
  BY <1>1, <1>2, <1>3, <1>4, <1>5 DEF IsrEff

-----------------------------------------------------------------------------
(* The mutex, its holder and its waiters. *)

(* Who waits for the mutex waits for nothing else. *)
LEMMA MutexWaiters ==
  ASSUME Ground, NEW u \in ToSet(k.toReceive[Mutex])
  PROVE  /\ u \notin ToSet(k.toReceive[Mbox]) /\ u \notin ToSet(k.pending) /\ u \notin Slept(k)
         /\ \A x \in Queues : u \notin ToSet(k.toSend[x])
BY DEF Ground, EventsOK, SleepsIn, Queues

(* Waking tasks that do not wait for the mutex is calm. *)
LEMMA CalmWoke ==
  ASSUME Ground, NEW t, NEW S, NEW P, Woke(k, k', S, P),
         \A u \in ToSet(k.toReceive[Mutex]) : u \notin S /\ u \notin P,
         k'.uxPriority = k.uxPriority, q'[Mutex].holder = q[Mutex].holder
  PROVE  Calm(t)
<1>1. Thinned(k'.toReceive[Mutex], k.toReceive[Mutex], S \cup P)
  BY DEF Woke, Queues
<1>2. Thinned(k'.toReceive[Mutex], k.toReceive[Mutex], {})
  BY <1>1 DEF Thinned
<1> QED
  BY <1>2 DEF Calm, Woke

(* A step that leaves the scheduler alone is calm. *)
LEMMA CalmSame ==
  ASSUME Ground, NEW t, k' = k, q'[Mutex].holder = q[Mutex].holder
  PROVE  Calm(t)
<1>1. Woke(k, k', {}, {})
  BY WokeNone
<1> QED
  BY <1>1, CalmWoke

(* Interrupts are calm. *)
LEMMA CalmIsr ==
  ASSUME Ground, IsrEff
  PROVE  Calm(IDLE)
<1> HIDE DEF Ground
<1>0. q'[Mutex].holder = q[Mutex].holder
  BY IsrMutex
<1>1. ASSUME HoldEff \/ MissEff PROVE Calm(IDLE)
  BY <1>0, <1>1, CalmWoke DEF HoldEff, MissEff, FlagStep
<1>2. ASSUME SwitchEff PROVE Calm(IDLE)
  BY <1>0, <1>2, CalmWoke DEF SwitchEff, Switched
<1>3. ASSUME CountEff \/ QuietEff PROVE Calm(IDLE)
  BY <1>0, <1>3, CalmSame DEF CountEff, QuietEff
<1>4. ASSUME NEW h, NEW S, NEW P, PostEff(h, S, P) PROVE Calm(IDLE)
  <2>1. /\ Woke(k, k', S, P) /\ k'.uxPriority = k.uxPriority
        /\ S \subseteq ToSet(k.toReceive[Mbox]) /\ P \subseteq ToSet(k.toReceive[Mbox])
    BY <1>4 DEF PostEff
  <2> QED
    BY <1>0, <2>1, CalmWoke, MutexWaiters
<1>5. ASSUME NEW S, TickEff(S) PROVE Calm(IDLE)
  <2>1. Woke(k, k', S, {}) /\ k'.uxPriority = k.uxPriority /\ S \subseteq Slept(k)
    BY <1>5 DEF TickEff, Ticked
  <2> QED
    BY <1>0, <2>1, CalmWoke, MutexWaiters
<1> QED
  BY <1>1, <1>2, <1>3, <1>4, <1>5 DEF IsrEff

(* A calm step within a call. *)
LEMMA CalmGoes ==
  ASSUME NEW t \in Tasks, Calm(t), task[t].pc # "place", NEW pc, Goes(t, pc), pc # "place"
  PROVE  CalmEff(t)
BY DEF CalmEff, Goes

(* A calm step that ends a call. *)
LEMMA CalmLeaves ==
  ASSUME NEW t \in Tasks, Calm(t), task[t].pc # "place", Leaves(t)
  PROVE  CalmEff(t)
BY DEF CalmEff, Leaves

(* A step on a queue that leaves the holder alone. *)
LEMMA CalmQueue ==
  ASSUME NEW x \in Queues, NEW n, NEW h, NEW tx, NEW rx, Counts(x, n, h, tx, rx),
         x = Mutex => h = q[Mutex].holder
  PROVE  q'[Mutex].holder = q[Mutex].holder
BY DEF Counts, Queues

(* A step of a task is calm or about the mutex. *)
LEMMA CalmKept ==
  ASSUME Ground, NEW t \in Tasks, TaskEff(t)
  PROVE  CalmEff(t) \/ MutexEff(t)
<1> HIDE DEF Ground, Calm
<1>1. ASSUME BeginEff(t) PROVE CalmEff(t)
  <2>1. Calm(t) /\ task[t].pc = "app"
    BY <1>1, CalmSame DEF BeginEff, At
  <2>2. task'[t].pc # "place"
    BY <1>1 DEF BeginEff, BeginsAs
  <2> QED
    BY <2>1, <2>2 DEF CalmEff
<1>2. ASSUME RefuseEff(t) PROVE CalmEff(t)
  BY <1>2, CalmSame, CalmLeaves DEF RefuseEff, At
<1>3. ASSUME EnterEff(t) PROVE CalmEff(t)
  <2>1. Woke(k, k', {}, {}) /\ k'.uxPriority = k.uxPriority /\ q' = q /\ task[t].pc = "top" /\ task'[t].pc = "suspend"
    BY <1>3 DEF EnterEff, WaitOf, At
  <2>2. Calm(t)
    BY <2>1, CalmWoke
  <2> QED
    BY <2>1, <2>2 DEF CalmEff
<1>4. ASSUME SuspendEff(t) PROVE CalmEff(t)
  <2>1. Woke(k, k', {}, {}) /\ k'.uxPriority = k.uxPriority /\ q' = q /\ task[t].pc = "suspend"
    BY <1>4 DEF SuspendEff, FlagStep, At
  <2>2. Calm(t)
    BY <2>1, CalmWoke
  <2>3. task'[t].pc # "place"
    BY <1>4 DEF SuspendEff, Goes
  <2> QED
    BY <2>1, <2>2, <2>3 DEF CalmEff
<1>5. ASSUME YieldEff(t) PROVE CalmEff(t)
  <2>1. Woke(k, k', {}, {}) /\ k'.uxPriority = k.uxPriority /\ q' = q /\ task[t].pc = "yield"
    BY <1>5 DEF YieldEff, FlagStep, At
  <2>2. Calm(t)
    BY <2>1, CalmWoke
  <2>3. task'[t].pc # "place"
    BY <1>5 DEF YieldEff, Goes, Leaves
  <2> QED
    BY <2>1, <2>2, <2>3 DEF CalmEff
<1>6. ASSUME DelayEff(t) PROVE CalmEff(t)
  <2>1. /\ k'.uxPriority = k.uxPriority /\ q' = q /\ task[t].pc = "delay" /\ Goes(t, "resume")
        /\ k'.toReceive = k.toReceive
        /\ \A u \in AllTasks : Ready(k', u) <=> Ready(k, u) /\ u # t
    BY <1>6 DEF DelayEff, At
  <2>2. List(k.toReceive[Mutex])
    BY DEF Ground, Shape, ListsOK, Queues
  <2>3. Calm(t)
    BY <2>1, <2>2, ThinnedNone DEF Calm
  <2> QED
    BY <2>1, <2>3, CalmGoes
<1>7. ASSUME CheckEff(t) PROVE CalmEff(t)
  <2>1. /\ task[t].pc = "check" /\ q' = q /\ task'[t].pc # "place"
        /\ k' = k \/ Rewaited(k, k', t, k.due[t], [tick |-> k.tick, wrapped |-> FALSE])
    BY <1>7 DEF CheckEff, At, Goes
  <2>2. Calm(t)
    BY <2>1, CalmSame, CalmWoke DEF Rewaited
  <2> QED
    BY <2>1, <2>2 DEF CalmEff
<1>8. ASSUME TestEff(t) PROVE CalmEff(t)
  <2>1. task[t].pc = "test" /\ k' = k /\ q' = q
    BY <1>8 DEF TestEff, At
  <2>2. Calm(t)
    BY <2>1, CalmSame
  <2>3. task'[t].pc = "place" => ~Waits(t, "receive", Mutex)'
    BY <1>8 DEF TestEff, Goes, Waits
  <2> QED
    BY <2>1, <2>2, <2>3 DEF CalmEff
<1>9. ASSUME NEW x, SendEff(t, x), x # Mutex PROVE CalmEff(t)
  <2>1. /\ x = Mbox /\ task[t].pc = "top" /\ Leaves(t) /\ q'[Mutex].holder = q[Mutex].holder
        /\ Woke(k, k', First(k.toReceive[x]), {}) /\ k'.uxPriority = k.uxPriority
    BY <1>9, CalmQueue DEF SendEff, At, Queues
  <2>2. \A u \in First(k.toReceive[Mbox]) : u \in ToSet(k.toReceive[Mbox])
    <3>1. List(k.toReceive[Mbox])
      BY DEF Ground, Shape, ListsOK, Queues
    <3> QED
      BY <3>1, FirstFacts
  <2>3. \A u \in ToSet(k.toReceive[Mutex]) : u \notin First(k.toReceive[Mbox]) /\ u \notin {}
    BY <2>2, MutexWaiters
  <2>4. Calm(t)
    BY <2>1, <2>3, CalmWoke
  <2> QED
    BY <2>1, <2>4, CalmLeaves
<1>10. ASSUME NEW x, ReceiveEff(t, x), x # Mutex PROVE CalmEff(t)
  <2>1. /\ x = Mbox /\ task[t].pc = "top" /\ Leaves(t) /\ q'[Mutex].holder = q[Mutex].holder
        /\ Woke(k, k', First(k.toSend[x]), {}) /\ k'.uxPriority = k.uxPriority /\ x \in Queues
    BY <1>10, CalmQueue DEF ReceiveEff, At, Queues
  <2>2. \A u \in First(k.toSend[x]) : u \in ToSet(k.toSend[x])
    <3>1. List(k.toSend[x])
      BY <2>1 DEF Ground, Shape, ListsOK
    <3> QED
      BY <3>1, FirstFacts
  <2>3. \A u \in ToSet(k.toReceive[Mutex]) : u \notin First(k.toSend[x]) /\ u \notin {}
    BY <2>1, <2>2, MutexWaiters
  <2>4. Calm(t)
    BY <2>1, <2>3, CalmWoke
  <2> QED
    BY <2>1, <2>4, CalmLeaves
<1>11. ASSUME NEW x, LockEff(t, x) PROVE CalmEff(t)
  <2>1. task[t].pc = "lock" /\ Goes(t, "check") /\ q'[Mutex].holder = q[Mutex].holder /\ k' = k
    BY <1>11, CalmQueue DEF LockEff, At
  <2> QED
    BY <2>1, CalmSame, CalmGoes
<1>12. ASSUME NEW x, PlaceEff(t, x), ~(task[t].fn = "receive" /\ x = Mutex) PROVE CalmEff(t)
  <2>1. /\ q' = q /\ Goes(t, "unlockTx") /\ task[t].x = x /\ Placed(k, k', t, task[t].fn, x, task[t].wait)
    BY <1>12 DEF PlaceEff
  <2>2. /\ k'.toReceive[Mutex] = k.toReceive[Mutex] /\ k'.uxPriority = k.uxPriority
        /\ \A u \in AllTasks : Ready(k', u) <=> Ready(k, u) /\ u # t
    BY <1>12, <2>1 DEF Placed, Unready, Queues
  <2>3. List(k.toReceive[Mutex])
    BY DEF Ground, Shape, ListsOK, Queues
  <2>4. Calm(t)
    BY <2>1, <2>2, <2>3, ThinnedNone DEF Calm
  <2>5. ~Waits(t, "receive", Mutex) /\ task'[t].pc # "place"
    BY <1>12, <2>1 DEF Waits, Goes
  <2> QED
    BY <2>4, <2>5 DEF CalmEff
<1>13. ASSUME NEW x, UnlockRxEff(t, x) PROVE CalmEff(t)
  <2>1. task[t].pc = "unlockRx" /\ Goes(t, "resume") /\ q'[Mutex].holder = q[Mutex].holder /\ k' = k
    BY <1>13, CalmQueue DEF UnlockRxEff, At
  <2> QED
    BY <2>1, CalmSame, CalmGoes
<1>14. ASSUME NEW x, NEW P, NEW m, UnlockTxEff(t, x, P, m) PROVE CalmEff(t)
  <2>1. /\ task[t].pc = "unlockTx" /\ Goes(t, "unlockRx") /\ q'[Mutex].holder = q[Mutex].holder
        /\ Woke(k, k', {}, P) /\ k'.uxPriority = k.uxPriority /\ x \in Queues /\ CalledOut(t, x, P, m)
    BY <1>14, CalmQueue DEF UnlockTxEff, Pends, At
  <2>2. P \subseteq ToSet(k.toReceive[Mbox])
    BY <2>1, CalledFacts
  <2>3. \A u \in ToSet(k.toReceive[Mutex]) : u \notin {} /\ u \notin P
    BY <2>2, MutexWaiters
  <2>4. Calm(t)
    BY <2>1, <2>3, CalmWoke
  <2> QED
    BY <2>1, <2>4, CalmGoes
<1>15. ASSUME NEW S, ResumeEff(t, S) PROVE CalmEff(t)
  <2>1. /\ task[t].pc = "resume" /\ q' = q /\ Woke(k, k', S, {}) /\ k'.uxPriority = k.uxPriority
        /\ S \subseteq ToSet(k.pending) \cup Slept(k)
        /\ task'[t].pc # "place"
    BY <1>15 DEF ResumeEff, At, Goes, Leaves
  <2>2. \A u \in ToSet(k.toReceive[Mutex]) : u \notin S /\ u \notin {}
    BY <2>1, MutexWaiters
  <2>3. Calm(t)
    BY <2>1, <2>2, CalmWoke
  <2> QED
    BY <2>1, <2>3 DEF CalmEff
<1> QED
  BY <1>1, <1>2, <1>3, <1>4, <1>5, <1>6, <1>7, <1>8, <1>9, <1>10, <1>11, <1>12, <1>13, <1>14, <1>15
  DEF TaskEff, MutexEff

(* A task that is about to be placed is the one that runs. *)
LEMMA PlaceCur ==
  ASSUME Ground, NEW u \in Tasks, task[u].pc = "place"
  PROVE  u = k.cur /\ k.suspended
BY DEF Ground, SuspOK, SuspendedPcs

(* One that is to take the mutex does so, or is still on its way. *)
LEMMA WinnerStays ==
  ASSUME Ground, NEW t \in Tasks, TaskEff(t), Waits(t, "receive", Mutex), Ready(k, t),
         task[t].pc \in {"top", "yield"}, q[Mutex].holder = Nothing
  PROVE  \/ ReceiveEff(t, Mutex)
         \/ Waits(t, "receive", Mutex)' /\ task'[t].pc \in {"top", "yield"} /\ Ready(k', t)
<1>1. CASE task[t].pc = "yield"
  <2>1. YieldEff(t)
    BY <1>1, YieldsOnly
  <2>2. Goes(t, "top") /\ Woke(k, k', {}, {}) /\ t \in AllTasks
    BY <2>1 DEF YieldEff, FlagStep, Waits, AllTasks
  <2>3. Ready(k', t)
    BY <2>2 DEF Woke
  <2> QED
    BY <2>2, <2>3 DEF Goes, Waits
<1>2. CASE task[t].pc = "top"
  <2>1. q[Mutex].waiting = 1
    BY DEF Ground, MutexOK
  <2>2. task[t].fn = "receive" /\ task[t].x = Mutex
    BY DEF Waits
  <2>3. ~Blocked(t)
    BY <2>1, <2>2 DEF Blocked
  <2>4. \E x : ReceiveEff(t, x) /\ x = task[t].x
    BY <1>2, <2>2, <2>3 DEF TaskEff, At, BeginEff, RefuseEff, EnterEff, SuspendEff, DelayEff, CheckEff, TestEff,
       SendEff, ReceiveEff, LockEff, PlaceEff, UnlockRxEff, InheritEff, UnlockTxEff, ResumeEff, YieldEff
  <2> QED
    BY <2>2, <2>4
<1> QED
  BY <1>1, <1>2

-----------------------------------------------------------------------------
(* Calm steps. *)

(* A calm step keeps the waiters of the mutex sorted. *)
LEMMA CalmSorted ==
  ASSUME Sorted, NEW t, Calm(t)
  PROVE  Sorted'
<1>1. Thinned(k'.toReceive[Mutex], k.toReceive[Mutex], {}) /\ k'.uxPriority = k.uxPriority
  BY DEF Calm
<1>2. Ordered(k'.toReceive[Mutex], EventOrder(k))
  BY <1>1, ThinnedOrder DEF Sorted
<1>3. EventOrder(k') = EventOrder(k)
  BY <1>1 DEF EventOrder
<1> QED
  BY <1>2, <1>3 DEF Sorted

(* What a calm step leaves alone. *)
LEMMA CalmSet ==
  ASSUME NEW t, Calm(t)
  PROVE  /\ ToSet(k'.toReceive[Mutex]) = ToSet(k.toReceive[Mutex])
         /\ k'.uxPriority = k.uxPriority /\ q'[Mutex].holder = q[Mutex].holder
         /\ \A u \in Tasks : Holding(u)' <=> Holding(u)
         /\ \A u \in AllTasks : u # t /\ Ready(k, u) => Ready(k', u)
BY DEF Calm, Thinned, Holding

(* A calm step keeps the priorities. *)
LEMMA CalmOwn ==
  ASSUME OwnPriority, AboveWaiters, NEW t, Calm(t)
  PROVE  OwnPriority' /\ AboveWaiters'
<1>1. /\ ToSet(k'.toReceive[Mutex]) = ToSet(k.toReceive[Mutex])
      /\ k'.uxPriority = k.uxPriority /\ q'[Mutex].holder = q[Mutex].holder
  BY CalmSet
<1> QED
  BY <1>1 DEF OwnPriority, AboveWaiters, Holding

(* An interrupt keeps Ranks. *)
LEMMA RanksIsr ==
  ASSUME Ground, Ranks, IsrEff
  PROVE  Ranks'
<1>0. task' = task /\ Calm(IDLE)
  BY CalmIsr, CallsIsr
<1>1. /\ ToSet(k'.toReceive[Mutex]) = ToSet(k.toReceive[Mutex])
      /\ k'.uxPriority = k.uxPriority /\ q'[Mutex].holder = q[Mutex].holder
      /\ \A u \in AllTasks : u # IDLE /\ Ready(k, u) => Ready(k', u)
  BY <1>0, CalmSet
<1>2. Sorted' /\ OwnPriority' /\ AboveWaiters'
  BY <1>0, CalmSorted, CalmOwn DEF Ranks
<1>3. \A u \in Tasks : Ready(k, u) => Ready(k', u)
  BY <1>1 DEF AllTasks
<1>4. Handover'
  BY <1>0, <1>1, <1>3 DEF Ranks, Handover, Waits
<1>5. Inheritance'
  BY <1>0, <1>1 DEF Ranks, Inheritance, Lent, Waits, Holding
<1>6. AtPlace'
  BY <1>0, <1>1 DEF Ranks, AtPlace, Waits, Holding
<1> QED
  BY <1>2, <1>4, <1>5, <1>6 DEF Ranks

(* A calm step keeps Ranks. *)
LEMMA RanksCalm ==
  ASSUME Ground, Ranks, NEW t \in Tasks, TaskEff(t), CalmEff(t), ~ReceiveEff(t, Mutex)
  PROVE  Ranks'
<1>0. Others(t) /\ Calm(t) /\ k.cur = t
  BY CurSame DEF CalmEff
<1>1. /\ ToSet(k'.toReceive[Mutex]) = ToSet(k.toReceive[Mutex])
      /\ k'.uxPriority = k.uxPriority /\ q'[Mutex].holder = q[Mutex].holder
      /\ \A u \in AllTasks : u # t /\ Ready(k, u) => Ready(k', u)
  BY <1>0, CalmSet
<1>2. Sorted' /\ OwnPriority' /\ AboveWaiters'
  BY <1>0, CalmSorted, CalmOwn DEF Ranks
<1>3. \A u \in Tasks : u # t => task'[u] = task[u] /\ (Ready(k, u) => Ready(k', u)) /\ task[u].pc # "place"
  BY <1>0, <1>1, PlaceCur DEF Others, AllTasks
<1>4. Handover'
  <2> SUFFICES ASSUME q[Mutex].holder = Nothing, ToSet(k.toReceive[Mutex]) # {}
               PROVE  \E w \in Tasks :
                        /\ Waits(w, "receive", Mutex)' /\ task'[w].pc \in {"top", "yield"} /\ Ready(k', w)
                        /\ \A u \in ToSet(k.toReceive[Mutex]) : k.uxPriority[u] <= k.uxPriority[w]
    BY <1>1 DEF Handover
  <2>1. PICK w \in Tasks : /\ Waits(w, "receive", Mutex) /\ task[w].pc \in {"top", "yield"} /\ Ready(k, w)
                           /\ \A u \in ToSet(k.toReceive[Mutex]) : k.uxPriority[u] <= k.uxPriority[w]
    BY DEF Ranks, Handover
  <2>2. Waits(w, "receive", Mutex)' /\ task'[w].pc \in {"top", "yield"} /\ Ready(k', w)
    <3>1. CASE w = t
      BY <2>1, <3>1, WinnerStays
    <3>2. CASE w # t
      BY <1>3, <2>1, <3>2 DEF Waits
    <3> QED
      BY <3>1, <3>2
  <2> QED
    BY <2>1, <2>2
<1>5. Inheritance'
  <2>1. ASSUME NEW u \in Tasks, Lent(u) PROVE u \in ToSet(k.toReceive[Mutex])
    <3>1. ~(task[u].pc = "place" /\ Waits(u, "receive", Mutex))
      BY <1>3 DEF CalmEff
    <3> QED
      BY <2>1, <3>1 DEF Lent
  <2> QED
    BY <1>1, <2>1 DEF Ranks, Inheritance, Lent, Holding
<1>6. AtPlace'
  <2>1. ASSUME NEW u \in Tasks PROVE ~(task'[u].pc = "place" /\ Waits(u, "receive", Mutex)')
    BY <1>3 DEF CalmEff
  <2> QED
    BY <2>1 DEF AtPlace
<1> QED
  BY <1>2, <1>4, <1>5, <1>6 DEF Ranks

(* The waiters of the mutex. *)
LEMMA MutexList ==
  ASSUME Ground
  PROVE  /\ List(k.toReceive[Mutex]) /\ k.uxPriority \in [AllTasks -> Priorities] /\ Mutex \in Queues
         /\ ToSet(k.toReceive[Mutex]) \subseteq Tasks
         /\ \A u \in AllTasks : k.uxPriority[u] \in Nat
         /\ \A u \in ToSet(k.toReceive[Mutex]) : ~Ready(k, u)
<1>1. List(k.toReceive[Mutex]) /\ k.uxPriority \in [AllTasks -> Priorities] /\ Mutex \in Queues
  BY DEF Ground, Shape, ListsOK, Numbers, Queues
<1>2. \A u \in ToSet(k.toReceive[Mutex]) : u \in Tasks /\ ~Ready(k, u)
  BY DEF Ground, EventsOK, SleepsIn, Queues
<1> QED
  BY <1>1, <1>2, PrioritiesType

(* The holder releases the mutex. *)
LEMMA RanksSend ==
  ASSUME Ground, Ranks, NEW t \in Tasks, SendEff(t, Mutex)
  PROVE  Ranks'
<1> DEFINE s == k.toReceive[Mutex]
           r == k'.toReceive[Mutex]
<1>0. /\ At(t, "top") /\ task[t].fn = "send" /\ task[t].x = Mutex /\ task[t].pc = "top"
      /\ q'[Mutex].holder = Nothing /\ Others(t) /\ task'[t].pc = "app"
      /\ Woke(k, k', First(s), {})
      /\ k'.uxPriority = [k.uxPriority EXCEPT ![t] = uxBasePriority[t]]
  BY DEF SendEff, Counts, Leaves, At
<1>1. Holding(t)
  BY <1>0 DEF Ground, MutexOK, Waits
<1>2. /\ List(s) /\ k.uxPriority \in [AllTasks -> Priorities] /\ ToSet(s) \subseteq Tasks
      /\ \A u \in AllTasks : k.uxPriority[u] \in Nat
      /\ t \notin ToSet(s) /\ t \in AllTasks /\ Tasks \subseteq AllTasks
  <2>1. Ready(k, t)
    BY <1>1 DEF Ground, MutexOK
  <2> QED
    BY <2>1, MutexList DEF AllTasks
<1>3. \A u \in AllTasks : u # t => k'.uxPriority[u] = k.uxPriority[u]
  BY <1>0, <1>2
<1>4. Thinned(r, s, First(s)) /\ ToSet(r) \subseteq ToSet(s)
  BY <1>0 DEF Woke, Thinned, Queues
<1>5. Sorted'
  <2>1. Ordered(s, EventOrder(k))
    BY DEF Ranks, Sorted
  <2>2. \A u \in ToSet(s) : EventOrder(k')[u] = EventOrder(k)[u]
    BY <1>2, <1>3 DEF EventOrder
  <2>3. Ordered(s, EventOrder(k'))
    BY ONLY <1>2, <2>1, <2>2, OrderSame
  <2>4. Ordered(r, EventOrder(k'))
    BY ONLY <1>4, <2>3, ThinnedOrder
  <2> QED
    BY <2>4 DEF Sorted
<1>6. OwnPriority'
  <2>1. ASSUME NEW u \in Tasks PROVE k'.uxPriority[u] = uxBasePriority[u]
    <3>1. CASE u = t
      BY <1>0, <1>2, <3>1
    <3>2. CASE u # t
      BY <1>1, <1>2, <1>3, <3>2 DEF Ranks, OwnPriority, Holding
    <3> QED
      BY <3>1, <3>2
  <2> QED
    BY <2>1 DEF OwnPriority
<1>7. \A u \in Tasks : ~(Holding(u)')
  BY <1>0 DEF Holding
<1>8. AboveWaiters' /\ Inheritance' /\ AtPlace'
  BY <1>7 DEF AboveWaiters, Inheritance, AtPlace
<1>9. Handover'
  <2> SUFFICES ASSUME ToSet(r) # {}
               PROVE  \E w \in Tasks :
                        /\ Waits(w, "receive", Mutex)' /\ task'[w].pc \in {"top", "yield"} /\ Ready(k', w)
                        /\ \A u \in ToSet(r) : k'.uxPriority[u] <= k'.uxPriority[w]
    BY DEF Handover
  <2>0. PICK h : h = Head(s)
    OBVIOUS
  <2>1. s # <<>>
    BY <1>4, EmptyList
  <2>2. h \in ToSet(s) /\ \A u \in ToSet(s) : u # h => Before(s, h, u)
    BY <1>2, <2>0, <2>1, HeadFacts
  <2>3. h \in First(s)
    BY <2>0, <2>1 DEF First
  <2>4. h \in Tasks /\ h # t /\ h \in AllTasks
    BY <1>2, <2>2
  <2>5. Ready(k', h)
    BY <1>0, <2>3, <2>4 DEF Woke
  <2>6. SleepsIn(h, "receive", Mutex)
    BY <2>2 DEF Ground, EventsOK, Queues
  <2>7. ~k.suspended
    BY <1>0, NotSuspended DEF SuspendedPcs
  <2>8. task[h].pc \in {"top", "yield"}
    <3>1. task[h].pc \notin SuspendedPcs
      BY <2>4, <2>7 DEF Ground, SuspOK
    <3> QED
      BY <2>6, <3>1 DEF SleepsIn, AsleepPcs, SuspendedPcs
  <2>9. Waits(h, "receive", Mutex)' /\ task'[h].pc \in {"top", "yield"}
    BY <1>0, <2>4, <2>6, <2>8 DEF Others, Waits, SleepsIn
  <2>10. ASSUME NEW u \in ToSet(r) PROVE k'.uxPriority[u] <= k'.uxPriority[h]
    <3>1. u \in ToSet(s) /\ u \in AllTasks /\ u # t
      BY <1>2, <1>4, <2>10
    <3>2. k'.uxPriority[u] = k.uxPriority[u] /\ k'.uxPriority[h] = k.uxPriority[h]
          /\ k.uxPriority[u] \in Nat /\ k.uxPriority[h] \in Nat
      BY <1>2, <1>3, <2>4, <3>1
    <3>3. u # h => EventOrder(k)[h] <= EventOrder(k)[u]
      BY <2>2, <2>4, <3>1 DEF Ranks, Sorted, Ordered
    <3> QED
      BY <2>4, <3>1, <3>2, <3>3 DEF EventOrder
  <2> QED
    BY <2>4, <2>5, <2>9, <2>10
<1> QED
  BY <1>5, <1>6, <1>8, <1>9 DEF Ranks

(* A task takes the mutex. *)
LEMMA RanksReceive ==
  ASSUME Ground, Ranks, FineOK, LateOK, NEW t \in Tasks, ReceiveEff(t, Mutex)
  PROVE  Ranks'
<1> DEFINE s == k.toReceive[Mutex]
           r == k'.toReceive[Mutex]
<1>0. /\ At(t, "top") /\ q[Mutex].waiting > 0
      /\ q'[Mutex].holder = t /\ Others(t) /\ task'[t].pc = "app"
      /\ Woke(k, k', First(k.toSend[Mutex]), {}) /\ k'.uxPriority = k.uxPriority
  BY DEF ReceiveEff, Counts, Leaves
<1>1. q[Mutex].holder = Nothing
  BY <1>0 DEF Ground, MutexOK
<1>2. /\ List(s) /\ ToSet(s) \subseteq Tasks /\ Tasks \subseteq AllTasks
      /\ \A u \in AllTasks : k.uxPriority[u] \in Nat
  BY MutexList DEF AllTasks
<1>3. k.cur = t /\ k.yield = FALSE
  BY <1>0, RunsNow
<1>4. Thinned(r, s, First(k.toSend[Mutex]) \cup {}) /\ ToSet(r) \subseteq ToSet(s)
  BY <1>0 DEF Woke, Thinned, Queues
<1>5. Sorted'
  <2>1. Ordered(r, EventOrder(k))
    BY <1>4, ThinnedOrder DEF Ranks, Sorted
  <2>2. EventOrder(k') = EventOrder(k)
    BY <1>0 DEF EventOrder
  <2> QED
    BY <2>1, <2>2 DEF Sorted
<1>6. \A u \in Tasks : k.uxPriority[u] = uxBasePriority[u]
  BY <1>1 DEF Ranks, OwnPriority
<1>7. OwnPriority' /\ Inheritance'
  BY <1>0, <1>6 DEF OwnPriority, Inheritance
<1>8. Handover'
  BY <1>0 DEF Handover
<1>9. AtPlace'
  <2>1. ASSUME NEW u \in Tasks, task'[u].pc = "place" PROVE FALSE
    <3>1. u # t /\ task[u].pc = "place"
      BY <1>0, <2>1 DEF Others
    <3> QED
      BY <1>3, <3>1, PlaceCur
  <2> QED
    BY <2>1 DEF AtPlace
<1>10. AboveWaiters'
  <2>1. ASSUME NEW u \in ToSet(s) PROVE k.uxPriority[u] <= k.uxPriority[t]
    <3>1. PICK w \in Tasks : /\ Waits(w, "receive", Mutex) /\ Ready(k, w)
                             /\ k.uxPriority[u] <= k.uxPriority[w]
      BY <1>1, <2>1 DEF Ranks, Handover
    <3>2. w \notin k.late
      BY <3>1 DEF LateOK, Waits
    <3>3. k.uxPriority[w] <= k.uxPriority[t]
      BY <1>2, <1>3, <3>1, <3>2 DEF FineOK
    <3>4. k.uxPriority[u] \in Nat /\ k.uxPriority[w] \in Nat /\ k.uxPriority[t] \in Nat
      BY <1>2, <2>1
    <3> QED
      BY <3>1, <3>3, <3>4
  <2>2. \A h \in Tasks : Holding(h)' => h = t
    BY <1>0 DEF Holding
  <2> QED
    BY <1>0, <1>4, <2>1, <2>2 DEF AboveWaiters
<1> QED
  BY <1>5, <1>7, <1>8, <1>9, <1>10 DEF Ranks

(* A task goes to sleep on the mutex. *)
LEMMA RanksPlace ==
  ASSUME Ground, Ranks, NEW t \in Tasks, task[t].fn = "receive", PlaceEff(t, Mutex)
  PROVE  Ranks'
<1> DEFINE s == k.toReceive[Mutex]
           r == k'.toReceive[Mutex]
<1>0. /\ At(t, "place") /\ task[t].pc = "place" /\ task[t].x = Mutex /\ Ready(k, t) /\ q' = q
      /\ Goes(t, "unlockTx") /\ Placed(k, k', t, "receive", Mutex, task[t].wait)
  BY DEF PlaceEff, At
<1>1. Waits(t, "receive", Mutex)
  BY <1>0 DEF Waits
<1>2. Joined(r, s, t, EventOrder(k)) /\ k'.uxPriority = k.uxPriority
  BY <1>0 DEF Placed, Unready, Queues
<1>3. ToSet(r) = ToSet(s) \cup {t}
  BY <1>2 DEF Joined
<1>4. Sorted'
  <2>1. Ordered(r, EventOrder(k))
    BY <1>2 DEF Joined, Ranks, Sorted
  <2>2. EventOrder(k') = EventOrder(k)
    BY <1>2 DEF EventOrder
  <2> QED
    BY <2>1, <2>2 DEF Sorted
<1>5. OwnPriority'
  BY <1>0, <1>2 DEF Ranks, OwnPriority
<1>6. AboveWaiters'
  <2>1. ASSUME NEW h \in Tasks, Holding(h) PROVE \A u \in ToSet(r) : k.uxPriority[u] <= k.uxPriority[h]
    <3>1. k.uxPriority[t] <= k.uxPriority[h]
      BY <1>0, <1>1, <2>1 DEF Ranks, AtPlace
    <3> QED
      BY <1>3, <2>1, <3>1 DEF Ranks, AboveWaiters
  <2> QED
    BY <1>0, <1>2, <2>1 DEF AboveWaiters, Holding
<1>7. Handover'
  <2>1. q[Mutex].holder # Nothing
    BY <1>0, <1>1 DEF Ground, MutexOK
  <2> QED
    BY <1>0, <2>1 DEF Handover
<1>8. Inheritance'
  <2>1. ASSUME NEW u \in Tasks, Lent(u) PROVE u \in ToSet(r)
    <3>1. task[u].pc = "place" => u = t
      BY <1>0, PlaceCur DEF At, Running
    <3> QED
      BY <1>3, <2>1, <3>1 DEF Lent
  <2> QED
    BY <1>0, <1>2, <2>1 DEF Ranks, Inheritance, Lent, Holding
<1>9. AtPlace'
  <2>1. ASSUME NEW u \in Tasks, task'[u].pc = "place" PROVE FALSE
    <3>1. u # t /\ task[u].pc = "place"
      BY <1>0, <2>1 DEF Goes, Others
    <3> QED
      BY <1>0, <3>1, PlaceCur DEF At, Running
  <2> QED
    BY <2>1 DEF AtPlace
<1> QED
  BY <1>4, <1>5, <1>6, <1>7, <1>8, <1>9 DEF Ranks

(* The holder inherits a priority. *)
LEMMA RanksInherit ==
  ASSUME Ground, Ranks, NEW t \in Tasks, NEW h, InheritEff(t, h)
  PROVE  Ranks'
<1> DEFINE s == k.toReceive[Mutex]
<1>0. /\ At(t, "inherit") /\ task[t].pc = "inherit" /\ Waits(t, "receive", Mutex) /\ q' = q
      /\ Others(t) /\ task'[t].pc = "place" /\ task'[t].fn = task[t].fn /\ task'[t].x = task[t].x
      /\ h \in Tasks /\ Holding(h) /\ Ready(k, h) /\ h # t
      /\ IF k.uxPriority[h] >= k.uxPriority[t] THEN k' = k ELSE Raised(k, k', h, k.uxPriority[t])
  BY DEF InheritEff, Goes, At
<1>1. k.cur = t
  BY <1>0, RunsNow
<1>2. /\ List(s) /\ k.uxPriority \in [AllTasks -> Priorities] /\ ToSet(s) \subseteq Tasks
      /\ \A u \in AllTasks : k.uxPriority[u] \in Nat
      /\ h \notin ToSet(s) /\ t \in AllTasks /\ h \in AllTasks /\ Tasks \subseteq AllTasks
  BY <1>0, MutexList DEF AllTasks
<1>3. Waits(t, "receive", Mutex)'
  BY <1>0 DEF Waits
<1>4. \A u \in Tasks : Holding(u) <=> u = h
  BY <1>0 DEF Holding
<1>5. \A u \in Tasks : task'[u].pc = "place" => u = t
  BY <1>0, <1>1, PlaceCur DEF Others
<1>6. Handover'
  BY <1>0 DEF Handover, Holding
<1>7. ASSUME NEW u \in Tasks, Lent(u) PROVE u \in ToSet(s)
  <2>1. task[u].pc # "place"
    BY <1>0, <1>1, PlaceCur
  <2> QED
    BY <1>7, <2>1 DEF Lent
<1>8. CASE k.uxPriority[h] >= k.uxPriority[t]
  <2>1. k' = k
    BY <1>0, <1>8
  <2>2. Sorted' /\ OwnPriority' /\ AboveWaiters'
    BY <1>0, <2>1 DEF Ranks, Sorted, OwnPriority, AboveWaiters, Holding
  <2>3. Inheritance'
    BY <1>0, <1>7, <2>1 DEF Ranks, Inheritance, Lent, Holding
  <2>4. AtPlace'
    BY <1>0, <1>2, <1>4, <1>5, <1>8, <2>1 DEF AtPlace, Holding
  <2> QED
    BY <1>6, <2>2, <2>3, <2>4 DEF Ranks
<1>9. CASE ~(k.uxPriority[h] >= k.uxPriority[t])
  <2>1. k'.toReceive = k.toReceive /\ k'.uxPriority = [k.uxPriority EXCEPT ![h] = k.uxPriority[t]]
    BY <1>0, <1>9 DEF Raised
  <2>2. /\ k'.uxPriority[h] = k.uxPriority[t] /\ k'.uxPriority[t] = k.uxPriority[t]
        /\ \A u \in AllTasks : u # h => k'.uxPriority[u] = k.uxPriority[u]
    BY <1>0, <1>2, <2>1
  <2>3. k.uxPriority[h] < k.uxPriority[t] /\ k.uxPriority[h] \in Nat /\ k.uxPriority[t] \in Nat
    BY <1>2, <1>9
  <2>4. Sorted'
    <3>1. Ordered(s, EventOrder(k))
      BY DEF Ranks, Sorted
    <3>2. \A u \in ToSet(s) : EventOrder(k')[u] = EventOrder(k)[u]
      BY <1>2, <2>2 DEF EventOrder
    <3>3. Ordered(s, EventOrder(k'))
      BY ONLY <1>2, <3>1, <3>2, OrderSame
    <3> QED
      BY <2>1, <3>3 DEF Sorted
  <2>5. OwnPriority'
    BY <1>0, <1>2, <2>2 DEF Ranks, OwnPriority, Holding
  <2>6. AboveWaiters'
    <3>1. ASSUME NEW u \in ToSet(s) PROVE k'.uxPriority[u] <= k'.uxPriority[h]
      <4>1. k.uxPriority[u] <= k.uxPriority[h]
        BY <1>0 DEF Ranks, AboveWaiters
      <4>2. k'.uxPriority[u] = k.uxPriority[u] /\ k.uxPriority[u] \in Nat
        BY <1>2, <2>2
      <4> QED
        BY <2>2, <2>3, <4>1, <4>2
    <3> QED
      BY <1>0, <1>4, <2>1, <3>1 DEF AboveWaiters, Holding
  <2>7. Inheritance'
    <3>1. uxBasePriority[h] <= k.uxPriority[h] /\ uxBasePriority[h] \in Nat
      <4>1. uxBasePriority[h] \in Nat
        BY <1>2 DEF AllTasks
      <4> QED
        BY <1>0, <2>3, <4>1 DEF Ranks, Inheritance
    <3>2. uxBasePriority[h] < k'.uxPriority[h]
      BY <2>2, <2>3, <3>1
    <3>3. Lent(t)' /\ k'.uxPriority[t] = k'.uxPriority[h]
      BY <1>0, <1>3, <2>2 DEF Lent
    <3> QED
      BY <1>0, <1>4, <3>2, <3>3 DEF Inheritance, Holding
  <2>8. AtPlace'
    BY <1>0, <1>4, <1>5, <2>2, <2>3 DEF AtPlace, Holding
  <2> QED
    BY <1>6, <2>4, <2>5, <2>6, <2>7, <2>8 DEF Ranks
<1> QED
  BY <1>8, <1>9

(* A step of a task keeps Ranks. *)
LEMMA RanksKept ==
  ASSUME Ground, Ranks, FineOK, LateOK, NEW t \in Tasks, TaskEff(t)
  PROVE  Ranks'
<1>1. CASE ReceiveEff(t, Mutex)
  BY <1>1, RanksReceive
<1>2. CASE CalmEff(t) /\ ~ReceiveEff(t, Mutex)
  BY <1>2, RanksCalm
<1>3. CASE MutexEff(t)
  BY <1>1, <1>3, RanksSend, RanksPlace, RanksInherit DEF MutexEff
<1> QED
  BY <1>1, <1>2, <1>3, CalmKept

(* Every step keeps Scheduled. *)
LEMMA ScheduledStep ==
  ASSUME Scheduled, Next
  PROVE  Scheduled'
<1>0. Base /\ Ground /\ LateOK /\ FineOK /\ Ranks /\ Sorted /\ Inheritance
  BY DEF Scheduled, Base, Ranks
<1>1. Base'
  BY <1>0, BaseStep
<1>2. IsrEff \/ \E t \in Tasks : TaskEff(t)
  BY <1>0, NextEff
<1>3. CASE IsrEff
  BY <1>0, <1>1, <1>3, LateIsr, FineIsr, RanksIsr DEF Scheduled
<1>4. ASSUME NEW t \in Tasks, TaskEff(t) PROVE Scheduled'
  <2>1. LateOK' /\ FineOK'
    BY <1>0, <1>4, LateKept, FineKept
  <2>2. Ranks'
    BY <1>0, <1>4, RanksKept
  <2> QED
    BY <1>1, <2>1, <2>2 DEF Scheduled
<1> QED
  BY <1>2, <1>3, <1>4

(* A stuttering step keeps Scheduled. *)
LEMMA ScheduledSame ==
  ASSUME Scheduled, UNCHANGED vars
  PROVE  Scheduled'
<1>1. k' = k /\ q' = q /\ task' = task
  BY DEF vars
<1>2. Base'
  BY BaseSame DEF Scheduled
<1>3. LateOK' /\ FineOK' /\ Sorted' /\ OwnPriority'
  BY <1>1 DEF Scheduled, LateOK, Waits, FineOK, Ranks, Sorted, OwnPriority
<1>4. AboveWaiters' /\ Handover' /\ Inheritance' /\ AtPlace'
  BY <1>1 DEF Scheduled, Ranks, AboveWaiters, Handover, Inheritance, Lent, AtPlace, Waits, Holding
<1> QED
  BY <1>2, <1>3, <1>4 DEF Scheduled, Ranks

(* Scheduled holds initially. *)
LEMMA InitScheduled ==
  ASSUME Init
  PROVE  Scheduled
<1>1. Base
  BY InitBase
<1>2. /\ k.suspended = FALSE /\ k.yield = TRUE /\ k.late = {} /\ k.uxPriority = uxBasePriority
      /\ k.toReceive = [x \in Queues |-> <<>>]
  BY DEF Init
<1>3. q[Mutex].holder = Nothing
  BY DEF Init, Queues
<1>4. ToSet(k.toReceive[Mutex]) = {} /\ k.toReceive[Mutex] = <<>>
  BY <1>2, EmptyList DEF Queues
<1>5. LateOK /\ FineOK
  BY <1>2 DEF LateOK, FineOK
<1>6. Sorted
  BY <1>4 DEF Sorted, Ordered, Before
<1>7. OwnPriority /\ AboveWaiters /\ Handover /\ Inheritance /\ AtPlace
  BY <1>2, <1>3, <1>4 DEF OwnPriority, AboveWaiters, Handover, Inheritance, AtPlace, Holding
<1> QED
  BY <1>1, <1>5, <1>6, <1>7 DEF Scheduled, Ranks

(* The priorities stay consistent with the mutex: the waiters are in order, the holder  *)
(* is not below them, a free mutex with waiters is about to be taken by one that is not *)
(* below the others, and no ready task is above the current one but for those an        *)
(* interrupt readied.                                                                   *)
THEOREM ScheduledInvariant == Spec => []Scheduled
<1>1. Init => Scheduled
  BY InitScheduled
<1>2. Scheduled /\ [Next]_vars => Scheduled'
  BY ScheduledStep, ScheduledSame
<1> QED
  BY <1>1, <1>2, PTL DEF Spec

(* With no switch pending and the scheduler running, the current task has the highest   *)
(* priority of the ready ones, but for those an interrupt readied since the last switch *)
(* (vTaskSwitchContext and its search down from the recorded top priority, the yields   *)
(* of xQueueGenericSend and xTaskResumeAll), for any priorities.                        *)
THEOREM HighestRunsTheorem == Spec => []HighestRuns
<1>1. Scheduled => HighestRuns
  <2> SUFFICES ASSUME Scheduled, ~k.suspended, ~k.yield, NEW p \in Priorities, NEW t \in ToSet(k.ready[p])
               PROVE  p <= k.uxPriority[k.cur] \/ t \in k.late
    BY DEF HighestRuns
  <2>1. Shape(k) /\ Apart(k) /\ FineOK
    BY DEF Scheduled, Base, Ground
  <2>2. k.uxPriority[t] = p /\ List(k.ready[p])
    BY <2>1 DEF Apart, ReadyAt, Shape, ListsOK
  <2>3. t \in AllTasks
    BY <2>2, ListIn
  <2>4. Ready(k, t)
    BY <2>2 DEF Ready
  <2> QED
    BY <2>1, <2>2, <2>3, <2>4 DEF FineOK
<1> QED
  BY <1>1, ScheduledInvariant, PTL

(* The holder of the mutex runs at least at the priority of every task asleep on it, *)
(* and a task that holds nothing is at its own priority (vTaskPriorityInherit and    *)
(* vTaskPriorityDisinherit), for any number of tasks that contend.                   *)
THEOREM NoInversionTheorem == Spec => []NoInversion
<1>1. Scheduled => NoInversion
  <2> SUFFICES ASSUME Scheduled, NEW t \in Tasks
               PROVE  /\ \A u \in ToSet(k.toReceive[Mutex]) :
                           q[Mutex].holder = t => k.uxPriority[t] >= k.uxPriority[u]
                      /\ q[Mutex].holder # t => k.uxPriority[t] = uxBasePriority[t]
    BY DEF NoInversion
  <2>1. Ground /\ OwnPriority /\ AboveWaiters
    BY DEF Scheduled, Base, Ranks
  <2>2. ASSUME NEW u \in ToSet(k.toReceive[Mutex]), q[Mutex].holder = t
        PROVE  k.uxPriority[t] >= k.uxPriority[u]
    <3>1. k.uxPriority[u] <= k.uxPriority[t]
      BY <2>1, <2>2 DEF AboveWaiters, Holding
    <3>2. k.uxPriority[u] \in Nat /\ k.uxPriority[t] \in Nat
      BY <2>1, MutexList DEF AllTasks
    <3> QED
      BY <3>1, <3>2
  <2> QED
    BY <2>1, <2>2 DEF OwnPriority
<1> QED
  BY <1>1, ScheduledInvariant, PTL

-----------------------------------------------------------------------------
(* Every item has an awake task to take it. *)

(* A set of tasks is finite. *)
LEMMA SubsetCard ==
  ASSUME NEW A, A \subseteq Tasks
  PROVE  IsFiniteSet(A) /\ Cardinality(A) \in Nat
<1>1. A \in SUBSET Tasks
  OBVIOUS
<1>2. IsFiniteSet(A)
  BY <1>1, FS_Subset
<1> QED
  BY <1>2, FS_CardinalityType

(* A larger set of tasks has no fewer elements. *)
LEMMA MoreCard ==
  ASSUME NEW A, NEW B, B \subseteq Tasks, A \subseteq B
  PROVE  Cardinality(A) <= Cardinality(B)
<1>1. IsFiniteSet(B) /\ A \in SUBSET B
  BY SubsetCard
<1> QED
  BY <1>1, FS_Subset

(* A set with others added. *)
LEMMA ManyCard ==
  ASSUME NEW A, NEW P, NEW B, B \subseteq Tasks, A \cup P \subseteq B, A \cap P = {}
  PROVE  Cardinality(A) + Cardinality(P) <= Cardinality(B)
<1>1. /\ IsFiniteSet(A) /\ Cardinality(A) \in Nat /\ IsFiniteSet(P) /\ Cardinality(P) \in Nat
      /\ Cardinality(B) \in Nat
  BY SubsetCard
<1>2. Cardinality(A \cup P) = Cardinality(A) + Cardinality(P) - Cardinality(A \cap P)
  BY <1>1, FS_Union
<1>3. Cardinality(A \cap P) = 0
  BY FS_EmptySet
<1>4. Cardinality(A \cup P) <= Cardinality(B)
  BY MoreCard
<1> QED
  BY <1>1, <1>2, <1>3, <1>4

(* A set with one task added. *)
LEMMA OneCard ==
  ASSUME NEW A, NEW h, h \notin A, NEW B, B \subseteq Tasks, A \cup {h} \subseteq B
  PROVE  Cardinality(A) + 1 <= Cardinality(B)
<1>1. Cardinality({h}) = 1
  BY FS_Singleton
<1>2. A \cap {h} = {}
  OBVIOUS
<1>3. Cardinality(A) + Cardinality({h}) <= Cardinality(B)
  BY <1>2, ManyCard
<1> QED
  BY <1>1, <1>3

(* The first m of a list are m tasks. *)
LEMMA FirstOfCard ==
  ASSUME NEW s, List(s), NEW m \in 0 .. Len(s)
  PROVE  Cardinality(FirstOf(s, m)) = m
<1>1. s \in Seq(AllTasks) /\ Len(s) \in Nat /\ \A i, j \in 1 .. Len(s) : s[i] = s[j] => i = j
  BY DEF List
<1> DEFINE f == [i \in 1 .. m |-> s[i]]
<1>2. f \in [1 .. m -> FirstOf(s, m)]
  BY DEF FirstOf
<1>3. IsInjective(f)
  BY <1>1 DEF IsInjective
<1>4. \A t \in FirstOf(s, m) : \E i \in 1 .. m : f[i] = t
  BY DEF FirstOf
<1>5. f \in Bijection(1 .. m, FirstOf(s, m))
  BY <1>2, <1>3, <1>4 DEF Bijection, Injection, Surjection
<1>6. ExistsBijection(1 .. m, FirstOf(s, m)) /\ m \in Nat
  BY <1>1, <1>5 DEF ExistsBijection
<1> QED
  BY <1>6, FS_CountingElements

-----------------------------------------------------------------------------
(* Steps that keep the takers. *)

(* The receivers are tasks. *)
LEMMA ReceiversIn == Receivers \subseteq Tasks /\ Receivers' \subseteq Tasks
                     /\ Cardinality(Receivers) \in Nat /\ Cardinality(Receivers') \in Nat
<1>1. Receivers \subseteq Tasks /\ Receivers' \subseteq Tasks
  BY DEF Receivers
<1> QED
  BY <1>1, SubsetCard

(* The senders are tasks. *)
LEMMA SendersIn == Senders \subseteq Tasks /\ Senders' \subseteq Tasks
                     /\ Cardinality(Senders) \in Nat /\ Cardinality(Senders') \in Nat
<1>1. Senders \subseteq Tasks /\ Senders' \subseteq Tasks
  BY DEF Senders
<1> QED
  BY <1>1, SubsetCard

(* The counts of the mailbox. *)
LEMMA MboxNumbers ==
  ASSUME Ground
  PROVE  /\ q[Mbox].waiting \in 0 .. uxLength /\ q[Mbox].txLock \in Int /\ q[Mbox].txLock >= -1
         /\ Posted \in Nat /\ Mbox \in Queues /\ Mbox # Mutex /\ uxLength \in Nat
<1>1. q[Mbox].waiting \in 0 .. uxLength /\ q[Mbox].txLock \in Int /\ Mbox \in Queues /\ Mbox # Mutex
  BY QueueFacts DEF Queues
<1>2. q[Mbox].txLock >= -1
  BY <1>1 DEF Ground, LocksOK
<1> QED
  BY <1>1, <1>2 DEF Posted

(* The counts of the mailbox after a step. *)
LEMMA NextNumbers ==
  ASSUME Ground'
  PROVE  q'[Mbox].waiting \in 0 .. uxLength /\ q'[Mbox].txLock \in Int /\ Posted' \in Nat
<1>1. Mbox \in Queues /\ Length(Mbox) = uxLength
  BY DEF Queues, Length
<1>2. q'[Mbox].waiting \in 0 .. uxLength /\ q'[Mbox].txLock \in Int
  BY <1>1 DEF Ground, IInv, QueuesOK, Cell
<1> QED
  BY <1>2 DEF Posted

(* A step that takes nobody out of a call and posts nothing keeps ReceiveClaim. *)
LEMMA KeepsReceive ==
  ASSUME Ground, Ground', ReceiveClaim, KeepsTakers("receive"),
         ToSet(k'.toReceive[Mbox]) \subseteq ToSet(k.toReceive[Mbox]),
         q'[Mbox].waiting = q[Mbox].waiting, Posted' = Posted
  PROVE  ReceiveClaim'
<1>1. Receivers \subseteq Receivers'
  BY DEF Receivers, KeepsTakers
<1>2. Cardinality(Receivers) <= Cardinality(Receivers')
  BY <1>1, ReceiversIn, MoreCard
<1>3. Posted \in Nat /\ q[Mbox].waiting \in Int
  BY MboxNumbers
<1>4. ToSet(k'.toReceive[Mbox]) # {} => q[Mbox].waiting <= Cardinality(Receivers') + Posted
  BY <1>2, <1>3, ReceiversIn DEF ReceiveClaim
<1> QED
  BY <1>4 DEF ReceiveClaim

(* A step that takes nobody out of a call and frees no place keeps SendClaim. *)
LEMMA KeepsSend ==
  ASSUME Ground, Ground', SendClaim, KeepsTakers("send"),
         ToSet(k'.toSend[Mbox]) \subseteq ToSet(k.toSend[Mbox]),
         q'[Mbox].waiting >= q[Mbox].waiting
  PROVE  SendClaim'
<1>1. Senders \subseteq Senders'
  BY DEF Senders, KeepsTakers
<1>2. Cardinality(Senders) <= Cardinality(Senders')
  BY <1>1, SendersIn, MoreCard
<1>3. q[Mbox].waiting \in Int /\ uxLength \in Int
  BY MboxNumbers
<1>4. q'[Mbox].waiting \in Int
  BY NextNumbers
<1>5. ToSet(k'.toSend[Mbox]) # {} => uxLength - q'[Mbox].waiting <= Cardinality(Senders')
  BY <1>2, <1>3, <1>4, SendersIn DEF SendClaim
<1> QED
  BY <1>5 DEF SendClaim

(* Nothing in the mailbox needs no taker. *)
LEMMA EmptyReceive ==
  ASSUME Ground', q'[Mbox].waiting = 0
  PROVE  ReceiveClaim'
<1>1. Posted' \in Nat
  BY NextNumbers
<1> QED
  BY <1>1, ReceiversIn DEF ReceiveClaim

(* A full mailbox needs no sender. *)
LEMMA FullSend ==
  ASSUME q'[Mbox].waiting = uxLength
  PROVE  SendClaim'
<1> QED
  BY SendersIn DEF SendClaim

(* Only t may stop looking. *)
LEMMA OtherTakers ==
  ASSUME NEW t \in Tasks, Others(t), NEW fn, ~Looks(t, fn) \/ Looks(t, fn)'
  PROVE  KeepsTakers(fn)
BY DEF KeepsTakers, Looks, Others

(* A task leaves a call on the mailbox from the top of its loop alone. *)
LEMMA TakersStay ==
  ASSUME Ground, NEW t \in Tasks, TaskEff(t), task[t].pc # "top", NEW fn \in {"send", "receive"}
  PROVE  KeepsTakers(fn)
<1>0. Others(t)
  BY CurSame
<1>1. ASSUME Looks(t, fn) PROVE Looks(t, fn)'
  <2>1. task[t].pc \in {"unlockTx", "unlockRx", "resume", "yield"} /\ task[t].fn = fn /\ ~task[t].expired
        /\ task[t].fn # "delay"
    BY <1>1 DEF Looks, AsleepPcs
  <2>2. PlacedEff(t)
    BY <2>1 DEF PlacedEff, TaskEff, At, BeginEff, RefuseEff, EnterEff, SuspendEff, DelayEff, CheckEff, TestEff,
       SendEff, ReceiveEff, LockEff, PlaceEff, InheritEff
  <2>3. CASE YieldEff(t)
    BY <1>1, <2>1, <2>3 DEF YieldEff, Goes, Looks, AsleepPcs
  <2>4. CASE \E x : UnlockRxEff(t, x)
    BY <1>1, <2>1, <2>4 DEF UnlockRxEff, Goes, Looks, AsleepPcs
  <2>5. CASE \E x, P, m : UnlockTxEff(t, x, P, m)
    BY <1>1, <2>1, <2>5 DEF UnlockTxEff, Goes, Looks, AsleepPcs
  <2>6. CASE \E S : ResumeEff(t, S)
    BY <1>1, <2>1, <2>6 DEF ResumeEff, Goes, Looks, AsleepPcs
  <2> QED
    BY <2>2, <2>3, <2>4, <2>5, <2>6 DEF PlacedEff
<1> QED
  BY <1>0, <1>1, OtherTakers

(* Waking tasks adds none to the event lists. *)
LEMMA WokeShorter ==
  ASSUME NEW S, NEW P, Woke(k, k', S, P)
  PROVE  Shorter
BY DEF Shorter, Woke, Thinned, Queues

(* Only vTaskPlaceOnEventList adds a task to an event list. *)
LEMMA TaskShorter ==
  ASSUME Ground, NEW t \in Tasks, TaskEff(t), ~PlaceEff(t, Mbox)
  PROVE  Shorter
<1>1. CASE \E S, P : Woke(k, k', S, P)
  BY <1>1, WokeShorter
<1>2. CASE DelayEff(t)
  BY <1>2 DEF DelayEff, Shorter
<1>3. ASSUME NEW x, PlaceEff(t, x) PROVE Shorter
  <2>1. x # Mbox /\ Mbox \in Queues
    BY <1>3 DEF Queues
  <2>2. k'.toReceive[Mbox] = k.toReceive[Mbox] /\ k'.toSend[Mbox] = k.toSend[Mbox]
    BY <1>3, <2>1 DEF PlaceEff, Placed
  <2> QED
    BY <2>2 DEF Shorter
<1> QED
  BY <1>1, <1>2, <1>3, TaskStays DEF Stays

(* A step on the other queue leaves the mailbox alone. *)
LEMMA MboxOther ==
  ASSUME NEW x \in Queues, x # Mbox, NEW n, NEW h, NEW tx, NEW rx, Counts(x, n, h, tx, rx)
  PROVE  SameMbox
BY DEF Counts, SameMbox, Posted, Queues

(* The other steps of a task leave the counts of the mailbox alone. *)
LEMMA MboxSame ==
  ASSUME Ground, NEW t \in Tasks, TaskEff(t), ~MboxEff(t)
  PROVE  SameMbox
<1> HIDE DEF Ground, SameMbox
<1>0. ASSUME q' = q PROVE SameMbox
  BY <1>0 DEF SameMbox, Posted
<1>1. ASSUME BeginEff(t) \/ RefuseEff(t) \/ EnterEff(t) \/ SuspendEff(t) \/ DelayEff(t) \/ CheckEff(t)
             \/ TestEff(t) \/ YieldEff(t)
      PROVE  SameMbox
  BY <1>0, <1>1 DEF BeginEff, RefuseEff, EnterEff, SuspendEff, DelayEff, CheckEff, TestEff, YieldEff
<1>2. ASSUME NEW x, SendEff(t, x) PROVE SameMbox
  BY <1>2, MboxOther DEF SendEff, MboxEff
<1>3. ASSUME NEW x, ReceiveEff(t, x) PROVE SameMbox
  BY <1>3, MboxOther DEF ReceiveEff, MboxEff
<1>4. ASSUME NEW x, LockEff(t, x) PROVE SameMbox
  <2>1. CASE x # Mbox
    BY <1>4, <2>1, MboxOther DEF LockEff
  <2>2. CASE x = Mbox
    <3>1. q'[Mbox].waiting = q[Mbox].waiting
          /\ q'[Mbox].txLock = (IF q[Mbox].txLock = -1 THEN 0 ELSE q[Mbox].txLock)
      BY <1>4, <2>2 DEF LockEff, Counts
    <3>2. q[Mbox].txLock \in Int
      BY MboxNumbers
    <3> QED
      BY <3>1, <3>2 DEF SameMbox, Posted
  <2> QED
    BY <2>1, <2>2
<1>5. ASSUME NEW x, PlaceEff(t, x) PROVE SameMbox
  BY <1>0, <1>5 DEF PlaceEff
<1>6. ASSUME NEW x, UnlockRxEff(t, x) PROVE SameMbox
  <2>1. CASE x # Mbox
    BY <1>6, <2>1, MboxOther DEF UnlockRxEff
  <2>2. CASE x = Mbox
    BY <1>6, <2>2 DEF UnlockRxEff, Counts, SameMbox, Posted
  <2> QED
    BY <2>1, <2>2
<1>7. ASSUME NEW h, InheritEff(t, h) PROVE SameMbox
  BY <1>0, <1>7 DEF InheritEff
<1>8. ASSUME NEW x, NEW P, NEW m, UnlockTxEff(t, x, P, m) PROVE SameMbox
  BY <1>8, MboxOther DEF UnlockTxEff, MboxEff
<1>9. ASSUME NEW S, ResumeEff(t, S) PROVE SameMbox
  BY <1>0, <1>9 DEF ResumeEff
<1> QED
  BY <1>1, <1>2, <1>3, <1>4, <1>5, <1>6, <1>7, <1>8, <1>9 DEF TaskEff

(* A step at the top of a call that does not take or fill the mailbox finds it blocked, *)
(* or is about the mutex.                                                               *)
LEMMA TopBlocked ==
  ASSUME Ground, NEW t \in Tasks, TaskEff(t), ~MboxEff(t), task[t].pc = "top", task[t].x = Mbox
  PROVE  /\ task[t].fn = "receive" => q[Mbox].waiting = 0
         /\ task[t].fn = "send" => q[Mbox].waiting = uxLength
<1>1. RefuseEff(t) \/ EnterEff(t)
  BY DEF TaskEff, MboxEff, At, BeginEff, RefuseEff, EnterEff, SuspendEff, DelayEff, CheckEff, TestEff,
     SendEff, ReceiveEff, LockEff, PlaceEff, UnlockRxEff, InheritEff, UnlockTxEff, ResumeEff, YieldEff
<1>2. Blocked(t)
  BY <1>1 DEF RefuseEff, EnterEff
<1> QED
  BY <1>2 DEF Blocked, Length

(* The other steps of a task keep the claims. *)
LEMMA ClaimsCalm ==
  ASSUME Ground, Ground', ReceiveClaim, SendClaim, NEW t \in Tasks, TaskEff(t), ~MboxEff(t)
  PROVE  ReceiveClaim' /\ SendClaim'
<1>0. Shorter /\ SameMbox /\ Others(t)
  BY TaskShorter, MboxSame, CurSame DEF MboxEff
<1>3. ReceiveClaim'
  <2>1. CASE KeepsTakers("receive")
    BY <1>0, <2>1, KeepsReceive DEF Shorter, SameMbox
  <2>2. CASE ~KeepsTakers("receive")
    <3>1. Looks(t, "receive") /\ task[t].pc = "top"
      BY <1>0, <2>2, OtherTakers, TakersStay
    <3>2. q[Mbox].waiting = 0
      BY <3>1, TopBlocked DEF Looks
    <3> QED
      BY <1>0, <3>2, EmptyReceive DEF SameMbox
  <2> QED
    BY <2>1, <2>2
<1>4. SendClaim'
  <2>1. CASE KeepsTakers("send")
    <3>1. q'[Mbox].waiting >= q[Mbox].waiting
      BY <1>0, NextNumbers DEF SameMbox
    <3> QED
      BY <1>0, <2>1, <3>1, KeepsSend DEF Shorter
  <2>2. CASE ~KeepsTakers("send")
    <3>1. Looks(t, "send") /\ task[t].pc = "top"
      BY <1>0, <2>2, OtherTakers, TakersStay
    <3>2. q[Mbox].waiting = uxLength
      BY <3>1, TopBlocked DEF Looks
    <3> QED
      BY <1>0, <3>2, FullSend DEF SameMbox
  <2> QED
    BY <2>1, <2>2
<1> QED
  BY <1>3, <1>4

(* One element leaves. *)
LEMMA LessCard ==
  ASSUME NEW A, NEW B, NEW t \in Tasks, B \subseteq Tasks, A \subseteq B \cup {t}
  PROVE  Cardinality(A) <= Cardinality(B) + 1
<1>1. B \cup {t} \subseteq Tasks
  OBVIOUS
<1>2. Cardinality(A) <= Cardinality(B \cup {t})
  BY <1>1, MoreCard
<1>3. A \subseteq Tasks
  BY <1>1
<1>4. IsFiniteSet(B) /\ Cardinality(B) \in Nat /\ Cardinality(A) \in Nat
  BY <1>3, SubsetCard
<1>5. Cardinality(B \cup {t}) = IF t \in B THEN Cardinality(B) ELSE Cardinality(B) + 1
  BY <1>4, FS_AddElement
<1> QED
  BY <1>2, <1>4, <1>5

(* The tasks of P are called out of the list of receivers. *)
LEMMA JoinReceive ==
  ASSUME Ground, Ground', ReceiveClaim, KeepsTakers("receive"), Shorter,
         NEW P, P \subseteq ToSet(k.toReceive[Mbox]), P \cap ToSet(k'.toReceive[Mbox]) = {},
         ToSet(k'.toReceive[Mbox]) # {} =>
           q'[Mbox].waiting - Posted' <= q[Mbox].waiting - Posted + Cardinality(P)
  PROVE  ReceiveClaim'
<1>1. Mbox \in Queues
  BY DEF Queues
<1>2. \A u \in P : u \in Tasks /\ Looks(u, "receive") /\ u \in ToSet(k.toReceive[Mbox])
  BY <1>1 DEF Ground, EventsOK, SleepsIn, Looks
<1>3. Receivers \cup P \subseteq Receivers' /\ Receivers \cap P = {}
  BY <1>2 DEF Receivers, KeepsTakers, Shorter
<1>4. P \subseteq Tasks
  BY <1>2
<1>5. Cardinality(P) \in Nat
  BY <1>4, SubsetCard
<1>6. Cardinality(Receivers) + Cardinality(P) <= Cardinality(Receivers')
  BY <1>3, ReceiversIn, ManyCard
<1>7. Posted \in Nat /\ q[Mbox].waiting \in Int /\ Posted' \in Nat /\ q'[Mbox].waiting \in Int
  BY MboxNumbers, NextNumbers
<1>8. ASSUME ToSet(k'.toReceive[Mbox]) # {}
      PROVE  q'[Mbox].waiting <= Cardinality(Receivers') + Posted'
  <2>1. q[Mbox].waiting <= Cardinality(Receivers) + Posted
    BY <1>8 DEF ReceiveClaim, Shorter
  <2> QED
    BY <1>5, <1>6, <1>7, <1>8, <2>1, ReceiversIn
<1> QED
  BY <1>8 DEF ReceiveClaim

(* The tasks of P are called out of the list of senders. *)
LEMMA JoinSend ==
  ASSUME Ground, Ground', SendClaim, KeepsTakers("send"), Shorter,
         NEW P, P \subseteq ToSet(k.toSend[Mbox]), P \cap ToSet(k'.toSend[Mbox]) = {},
         ToSet(k'.toSend[Mbox]) # {} => q[Mbox].waiting <= q'[Mbox].waiting + Cardinality(P)
  PROVE  SendClaim'
<1>1. Mbox \in Queues
  BY DEF Queues
<1>2. \A u \in P : u \in Tasks /\ Looks(u, "send") /\ u \in ToSet(k.toSend[Mbox])
  BY <1>1 DEF Ground, EventsOK, SleepsIn, Looks
<1>3. Senders \cup P \subseteq Senders' /\ Senders \cap P = {}
  BY <1>2 DEF Senders, KeepsTakers, Shorter
<1>4. P \subseteq Tasks
  BY <1>2
<1>5. Cardinality(P) \in Nat
  BY <1>4, SubsetCard
<1>6. Cardinality(Senders) + Cardinality(P) <= Cardinality(Senders')
  BY <1>3, SendersIn, ManyCard
<1>7. uxLength \in Int /\ q[Mbox].waiting \in Int /\ q'[Mbox].waiting \in Int
  BY MboxNumbers, NextNumbers
<1>8. ASSUME ToSet(k'.toSend[Mbox]) # {}
      PROVE  uxLength - q'[Mbox].waiting <= Cardinality(Senders')
  <2>1. uxLength - q[Mbox].waiting <= Cardinality(Senders)
    BY <1>8 DEF SendClaim, Shorter
  <2> QED
    BY <1>5, <1>6, <1>7, <1>8, <2>1, SendersIn
<1> QED
  BY <1>8 DEF SendClaim

(* A receiver takes an item and leaves. *)
LEMMA LeaveReceive ==
  ASSUME Ground, Ground', ReceiveClaim, NEW t \in Tasks, Others(t), Shorter,
         q'[Mbox].waiting = q[Mbox].waiting - 1, Posted' = Posted
  PROVE  ReceiveClaim'
<1>1. Receivers \subseteq Receivers' \cup {t}
  BY DEF Receivers, Looks, Others, Shorter
<1>2. Cardinality(Receivers) <= Cardinality(Receivers') + 1
  BY <1>1, ReceiversIn, LessCard
<1>3. Posted \in Nat /\ q[Mbox].waiting \in Int
  BY MboxNumbers
<1>4. ASSUME ToSet(k'.toReceive[Mbox]) # {}
      PROVE  q'[Mbox].waiting <= Cardinality(Receivers') + Posted'
  <2>1. q[Mbox].waiting <= Cardinality(Receivers) + Posted
    BY <1>4 DEF ReceiveClaim, Shorter
  <2> QED
    BY <1>2, <1>3, <2>1, ReceiversIn
<1> QED
  BY <1>4 DEF ReceiveClaim

(* A sender fills a place and leaves. *)
LEMMA LeaveSend ==
  ASSUME Ground, Ground', SendClaim, NEW t \in Tasks, Others(t), Shorter,
         q'[Mbox].waiting = q[Mbox].waiting + 1
  PROVE  SendClaim'
<1>1. Senders \subseteq Senders' \cup {t}
  BY DEF Senders, Looks, Others, Shorter
<1>2. Cardinality(Senders) <= Cardinality(Senders') + 1
  BY <1>1, SendersIn, LessCard
<1>3. uxLength \in Int /\ q[Mbox].waiting \in Int
  BY MboxNumbers
<1>4. ASSUME ToSet(k'.toSend[Mbox]) # {}
      PROVE  uxLength - q'[Mbox].waiting <= Cardinality(Senders')
  <2>1. uxLength - q[Mbox].waiting <= Cardinality(Senders)
    BY <1>4 DEF SendClaim, Shorter
  <2> QED
    BY <1>2, <1>3, <2>1, SendersIn
<1> QED
  BY <1>4 DEF SendClaim

(* The first of a list that is not empty is one task. *)
LEMMA FirstCard ==
  ASSUME NEW s, List(s), ToSet(s) # {}
  PROVE  First(s) \subseteq ToSet(s) /\ Cardinality(First(s)) = 1
<1>1. s # <<>>
  BY EmptyList
<1>2. First(s) = {Head(s)} /\ Head(s) \in ToSet(s)
  BY <1>1, HeadFacts DEF First
<1> QED
  BY <1>2, FS_Singleton

(* xQueueGenericSend keeps the claims: it posts an item and calls a receiver. *)
LEMMA ClaimsSend ==
  ASSUME Ground, Ground', ReceiveClaim, SendClaim, NEW t \in Tasks, SendEff(t, Mbox)
  PROVE  ReceiveClaim' /\ SendClaim'
<1>1. /\ task[t].fn = "send" /\ Mbox \in Queues /\ List(k.toReceive[Mbox]) /\ Others(t)
      /\ Woke(k, k', First(k.toReceive[Mbox]), {})
      /\ q'[Mbox].waiting = q[Mbox].waiting + 1 /\ q'[Mbox].txLock = q[Mbox].txLock
  BY RunsNow DEF SendEff, Counts, Leaves
<1>2. Shorter /\ ToSet(k'.toReceive[Mbox]) = ToSet(k.toReceive[Mbox]) \ First(k.toReceive[Mbox])
  BY <1>1, WokeShorter DEF Woke, Thinned
<1>3. KeepsTakers("receive")
  BY <1>1, OtherTakers DEF Looks
<1>4. Posted' = Posted
  BY <1>1 DEF Posted
<1>5. First(k.toReceive[Mbox]) \subseteq ToSet(k.toReceive[Mbox])
  BY <1>1, FirstFacts
<1>6. ASSUME ToSet(k'.toReceive[Mbox]) # {} PROVE Cardinality(First(k.toReceive[Mbox])) = 1
  BY <1>1, <1>2, <1>6, FirstCard
<1>7. q[Mbox].waiting \in Int /\ Posted \in Int
  BY MboxNumbers
<1>8. PICK P : P = First(k.toReceive[Mbox])
  OBVIOUS
<1>9. ToSet(k'.toReceive[Mbox]) # {} =>
        q'[Mbox].waiting - Posted' <= q[Mbox].waiting - Posted + Cardinality(P)
  BY <1>1, <1>4, <1>6, <1>7, <1>8
<1>10. ReceiveClaim'
  BY <1>2, <1>3, <1>5, <1>8, <1>9, JoinReceive
<1>11. SendClaim'
  BY <1>1, <1>2, LeaveSend
<1> QED
  BY <1>10, <1>11

(* xQueueGenericReceive keeps the claims: it frees a place and calls a sender. *)
LEMMA ClaimsReceive ==
  ASSUME Ground, Ground', ReceiveClaim, SendClaim, NEW t \in Tasks, ReceiveEff(t, Mbox)
  PROVE  ReceiveClaim' /\ SendClaim'
<1>1. /\ task[t].fn = "receive" /\ Mbox \in Queues /\ List(k.toSend[Mbox]) /\ Others(t)
      /\ Woke(k, k', First(k.toSend[Mbox]), {})
      /\ q'[Mbox].waiting = q[Mbox].waiting - 1 /\ q'[Mbox].txLock = q[Mbox].txLock
  BY RunsNow DEF ReceiveEff, Counts, Leaves
<1>2. Shorter /\ ToSet(k'.toSend[Mbox]) = ToSet(k.toSend[Mbox]) \ First(k.toSend[Mbox])
  BY <1>1, WokeShorter DEF Woke, Thinned
<1>3. KeepsTakers("send")
  BY <1>1, OtherTakers DEF Looks
<1>4. Posted' = Posted
  BY <1>1 DEF Posted
<1>5. First(k.toSend[Mbox]) \subseteq ToSet(k.toSend[Mbox])
  BY <1>1, FirstFacts
<1>6. ASSUME ToSet(k'.toSend[Mbox]) # {} PROVE Cardinality(First(k.toSend[Mbox])) = 1
  BY <1>1, <1>2, <1>6, FirstCard
<1>7. q[Mbox].waiting \in Int
  BY MboxNumbers
<1>8. PICK P : P = First(k.toSend[Mbox])
  OBVIOUS
<1>9. ToSet(k'.toSend[Mbox]) # {} => q[Mbox].waiting <= q'[Mbox].waiting + Cardinality(P)
  BY <1>1, <1>6, <1>7, <1>8
<1>10. SendClaim'
  BY <1>2, <1>3, <1>5, <1>8, <1>9, JoinSend
<1>11. ReceiveClaim'
  BY <1>1, <1>2, <1>4, LeaveReceive
<1> QED
  BY <1>10, <1>11

(* vTaskPlaceOnEventList keeps the claims: the queue was found blocked while it was *)
(* locked.                                                                          *)
LEMMA ClaimsPlace ==
  ASSUME Ground, Ground', ReceiveClaim, SendClaim, PlaceClaim, NEW t \in Tasks, PlaceEff(t, Mbox)
  PROVE  ReceiveClaim' /\ SendClaim'
<1>1. /\ task[t].fn \in {"send", "receive"} /\ Mbox \in Queues /\ q' = q
      /\ task[t].pc = "place" /\ task[t].x = Mbox
      /\ task[t].fn # "receive" => k'.toReceive[Mbox] = k.toReceive[Mbox]
      /\ task[t].fn = "receive" => k'.toSend[Mbox] = k.toSend[Mbox]
  BY DEF PlaceEff, Placed, At
<1>2. TaskEff(t)
  BY DEF TaskEff
<1>3. KeepsTakers("send") /\ KeepsTakers("receive")
  BY <1>1, <1>2, TakersStay
<1>4. Posted' = Posted
  BY <1>1 DEF Posted
<1>5. q[Mbox].waiting \in 0 .. uxLength /\ uxLength \in Nat /\ q[Mbox].txLock \in Int
  BY MboxNumbers
<1>6. CASE task[t].fn = "receive"
  <2>1. q[Mbox].waiting <= q[Mbox].txLock
    BY <1>1, <1>6 DEF PlaceClaim
  <2>2. q[Mbox].waiting <= Posted
    BY <1>5, <2>1 DEF Posted
  <2>3. q[Mbox].waiting <= Cardinality(Receivers') + Posted
    BY <1>5, <2>2, ReceiversIn, MboxNumbers
  <2>4. ReceiveClaim'
    BY <1>1, <1>4, <2>3 DEF ReceiveClaim
  <2>5. SendClaim'
    BY <1>1, <1>3, <1>5, <1>6, KeepsSend
  <2> QED
    BY <2>4, <2>5
<1>7. CASE task[t].fn = "send"
  <2>1. q'[Mbox].waiting = uxLength
    BY <1>1, <1>5, <1>7 DEF PlaceClaim
  <2>2. SendClaim'
    BY <2>1, FullSend
  <2>3. ReceiveClaim'
    BY <1>1, <1>3, <1>4, <1>7, KeepsReceive
  <2> QED
    BY <2>2, <2>3
<1> QED
  BY <1>1, <1>6, <1>7

(* prvUnlockQueue keeps the claims: it calls a receiver for every post the lock *)
(* counted.                                                                     *)
LEMMA ClaimsUnlock ==
  ASSUME Ground, Ground', ReceiveClaim, SendClaim, NEW t \in Tasks, NEW P, NEW m,
         UnlockTxEff(t, Mbox, P, m)
  PROVE  ReceiveClaim' /\ SendClaim'
<1>0. Mbox \in Queues /\ List(k.toReceive[Mbox])
  BY RunsNow DEF UnlockTxEff
<1>1. /\ task[t].pc = "unlockTx" /\ Woke(k, k', {}, P) /\ CalledOut(t, Mbox, P, m)
      /\ q'[Mbox].waiting = q[Mbox].waiting /\ q'[Mbox].txLock = -1
  BY DEF UnlockTxEff, Counts, Pends, At
<1>2. TaskEff(t)
  BY DEF TaskEff
<1>3. KeepsTakers("send") /\ KeepsTakers("receive")
  BY <1>1, <1>2, TakersStay
<1>4. Shorter /\ ToSet(k'.toReceive[Mbox]) = ToSet(k.toReceive[Mbox]) \ P
  BY <1>0, <1>1, WokeShorter DEF Woke, Thinned
<1>5. Posted' = 0
  BY <1>1 DEF Posted
<1>6. q[Mbox].waiting \in Int /\ q[Mbox].txLock \in Int
  BY MboxNumbers
<1>7. P \subseteq ToSet(k.toReceive[Mbox])
  BY <1>0, <1>1, CalledFacts
<1>8. Cardinality(P) = m /\ m \in Nat
  BY <1>0, <1>1, FirstOfCard DEF CalledOut
<1>9. ASSUME ToSet(k'.toReceive[Mbox]) # {} PROVE m = Posted
  <2>1. CASE q[Mbox].txLock <= 0
    BY <1>1, <1>6, <2>1 DEF CalledOut, Posted
  <2>2. CASE q[Mbox].txLock > 0
    <3>1. m # Len(k.toReceive[Mbox])
      <4> SUFFICES ASSUME m = Len(k.toReceive[Mbox]) PROVE FALSE
        OBVIOUS
      <4>1. P = {k.toReceive[Mbox][i] : i \in 1 .. Len(k.toReceive[Mbox])}
        BY <1>1 DEF CalledOut, FirstOf
      <4>2. ToSet(k.toReceive[Mbox]) \subseteq P
        BY <1>0, <4>1, ListIn, ToSetIs
      <4> QED
        BY <1>4, <1>9, <4>2
    <3> QED
      BY <1>1, <2>2, <3>1 DEF CalledOut, Posted
  <2> QED
    BY <1>6, <2>1, <2>2
<1>10. ToSet(k'.toReceive[Mbox]) # {} =>
        q'[Mbox].waiting - Posted' <= q[Mbox].waiting - Posted + Cardinality(P)
  BY <1>1, <1>5, <1>6, <1>8, <1>9
<1>11. P \cap ToSet(k'.toReceive[Mbox]) = {}
  BY <1>4
<1>12. ReceiveClaim'
  BY <1>3, <1>4, <1>7, <1>10, <1>11, JoinReceive
<1>13. SendClaim'
  BY <1>1, <1>3, <1>4, <1>6, KeepsSend DEF Shorter
<1> QED
  BY <1>12, <1>13

(* A step of a task keeps the claims. *)
LEMMA ClaimsKept ==
  ASSUME Ground, Ground', ReceiveClaim, SendClaim, PlaceClaim, NEW t \in Tasks, TaskEff(t)
  PROVE  ReceiveClaim' /\ SendClaim'
BY ClaimsCalm, ClaimsSend, ClaimsReceive, ClaimsPlace, ClaimsUnlock DEF MboxEff

-----------------------------------------------------------------------------
(* Interrupts. *)

(* An interrupt keeps the claims: it counts its post or calls a receiver. *)
LEMMA ClaimsIsr ==
  ASSUME Ground, Ground', ReceiveClaim, SendClaim, IsrEff
  PROVE  ReceiveClaim' /\ SendClaim'
<1> HIDE DEF Ground, ReceiveClaim, SendClaim
<1>0. task' = task
  BY DEF IsrEff, HoldEff, SwitchEff, MissEff, CountEff, QuietEff, TickEff, PostEff
<1>1. KeepsTakers("send") /\ KeepsTakers("receive")
  BY <1>0 DEF KeepsTakers, Looks
<1>2. q[Mbox].waiting \in Int /\ q[Mbox].txLock \in Int /\ q[Mbox].txLock >= -1
      /\ Posted \in Nat /\ Mbox \in Queues
  BY MboxNumbers
<1>3. ASSUME Shorter, q' = q PROVE ReceiveClaim' /\ SendClaim'
  <2>1. Posted' = Posted
    BY <1>3 DEF Posted
  <2> QED
    BY <1>1, <1>2, <1>3, <2>1, KeepsReceive, KeepsSend DEF Shorter
<1>4. ASSUME Shorter, q'[Mbox].waiting = q[Mbox].waiting + 1 PROVE SendClaim'
  BY <1>1, <1>2, <1>4, KeepsSend DEF Shorter
<1>5. CASE HoldEff \/ SwitchEff \/ MissEff
  <2>1. \E S, P : Woke(k, k', S, P)
    BY <1>5 DEF HoldEff, SwitchEff, MissEff, FlagStep, Switched
  <2> QED
    BY <1>3, <1>5, <2>1, WokeShorter DEF HoldEff, SwitchEff, MissEff
<1>6. ASSUME NEW S, TickEff(S) PROVE ReceiveClaim' /\ SendClaim'
  <2>1. \E R, P : Woke(k, k', R, P)
    BY <1>6 DEF TickEff, Ticked
  <2> QED
    BY <1>3, <1>6, <2>1, WokeShorter DEF TickEff
<1>7. CASE CountEff
  <2>1. /\ Shorter /\ q'[Mbox].waiting = q[Mbox].waiting + 1 /\ q[Mbox].txLock # -1
        /\ q'[Mbox].txLock = q[Mbox].txLock + 1
    BY <1>7 DEF CountEff, Counts, Shorter
  <2>2. Posted' = Posted + 1
    BY <1>2, <2>1 DEF Posted
  <2>3. Cardinality({}) = 0
    BY FS_EmptySet
  <2>4. q'[Mbox].waiting - Posted' <= q[Mbox].waiting - Posted + Cardinality({})
    BY <1>2, <2>1, <2>2, <2>3
  <2>5. ReceiveClaim'
    BY <1>1, <2>1, <2>4, JoinReceive
  <2> QED
    BY <1>4, <2>1, <2>5
<1>8. CASE QuietEff
  <2>1. Shorter /\ q'[Mbox].waiting = q[Mbox].waiting + 1 /\ k'.toReceive[Mbox] = <<>>
    BY <1>8 DEF QuietEff, Counts, Shorter
  <2>2. ToSet(k'.toReceive[Mbox]) = {}
    BY <2>1, EmptyList
  <2>3. ReceiveClaim'
    BY <2>2 DEF ReceiveClaim
  <2> QED
    BY <1>4, <2>1, <2>3
<1>9. ASSUME NEW h, NEW S, NEW P, PostEff(h, S, P) PROVE ReceiveClaim' /\ SendClaim'
  <2>1. /\ q'[Mbox].waiting = q[Mbox].waiting + 1 /\ q'[Mbox].txLock = q[Mbox].txLock
        /\ Woke(k, k', S, P) /\ h \in ToSet(k.toReceive[Mbox]) /\ h \in S \cup P
    BY <1>9 DEF PostEff, Counts
  <2>2. Shorter /\ h \notin ToSet(k'.toReceive[Mbox])
    BY <1>2, <2>1, WokeShorter DEF Woke, Thinned
  <2>3. Posted' = Posted
    BY <2>1 DEF Posted
  <2>4. Cardinality({h}) = 1
    BY FS_Singleton
  <2>5. q'[Mbox].waiting - Posted' <= q[Mbox].waiting - Posted + Cardinality({h})
    BY <1>2, <2>1, <2>3, <2>4
  <2>6. {h} \subseteq ToSet(k.toReceive[Mbox]) /\ {h} \cap ToSet(k'.toReceive[Mbox]) = {}
    BY <2>1, <2>2
  <2>7. ReceiveClaim'
    BY <1>1, <2>2, <2>5, <2>6, JoinReceive
  <2> QED
    BY <1>4, <2>1, <2>2, <2>7
<1> QED
  BY <1>5, <1>6, <1>7, <1>8, <1>9 DEF IsrEff

(* A task comes to the place of its wait from the test of the queue, or of the mutex. *)
LEMMA ToPlace ==
  ASSUME Ground, NEW t \in Tasks, TaskEff(t), task'[t].pc = "place", task'[t].x = Mbox
  PROVE  TestEff(t)
<1>1. \A h : ~InheritEff(t, h)
  BY DEF InheritEff, Goes, Waits
<1> QED
  BY <1>1 DEF TaskEff, BeginEff, BeginsAs, RefuseEff, Leaves, EnterEff, SuspendEff, DelayEff, CheckEff,
     SendEff, ReceiveEff, LockEff, PlaceEff, UnlockRxEff, UnlockTxEff, ResumeEff, YieldEff, Goes

(* A step of a task keeps PlaceClaim. *)
LEMMA PlaceKept ==
  ASSUME Ground, Ground', NEW t \in Tasks, TaskEff(t)
  PROVE  PlaceClaim'
<1> SUFFICES ASSUME NEW u \in Tasks, task'[u].pc = "place", task'[u].x = Mbox
             PROVE  /\ task'[u].fn = "receive" => q'[Mbox].waiting <= q'[Mbox].txLock
                    /\ task'[u].fn = "send" => q'[Mbox].waiting >= uxLength
  BY DEF PlaceClaim
<1>1. u = t
  <2>1. k'.cur = t
    BY CurSame
  <2>2. u = k'.cur
    BY DEF Ground, SuspOK, SuspendedPcs
  <2> QED
    BY <2>1, <2>2
<1>2. TestEff(t)
  BY <1>1, ToPlace
<1>3. /\ q' = q /\ task[t].pc = "test" /\ Blocked(t) /\ task[t].x = Mbox
      /\ task'[t].fn = task[t].fn
  BY <1>1, <1>2 DEF TestEff, Goes, At
<1>4. q[Mbox].txLock >= 0 /\ q[Mbox].waiting \in 0 .. uxLength /\ uxLength \in Nat /\ Length(Mbox) = uxLength
  BY <1>3, MboxNumbers DEF Ground, LocksOK, LockPcs, Length
<1> QED
  BY <1>1, <1>3, <1>4 DEF Blocked

(* An interrupt keeps PlaceClaim: while the mailbox is locked its posts are counted. *)
LEMMA PlaceIsr ==
  ASSUME Ground, Ground', PlaceClaim, IsrEff
  PROVE  PlaceClaim'
<1>0. task' = task
  BY DEF IsrEff, HoldEff, SwitchEff, MissEff, CountEff, QuietEff, TickEff, PostEff
<1> SUFFICES ASSUME NEW u \in Tasks, task[u].pc = "place", task[u].x = Mbox
             PROVE  /\ task[u].fn = "receive" => q'[Mbox].waiting <= q'[Mbox].txLock
                    /\ task[u].fn = "send" => q'[Mbox].waiting >= uxLength
  BY <1>0 DEF PlaceClaim
<1>1. /\ task[u].fn = "receive" => q[Mbox].waiting <= q[Mbox].txLock
      /\ task[u].fn = "send" => q[Mbox].waiting >= uxLength
  BY DEF PlaceClaim
<1>2. q[Mbox].txLock >= 0
  BY DEF Ground, LocksOK, LockPcs
<1>3. q[Mbox].waiting \in Int /\ q[Mbox].txLock \in Int /\ uxLength \in Int
  BY MboxNumbers
<1>4. CASE q' = q
  BY <1>1, <1>4
<1>5. CASE CountEff
  <2>1. q'[Mbox].waiting = q[Mbox].waiting + 1 /\ q'[Mbox].txLock = q[Mbox].txLock + 1
    BY <1>5 DEF CountEff, Counts
  <2> QED
    BY <1>1, <1>3, <2>1
<1>6. q' = q \/ CountEff
  <2>1. q[Mbox].txLock # -1
    BY <1>2
  <2> QED
    BY <2>1 DEF IsrEff, HoldEff, SwitchEff, MissEff, QuietEff, TickEff, PostEff
<1> QED
  BY <1>4, <1>5, <1>6

-----------------------------------------------------------------------------

(* Every step keeps Claimed. *)
LEMMA ClaimedStep ==
  ASSUME Claimed, Next
  PROVE  Claimed'
<1>0. Scheduled /\ Ground /\ ReceiveClaim /\ SendClaim /\ PlaceClaim
  BY DEF Claimed, Scheduled, Base
<1>1. Scheduled'
  BY <1>0, ScheduledStep
<1>2. Ground'
  BY <1>1 DEF Scheduled, Base
<1>3. IsrEff \/ \E t \in Tasks : TaskEff(t)
  BY <1>0, NextEff
<1>4. CASE IsrEff
  BY <1>0, <1>1, <1>2, <1>4, ClaimsIsr, PlaceIsr DEF Claimed
<1>5. ASSUME NEW t \in Tasks, TaskEff(t) PROVE Claimed'
  BY <1>0, <1>1, <1>2, <1>5, ClaimsKept, PlaceKept DEF Claimed
<1> QED
  BY <1>3, <1>4, <1>5

(* A stuttering step keeps Claimed. *)
LEMMA ClaimedSame ==
  ASSUME Claimed, UNCHANGED vars
  PROVE  Claimed'
<1>1. k' = k /\ q' = q /\ task' = task
  BY DEF vars
<1>2. Scheduled'
  BY ScheduledSame DEF Claimed
<1>3. ReceiveClaim' /\ SendClaim' /\ PlaceClaim'
  BY <1>1 DEF Claimed, ReceiveClaim, SendClaim, PlaceClaim, Receivers, Senders, Looks, Posted
<1> QED
  BY <1>2, <1>3 DEF Claimed

(* Claimed holds initially. *)
LEMMA InitClaimed ==
  ASSUME Init
  PROVE  Claimed
<1>1. Scheduled
  BY InitScheduled
<1>2. ToSet(k.toReceive[Mbox]) = {} /\ ToSet(k.toSend[Mbox]) = {}
  BY EmptyList DEF Init, Queues
<1>3. \A t \in Tasks : task[t].pc = "app"
  BY DEF Init
<1> QED
  BY <1>1, <1>2, <1>3 DEF Claimed, ReceiveClaim, SendClaim, PlaceClaim

(* Every item in the mailbox that a task sleeps for has an awake task that will take *)
(* it, or a count of the lock stands for it, and every free place that a task sleeps *)
(* for has an awake task that will fill it (prvLockQueue, prvUnlockQueue and         *)
(* xQueueGenericSendFromISR).                                                        *)
THEOREM ClaimedInvariant == Spec => []Claimed
<1>1. Init => Claimed
  BY InitClaimed
<1>2. Claimed /\ [Next]_vars => Claimed'
  BY ClaimedStep, ClaimedSame
<1> QED
  BY <1>1, <1>2, PTL DEF Spec

(* Who looks at the mailbox again is in a call. *)
LEMMA LooksAwake ==
  ASSUME Ground
  PROVE  /\ Cardinality(Receivers) <= Cardinality(Awake("receive", Mbox, k.toReceive[Mbox]))
         /\ Cardinality(Senders) <= Cardinality(Awake("send", Mbox, k.toSend[Mbox]))
<1>1. Receivers \subseteq Awake("receive", Mbox, k.toReceive[Mbox])
  BY DEF Receivers, Awake, Looks, Waits, AsleepPcs
<1>2. Senders \subseteq Awake("send", Mbox, k.toSend[Mbox])
  BY DEF Senders, Awake, Looks, Waits, AsleepPcs
<1>3. /\ Awake("receive", Mbox, k.toReceive[Mbox]) \subseteq Tasks
      /\ Awake("send", Mbox, k.toSend[Mbox]) \subseteq Tasks
  BY DEF Awake
<1> QED
  BY <1>1, <1>2, <1>3, MoreCard

(* The task that is about to take the free mutex is awake. *)
LEMMA MutexTaker ==
  ASSUME Ground, Handover, ToSet(k.toReceive[Mutex]) # {}
  PROVE  q[Mutex].waiting <= Cardinality(Awake("receive", Mutex, k.toReceive[Mutex]))
<1> DEFINE A == Awake("receive", Mutex, k.toReceive[Mutex])
<1>1. A \subseteq Tasks
  BY DEF Awake
<1>2. Cardinality(A) \in Nat
  BY <1>1, SubsetCard
<1>3. CASE q[Mutex].holder # Nothing
  <2>1. q[Mutex].waiting = 0
    BY <1>3 DEF Ground, MutexOK
  <2> QED
    BY <1>2, <2>1
<1>4. CASE q[Mutex].holder = Nothing
  <2>1. q[Mutex].waiting = 1
    BY <1>4 DEF Ground, MutexOK
  <2>2. PICK w \in Tasks : Waits(w, "receive", Mutex) /\ Ready(k, w)
    BY <1>4 DEF Handover
  <2>3. w \notin ToSet(k.toReceive[Mutex]) /\ ~task[w].expired
    BY <2>2, NotInLists DEF Ground, MutexOK, Queues
  <2>4. {} \cup {w} \subseteq A
    BY <2>2, <2>3 DEF Awake
  <2>5. Cardinality({}) + 1 <= Cardinality(A)
    BY <1>1, <2>4, OneCard
  <2> QED
    BY <1>2, <2>1, <2>5, FS_EmptySet
<1> QED
  BY <1>3, <1>4

(* Nobody sleeps to release the mutex. *)
LEMMA NoMutexSender ==
  ASSUME Ground
  PROVE  ToSet(k.toSend[Mutex]) = {}
<1> SUFFICES ASSUME NEW t \in ToSet(k.toSend[Mutex]) PROVE FALSE
  OBVIOUS
<1>1. SleepsIn(t, "send", Mutex)
  BY DEF Ground, EventsOK, Queues
<1>2. t \in Tasks /\ Waits(t, "send", Mutex) /\ ~Ready(k, t)
  BY <1>1 DEF SleepsIn, Waits, AsleepPcs
<1> QED
  BY <1>2 DEF Ground, MutexOK

(* No wake-up is lost: while the event lists of a queue are open, a task sleeps for an *)
(* item only if every item has an awake task to take it, and likewise for places,      *)
(* whenever interrupts post between the steps of the tasks (the lock counts of         *)
(* prvLockQueue and prvUnlockQueue), for any number of tasks and any length of the     *)
(* mailbox.                                                                            *)
THEOREM NoLostWakeupTheorem == Spec => []NoLostWakeup
<1>1. Claimed => NoLostWakeup
  <2> SUFFICES ASSUME Claimed PROVE NoLostWakeup
    OBVIOUS
  <2>1. Ground /\ Handover /\ ReceiveClaim /\ SendClaim
    BY DEF Claimed, Scheduled, Base, Ranks
  <2>2. \A x \in Queues : /\ k.toReceive[x] # <<>> => ToSet(k.toReceive[x]) # {}
                          /\ k.toSend[x] # <<>> => ToSet(k.toSend[x]) # {}
    BY <2>1, ListIn, ToSetIs DEF Ground, Shape, ListsOK
  <2>3. ASSUME q[Mbox].txLock = queueUNLOCKED, k.toReceive[Mbox] # <<>>
        PROVE  q[Mbox].waiting <= Cardinality(Awake("receive", Mbox, k.toReceive[Mbox]))
    <3>1. Posted = 0
      BY <2>3 DEF Posted, queueUNLOCKED
    <3>2. q[Mbox].waiting <= Cardinality(Receivers) + Posted
      BY <2>1, <2>2, <2>3 DEF ReceiveClaim, Queues
    <3>3. q[Mbox].waiting \in Int /\ Cardinality(Awake("receive", Mbox, k.toReceive[Mbox])) \in Nat
      BY <2>1, MboxNumbers, SubsetCard DEF Awake
    <3> QED
      BY <2>1, <3>1, <3>2, <3>3, LooksAwake, ReceiversIn
  <2>4. ASSUME k.toSend[Mbox] # <<>>
        PROVE  uxLength - q[Mbox].waiting <= Cardinality(Awake("send", Mbox, k.toSend[Mbox]))
    <3>1. uxLength - q[Mbox].waiting <= Cardinality(Senders)
      BY <2>1, <2>2, <2>4 DEF SendClaim, Queues
    <3>2. /\ q[Mbox].waiting \in Int /\ uxLength \in Int
          /\ Cardinality(Awake("send", Mbox, k.toSend[Mbox])) \in Nat
      BY <2>1, MboxNumbers, SubsetCard DEF Awake
    <3> QED
      BY <2>1, <3>1, <3>2, LooksAwake, SendersIn
  <2>5. k.toReceive[Mutex] # <<>> =>
          q[Mutex].waiting <= Cardinality(Awake("receive", Mutex, k.toReceive[Mutex]))
    BY <2>1, <2>2, MutexTaker DEF Queues
  <2>6. k.toSend[Mutex] = <<>>
    BY <2>1, <2>2, NoMutexSender DEF Queues
  <2> QED
    BY <2>3, <2>4, <2>5, <2>6 DEF NoLostWakeup, Queues, Length
<1> QED
  BY <1>1, ClaimedInvariant, PTL
=============================================================================
