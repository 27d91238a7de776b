---------------------------- MODULE NetIf_proofs ----------------------------
(***************************************************************************)
(* Proofs about NetIf, for every size of the mailbox, every number of      *)
(* polls, and every pool of callback messages that is at least two larger  *)
(* than the mailbox.                                                       *)
(***************************************************************************)
EXTENDS NetIf, FiniteSetTheorems, FunctionTheorems, SequenceTheorems, TLAPS

Message == {"up", "down", "ooseq", "other"}

(* The places of a sequence of messages that hold one from the API pool,   *)
(* and how many there are.                                                 *)
Places(s) == {i \in 1 .. Len(s) : s[i] # "other"}
Count(s) == Cardinality(Places(s))

(* How many messages the monitor has allocated and not yet posted. *)
InHand == IF mon = "post" THEN 1 ELSE 0

(* Every callback message is in the pool, in the mailbox, in the thread's  *)
(* hands or in the monitor's.                                              *)
PoolExact ==
  apiFree + Count(mbox) + Count(msg) + InHand = MEMP_NUM_TCPIP_MSG_API

(* The Boolean part of the types. *)
Flags ==
  /\ done \in BOOLEAN /\ hold \in BOOLEAN /\ resetting \in BOOLEAN
  /\ autoDone \in BOOLEAN /\ link \in BOOLEAN /\ full \in BOOLEAN
  /\ macFull \in BOOLEAN /\ irqEnabled \in BOOLEAN /\ linkFlag \in BOOLEAN

(* The inductive invariant. *)
IInv == TypeOK /\ PoolExact

USE ToutAssumption, MboxAssumption, ApiAssumption

-----------------------------------------------------------------------------
(* The count of a sequence is a number that is at most its length. *)
LEMMA CountType ==
  ASSUME NEW s \in Seq(Message)
  PROVE  /\ IsFiniteSet(Places(s))
         /\ Count(s) \in Nat
         /\ Count(s) <= Len(s)
<1>1. IsFiniteSet(1 .. Len(s)) /\ Cardinality(1 .. Len(s)) = Len(s)
  <2>1. Len(s) \in Nat
    OBVIOUS
  <2>2. /\ IsFiniteSet(1 .. Len(s))
        /\ Cardinality(1 .. Len(s)) = IF 1 > Len(s) THEN 0 ELSE Len(s) - 1 + 1
    BY <2>1, FS_Interval
  <2>3. QED
    BY <2>1, <2>2
<1>2. Places(s) \in SUBSET (1 .. Len(s))
  BY DEF Places
<1>3. IsFiniteSet(Places(s)) /\ Cardinality(Places(s)) <= Len(s)
  BY <1>1, <1>2, FS_Subset
<1>4. QED
  BY <1>3, FS_CardinalityType DEF Count

(* The empty sequence has none. *)
LEMMA CountEmpty == Count(<<>>) = 0
<1>1. Places(<<>>) = {}
  BY DEF Places
<1>2. QED
  BY <1>1, FS_EmptySet DEF Count

(* Appending a message adds one if it is from the pool. *)
LEMMA CountAppend ==
  ASSUME NEW s \in Seq(Message), NEW m \in Message
  PROVE  Count(Append(s, m)) = Count(s) + IF m = "other" THEN 0 ELSE 1
<1>1. CASE m = "other"
  <2>1. Places(Append(s, m)) = Places(s)
    BY <1>1 DEF Places
  <2>2. QED
    BY <1>1, <2>1, CountType DEF Count
<1>2. CASE m # "other"
  <2>1. Places(Append(s, m)) = Places(s) \cup {Len(s) + 1}
    BY <1>2 DEF Places
  <2>2. Len(s) + 1 \notin Places(s)
    BY DEF Places
  <2>3. IsFiniteSet(Places(s))
    BY CountType
  <2>4. Cardinality(Places(s) \cup {Len(s) + 1}) = Cardinality(Places(s)) + 1
    BY <2>2, <2>3, FS_AddElement
  <2>5. QED
    BY <1>2, <2>1, <2>4 DEF Count
<1>3. QED
  BY <1>1, <1>2

(* Taking the first message away removes one if it is from the pool. *)
LEMMA CountTail ==
  ASSUME NEW s \in Seq(Message), s # <<>>
  PROVE  Count(s) = Count(Tail(s)) + IF Head(s) = "other" THEN 0 ELSE 1
<1> DEFINE T == Places(Tail(s))
           R == Places(s) \ {1}
           f == [i \in T |-> i + 1]
<1>1. /\ Tail(s) \in Seq(Message)
      /\ Len(Tail(s)) = Len(s) - 1
      /\ \A i \in 1 .. Len(Tail(s)) : Tail(s)[i] = s[i + 1]
  OBVIOUS
<1>2. f \in [T -> R]
  BY <1>1 DEF Places
<1>3. \A a, b \in T : f[a] = f[b] => a = b
  BY DEF Places
<1>4. \A t \in R : \E a \in T : f[a] = t
  <2> SUFFICES ASSUME NEW t \in R
               PROVE  \E a \in T : f[a] = t
    OBVIOUS
  <2>1. t \in 2 .. Len(s) /\ s[t] # "other"
    BY DEF Places
  <2>2. t - 1 \in 1 .. Len(Tail(s)) /\ Tail(s)[t - 1] = s[t]
    BY <1>1, <2>1
  <2>3. t - 1 \in T
    BY <2>1, <2>2 DEF Places
  <2>4. QED
    BY <2>1, <2>3
<1>5. ExistsBijection(T, R)
  <2>1. f \in Bijection(T, R)
    BY <1>2, <1>3, <1>4, Fun_IsBij
  <2>2. QED
    BY <2>1 DEF ExistsBijection
<1>6. IsFiniteSet(T)
  BY <1>1, CountType
<1>7. Cardinality(R) = Cardinality(T)
  BY <1>5, <1>6, FS_Bijection
<1>8. Cardinality(R) = IF 1 \in Places(s) THEN Cardinality(Places(s)) - 1
                                          ELSE Cardinality(Places(s))
  BY CountType, FS_RemoveElement
<1>9. 1 \in Places(s) <=> Head(s) # "other"
  BY DEF Places
<1>10. Cardinality(Places(s)) \in Nat /\ Cardinality(T) \in Nat
  BY <1>1, CountType DEF Count
<1>11. QED
  BY <1>7, <1>8, <1>9, <1>10 DEF Count

(* The count of the one message the thread handles. *)
LEMMA CountOne ==
  ASSUME NEW s \in Seq(Message), s # <<>>, Len(s) <= 1
  PROVE  Count(s) = IF s[1] = "other" THEN 0 ELSE 1
<1>1. Len(s) \in Nat /\ Len(s) > 0
  BY EmptySeq
<1>2. Len(s) = 1
  <2>1. \A n \in Nat : n > 0 /\ n <= 1 => n = 1
    OBVIOUS
  <2>2. QED
    BY <1>1, <2>1
<1>3. Places(s) = IF s[1] = "other" THEN {} ELSE {1}
  BY <1>2 DEF Places
<1>4. QED
  BY <1>3, FS_EmptySet, FS_Singleton DEF Count

-----------------------------------------------------------------------------
(* What a register of the PHY returns is a set of bits. *)
LEMMA RegBitsType ==
  ASSUME TypeOK, NEW r \in Register, NEW v \in RegBits(r)
  PROVE  v \in SUBSET Bit
BY DEF TypeOK, Register, RegBits, Bit

(* A poll of the PHY keeps types and changes nothing but the thread's      *)
(* place, its counter and the MII registers.                               *)
LEMMA PollStep ==
  ASSUME TypeOK, PollReset \/ PollAuto \/ PollLink
  PROVE  /\ TypeOK'
         /\ UNCHANGED <<queueVars, monVars, linkFlag>>
<1>1. CASE PollReset
  <2>1. MRDD' \in SUBSET Bit /\ MADR' \in Register
    BY <1>1, RegBitsType
       DEF PollReset, Poll, read_PHY, TypeOK, Register, miiVars
  <2>2. QED
    BY <1>1, <2>1
       DEF PollReset, Poll, CountPoll, TypeOK, cableVars, phyVars, miiVars,
           emacVars, queueVars, monVars
<1>2. CASE PollAuto
  <2>1. MRDD' \in SUBSET Bit /\ MADR' \in Register
    BY <1>2, RegBitsType
       DEF PollAuto, Poll, read_PHY, TypeOK, Register, miiVars
  <2>2. QED
    BY <1>2, <2>1
       DEF PollAuto, Poll, CountPoll, TypeOK, cableVars, phyVars, miiVars,
           emacVars, queueVars, monVars
<1>3. CASE PollLink
  <2>1. MRDD' \in SUBSET Bit /\ MADR' \in Register
    BY <1>3, RegBitsType
       DEF PollLink, Poll, read_PHY, TypeOK, Register, miiVars
  <2>2. QED
    BY <1>3, <2>1
       DEF PollLink, Poll, CountPoll, TypeOK, cableVars, phyVars, miiVars,
           emacVars, queueVars, monVars
<1>4. QED
  BY <1>1, <1>2, <1>3

(* Every action keeps the types. *)
LEMMA TypeStep ==
  ASSUME TypeOK, PoolExact, [Next]_vars
  PROVE  TypeOK'
<1> USE DEF TypeOK
<1>1. CASE Plug
  BY <1>1
     DEF Plug, Register, cableVars, phyVars, miiVars, emacVars, queueVars,
         monVars
<1>2. CASE Configure
  BY <1>2
     DEF Configure, Register, cableVars, phyVars, miiVars, emacVars, queueVars,
         monVars
<1>3. CASE PhyStep
  <2>1. Flags'
    BY <1>3, Zenon
       DEF PhyStep, Flags, cableVars, phyVars, miiVars, emacVars, queueVars,
           monVars
  <2>2. QED
    BY <1>3, <2>1
       DEF PhyStep, Flags, Register, cableVars, phyVars, miiVars, emacVars,
           queueVars, monVars
<1>4. CASE StartInit
  <2>1. Flags'
    BY <1>4, Zenon
       DEF StartInit, Flags, cableVars, phyVars, miiVars, emacVars, queueVars,
           monVars
  <2>2. QED
    BY <1>4, <2>1
       DEF StartInit, Flags, Register, cableVars, phyVars, miiVars, emacVars,
           queueVars, monVars
<1>5. CASE StartNoMemory
  BY <1>5
     DEF StartNoMemory, Register, cableVars, phyVars, miiVars, emacVars,
         queueVars, monVars
<1>6. CASE ResetPhy
  <2>1. Flags'
    BY <1>6, Zenon
       DEF ResetPhy, Flags, cableVars, phyVars, miiVars, emacVars, queueVars,
           monVars
  <2>2. QED
    BY <1>6, <2>1
       DEF ResetPhy, Flags, Register, cableVars, phyVars, miiVars, emacVars,
           queueVars, monVars
<1>7. CASE PollReset \/ PollAuto \/ PollLink
  BY <1>7, PollStep
<1>8. CASE Wake
  BY <1>8 DEF Wake, cableVars, phyVars, miiVars, emacVars, queueVars, monVars
<1>9. CASE EMAC_UpdatePHYStatus
  BY <1>9
     DEF EMAC_UpdatePHYStatus, cableVars, phyVars, miiVars, emacVars,
         queueVars, monVars
<1>10. CASE EMAC_SetPHYMode
  <2>1. MRDD' \in SUBSET Bit /\ MADR' \in Register
    BY <1>10, RegBitsType DEF EMAC_SetPHYMode, read_PHY, Register
  <2>2. QED
    BY <1>10, <2>1
       DEF EMAC_SetPHYMode, cableVars, phyVars, miiVars, emacVars, queueVars,
           monVars
<1>11. CASE FinishInit
  <2>1. MRDD' \in SUBSET Bit /\ MADR' \in Register
    BY <1>11, RegBitsType DEF FinishInit, read_PHY, Register
  <2>2. QED
    BY <1>11, <2>1
       DEF FinishInit, cableVars, phyVars, miiVars, emacVars, queueVars,
           monVars
<1>12. CASE Handle
  <2>1. Head(mbox) \in Message /\ Tail(mbox) \in Seq(Message)
          /\ Len(Tail(mbox)) <= TCPIP_MBOX_SIZE
    BY <1>12 DEF Handle, Message
  <2>2. linkFlag' \in BOOLEAN
    BY <1>12, Zenon DEF Handle
  <2>3. msg' \in Seq(Message) /\ Len(msg') <= 1
    BY <1>12, <2>1 DEF Handle
  <2>4. /\ UNCHANGED <<cableVars, phyVars, miiVars, tc, tout, emacVars>>
        /\ UNCHANGED <<apiFree, tcpipdone, monVars>>
        /\ mbox' = Tail(mbox)
    BY <1>12 DEF Handle
  <2>5. QED
    BY <2>1, <2>2, <2>3, <2>4
       DEF Message, cableVars, phyVars, miiVars, emacVars, queueVars, monVars
<1>13. CASE FreeMessage
  <2>1. Count(msg) = IF msg[1] = "other" THEN 0 ELSE 1
    <3>1. msg \in Seq(Message) /\ msg # <<>> /\ Len(msg) <= 1
      BY <1>13 DEF FreeMessage, Message
    <3>2. QED
      BY <3>1, CountOne
  <2>2. /\ Count(mbox) \in Nat
        /\ apiFree + Count(mbox) + Count(msg) <= MEMP_NUM_TCPIP_MSG_API
    BY <2>1, CountType DEF PoolExact, InHand, Message
  <2>3. apiFree' \in 0 .. MEMP_NUM_TCPIP_MSG_API
    BY <1>13, <2>1, <2>2 DEF FreeMessage
  <2>4. QED
    BY <1>13, <2>3
       DEF FreeMessage, cableVars, phyVars, miiVars, emacVars, queueVars,
           monVars
<1>14. CASE PostOther
  <2>1. mbox \in Seq(Message) /\ "other" \in Message /\ "ooseq" \in Message
    BY DEF Message
  <2>2. mbox' \in Seq(Message) /\ Len(mbox') <= TCPIP_MBOX_SIZE
    BY <1>14, <2>1 DEF PostOther, MboxHasRoom
  <2>3. apiFree' \in 0 .. MEMP_NUM_TCPIP_MSG_API
    BY <1>14 DEF PostOther
  <2>4. QED
    BY <1>14, <2>2, <2>3
       DEF PostOther, Message, cableVars, phyVars, miiVars, emacVars,
           queueVars, monVars
<1>15. CASE StartMonitor
  BY <1>15
     DEF StartMonitor, Register, cableVars, phyVars, miiVars, emacVars,
         queueVars, monVars
<1>16. CASE SetAddress
  BY <1>16
     DEF SetAddress, Register, cableVars, phyVars, miiVars, emacVars,
         queueVars, monVars
<1>17. CASE ReadCommand
  <2>1. MRDD' \in SUBSET Bit
    BY <1>17, RegBitsType DEF ReadCommand
  <2>2. QED
    BY <1>17, <2>1
       DEF ReadCommand, cableVars, phyVars, miiVars, emacVars, queueVars,
           monVars
<1>18. CASE TakeStatus
  BY <1>18
     DEF TakeStatus, cableVars, phyVars, miiVars, emacVars, queueVars, monVars
<1>19. CASE Compare
  BY <1>19
     DEF Compare, NewPrev, cableVars, phyVars, miiVars, emacVars, queueVars,
         monVars
<1>20. CASE Post
  BY <1>20
     DEF Post, MboxHasRoom, cableVars, phyVars, miiVars, emacVars, queueVars,
         monVars
<1>21. CASE EndSleep
  BY <1>21
     DEF EndSleep, cableVars, phyVars, miiVars, emacVars, queueVars, monVars
<1>22. CASE Blink
  <2>1. Flags'
    BY <1>22, Zenon
       DEF Blink, Flags, cableVars, phyVars, miiVars, emacVars, queueVars,
           monVars
  <2>2. QED
    BY <1>22, <2>1
       DEF Blink, Flags, cableVars, phyVars, miiVars, emacVars, queueVars,
           monVars
<1>23. CASE UNCHANGED vars
  BY <1>23 DEF vars
<1>24. QED
  BY <1>1, <1>2, <1>3, <1>4, <1>5, <1>6, <1>7, <1>8, <1>9, <1>10, <1>11,
     <1>12, <1>13, <1>14, <1>15, <1>16, <1>17, <1>18, <1>19, <1>20, <1>21,
     <1>22, <1>23
     DEF Next, Tcpip, Monitor

(* Every action keeps the account of the callback messages. *)
LEMMA PoolStep ==
  ASSUME TypeOK, PoolExact, [Next]_vars
  PROVE  PoolExact'
<1> USE DEF PoolExact, InHand
<1>1. mbox \in Seq(Message) /\ msg \in Seq(Message)
  BY DEF TypeOK, Message
<1>2. /\ Count(mbox) \in Nat /\ Count(msg) \in Nat
      /\ apiFree \in Nat
  BY <1>1, CountType DEF TypeOK
<1>3. CASE Handle
  <2>1. mbox # <<>> /\ Head(mbox) \in Message
    BY <1>1, <1>3 DEF Handle
  <2>2. Count(mbox) = Count(mbox') + IF Head(mbox) = "other" THEN 0 ELSE 1
    BY <1>1, <1>3, <2>1, CountTail DEF Handle
  <2>3. Count(msg') = IF Head(mbox) = "other" THEN 0 ELSE 1
    <3>1. /\ msg' \in Seq(Message)
          /\ msg' # <<>> /\ Len(msg') <= 1
          /\ msg'[1] = Head(mbox)
      BY <1>3, <2>1 DEF Handle
    <3>2. QED
      BY <3>1, CountOne
  <2>4. Count(msg) = 0 /\ Count(mbox') \in Nat
    <3>1. mbox' \in Seq(Message)
      BY <1>1, <1>3, <2>1 DEF Handle
    <3>2. QED
      BY <1>3, <3>1, CountEmpty, CountType DEF Handle
  <2>5. QED
    BY <1>2, <1>3, <2>2, <2>3, <2>4 DEF Handle, monVars
<1>4. CASE FreeMessage
  <2>1. Count(msg) = IF msg[1] = "other" THEN 0 ELSE 1
    <3>1. msg # <<>> /\ Len(msg) <= 1
      BY <1>4 DEF FreeMessage, TypeOK
    <3>2. QED
      BY <1>1, <3>1, CountOne
  <2>2. QED
    BY <1>2, <1>4, <2>1, CountEmpty DEF FreeMessage, monVars
<1>5. CASE PostOther
  <2>1. /\ Count(Append(mbox, "other")) = Count(mbox)
        /\ Count(Append(mbox, "ooseq")) = Count(mbox) + 1
    BY <1>1, <1>2, CountAppend DEF Message
  <2>2. CASE mbox' = Append(mbox, "other") /\ UNCHANGED apiFree
    BY <1>2, <1>5, <2>1, <2>2 DEF PostOther, monVars
  <2>3. CASE mbox' = Append(mbox, "ooseq") /\ apiFree' = apiFree - 1
    BY <1>2, <1>5, <2>1, <2>3 DEF PostOther, monVars
  <2>4. QED
    BY <1>5, <2>2, <2>3 DEF PostOther
<1>6. CASE Compare
  BY <1>2, <1>6 DEF Compare
<1>7. CASE Post
  <2>1. Count(mbox') = Count(mbox) + 1
    BY <1>1, <1>2, <1>7, CountAppend DEF Post, Message
  <2>2. QED
    BY <1>2, <1>7, <2>1 DEF Post
<1>8. CASE PollReset \/ PollAuto \/ PollLink
  BY <1>8, PollStep DEF queueVars, monVars
<1>9. CASE Plug \/ Configure \/ PhyStep \/ StartInit \/ StartNoMemory
             \/ ResetPhy \/ Wake \/ EMAC_SetPHYMode \/ EMAC_UpdatePHYStatus
             \/ FinishInit \/ Blink
  <2>1. UNCHANGED <<queueVars, monVars>>
    BY <1>9 DEF Plug, Configure, PhyStep, StartInit, StartNoMemory, ResetPhy,
                Wake, EMAC_SetPHYMode, EMAC_UpdatePHYStatus, FinishInit, Blink
  <2>2. QED
    BY <2>1 DEF queueVars, monVars
<1>10. CASE StartMonitor \/ SetAddress \/ ReadCommand \/ TakeStatus
              \/ EndSleep
  <2>1. UNCHANGED queueVars /\ mon # "post" /\ mon' # "post"
    BY <1>10 DEF StartMonitor, SetAddress, ReadCommand, TakeStatus, EndSleep
  <2>2. QED
    BY <2>1 DEF queueVars
<1>11. CASE UNCHANGED vars
  BY <1>11 DEF vars
<1>12. QED
  BY <1>3, <1>4, <1>5, <1>6, <1>7, <1>8, <1>9, <1>10, <1>11
     DEF Next, Tcpip, Monitor

(* The invariant holds in every state of every behaviour. *)
THEOREM Invariance == Spec => []IInv
<1>1. Init => IInv
  <2>1. Init => Flags
    BY Zenon DEF Init, Flags
  <2>2. Init => TypeOK
    BY <2>1 DEF Init, Flags, TypeOK, Register
  <2>3. Init => PoolExact
    BY CountEmpty DEF Init, PoolExact, InHand
  <2>4. QED
    BY <2>2, <2>3 DEF IInv
<1>2. IInv /\ [Next]_vars => IInv'
  BY TypeStep, PoolStep DEF IInv
<1>3. QED
  BY <1>1, <1>2, PTL DEF Spec

(* Types are kept by the whole of start-up and link monitoring. *)
THEOREM TypeCorrect == Spec => []TypeOK
BY Invariance, PTL DEF IInv

-----------------------------------------------------------------------------
(* The pool is large enough for the monitor. *)
LEMMA PoolSuffices ==
  ASSUME IInv
  PROVE  CallbackPoolSuffices
<1> SUFFICES ASSUME mon = "compare"
             PROVE  apiFree > 0
  BY DEF CallbackPoolSuffices
<1>1. mbox \in Seq(Message) /\ msg \in Seq(Message)
  BY DEF IInv, TypeOK, Message
<1>2. /\ Count(mbox) \in Nat /\ Count(mbox) <= Len(mbox)
      /\ Count(msg) \in Nat /\ Count(msg) <= Len(msg)
  BY <1>1, CountType
<1>3. Len(mbox) <= TCPIP_MBOX_SIZE /\ Len(msg) <= 1 /\ apiFree \in Nat
  BY DEF IInv, TypeOK
<1>4. InHand = 0
  BY DEF InHand
<1>5. QED
  BY <1>1, <1>2, <1>3, <1>4 DEF IInv, PoolExact

(* With MEMP_NUM_TCPIP_MSG_API at least TCPIP_MBOX_SIZE + 2, as lwipopts.h *)
(* has it, tcpip_callback_with_block never fails in vSetupIFTask.          *)
THEOREM PoolTheorem == Spec => []CallbackPoolSuffices
BY Invariance, PoolSuffices, PTL

-----------------------------------------------------------------------------
(* What is announced is a Boolean, before a step and after it. *)
LEMMA AnnouncedType ==
  ASSUME TypeOK, TypeOK'
  PROVE  Announced \in BOOLEAN /\ Announced' \in BOOLEAN
<1>1. linkFlag \in BOOLEAN /\ linkFlag' \in BOOLEAN
  BY DEF TypeOK
<1>2. /\ ReportsWait \in BOOLEAN /\ LastIsUp \in BOOLEAN
      /\ ReportsWait' \in BOOLEAN /\ LastIsUp' \in BOOLEAN
  BY Zenon DEF ReportsWait, LastIsUp
<1>3. Announced \in BOOLEAN
  BY <1>1, <1>2, Zenon DEF Announced
<1>4. Announced' \in BOOLEAN
  BY <1>1, <1>2, Zenon DEF Announced
<1>5. QED
  BY <1>3, <1>4

(* Fetching a message changes nothing that is announced: a report that     *)
(* leaves the mailbox becomes the flag.                                    *)
LEMMA HandleAnnounces ==
  ASSUME TypeOK, Handle
  PROVE  Announced' <=> Announced
<1> DEFINE h == Head(mbox)
<1>1. /\ mbox \in Seq(Message) /\ mbox # <<>> /\ h = mbox[1]
      /\ mbox' = Tail(mbox) /\ Len(mbox') = Len(mbox) - 1
      /\ Len(mbox) \in Nat /\ Len(mbox) > 0
      /\ \A i \in 1 .. Len(mbox') : mbox'[i] = mbox[i + 1]
  BY DEF Handle, TypeOK, Message
<1>2. mon' = mon /\ physts' = physts
  BY DEF Handle, monVars
<1>3. /\ h = "up" => linkFlag' = TRUE
      /\ h = "down" => linkFlag' = FALSE
      /\ ~IsReport(h) => linkFlag' = linkFlag
  BY Zenon DEF Handle, IsReport
<1>4. ReportsWait <=> IsReport(h) \/ ReportsWait'
  <2>1. ReportsWait' => ReportsWait
    <3> SUFFICES ASSUME NEW i \in 1 .. Len(mbox'), IsReport(mbox'[i])
                 PROVE  ReportsWait
      BY DEF ReportsWait, IsReport
    <3>1. i + 1 \in 1 .. Len(mbox) /\ IsReport(mbox[i + 1])
      BY <1>1
    <3>2. QED
      BY <3>1 DEF ReportsWait
  <2>2. IsReport(h) => ReportsWait
    BY <1>1 DEF ReportsWait
  <2>3. ReportsWait => IsReport(h) \/ ReportsWait'
    <3> SUFFICES ASSUME NEW i \in 1 .. Len(mbox), IsReport(mbox[i]), i # 1
                 PROVE  ReportsWait'
      BY <1>1 DEF ReportsWait
    <3>1. i - 1 \in 1 .. Len(mbox') /\ mbox'[i - 1] = mbox[i]
      BY <1>1
    <3>2. QED
      BY <3>1 DEF ReportsWait, IsReport
  <2>4. QED
    BY <2>1, <2>2, <2>3
<1>5. LastIsUp' => LastIsUp
  <2> SUFFICES ASSUME NEW i \in 1 .. Len(mbox'), mbox'[i] = "up",
                      \A j \in i + 1 .. Len(mbox') : ~IsReport(mbox'[j])
               PROVE  LastIsUp
    BY DEF LastIsUp, IsReport
  <2>1. i + 1 \in 1 .. Len(mbox) /\ mbox[i + 1] = "up"
    BY <1>1
  <2>2. ASSUME NEW j \in i + 2 .. Len(mbox)
        PROVE  ~IsReport(mbox[j])
    <3>1. j - 1 \in i + 1 .. Len(mbox') /\ mbox'[j - 1] = mbox[j]
      BY <1>1
    <3>2. QED
      BY <3>1
  <2>3. QED
    BY <2>1, <2>2 DEF LastIsUp
<1>6. LastIsUp => LastIsUp' \/ (h = "up" /\ ~ReportsWait')
  <2> SUFFICES ASSUME NEW i \in 1 .. Len(mbox), mbox[i] = "up",
                      \A j \in i + 1 .. Len(mbox) : ~IsReport(mbox[j])
               PROVE  LastIsUp' \/ (h = "up" /\ ~ReportsWait')
    BY DEF LastIsUp
  <2>1. CASE i = 1
    <3>1. \A j \in 1 .. Len(mbox') : ~IsReport(mbox'[j])
      BY <1>1, <2>1
    <3>2. QED
      BY <1>1, <2>1, <3>1 DEF ReportsWait, IsReport
  <2>2. CASE i # 1
    <3>1. i - 1 \in 1 .. Len(mbox') /\ mbox'[i - 1] = "up"
      BY <1>1, <2>2
    <3>2. \A j \in (i - 1) + 1 .. Len(mbox') : ~IsReport(mbox'[j])
      BY <1>1, <2>2
    <3>3. QED
      BY <3>1, <3>2 DEF LastIsUp, IsReport
  <2>3. QED
    BY <2>1, <2>2
<1>7. h = "up" /\ ~ReportsWait' => LastIsUp
  <2> SUFFICES ASSUME h = "up", ~ReportsWait'
               PROVE  LastIsUp
    OBVIOUS
  <2>1. \A j \in 2 .. Len(mbox) : ~IsReport(mbox[j])
    <3> SUFFICES ASSUME NEW j \in 2 .. Len(mbox)
                 PROVE  ~IsReport(mbox[j])
      OBVIOUS
    <3>1. j - 1 \in 1 .. Len(mbox') /\ mbox'[j - 1] = mbox[j]
      BY <1>1
    <3>2. QED
      BY <3>1 DEF ReportsWait, IsReport
  <2>2. QED
    BY <1>1, <2>1 DEF LastIsUp
<1>8. LastIsUp' => ReportsWait'
  BY DEF LastIsUp, ReportsWait, IsReport
<1>9. h \in Message
  BY <1>1
<1>10. CASE mon = "post"
  BY <1>2, <1>10 DEF Announced
<1>11. CASE mon # "post" /\ ReportsWait'
  BY <1>2, <1>4, <1>5, <1>6, <1>11 DEF Announced
<1>12. CASE mon # "post" /\ ~ReportsWait' /\ IsReport(h)
  <2>1. Announced' <=> linkFlag'
    BY <1>2, <1>12 DEF Announced
  <2>2. Announced <=> LastIsUp
    BY <1>4, <1>12 DEF Announced
  <2>3. LastIsUp <=> h = "up"
    BY <1>6, <1>7, <1>8, <1>12
  <2>4. h = "up" \/ h = "down"
    BY <1>12 DEF IsReport
  <2>5. QED
    BY <1>3, <2>1, <2>2, <2>3, <2>4
<1>13. CASE mon # "post" /\ ~ReportsWait' /\ ~IsReport(h)
  BY <1>2, <1>3, <1>4, <1>13 DEF Announced
<1>14. QED
  BY <1>10, <1>11, <1>12, <1>13

(* A report that is posted becomes the last one in the mailbox. *)
LEMMA PostAnnounces ==
  ASSUME TypeOK, Post
  PROVE  Announced' <=> Announced
<1> DEFINE r == IF physts = 1 THEN "up" ELSE "down"
           n == Len(mbox) + 1
<1>1. /\ mbox \in Seq(Message) /\ mbox' = Append(mbox, r)
      /\ Len(mbox') = n /\ mbox'[n] = r /\ n \in 1 .. Len(mbox')
      /\ Len(mbox) \in Nat
  BY DEF Post, TypeOK, Message
<1>2. ReportsWait'
  BY <1>1 DEF ReportsWait, IsReport
<1>3. LastIsUp' <=> physts = 1
  <2>1. physts = 1 => LastIsUp'
    BY <1>1 DEF LastIsUp, IsReport
  <2>2. physts # 1 => ~LastIsUp'
    BY <1>1 DEF LastIsUp, IsReport
  <2>3. QED
    BY <2>1, <2>2
<1>4. mon = "post" /\ mon' # "post"
  BY DEF Post
<1>5. QED
  BY <1>2, <1>3, <1>4 DEF Announced

(* Other messages do not hide a report. *)
LEMMA OtherAnnounces ==
  ASSUME TypeOK, PostOther
  PROVE  Announced' <=> Announced
<1>1. PICK m \in {"other", "ooseq"} : mbox' = Append(mbox, m)
  BY DEF PostOther
<1>2. /\ mbox \in Seq(Message) /\ ~IsReport(m)
      /\ Len(mbox) \in Nat /\ Len(mbox') = Len(mbox) + 1
      /\ mbox'[Len(mbox) + 1] = m
      /\ \A i \in 1 .. Len(mbox) : mbox'[i] = mbox[i]
  BY <1>1 DEF TypeOK, Message, IsReport
<1>3. ReportsWait' <=> ReportsWait
  BY <1>2 DEF ReportsWait, IsReport
<1>4. LastIsUp' <=> LastIsUp
  <2>1. LastIsUp => LastIsUp'
    <3> SUFFICES ASSUME NEW i \in 1 .. Len(mbox), mbox[i] = "up",
                        \A j \in i + 1 .. Len(mbox) : ~IsReport(mbox[j])
                 PROVE  LastIsUp'
      BY DEF LastIsUp
    <3>1. i \in 1 .. Len(mbox') /\ mbox'[i] = "up"
      BY <1>2
    <3>2. \A j \in i + 1 .. Len(mbox') : ~IsReport(mbox'[j])
      BY <1>2
    <3>3. QED
      BY <3>1, <3>2 DEF LastIsUp, IsReport
  <2>2. LastIsUp' => LastIsUp
    <3> SUFFICES ASSUME NEW i \in 1 .. Len(mbox'), mbox'[i] = "up",
                        \A j \in i + 1 .. Len(mbox') : ~IsReport(mbox'[j])
                 PROVE  LastIsUp
      BY DEF LastIsUp, IsReport
    <3>1. i \in 1 .. Len(mbox) /\ mbox[i] = "up"
      BY <1>1, <1>2
    <3>2. \A j \in i + 1 .. Len(mbox) : ~IsReport(mbox[j])
      BY <1>2
    <3>3. QED
      BY <3>1, <3>2 DEF LastIsUp
  <2>3. QED
    BY <2>1, <2>2
<1>5. mon' = mon /\ physts' = physts /\ linkFlag' = linkFlag
  BY DEF PostOther, monVars
<1>6. QED
  BY <1>3, <1>4, <1>5 DEF Announced

(* What one step may do to the monitor's memory and to what is announced. *)
Faithful ==
  (phystsprev' # phystsprev \/ (Announced' # Announced /\ tc # "init"))
    => Announced' = (phystsprev' = 1)

(* No step loses, doubles or overtakes a report. *)
LEMMA ReportStep ==
  ASSUME IInv, IInv', [Next]_vars
  PROVE  Faithful \/ UNCHANGED vars
<1>1. Announced \in BOOLEAN /\ Announced' \in BOOLEAN
  BY AnnouncedType DEF IInv
<1>2. CASE /\ phystsprev' = phystsprev
           /\ Announced' <=> Announced
  <2>1. Announced' = Announced
    BY <1>1, <1>2
  <2>2. QED
    BY <1>2, <2>1, Zenon DEF Faithful
<1>3. CASE phystsprev' = phystsprev /\ tc = "init"
  BY <1>3, Zenon DEF Faithful
<1>4. CASE Handle
  <2>1. phystsprev' = phystsprev
    BY <1>4 DEF Handle, monVars
  <2>2. QED
    BY <1>2, <1>4, <2>1, HandleAnnounces DEF IInv
<1>5. CASE PostOther
  <2>1. phystsprev' = phystsprev
    BY <1>5 DEF PostOther, monVars
  <2>2. QED
    BY <1>2, <1>5, <2>1, OtherAnnounces DEF IInv
<1>6. CASE Post
  <2>1. phystsprev' = phystsprev
    BY <1>6 DEF Post
  <2>2. QED
    BY <1>2, <1>6, <2>1, PostAnnounces DEF IInv
<1>7. CASE Compare
  <2>1. apiFree > 0
    BY <1>7, PoolSuffices DEF Compare, CallbackPoolSuffices
  <2>2. mbox' = mbox /\ physts' = physts /\ linkFlag' = linkFlag
    BY <1>7 DEF Compare
  <2>3. CASE physts = phystsprev
    <3>1. phystsprev' = phystsprev /\ mon # "post" /\ mon' # "post"
      BY <1>7, <2>3 DEF Compare, NewPrev
    <3>2. Announced' <=> Announced
      BY <2>2, <3>1 DEF Announced, ReportsWait, LastIsUp, IsReport
    <3>3. QED
      BY <1>2, <3>1, <3>2
  <2>4. CASE physts # phystsprev
    <3>1. mon' = "post" /\ phystsprev' = physts
      BY <1>7, <2>1, <2>4 DEF Compare, NewPrev
    <3>2. Announced' <=> physts' = 1
      BY <3>1 DEF Announced
    <3>3. Announced' = (phystsprev' = 1)
      BY <1>1, <2>2, <3>1, <3>2
    <3>4. QED
      BY <3>3, Zenon DEF Faithful
  <2>5. QED
    BY <2>3, <2>4
<1>8. CASE /\ UNCHANGED <<mbox, linkFlag, physts, phystsprev>>
           /\ mon' = mon \/ (mon # "post" /\ mon' # "post")
  <2>1. Announced' <=> Announced
    BY <1>8 DEF Announced, ReportsWait, LastIsUp, IsReport
  <2>2. QED
    BY <1>2, <1>8, <2>1
<1>9. CASE StartInit \/ StartNoMemory
  <2>1. phystsprev' = phystsprev /\ tc = "init"
    BY <1>9 DEF StartInit, StartNoMemory, monVars
  <2>2. QED
    BY <1>3, <2>1
<1>10. CASE TakeStatus
  <2>1. /\ UNCHANGED <<mbox, linkFlag, phystsprev>>
        /\ mon # "post" /\ mon' # "post"
    BY <1>10 DEF TakeStatus, queueVars
  <2>2. Announced' <=> Announced
    BY <2>1 DEF Announced, ReportsWait, LastIsUp, IsReport
  <2>3. QED
    BY <1>2, <2>1, <2>2
<1>11. CASE PollReset \/ PollAuto \/ PollLink
  BY <1>8, <1>11, PollStep DEF IInv, queueVars, monVars
<1>12. CASE Plug \/ Configure \/ PhyStep \/ ResetPhy \/ Wake
              \/ EMAC_SetPHYMode \/ EMAC_UpdatePHYStatus \/ FinishInit
              \/ Blink \/ FreeMessage
  <2>1. UNCHANGED <<mbox, linkFlag, monVars>>
    BY <1>12
       DEF Plug, Configure, PhyStep, ResetPhy, Wake, EMAC_SetPHYMode,
           EMAC_UpdatePHYStatus, FinishInit, Blink, FreeMessage, queueVars
  <2>2. QED
    BY <1>8, <2>1 DEF monVars
<1>13. CASE StartMonitor \/ SetAddress \/ ReadCommand \/ EndSleep
  <2>1. /\ UNCHANGED <<mbox, linkFlag, physts, phystsprev>>
        /\ mon # "post" /\ mon' # "post"
    BY <1>13 DEF StartMonitor, SetAddress, ReadCommand, EndSleep, queueVars
  <2>2. QED
    BY <1>8, <2>1
<1>14. QED
  BY <1>4, <1>5, <1>6, <1>7, <1>9, <1>10, <1>11, <1>12, <1>13
     DEF Next, Tcpip, Monitor

(* vSetupIFTask's reports all reach the interface, in order, though it     *)
(* never looks at what tcpip_callback_with_block returns.                  *)
THEOREM ReportTheorem == Spec => NoReportLost
<1>1. IInv /\ IInv' /\ [Next]_vars => [Faithful]_vars
  BY ReportStep
<1>2. QED
  BY <1>1, Invariance, PTL DEF Spec, NoReportLost, Faithful
=============================================================================
