--------------------------- MODULE EmacTx_proofs ----------------------------
(***************************************************************************)
(* Proofs about EmacTx, for every ring size, buffer length, number of      *)
(* attempts and set of frames.                                             *)
(***************************************************************************)
EXTENDS EmacTx, SequenceTheorems, TLAPS

(* During a call the frame is one of lwIP's and no answer has been given. *)
InCall == pc # "idle" => p \in Frames /\ xReturn = "ERR_BUF"

(* What has been copied of the frame is in the buffer. *)
Copied ==
  pc \in {"copy", "start"} =>
    /\ Len(p) < EMAC_ETH_MAX_FLEN
    /\ q <= Len(p)
    /\ q <= Len(Packet[pucChar])
    /\ \A k \in 1 .. q : Packet[pucChar][k] = p[k]

(* Before the descriptor is handed over it describes the whole frame. *)
Described == pc = "start" => q = Len(p) /\ Ctrl[TxProduceIndex] = Len(p) - 1

(* What the MAC has read is the beginning of the oldest frame. *)
DmaPrefix ==
  /\ TxProduceIndex = TxConsumeIndex => dmaFrame = <<>>
  /\ TxProduceIndex # TxConsumeIndex =>
       Len(dmaFrame) <= Ctrl[TxConsumeIndex] + 1
  /\ \A k \in 1 .. Len(dmaFrame) : dmaFrame[k] = Packet[TxConsumeIndex][k]

(* The inductive invariant. *)
IInv == /\ TypeOK
        /\ InCall
        /\ BufferStaysFree
        /\ BufferBounds
        /\ Copied
        /\ Described
        /\ DmaPrefix

USE TxFragAssumption, MaxFlenAssumption, AttemptsAssumption, FramesAssumption

(* The index arithmetic of the driver stays inside the ring. *)
LEMMA NextIndexInRing ==
  ASSUME NEW i \in Index
  PROVE  NextIndex(i) \in Index /\ NextIndex(i) # i
BY DEF Index, NextIndex

(* EMAC_CheckTransmitIndex tells exactly whether the ring has room. *)
LEMMA CheckIsRoom ==
  ASSUME TypeOK
  PROVE  EMAC_CheckTransmitIndex <=> NextIndex(TxProduceIndex) # TxConsumeIndex
BY DEF TypeOK, Index, NextIndex, EMAC_CheckTransmitIndex

(* What one memcpy does to a buffer. *)
LEMMA StoreProperties ==
  ASSUME NEW buf \in Seq(Payload), NEW v \in Payload,
         NEW k \in 1 .. Len(buf) + 1
  PROVE  /\ Store(buf, k, v) \in Seq(Payload)
         /\ Len(Store(buf, k, v)) = IF k <= Len(buf) THEN Len(buf) ELSE k
         /\ Store(buf, k, v)[k] = v
         /\ \A j \in 1 .. Len(buf) : j # k => Store(buf, k, v)[j] = buf[j]
<1>1. CASE k <= Len(buf)
  BY <1>1, ExceptSeq DEF Store
<1>2. CASE ~(k <= Len(buf))
  <2>1. k = Len(buf) + 1
    BY <1>2
  <2>2. Store(buf, k, v) = Append(buf, v)
    BY <1>2 DEF Store
  <2> QED
    BY <2>1, <2>2, AppendProperties
<1> QED
  BY <1>1, <1>2

(* The empty ring satisfies the inductive invariant. *)
LEMMA InitInvariant == Init => IInv
<1> SUFFICES ASSUME Init PROVE IInv
  OBVIOUS
<1>1. TypeOK
  BY DEF Init, TypeOK, Index
<1>2. BufferBounds
  BY <1>1 DEF Init, BufferBounds, Owned, Index
<1> QED
  BY <1>1, <1>2 DEF Init, IInv, InCall, BufferStaysFree, Copied, Described,
     DmaPrefix

(* The thread's own bookkeeping moves; ring, buffers and MAC do not. *)
LEMMA CallInvariant ==
  ASSUME IInv, NEW f \in Frames, Call(f)
  PROVE  IInv'
BY DEF Call, macVars, IInv, TypeOK, InCall, BufferStaysFree, BufferBounds,
   Owned, Copied, Described, DmaPrefix

LEMMA GetBufferInvariant ==
  ASSUME IInv, GetBuffer
  PROVE  IInv'
<1>1. NextIndex(TxProduceIndex) # TxConsumeIndex
  BY CheckIsRoom DEF GetBuffer, IInv
<1>2. TypeOK'
  BY DEF GetBuffer, macVars, IInv, TypeOK
<1>3. BufferStaysFree'
  BY <1>1 DEF GetBuffer, macVars, BufferStaysFree, NextIndex
<1>4. BufferBounds' /\ DmaPrefix'
  BY DEF GetBuffer, macVars, IInv, BufferBounds, DmaPrefix, Owned, Index
<1>5. Copied'
  <2>1. p \in Seq(Payload) /\ Packet[TxProduceIndex] \in Seq(Payload)
    BY DEF GetBuffer, IInv, InCall, TypeOK
  <2>2. Len(p) \in Nat /\ Len(Packet[TxProduceIndex]) \in Nat
    BY <2>1
  <2> QED
    BY <2>2 DEF GetBuffer, Fits, Copied
<1>6. InCall' /\ Described'
  BY DEF GetBuffer, IInv, InCall, Described
<1> QED
  BY <1>2, <1>3, <1>4, <1>5, <1>6 DEF IInv

LEMMA WaitInvariant ==
  ASSUME IInv, TooLong \/ Delay \/ GiveUp
  PROVE  IInv'
<1> USE DEF TooLong, Delay, GiveUp, AttemptsLeft, macVars, IInv
<1>1. TypeOK'
  <2>1. CASE TooLong
    BY <2>1 DEF TypeOK
  <2>2. CASE Delay
    BY <2>2 DEF TypeOK
  <2>3. CASE GiveUp
    BY <2>3 DEF TypeOK
  <2> QED
    BY <2>1, <2>2, <2>3
<1>2. BufferBounds' /\ DmaPrefix'
  BY DEF BufferBounds, DmaPrefix, Owned, Index
<1>3. BufferStaysFree' /\ Copied' /\ Described' /\ InCall'
  BY DEF BufferStaysFree, Copied, Described, InCall
<1> QED
  BY <1>1, <1>2, <1>3

(* A memcpy only touches the buffer at TxProduceIndex, which the MAC does  *)
(* not read.                                                               *)
LEMMA CopyInvariant ==
  ASSUME IInv, CopyPbuf
  PROVE  IInv'
<1> DEFINE buf == Packet[pucChar]
           v == p[q + 1]
<1>1. p \in Seq(Payload) /\ buf \in Seq(Payload) /\ pucChar \in Index
  BY DEF IInv, TypeOK, InCall, CopyPbuf
<1>2. /\ v \in Payload /\ q \in Nat
      /\ q + 1 \in 1 .. Len(buf) + 1 /\ q + 1 <= Len(p)
  BY <1>1 DEF IInv, TypeOK, Copied, CopyPbuf
<1>3. /\ Store(buf, q + 1, v) \in Seq(Payload)
      /\ Len(Store(buf, q + 1, v)) =
           IF q + 1 <= Len(buf) THEN Len(buf) ELSE q + 1
      /\ Store(buf, q + 1, v)[q + 1] = v
      /\ \A j \in 1 .. Len(buf) :
           j # q + 1 => Store(buf, q + 1, v)[j] = buf[j]
  BY <1>1, <1>2, StoreProperties
<1>4. /\ Packet'[pucChar] = Store(buf, q + 1, v)
      /\ \A i \in Index : i # pucChar => Packet'[i] = Packet[i]
      /\ Packet' \in [Index -> Seq(Payload)]
  BY <1>1, <1>3 DEF CopyPbuf, IInv, TypeOK
<1>5. TypeOK'
  BY <1>2, <1>4 DEF CopyPbuf, macVars, IInv, TypeOK
<1>6. pucChar = TxProduceIndex /\ pucChar \notin Owned
  BY <1>1 DEF CopyPbuf, IInv, TypeOK, BufferStaysFree, Owned, Index
<1>7. BufferBounds'
  <2>1. Owned' = Owned
    BY DEF CopyPbuf, macVars, Owned
  <2>2. \A i \in Index : i # pucChar =>
          /\ Len(Packet'[i]) < EMAC_ETH_MAX_FLEN
          /\ i \in Owned' => Ctrl'[i] < Len(Packet'[i])
    BY <1>4, <2>1 DEF CopyPbuf, IInv, BufferBounds
  <2>3. Len(Packet'[pucChar]) < EMAC_ETH_MAX_FLEN
    BY <1>1, <1>2, <1>3, <1>4 DEF CopyPbuf, IInv, BufferBounds, Copied
  <2> QED
    BY <1>6, <2>1, <2>2, <2>3 DEF BufferBounds, CopyPbuf
<1>8. Copied'
  <2>1. /\ pucChar' = pucChar /\ p' = p /\ q' = q + 1
        /\ Len(p) < EMAC_ETH_MAX_FLEN
    BY DEF CopyPbuf, IInv, Copied
  <2>2. q + 1 <= Len(Packet'[pucChar])
    BY <1>1, <1>2, <1>3, <1>4
  <2>3. \A k \in 1 .. q + 1 : Packet'[pucChar][k] = p[k]
    <3> TAKE k \in 1 .. q + 1
    <3>1. CASE k = q + 1
      BY <3>1, <1>3, <1>4
    <3>2. CASE k # q + 1
      <4>1. k \in 1 .. q /\ k \in 1 .. Len(buf) /\ buf[k] = p[k]
        BY <1>1, <1>2, <3>2 DEF IInv, Copied, CopyPbuf
      <4> QED
        BY <3>2, <4>1, <1>3, <1>4
    <3> QED
      BY <3>1, <3>2
  <2> QED
    BY <1>2, <2>1, <2>2, <2>3 DEF Copied
<1>9. DmaPrefix'
  <2>1. CASE TxConsumeIndex = TxProduceIndex
    BY <2>1 DEF CopyPbuf, macVars, IInv, DmaPrefix
  <2>2. CASE TxConsumeIndex # TxProduceIndex
    BY <2>2, <1>4, <1>6 DEF CopyPbuf, macVars, IInv, TypeOK, DmaPrefix
  <2> QED
    BY <2>1, <2>2
<1>10. InCall' /\ BufferStaysFree' /\ Described'
  BY DEF CopyPbuf, macVars, IInv, InCall, BufferStaysFree, Described, NextIndex
<1> QED
  BY <1>5, <1>7, <1>8, <1>9, <1>10 DEF IInv

(* The length goes to the descriptor at TxProduceIndex, not yet handed over. *)
LEMMA SetCtrlInvariant ==
  ASSUME IInv, SetCtrl
  PROVE  IInv'
<1>1. p \in Seq(Payload) /\ p # <<>> /\ TxProduceIndex \in Index
  BY DEF IInv, TypeOK, InCall, SetCtrl
<1>2. Len(p) \in Nat /\ Len(p) > 0 /\ Len(p) < EMAC_ETH_MAX_FLEN
  BY <1>1, EmptySeq DEF IInv, Copied, SetCtrl
<1>3. /\ Ctrl'[TxProduceIndex] = Len(p) - 1
      /\ \A i \in Index : i # TxProduceIndex => Ctrl'[i] = Ctrl[i]
      /\ Ctrl' \in [Index -> 0 .. EMAC_ETH_MAX_FLEN - 1]
  BY <1>1, <1>2 DEF SetCtrl, IInv, TypeOK
<1>4. TypeOK'
  BY <1>3 DEF SetCtrl, macVars, IInv, TypeOK
<1>5. BufferBounds'
  <2>1. Owned' = Owned /\ TxProduceIndex \notin Owned
    BY <1>1 DEF SetCtrl, macVars, IInv, TypeOK, Owned, Index
  <2> QED
    BY <1>3, <2>1 DEF SetCtrl, IInv, BufferBounds
<1>6. DmaPrefix'
  BY <1>3 DEF SetCtrl, macVars, IInv, TypeOK, DmaPrefix
<1>7. InCall' /\ BufferStaysFree' /\ Copied' /\ Described'
  BY <1>3 DEF SetCtrl, macVars, IInv, InCall, BufferStaysFree, Copied,
     Described, NextIndex
<1> QED
  BY <1>4, <1>5, <1>6, <1>7 DEF IInv

(* The MAC comes to own one descriptor more: the one just filled. *)
LEMMA StartInvariant ==
  ASSUME IInv, StartTransmit
  PROVE  IInv'
<1>1. /\ TxProduceIndex \in Index /\ TxConsumeIndex \in Index
      /\ TxProduceIndex' = NextIndex(TxProduceIndex)
      /\ NextIndex(TxProduceIndex) \in Index
      /\ NextIndex(TxProduceIndex) # TxConsumeIndex
      /\ pucChar = TxProduceIndex
  BY NextIndexInRing DEF StartTransmit, IInv, TypeOK, BufferStaysFree
<1>2. TypeOK'
  BY <1>1 DEF StartTransmit, macVars, IInv, TypeOK
<1>3. BufferBounds'
  <2>1. \A i \in Index : i \in Owned' => i \in Owned \/ i = TxProduceIndex
    BY <1>1 DEF Owned, Index, NextIndex, StartTransmit, macVars
  <2>2. Ctrl[TxProduceIndex] < Len(Packet[TxProduceIndex])
    <3>1. p \in Seq(Payload) /\ Packet[TxProduceIndex] \in Seq(Payload)
      BY <1>1 DEF IInv, TypeOK, InCall, StartTransmit
    <3> QED
      BY <1>1, <3>1 DEF IInv, StartTransmit, Copied, Described
  <2> QED
    BY <2>1, <2>2 DEF StartTransmit, IInv, BufferBounds
<1>4. DmaPrefix'
  <2>1. CASE TxProduceIndex = TxConsumeIndex
    BY <1>1, <2>1 DEF StartTransmit, macVars, IInv, TypeOK, DmaPrefix
  <2>2. CASE TxProduceIndex # TxConsumeIndex
    BY <1>1, <2>2 DEF StartTransmit, macVars, IInv, TypeOK, DmaPrefix
  <2> QED
    BY <2>1, <2>2
<1>5. InCall' /\ BufferStaysFree' /\ Copied' /\ Described'
  BY DEF StartTransmit, InCall, BufferStaysFree, Copied, Described
<1> QED
  BY <1>2, <1>3, <1>4, <1>5 DEF IInv

(* The MAC reads one piece more of the frame at TxConsumeIndex. *)
LEMMA DmaReadInvariant ==
  ASSUME IInv, DmaRead
  PROVE  IInv'
<1> DEFINE n == Len(dmaFrame)
           c == TxConsumeIndex
<1>1. /\ dmaFrame \in Seq(Payload) /\ Packet[c] \in Seq(Payload) /\ c \in Index
      /\ Ctrl[c] \in Nat /\ n \in Nat
  BY DEF IInv, TypeOK
<1>2. c \in Owned
  BY DEF DmaRead, IInv, TypeOK, Owned, Index
<1>3. n + 1 \in 1 .. Len(Packet[c])
  BY <1>1, <1>2 DEF DmaRead, IInv, BufferBounds
<1>4. /\ dmaFrame' \in Seq(Payload)
      /\ Len(dmaFrame') = n + 1
      /\ \A k \in 1 .. n : dmaFrame'[k] = dmaFrame[k]
      /\ dmaFrame'[n + 1] = Packet[c][n + 1]
  BY <1>1, <1>3, AppendProperties, ElementOfSeq DEF DmaRead
<1>5. TypeOK'
  BY <1>4 DEF DmaRead, taskVars, IInv, TypeOK
<1>6. DmaPrefix'
  <2>1. \A k \in 1 .. n + 1 : dmaFrame'[k] = Packet[c][k]
    BY <1>1, <1>4 DEF IInv, DmaPrefix
  <2> QED
    BY <1>1, <1>4, <2>1 DEF DmaRead, DmaPrefix
<1>7. BufferBounds'
  BY DEF DmaRead, IInv, BufferBounds, Owned, Index
<1>8. InCall' /\ BufferStaysFree' /\ Copied' /\ Described'
  BY DEF DmaRead, taskVars, IInv, InCall, BufferStaysFree, Copied, Described,
     NextIndex
<1> QED
  BY <1>5, <1>6, <1>7, <1>8 DEF IInv

(* The MAC gives a descriptor back. *)
LEMMA DmaDoneInvariant ==
  ASSUME IInv, DmaDone
  PROVE  IInv'
<1>1. /\ TxProduceIndex \in Index /\ TxConsumeIndex \in Index
      /\ TxConsumeIndex' = NextIndex(TxConsumeIndex)
      /\ TxConsumeIndex' \in Index
      /\ TxConsumeIndex # TxProduceIndex
  BY NextIndexInRing DEF DmaDone, IInv, TypeOK
<1>2. TypeOK'
  BY <1>1 DEF DmaDone, taskVars, IInv, TypeOK
<1>3. BufferBounds'
  <2>1. \A i \in Index : i \in Owned' => i \in Owned
    BY <1>1 DEF Owned, Index, NextIndex, DmaDone
  <2> QED
    BY <2>1 DEF DmaDone, IInv, BufferBounds
<1>4. BufferStaysFree'
  BY <1>1 DEF DmaDone, taskVars, IInv, BufferStaysFree, NextIndex, Index
<1>5. DmaPrefix'
  <2>1. dmaFrame' = <<>> /\ Len(dmaFrame') = 0
    BY DEF DmaDone
  <2>2. Ctrl'[TxConsumeIndex'] \in Nat
    BY <1>1, <1>2 DEF TypeOK
  <2> QED
    BY <2>1, <2>2 DEF DmaPrefix
<1>6. InCall' /\ Copied' /\ Described'
  BY DEF DmaDone, taskVars, IInv, InCall, Copied, Described
<1> QED
  BY <1>2, <1>3, <1>4, <1>5, <1>6 DEF IInv

(* An underrun drops what has been read and leaves the frame in the ring. *)
LEMMA UnderrunInvariant ==
  ASSUME IInv, Underrun
  PROVE  IInv'
<1>1. TypeOK'
  BY DEF Underrun, taskVars, IInv, TypeOK
<1>2. DmaPrefix'
  <2>1. dmaFrame' = <<>> /\ Len(dmaFrame') = 0
    BY DEF Underrun
  <2>2. Ctrl'[TxConsumeIndex'] \in Nat
    BY <1>1 DEF TypeOK
  <2> QED
    BY <2>1, <2>2 DEF DmaPrefix
<1>3. BufferBounds'
  BY DEF Underrun, IInv, BufferBounds, Owned, Index
<1>4. InCall' /\ BufferStaysFree' /\ Copied' /\ Described'
  BY DEF Underrun, taskVars, IInv, InCall, BufferStaysFree, Copied, Described,
     NextIndex
<1> QED
  BY <1>1, <1>2, <1>3, <1>4 DEF IInv

(* Interrupts come and go without touching the ring or the call. *)
LEMMA IrqInvariant ==
  ASSUME IInv, Irq \/ RxDone
  PROVE  IInv'
<1> USE DEF Irq, IrqEnter, IrqLoop, IrqExit, RxDone, taskVars, macVars, IInv
<1>1. TypeOK'
  BY DEF TypeOK
<1>2. BufferBounds' /\ DmaPrefix'
  BY DEF BufferBounds, DmaPrefix, Owned, Index
<1>3. InCall' /\ BufferStaysFree' /\ Copied' /\ Described'
  BY DEF InCall, BufferStaysFree, Copied, Described, NextIndex
<1> QED
  BY <1>1, <1>2, <1>3

(* A step that changes nothing preserves the invariant. *)
LEMMA StutterInvariant ==
  ASSUME IInv, UNCHANGED vars
  PROVE  IInv'
BY DEF vars, IInv, TypeOK, InCall, BufferStaysFree, BufferBounds, Owned, Index,
   Copied, Described, DmaPrefix, NextIndex

(* Every step preserves the inductive invariant. *)
LEMMA NextInvariant == IInv /\ [Next]_vars => IInv'
<1> SUFFICES ASSUME IInv, [Next]_vars PROVE IInv'
  OBVIOUS
<1>1. ASSUME NEW f \in Frames, Call(f) PROVE IInv'
  BY <1>1, CallInvariant
<1>2. CASE GetBuffer
  BY <1>2, GetBufferInvariant
<1>3. CASE TooLong \/ Delay \/ GiveUp
  BY <1>3, WaitInvariant
<1>4. CASE CopyPbuf
  BY <1>4, CopyInvariant
<1>5. CASE SetCtrl
  BY <1>5, SetCtrlInvariant
<1>6. CASE StartTransmit
  BY <1>6, StartInvariant
<1>7. CASE DmaRead
  BY <1>7, DmaReadInvariant
<1>8. CASE DmaDone
  BY <1>8, DmaDoneInvariant
<1>9. CASE Underrun
  BY <1>9, UnderrunInvariant
<1>10. CASE Irq \/ RxDone
  BY <1>10, IrqInvariant
<1>11. CASE UNCHANGED vars
  BY <1>11, StutterInvariant
<1> QED
  BY <1>1, <1>2, <1>3, <1>4, <1>5, <1>6, <1>7, <1>8, <1>9, <1>10, <1>11
     DEF Next, Task, Mac

(* The inductive invariant holds throughout every behaviour. *)
THEOREM Invariance == Spec => []IInv
<1> QED
  BY InitInvariant, NextInvariant, PTL DEF Spec

(* Registers, ring and locals keep their types, for every ring size. *)
THEOREM TypeCorrect == Spec => []TypeOK
<1>1. IInv => TypeOK
  BY DEF IInv
<1> QED
  BY <1>1, Invariance, PTL

(* prvLowLevelOutput never fills a buffer the ring has no room for, for    *)
(* every ring size and however the MAC and the interrupts interleave.      *)
THEOREM BufferStaysFreeTheorem == Spec => []BufferStaysFree
<1>1. IInv => BufferStaysFree
  BY DEF IInv
<1> QED
  BY <1>1, Invariance, PTL

(* Neither the copy nor the MAC goes beyond the end of a transmit buffer,  *)
(* for every buffer length and every pbuf chain.                           *)
THEOREM BufferBoundsTheorem == Spec => []BufferBounds
<1>1. IInv => BufferBounds
  BY DEF IInv
<1> QED
  BY <1>1, Invariance, PTL
-----------------------------------------------------------------------------
(* EmacTx implements FrameQueue. *)

(* The slots of the pending frames are descriptors the MAC owns. *)
LEMMA SlotsOwned ==
  ASSUME TypeOK
  PROVE  /\ Pending \in 0 .. EMAC_NUM_TX_FRAG - 1
         /\ \A k \in 1 .. Pending : /\ Slot(k - 1) \in Index
                                    /\ Slot(k - 1) \in Owned
                                    /\ Slot(k - 1) # TxProduceIndex
<1>1. TxProduceIndex \in Index /\ TxConsumeIndex \in Index
  BY DEF TypeOK
<1>2. CASE TxConsumeIndex <= TxProduceIndex
  <2>1. /\ Pending = TxProduceIndex - TxConsumeIndex
        /\ Owned = TxConsumeIndex .. TxProduceIndex - 1
        /\ \A k \in 1 .. Pending : Slot(k - 1) = TxConsumeIndex + k - 1
    BY <1>1, <1>2 DEF Pending, Slot, Owned, Index
  <2> QED
    BY <1>1, <1>2, <2>1 DEF Index
<1>3. CASE TxProduceIndex < TxConsumeIndex
  <2>1. /\ Pending = TxProduceIndex - TxConsumeIndex + EMAC_NUM_TX_FRAG
        /\ Owned = Index \ (TxProduceIndex .. TxConsumeIndex - 1)
    BY <1>1, <1>3 DEF Pending, Owned, Index
  <2>2. ASSUME NEW k \in 1 .. Pending
        PROVE  /\ Slot(k - 1) \in Index
               /\ Slot(k - 1) \notin TxProduceIndex .. TxConsumeIndex - 1
    BY <1>1, <1>3, <2>1, <2>2 DEF Slot, Index
  <2> QED
    BY <1>1, <1>3, <2>1, <2>2 DEF Index
<1> QED
  BY <1>1, <1>2, <1>3 DEF Index

(* What an owned descriptor stands for is a frame. *)
LEMMA ContentsType ==
  ASSUME IInv, NEW i \in Owned, i \in Index
  PROVE  Contents(i) \in Seq(Payload)
<1>1. Ctrl[i] \in Nat /\ Packet[i] \in Seq(Payload) /\ Ctrl[i] < Len(Packet[i])
  BY DEF IInv, TypeOK, BufferBounds
<1>2. \A k \in 1 .. Ctrl[i] + 1 : Packet[i][k] \in Payload
  BY <1>1, ElementOfSeq
<1> QED
  BY <1>1, <1>2 DEF Contents

LEMMA QueuedType ==
  ASSUME IInv
  PROVE  Queued \in Seq(Seq(Payload)) /\ Len(Queued) = Pending
<1>1. Pending \in Nat
  BY SlotsOwned DEF IInv
<1>2. \A k \in 1 .. Pending : Contents(Slot(k - 1)) \in Seq(Payload)
  BY SlotsOwned, ContentsType DEF IInv
<1> QED
  BY <1>1, <1>2 DEF Queued

(* As long as indices and owned descriptors stay, so does the queue. *)
LEMMA QueuedStays ==
  ASSUME TypeOK, UNCHANGED <<TxProduceIndex, TxConsumeIndex>>,
         \A i \in Index : i # TxProduceIndex =>
           Packet'[i] = Packet[i] /\ Ctrl'[i] = Ctrl[i]
  PROVE  Queued' = Queued
<1>1. Pending' = Pending /\ \A k \in 1 .. Pending : Slot(k - 1)' = Slot(k - 1)
  BY DEF Pending, Slot
<1>2. \A k \in 1 .. Pending : Contents(Slot(k - 1))' = Contents(Slot(k - 1))
  <2> TAKE k \in 1 .. Pending
  <2>1. Slot(k - 1) \in Index /\ Slot(k - 1) # TxProduceIndex
    BY SlotsOwned
  <2> QED
    BY <1>1, <2>1 DEF Contents
<1> QED
  BY <1>1, <1>2 DEF Queued

(* Handing a filled descriptor over appends the frame of the call. *)
LEMMA StartAppends ==
  ASSUME IInv, StartTransmit
  PROVE  Queued' = Append(Queued, p) /\ Len(Queued) < EMAC_NUM_TX_FRAG - 1
<1>1. TypeOK /\ IInv'
  BY StartInvariant DEF IInv
<1>2. /\ TxProduceIndex \in Index /\ TxConsumeIndex \in Index
      /\ TxProduceIndex' = NextIndex(TxProduceIndex)
      /\ NextIndex(TxProduceIndex) # TxConsumeIndex
      /\ pucChar = TxProduceIndex
      /\ UNCHANGED <<TxConsumeIndex, Packet, Ctrl>>
  BY <1>1 DEF StartTransmit, macVars, IInv, TypeOK, BufferStaysFree
<1>3. /\ Pending' = Pending + 1
      /\ Pending < EMAC_NUM_TX_FRAG - 1
      /\ Pending \in Nat
      /\ Slot(Pending) = TxProduceIndex
      /\ \A k \in 1 .. Pending + 1 : Slot(k - 1)' = Slot(k - 1)
  BY <1>2 DEF Pending, Slot, NextIndex, Index
<1>4. \A i \in Index : Contents(i)' = Contents(i)
  BY <1>2 DEF Contents
<1>5. Contents(TxProduceIndex) = p
  <2>1. p \in Seq(Payload) /\ q = Len(p) /\ Ctrl[TxProduceIndex] = Len(p) - 1
    BY DEF StartTransmit, IInv, InCall, Described
  <2>2. \A k \in 1 .. Len(p) : Packet[TxProduceIndex][k] = p[k]
    BY <1>2, <2>1 DEF StartTransmit, IInv, Copied
  <2>3. Ctrl[TxProduceIndex] + 1 = Len(p)
    BY <2>1
  <2>4. Contents(TxProduceIndex) = [k \in 1 .. Len(p) |-> p[k]]
    BY <2>2, <2>3 DEF Contents
  <2> QED
    BY <2>1, <2>4
<1>6. Queued' = [k \in 1 .. Pending + 1 |-> Contents(Slot(k - 1))]
  <2>1. \A k \in 1 .. Pending + 1 : Slot(k - 1) \in Index
    BY <1>2, <1>3, <1>1, SlotsOwned
  <2>2. \A k \in 1 .. Pending + 1 :
          Contents(Slot(k - 1))' = Contents(Slot(k - 1))
    BY <1>3, <1>4, <2>1, <1>2 DEF Contents
  <2> QED
    BY <1>3, <2>2 DEF Queued
<1>7. Queued' \in Seq(Seq(Payload)) /\ Len(Queued') = Pending + 1
  <2>1. (Queued \in Seq(Seq(Payload)) /\ Len(Queued) = Pending)'
    BY <1>1, QueuedType, PTL
  <2> QED
    BY <2>1, <1>3
<1>8. Queued \in Seq(Seq(Payload)) /\ Len(Queued) = Pending
  BY QueuedType
<1>9. p \in Seq(Payload)
  BY DEF StartTransmit, IInv, InCall
<1> DEFINE s == Append(Queued, p)
<1>10. s \in Seq(Seq(Payload)) /\ Len(s) = Pending + 1
  BY <1>8, <1>9, AppendProperties
<1>11. \A k \in 1 .. Pending + 1 : Queued'[k] = s[k]
  <2> TAKE k \in 1 .. Pending + 1
  <2>1. Queued'[k] = Contents(Slot(k - 1))
    BY <1>6
  <2>2. CASE k = Pending + 1
    BY <2>1, <2>2, <1>3, <1>5, <1>8, <1>9, AppendProperties
  <2>3. CASE k # Pending + 1
    <3>1. k \in 1 .. Pending
      BY <1>3, <2>3
    <3>2. s[k] = Queued[k]
      BY <1>8, <1>9, <3>1, AppendProperties
    <3> QED
      BY <2>1, <3>1, <3>2 DEF Queued
  <2> QED
    BY <2>2, <2>3
<1>12. Queued' = s
  BY <1>7, <1>10, <1>11, SeqEqual
<1> QED
  BY <1>3, <1>8, <1>12
(* When the MAC finishes a frame it is the oldest one of the queue, whole. *)
LEMMA DoneRemoves ==
  ASSUME IInv, DmaDone
  PROVE  /\ Queued # <<>>
         /\ wire' = Head(Queued)
         /\ Queued' = Tail(Queued)
<1> DEFINE c == TxConsumeIndex
<1>1. TypeOK /\ IInv'
  BY DmaDoneInvariant DEF IInv
<1>2. /\ TxProduceIndex \in Index /\ c \in Index
      /\ c # TxProduceIndex
      /\ TxConsumeIndex' = NextIndex(c)
      /\ UNCHANGED <<TxProduceIndex, Packet, Ctrl>>
  BY <1>1 DEF DmaDone, TypeOK
<1>3. /\ Pending \in Nat \ {0}
      /\ Pending' = Pending - 1
      /\ Slot(0) = c
      /\ \A k \in 1 .. Pending - 1 : Slot(k - 1)' = Slot(k)
  BY <1>2 DEF Pending, Slot, NextIndex, Index
<1>4. Queued \in Seq(Seq(Payload)) /\ Len(Queued) = Pending
  BY QueuedType
<1>5. (Queued \in Seq(Seq(Payload)) /\ Len(Queued) = Pending)'
  BY <1>1, QueuedType, PTL
<1>6. Queued # <<>>
  BY <1>3, <1>4
<1>7. wire' = Head(Queued)
  <2>1. /\ dmaFrame \in Seq(Payload)
        /\ Len(dmaFrame) = Ctrl[c] + 1
        /\ \A k \in 1 .. Len(dmaFrame) : dmaFrame[k] = Packet[c][k]
    BY DEF DmaDone, IInv, TypeOK, DmaPrefix
  <2>2. Contents(c) = [k \in 1 .. Len(dmaFrame) |-> dmaFrame[k]]
    BY <2>1 DEF Contents
  <2>3. Contents(c) = dmaFrame
    BY <2>1, <2>2
  <2>4. Head(Queued) = Queued[1]
    BY <1>4, <1>6
  <2>5. Queued[1] = Contents(Slot(1 - 1))
    BY <1>3 DEF Queued
  <2> QED
    BY <1>3, <2>3, <2>4, <2>5 DEF DmaDone
<1>8. /\ Tail(Queued) \in Seq(Seq(Payload))
      /\ Len(Tail(Queued)) = Pending - 1
      /\ \A k \in 1 .. Pending - 1 : Tail(Queued)[k] = Queued[k + 1]
  BY <1>4, <1>6, HeadTailProperties
<1>9. \A k \in 1 .. Pending - 1 : Queued'[k] = Queued[k + 1]
  <2> TAKE k \in 1 .. Pending - 1
  <2>1. Queued'[k] = Contents(Slot(k - 1))'
    BY <1>3 DEF Queued
  <2>2. Contents(Slot(k - 1))' = Contents(Slot(k))
    BY <1>2, <1>3 DEF Contents
  <2>3. k + 1 \in 1 .. Pending /\ (k + 1) - 1 = k
    BY <1>3
  <2>4. Queued[k + 1] = Contents(Slot((k + 1) - 1))
    BY <2>3 DEF Queued
  <2> QED
    BY <2>1, <2>2, <2>3, <2>4
<1>10. Queued' = Tail(Queued)
  BY <1>3, <1>5, <1>8, <1>9, SeqEqual
<1> QED
  BY <1>6, <1>7, <1>10

(* Every step of the path is a step of the queue, or changes nothing of it. *)
LEMMA StepRefinement ==
  ASSUME IInv, [Next]_vars
  PROVE  [Queue!Next]_(Queue!vars)
<1> USE DEF Queue!Next, Queue!vars
<1>0. TypeOK
  BY DEF IInv
<1>1. ASSUME NEW f \in Frames, Call(f) PROVE Queue!Call(f)
  <2>1. Queued' = Queued
    BY <1>0, <1>1, QueuedStays DEF Call, macVars
  <2> QED
    BY <1>1, <2>1 DEF Call, macVars, Queue!Call
<1>2. CASE GetBuffer \/ TooLong \/ Delay \/ GiveUp
  <2>1. Queued' = Queued
    BY <1>0, <1>2, QueuedStays DEF GetBuffer, TooLong, Delay, GiveUp, macVars
  <2> QED
    BY <1>2, <2>1 DEF GetBuffer, TooLong, Delay, GiveUp, macVars
<1>3. CASE CopyPbuf
  <2>1. \A i \in Index : i # TxProduceIndex => Packet'[i] = Packet[i]
    BY <1>0, <1>3 DEF CopyPbuf, IInv, BufferStaysFree, TypeOK
  <2>2. Queued' = Queued
    BY <1>0, <1>3, <2>1, QueuedStays DEF CopyPbuf, macVars
  <2> QED
    BY <1>3, <2>2 DEF CopyPbuf, macVars
<1>4. CASE SetCtrl
  <2>1. \A i \in Index : i # TxProduceIndex => Ctrl'[i] = Ctrl[i]
    BY <1>0, <1>4 DEF SetCtrl, TypeOK
  <2>2. Queued' = Queued
    BY <1>0, <1>4, <2>1, QueuedStays DEF SetCtrl, macVars
  <2> QED
    BY <1>4, <2>2 DEF SetCtrl, macVars
<1>5. CASE StartTransmit
  <2>1. xReturn = "ERR_BUF"
    BY <1>5 DEF StartTransmit, IInv, InCall
  <2> QED
    BY <1>5, <2>1, StartAppends DEF StartTransmit, macVars, Queue!Accept
<1>6. CASE DmaDone
  BY <1>6, DoneRemoves DEF DmaDone, taskVars, Queue!Transmit
<1>7. CASE DmaRead \/ Underrun
  <2>1. Queued' = Queued
    BY <1>0, <1>7, QueuedStays DEF DmaRead, Underrun
  <2> QED
    BY <1>7, <2>1 DEF DmaRead, Underrun, taskVars
<1>8. CASE Irq \/ RxDone
  <2> USE DEF Irq, IrqEnter, IrqLoop, IrqExit, RxDone, macVars, taskVars
  <2>1. Queued' = Queued
    BY <1>0, <1>8, QueuedStays
  <2> QED
    BY <1>8, <2>1
<1>9. CASE UNCHANGED vars
  <2>1. Queued' = Queued
    BY <1>0, <1>9, QueuedStays DEF vars
  <2> QED
    BY <1>9, <2>1 DEF vars
<1> QED
  BY <1>1, <1>2, <1>3, <1>4, <1>5, <1>6, <1>7, <1>8, <1>9
     DEF Next, Task, Mac

(* The transmit path implements the bounded queue of whole frames, for     *)
(* every ring size: what lwIP was answered ERR_OK for leaves on the wire   *)
(* complete, once and in order.                                            *)
THEOREM Refinement == Spec => ImplementsQueue
<1>1. Init => Queue!Init
  <2> SUFFICES ASSUME Init PROVE Queue!Init
    OBVIOUS
  <2>1. Pending = 0
    BY DEF Init, Pending
  <2>2. Queued = <<>>
    BY <2>1 DEF Queued
  <2> QED
    BY <2>2 DEF Init, Queue!Init
<1>2. IInv /\ [Next]_vars => [Queue!Next]_(Queue!vars)
  BY StepRefinement
<1> QED
  BY <1>1, <1>2, Invariance, PTL DEF Spec, ImplementsQueue, Queue!Spec
=============================================================================
