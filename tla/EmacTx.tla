------------------------------- MODULE EmacTx -------------------------------
(***************************************************************************)
(* The transmit path of the Ethernet interface: prvLowLevelOutput, which   *)
(* the tcpip thread runs, the transmit descriptor ring of the LPC177x MAC, *)
(* and the part of ENET_IRQHandler that looks after the transmitter.       *)
(*                                                                         *)
(* A frame is the sequence of the payloads of its pbuf chain; a payload is *)
(* the unit of length, of copying and of the MAC's reading.  The MAC runs  *)
(* in parallel with the processor; the interrupt handler preempts the      *)
(* tcpip thread, never the other way round.                                *)
(***************************************************************************)
EXTENDS Integers, Sequences

CONSTANTS EMAC_NUM_TX_FRAG,       \* descriptors in the ring
          EMAC_ETH_MAX_FLEN,      \* length of one transmit buffer
          netifMAX_TX_ATTEMPTS,   \* tries before a frame is given up
          Payload,                \* contents of one pbuf
          Frames                  \* frames handed to the interface

ASSUME TxFragAssumption == EMAC_NUM_TX_FRAG \in Nat /\ EMAC_NUM_TX_FRAG > 1
ASSUME MaxFlenAssumption == EMAC_ETH_MAX_FLEN \in Nat /\ EMAC_ETH_MAX_FLEN > 1
ASSUME AttemptsAssumption ==
         netifMAX_TX_ATTEMPTS \in Nat /\ netifMAX_TX_ATTEMPTS > 0
ASSUME FramesAssumption == Frames \subseteq Seq(Payload) \ {<<>>}

VARIABLES
  TxProduceIndex, TxConsumeIndex,   \* MAC registers
  Packet,          \* Tx_Desc[i].Packet: the buffer of descriptor i
  Ctrl,            \* Tx_Desc[i].Ctrl: length minus one
  IntStatus,       \* pending causes of the MAC interrupt
  stalled,         \* the transmitter has stopped on an underrun
  dmaFrame,        \* what the MAC has read so far of the frame it sends
  wire,            \* the last frame sent
  pc,              \* where the tcpip thread is in prvLowLevelOutput
  p, q, x, pucChar, xReturn,        \* its local variables
  xInsideISR       \* 1 while ENET_IRQHandler runs

macVars  == <<TxConsumeIndex, stalled, dmaFrame, wire>>
taskVars == <<pc, p, q, x, pucChar, xReturn>>
vars == <<TxProduceIndex, TxConsumeIndex, Packet, Ctrl, IntStatus, stalled,
          dmaFrame, wire, pc, p, q, x, pucChar, xReturn, xInsideISR>>

Index == 0 .. EMAC_NUM_TX_FRAG - 1

(* ++idx, wrapped to 0 at the end of the ring. *)
NextIndex(i) == IF i + 1 = EMAC_NUM_TX_FRAG THEN 0 ELSE i + 1

(* The interrupts EMAC_Init enables; IntStatus shows the others as well. *)
IntEnable == {"RX_DONE", "TX_DONE"}

(* The ring as tx_descr_init leaves it, and the interface at rest. *)
Init ==
  /\ TxProduceIndex = 0
  /\ TxConsumeIndex = 0
  /\ Packet = [i \in Index |-> <<>>]
  /\ Ctrl = [i \in Index |-> 0]
  /\ IntStatus = {}
  /\ stalled = FALSE
  /\ dmaFrame = <<>>
  /\ wire = <<>>
  /\ pc = "idle"
  /\ p = <<>>
  /\ q = 0
  /\ x = 0
  /\ pucChar = 0
  /\ xReturn = "ERR_OK"
  /\ xInsideISR = 0

-----------------------------------------------------------------------------
(* The driver's view of the ring. *)

(* Fault: the wrapped case of the test below is forgotten. *)
FaultNoWrap == TxProduceIndex # TxConsumeIndex - 1

(* TRUE when the producer may fill another buffer.  tmp is unsigned: for   *)
(* tmp = 0, tmp - 1 is 2^32 - 1 in the code and -1 here, and neither is an *)
(* index, so the first test never succeeds and the second one is needed.   *)
EMAC_CheckTransmitIndex ==
  LET tmp == TxConsumeIndex IN
  /\ TxProduceIndex # tmp - 1
  /\ ~(tmp = 0 /\ TxProduceIndex = EMAC_NUM_TX_FRAG - 1)

(* Buffer buf after piece v has been written at place k, which is at most  *)
(* one beyond what it holds.  What an earlier, longer frame left behind    *)
(* place k stays there.                                                    *)
Store(buf, k, v) == IF k <= Len(buf) THEN [buf EXCEPT ![k] = v]
                                     ELSE Append(buf, v)

-----------------------------------------------------------------------------
(* prvLowLevelOutput: the tcpip thread. *)

(* Fault: a frame that fills the buffer to the last place is let through. *)
FaultFits == Len(p) <= EMAC_ETH_MAX_FLEN

(* The data fits in the transmit buffer. *)
Fits == Len(p) < EMAC_ETH_MAX_FLEN

(* The condition of the loop over the attempts. *)
AttemptsLeft == x < netifMAX_TX_ATTEMPTS

(* netif->linkoutput is called with frame f. *)
Call(f) ==
  /\ pc = "idle" /\ xInsideISR = 0
  /\ pc' = "check"
  /\ p' = f
  /\ x' = 0
  /\ xReturn' = "ERR_BUF"
  /\ UNCHANGED <<TxProduceIndex, Packet, Ctrl, IntStatus, q, pucChar,
                 xInsideISR, macVars>>

(* A buffer is free and the frame fits: EMAC_NextPacketToSend. *)
GetBuffer ==
  /\ pc = "check" /\ xInsideISR = 0
  /\ AttemptsLeft
  /\ EMAC_CheckTransmitIndex
  /\ Fits
  /\ pucChar' = TxProduceIndex
  /\ q' = 0
  /\ pc' = "copy"
  /\ UNCHANGED <<TxProduceIndex, Packet, Ctrl, IntStatus, p, x, xReturn,
                 xInsideISR, macVars>>

(* A buffer is free but the frame is too long: the call ends with ERR_BUF. *)
TooLong ==
  /\ pc = "check" /\ xInsideISR = 0
  /\ AttemptsLeft
  /\ EMAC_CheckTransmitIndex
  /\ ~Fits
  /\ pc' = "idle"
  /\ UNCHANGED <<TxProduceIndex, Packet, Ctrl, IntStatus, p, q, x, pucChar,
                 xReturn, xInsideISR, macVars>>

(* Fault: the attempts are not counted. *)
FaultNoCount ==
  /\ pc = "check" /\ xInsideISR = 0
  /\ AttemptsLeft
  /\ ~EMAC_CheckTransmitIndex
  /\ UNCHANGED vars

(* The ring is full: vTaskDelay, then the next attempt. *)
Delay ==
  /\ pc = "check" /\ xInsideISR = 0
  /\ AttemptsLeft
  /\ ~EMAC_CheckTransmitIndex
  /\ x' = x + 1
  /\ UNCHANGED <<TxProduceIndex, Packet, Ctrl, IntStatus, pc, p, q, pucChar,
                 xReturn, xInsideISR, macVars>>

(* All attempts are used up: the call ends with ERR_BUF. *)
GiveUp ==
  /\ pc = "check" /\ xInsideISR = 0
  /\ ~AttemptsLeft
  /\ pc' = "idle"
  /\ UNCHANGED <<TxProduceIndex, Packet, Ctrl, IntStatus, p, q, x, pucChar,
                 xReturn, xInsideISR, macVars>>

(* memcpy of the next pbuf of the chain. *)
CopyPbuf ==
  /\ pc = "copy" /\ xInsideISR = 0
  /\ q < Len(p)
  /\ q' = q + 1
  /\ Packet' = [Packet EXCEPT ![pucChar] = Store(@, q + 1, p[q + 1])]
  /\ UNCHANGED <<TxProduceIndex, Ctrl, IntStatus, pc, p, x, pucChar, xReturn,
                 xInsideISR, macVars>>

(* Fault: the descriptor is handed over before its length is written. *)
FaultHandOverFirst ==
  /\ pc = "copy" /\ xInsideISR = 0
  /\ q = Len(p)
  /\ TxProduceIndex' = NextIndex(TxProduceIndex)
  /\ pc' = "start"
  /\ UNCHANGED <<Packet, Ctrl, IntStatus, p, q, x, pucChar, xReturn,
                 xInsideISR, macVars>>

(* EMAC_StartTransmitNextBuffer, first half: the descriptor's length. *)
SetCtrl ==
  /\ pc = "copy" /\ xInsideISR = 0
  /\ q = Len(p)
  /\ Ctrl' = [Ctrl EXCEPT ![TxProduceIndex] = Len(p) - 1]
  /\ pc' = "start"
  /\ UNCHANGED <<TxProduceIndex, Packet, IntStatus, p, q, x, pucChar, xReturn,
                 xInsideISR, macVars>>

(* Second half: the descriptor is given to the MAC and the call ends. *)
StartTransmit ==
  /\ pc = "start" /\ xInsideISR = 0
  /\ TxProduceIndex' = NextIndex(TxProduceIndex)
  /\ xReturn' = "ERR_OK"
  /\ pc' = "idle"
  /\ UNCHANGED <<Packet, Ctrl, IntStatus, p, q, x, pucChar, xInsideISR,
                 macVars>>

-----------------------------------------------------------------------------
(* The MAC. *)

(* It fetches the next piece of the frame at TxConsumeIndex. *)
DmaRead ==
  /\ ~stalled
  /\ TxConsumeIndex # TxProduceIndex
  /\ Len(dmaFrame) <= Ctrl[TxConsumeIndex]
  /\ dmaFrame' = Append(dmaFrame, Packet[TxConsumeIndex][Len(dmaFrame) + 1])
  /\ UNCHANGED <<TxProduceIndex, TxConsumeIndex, Packet, Ctrl, IntStatus,
                 stalled, wire, taskVars, xInsideISR>>

(* The frame is out; EMAC_TCTRL_INT asks for the TX_DONE interrupt. *)
DmaDone ==
  /\ ~stalled
  /\ TxConsumeIndex # TxProduceIndex
  /\ Len(dmaFrame) = Ctrl[TxConsumeIndex] + 1
  /\ wire' = dmaFrame
  /\ dmaFrame' = <<>>
  /\ TxConsumeIndex' = NextIndex(TxConsumeIndex)
  /\ IntStatus' = IntStatus \cup {"TX_DONE"}
  /\ UNCHANGED <<TxProduceIndex, Packet, Ctrl, stalled, taskVars, xInsideISR>>

(* The MAC runs out of data in the middle of a frame and stops. *)
Underrun ==
  /\ ~stalled
  /\ dmaFrame # <<>>
  /\ stalled' = TRUE
  /\ dmaFrame' = <<>>
  /\ IntStatus' = IntStatus \cup {"TX_UNDERRUN"}
  /\ UNCHANGED <<TxProduceIndex, TxConsumeIndex, Packet, Ctrl, wire, taskVars,
                 xInsideISR>>

(* A frame has been received. *)
RxDone ==
  /\ IntStatus' = IntStatus \cup {"RX_DONE"}
  /\ UNCHANGED <<TxProduceIndex, Packet, Ctrl, taskVars, xInsideISR, macVars>>

-----------------------------------------------------------------------------
(* ENET_IRQHandler, as far as the transmitter is concerned. *)

IrqEnter ==
  /\ xInsideISR = 0
  /\ IntStatus \cap IntEnable # {}
  /\ xInsideISR' = 1
  /\ UNCHANGED <<TxProduceIndex, Packet, Ctrl, IntStatus, taskVars, macVars>>

(* One turn of the loop: the causes are cleared, and TX_RES restarts a     *)
(* transmitter that has stopped, at the frame it stopped in.               *)
IrqLoop ==
  /\ xInsideISR = 1
  /\ IntStatus # {}
  /\ IntStatus' = {}
  /\ stalled' = (stalled /\ "TX_UNDERRUN" \notin IntStatus)
  /\ UNCHANGED <<TxProduceIndex, TxConsumeIndex, Packet, Ctrl, dmaFrame, wire,
                 taskVars, xInsideISR>>

IrqExit ==
  /\ xInsideISR = 1
  /\ IntStatus = {}
  /\ xInsideISR' = 0
  /\ UNCHANGED <<TxProduceIndex, Packet, Ctrl, IntStatus, taskVars, macVars>>

-----------------------------------------------------------------------------
Task == GetBuffer \/ TooLong \/ Delay \/ GiveUp \/ CopyPbuf \/ SetCtrl
          \/ StartTransmit
Irq == IrqEnter \/ IrqLoop \/ IrqExit
Mac == DmaRead \/ DmaDone

Next == (\E f \in Frames : Call(f)) \/ Task \/ Irq \/ Mac \/ Underrun \/ RxDone

Spec == Init /\ [][Next]_vars

(* The tcpip thread has the highest priority of the tasks, and a frame     *)
(* takes longer on the wire than its interrupt takes to handle: the        *)
(* handler gets to the end of its loop and the thread gets to run.         *)
FairSpec == Spec /\ WF_vars(Irq) /\ SF_vars(IrqExit) /\ SF_vars(Task)
                 /\ WF_vars(Mac)

-----------------------------------------------------------------------------
(* The descriptors the MAC owns. *)
Owned == IF TxConsumeIndex <= TxProduceIndex
         THEN TxConsumeIndex .. TxProduceIndex - 1
         ELSE Index \ (TxProduceIndex .. TxConsumeIndex - 1)

(* The buffer that is k places behind TxConsumeIndex in the ring. *)
Slot(k) == IF TxConsumeIndex + k < EMAC_NUM_TX_FRAG
           THEN TxConsumeIndex + k
           ELSE TxConsumeIndex + k - EMAC_NUM_TX_FRAG

(* How many descriptors the MAC owns. *)
Pending == IF TxConsumeIndex <= TxProduceIndex
           THEN TxProduceIndex - TxConsumeIndex
           ELSE TxProduceIndex - TxConsumeIndex + EMAC_NUM_TX_FRAG

(* The frame descriptor i stands for: the first Ctrl + 1 pieces. *)
Contents(i) == [k \in 1 .. Ctrl[i] + 1 |-> Packet[i][k]]

(* The frames in the ring, oldest first. *)
Queued == [k \in 1 .. Pending |-> Contents(Slot(k - 1))]

-----------------------------------------------------------------------------
(* Types of the registers, the ring and the locals. *)
TypeOK ==
  /\ TxProduceIndex \in Index
  /\ TxConsumeIndex \in Index
  /\ Packet \in [Index -> Seq(Payload)]
  /\ Ctrl \in [Index -> 0 .. EMAC_ETH_MAX_FLEN - 1]
  /\ IntStatus \subseteq {"RX_DONE", "TX_DONE", "TX_UNDERRUN"}
  /\ stalled \in BOOLEAN
  /\ dmaFrame \in Seq(Payload)
  /\ wire \in Seq(Payload)
  /\ pc \in {"idle", "check", "copy", "start"}
  /\ p \in Frames \cup {<<>>}
  /\ q \in Nat
  /\ x \in 0 .. netifMAX_TX_ATTEMPTS
  /\ pucChar \in Index
  /\ xReturn \in {"ERR_OK", "ERR_BUF"}
  /\ xInsideISR \in {0, 1}

(* "Get a pointer to the Tx buffer that is now known to be free": while    *)
(* prvLowLevelOutput copies into a buffer, however long it is preempted    *)
(* and whatever the MAC does meanwhile, that buffer stays the one          *)
(* EMAC_StartTransmitNextBuffer will hand over, and handing it over cannot *)
(* make a full ring look empty.                                            *)
BufferStaysFree ==
  pc \in {"copy", "start"} => /\ pucChar = TxProduceIndex
                              /\ NextIndex(TxProduceIndex) # TxConsumeIndex

(* No frame, of whatever length, is written beyond the end of a buffer,    *)
(* and no descriptor makes the MAC read beyond it.                         *)
BufferBounds ==
  \A i \in Index : /\ Len(Packet[i]) < EMAC_ETH_MAX_FLEN
                   /\ i \in Owned => Ctrl[i] < Len(Packet[i])

(* The path behaves as a bounded queue of whole frames: in order, none     *)
(* lost, doubled or mixed with another, and answered ERR_OK exactly when   *)
(* queued.                                                                 *)
Queue == INSTANCE FrameQueue WITH
           Capacity <- EMAC_NUM_TX_FRAG - 1,
           queue <- Queued, arg <- p, result <- xReturn
ImplementsQueue == Queue!Spec

(* prvLowLevelOutput returns to the tcpip thread, also when the            *)
(* transmitter has stopped and the ring never drains.                      *)
OutputReturns == pc # "idle" ~> pc = "idle"
=============================================================================
