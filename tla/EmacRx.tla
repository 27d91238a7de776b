------------------------------- MODULE EmacRx -------------------------------
(***************************************************************************)
(* The receive path of the Ethernet interface: the receive descriptor ring *)
(* of the LPC177x MAC, ENET_IRQHandler with prvLowLevelInput, the pbuf and *)
(* message pools, the mailbox of the tcpip thread and the thread's main    *)
(* loop.                                                                   *)
(*                                                                         *)
(* The MAC runs in parallel with the processor.  The handler preempts the  *)
(* tasks and is preempted by nothing; the pools and the mailbox are        *)
(* protected by masking the interrupt, so an operation of a task on them   *)
(* is one step.  A frame is a record: type is what its EtherType says      *)
(* ("RUNT" for a frame too short to have one), last is the descriptor's    *)
(* LAST flag, chain is the number of pool pbufs it needs (0 when nothing   *)
(* is left after the CRC is taken off, more than the pool has when the     *)
(* unsigned subtraction of the CRC wraps around), id tells frames apart.   *)
(***************************************************************************)
EXTENDS Integers, Sequences, FiniteSets

CONSTANTS EMAC_NUM_RX_FRAG,          \* descriptors in the ring
          PBUF_POOL_SIZE,            \* pbufs in the pool
          TCPIP_MBOX_SIZE,           \* messages in the mailbox
          MEMP_NUM_TCPIP_MSG_INPKT,  \* packet messages in their pool
          MEMP_NUM_TCPIP_MSG_API,    \* callback messages in their pool
          Frames,                    \* frames the network sends
          Garbage                    \* what a buffer of the MAC holds

ASSUME RxAssumption ==
  /\ EMAC_NUM_RX_FRAG \in Nat /\ EMAC_NUM_RX_FRAG > 1
  /\ PBUF_POOL_SIZE \in Nat /\ TCPIP_MBOX_SIZE \in Nat \ {0}
  /\ MEMP_NUM_TCPIP_MSG_INPKT \in Nat /\ MEMP_NUM_TCPIP_MSG_API \in Nat
  /\ \A f \in Frames : /\ f.type \in {"IP", "OTHER", "RUNT"}
                       /\ f.last \in BOOLEAN
                       /\ f.chain \in Nat
  /\ Garbage \notin Frames

VARIABLES
  RxProduceIndex, RxConsumeIndex,   \* MAC registers
  Rx,               \* the buffer and status of each descriptor
  IntStatus,        \* pending causes of the MAC interrupt
  isr,              \* where ENET_IRQHandler is; "out" when it does not run
  cause,            \* its ulInterruptCause
  p,                \* its pbuf chain: <<>> or <<frame>>
  pbufFree,         \* free pbufs of the pool
  inpktFree,        \* free packet messages
  apiFree,          \* free callback messages
  mbox,             \* the mailbox of the tcpip thread
  msg,              \* the message the thread handles: <<>> or <<message>>
  held,             \* pbufs the stack or an application keeps
  ooseqQueued       \* pbuf_free_ooseq_queued

macVars  == <<RxProduceIndex, Rx>>
isrVars  == <<isr, cause, p, RxConsumeIndex>>
poolVars == <<pbufFree, inpktFree, apiFree>>
vars == <<RxProduceIndex, RxConsumeIndex, Rx, IntStatus, isr, cause,
          p, pbufFree, inpktFree, apiFree, mbox, msg, held, ooseqQueued>>

Index == 0 .. EMAC_NUM_RX_FRAG - 1
IntEnable == {"RX_DONE", "TX_DONE"}

(* A message is a packet, the callback of pbuf_free_ooseq, or another      *)
(* callback (both from the API pool), or an API call (on a task's stack).  *)
Packet(f) == [kind |-> "INPKT", frame |-> f]
Ooseq == [kind |-> "OOSEQ"]
Callback == [kind |-> "CALLBACK"]
Api == [kind |-> "API"]

(* sys_mbox_trypost succeeds; sys_mbox_post does not block. *)
MboxHasRoom == Len(mbox) < TCPIP_MBOX_SIZE

(* Fault: the pbufs are forgotten. *)
FaultPbufLeak(f) == UNCHANGED pbufFree

(* pbuf_free of the chain of frame f. *)
FreePbufs(f) == pbufFree' = pbufFree + f.chain

(* pbuf_free_ooseq_queued once pbuf_pool_is_empty has run. *)
OoseqFlag(posted) == ooseqQueued' = (ooseqQueued \/ posted)

(* ++idx, wrapped to 0 at the end of the ring. *)
NextIndex(i) == IF i + 1 = EMAC_NUM_RX_FRAG THEN 0 ELSE i + 1

(* The ring as rx_descr_init leaves it, the pools full, all at rest. *)
Init ==
  /\ RxProduceIndex = 0
  /\ RxConsumeIndex = 0
  /\ Rx = [i \in Index |-> Garbage]
  /\ IntStatus = {}
  /\ isr = "out"
  /\ cause = {}
  /\ p = <<>>
  /\ pbufFree = PBUF_POOL_SIZE
  /\ inpktFree = MEMP_NUM_TCPIP_MSG_INPKT
  /\ apiFree = MEMP_NUM_TCPIP_MSG_API
  /\ mbox = <<>>
  /\ msg = <<>>
  /\ held = 0
  /\ ooseqQueued = FALSE

-----------------------------------------------------------------------------
(* The MAC. *)

RingFull == NextIndex(RxProduceIndex) = RxConsumeIndex

(* Frame f has been received.  A frame that finds the ring full is lost;   *)
(* the handler is not told.                                                *)
RxFrame(f) ==
  /\ ~RingFull
  /\ Rx' = [Rx EXCEPT ![RxProduceIndex] = f]
  /\ RxProduceIndex' = NextIndex(RxProduceIndex)
  /\ IntStatus' = IntStatus \cup {"RX_DONE"}
  /\ UNCHANGED <<isrVars, poolVars, mbox, msg, held, ooseqQueued>>

(* The transmitter has sent a frame. *)
TxDone ==
  /\ IntStatus' = IntStatus \cup {"TX_DONE"}
  /\ UNCHANGED <<macVars, isrVars, poolVars, mbox, msg, held, ooseqQueued>>

-----------------------------------------------------------------------------
(* ENET_IRQHandler. *)

IrqEnter ==
  /\ isr = "out"
  /\ IntStatus \cap IntEnable # {}
  /\ isr' = "loop"
  /\ UNCHANGED <<macVars, RxConsumeIndex, IntStatus, cause, p, poolVars, mbox,
                 msg, held, ooseqQueued>>

(* The head of the loop: the causes are read; none ends the handler. *)
IrqRead ==
  /\ isr = "loop"
  /\ cause' = IntStatus
  /\ isr' = IF IntStatus = {} THEN "out" ELSE "clear"
  /\ UNCHANGED <<macVars, RxConsumeIndex, IntStatus, p, poolVars, mbox, msg,
                 held, ooseqQueued>>

(* The causes that were read are cleared.  One that has come again in the  *)
(* meantime is cleared with them.                                          *)
IrqClear ==
  /\ isr = "clear"
  /\ IntStatus' = IntStatus \ cause
  /\ cause' = {}
  /\ isr' = IF "RX_DONE" \in cause THEN "rx" ELSE "loop"
  /\ UNCHANGED <<macVars, RxConsumeIndex, p, poolVars, mbox, msg, held,
                 ooseqQueued>>

(* The current descriptor, if EMAC_CheckReceiveIndex says there is one. *)
Current == Rx[RxConsumeIndex]
EMAC_CheckReceiveIndex == RxConsumeIndex # RxProduceIndex

(* Fault: a fragment, or a frame without data, is skipped but not released. *)
FaultFragmentStays ==
  /\ isr = "rx"
  /\ ~EMAC_CheckReceiveIndex \/ ~Current.last \/ Current.chain = 0
  /\ isr' = "loop"
  /\ UNCHANGED <<macVars, RxConsumeIndex, IntStatus, cause, p, poolVars, mbox,
                 msg, held, ooseqQueued>>

(* No frame is in the ring, or it is a fragment, or it has no data. *)
IrqNothing ==
  /\ isr = "rx"
  /\ \/ ~EMAC_CheckReceiveIndex /\ isr' = "loop"
     \/ /\ EMAC_CheckReceiveIndex
        /\ ~Current.last \/ Current.chain = 0
        /\ isr' = "release"
  /\ UNCHANGED <<macVars, RxConsumeIndex, IntStatus, cause, p, poolVars, mbox,
                 msg, held, ooseqQueued>>

(* pbuf_alloc takes a chain from the pool. *)
IrqAlloc ==
  /\ isr = "rx"
  /\ EMAC_CheckReceiveIndex
  /\ Current.last
  /\ Current.chain \in 1 .. pbufFree
  /\ pbufFree' = pbufFree - Current.chain
  /\ isr' = "copy"
  /\ UNCHANGED <<macVars, RxConsumeIndex, IntStatus, cause, p, inpktFree,
                 apiFree, mbox, msg, held, ooseqQueued>>

(* The pool does not hold the chain: what was taken of it goes back, the   *)
(* frame is ignored, and pbuf_pool_is_empty asks the tcpip thread to free  *)
(* out-of-sequence segments, unless it has been asked already or cannot be *)
(* asked.                                                                  *)
IrqNoPbuf ==
  /\ isr = "rx"
  /\ EMAC_CheckReceiveIndex
  /\ Current.last
  /\ Current.chain > pbufFree
  /\ LET posted == ~ooseqQueued /\ apiFree > 0 /\ MboxHasRoom IN
     /\ OoseqFlag(posted)
     /\ IF posted THEN apiFree' = apiFree - 1 /\ mbox' = Append(mbox, Ooseq)
                  ELSE UNCHANGED <<apiFree, mbox>>
  /\ isr' = "release"
  /\ UNCHANGED <<macVars, RxConsumeIndex, IntStatus, cause, p, pbufFree,
                 inpktFree, msg, held>>

(* The data is copied to the pbufs and the frame is looked at: IP and ARP  *)
(* go on to the stack.  Of a runt the type field is whatever the pbuf      *)
(* happened to hold.                                                       *)
IrqCopy ==
  /\ isr = "copy"
  /\ \/ /\ Current.type \in {"IP", "RUNT"}
        /\ p' = <<Current>>
        /\ isr' = "input"
        /\ UNCHANGED pbufFree
     \/ /\ Current.type \in {"OTHER", "RUNT"}
        /\ FreePbufs(Current)
        /\ isr' = "release"
        /\ UNCHANGED p
  /\ UNCHANGED <<macVars, RxConsumeIndex, IntStatus, cause, inpktFree, apiFree,
                 mbox, msg, held, ooseqQueued>>

(* tcpip_input: a message is allocated and posted, or the pbufs are freed. *)
IrqInput ==
  /\ isr = "input"
  /\ IF inpktFree > 0 /\ MboxHasRoom
     THEN /\ inpktFree' = inpktFree - 1
          /\ mbox' = Append(mbox, Packet(p[1]))
          /\ UNCHANGED pbufFree
     ELSE FreePbufs(p[1]) /\ UNCHANGED <<inpktFree, mbox>>
  /\ p' = <<>>
  /\ isr' = "release"
  /\ UNCHANGED <<macVars, RxConsumeIndex, IntStatus, cause, apiFree, msg, held,
                 ooseqQueued>>

(* Fault: the frame is not released. *)
FaultNotReleased ==
  /\ isr = "release"
  /\ isr' = "loop"
  /\ UNCHANGED <<macVars, RxConsumeIndex, IntStatus, cause, p, poolVars, mbox,
                 msg, held, ooseqQueued>>

(* EMAC_UpdateRxConsumeIndex, and back to the head of the loop.  The MAC   *)
(* may write to the buffer from now on: what it holds is undefined.        *)
IrqRelease ==
  /\ isr = "release"
  /\ RxConsumeIndex' = NextIndex(RxConsumeIndex)
  /\ Rx' = [Rx EXCEPT ![RxConsumeIndex] = Garbage]
  /\ isr' = "loop"
  /\ UNCHANGED <<RxProduceIndex, IntStatus, cause, p, poolVars, mbox, msg,
                 held, ooseqQueued>>

-----------------------------------------------------------------------------
(* The tcpip thread. *)

Fetch ==
  /\ isr = "out" /\ msg = <<>>
  /\ mbox # <<>>
  /\ msg' = <<Head(mbox)>>
  /\ mbox' = Tail(mbox)
  /\ UNCHANGED <<macVars, isrVars, IntStatus, poolVars, held, ooseqQueued>>

(* TCPIP_MSG_INPKT, ethernet_input: the stack frees the pbufs or keeps     *)
(* them (a TCP segment, a datagram in a netconn, a packet waiting for ARP).*)
Input ==
  /\ isr = "out" /\ msg # <<>>
  /\ msg[1].kind = "INPKT"
  /\ msg' = <<[kind |-> "DONE"]>>
  /\ \/ FreePbufs(msg[1].frame) /\ UNCHANGED held
     \/ held' = held + msg[1].frame.chain /\ UNCHANGED pbufFree
  /\ UNCHANGED <<macVars, isrVars, IntStatus, inpktFree, apiFree, mbox,
                 ooseqQueued>>

(* memp_free of the packet message. *)
FreeInpkt ==
  /\ isr = "out" /\ msg # <<>>
  /\ msg[1].kind = "DONE"
  /\ inpktFree' = inpktFree + 1
  /\ msg' = <<>>
  /\ UNCHANGED <<macVars, isrVars, IntStatus, pbufFree, apiFree, mbox, held,
                 ooseqQueued>>

(* TCPIP_MSG_CALLBACK, pbuf_free_ooseq: the flag is reset first. *)
OoseqReset ==
  /\ isr = "out" /\ msg = <<Ooseq>>
  /\ ooseqQueued' = FALSE
  /\ msg' = <<Callback>>
  /\ UNCHANGED <<macVars, isrVars, IntStatus, poolVars, mbox, held>>

(* The callback frees kept segments (pbuf_free_ooseq) or does something    *)
(* else, and its message goes back to the API pool.                        *)
RunCallback ==
  /\ isr = "out" /\ msg = <<Callback>>
  /\ \E n \in 0 .. held : held' = held - n /\ pbufFree' = pbufFree + n
  /\ apiFree' = apiFree + 1
  /\ msg' = <<>>
  /\ UNCHANGED <<macVars, isrVars, IntStatus, inpktFree, mbox, ooseqQueued>>

(* TCPIP_MSG_API: the message is not from a pool. *)
RunApi ==
  /\ isr = "out" /\ msg = <<Api>>
  /\ msg' = <<>>
  /\ UNCHANGED <<macVars, isrVars, IntStatus, poolVars, mbox, held,
                 ooseqQueued>>

(* An application is done with a kept packet, or a timer drops it. *)
StackFree ==
  /\ isr = "out"
  /\ held > 0
  /\ held' = held - 1
  /\ pbufFree' = pbufFree + 1
  /\ UNCHANGED <<macVars, isrVars, IntStatus, inpktFree, apiFree, mbox, msg,
                 ooseqQueued>>

-----------------------------------------------------------------------------
(* The other tasks. *)

(* tcpip_callback_with_block(.., 1), when it succeeds. *)
PostCallback ==
  /\ isr = "out"
  /\ apiFree > 0
  /\ MboxHasRoom
  /\ apiFree' = apiFree - 1
  /\ mbox' = Append(mbox, Callback)
  /\ UNCHANGED <<macVars, isrVars, IntStatus, pbufFree, inpktFree, msg, held,
                 ooseqQueued>>

(* tcpip_apimsg: the caller waits, so there is one such message at a time. *)
PostApi ==
  /\ isr = "out"
  /\ MboxHasRoom
  /\ \A i \in 1 .. Len(mbox) : mbox[i] # Api
  /\ msg # <<Api>>
  /\ mbox' = Append(mbox, Api)
  /\ UNCHANGED <<macVars, isrVars, IntStatus, poolVars, msg, held,
                 ooseqQueued>>

-----------------------------------------------------------------------------
Mac == (\E f \in Frames : RxFrame(f)) \/ TxDone
Irq == IrqEnter \/ IrqRead \/ IrqClear \/ IrqNothing \/ IrqAlloc \/ IrqNoPbuf
         \/ IrqCopy \/ IrqInput \/ IrqRelease
Thread == Fetch \/ Input \/ FreeInpkt \/ OoseqReset \/ RunCallback \/ RunApi

Next == Mac \/ Irq \/ Thread \/ StackFree \/ PostCallback \/ PostApi

Spec == Init /\ [][Next]_vars

(* The handler runs when a cause is pending, and the tcpip thread, which   *)
(* has the highest priority of the tasks, runs between two interrupts.     *)
FairSpec == Spec /\ WF_vars(Irq) /\ SF_vars(Thread)

-----------------------------------------------------------------------------
(* Types of the registers, the pools and the queues. *)
TypeOK ==
  /\ RxProduceIndex \in Index /\ RxConsumeIndex \in Index
  /\ Rx \in [Index -> Frames \cup {Garbage}]
  /\ ooseqQueued \in BOOLEAN
  /\ IntStatus \subseteq {"RX_DONE", "TX_DONE"}
  /\ cause \subseteq {"RX_DONE", "TX_DONE"}
  /\ isr \in {"out", "loop", "clear", "rx", "copy", "input", "release"}
  /\ p = <<>> \/ p[1] \in Frames
  /\ pbufFree \in 0 .. PBUF_POOL_SIZE
  /\ inpktFree \in 0 .. MEMP_NUM_TCPIP_MSG_INPKT
  /\ apiFree \in 0 .. MEMP_NUM_TCPIP_MSG_API
  /\ Len(mbox) <= TCPIP_MBOX_SIZE
  /\ Len(msg) <= 1
  /\ held \in 0 .. PBUF_POOL_SIZE

(* Messages of the given kinds that wait or are being handled. *)
InFlight(kinds) ==
  Cardinality({i \in 1 .. Len(mbox) : mbox[i].kind \in kinds})
    + Cardinality({i \in 1 .. Len(msg) : msg[i].kind \in kinds})

(* How many pbufs the packets in a sequence of messages have: pairs of a   *)
(* message and a pbuf of its chain.                                        *)
PbufsIn(s) ==
  Cardinality({c \in (1 .. Len(s)) \X (1 .. PBUF_POOL_SIZE) :
                 s[c[1]].kind = "INPKT" /\ c[2] <= s[c[1]].frame.chain})

(* No pbuf is lost or freed twice, on any way a frame can take through the *)
(* handler and the thread: those that are not in the pool are in the       *)
(* handler, in a message, or kept by the stack.                            *)
PbufsConserved ==
  PBUF_POOL_SIZE = pbufFree + held + PbufsIn(mbox) + PbufsIn(msg)
                     + IF isr \in {"copy", "input"} THEN Current.chain ELSE 0

(* No message is lost or freed twice either. *)
MessagesConserved ==
  /\ MEMP_NUM_TCPIP_MSG_INPKT = inpktFree + InFlight({"INPKT", "DONE"})
  /\ MEMP_NUM_TCPIP_MSG_API = apiFree + InFlight({"OOSEQ", "CALLBACK"})

(* pbuf_free_ooseq_queued is set exactly while the request is under way:   *)
(* were it set without one, out-of-sequence segments would never be freed  *)
(* again.                                                                  *)
OoseqFlagMatches == InFlight({"OOSEQ"}) = IF ooseqQueued THEN 1 ELSE 0

(* What was taken from a pool is somewhere, and once, whichever way the    *)
(* frames of ENET_IRQHandler and the messages of tcpip_input have taken.   *)
PoolsConserved == /\ TypeOK
                  /\ PbufsConserved
                  /\ MessagesConserved
                  /\ OoseqFlagMatches

(* The descriptor k after i, and how many there are from i up to, and      *)
(* without, j.                                                             *)
After(i, k) == IF i + k < EMAC_NUM_RX_FRAG THEN i + k ELSE i + k - EMAC_NUM_RX_FRAG
Ahead(i, j) == IF i <= j THEN j - i ELSE j - i + EMAC_NUM_RX_FRAG

(* Frames in the ring the handler has not dealt with, oldest first. *)
Undealt == IF isr = "release" THEN NextIndex(RxConsumeIndex) ELSE RxConsumeIndex
InRing == [k \in 1 .. Ahead(Undealt, RxProduceIndex) |-> Rx[After(Undealt, k - 1)]]

(* Frames in a sequence of messages, oldest first: the k-th is that of the *)
(* packet which has k packets up to its place.                             *)
PacketsUpTo(s, i) == Cardinality({j \in 1 .. i : s[j].kind = "INPKT"})
PlaceOf(s, k) ==
  CHOOSE i \in 1 .. Len(s) : s[i].kind = "INPKT" /\ PacketsUpTo(s, i) = k
FramesIn(s) == [k \in 1 .. PacketsUpTo(s, Len(s)) |-> s[PlaceOf(s, k)].frame]

(* Every frame the stack sees has arrived, is seen once, in order of       *)
(* arrival, and is not mixed with a frame the MAC writes meanwhile.        *)
InOrder == INSTANCE LossyQueue WITH
             queue <- FramesIn(msg) \o FramesIn(mbox) \o InRing
ImplementsLossyQueue == InOrder!Spec

(* A full ring does not stay full: the interface cannot go deaf. *)
RingDrains == RingFull ~> ~RingFull

(* "They should be read out and released": the oldest frame in the ring is *)
(* taken out of it, even if no other frame follows.                        *)
FrameIsReadOut ==
  \A i \in Index : EMAC_CheckReceiveIndex /\ RxConsumeIndex = i
                     ~> RxConsumeIndex # i
=============================================================================
