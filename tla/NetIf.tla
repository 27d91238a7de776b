-------------------------------- MODULE NetIf --------------------------------
(***************************************************************************)
(* Bringing up the network interface and following its link: network_init  *)
(* with EMAC_Init and the PHY access, which the tcpip thread runs;         *)
(* vSetupIFTask, which waits for it and then polls the PHY; the link       *)
(* callbacks between the two; and the part of vblinkIFTask that holds the  *)
(* PHY in reset until the FPGA is configured.                              *)
(*                                                                         *)
(* The tcpip thread has the highest priority of the three tasks, then the  *)
(* link monitor, then the blink task: a task takes a step only while the   *)
(* ones above it are blocked, and is preempted between any two accesses to *)
(* a register of the MII.  A PHY register is the set of its bits that are  *)
(* set, as far as the driver looks at them.                                *)
(***************************************************************************)
EXTENDS Integers, Sequences

CONSTANTS EMAC_PHY_RESP_TOUT,      \* polls of the PHY before it is given up
          TCPIP_MBOX_SIZE,         \* messages in the mailbox
          MEMP_NUM_TCPIP_MSG_API   \* callback messages in their pool

ASSUME ToutAssumption == EMAC_PHY_RESP_TOUT \in Nat \ {0}
ASSUME MboxAssumption == TCPIP_MBOX_SIZE \in Nat \ {0}
(* lwipopts.h: 6 and 8.  One message may be in the hands of the tcpip      *)
(* thread and one in the hands of the monitor.                             *)
ASSUME ApiAssumption == /\ MEMP_NUM_TCPIP_MSG_API \in Nat
                        /\ MEMP_NUM_TCPIP_MSG_API >= TCPIP_MBOX_SIZE + 2

VARIABLES
  cable,           \* what is plugged in: "none", or the duplex mode it gives
  done,            \* the FPGA's DONE pin
  hold,            \* the PHY's reset pin is asserted
  resetting, autoDone, link, full,   \* the PHY's state
  MADR, MRDD,      \* the MII registers of the MAC
  tc,              \* where the tcpip thread is; "loop" is its main loop
  tout,            \* its counter of polls
  macFull,         \* the MAC is configured for full duplex
  irqEnabled,      \* the Ethernet interrupt is enabled
  linkFlag,        \* NETIF_FLAG_LINK_UP
  mbox,            \* the mailbox of the tcpip thread
  msg,             \* the message it handles: <<>> or <<message>>
  apiFree,         \* free callback messages
  tcpipdone,       \* shared with the monitor
  mon,             \* where the monitor is
  physts, phystsprev   \* its local variables

cableVars == <<cable, done>>
phyVars == <<hold, resetting, autoDone, link, full>>
miiVars == <<MADR, MRDD>>
emacVars == <<macFull, irqEnabled>>
queueVars == <<mbox, msg, apiFree>>
monVars == <<mon, physts, phystsprev>>
vars == <<cable, done, hold, resetting, autoDone, link, full, MADR, MRDD, tc,
          tout, macFull, irqEnabled, linkFlag, mbox, msg, apiFree, tcpipdone,
          mon, physts, phystsprev>>

Register == {"BMCR", "BMSR", "IDR", "ESR"}
Bit == {"RESET", "AUTO_DONE", "LINK", "FULL_DUP", "ID"}

(* tcpip_init has created the thread.  psu_init has released the PHY, and  *)
(* the FPGA may or may not be configured.                                  *)
Init ==
  /\ cable \in {"none", "half", "full"}
  /\ done \in BOOLEAN
  /\ hold = FALSE /\ resetting = FALSE
  /\ autoDone = FALSE /\ link = FALSE /\ full = FALSE
  /\ MADR = "BMCR" /\ MRDD = {}
  /\ tc = "init" /\ tout = 0
  /\ macFull = FALSE /\ irqEnabled = FALSE /\ linkFlag = FALSE
  /\ mbox = <<>> /\ msg = <<>>
  /\ apiFree = MEMP_NUM_TCPIP_MSG_API
  /\ tcpipdone = 0
  /\ mon = "wait" /\ physts = 0 /\ phystsprev = 0

-----------------------------------------------------------------------------
(* The cable, the FPGA and the PHY. *)

Plug ==
  /\ cable' \in {"none", "half", "full"} \ {cable}
  /\ UNCHANGED <<done, phyVars, miiVars, tc, tout, emacVars, linkFlag,
                 queueVars, tcpipdone, monVars>>

Configure ==
  /\ done' = ~done
  /\ UNCHANGED <<cable, phyVars, miiVars, tc, tout, emacVars, linkFlag,
                 queueVars, tcpipdone, monVars>>

(* The PHY has finished a reset, has negotiated a link, or has lost it. *)
PhyStep ==
  /\ ~hold
  /\ \/ resetting /\ resetting' = FALSE /\ UNCHANGED <<autoDone, link, full>>
     \/ /\ ~resetting /\ ~link
        /\ cable # "none"
        /\ autoDone' = TRUE /\ link' = TRUE
        /\ full' = (cable = "full")
        /\ UNCHANGED resetting
     \/ /\ link
        /\ cable = "none" \/ full # (cable = "full")
        /\ autoDone' = FALSE /\ link' = FALSE
        /\ UNCHANGED <<resetting, full>>
  /\ UNCHANGED <<cableVars, hold, miiVars, tc, tout, emacVars, linkFlag,
                 queueVars, tcpipdone, monVars>>

(* What a read of register r may return.  Nobody drives the data line      *)
(* while the PHY is held in reset.  The LINK bit of the extended status    *)
(* register means something else there, and may be set or not.             *)
RegBits(r) ==
  IF hold THEN {{}, Bit}
  ELSE CASE r = "BMCR" -> {{b \in {"RESET"} : resetting}}
         [] r = "BMSR" -> {{b \in Bit : \/ b = "AUTO_DONE" /\ autoDone
                                        \/ b = "LINK" /\ link}}
         [] r = "IDR"  -> {{"ID"}}
         [] r = "ESR"  -> {{b \in Bit : b = "FULL_DUP" /\ full} \cup x :
                             x \in {{}, {"LINK"}}}

(* read_PHY of the tcpip thread, which nothing preempts: the command is    *)
(* given and the answer v is taken.                                        *)
read_PHY(r, v) ==
  /\ v \in RegBits(r)
  /\ MADR' = r
  /\ MRDD' = v

-----------------------------------------------------------------------------
(* The tcpip thread: network_init. *)

(* network_init first tells the monitor that it is done, then adds the     *)
(* interface.  prvLowLevelInit sets the flag; EMAC_Init resets the MAC and *)
(* waits.                                                                  *)
StartInit ==
  /\ tc = "init"
  /\ tcpipdone' = 1
  /\ linkFlag' = TRUE
  /\ macFull' = FALSE
  /\ tc' = "macDelay"
  /\ UNCHANGED <<cableVars, phyVars, miiVars, tout, irqEnabled, queueVars,
                 monVars>>

(* The same when ethernetif_init gets no memory for its private data. *)
StartNoMemory ==
  /\ tc = "init"
  /\ tcpipdone' = 1
  /\ tc' = "loop"
  /\ UNCHANGED <<cableVars, phyVars, miiVars, tout, emacVars, linkFlag,
                 queueVars, monVars>>

(* The PHY is told to reset itself; it does not hear it while it is held   *)
(* in reset.                                                               *)
ResetPhy ==
  /\ tc = "macDelay"
  /\ MADR' = "BMCR"
  /\ IF hold THEN UNCHANGED <<resetting, autoDone, link>>
             ELSE resetting' = TRUE /\ autoDone' = FALSE /\ link' = FALSE
  /\ tout' = EMAC_PHY_RESP_TOUT
  /\ tc' = "reset"
  /\ UNCHANGED <<cableVars, hold, full, MRDD, emacVars, linkFlag, queueVars,
                 tcpipdone, monVars>>

(* Fault: the polls are not counted. *)
FaultNoCount == UNCHANGED tout

(* tout-- *)
CountPoll == tout' = tout - 1

(* One turn of a loop that polls register r at place here: it goes on to   *)
(* next when ok(v) holds of what is read, or when the turns are used up.   *)
(* The timeout inside the loop tests tout == 0, which the loop's own       *)
(* condition excludes, so no ERROR is returned.                            *)
Poll(here, r, ok(_), wait, next) ==
  /\ tc = here
  /\ \/ /\ tout > 0
        /\ \E v \in RegBits(r) :
             /\ read_PHY(r, v)
             /\ IF ok(v) THEN tc' = next /\ UNCHANGED tout
                         ELSE tc' = wait /\ CountPoll
     \/ /\ tout = 0
        /\ tc' = next
        /\ UNCHANGED <<miiVars, tout>>
  /\ UNCHANGED <<cableVars, phyVars, emacVars, linkFlag, queueVars, tcpipdone,
                 monVars>>

PollReset == Poll("reset", "BMCR", LAMBDA v : "RESET" \notin v,
                  "resetDelay", "mode")
PollAuto == Poll("auto", "BMSR", LAMBDA v : "AUTO_DONE" \in v,
                 "autoDelay", "update")

(* The loop that waits for the link has no delay in it: no other task runs.*)
PollLink == Poll("link", "BMSR", LAMBDA v : "LINK" \in v, "link", "config")

(* A vTaskDelay of one of the first two loops is over. *)
Wake ==
  /\ \/ tc = "resetDelay" /\ tc' = "reset"
     \/ tc = "autoDelay" /\ tc' = "auto"
  /\ UNCHANGED <<cableVars, phyVars, miiVars, tout, emacVars, linkFlag,
                 queueVars, tcpipdone, monVars>>

(* EMAC_SetPHYMode: any identifier but zero is accepted, and negotiation   *)
(* is switched on in the control register.  On an error the interrupt      *)
(* stays disabled, but ethernetif_init returns ERR_OK all the same.        *)
EMAC_SetPHYMode ==
  /\ tc = "mode"
  /\ \E v \in RegBits("IDR") :
       /\ MRDD' = v
       /\ IF v = {}
          THEN MADR' = "IDR" /\ tc' = "loop" /\ UNCHANGED tout
          ELSE /\ MADR' = "BMCR"
               /\ tc' = "auto" /\ tout' = EMAC_PHY_RESP_TOUT
  /\ UNCHANGED <<cableVars, phyVars, emacVars, linkFlag, queueVars, tcpipdone,
                 monVars>>

(* EMAC_UpdatePHYStatus: the polls are counted anew. *)
EMAC_UpdatePHYStatus ==
  /\ tc = "update"
  /\ tout' = EMAC_PHY_RESP_TOUT
  /\ tc' = "link"
  /\ UNCHANGED <<cableVars, phyVars, miiVars, emacVars, linkFlag, queueVars,
                 tcpipdone, monVars>>

(* The MAC is set to what the PHY has negotiated, the interrupts are       *)
(* enabled, and network_init ends with dhcp_start.                         *)
FinishInit ==
  /\ tc = "config"
  /\ \E v \in RegBits("ESR") :
       /\ read_PHY("ESR", v)
       /\ macFull' = ("FULL_DUP" \in v)
  /\ irqEnabled' = TRUE
  /\ tc' = "loop"
  /\ UNCHANGED <<cableVars, phyVars, tout, linkFlag, queueVars, tcpipdone,
                 monVars>>

-----------------------------------------------------------------------------
(* The tcpip thread: its main loop. *)

(* sys_mbox_fetch, and netif_set_link_up or netif_set_link_down if it is a *)
(* report of the monitor.  What these send (DHCP, a gratuitous ARP) may    *)
(* have to wait for a transmit buffer, so other tasks may run before the   *)
(* message is freed.                                                       *)
Handle ==
  /\ tc = "loop" /\ msg = <<>>
  /\ mbox # <<>>
  /\ msg' = <<Head(mbox)>>
  /\ mbox' = Tail(mbox)
  /\ linkFlag' = CASE Head(mbox) = "up" -> TRUE
                   [] Head(mbox) = "down" -> FALSE
                   [] OTHER -> linkFlag
  /\ UNCHANGED <<cableVars, phyVars, miiVars, tc, tout, emacVars, apiFree,
                 tcpipdone, monVars>>

(* Fault: the message of a callback is not given back to its pool. *)
FaultMessageKept ==
  /\ msg # <<>>
  /\ msg' = <<>>
  /\ UNCHANGED <<cableVars, phyVars, miiVars, tc, tout, emacVars, linkFlag,
                 mbox, apiFree, tcpipdone, monVars>>

(* memp_free of a callback's message; others come from elsewhere. *)
FreeMessage ==
  /\ msg # <<>>
  /\ msg' = <<>>
  /\ apiFree' = IF msg[1] = "other" THEN apiFree ELSE apiFree + 1
  /\ UNCHANGED <<cableVars, phyVars, miiVars, tc, tout, emacVars, linkFlag,
                 mbox, tcpipdone, monVars>>

(* sys_mbox_post does not block. *)
MboxHasRoom == Len(mbox) < TCPIP_MBOX_SIZE

(* A packet or an API call arrives in the mailbox, or the callback of      *)
(* pbuf_free_ooseq, whose message is from the same pool.                   *)
PostOther ==
  /\ MboxHasRoom
  /\ tc # "init"
  /\ \/ mbox' = Append(mbox, "other") /\ UNCHANGED apiFree
     \/ /\ apiFree > 0
        /\ mbox' = Append(mbox, "ooseq")
        /\ apiFree' = apiFree - 1
  /\ UNCHANGED <<cableVars, phyVars, miiVars, tc, tout, emacVars, linkFlag,
                 msg, tcpipdone, monVars>>

-----------------------------------------------------------------------------
(* vSetupIFTask. *)

(* The tcpip thread waits: for a delay, for a message, or for a buffer. *)
TcpipBlocked ==
  \/ tc \in {"macDelay", "resetDelay", "autoDelay"}
  \/ tc = "loop" /\ (msg # <<>> \/ mbox = <<>>)

(* It stops waiting, and starts the HTTP server. *)
StartMonitor ==
  /\ mon = "wait" /\ TcpipBlocked
  /\ tcpipdone = 1
  /\ mon' = "addr"
  /\ UNCHANGED <<cableVars, phyVars, miiVars, tc, tout, emacVars, linkFlag,
                 queueVars, tcpipdone, physts, phystsprev>>

(* EMAC_CheckPHYStatus, that is read_PHY(EMAC_PHY_REG_BMSR), in the three  *)
(* accesses between which the tcpip thread may use the MII.                *)
SetAddress ==
  /\ mon = "addr" /\ TcpipBlocked
  /\ MADR' = "BMSR"
  /\ mon' = "cmd"
  /\ UNCHANGED <<cableVars, phyVars, MRDD, tc, tout, emacVars, linkFlag,
                 queueVars, tcpipdone, physts, phystsprev>>

ReadCommand ==
  /\ mon = "cmd" /\ TcpipBlocked
  /\ MRDD' \in RegBits(MADR)
  /\ mon' = "take"
  /\ UNCHANGED <<cableVars, phyVars, MADR, tc, tout, emacVars, linkFlag,
                 queueVars, tcpipdone, physts, phystsprev>>

TakeStatus ==
  /\ mon = "take" /\ TcpipBlocked
  /\ physts' = IF "LINK" \in MRDD THEN 1 ELSE 0
  /\ mon' = "compare"
  /\ UNCHANGED <<cableVars, phyVars, miiVars, tc, tout, emacVars, linkFlag,
                 queueVars, tcpipdone, phystsprev>>

(* Fault: the new status is remembered only when the link is up. *)
FaultPrevKept == IF physts = 1 THEN 1 ELSE phystsprev

(* phystsprev = physts; *)
NewPrev == physts

(* tcpip_callback_with_block of a changed status allocates the message;    *)
(* that it may fail is not looked at.                                      *)
Compare ==
  /\ mon = "compare" /\ TcpipBlocked
  /\ phystsprev' = NewPrev
  /\ IF physts # phystsprev /\ apiFree > 0
     THEN mon' = "post" /\ apiFree' = apiFree - 1
     ELSE mon' = "sleep" /\ UNCHANGED apiFree
  /\ UNCHANGED <<cableVars, phyVars, miiVars, tc, tout, emacVars, linkFlag,
                 mbox, msg, tcpipdone, physts>>

(* sys_mbox_post, which waits for room as long as it takes. *)
Post ==
  /\ mon = "post" /\ TcpipBlocked
  /\ MboxHasRoom
  /\ mbox' = Append(mbox, IF physts = 1 THEN "up" ELSE "down")
  /\ mon' = "sleep"
  /\ UNCHANGED <<cableVars, phyVars, miiVars, tc, tout, emacVars, linkFlag,
                 msg, apiFree, tcpipdone, physts, phystsprev>>

(* The quarter of a second between two polls is over. *)
EndSleep ==
  /\ mon = "sleep" /\ TcpipBlocked
  /\ mon' = "addr"
  /\ UNCHANGED <<cableVars, phyVars, miiVars, tc, tout, emacVars, linkFlag,
                 queueVars, tcpipdone, physts, phystsprev>>

-----------------------------------------------------------------------------
(* vblinkIFTask: the PHY is in reset while the FPGA is not configured. *)
Blink ==
  /\ TcpipBlocked /\ mon \in {"wait", "sleep", "post"}
  /\ hold' = ~done
  /\ IF done THEN UNCHANGED <<resetting, autoDone, link>>
             ELSE resetting' = FALSE /\ autoDone' = FALSE /\ link' = FALSE
  /\ UNCHANGED <<cableVars, full, miiVars, tc, tout, emacVars, linkFlag,
                 queueVars, tcpipdone, monVars>>

-----------------------------------------------------------------------------
Tcpip == StartInit \/ StartNoMemory \/ ResetPhy \/ PollReset \/ PollAuto
           \/ PollLink \/ Wake \/ EMAC_SetPHYMode \/ EMAC_UpdatePHYStatus
           \/ FinishInit \/ Handle \/ FreeMessage
Monitor == StartMonitor \/ SetAddress \/ ReadCommand \/ TakeStatus \/ Compare
             \/ Post \/ EndSleep

Next == Tcpip \/ Monitor \/ Blink \/ PostOther \/ Plug \/ Configure \/ PhyStep

Spec == Init /\ [][Next]_vars

(* The tcpip thread is the first to run.  It handles a message faster than *)
(* messages arrive, so that the tasks below it get to run; a sender that   *)
(* waits for room in the mailbox is woken when a message is fetched.       *)
FairSpec == Spec /\ WF_vars(Tcpip) /\ SF_vars(Monitor)

-----------------------------------------------------------------------------
(* Types of the registers, the queues and the locals. *)
TypeOK ==
  /\ cable \in {"none", "half", "full"} /\ done \in BOOLEAN
  /\ hold \in BOOLEAN /\ resetting \in BOOLEAN
  /\ autoDone \in BOOLEAN /\ link \in BOOLEAN /\ full \in BOOLEAN
  /\ MADR \in Register /\ MRDD \in SUBSET Bit
  /\ tc \in {"init", "macDelay", "reset", "resetDelay", "mode", "auto",
             "autoDelay", "update", "link", "config", "loop"}
  /\ tout \in 0 .. EMAC_PHY_RESP_TOUT
  /\ macFull \in BOOLEAN /\ irqEnabled \in BOOLEAN /\ linkFlag \in BOOLEAN
  /\ mbox \in Seq({"up", "down", "ooseq", "other"})
  /\ Len(mbox) <= TCPIP_MBOX_SIZE
  /\ msg \in Seq({"up", "down", "ooseq", "other"}) /\ Len(msg) <= 1
  /\ apiFree \in 0 .. MEMP_NUM_TCPIP_MSG_API
  /\ tcpipdone \in {0, 1}
  /\ mon \in {"wait", "addr", "cmd", "take", "compare", "post", "sleep"}
  /\ physts \in {0, 1} /\ phystsprev \in {0, 1}

(* The reports of the monitor that wait in the mailbox. *)
IsReport(m) == m \in {"up", "down"}
ReportsWait == \E i \in 1 .. Len(mbox) : IsReport(mbox[i])
LastIsUp == \E i \in 1 .. Len(mbox) :
              /\ mbox[i] = "up"
              /\ \A j \in i + 1 .. Len(mbox) : ~IsReport(mbox[j])

(* What the interface will show once all reports under way have arrived. *)
Announced == IF mon = "post" THEN physts = 1
             ELSE IF ReportsWait THEN LastIsUp ELSE linkFlag

(* No report is lost, doubled or overtaken: what the interface has been    *)
(* told changes exactly when what the monitor remembers does, though       *)
(* vSetupIFTask never looks at what tcpip_callback_with_block returns.     *)
NoReportLost ==
  [][(phystsprev' # phystsprev \/ (Announced' # Announced /\ tc # "init"))
       => Announced' = (phystsprev' = 1)]_vars

(* The pool of callback messages is large enough for the monitor, whatever *)
(* is in the mailbox, in the thread's hands and in its own.                *)
CallbackPoolSuffices == mon = "compare" => apiFree > 0

(* network_init comes to an end, also if the PHY never answers. *)
InitEnds == <>(tc = "loop")

(* When the link stays up, the interface is up in the end and stays so,    *)
(* whatever the monitor may have read while EMAC_Init used the MII.        *)
LinkUpSettles == <>[]link => <>[]linkFlag

(* When the link is lost after the monitor has seen it, the interface      *)
(* learns it.                                                              *)
LinkLossReported == phystsprev = 1 /\ [](~link /\ ~hold) ~> ~linkFlag

(* "Wait until the TCP/IP thread is finished before continuing": the       *)
(* monitor starts after network_init has ended.                            *)
InitFinishedFirst == mon # "wait" => tc = "loop"
=============================================================================
