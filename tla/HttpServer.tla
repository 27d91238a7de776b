----------------------------- MODULE HttpServer -----------------------------
(***************************************************************************)
(* The web server of the board and the netconn layer under it:             *)
(* http_server_netconn_thread with the netconn calls it makes, the         *)
(* handlers of those calls and the TCP callbacks in api_msg.c, and the     *)
(* part of TCP that calls them: connections that are opened, reset, closed *)
(* from either side, killed for a new one, timed out, and data that is     *)
(* refused and presented again.                                            *)
(*                                                                         *)
(* The tcpip thread has the higher priority.  Everything it does - a       *)
(* segment, a timer, the handler of a call - is one action, which can come *)
(* between any two accesses of the server thread to what they share.       *)
(* Sequence numbers are left out: a segment here is one that TCP accepts.  *)
(* A request is one unit of data; every response is smaller than           *)
(* TCP_SND_BUF, so that tcp_write takes it whole or, for want of memory,   *)
(* not at all.                                                             *)
(***************************************************************************)
EXTENDS Integers, Sequences, FiniteSets

CONSTANTS MEMP_NUM_NETCONN,         \* netconns
          MEMP_NUM_TCP_PCB,         \* TCP connections
          DEFAULT_ACCEPTMBOX_SIZE, DEFAULT_TCP_RECVMBOX_SIZE,
          TCP_WND,                  \* requests the window holds
          MaxFail                   \* bound: failed allocations

(* lwipopts.h: 4 netconns, mailboxes of 6, a window of several segments.   *)
ASSUME AcceptAssumption ==
         /\ MEMP_NUM_NETCONN \in Nat \ {0}
         /\ MEMP_NUM_TCP_PCB \in Nat
         /\ DEFAULT_ACCEPTMBOX_SIZE \in Nat
         /\ MEMP_NUM_NETCONN - 1 <= DEFAULT_ACCEPTMBOX_SIZE
         /\ DEFAULT_TCP_RECVMBOX_SIZE \in Nat \ {0}
         /\ TCP_WND \in Nat \ {0}
         /\ MaxFail \in Nat

VARIABLES srv,    \* the server thread: where it is, its newconn, where a
                  \* call returns to
          call,   \* the message it has posted to the tcpip thread
          nc,     \* the netconns
          pcb,    \* the TCP connections
          fbuf,   \* what file_buffer holds
          fails,  \* allocations that have failed
          stale   \* a callback has run on a netconn that was freed

vars == <<srv, call, nc, pcb, fbuf, fails, stale>>

Netconn == 1..MEMP_NUM_NETCONN
Pcb == 1..MEMP_NUM_TCP_PCB
Listener == 1                       \* conn of http_server_netconn_thread
ListenPcb == MEMP_NUM_TCP_PCB + 1   \* of a pool of its own
NULL == 0                           \* no netconn, no pcb

NoConn == [used |-> FALSE, state |-> "NONE", pcb |-> NULL, fatal |-> FALSE,
           recvmbox |-> <<>>, recvOk |-> FALSE, acceptmbox |-> <<>>,
           acceptOk |-> FALSE, current_msg |-> "none", op_completed |-> 0]
NoPcb == [state |-> "FREE", arg |-> NULL, cb |-> "none", rxclosed |-> FALSE,
          unread |-> 0, refused |-> FALSE, queue |-> <<>>]
NoCall == [fn |-> "none", conn |-> NULL, what |-> "none"]

Init == /\ srv = [pc |-> "new", newconn |-> NULL, ret |-> "none"]
        /\ call = NoCall
        /\ nc = [c \in Netconn |-> NoConn]
        /\ pcb = [p \in Pcb |-> NoPcb]
        /\ fbuf = "empty"
        /\ fails = 0
        /\ stale = FALSE

-----------------------------------------------------------------------------
(* What the tcpip thread works on; its handlers are functions from one     *)
(* such state to the next.                                                 *)
World == [call |-> call, nc |-> nc, pcb |-> pcb, stale |-> stale]

Becomes(w) == /\ call' = w.call /\ nc' = w.nc
              /\ pcb' = w.pcb /\ stale' = w.stale

(* An allocation may fail; ok says whether it does not.                    *)
Alloc(ok) == IF ok THEN UNCHANGED fails
             ELSE fails < MaxFail /\ fails' = fails + 1

(* The call the netconn works on is finished, and its caller released.     *)
Finish(w, c) == [w EXCEPT !.nc[c].current_msg = "none",
                          !.nc[c].state = "NONE",
                          !.nc[c].op_completed = 1]

(* sys_mbox_trypost: nothing happens when the mailbox is full.             *)
TryPost(mbox, m, size) == IF Len(mbox) < size THEN Append(mbox, m) ELSE mbox

Working(state) == state \in {"WRITE", "CLOSE"}

(* Fault: the thread that waits in recvmbox is not woken.                  *)
FaultErrTcpMbox(w, c) ==
  LET n == w.nc[c] IN
  [w EXCEPT !.nc[c] = [n EXCEPT !.pcb = NULL, !.fatal = TRUE,
                                !.state = "NONE", !.current_msg = "none",
                                !.op_completed =
                                   IF Working(n.state) THEN 1 ELSE @]]

(* Fault: the caller of a write or a close is not woken.                   *)
FaultErrTcpSem(w, c) ==
  LET n == w.nc[c] IN
  [w EXCEPT !.nc[c] = [n EXCEPT !.pcb = NULL, !.fatal = TRUE,
                                !.state = "NONE", !.current_msg = "none",
                                !.recvmbox = IF n.recvOk
                                   THEN TryPost(@, "null",
                                                DEFAULT_TCP_RECVMBOX_SIZE)
                                   ELSE @]]

(* The connection is gone: the pcb is no longer ours, whoever waits in a   *)
(* mailbox is woken with NULL, and so is the caller of a write or a close. *)
err_tcp(w, c) ==
  LET n == w.nc[c] IN
  [w EXCEPT !.stale = @ \/ ~n.used,
            !.nc[c] = [n EXCEPT
              !.pcb = NULL, !.fatal = TRUE, !.state = "NONE",
              !.recvmbox = IF n.recvOk
                             THEN TryPost(@, "null", DEFAULT_TCP_RECVMBOX_SIZE)
                             ELSE @,
              !.acceptmbox = IF n.acceptOk
                               THEN TryPost(@, NULL, DEFAULT_ACCEPTMBOX_SIZE)
                               ELSE @,
              !.current_msg = "none",
              !.op_completed = IF Working(n.state) THEN 1 ELSE @]]

(* The connection is freed; an active one with TCP_EVENT_ERR.              *)
tcp_abandon(w, p) ==
  LET freed == [w EXCEPT !.pcb[p] = NoPcb] IN
  IF w.pcb[p].cb # "none" /\ w.pcb[p].state # "TIME_WAIT"
    THEN err_tcp(freed, w.pcb[p].arg)
  ELSE freed

tcp_recved(w, p, n) ==
  [w EXCEPT !.pcb[p].unread = IF @ > n THEN @ - n ELSE 0]

(* TCP_EVENT_RECV is refused: recv_tcp finds the mailbox full.             *)
Refuses(w, p) ==
  LET n == w.nc[w.pcb[p].arg] IN
  /\ w.pcb[p].cb = "all"
  /\ n.recvOk
  /\ Len(n.recvmbox) >= DEFAULT_TCP_RECVMBOX_SIZE

(* TCP_EVENT_RECV with data or, at a FIN, with NULL.  Without a callback   *)
(* tcp_recv_null takes the data.                                           *)
recv_tcp(w, p, m) ==
  LET c == w.pcb[p].arg IN
  CASE w.pcb[p].cb = "all" /\ w.nc[c].recvOk ->
         [w EXCEPT !.stale = @ \/ ~w.nc[c].used,
                   !.nc[c].recvmbox =
                      TryPost(@, m, DEFAULT_TCP_RECVMBOX_SIZE)]
    [] m = "data" /\ (w.pcb[p].cb # "all" \/ ~w.nc[c].recvOk) ->
         tcp_recved(w, p, 1)
    [] OTHER -> w

(* tcp_close.  Data the application has not read: reset the peer and wait  *)
(* out the connection.  Otherwise queue a FIN, which takes memory.         *)
Unread(b) == b.refused \/ b.unread > 0
TimeWait(b) == [NoPcb EXCEPT !.state = "TIME_WAIT", !.arg = b.arg,
                             !.cb = b.cb, !.rxclosed = b.rxclosed]
Closable == {"SYN_RCVD", "ESTABLISHED", "CLOSE_WAIT"}

tcp_close(b, ok) ==
  LET closed == [b EXCEPT !.rxclosed = TRUE] IN
  CASE b.state = "CLOSED" -> NoPcb
    [] Unread(b) -> TimeWait(closed)
    [] ~Unread(b) /\ b.state \in Closable /\ ok ->
         [closed EXCEPT !.state = IF @ = "CLOSE_WAIT" THEN "LAST_ACK"
                                  ELSE "FIN_WAIT_1",
                        !.queue = Append(@, "fin")]
    [] OTHER -> closed

CloseFails(b, ok) == /\ ~ok /\ b.state \in Closable /\ ~Unread(b)

(* The callbacks are taken away for tcp_close, and all but recv put back   *)
(* if it fails: then poll_tcp or sent_tcp tries again.                     *)
do_close_internal(w, c, ok) ==
  LET p == w.nc[c].pcb IN
  IF p = ListenPcb
    THEN Finish([w EXCEPT !.nc[c].pcb = NULL], c)
  ELSE IF CloseFails(w.pcb[p], ok)
    THEN [w EXCEPT !.pcb[p].rxclosed = TRUE, !.pcb[p].cb = "norecv"]
  ELSE Finish([w EXCEPT !.pcb[p] = tcp_close([@ EXCEPT !.arg = NULL,
                                                       !.cb = "none"], ok),
                        !.nc[c].pcb = NULL], c)

(* The response is queued, or stays for sent_tcp and poll_tcp to try.      *)
do_writemore(w, c, ok) ==
  IF ~ok THEN w
  ELSE Finish([w EXCEPT !.pcb[w.nc[c].pcb].queue =
                           Append(@, w.nc[c].current_msg)], c)

(* Fault: a close that failed is not tried again.                          *)
FaultResume(w, p, ok) ==
  LET c == w.pcb[p].arg IN
  IF w.pcb[p].cb # "none" /\ w.nc[c].state = "WRITE"
    THEN do_writemore(w, c, ok)
  ELSE w

(* poll_tcp and sent_tcp: go on with the call that could not be finished.  *)
Resume(w, p, ok) ==
  LET c == w.pcb[p].arg IN
  CASE w.pcb[p].cb # "none" /\ w.nc[c].state = "WRITE" ->
         do_writemore(w, c, ok)
    [] w.pcb[p].cb # "none" /\ w.nc[c].state = "CLOSE" ->
         do_close_internal(w, c, ok)
    [] OTHER -> w

(* netconn_drain: the mailboxes are emptied and deleted.  Connections that *)
(* were not accepted are aborted with their netconns.                      *)
Datas(mbox) == Cardinality({i \in DOMAIN mbox : mbox[i] = "data"})
Drained(n) == [n EXCEPT !.recvmbox = <<>>, !.recvOk = FALSE,
                        !.acceptmbox = <<>>, !.acceptOk = FALSE]
netconn_drain(w, c) ==
  LET n == w.nc[c]
      Waiting == {n.acceptmbox[i] : i \in DOMAIN n.acceptmbox} \ {NULL}
      Aborted == {w.nc[d].pcb : d \in Waiting} \ {NULL}
      drained == [w EXCEPT
        !.nc = [d \in Netconn |-> IF d = c THEN Drained(n)
                                  ELSE IF d \in Waiting THEN NoConn
                                  ELSE w.nc[d]],
        !.pcb = [p \in Pcb |-> IF p \in Aborted THEN NoPcb ELSE w.pcb[p]]]
  IN IF n.pcb \in Pcb THEN tcp_recved(drained, n.pcb, Datas(n.recvmbox))
     ELSE drained

-----------------------------------------------------------------------------
(* Calls of the server, handled by the tcpip thread.                       *)
FreePcb == {p \in Pcb : pcb[p].state = "FREE"}
FreeConn(w) == {c \in Netconn : ~w.nc[c].used}
Least(S) == CHOOSE x \in S : \A y \in S : x <= y

Take(fn) == call.fn = fn
Taken == [World EXCEPT !.call = NoCall]
Answered(w) == [w EXCEPT !.nc[call.conn].op_completed = 1]

(* pcb_new with setup_tcp; no connection is there to be killed for it.     *)
do_newconn(ok) ==
  LET p == Least(FreePcb) IN
  /\ Take("newconn")
  /\ FreePcb # {}
  /\ Becomes(Answered(
       IF ok THEN [Taken EXCEPT
                     !.pcb[p] = [NoPcb EXCEPT !.state = "CLOSED",
                                              !.arg = call.conn, !.cb = "all"],
                     !.nc[call.conn].pcb = p]
       ELSE Taken))

(* The port is free: nothing that the model keeps changes.                 *)
do_bind == Take("bind") /\ Becomes(Answered(Taken))

(* tcp_listen replaces the pcb by a smaller one.  Without memory for that  *)
(* the pcb stays; without memory for the mailbox it is gone.               *)
do_listen(pcbOk, mboxOk) ==
  LET c == call.conn
      p == nc[c].pcb
  IN /\ Take("listen")
     /\ Becomes(Answered(
          CASE ~pcbOk -> Taken
            [] pcbOk /\ ~mboxOk ->
                 [Taken EXCEPT !.pcb[p] = NoPcb, !.nc[c].pcb = NULL,
                               !.nc[c].recvOk = FALSE]
            [] OTHER ->
                 [Taken EXCEPT !.pcb[p] = NoPcb, !.nc[c].pcb = ListenPcb,
                               !.nc[c].recvOk = FALSE,
                               !.nc[c].acceptOk = TRUE,
                               !.nc[c].state = "LISTEN"]))

do_recv ==
  LET p == nc[call.conn].pcb IN
  /\ Take("recv")
  /\ Becomes(Answered(IF p # NULL /\ call.what = "data"
                        THEN tcp_recved(Taken, p, 1) ELSE Taken))

do_write(ok) ==
  LET c == call.conn
      started == [Taken EXCEPT !.nc[c].state = "WRITE",
                               !.nc[c].current_msg = call.what]
  IN /\ Take("write")
     /\ Becomes(IF nc[c].fatal \/ nc[c].state # "NONE" \/ nc[c].pcb = NULL
                  THEN Answered(Taken)
                ELSE do_writemore(started, c, ok))

Idle(c) == nc[c].state \in {"NONE", "LISTEN"}
Closing(w, c) == [w EXCEPT !.nc[c].state = "CLOSE",
                           !.nc[c].current_msg = "close"]

do_close(ok) ==
  LET c == call.conn IN
  /\ Take("close")
  /\ Becomes(IF ~Idle(c) \/ nc[c].pcb = NULL THEN Answered(Taken)
             ELSE do_close_internal(Closing(netconn_drain(Taken, c), c),
                                    c, ok))

do_delconn(ok) ==
  LET c == call.conn
      drained == netconn_drain(Taken, c)
  IN /\ Take("delconn")
     /\ Becomes(IF ~Idle(c) THEN Answered(Taken)
                ELSE IF nc[c].pcb = NULL THEN Answered(drained)
                ELSE do_close_internal(Closing(drained, c), c, ok))

(* One message of the mailbox of the tcpip thread.                         *)
ApiMsg == /\ UNCHANGED <<srv, fbuf>>
          /\ \/ \E ok \in BOOLEAN :
                  /\ do_newconn(ok) \/ do_write(ok)
                       \/ do_close(ok) \/ do_delconn(ok)
                  /\ Alloc(ok)
             \/ \E ok1, ok2 \in BOOLEAN :
                  do_listen(ok1, ok2) /\ Alloc(ok1 /\ ok2)
             \/ (do_bind \/ do_recv) /\ UNCHANGED fails

-----------------------------------------------------------------------------
(* TCP                                                                     *)
Active == {"SYN_RCVD", "ESTABLISHED", "CLOSE_WAIT", "FIN_WAIT_1",
           "FIN_WAIT_2", "CLOSING", "LAST_ACK"}
Listening == nc[Listener].pcb = ListenPcb

(* tcp_alloc: a free pcb, the oldest in TIME_WAIT, or an active one whose  *)
(* connection is aborted.  Ages are left open.                             *)
tcp_alloc(p) ==
  IF FreePcb # {} THEN p = Least(FreePcb)
  ELSE IF \E k \in Pcb : pcb[k].state = "TIME_WAIT"
    THEN pcb[p].state = "TIME_WAIT"
  ELSE pcb[p].state \in Active

(* Fault: the new pcb inherits the error callback too.                     *)
FaultSynRcvd == [NoPcb EXCEPT !.state = "SYN_RCVD", !.arg = Listener,
                              !.cb = "norecv", !.queue = <<"syn">>]

(* callback_arg is that of the listening pcb; no callback but accept is    *)
(* set.                                                                    *)
SynRcvd == [NoPcb EXCEPT !.state = "SYN_RCVD", !.arg = Listener,
                         !.queue = <<"syn">>]

tcp_listen_input(p, ok) ==
  LET w == IF pcb[p].state = "FREE" THEN World ELSE tcp_abandon(World, p) IN
  /\ Listening
  /\ tcp_alloc(p)
  /\ Becomes(IF ok THEN [w EXCEPT !.pcb[p] = SynRcvd] ELSE w)
  /\ Alloc(ok)
  /\ UNCHANGED <<srv, fbuf>>

(* accept_function.  Where the mailbox is full the netconn is freed, but   *)
(* the pcb keeps its callbacks, and tcp_process aborts it.                 *)
accept_function(w, p, ok) ==
  LET c == Least(FreeConn(w))
      new == [NoConn EXCEPT !.used = TRUE, !.pcb = p, !.recvOk = TRUE]
      est == [w EXCEPT !.pcb[p].state = "ESTABLISHED"]
      set == [est EXCEPT !.pcb[p].arg = c, !.pcb[p].cb = "all"]
  IN CASE ~w.nc[Listener].acceptOk \/ FreeConn(w) = {} \/ ~ok ->
            tcp_abandon([est EXCEPT !.stale = @ \/ ~w.nc[Listener].used], p)
       [] w.nc[Listener].acceptOk /\ FreeConn(w) # {} /\ ok
          /\ Len(w.nc[Listener].acceptmbox) >= DEFAULT_ACCEPTMBOX_SIZE ->
            tcp_abandon(set, p)
       [] OTHER ->
            [set EXCEPT !.nc[c] = new,
                        !.nc[Listener].acceptmbox = Append(@, c)]

(* tcp_process for a segment that acknowledges the first n elements of the *)
(* queue, everything that was sent if all holds (the rest is still         *)
(* unsent), and carries data or a FIN.                                     *)
NextState(b, all, fin) ==
  CASE b.state = "ESTABLISHED" /\ fin -> "CLOSE_WAIT"
    [] b.state = "FIN_WAIT_1" /\ fin -> IF all THEN "TIME_WAIT" ELSE "CLOSING"
    [] b.state = "FIN_WAIT_1" /\ ~fin /\ all -> "FIN_WAIT_2"
    [] b.state = "FIN_WAIT_2" /\ fin -> "TIME_WAIT"
    [] b.state = "CLOSING" /\ all -> "TIME_WAIT"
    [] b.state = "LAST_ACK" /\ all -> "FREE"
    [] OTHER -> b.state

tcp_process(b, n, all, data, fin) ==
  LET s == NextState(b, all, fin)
      got == [b EXCEPT !.state = s,
                       !.queue = SubSeq(@, n + 1, Len(@)),
                       !.unread = @ + (IF data THEN 1 ELSE 0)
                                    + (IF fin THEN 1 ELSE 0)]
  IN CASE s = "FREE" -> NoPcb
       [] s = "TIME_WAIT" -> [TimeWait(b) EXCEPT !.unread = got.unread]
       [] OTHER -> got

(* The data goes to the application or, refused, is kept.                  *)
Deliver(w, p) == IF Refuses(w, p) THEN [w EXCEPT !.pcb[p].refused = TRUE]
                 ELSE recv_tcp(w, p, "data")

(* The events of tcp_input, in its order: data acknowledged, data received *)
(* (a connection that is closed for it is aborted), FIN received, whose    *)
(* sequence number leaves the window again.                                *)
Events(w, p, acked, data, fin, ok) ==
  LET w1 == IF acked THEN Resume(w, p, ok) ELSE w
      w2 == IF data THEN Deliver(w1, p) ELSE w1
  IN IF data /\ w1.pcb[p].rxclosed THEN tcp_abandon(w1, p)
     ELSE IF fin THEN recv_tcp(tcp_recved(w2, p, 1), p, "null")
     ELSE w2

(* tcp_input: refused data is presented first, and the segment dropped if  *)
(* it is refused again and carries anything.                               *)
tcp_input(p, n, all, data, fin, ok) ==
  LET again == pcb[p].refused /\ ~Refuses(World, p)
      w == IF again THEN [recv_tcp(World, p, "data") EXCEPT
                             !.pcb[p].refused = FALSE] ELSE World
      dropped == pcb[p].refused /\ ~again /\ (data \/ fin)
      b == IF dropped THEN pcb[p]
           ELSE tcp_process(w.pcb[p], n, all, data, fin)
      w1 == [w EXCEPT !.pcb[p] = b]
  IN /\ n \in 0..Len(pcb[p].queue)
     /\ n = Len(pcb[p].queue) => all
     /\ all /\ n < Len(pcb[p].queue) =>
          pcb[p].state \in {"FIN_WAIT_1", "CLOSING", "LAST_ACK"}
     /\ data => pcb[p].unread < TCP_WND
     /\ data \/ fin => pcb[p].state \in
                         {"ESTABLISHED", "FIN_WAIT_1", "FIN_WAIT_2"}
     /\ Becomes(IF dropped \/ b.state = "FREE" THEN w1
                ELSE Events(w1, p, n > 0, data, fin, ok))
     /\ ~ok => n > 0 /\ pcb[p].cb # "none" /\ Working(nc[pcb[p].arg].state)
     /\ Alloc(ok)

Segment(p) ==
  /\ pcb[p].state \in Active \ {"SYN_RCVD"}
  /\ \E n \in 0..Len(pcb[p].queue), all, data, fin, ok \in BOOLEAN :
       tcp_input(p, n, all, data, fin, ok)
  /\ UNCHANGED <<srv, fbuf>>

(* The ACK that completes the handshake, with or without data.             *)
Establish(p) ==
  /\ pcb[p].state = "SYN_RCVD"
  /\ \E data, fin, ok \in BOOLEAN :
       LET w == accept_function(World, p, ok)
           b == tcp_process(w.pcb[p], 1, TRUE, data, fin)
       IN /\ Becomes(IF w.pcb[p].state # "ESTABLISHED" THEN w
                     ELSE Events([w EXCEPT !.pcb[p] = b], p, FALSE, data,
                                 fin, TRUE))
          /\ Alloc(ok)
  /\ UNCHANGED <<srv, fbuf>>

(* A reset by the peer.                                                    *)
Reset(p) ==
  /\ pcb[p].state \in Active
  /\ Becomes(tcp_abandon(World, p))
  /\ UNCHANGED <<srv, fbuf, fails>>

(* tcp_fasttmr presents refused data again.                                *)
tcp_fasttmr(p) ==
  /\ pcb[p].refused
  /\ pcb[p].state \in Active
  /\ ~Refuses(World, p)
  /\ Becomes([recv_tcp(World, p, "data") EXCEPT !.pcb[p].refused = FALSE])
  /\ UNCHANGED <<srv, fbuf, fails>>

(* tcp_slowtmr, for one connection.  It is given up after TCP_MAXRTX       *)
(* retransmissions, or has stayed too long in its state.                   *)
Expire(p) ==
  /\ \/ pcb[p].state \in Active /\ pcb[p].queue # <<>>
     \/ pcb[p].state \in {"SYN_RCVD", "FIN_WAIT_2", "LAST_ACK", "TIME_WAIT"}
  /\ Becomes(tcp_abandon(World, p))
  /\ UNCHANGED <<srv, fbuf, fails>>

(* It is polled.                                                           *)
Poll(p, ok) ==
  /\ pcb[p].state \in Active
  /\ pcb[p].cb # "none"
  /\ Working(nc[pcb[p].arg].state)
  /\ Becomes(Resume(World, p, ok))
  /\ Alloc(ok)
  /\ UNCHANGED <<srv, fbuf>>

Tcp == \E p \in Pcb :
         \/ \E ok \in BOOLEAN : tcp_listen_input(p, ok) \/ Poll(p, ok)
         \/ Establish(p) \/ Segment(p) \/ Reset(p)
         \/ tcp_fasttmr(p) \/ Expire(p)

-----------------------------------------------------------------------------
(* The server thread                                                       *)
Goto(pc) == srv' = [srv EXCEPT !.pc = pc]

(* tcpip_apimsg: post the message, then wait for op_completed.             *)
Post(fn, c, what, ret) ==
  /\ call' = [fn |-> fn, conn |-> c, what |-> what]
  /\ srv' = [srv EXCEPT !.pc = "wait", !.ret = ret]

Return ==
  LET c == IF srv.newconn = NULL THEN Listener ELSE srv.newconn IN
  /\ srv.pc = "wait"
  /\ nc[c].op_completed = 1
  /\ nc' = [nc EXCEPT ![c].op_completed = 0]
  /\ srv' = [srv EXCEPT !.pc = srv.ret, !.ret = "none"]
  /\ UNCHANGED <<call, pcb, fbuf, fails, stale>>

(* netconn_new: netconn_alloc needs a netconn, a semaphore and a mailbox.  *)
netconn_new ==
  /\ srv.pc = "new"
  /\ \/ /\ nc' = [nc EXCEPT ![Listener] = [NoConn EXCEPT !.used = TRUE,
                                                         !.recvOk = TRUE]]
        /\ Post("newconn", Listener, "none", "bind")
        /\ UNCHANGED fails
     \/ Alloc(FALSE) /\ Goto("halt") /\ UNCHANGED <<nc, call>>
  /\ UNCHANGED <<pcb, fbuf, stale>>

(* The rest of netconn_new, which frees a netconn that got no pcb, and     *)
(* netconn_bind.                                                           *)
netconn_bind ==
  /\ srv.pc = "bind"
  /\ IF nc[Listener].pcb = NULL
       THEN /\ nc' = [nc EXCEPT ![Listener] = NoConn]
            /\ Goto("halt")
            /\ UNCHANGED call
       ELSE /\ Post("bind", Listener, "none", "listen")
            /\ UNCHANGED nc
  /\ UNCHANGED <<pcb, fbuf, fails, stale>>

netconn_listen ==
  /\ srv.pc = "listen"
  /\ Post("listen", Listener, "none", "accept")
  /\ UNCHANGED <<nc, pcb, fbuf, fails, stale>>

(* An error of netconn_accept ends the loop of the server.                 *)
netconn_accept ==
  /\ srv.pc = "accept"
  /\ IF ~nc[Listener].acceptOk \/ nc[Listener].fatal
       THEN Goto("close_listener") /\ UNCHANGED nc
       ELSE LET mbox == nc[Listener].acceptmbox IN
            /\ mbox # <<>>
            /\ nc' = [nc EXCEPT ![Listener].acceptmbox = Tail(@)]
            /\ srv' = [srv EXCEPT
                         !.pc = IF Head(mbox) = NULL THEN "close_listener"
                                ELSE "recv",
                         !.newconn = Head(mbox)]
  /\ UNCHANGED <<call, pcb, fbuf, fails, stale>>

(* netconn_recv_data looks at the error, and only then waits for data.     *)
netconn_recv ==
  /\ srv.pc = "recv"
  /\ Goto(IF ~nc[srv.newconn].recvOk \/ nc[srv.newconn].fatal THEN "delete"
          ELSE "fetch")
  /\ UNCHANGED <<call, nc, pcb, fbuf, fails, stale>>

(* The data is taken and, whatever it is, TCP told of it.                  *)
netconn_recv_data ==
  LET mbox == nc[srv.newconn].recvmbox IN
  /\ srv.pc = "fetch"
  /\ mbox # <<>>
  /\ nc' = [nc EXCEPT ![srv.newconn].recvmbox = Tail(@)]
  /\ Post("recv", srv.newconn, Head(mbox),
          IF Head(mbox) = "data" THEN "parse" ELSE "eof")
  /\ UNCHANGED <<pcb, fbuf, fails, stale>>

EndOfFile ==
  /\ srv.pc = "eof"
  /\ nc' = [nc EXCEPT ![srv.newconn].fatal = TRUE]
  /\ Goto("delete")
  /\ UNCHANGED <<call, pcb, fbuf, fails, stale>>

(* The request is refused, is for the home page, or is for a file: there   *)
(* is no file system, so fs_open finds none.                               *)
Parse ==
  /\ srv.pc = "parse"
  /\ \E pc \in {"close", "write_hdr", "strcpy"} : Goto(pc)
  /\ UNCHANGED <<call, nc, pcb, fbuf, fails, stale>>

(* get_http_headers builds the answer in file_buffer: strcpy writes its    *)
(* first part and a NUL, strcat the rest.                                  *)
Strcpy ==
  /\ srv.pc = "strcpy"
  /\ fbuf' = "torn"
  /\ Goto("strcat")
  /\ UNCHANGED <<call, nc, pcb, fails, stale>>

Strcat ==
  /\ srv.pc = "strcat"
  /\ fbuf' = "whole"
  /\ Goto("write_404")
  /\ UNCHANGED <<call, nc, pcb, fails, stale>>

(* The home page is constant; the other answer is sent from file_buffer.   *)
netconn_write ==
  /\ \/ srv.pc = "write_hdr" /\ Post("write", srv.newconn, "rom", "write_page")
     \/ srv.pc = "write_page" /\ Post("write", srv.newconn, "rom", "close")
     \/ srv.pc = "write_404" /\ Post("write", srv.newconn, "404", "close")
  /\ UNCHANGED <<nc, pcb, fbuf, fails, stale>>

netconn_close ==
  /\ \/ srv.pc = "close" /\ Post("close", srv.newconn, "none", "delete")
     \/ srv.pc = "close_listener"
        /\ Post("close", Listener, "none", "delete_listener")
  /\ UNCHANGED <<nc, pcb, fbuf, fails, stale>>

netconn_delete ==
  /\ \/ srv.pc = "delete" /\ Post("delconn", srv.newconn, "none", "free")
     \/ srv.pc = "delete_listener"
        /\ Post("delconn", Listener, "none", "free_listener")
  /\ UNCHANGED <<nc, pcb, fbuf, fails, stale>>

(* Fault: the netconn is not given back to its pool.                       *)
FaultNetconnFree ==
  /\ srv.pc = "free"
  /\ srv' = [srv EXCEPT !.pc = "accept", !.newconn = NULL]
  /\ UNCHANGED <<call, nc, pcb, fbuf, fails, stale>>

(* The end of netconn_delete.                                              *)
netconn_free ==
  /\ \/ /\ srv.pc = "free"
        /\ nc' = [nc EXCEPT ![srv.newconn] = NoConn]
        /\ srv' = [srv EXCEPT !.pc = "accept", !.newconn = NULL]
     \/ /\ srv.pc = "free_listener"
        /\ nc' = [nc EXCEPT ![Listener] = NoConn]
        /\ Goto("halt")
  /\ UNCHANGED <<call, pcb, fbuf, fails, stale>>

Server == \/ Return \/ netconn_new \/ netconn_bind \/ netconn_listen
          \/ netconn_accept \/ netconn_recv \/ netconn_recv_data \/ EndOfFile
          \/ Parse \/ Strcpy \/ Strcat \/ netconn_write \/ netconn_close
          \/ netconn_delete \/ netconn_free

Next == Server \/ ApiMsg \/ Tcp

(* The tcpip thread handles the calls posted to it.  Its timers run while  *)
(* there are connections, and poll them; allocations do not fail for ever. *)
(* The server thread runs when the tcpip thread waits.                     *)
Fairness == /\ WF_vars(Server)
            /\ WF_vars(ApiMsg)
            /\ \A p \in Pcb : WF_vars(\E ok \in BOOLEAN : Poll(p, ok))

Spec == Init /\ [][Next]_vars
FairSpec == Spec /\ Fairness

-----------------------------------------------------------------------------
(* Every variable has a value of its type; mailboxes and windows within    *)
(* their sizes.                                                            *)
ServerPc == {"new", "bind", "listen", "accept", "recv", "fetch", "eof",
             "parse", "strcpy", "strcat", "write_hdr", "write_page",
             "write_404", "close", "delete", "free", "close_listener",
             "delete_listener", "free_listener", "wait", "halt"}

TypeOK ==
  /\ srv.pc \in ServerPc /\ srv.newconn \in Netconn \cup {NULL}
  /\ call.fn \in {"none", "newconn", "bind", "listen", "recv", "write",
                  "close", "delconn"}
  /\ \A c \in Netconn :
       /\ nc[c].pcb \in Pcb \cup {NULL, ListenPcb}
       /\ nc[c].state \in {"NONE", "WRITE", "LISTEN", "CLOSE"}
       /\ Len(nc[c].recvmbox) <= DEFAULT_TCP_RECVMBOX_SIZE
       /\ Len(nc[c].acceptmbox) <= DEFAULT_ACCEPTMBOX_SIZE
       /\ nc[c].op_completed \in {0, 1}
  /\ \A p \in Pcb :
       /\ pcb[p].state \in Active \cup {"FREE", "CLOSED", "TIME_WAIT"}
       /\ pcb[p].arg \in Netconn \cup {NULL}
       /\ pcb[p].cb \in {"none", "all", "norecv"}
       /\ pcb[p].unread \in 0..TCP_WND
  /\ fbuf \in {"empty", "torn", "whole"} /\ fails \in 0..MaxFail

(* A server that waits for a request has a connection that can still bring *)
(* one: an error or a FIN, even one whose NULL message found no room, has  *)
(* left something in the mailbox.                                          *)
NoLostWakeup ==
  srv.pc = "fetch" /\ nc[srv.newconn].recvmbox = <<>> =>
    LET p == nc[srv.newconn].pcb IN
    /\ p \in Pcb
    /\ pcb[p].state = "ESTABLISHED" /\ pcb[p].cb = "all"

(* A call is answered exactly once: while the server waits for one, either *)
(* it has not been handled, or it is answered, or the netconn works on it  *)
(* and has a connection whose callbacks will go on with it.                *)
CallAnswered ==
  LET c == IF srv.newconn = NULL THEN Listener ELSE srv.newconn
      n == nc[c]
  IN /\ \A d \in Netconn :
          nc[d].op_completed = 1 => srv.pc = "wait" /\ d = c
     /\ Working(n.state) <=> n.current_msg # "none"
     /\ srv.pc = "wait" =>
          \/ call.fn # "none" /\ n.op_completed = 0 /\ ~Working(n.state)
          \/ call.fn = "none" /\ n.op_completed = 1 /\ ~Working(n.state)
          \/ /\ call.fn = "none" /\ n.op_completed = 0 /\ Working(n.state)
             /\ n.pcb \in Pcb /\ pcb[n.pcb].cb # "none"

(* A pcb that would call back and a netconn that has a pcb name each       *)
(* other, so that no callback reaches a netconn that was freed.            *)
BackPointers ==
  /\ ~stale
  /\ \A p \in Pcb : pcb[p].cb # "none" =>
       nc[pcb[p].arg].used /\ nc[pcb[p].arg].pcb = p
  /\ \A c \in Netconn : nc[c].pcb \in Pcb =>
       /\ nc[c].used
       /\ pcb[nc[c].pcb].arg = c
       /\ pcb[nc[c].pcb].state \in {"CLOSED", "ESTABLISHED", "CLOSE_WAIT"}

(* Every netconn in use is the listening one, the one that is served, or   *)
(* one that waits to be accepted: none is lost, none is there twice, and   *)
(* every connection that has one calls back to it and to no freed one.     *)
NetconnsConserved ==
  LET mbox == nc[Listener].acceptmbox
      Waiting == {mbox[i] : i \in DOMAIN mbox}
      Used == {c \in Netconn : nc[c].used}
  IN /\ TypeOK
     /\ BackPointers
     /\ Cardinality(Waiting) = Len(mbox)
     /\ Used \ {Listener} = Waiting \cup ({srv.newconn} \ {NULL})
     /\ srv.newconn \notin Waiting

(* Once it listens the server stays: no error of a connection reaches the  *)
(* listening netconn, and none ends the loop of the server.                *)
ServerStays ==
  [][nc[Listener].state = "LISTEN" =>
       /\ nc'[Listener].state = "LISTEN"
       /\ srv'.pc # "close_listener"]_vars

(* The server comes back for the next connection: nothing but waiting for  *)
(* a request holds it up.                                                  *)
ServerReturns == []<>(srv.pc \in {"accept", "fetch", "halt"})

(* file_buffer keeps an answer whole until the peer has acknowledged it,   *)
(* for as long as it may be sent, or sent again, from there.               *)
FileBufferIntact ==
  \A p \in Pcb :
    pcb[p].state \in Active
      /\ "404" \in {pcb[p].queue[i] : i \in DOMAIN pcb[p].queue}
    => fbuf = "whole"
=============================================================================
