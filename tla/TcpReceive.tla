----------------------------- MODULE TcpReceive -----------------------------
(***************************************************************************)
(* The receiving half of a TCP connection of lwIP: tcp_receive with its    *)
(* queue of segments that came out of order, the window and its            *)
(* announcement, data the application refuses, and the netconn mailbox the *)
(* data goes to.                                                           *)
(*                                                                         *)
(* The remote host sends the bytes 0 .. N - 1 and a FIN.  It keeps to the  *)
(* announced window, and apart from that any part of what the window       *)
(* allows may arrive at any time, any number of times and cut up in any    *)
(* way: that covers loss, duplication, reordering and retransmission with  *)
(* another segmentation, without a network in the state.  A pbuf chain is  *)
(* the sequence of its bytes.  Sequence numbers are counted modulo SEQ and *)
(* compared as the TCP_SEQ macros do.                                      *)
(***************************************************************************)
EXTENDS Integers, SequencesExt

CONSTANTS N,            \* bytes the remote host sends
          SEQ,          \* 2^32
          ISS,          \* sequence number of byte 0
          TCP_WND, TCP_MSS,
          MboxSize      \* DEFAULT_TCP_RECVMBOX_SIZE

(* The whole stream is shorter than half the sequence space.               *)
ASSUME SizeAssumption == /\ N \in Nat /\ SEQ \in Nat /\ ISS \in 0 .. SEQ - 1
                         /\ TCP_WND \in Nat \ {0} /\ TCP_MSS \in Nat \ {0}
                         /\ MboxSize \in Nat \ {0}
                         /\ 2 * (N + TCP_WND + 2) < SEQ

TCP_WND_UPDATE_THRESHOLD == TCP_WND \div 4

VARIABLES
  pcb,     \* the fields of the struct tcp_pcb that reception uses
  mbox,    \* conn->recvmbox: chains of bytes, and EOF
  pend,    \* what the application has fetched and not yet reported
  got,     \* what it has read, in order
  eof,     \* it has seen the end
  came     \* the last step took the segment that was missing
vars == <<pcb, mbox, pend, got, eof, came>>

EOF == <<>>   \* the NULL pbuf; no chain of data is empty
Byte == 0 .. N - 1
Plus(a, n) == (a + n) % SEQ
Minus(a, b) == (a - b + SEQ) % SEQ
TCP_SEQ_LT(a, b) == Minus(a, b) >= SEQ \div 2
TCP_SEQ_GT(a, b) == TCP_SEQ_LT(b, a)
TCP_SEQ_GEQ(a, b) == ~TCP_SEQ_LT(a, b)
TCP_SEQ_LEQ(a, b) == ~TCP_SEQ_GT(a, b)
TCP_SEQ_BETWEEN(a, b, c) == TCP_SEQ_GEQ(a, b) /\ TCP_SEQ_LEQ(a, c)

Seg == [seqno : 0 .. SEQ - 1, len : 0 .. SEQ - 1, fin : BOOLEAN,
        p : Seq(Byte)]
TCP_TCPLEN(s) == s.len + IF s.fin THEN 1 ELSE 0

Init == /\ pcb = [rcv_nxt |-> ISS, rcv_wnd |-> TCP_WND,
                  rcv_ann_wnd |-> TCP_WND,
                  rcv_ann_right_edge |-> Plus(ISS, TCP_WND),
                  ooseq |-> <<>>, refused_data |-> <<>>,
                  flags |-> {}, state |-> "ESTABLISHED",
                  recv_data |-> <<>>, got_fin |-> FALSE]
        /\ mbox = <<>> /\ pend = 0 /\ got = <<>> /\ eof = FALSE
        /\ came = FALSE

(* Every counter in its width, every chain made of the remote host's bytes *)
TypeOK ==
  /\ pcb.rcv_nxt \in 0 .. SEQ - 1 /\ pcb.rcv_ann_right_edge \in 0 .. SEQ - 1
  /\ pcb.rcv_wnd \in 0 .. TCP_WND /\ pcb.rcv_ann_wnd \in 0 .. TCP_WND
  /\ pcb.ooseq \in Seq(Seg) /\ pcb.refused_data \in Seq(Byte)
  /\ pcb.flags \subseteq {"TF_ACK_DELAY", "TF_ACK_NOW"}
  /\ pcb.state \in {"ESTABLISHED", "CLOSE_WAIT"}
  /\ Len(mbox) <= MboxSize /\ mbox \in Seq(Seq(Byte))
  /\ got \in Seq(Byte) /\ pend \in 0 .. N
  /\ eof \in BOOLEAN /\ came \in BOOLEAN

----------------------------------------------------------------------------
pbuf_realloc(p, len) == SubSeq(p, 1, IF len < Len(p) THEN len ELSE Len(p))

(* Fault: the start is moved and the payload is not.                       *)
FaultTrimLeft(s, seqno) ==
  LET off == Minus(seqno, s.seqno)
  IN [s EXCEPT !.seqno = seqno, !.len = @ - off, !.p = pbuf_realloc(@, s.len - off)]

(* A segment cut on its left to start at seqno, or on its right to end     *)
(* there.                                                                  *)
TrimLeft(s, seqno) ==
  LET off == Minus(seqno, s.seqno)
  IN [s EXCEPT !.seqno = seqno, !.len = @ - off,
               !.p = SubSeq(@, off + 1, Len(@))]
TrimRight(s, seqno) ==
  LET len == Minus(seqno, s.seqno)
  IN [s EXCEPT !.len = len, !.p = pbuf_realloc(@, len)]

(* How many segments at the head of q end at or before seqno.              *)
Covered(q, seqno) ==
  Max({k \in 0 .. Len(q) :
         \A i \in 1 .. k : TCP_SEQ_GEQ(seqno, Plus(q[i].seqno, q[i].len))})

(* s takes the place of the segments of q it covers, with their FIN, and   *)
(* gives way to the first one it does not cover.                           *)
Overlay(s, q) ==
  LET k == Covered(q, Plus(s.seqno, TCP_TCPLEN(s)))
      rest == SubSeq(q, k + 1, Len(q))
      f == [s EXCEPT !.fin = \E i \in 1 .. k : q[i].fin]
      t == IF rest # <<>> /\ TCP_SEQ_GT(Plus(s.seqno, TCP_TCPLEN(f)),
                                        rest[1].seqno)
           THEN TrimRight(f, rest[1].seqno) ELSE f
  IN IF s.fin THEN [seg |-> s, rest |-> <<>>] ELSE [seg |-> t, rest |-> rest]

(* Fault: what follows is kept as it is.                                   *)
FaultInsertSegment(s, q) == <<s>> \o q

tcp_oos_insert_segment(s, q) == <<Overlay(s, q).seg>> \o Overlay(s, q).rest

Overruns(s) == Plus(s.seqno, TCP_TCPLEN(s)) > Plus(pcb.rcv_nxt, pcb.rcv_wnd)

(* The last segment is cut to the window.  The comparison is one of plain  *)
(* unsigned numbers.                                                       *)
CutToWindow(s) ==
  IF Overruns(s)
  THEN TrimRight([s EXCEPT !.fin = FALSE], Plus(pcb.rcv_nxt, pcb.rcv_wnd))
  ELSE s

(* The last segment of q ends at seqno at most.                            *)
TrimLast(q, seqno) ==
  IF q # <<>> /\ TCP_SEQ_GT(Plus(Last(q).seqno, Last(q).len), seqno)
  THEN Front(q) \o <<TrimRight(Last(q), seqno)>> ELSE q

(* The place of a segment in the queue: in that of a shorter one with the  *)
(* same start, before the first one that starts later, or at the end.      *)
Queue(q, s) ==
  LET same == SelectInSeq(q, LAMBDA x : x.seqno = s.seqno)
      above == SelectInSeq(q, LAMBDA x : TCP_SEQ_LT(s.seqno, x.seqno))
  IN IF q = <<>> THEN <<s>>
     ELSE IF same # 0
     THEN IF s.len > q[same].len
          THEN SubSeq(q, 1, same - 1)
                 \o tcp_oos_insert_segment(s, SubSeq(q, same, Len(q)))
          ELSE q
     ELSE IF above # 0
     THEN TrimLast(SubSeq(q, 1, above - 1), s.seqno)
            \o tcp_oos_insert_segment(s, SubSeq(q, above, Len(q)))
     ELSE IF Last(q).fin THEN q
     ELSE TrimLast(q, s.seqno) \o <<CutToWindow(s)>>

(* The right edge only moves by a worthwhile amount.                       *)
tcp_update_rcv_ann_wnd(c) ==
  LET edge == Plus(c.rcv_nxt, c.rcv_wnd)
      step == IF TCP_MSS < TCP_WND \div 2 THEN TCP_MSS ELSE TCP_WND \div 2
  IN [c EXCEPT !.rcv_ann_wnd =
        IF TCP_SEQ_GEQ(edge, Plus(c.rcv_ann_right_edge, step)) THEN c.rcv_wnd
        ELSE IF TCP_SEQ_GT(c.rcv_nxt, c.rcv_ann_right_edge) THEN 0
        ELSE Minus(c.rcv_ann_right_edge, c.rcv_nxt)]

(* How much window an update would add, 0 when it is not worth one.        *)
Inflation(c) ==
  LET edge == Plus(c.rcv_nxt, c.rcv_wnd)
      step == IF TCP_MSS < TCP_WND \div 2 THEN TCP_MSS ELSE TCP_WND \div 2
  IN IF TCP_SEQ_GEQ(edge, Plus(c.rcv_ann_right_edge, step))
     THEN Minus(edge, c.rcv_ann_right_edge) ELSE 0

(* Without memory (mem) for the ACK its flags stay.                        *)
tcp_send_empty_ack(c, mem) ==
  IF mem THEN [c EXCEPT !.flags = {},
                        !.rcv_ann_right_edge = Plus(c.rcv_nxt, c.rcv_ann_wnd)]
  ELSE c

tcp_ack_now(c) == [c EXCEPT !.flags = @ \cup {"TF_ACK_NOW"}]
tcp_ack(c) == [c EXCEPT !.flags =
                 IF "TF_ACK_DELAY" \in @ THEN {"TF_ACK_NOW"}
                                         ELSE @ \cup {"TF_ACK_DELAY"}]

(* Nothing but ACKs is to be sent on this connection.                      *)
tcp_output(c, mem) ==
  IF "TF_ACK_NOW" \in c.flags THEN tcp_send_empty_ack(c, mem) ELSE c

(* A segment in sequence goes to the application.                          *)
Accept(c, s) ==
  [c EXCEPT !.rcv_nxt = Plus(@, TCP_TCPLEN(s)), !.rcv_wnd = @ - TCP_TCPLEN(s),
            !.recv_data = @ \o s.p, !.got_fin = @ \/ s.fin]

(* Fault: the window is not reduced by what was queued.                    *)
FaultDequeue(c, s) ==
  IF s.seqno = c.rcv_nxt
  THEN [Accept(c, s) EXCEPT !.ooseq = Tail(@), !.rcv_wnd = c.rcv_wnd] ELSE c

(* The queued segments that are in sequence now follow it.                 *)
Dequeue(c, s) ==
  IF s.seqno = c.rcv_nxt THEN [Accept(c, s) EXCEPT !.ooseq = Tail(@)] ELSE c

InSequence(c, seg) ==
  LET s == IF TCP_TCPLEN(seg) > c.rcv_wnd
           THEN TrimRight([seg EXCEPT !.fin = FALSE],
                          Plus(c.rcv_nxt, c.rcv_wnd))
           ELSE seg
      o == Overlay(s, c.ooseq)
      d == Accept([c EXCEPT !.ooseq = o.rest], o.seg)
  IN tcp_ack(tcp_update_rcv_ann_wnd(FoldLeft(Dequeue, d, d.ooseq)))

(* tcp_seg_copy may fail (ok).  The segment that made a hole visible is    *)
(* answered at once.                                                       *)
OutOfSequence(c, s, ok, mem) ==
  LET d == tcp_send_empty_ack(c, mem)
  IN IF ok THEN [d EXCEPT !.ooseq = Queue(c.ooseq, s)] ELSE d

tcp_receive(c, seg, ok, mem) ==
  LET cuts == TCP_SEQ_BETWEEN(c.rcv_nxt, Plus(seg.seqno, 1),
                              Plus(seg.seqno, TCP_TCPLEN(seg) - 1))
      s == IF cuts THEN TrimLeft(seg, c.rcv_nxt) ELSE seg
      d == IF ~cuts /\ TCP_SEQ_LT(s.seqno, c.rcv_nxt)
           THEN tcp_ack_now(c) ELSE c
  IN IF ~TCP_SEQ_BETWEEN(s.seqno, c.rcv_nxt,
                         Minus(Plus(c.rcv_nxt, c.rcv_wnd), 1))
     THEN tcp_send_empty_ack(d, mem)
     ELSE IF s.seqno = c.rcv_nxt THEN InSequence(d, s)
     ELSE OutOfSequence(d, s, ok, mem)

(* ESTABLISHED and CLOSE_WAIT.                                             *)
tcp_process(c, seg, ok, mem) ==
  LET d == tcp_receive([c EXCEPT !.recv_data = <<>>, !.got_fin = FALSE],
                       seg, ok, mem)
  IN IF d.got_fin THEN tcp_ack_now([d EXCEPT !.state = "CLOSE_WAIT"]) ELSE d

(* recv_tcp posts to the mailbox of the netconn, or refuses.               *)
Post(q, data) == IF Len(q) < MboxSize THEN Append(q, data) ELSE q

(* The callbacks tcp_input makes after tcp_process.  What becomes of the   *)
(* end of the stream is not looked at.                                     *)
Events(c, q, mem) ==
  LET q1 == IF c.recv_data # <<>> THEN Post(q, c.recv_data) ELSE q
  IN /\ mbox' = IF c.got_fin THEN Post(q1, EOF) ELSE q1
     /\ pcb' = tcp_output(
          [c EXCEPT
             !.refused_data = IF Len(q) < MboxSize THEN <<>> ELSE c.recv_data,
             !.rcv_wnd = IF c.got_fin /\ @ # TCP_WND THEN @ + 1 ELSE @,
             !.recv_data = <<>>, !.got_fin = FALSE], mem)

(* The remote host keeps to the announced window, and probes a closed one  *)
(* with one byte.                                                          *)
MaySend(s) ==
  \/ TCP_SEQ_LEQ(Plus(s.seqno, TCP_TCPLEN(s)), pcb.rcv_ann_right_edge)
  \/ s.seqno = pcb.rcv_ann_right_edge /\ TCP_TCPLEN(s) = 1

(* A segment with data or FIN arrives: bytes i .. j - 1 of the stream.     *)
(* Data refused earlier is offered again, and if it is refused again the   *)
(* segment is dropped.                                                     *)
tcp_input(i, j, fin, ok, mem) ==
  LET seg == [seqno |-> Plus(ISS, i), len |-> j - i, fin |-> fin,
              p |-> [k \in 1 .. j - i |-> i + k - 1]]
      retry == pcb.refused_data # <<>>
      full == Len(mbox) = MboxSize
      q == IF retry THEN Post(mbox, pcb.refused_data) ELSE mbox
  IN /\ TCP_TCPLEN(seg) > 0 /\ j - i <= TCP_MSS /\ (fin => j = N)
     /\ MaySend(seg)
     /\ ~(retry /\ full)
     /\ Events(tcp_process([pcb EXCEPT !.refused_data = <<>>], seg, ok, mem),
               q, mem)
     /\ came' = (seg.seqno = pcb.rcv_nxt)
     /\ UNCHANGED <<pend, got, eof>>

(* Refused data is offered again and a delayed ACK is sent; its flags are  *)
(* cleared whether or not there was memory for it.                         *)
tcp_fasttmr(mem) ==
  /\ pcb.refused_data # <<>> \/ "TF_ACK_DELAY" \in pcb.flags
  /\ LET taken == pcb.refused_data # <<>> /\ Len(mbox) < MboxSize
         d == IF taken THEN [pcb EXCEPT !.refused_data = <<>>] ELSE pcb
     IN /\ mbox' = IF taken THEN Append(mbox, pcb.refused_data) ELSE mbox
        /\ pcb' = IF "TF_ACK_DELAY" \in pcb.flags
                  THEN [tcp_output(tcp_ack_now(d), mem) EXCEPT !.flags = {}]
                  ELSE d
  /\ came' = FALSE
  /\ UNCHANGED <<pend, got, eof>>

(* The slow timer polls the connection, which sends what is left to send.  *)
tcp_slowtmr(mem) ==
  /\ "TF_ACK_NOW" \in pcb.flags
  /\ pcb' = tcp_output(pcb, mem)
  /\ came' = FALSE
  /\ UNCHANGED <<mbox, pend, got, eof>>

(* What is out of sequence is given up, because it has waited too long or  *)
(* because the pool of pbufs is empty.                                     *)
pbuf_free_ooseq == /\ pcb.ooseq # <<>>
                   /\ pcb' = [pcb EXCEPT !.ooseq = <<>>]
                   /\ came' = FALSE
                   /\ UNCHANGED <<mbox, pend, got, eof>>

(* netconn_recv takes a chain in the application's thread ...              *)
netconn_recv ==
  /\ mbox # <<>> /\ pend = 0 /\ ~eof
  /\ mbox' = Tail(mbox)
  /\ got' = got \o Head(mbox)
  /\ eof' = (Head(mbox) = EOF)
  /\ pend' = IF Head(mbox) = EOF THEN 1 ELSE Len(Head(mbox))
  /\ came' = FALSE
  /\ UNCHANGED pcb

(* Fault: what was read does not come back to the window.                  *)
FaultRecved(c, len, mem) == tcp_update_rcv_ann_wnd(c)

tcp_recved(c, len, mem) ==
  LET d == [c EXCEPT !.rcv_wnd = IF @ + len > TCP_WND THEN TCP_WND
                                                      ELSE @ + len]
      e == tcp_update_rcv_ann_wnd(d)
  IN IF Inflation(d) >= TCP_WND_UPDATE_THRESHOLD
     THEN tcp_output(tcp_ack_now(e), mem) ELSE e

(* ... and do_recv reports it in the tcpip thread.                         *)
do_recv(mem) == /\ pend # 0
                /\ pcb' = tcp_recved(pcb, pend, mem)
                /\ pend' = 0
                /\ came' = FALSE
                /\ UNCHANGED <<mbox, got, eof>>

Next == \/ \E i \in 0 .. N : \E j \in i .. N, fin, ok, mem \in BOOLEAN :
             tcp_input(i, j, fin, ok, mem)
        \/ \E mem \in BOOLEAN : \/ tcp_fasttmr(mem)
                              \/ tcp_slowtmr(mem)
                              \/ do_recv(mem)
        \/ pbuf_free_ooseq
        \/ netconn_recv

Spec == Init /\ [][Next]_vars

(* The stream's offset of a sequence number.                               *)
Offset(seqno) == Minus(seqno, ISS)

(* The segment that is missing, or a probe for it, finds room.             *)
MayCome == /\ Offset(pcb.rcv_nxt) <= N
           /\ pcb.rcv_wnd > 0
           /\ pcb.refused_data = <<>> \/ Len(mbox) < MboxSize

(* The remote host repeats what is not acknowledged, and probes a closed   *)
(* window, until it arrives; the timers run; the application reads.        *)
FairSpec == /\ Spec
            /\ []<>MayCome => []<>came
            /\ WF_vars(\E mem \in BOOLEAN : tcp_fasttmr(mem))
            /\ WF_vars(netconn_recv)
            /\ WF_vars(\E mem \in BOOLEAN : do_recv(mem))

----------------------------------------------------------------------------
FinSeen == Offset(pcb.rcv_nxt) = N + 1

(* What is acknowledged has been received: everything below rcv_nxt is,    *)
(* once and in order, with the application, in its mailbox or refused; and *)
(* the application does not see the end before the last byte.              *)
AckedIsHeld ==
  /\ TypeOK
  /\ got \o FlattenSeq(mbox) \o pcb.refused_data
       = [k \in 1 .. Offset(pcb.rcv_nxt) - (IF FinSeen THEN 1 ELSE 0) |-> k - 1]
  /\ eof => Len(got) = N

(* The queue is sorted, without overlap, beyond rcv_nxt; every segment has *)
(* the bytes its sequence number and length say, and only the last can end *)
(* the stream.                                                             *)
OoseqOrdered ==
  \A i \in DOMAIN pcb.ooseq :
    LET s == pcb.ooseq[i]
    IN /\ TCP_SEQ_GT(s.seqno, pcb.rcv_nxt)
       /\ s.p = [k \in 1 .. s.len |-> Offset(s.seqno) + k - 1]
       /\ s.fin => i = Len(pcb.ooseq) /\ Offset(s.seqno) + s.len = N
       /\ i < Len(pcb.ooseq) =>
            TCP_SEQ_LEQ(Plus(s.seqno, s.len), pcb.ooseq[i + 1].seqno)

(* The window is what the application does not hold, and the remote host   *)
(* has never been promised more.                                           *)
WindowConserved ==
  /\ pcb.rcv_wnd + Len(FlattenSeq(mbox)) + Len(pcb.refused_data)
       + (IF eof THEN 0 ELSE pend) = TCP_WND
  /\ TCP_SEQ_LEQ(pcb.rcv_ann_right_edge, Plus(pcb.rcv_nxt, pcb.rcv_wnd))

(* All of the stream arrives, however it was cut up, lost and reordered,   *)
(* and however small the window became.                                    *)
AllDelivered == <>(Len(got) = N)
=============================================================================
