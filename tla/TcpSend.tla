------------------------------ MODULE TcpSend ------------------------------
(***************************************************************************)
(* The sending half of a TCP connection of lwIP: tcp_write with its three  *)
(* ways to place data, tcp_output, the retransmission by timeout and by    *)
(* duplicate ACKs, the persist timer, the ACK half of tcp_receive, and     *)
(* closing.                                                                *)
(*                                                                         *)
(* The remote host reads at its own pace, discards what does not come in   *)
(* order, never takes back window it has announced, and sends only ACKs;   *)
(* it may have closed its own direction before (HalfClosed).  Segments and *)
(* ACKs are lost, duplicated and reordered.  Time is left out: a running   *)
(* timer may run out at any moment, so the round-trip estimate is too.     *)
(* Sequence numbers count from the first byte; their wrap is the subject   *)
(* of TcpReceive.  A payload is the sequence of its bytes.                 *)
(***************************************************************************)
EXTENDS Integers, FiniteSets, SequencesExt

CONSTANTS N,                  \* bytes the application writes before it closes
          TCP_MSS, TCP_SND_BUF, TCP_SND_QUEUELEN,
          U16,                \* 2^16, the width of cwnd
          PeerBuf,            \* the remote host's receive buffer
          HalfClosed,         \* it may have sent its FIN
          Copies,             \* whether writes copy their data
          WriteSizes,         \* bytes handed to tcp_write at once
          NetMax, AckMax      \* segments, and ACKs, under way at most

ASSUME SizeAssumption ==
  /\ N \in Nat /\ TCP_MSS \in Nat \ {0} /\ TCP_SND_BUF \in Nat \ {0}
  /\ TCP_SND_QUEUELEN \in Nat
  /\ U16 \in Nat /\ U16 > 6 * TCP_MSS /\ PeerBuf \in Nat \ {0}
  /\ HalfClosed \in BOOLEAN /\ Copies \subseteq BOOLEAN
  /\ WriteSizes \subseteq Nat \ {0} /\ NetMax \in Nat \ {0}
  /\ AckMax \in Nat \ {0}

VARIABLES
  pcb,    \* the fields of the struct tcp_pcb that sending uses
  net,    \* segments on their way to the remote host
  acks,   \* ACKs on their way back
  peer,   \* what the remote host has received, and how much is unread
  did     \* what the last step did, for the fairness conditions
vars == <<pcb, net, acks, peer, did>>

Lesser(a, b) == IF a < b THEN a ELSE b
Greater(a, b) == IF a < b THEN b ELSE a

(* seg->room is what is left of the last pbuf of the segment, clen the     *)
(* number of its pbufs.                                                    *)
TCP_TCPLEN(s) == Len(s.p) + IF s.fin THEN 1 ELSE 0
End(s) == s.seqno + TCP_TCPLEN(s)

(* The pbufs of the segments in q.                                         *)
PbufsOf(q) == UNION {{i} \X (1 .. q[i].clen) : i \in DOMAIN q}
Pbufs(q) == Cardinality(PbufsOf(q))

Init ==
  /\ pcb = [unsent |-> <<>>, unacked |-> <<>>, snd_nxt |-> 0, lastack |-> 0,
            snd_lbb |-> 0, snd_buf |-> TCP_SND_BUF, snd_queuelen |-> 0,
            unsent_oversize |-> 0, snd_wnd |-> PeerBuf, snd_wl2 |-> 0,
            cwnd |-> 2 * TCP_MSS, ssthresh |-> PeerBuf, dupacks |-> 0,
            flags |-> {}, rtime |-> FALSE, persist |-> FALSE, nrtx |-> FALSE,
            state |-> "ESTABLISHED"]
  /\ net = {} /\ acks = {} /\ did = "none"
  /\ peer = [got |-> <<>>, fin |-> FALSE, unread |-> 0]

Active == {"ESTABLISHED", "CLOSE_WAIT", "FIN_WAIT_1", "FIN_WAIT_2",
           "LAST_ACK"}

(* Every counter in its width and every segment within the MSS.            *)
TypeOK ==
  /\ pcb.snd_buf \in 0 .. TCP_SND_BUF + 1
  /\ pcb.snd_queuelen \in 0 .. TCP_SND_QUEUELEN
  /\ pcb.cwnd \in TCP_MSS .. U16 - 1 /\ pcb.nrtx \in BOOLEAN
  /\ pcb.dupacks \in 0 .. 4 /\ pcb.snd_wnd \in 0 .. PeerBuf
  /\ pcb.flags \subseteq {"TF_NAGLEMEMERR", "TF_FIN", "TF_INFR"}
  /\ pcb.state \in Active \cup {"CLOSED", "ABORTED"}
  /\ \A q \in {pcb.unsent, pcb.unacked} : \A i \in DOMAIN q :
       TCP_TCPLEN(q[i]) > 0 /\ Len(q[i].p) <= TCP_MSS

----------------------------------------------------------------------------
(* The network and the remote host.                                        *)

(* The ways to put the members of new under way; what is too much is lost. *)
Carry(old, new, max) ==
  IF Cardinality(old \cup new) <= max THEN {old \cup new}
  ELSE {s \in SUBSET (old \cup new) : Cardinality(s) = max}

PeerNext(r) == Len(r.got) + IF r.fin THEN 1 ELSE 0
PeerAck(r) == [ackno |-> PeerNext(r), wnd |-> PeerBuf - r.unread]

(* What the remote host takes of a segment: the bytes it expects, as far   *)
(* as its buffer goes, and the FIN that follows them.                      *)
Taken(r, s) ==
  LET old == Len(r.got) - s.seqno
      k == Lesser(Len(s.p) - old, PeerBuf - r.unread)
      b == [got |-> r.got \o SubSeq(s.p, old + 1, old + k), fin |-> r.fin,
            unread |-> r.unread + k]
  IN IF r.fin \/ old < 0 \/ old > Len(s.p) THEN r
     ELSE [b EXCEPT !.fin = s.fin /\ Len(b.got) = s.seqno + Len(s.p)]

(* One sequence number of the first segment that is not acknowledged.      *)
Probe(c) ==
  LET s == Head(c.unacked \o c.unsent)
  IN [seqno |-> s.seqno, p |-> SubSeq(s.p, 1, Lesser(1, Len(s.p))),
      fin |-> s.p = <<>>]

(* s is what the timer that runs sends.                                    *)
Resent(s) ==
  LET q == pcb.unacked \o pcb.unsent
  IN \E i \in DOMAIN q :
       /\ \A j \in DOMAIN q : q[i].seqno <= q[j].seqno
       /\ s = IF pcb.persist THEN Probe(pcb)
              ELSE [seqno |-> q[i].seqno, p |-> q[i].p, fin |-> q[i].fin]

(* It answers every segment.                                               *)
PeerReceive(s, dup) ==
  /\ s \in net /\ pcb.state \in Active
  /\ peer' = Taken(peer, s)
  /\ acks' \in Carry(acks, {PeerAck(peer')}, AckMax)
  /\ net' = IF dup THEN net ELSE net \ {s}
  /\ did' = IF Resent(s) THEN "seg" ELSE "none"
  /\ UNCHANGED pcb

(* Its application reads, and the larger window is announced.              *)
PeerRead ==
  /\ peer.unread > 0 /\ pcb.state \in Active
  /\ peer' = [peer EXCEPT !.unread = 0]
  /\ acks' \in Carry(acks, {PeerAck(peer')}, AckMax)
  /\ did' = "read"
  /\ UNCHANGED <<pcb, net>>

Lose == /\ pcb.state \in Active
        /\ \/ \E s \in net : net' = net \ {s} /\ UNCHANGED acks
           \/ \E a \in acks : acks' = acks \ {a} /\ UNCHANGED net
        /\ did' = "none"
        /\ UNCHANGED <<pcb, peer>>

----------------------------------------------------------------------------
(* tcp_output                                                              *)

Fits(c, s, wnd) == s.seqno - c.lastack + Len(s.p) <= wnd

tcp_do_output_nagle(c) ==
  \/ c.unacked = <<>>
  \/ "TF_INFR" \in c.flags
  \/ Len(c.unsent) > 1
  \/ c.unsent # <<>> /\ Len(Head(c.unsent).p) >= TCP_MSS

(* Fault: a retransmitted segment goes to the tail.                        *)
FaultSorted(q, s) == Append(q, s)

(* s behind the segments at the head of q that start before it.            *)
Sorted(q, s) ==
  LET n == Cardinality({i \in DOMAIN q : \A j \in 1 .. i :
                          q[j].seqno < s.seqno})
  IN SubSeq(q, 1, n) \o <<s>> \o SubSeq(q, n + 1, Len(q))

tcp_output_segment(c, s) ==
  [c EXCEPT !.unsent = Tail(@), !.unacked = Sorted(@, s),
            !.snd_nxt = Greater(@, End(s)), !.rtime = TRUE]

(* One turn of the loop of tcp_output.                                     *)
Turn(a, s) ==
  IF /\ a.more
     /\ Fits(a.c, s, Lesser(a.c.snd_wnd, a.c.cwnd))
     /\ tcp_do_output_nagle(a.c)
          \/ a.c.flags \cap {"TF_NAGLEMEMERR", "TF_FIN"} # {}
  THEN [more |-> TRUE, c |-> tcp_output_segment(a.c, s),
        out |-> a.out \cup {[seqno |-> s.seqno, p |-> s.p, fin |-> s.fin]}]
  ELSE [a EXCEPT !.more = FALSE]

(* The loop, turn by turn: each takes the first segment that is left.      *)
Turns(c) ==
  LET turn[k \in 0 .. Len(c.unsent)] ==
        IF k = 0 THEN [more |-> TRUE, c |-> c, out |-> {}]
        ELSE Turn(turn[k - 1], c.unsent[k])
  IN turn

(* The first segment that is left does not fit the window.                 *)
Persist(c) == c.unsent # <<>> /\ ~Fits(c, Head(c.unsent), c.snd_wnd)

(* Fault: the room in the last segment is remembered after it was sent.    *)
FaultOutput(c) ==
  LET a == Turns(c)[Len(c.unsent)]
  IN [c |-> [a.c EXCEPT !.persist = @ \/ Persist(a.c),
                        !.flags = @ \ {"TF_NAGLEMEMERR"}],
      out |-> a.out]

tcp_output(c) ==
  LET a == Turns(c)[Len(c.unsent)]
  IN [c |-> [a.c EXCEPT !.unsent_oversize = IF a.c.unsent = <<>> THEN 0 ELSE @,
                        !.persist = @ \/ Persist(a.c),
                        !.flags = @ \ {"TF_NAGLEMEMERR"}],
      out |-> a.out]

(* A step ends with tcp_output on c.                                       *)
Output(c) == LET r == tcp_output(c)
             IN pcb' = r.c /\ net' \in Carry(net, r.out, NetMax)

----------------------------------------------------------------------------
(* tcp_write                                                               *)

Bytes(from, n) == [k \in 1 .. n |-> from + k - 1]

(* Fault: every piece is taken from the start of the data.                 *)
FaultData(c, pos, n) == Bytes(c.snd_lbb, n)

(* The n bytes after the first pos of what is written.                     *)
Data(c, pos, n) == Bytes(c.snd_lbb + pos, n)

(* What is left over of a pbuf for len bytes.                              *)
tcp_pbuf_prealloc(c, len, max, more, first) ==
  IF more \/ ~first \/ c.unsent # <<>> \/ c.unacked # <<>> THEN max - len ELSE 0

(* Phases 1 and 2: how much of len fills up the last unsent segment, used  *)
(* in its own buffer and cat in a new pbuf.                                *)
Used(c, len) == IF c.unsent = <<>> THEN 0 ELSE Lesser(c.unsent_oversize, len)
Cat(c, len) ==
  LET space == TCP_MSS - Len(Last(c.unsent).p) - Used(c, len)
  IN IF c.unsent = <<>> THEN 0
     ELSE IF Len(Last(c.unsent).p) = 0 THEN 0
     ELSE Lesser(space, len - Used(c, len))

Filled(c, len, copy, more) ==
  LET cat == Cat(c, len)
      s == Last(c.unsent)
      space == TCP_MSS - Len(s.p) - Used(c, len)
  IN [s EXCEPT !.p = @ \o Data(c, 0, Used(c, len) + cat),
               !.clen = @ + IF cat > 0 THEN 1 ELSE 0,
               !.room = IF cat = 0 THEN @ - Used(c, len)
                        ELSE IF copy
                        THEN tcp_pbuf_prealloc(c, cat, space, more, TRUE)
                        ELSE 0]

(* Phase 3: new segments for the rest.                                     *)
NewSegments(c, len, copy, more) ==
  LET pos == Used(c, len) + Cat(c, len)
      size(i) == Lesser(TCP_MSS, len - pos - (i - 1) * TCP_MSS)
  IN [i \in 1 .. (len - pos + TCP_MSS - 1) \div TCP_MSS |->
        [seqno |-> c.snd_lbb + pos + (i - 1) * TCP_MSS,
         p |-> Data(c, pos + (i - 1) * TCP_MSS, size(i)),
         fin |-> FALSE, clen |-> IF copy THEN 1 ELSE 2,
         room |-> IF copy
                  THEN tcp_pbuf_prealloc(c, size(i), TCP_MSS, more, i = 1)
                  ELSE 0]]

Refused(c) == [c EXCEPT !.flags = @ \cup {"TF_NAGLEMEMERR"}]

(* mem: every allocation succeeds.                                         *)
tcp_write(c, len, copy, more, mem) ==
  LET pos == Used(c, len) + Cat(c, len)
      new == NewSegments(c, len, copy, more)
      last == Filled(c, len, copy, more)
      queue == IF pos = 0 THEN c.unsent \o new
               ELSE Front(c.unsent) \o <<last>> \o new
      grown == (IF Cat(c, len) > 0 THEN 1 ELSE 0) + Pbufs(new)
      oversize == IF new # <<>> THEN Last(new).room
                  ELSE IF Cat(c, len) > 0 THEN last.room
                  ELSE c.unsent_oversize - Used(c, len)
  IN IF \/ c.snd_queuelen >= TCP_SND_QUEUELEN
        \/ ~mem
        \/ new # <<>> /\ c.snd_queuelen + grown > TCP_SND_QUEUELEN
     THEN Refused(c)
     ELSE [c EXCEPT !.unsent = queue, !.unsent_oversize = oversize,
                    !.snd_lbb = @ + len, !.snd_buf = @ - len,
                    !.snd_queuelen = @ + grown]

(* do_writemore with a part of what the application wants to send.         *)
Write(len, copy, more, mem) ==
  /\ pcb.state \in {"ESTABLISHED", "CLOSE_WAIT"}
  /\ len <= pcb.snd_buf /\ pcb.snd_lbb + len <= N
  /\ more => len = pcb.snd_buf
  /\ Output(tcp_write(pcb, len, copy, more, mem))
  /\ did' = "none"
  /\ UNCHANGED <<acks, peer>>

----------------------------------------------------------------------------
(* Closing                                                                 *)

tcp_enqueue_flags(c) ==
  [c EXCEPT !.unsent = Append(@, [seqno |-> c.snd_lbb, p |-> <<>>,
                                  fin |-> TRUE, clen |-> 1, room |-> 0]),
            !.unsent_oversize = 0, !.snd_lbb = @ + 1, !.snd_buf = @ - 1,
            !.flags = @ \cup {"TF_FIN"}, !.snd_queuelen = @ + 1]

(* The FIN goes with the last unsent segment or by itself.                 *)
tcp_send_fin(c) ==
  IF c.unsent # <<>>
  THEN [c EXCEPT !.unsent = Front(@) \o <<[Last(@) EXCEPT !.fin = TRUE]>>]
  ELSE tcp_enqueue_flags(c)

(* A close for which there is no memory is tried again later.              *)
Close(mem) ==
  /\ pcb.state \in {"ESTABLISHED", "CLOSE_WAIT"} /\ pcb.snd_lbb = N
  /\ LET full == pcb.snd_queuelen >= TCP_SND_QUEUELEN
     IN IF pcb.unsent # <<>> \/ (mem /\ ~full /\ pcb.snd_buf > 0)
        THEN Output([tcp_send_fin(pcb) EXCEPT
                       !.state = IF @ = "CLOSE_WAIT" THEN "LAST_ACK"
                                                     ELSE "FIN_WAIT_1"])
        ELSE /\ pcb' = IF full \/ pcb.snd_buf > 0 THEN Refused(pcb) ELSE pcb
             /\ UNCHANGED net
  /\ did' = "none"
  /\ UNCHANGED <<acks, peer>>

(* The remote host has closed its direction.                               *)
PeerFin == /\ HalfClosed /\ pcb.state = "ESTABLISHED"
           /\ pcb' = [pcb EXCEPT !.state = "CLOSE_WAIT"]
           /\ did' = "none"
           /\ UNCHANGED <<net, acks, peer>>

tcp_pcb_purge(c) == [c EXCEPT !.unsent = <<>>, !.unacked = <<>>,
                              !.unsent_oversize = 0, !.snd_queuelen = 0,
                              !.rtime = FALSE, !.persist = FALSE]

----------------------------------------------------------------------------
(* ACKs                                                                    *)

tcp_rexmit(c) ==
  IF c.unacked = <<>> THEN c
  ELSE [c EXCEPT !.unacked = Tail(@), !.unsent = Sorted(@, Head(c.unacked)),
                 !.nrtx = TRUE]

tcp_rexmit_fast(c) ==
  LET half == Greater(Lesser(c.cwnd, c.snd_wnd) \div 2, 2 * TCP_MSS)
  IN IF c.unacked = <<>> \/ "TF_INFR" \in c.flags THEN c
     ELSE [tcp_rexmit(c) EXCEPT !.ssthresh = half,
                                !.cwnd = half + 3 * TCP_MSS,
                                !.flags = @ \cup {"TF_INFR"}]

Inflated(cwnd) == IF cwnd + TCP_MSS < U16 THEN cwnd + TCP_MSS ELSE cwnd

(* Fault: a window of an older ACK is taken, too.                          *)
FaultUpdateWindow(c, a) ==
  [c EXCEPT !.snd_wnd = a.wnd, !.snd_wl2 = a.ackno,
            !.persist = @ /\ a.wnd = 0]

UpdateWindow(c, a) ==
  IF c.snd_wl2 < a.ackno \/ (c.snd_wl2 = a.ackno /\ a.wnd > c.snd_wnd)
  THEN [c EXCEPT !.snd_wnd = a.wnd, !.snd_wl2 = a.ackno,
                 !.persist = @ /\ a.wnd = 0]
  ELSE c

(* An ACK for nothing new, d after the window was updated.                 *)
OldAck(c, d, a) ==
  LET dup == /\ d.snd_wl2 + d.snd_wnd = c.snd_wl2 + c.snd_wnd
             /\ d.rtime
             /\ d.lastack = a.ackno
      e == [d EXCEPT !.dupacks = IF dup THEN Lesser(@ + 1, 4) ELSE 0]
  IN IF e.dupacks > 3 THEN [e EXCEPT !.cwnd = Inflated(@)]
     ELSE IF e.dupacks = 3 THEN tcp_rexmit_fast(e) ELSE e

(* The segments at the head of q that end at or before ackno.              *)
Acked(q, ackno) ==
  SubSeq(q, 1, Cardinality({i \in DOMAIN q :
                              \A j \in 1 .. i : End(q[j]) <= ackno}))
Rest(q, ackno) == SubSeq(q, Len(Acked(q, ackno)) + 1, Len(q))

(* Fault: the timer is stopped though something is outstanding.            *)
FaultNewAck(d, a) ==
  [d EXCEPT !.nrtx = FALSE, !.snd_buf = @ + a.ackno - d.lastack, !.dupacks = 0,
            !.lastack = a.ackno, !.unacked = Rest(@, a.ackno),
            !.snd_queuelen = @ - Pbufs(Acked(d.unacked, a.ackno)),
            !.rtime = FALSE]

NewAck(d, a) ==
  LET base == IF "TF_INFR" \in d.flags THEN d.ssthresh ELSE d.cwnd
      slow == (base + (TCP_MSS * TCP_MSS) \div base) % U16
  IN [d EXCEPT !.flags = @ \ {"TF_INFR"}, !.nrtx = FALSE,
               !.snd_buf = @ + a.ackno - d.lastack, !.dupacks = 0,
               !.lastack = a.ackno,
               !.cwnd = IF base < d.ssthresh THEN Inflated(base)
                        ELSE Greater(base, slow),
               !.unacked = Rest(@, a.ackno),
               !.snd_queuelen = @ - Pbufs(Acked(d.unacked, a.ackno)),
               !.rtime = Rest(d.unacked, a.ackno) # <<>>]

(* What was sent before and waits to be sent again may be acknowledged.    *)
AckUnsent(c, a) ==
  IF a.ackno > c.snd_nxt THEN c
  ELSE [c EXCEPT !.unsent = Rest(@, a.ackno),
                 !.snd_queuelen = @ - Pbufs(Acked(c.unsent, a.ackno))]

tcp_receive(c, a) ==
  LET d == UpdateWindow(c, a)
  IN AckUnsent(IF a.ackno <= c.lastack THEN OldAck(c, d, a)
               ELSE IF a.ackno <= c.snd_nxt THEN NewAck(d, a)
               ELSE d, a)

(* Everything that was sent is acknowledged: the states of closing take    *)
(* that for an ACK of the FIN.                                             *)
tcp_process(c, a) ==
  LET d == tcp_receive(c, a)
  IN IF a.ackno # d.snd_nxt THEN d
     ELSE IF d.state = "FIN_WAIT_1" THEN [d EXCEPT !.state = "FIN_WAIT_2"]
     ELSE IF d.state = "LAST_ACK"
     THEN [tcp_pcb_purge(d) EXCEPT !.state = "CLOSED"]
     ELSE d

tcp_input(a, dup) ==
  /\ a \in acks /\ pcb.state \in Active
  /\ Output(tcp_process(pcb, a))
  /\ acks' = IF dup THEN acks ELSE acks \ {a}
  /\ did' = IF a = PeerAck(peer) THEN "ack" ELSE "none"
  /\ UNCHANGED peer

----------------------------------------------------------------------------
(* The slow timer                                                          *)

tcp_rexmit_rto(c) ==
  [c EXCEPT !.unsent = c.unacked \o @, !.unacked = <<>>,
            !.nrtx = TRUE]

RtoRuns == /\ pcb.state \in Active
           /\ ~pcb.persist /\ pcb.rtime /\ pcb.unacked # <<>>

Rto == /\ RtoRuns
       /\ LET half == Lesser(pcb.cwnd, pcb.snd_wnd) \div 2
          IN Output(tcp_rexmit_rto(
               [pcb EXCEPT !.ssthresh = Greater(half, 2 * TCP_MSS),
                           !.cwnd = TCP_MSS]))
       /\ did' = "rto"
       /\ UNCHANGED <<acks, peer>>

PersistRuns == /\ pcb.state \in Active
               /\ pcb.persist /\ pcb.unacked \o pcb.unsent # <<>>

tcp_zero_window_probe ==
  /\ PersistRuns
  /\ net' \in Carry(net, {Probe(pcb)}, NetMax)
  /\ did' = "probe"
  /\ UNCHANGED <<pcb, acks, peer>>

(* Too many retransmissions, or too long a wait for the remote host's part *)
(* of closing, remove the connection.                                      *)
GiveUp == /\ pcb.state \in Active
          /\ pcb.nrtx \/ pcb.state \in {"FIN_WAIT_2", "LAST_ACK"}
          /\ pcb' = [tcp_pcb_purge(pcb) EXCEPT !.state = "ABORTED"]
          /\ net' = {} /\ acks' = {}
          /\ did' = "none"
          /\ UNCHANGED peer

----------------------------------------------------------------------------
Next == \/ \E s \in net, dup \in BOOLEAN : PeerReceive(s, dup)
        \/ PeerRead
        \/ Lose
        \/ \E len \in WriteSizes, copy \in Copies, more, mem \in BOOLEAN :
             Write(len, copy, more, mem)
        \/ \E mem \in BOOLEAN : Close(mem)
        \/ PeerFin
        \/ \E a \in acks, dup \in BOOLEAN : tcp_input(a, dup)
        \/ Rto
        \/ tcp_zero_window_probe
        \/ GiveUp

Spec == Init /\ [][Next]_vars

(* A timer that keeps running runs out; what is sent again and again gets  *)
(* through; the remote application reads.                                  *)
FairSpec ==
  /\ Spec
  /\ <>[]RtoRuns => []<>(did = "rto")
  /\ <>[]PersistRuns => []<>(did = "probe")
  /\ []<>(did \in {"rto", "probe"}) => []<>(did = "seg")
  /\ []<>(did = "seg") => []<>(did = "ack")
  /\ <>[](peer.unread > 0) => []<>(did = "read")

----------------------------------------------------------------------------
Gone == pcb.state \in {"CLOSED", "ABORTED"}
Queued == pcb.unacked \o pcb.unsent

(* The remote host receives the bytes the application wrote, in order,     *)
(* however tcp_write placed them and in which order they were sent again.  *)
StreamIntact == peer.got = Bytes(0, Len(peer.got))

(* The counters that admit writes agree with the queues.                   *)
BuffersConserved ==
  ~Gone => /\ pcb.snd_buf + pcb.snd_lbb - pcb.lastack = TCP_SND_BUF
           /\ pcb.snd_queuelen = Pbufs(pcb.unsent) + Pbufs(pcb.unacked)

(* unacked followed by unsent is, after every step, all that was written   *)
(* and is not acknowledged: once, in order, without a gap, whatever was    *)
(* sent again, and the counters agree with it.                             *)
NothingDropped ==
  /\ TypeOK
  /\ BuffersConserved
  /\ ~Gone =>
       /\ \A i \in 2 .. Len(Queued) : Queued[i].seqno = End(Queued[i - 1])
       /\ IF Queued = <<>> THEN pcb.lastack >= pcb.snd_lbb
          ELSE /\ Queued[1].seqno <= pcb.lastack
               /\ pcb.lastack < End(Queued[1])
               /\ End(Last(Queued)) \in {pcb.snd_lbb, pcb.snd_lbb + 1}

(* tcp_write never copies past the end of a buffer: unsent_oversize is no  *)
(* more than what is left of the last pbuf of the last unsent segment.     *)
OversizeIsThere ==
  pcb.unsent_oversize <= IF pcb.unsent = <<>> THEN 0
                         ELSE Last(pcb.unsent).room

(* The window the sender goes by is never beyond what was announced, with  *)
(* ACKs out of order.                                                      *)
WindowRespected ==
  ~Gone => pcb.lastack + pcb.snd_wnd <= Len(peer.got) + 1 + PeerBuf - peer.unread

(* What is written is acknowledged in the end, or the connection is given  *)
(* up.                                                                     *)
AllAcked == <>[](pcb.unsent \o pcb.unacked = <<>> \/ Gone)
=============================================================================
