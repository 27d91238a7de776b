--------------------------- MODULE TcpSend_proofs ---------------------------
(***************************************************************************)
(* Proofs about the sending half of a TCP connection: for every size of    *)
(* the segments, buffers and windows, every width of cwnd, and any number  *)
(* of lost, doubled and reordered segments and ACKs.                       *)
(***************************************************************************)
EXTENDS TcpSend, SequenceTheorems, FiniteSetTheorems, FunctionTheorems, TLAPS

(* Well-formed segments: they have a payload or a FIN, fit the MSS with    *)
(* their spare room, and hold the bytes their sequence number says.        *)
Segment == {s \in [seqno : Nat, p : Seq(Nat), fin : BOOLEAN, clen : Nat, room : Nat] :
              /\ TCP_TCPLEN(s) > 0
              /\ Len(s.p) + s.room <= TCP_MSS
              /\ s.p = Bytes(s.seqno, Len(s.p))}

Open == {"ESTABLISHED", "CLOSE_WAIT"}
Flags == {"TF_NAGLEMEMERR", "TF_FIN", "TF_INFR"}

Pcb == [unsent : Seq(Segment), unacked : Seq(Segment), snd_nxt : Nat,
        lastack : Nat, snd_lbb : Nat, snd_buf : Nat,
        snd_queuelen : 0 .. TCP_SND_QUEUELEN, unsent_oversize : Nat,
        snd_wnd : 0 .. PeerBuf, snd_wl2 : Nat, cwnd : TCP_MSS .. U16 - 1,
        ssthresh : Nat, dupacks : 0 .. 4, flags : SUBSET Flags,
        rtime : BOOLEAN, persist : BOOLEAN, nrtx : BOOLEAN,
        state : Active \cup {"CLOSED", "ABORTED"}]

(* The end of what was written; a FIN that went with data is not counted   *)
(* by snd_lbb.                                                             *)
Edge(c) == c.snd_lbb + IF c.state \notin Open /\ "TF_FIN" \notin c.flags
                       THEN 1 ELSE 0

(* A queue without gaps and overlaps; what ends the stream is last.        *)
Chain(q) ==
  /\ \A i \in 1 .. Len(q) - 1 : q[i + 1].seqno = End(q[i])
  /\ \A i, j \in 1 .. Len(q) : i < j => End(q[i]) <= q[j].seqno
  /\ \A i \in 1 .. Len(q) : q[i].fin = TRUE => i = Len(q)

(* unacked u and unsent t in line: last is lastack, nxt is snd_nxt, edge   *)
(* is the end of what was written, right the right edge of the window.     *)
Linked(u, t) == u # <<>> /\ t # <<>> => t[1].seqno = End(u[Len(u)])
NoFin(q) == \A i \in 1 .. Len(q) : q[i].fin = FALSE
Holds(q, x) == q[1].seqno <= x /\ x < End(q[1])
Starts(u, t, last, edge) ==
  /\ u # <<>> => Holds(u, last)
  /\ u = <<>> /\ t # <<>> => Holds(t, last)
  /\ u = <<>> /\ t = <<>> => last = edge
Ends(u, t, nxt, edge) ==
  /\ t # <<>> => /\ End(t[Len(t)]) = edge /\ t[1].seqno <= nxt
                 /\ NoFin(u)
  /\ t = <<>> => nxt = edge
  /\ u # <<>> /\ t = <<>> => End(u[Len(u)]) = edge
Sent(u, nxt, right) ==
  \A i \in 1 .. Len(u) : /\ End(u[i]) <= nxt
                         /\ u[i].seqno + Len(u[i].p) <= right
Line(u, t, last, nxt, edge, right) ==
  /\ Chain(u) /\ Chain(t) /\ Linked(u, t)
  /\ Starts(u, t, last, edge) /\ Ends(u, t, nxt, edge) /\ Sent(u, nxt, right)
  /\ last <= nxt /\ nxt <= edge

(* How far the remote host can have got: a probe of a closed window may    *)
(* have carried the byte that is next to be sent.                          *)
Reach(u, t, nxt) ==
  IF u = <<>> /\ t # <<>> /\ t[1].seqno = nxt THEN nxt + 1 ELSE nxt

-----------------------------------------------------------------------------
(* Segments and their ends.                                                *)

(* A segment ends behind its start, at the end of its bytes or one later.  *)
LEMMA SegmentFacts ==
  ASSUME NEW s \in Segment
  PROVE  /\ s.seqno \in Nat /\ Len(s.p) \in Nat /\ End(s) \in Nat
         /\ s.fin \in BOOLEAN /\ s.clen \in Nat /\ s.room \in Nat
         /\ s.p \in Seq(Nat)
         /\ s.seqno < End(s) /\ s.seqno + Len(s.p) <= End(s)
         /\ s.fin = TRUE => End(s) = s.seqno + Len(s.p) + 1
         /\ s.fin = FALSE => End(s) = s.seqno + Len(s.p)
         /\ Len(s.p) + s.room <= TCP_MSS
         /\ s.p = Bytes(s.seqno, Len(s.p))
<1>1. /\ s \in [seqno : Nat, p : Seq(Nat), fin : BOOLEAN, clen : Nat, room : Nat]
      /\ TCP_TCPLEN(s) > 0 /\ Len(s.p) + s.room <= TCP_MSS
      /\ s.p = Bytes(s.seqno, Len(s.p))
  BY DEF Segment
<1>2. /\ s.seqno \in Nat /\ s.fin \in BOOLEAN /\ s.clen \in Nat /\ s.room \in Nat
      /\ s.p \in Seq(Nat)
  BY <1>1
<1>3. Len(s.p) \in Nat
  BY <1>2
<1>4. s.seqno \in Nat /\ TCP_TCPLEN(s) > 0 /\ End(s) = s.seqno + TCP_TCPLEN(s)
  BY <1>1, <1>2 DEF End
<1>5. CASE s.fin = TRUE
  <2>1. TCP_TCPLEN(s) = Len(s.p) + 1
    BY <1>5 DEF TCP_TCPLEN
  <2>2. /\ End(s) \in Nat /\ s.seqno < End(s) /\ s.seqno + Len(s.p) <= End(s)
        /\ End(s) = s.seqno + Len(s.p) + 1
    BY <1>3, <1>4, <2>1
  <2> QED
    BY <1>1, <1>2, <1>3, <1>5, <2>2
<1>6. CASE s.fin = FALSE
  <2>1. TCP_TCPLEN(s) = Len(s.p) + 0
    BY <1>6 DEF TCP_TCPLEN
  <2>2. /\ End(s) \in Nat /\ s.seqno < End(s) /\ s.seqno + Len(s.p) <= End(s)
        /\ End(s) = s.seqno + Len(s.p)
    BY <1>3, <1>4, <2>1
  <2> QED
    BY <1>1, <1>2, <1>3, <1>6, <2>2
<1> QED
  BY <1>2, <1>5, <1>6

(* What a queue holds are segments.                                        *)
LEMMA QueueFacts ==
  ASSUME NEW q \in Seq(Segment)
  PROVE  /\ Len(q) \in Nat /\ DOMAIN q = 1 .. Len(q)
         /\ \A i \in 1 .. Len(q) : /\ q[i] \in Segment
                                   /\ q[i].seqno \in Nat /\ End(q[i]) \in Nat
                                   /\ Len(q[i].p) \in Nat
                                   /\ q[i].seqno < End(q[i])
                                   /\ q[i].seqno + Len(q[i].p) <= End(q[i])
         /\ q # <<>> <=> Len(q) > 0
         /\ q # <<>> => 1 \in 1 .. Len(q) /\ Len(q) \in 1 .. Len(q)
<1>1. /\ Len(q) \in Nat /\ DOMAIN q = 1 .. Len(q)
      /\ \A i \in 1 .. Len(q) : q[i] \in Segment
  OBVIOUS
<1>2. q # <<>> <=> Len(q) > 0
  BY <1>1, EmptySeq
<1>3. \A i \in 1 .. Len(q) : /\ q[i].seqno \in Nat /\ End(q[i]) \in Nat
                             /\ Len(q[i].p) \in Nat
                             /\ q[i].seqno < End(q[i])
                             /\ q[i].seqno + Len(q[i].p) <= End(q[i])
  <2> SUFFICES ASSUME NEW i \in 1 .. Len(q)
               PROVE  /\ q[i].seqno \in Nat /\ End(q[i]) \in Nat
                      /\ Len(q[i].p) \in Nat
                      /\ q[i].seqno < End(q[i])
                      /\ q[i].seqno + Len(q[i].p) <= End(q[i])
    OBVIOUS
  <2>1. q[i] \in Segment
    BY <1>1
  <2> QED
    BY <2>1, SegmentFacts
<1> QED
  BY <1>1, <1>2, <1>3

-----------------------------------------------------------------------------
(* Heads of queues.                                                        *)

(* Some numbers have a least one.                                          *)
LEMMA LeastOf ==
  ASSUME NEW S, S \subseteq Nat, S # {}
  PROVE  \E x \in S : \A y \in S : x <= y
<1> DEFINE R == OpToRel(<, Nat)
<1>1. IsWellFoundedOn(R, Nat)
  BY NatLessThanWellFounded
<1>2. \A x, y \in Nat : x < y => <<x, y>> \in R
  BY DEF OpToRel
<1> HIDE DEF R
<1>3. \E x \in S : \A y \in S : ~(<<y, x>> \in R)
  BY <1>1, WFMin
<1>4. PICK x \in S : \A y \in S : ~(<<y, x>> \in R)
  BY <1>3
<1>5. \A y \in S : x <= y
  <2> SUFFICES ASSUME NEW y \in S
               PROVE  x <= y
    OBVIOUS
  <2>1. x \in Nat /\ y \in Nat /\ ~(y < x)
    BY <1>2, <1>4
  <2> QED
    BY <2>1
<1> QED
  BY <1>5

(* The places up to which everything is in S, and how many they are.       *)
HeadIn(L, S) == {i \in 1 .. L : \A j \in 1 .. i : j \in S}

LEMMA HeadLength ==
  ASSUME NEW L \in Nat, NEW S
  PROVE  \E n \in 0 .. L : /\ Cardinality(HeadIn(L, S)) = n
                           /\ \A i \in 1 .. n : i \in S
                           /\ n < L => n + 1 \notin S
<1> DEFINE B == {j \in 1 .. L : j \notin S}
<1>1. \E n \in 0 .. L : /\ \A i \in 1 .. n : i \in S
                        /\ n < L => n + 1 \notin S
  <2>1. CASE B = {}
    <3>1. \A i \in 1 .. L : i \in S
      BY <2>1
    <3>2. L \in 0 .. L /\ ~(L < L)
      OBVIOUS
    <3> QED
      BY <3>1, <3>2
  <2>2. CASE B # {}
    <3>1. PICK x \in B : \A y \in B : x <= y
      <4>1. B \subseteq Nat
        OBVIOUS
      <4> QED
        BY <2>2, <4>1, LeastOf
    <3>2. x \in 1 .. L /\ x \notin S
      OBVIOUS
    <3>3. \A i \in 1 .. x - 1 : i \in S
      <4> SUFFICES ASSUME NEW i \in 1 .. x - 1, i \notin S
                   PROVE  FALSE
        OBVIOUS
      <4>1. i \in B
        BY <3>2
      <4>2. x <= i
        BY <3>1, <4>1
      <4> QED
        BY <3>2, <4>2
    <3>4. x - 1 \in 0 .. L /\ (x - 1) + 1 = x
      BY <3>2
    <3> QED
      BY <3>2, <3>3, <3>4
  <2> QED
    BY <2>1, <2>2
<1>2. PICK n \in 0 .. L : /\ \A i \in 1 .. n : i \in S
                          /\ n < L => n + 1 \notin S
  BY <1>1
<1>3. HeadIn(L, S) = 1 .. n
  <2>1. ASSUME NEW i \in HeadIn(L, S)
        PROVE  i \in 1 .. n
    <3>1. i \in 1 .. L /\ \A j \in 1 .. i : j \in S
      BY DEF HeadIn
    <3>2. SUFFICES ASSUME ~(i <= n)
                   PROVE  FALSE
      BY <3>1
    <3>3. n + 1 \in 1 .. i /\ n < L
      BY <3>1, <3>2
    <3> QED
      BY <1>2, <3>1, <3>3
  <2>2. ASSUME NEW i \in 1 .. n
        PROVE  i \in HeadIn(L, S)
    <3>1. i \in 1 .. L /\ \A j \in 1 .. i : j \in 1 .. n
      OBVIOUS
    <3> QED
      BY <1>2, <3>1 DEF HeadIn
  <2> QED
    BY <2>1, <2>2
<1>4. Cardinality(1 .. n) = n
  <2>1. n \in Nat /\ 1 \in Int /\ n \in Int /\ (n < 1 => n = 0)
    OBVIOUS
  <2>2. Cardinality(1 .. n) = IF 1 > n THEN 0 ELSE n - 1 + 1
    BY <2>1, FS_Interval
  <2> QED
    BY <2>1, <2>2
<1> QED
  BY <1>2, <1>3, <1>4

(* A part of a queue.                                                      *)
LEMMA PartFacts ==
  ASSUME NEW q \in Seq(Segment), NEW m \in Nat, NEW n \in Nat, m <= n, n <= Len(q)
  PROVE  /\ SubSeq(q, m + 1, n) \in Seq(Segment)
         /\ Len(SubSeq(q, m + 1, n)) = n - m
         /\ \A i \in 1 .. n - m : SubSeq(q, m + 1, n)[i] = q[m + i]
<1>1. /\ Len(q) \in Nat /\ \A i \in 1 .. Len(q) : q[i] \in Segment
  BY QueueFacts
<1>2. \A i \in m + 1 .. n : q[i] \in Segment
  BY <1>1
<1>3. m + 1 \in Int /\ n \in Int
  OBVIOUS
<1>4. /\ SubSeq(q, m + 1, n) \in Seq(Segment)
      /\ Len(SubSeq(q, m + 1, n)) = IF m + 1 <= n THEN n - (m + 1) + 1 ELSE 0
      /\ \A i \in 1 .. n - (m + 1) + 1 : SubSeq(q, m + 1, n)[i] = q[(m + 1) + i - 1]
  BY <1>2, <1>3, SubSeqProperties
<1>5. n - (m + 1) + 1 = n - m
  OBVIOUS
<1>6. \A i \in 1 .. n - m : (m + 1) + i - 1 = m + i
  OBVIOUS
<1>7. Len(SubSeq(q, m + 1, n)) = n - m
  BY <1>4
<1> QED
  BY <1>4, <1>5, <1>6, <1>7

(* Two queues with the same segments are the same.                         *)
LEMMA SameQueue ==
  ASSUME NEW q \in Seq(Segment), NEW r \in Seq(Segment), Len(q) = Len(r),
         \A i \in 1 .. Len(q) : q[i] = r[i]
  PROVE  q = r
BY SeqEqual

(* A queue behind another.                                                 *)
LEMMA JoinFacts ==
  ASSUME NEW q \in Seq(Segment), NEW r \in Seq(Segment)
  PROVE  /\ q \o r \in Seq(Segment)
         /\ Len(q \o r) = Len(q) + Len(r)
         /\ \A i \in 1 .. Len(q) : (q \o r)[i] = q[i]
         /\ \A i \in 1 .. Len(r) : (q \o r)[Len(q) + i] = r[i]
<1>1. /\ q \o r \in Seq(Segment) /\ Len(q \o r) = Len(q) + Len(r)
      /\ \A i \in 1 .. Len(q) + Len(r) :
           (q \o r)[i] = IF i <= Len(q) THEN q[i] ELSE r[i - Len(q)]
  BY ConcatProperties
<1>2. Len(q) \in Nat /\ Len(r) \in Nat
  OBVIOUS
<1>3. \A i \in 1 .. Len(q) : (q \o r)[i] = q[i]
  BY <1>1, <1>2
<1>4. \A i \in 1 .. Len(r) : /\ Len(q) + i \in 1 .. Len(q) + Len(r)
                             /\ ~(Len(q) + i <= Len(q)) /\ Len(q) + i - Len(q) = i
  BY <1>2
<1> QED
  BY <1>1, <1>3, <1>4

(* A queue of one segment, and one with its first segment taken off.       *)
LEMMA OneFacts ==
  ASSUME NEW s \in Segment
  PROVE  <<s>> \in Seq(Segment) /\ Len(<<s>>) = 1 /\ <<s>>[1] = s /\ <<s>> # <<>>
OBVIOUS

LEMMA TailFacts ==
  ASSUME NEW q \in Seq(Segment), q # <<>>
  PROVE  /\ Head(q) = q[1] /\ Tail(q) \in Seq(Segment)
         /\ Len(Tail(q)) = Len(q) - 1
         /\ \A i \in 1 .. Len(q) - 1 : Tail(q)[i] = q[i + 1]
OBVIOUS

LEMMA AppendFacts ==
  ASSUME NEW q \in Seq(Segment), NEW s \in Segment
  PROVE  /\ Append(q, s) \in Seq(Segment) /\ Len(Append(q, s)) = Len(q) + 1
         /\ Append(q, s) # <<>>
         /\ \A i \in 1 .. Len(q) : Append(q, s)[i] = q[i]
         /\ Append(q, s)[Len(q) + 1] = s
OBVIOUS

-----------------------------------------------------------------------------
(* Sorted, Acked and Rest.                                                 *)

(* How many segments at the head of q start before s.                      *)
LEMMA SortedFacts ==
  ASSUME NEW q \in Seq(Segment), NEW s \in Segment
  PROVE  \E n \in 0 .. Len(q) :
           /\ Sorted(q, s) = SubSeq(q, 1, n) \o <<s>> \o SubSeq(q, n + 1, Len(q))
           /\ \A i \in 1 .. n : q[i].seqno < s.seqno
           /\ n < Len(q) => ~(q[n + 1].seqno < s.seqno)
<1> DEFINE S == {j \in 1 .. Len(q) : q[j].seqno < s.seqno}
           D == {i \in DOMAIN q : \A j \in 1 .. i : q[j].seqno < s.seqno}
<1>1. Len(q) \in Nat /\ DOMAIN q = 1 .. Len(q)
  BY QueueFacts
<1>2. D = HeadIn(Len(q), S)
  <2>1. \A i \in 1 .. Len(q) : \A j \in 1 .. i : j \in 1 .. Len(q)
    BY <1>1
  <2> QED
    BY <1>1, <2>1 DEF HeadIn
<1>3. PICK n \in 0 .. Len(q) : /\ Cardinality(HeadIn(Len(q), S)) = n
                               /\ \A i \in 1 .. n : i \in S
                               /\ n < Len(q) => n + 1 \notin S
  BY <1>1, HeadLength
<1>4. Sorted(q, s) = SubSeq(q, 1, n) \o <<s>> \o SubSeq(q, n + 1, Len(q))
  BY <1>2, <1>3 DEF Sorted
<1>5. n < Len(q) => ~(q[n + 1].seqno < s.seqno)
  BY <1>1, <1>3
<1> QED
  BY <1>3, <1>4, <1>5

(* A segment that starts behind all others goes to the tail.               *)
LEMMA SortedLast ==
  ASSUME NEW q \in Seq(Segment), NEW s \in Segment,
         \A i \in 1 .. Len(q) : q[i].seqno < s.seqno
  PROVE  Sorted(q, s) = Append(q, s)
<1>1. PICK n \in 0 .. Len(q) :
           /\ Sorted(q, s) = SubSeq(q, 1, n) \o <<s>> \o SubSeq(q, n + 1, Len(q))
           /\ n < Len(q) => ~(q[n + 1].seqno < s.seqno)
  BY SortedFacts
<1>2. Len(q) \in Nat
  BY QueueFacts
<1>3. n = Len(q)
  BY <1>1, <1>2
<1>4. SubSeq(q, 1, n) = q
  BY <1>3, SubSeqFull
<1>5. SubSeq(q, n + 1, Len(q)) = <<>>
  <2>1. n + 1 \in Int /\ Len(q) \in Int /\ Len(q) < n + 1
    BY <1>2, <1>3
  <2> QED
    BY <2>1, SubSeqEmpty
<1>6. q \o <<s>> = Append(q, s)
  BY AppendIsConcat
<1>7. Append(q, s) \o <<>> = Append(q, s)
  BY AppendFacts, ConcatEmptySeq
<1> QED
  BY <1>1, <1>4, <1>5, <1>6, <1>7

(* A segment that starts no later than any other goes to the head.         *)
LEMMA SortedFirst ==
  ASSUME NEW q \in Seq(Segment), NEW s \in Segment,
         \A i \in 1 .. Len(q) : ~(q[i].seqno < s.seqno)
  PROVE  Sorted(q, s) = <<s>> \o q
<1>1. PICK n \in 0 .. Len(q) :
           /\ Sorted(q, s) = SubSeq(q, 1, n) \o <<s>> \o SubSeq(q, n + 1, Len(q))
           /\ \A i \in 1 .. n : q[i].seqno < s.seqno
  BY SortedFacts
<1>2. Len(q) \in Nat
  BY QueueFacts
<1>3. n = 0
  <2>1. n > 0 => 1 \in 1 .. n /\ 1 \in 1 .. Len(q)
    BY <1>2
  <2> QED
    BY <1>1, <1>2, <2>1
<1>4. SubSeq(q, n + 1, Len(q)) = q
  BY <1>3, SubSeqFull
<1>5. SubSeq(q, 1, n) = <<>>
  BY <1>3, SubSeqEmpty
<1>6. <<>> \o <<s>> = <<s>>
  BY OneFacts, ConcatEmptySeq
<1> QED
  BY <1>1, <1>4, <1>5, <1>6

(* A queue is its first segment and what follows it.                       *)
LEMMA HeadThenTail ==
  ASSUME NEW q \in Seq(Segment), q # <<>>
  PROVE  q = <<q[1]>> \o Tail(q)
<1> DEFINE r == <<q[1]>> \o Tail(q)
<1>1. Len(q) \in Nat /\ Len(q) > 0 /\ q[1] \in Segment
  BY QueueFacts
<1>2. /\ Tail(q) \in Seq(Segment) /\ Len(Tail(q)) = Len(q) - 1
      /\ \A i \in 1 .. Len(q) - 1 : Tail(q)[i] = q[i + 1]
  BY TailFacts
<1>3. <<q[1]>> \in Seq(Segment) /\ Len(<<q[1]>>) = 1
  BY <1>1, OneFacts
<1>4. /\ r \in Seq(Segment) /\ Len(r) = 1 + (Len(q) - 1)
      /\ \A i \in 1 .. 1 : r[i] = <<q[1]>>[i]
      /\ \A i \in 1 .. Len(q) - 1 : r[1 + i] = q[i + 1]
  BY <1>2, <1>3, JoinFacts
<1>5. r[1] = q[1] /\ Len(r) = Len(q)
  BY <1>1, <1>4, OneFacts
<1> HIDE DEF r
<1>6. \A i \in 1 .. Len(q) : q[i] = r[i]
  <2> SUFFICES ASSUME NEW i \in 1 .. Len(q), i # 1
               PROVE  q[i] = r[i]
    BY <1>5
  <2>1. i - 1 \in 1 .. Len(q) - 1 /\ 1 + (i - 1) = i /\ (i - 1) + 1 = i
    BY <1>1
  <2> QED
    BY <1>4, <2>1
<1>7. q = r
  BY <1>4, <1>5, <1>6, SameQueue
<1> QED
  BY <1>7 DEF r

(* The first segment is put back where it was.                             *)
LEMMA SortedBack ==
  ASSUME NEW q \in Seq(Segment), Chain(q), q # <<>>
  PROVE  Sorted(Tail(q), q[1]) = q
<1>1. /\ Len(q) \in Nat /\ Len(q) > 0 /\ q[1] \in Segment
      /\ \A i \in 1 .. Len(q) : q[i].seqno \in Nat /\ End(q[i]) \in Nat
                                  /\ q[i].seqno < End(q[i])
  BY QueueFacts
<1>2. /\ Tail(q) \in Seq(Segment) /\ Len(Tail(q)) = Len(q) - 1
      /\ \A i \in 1 .. Len(q) - 1 : Tail(q)[i] = q[i + 1]
  BY TailFacts
<1>3. \A i \in 1 .. Len(Tail(q)) : ~(Tail(q)[i].seqno < q[1].seqno)
  <2> SUFFICES ASSUME NEW i \in 1 .. Len(Tail(q))
               PROVE  ~(Tail(q)[i].seqno < q[1].seqno)
    OBVIOUS
  <2>1. i + 1 \in 1 .. Len(q) /\ 1 \in 1 .. Len(q) /\ 1 < i + 1
    BY <1>1, <1>2
  <2>2. End(q[1]) <= q[i + 1].seqno
    BY <2>1 DEF Chain
  <2>3. Tail(q)[i] = q[i + 1]
    BY <1>2
  <2> QED
    BY <1>1, <2>1, <2>2, <2>3
<1>4. Sorted(Tail(q), q[1]) = <<q[1]>> \o Tail(q)
  BY <1>1, <1>2, <1>3, SortedFirst
<1>5. q = <<q[1]>> \o Tail(q)
  BY HeadThenTail
<1> QED
  BY <1>4, <1>5

(* An ACK divides a queue into what ends at or before it and the rest.     *)
LEMMA RestFacts ==
  ASSUME NEW q \in Seq(Segment), NEW ackno
  PROVE  \E n \in 0 .. Len(q) :
           /\ Acked(q, ackno) = SubSeq(q, 1, n)
           /\ Rest(q, ackno) = SubSeq(q, n + 1, Len(q))
           /\ \A i \in 1 .. n : End(q[i]) <= ackno
           /\ n < Len(q) => ~(End(q[n + 1]) <= ackno)
<1> DEFINE S == {j \in 1 .. Len(q) : End(q[j]) <= ackno}
           D == {i \in DOMAIN q : \A j \in 1 .. i : End(q[j]) <= ackno}
<1>1. Len(q) \in Nat /\ DOMAIN q = 1 .. Len(q)
  BY QueueFacts
<1>2. D = HeadIn(Len(q), S)
  <2>1. \A i \in 1 .. Len(q) : \A j \in 1 .. i : j \in 1 .. Len(q)
    BY <1>1
  <2> QED
    BY <1>1, <2>1 DEF HeadIn
<1>3. PICK n \in 0 .. Len(q) : /\ Cardinality(HeadIn(Len(q), S)) = n
                               /\ \A i \in 1 .. n : i \in S
                               /\ n < Len(q) => n + 1 \notin S
  BY <1>1, HeadLength
<1>4. Acked(q, ackno) = SubSeq(q, 1, n)
  BY <1>2, <1>3 DEF Acked
<1>5. Len(SubSeq(q, 1, n)) = n
  <2>1. 0 \in Nat /\ n \in Nat /\ 0 <= n /\ n <= Len(q) /\ 0 + 1 = 1 /\ n - 0 = n
    BY <1>1
  <2> QED
    BY <2>1, PartFacts
<1>6. Rest(q, ackno) = SubSeq(q, n + 1, Len(q))
  BY <1>4, <1>5 DEF Rest
<1>7. n < Len(q) => ~(End(q[n + 1]) <= ackno)
  BY <1>1, <1>3
<1> QED
  BY <1>3, <1>4, <1>6, <1>7

(* An ACK that does not reach the end of the first segment takes nothing.  *)
LEMMA RestAll ==
  ASSUME NEW q \in Seq(Segment), NEW ackno, q # <<>> => ~(End(q[1]) <= ackno)
  PROVE  Rest(q, ackno) = q /\ Acked(q, ackno) = <<>>
<1>1. PICK n \in 0 .. Len(q) :
           /\ Acked(q, ackno) = SubSeq(q, 1, n)
           /\ Rest(q, ackno) = SubSeq(q, n + 1, Len(q))
           /\ \A i \in 1 .. n : End(q[i]) <= ackno
  BY RestFacts
<1>2. Len(q) \in Nat /\ (q # <<>> <=> Len(q) > 0)
  BY QueueFacts
<1>3. n = 0
  <2>1. n > 0 => 1 \in 1 .. n /\ q # <<>>
    BY <1>2
  <2> QED
    BY <1>1, <1>2, <2>1
<1>4. SubSeq(q, n + 1, Len(q)) = q
  BY <1>3, SubSeqFull
<1>5. SubSeq(q, 1, n) = <<>>
  BY <1>3, SubSeqEmpty
<1> QED
  BY <1>1, <1>4, <1>5

-----------------------------------------------------------------------------
(* The line of segments.                                                   *)

(* All of unacked is before unsent.                                        *)
LEMMA Before ==
  ASSUME NEW u \in Seq(Segment), NEW t \in Seq(Segment), Chain(u), Linked(u, t),
         t # <<>>
  PROVE  \A i \in 1 .. Len(u) : End(u[i]) <= t[1].seqno /\ u[i].seqno < t[1].seqno
<1> SUFFICES ASSUME NEW i \in 1 .. Len(u)
             PROVE  End(u[i]) <= t[1].seqno /\ u[i].seqno < t[1].seqno
  OBVIOUS
<1>1. /\ Len(u) \in Nat /\ u # <<>>
      /\ \A k \in 1 .. Len(u) : u[k].seqno \in Nat /\ End(u[k]) \in Nat
                                  /\ u[k].seqno < End(u[k])
  BY QueueFacts
<1>2. t[1].seqno = End(u[Len(u)])
  BY <1>1 DEF Linked
<1>3. Len(u) \in 1 .. Len(u)
  BY <1>1
<1>4. i < Len(u) => End(u[i]) <= u[Len(u)].seqno
  BY <1>3 DEF Chain
<1>5. i = Len(u) \/ i < Len(u)
  BY <1>1
<1> QED
  BY <1>1, <1>2, <1>3, <1>4, <1>5

(* No segment ends beyond the last one.                                    *)
LEMMA NoneBeyond ==
  ASSUME NEW q \in Seq(Segment), Chain(q), NEW i \in 1 .. Len(q)
  PROVE  End(q[i]) <= End(q[Len(q)])
<1>1. /\ Len(q) \in Nat
      /\ \A k \in 1 .. Len(q) : q[k].seqno \in Nat /\ End(q[k]) \in Nat
                                  /\ q[k].seqno < End(q[k])
  BY QueueFacts
<1>2. Len(q) \in 1 .. Len(q)
  BY <1>1
<1>3. i < Len(q) => End(q[i]) <= q[Len(q)].seqno
  BY <1>2 DEF Chain
<1> QED
  BY <1>1, <1>2, <1>3

(* The first unsent segment is sent.                                       *)
LEMMA SendFirst ==
  ASSUME NEW u \in Seq(Segment), NEW t \in Seq(Segment), NEW last \in Nat,
         NEW nxt \in Nat, NEW edge \in Nat, NEW right \in Nat,
         Line(u, t, last, nxt, edge, right),
         t # <<>>, t[1].seqno + Len(t[1].p) <= right
  PROVE  /\ Sorted(u, t[1]) = Append(u, t[1])
         /\ Line(Append(u, t[1]), Tail(t), last, Greater(nxt, End(t[1])), edge, right)
<1> DEFINE v == Append(u, t[1])
           r == Tail(t)
           n == Greater(nxt, End(t[1]))
<1>1. /\ Len(u) \in Nat /\ Len(t) \in Nat /\ Len(t) > 0 /\ t[1] \in Segment
      /\ \A k \in 1 .. Len(u) : u[k].seqno \in Nat /\ End(u[k]) \in Nat
                                  /\ u[k].seqno < End(u[k])
      /\ \A k \in 1 .. Len(t) : t[k].seqno \in Nat /\ End(t[k]) \in Nat
                                  /\ t[k].seqno < End(t[k])
      /\ (u # <<>> <=> Len(u) > 0)
  BY QueueFacts
<1>2. /\ Chain(u) /\ Chain(t) /\ Linked(u, t) /\ Starts(u, t, last, edge)
      /\ Ends(u, t, nxt, edge) /\ Sent(u, nxt, right) /\ last <= nxt /\ nxt <= edge
  BY DEF Line
<1>3. \A i \in 1 .. Len(u) : End(u[i]) <= t[1].seqno /\ u[i].seqno < t[1].seqno
  BY <1>2, Before
<1>4. Sorted(u, t[1]) = v
  BY <1>1, <1>3, SortedLast
<1>5. /\ v \in Seq(Segment) /\ Len(v) = Len(u) + 1 /\ v # <<>>
      /\ \A i \in 1 .. Len(u) : v[i] = u[i]
      /\ v[Len(u) + 1] = t[1]
  BY <1>1, AppendFacts
<1>6. /\ r \in Seq(Segment) /\ Len(r) = Len(t) - 1
      /\ \A i \in 1 .. Len(t) - 1 : r[i] = t[i + 1]
      /\ (r # <<>> <=> Len(r) > 0)
  BY TailFacts, QueueFacts
<1>7. /\ n \in Nat /\ nxt <= n /\ End(t[1]) <= n
      /\ n = nxt \/ n = End(t[1])
  BY <1>1 DEF Greater
<1> HIDE DEF v, r, n
<1>8. NoFin(u) /\ End(t[Len(t)]) = edge
  BY <1>2 DEF Ends
<1>9. Chain(v)
  <2>1. \A i \in 1 .. Len(v) - 1 : v[i + 1].seqno = End(v[i])
    <3> SUFFICES ASSUME NEW i \in 1 .. Len(v) - 1
                 PROVE  v[i + 1].seqno = End(v[i])
      OBVIOUS
    <3>1. CASE i < Len(u)
      <4>1. i \in 1 .. Len(u) - 1 /\ i \in 1 .. Len(u) /\ i + 1 \in 1 .. Len(u)
        BY <1>1, <3>1
      <4> QED
        BY <1>2, <1>5, <4>1 DEF Chain
    <3>2. CASE i = Len(u)
      <4>1. u # <<>> /\ i \in 1 .. Len(u)
        BY <1>1, <3>2
      <4> QED
        BY <1>2, <1>5, <3>2, <4>1 DEF Linked
    <3> QED
      BY <1>1, <1>5, <3>1, <3>2
  <2>2. \A i, j \in 1 .. Len(v) : i < j => End(v[i]) <= v[j].seqno
    <3> SUFFICES ASSUME NEW i \in 1 .. Len(v), NEW j \in 1 .. Len(v), i < j
                 PROVE  End(v[i]) <= v[j].seqno
      OBVIOUS
    <3>1. i \in 1 .. Len(u) /\ v[i] = u[i]
      BY <1>1, <1>5
    <3>2. CASE j \in 1 .. Len(u)
      BY <1>2, <1>5, <3>1, <3>2 DEF Chain
    <3>3. CASE j = Len(u) + 1
      BY <1>3, <1>5, <3>1, <3>3
    <3> QED
      BY <1>1, <1>5, <3>2, <3>3
  <2>3. \A i \in 1 .. Len(v) : v[i].fin = TRUE => i = Len(v)
    <3> SUFFICES ASSUME NEW i \in 1 .. Len(v), i # Len(v)
                 PROVE  v[i].fin # TRUE
      OBVIOUS
    <3>1. i \in 1 .. Len(u)
      BY <1>1, <1>5
    <3>2. v[i] = u[i] /\ u[i].fin = FALSE
      BY <1>5, <1>8, <3>1 DEF NoFin
    <3> QED
      BY <3>2
  <2> QED
    BY <2>1, <2>2, <2>3 DEF Chain
<1>10. Chain(r)
  <2>1. \A i \in 1 .. Len(r) : i + 1 \in 1 .. Len(t) /\ r[i] = t[i + 1]
    BY <1>1, <1>6
  <2>2. \A i \in 1 .. Len(r) - 1 : /\ i \in 1 .. Len(r) /\ i + 1 \in 1 .. Len(r)
                                   /\ i + 1 \in 1 .. Len(t) - 1
    BY <1>1, <1>6
  <2>3. \A i \in 1 .. Len(r) - 1 : r[i + 1].seqno = End(r[i])
    BY <1>2, <2>1, <2>2 DEF Chain
  <2>4. \A i, j \in 1 .. Len(r) : i < j => End(r[i]) <= r[j].seqno
    <3> SUFFICES ASSUME NEW i \in 1 .. Len(r), NEW j \in 1 .. Len(r), i < j
                 PROVE  End(r[i]) <= r[j].seqno
      OBVIOUS
    <3>1. i + 1 < j + 1
      BY <1>1, <1>6
    <3> QED
      BY <1>2, <2>1, <3>1 DEF Chain
  <2>5. \A i \in 1 .. Len(r) : r[i].fin = TRUE => i = Len(r)
    <3> SUFFICES ASSUME NEW i \in 1 .. Len(r), r[i].fin = TRUE
                 PROVE  i = Len(r)
      OBVIOUS
    <3>1. i + 1 = Len(t)
      BY <1>2, <2>1 DEF Chain
    <3> QED
      BY <1>1, <1>6, <3>1
  <2> QED
    BY <2>3, <2>4, <2>5 DEF Chain
<1>11. Linked(v, r)
  <2>1. SUFFICES ASSUME r # <<>>
                 PROVE  r[1].seqno = End(v[Len(v)])
    BY DEF Linked
  <2>2. 1 \in 1 .. Len(t) - 1 /\ r[1] = t[2] /\ 1 + 1 = 2
    BY <1>1, <1>6, <2>1
  <2>3. t[1 + 1].seqno = End(t[1])
    BY <1>2, <2>2 DEF Chain
  <2> QED
    BY <1>5, <2>2, <2>3
<1>12. Starts(v, r, last, edge)
  <2>1. Holds(v, last)
    <3>1. CASE u # <<>>
      <4>1. 1 \in 1 .. Len(u)
        BY <1>1, <3>1
      <4>2. v[1] = u[1]
        BY <1>5, <4>1
      <4> QED
        BY <1>2, <3>1, <4>2 DEF Starts, Holds
    <3>2. CASE u = <<>>
      <4>1. v[1] = t[1]
        BY <1>1, <1>5, <3>2
      <4> QED
        BY <1>2, <3>2, <4>1 DEF Starts, Holds
    <3> QED
      BY <3>1, <3>2
  <2> QED
    BY <1>5, <2>1 DEF Starts
<1>13. End(t[1]) <= edge
  <2>1. 1 \in 1 .. Len(t)
    BY <1>1
  <2> QED
    BY <1>2, <1>8, <2>1, NoneBeyond
<1>14. Ends(v, r, n, edge)
  <2>1. ASSUME r # <<>>
        PROVE  End(r[Len(r)]) = edge /\ r[1].seqno <= n /\ NoFin(v)
    <3>1. /\ Len(t) > 1 /\ Len(r) \in 1 .. Len(t) - 1 /\ Len(r) + 1 = Len(t)
          /\ 1 \in 1 .. Len(t) - 1 /\ 1 \in 1 .. Len(t)
      BY <1>1, <1>6, <2>1
    <3>2. r[Len(r)] = t[Len(t)] /\ r[1] = t[1 + 1]
      BY <1>6, <3>1
    <3>3. t[1 + 1].seqno = End(t[1])
      BY <1>2, <3>1 DEF Chain
    <3>4. t[1].fin = FALSE
      <4>1. t[1].fin \in BOOLEAN
        BY <1>1, SegmentFacts
      <4>2. ~(t[1].fin = TRUE)
        BY <1>2, <3>1 DEF Chain
      <4> QED
        BY <4>1, <4>2
    <3>5. NoFin(v)
      BY <1>1, <1>5, <1>8, <3>4 DEF NoFin
    <3> QED
      BY <1>7, <1>8, <3>2, <3>3, <3>5
  <2>2. ASSUME r = <<>>
        PROVE  n = edge /\ End(v[Len(v)]) = edge
    <3>1. Len(t) = 1
      BY <1>1, <1>6, <2>2
    <3>2. End(t[1]) = edge
      BY <1>8, <3>1
    <3> QED
      BY <1>1, <1>2, <1>5, <1>7, <3>2
  <2> QED
    BY <2>1, <2>2 DEF Ends
<1>15. Sent(v, n, right)
  <2> SUFFICES ASSUME NEW i \in 1 .. Len(v)
               PROVE  End(v[i]) <= n /\ v[i].seqno + Len(v[i].p) <= right
    BY DEF Sent
  <2>1. CASE i \in 1 .. Len(u)
    <3>1. v[i] = u[i] /\ End(u[i]) \in Nat
      BY <1>1, <1>5, <2>1
    <3>2. End(u[i]) <= nxt /\ u[i].seqno + Len(u[i].p) <= right
      BY <1>2, <2>1 DEF Sent
    <3> QED
      BY <1>7, <3>1, <3>2
  <2>2. CASE i = Len(u) + 1
    BY <1>5, <1>7, <2>2
  <2> QED
    BY <1>1, <1>5, <2>1, <2>2
<1>16. last <= n /\ n <= edge
  BY <1>1, <1>2, <1>7, <1>13
<1> QED
  BY <1>4, <1>9, <1>10, <1>11, <1>12, <1>14, <1>15, <1>16 DEF Line, v, r, n

(* The rest of a queue is a queue.                                         *)
LEMMA RestChain ==
  ASSUME NEW q \in Seq(Segment), Chain(q), NEW n \in 0 .. Len(q)
  PROVE  Chain(SubSeq(q, n + 1, Len(q)))
<1> DEFINE r == SubSeq(q, n + 1, Len(q))
<1>1. Len(q) \in Nat
  BY QueueFacts
<1>2. /\ Len(r) = Len(q) - n
      /\ \A i \in 1 .. Len(q) - n : r[i] = q[n + i]
  BY <1>1, PartFacts
<1> HIDE DEF r
<1>3. \A i \in 1 .. Len(r) : n + i \in 1 .. Len(q) /\ r[i] = q[n + i]
  BY <1>1, <1>2
<1>4. \A i \in 1 .. Len(r) - 1 : r[i + 1].seqno = End(r[i])
  <2> SUFFICES ASSUME NEW i \in 1 .. Len(r) - 1
               PROVE  r[i + 1].seqno = End(r[i])
    OBVIOUS
  <2>1. /\ i \in 1 .. Len(r) /\ i + 1 \in 1 .. Len(r)
        /\ n + i \in 1 .. Len(q) - 1 /\ n + (i + 1) = (n + i) + 1
    BY <1>1, <1>2
  <2>2. q[(n + i) + 1].seqno = End(q[n + i])
    BY <2>1 DEF Chain
  <2> QED
    BY <1>3, <2>1, <2>2
<1>5. \A i, j \in 1 .. Len(r) : i < j => End(r[i]) <= r[j].seqno
  <2> SUFFICES ASSUME NEW i \in 1 .. Len(r), NEW j \in 1 .. Len(r), i < j
               PROVE  End(r[i]) <= r[j].seqno
    OBVIOUS
  <2>1. n + i < n + j
    BY <1>1, <1>2
  <2> QED
    BY <1>3, <2>1 DEF Chain
<1>6. \A i \in 1 .. Len(r) : r[i].fin = TRUE => i = Len(r)
  <2> SUFFICES ASSUME NEW i \in 1 .. Len(r), r[i].fin = TRUE
               PROVE  i = Len(r)
    OBVIOUS
  <2>1. n + i = Len(q)
    BY <1>3 DEF Chain
  <2>2. n \in Int /\ i \in Int /\ Len(q) \in Int
    BY <1>1
  <2>3. i = Len(q) - n
    BY <2>1, <2>2
  <2> QED
    BY <1>2, <2>3
<1> QED
  BY <1>4, <1>5, <1>6 DEF Chain, r

(* What is left of a queue after an ACK for ackno.                         *)
Left(q, r, ackno) ==
  /\ r \in Seq(Segment) /\ Chain(r) /\ Len(r) <= Len(q)
  /\ r # <<>> => /\ q # <<>>
                 /\ r[Len(r)] = q[Len(q)]
                 /\ ~(End(r[1]) <= ackno)
                 /\ r[1] = q[1] \/ r[1].seqno <= ackno
                 /\ r[1].seqno >= q[1].seqno
  /\ r = <<>> /\ q # <<>> => End(q[Len(q)]) <= ackno
  /\ \A i \in 1 .. Len(r) : \E j \in 1 .. Len(q) : r[i] = q[j]

LEMMA RestLeft ==
  ASSUME NEW q \in Seq(Segment), Chain(q), NEW ackno \in Nat
  PROVE  Left(q, Rest(q, ackno), ackno)
<1>1. PICK n \in 0 .. Len(q) :
           /\ Rest(q, ackno) = SubSeq(q, n + 1, Len(q))
           /\ \A i \in 1 .. n : End(q[i]) <= ackno
           /\ n < Len(q) => ~(End(q[n + 1]) <= ackno)
  BY RestFacts
<1> DEFINE r == SubSeq(q, n + 1, Len(q))
<1>2. /\ Len(q) \in Nat /\ (q # <<>> <=> Len(q) > 0)
      /\ \A k \in 1 .. Len(q) : q[k].seqno \in Nat /\ End(q[k]) \in Nat
                                  /\ q[k].seqno < End(q[k])
  BY QueueFacts
<1>3. /\ r \in Seq(Segment) /\ Len(r) = Len(q) - n
      /\ \A i \in 1 .. Len(q) - n : r[i] = q[n + i]
  BY <1>2, PartFacts
<1>4. Chain(r)
  BY RestChain
<1>5. r # <<>> <=> Len(r) > 0
  BY <1>3, QueueFacts
<1> HIDE DEF r
<1>6. ASSUME r # <<>>
      PROVE  /\ q # <<>>
             /\ r[Len(r)] = q[Len(q)]
             /\ ~(End(r[1]) <= ackno)
             /\ r[1] = q[1] \/ r[1].seqno <= ackno
             /\ r[1].seqno >= q[1].seqno
  <2>1. /\ n < Len(q) /\ 1 \in 1 .. Len(q) - n /\ Len(q) - n \in 1 .. Len(q) - n
        /\ n + (Len(q) - n) = Len(q) /\ Len(q) > 0 /\ 1 \in 1 .. Len(q)
        /\ n + 1 \in 1 .. Len(q)
    BY <1>2, <1>3, <1>5, <1>6
  <2>2. r[1] = q[n + 1] /\ r[Len(r)] = q[Len(q)]
    BY <1>3, <2>1
  <2>3. CASE n = 0
    BY <1>1, <1>2, <2>1, <2>2, <2>3
  <2>4. CASE n > 0
    <3>1. n \in 1 .. n /\ n \in 1 .. Len(q) - 1 /\ 1 < n + 1
      BY <2>1, <2>4
    <3>2. q[n + 1].seqno = End(q[n])
      BY <3>1 DEF Chain
    <3>3. End(q[1]) <= q[n + 1].seqno
      BY <2>1, <3>1 DEF Chain
    <3>4. End(q[n]) <= ackno
      BY <1>1, <3>1
    <3> QED
      BY <1>1, <1>2, <2>1, <2>2, <3>2, <3>3, <3>4
  <2> QED
    BY <1>2, <2>3, <2>4
<1>7. ASSUME r = <<>>, q # <<>>
      PROVE  End(q[Len(q)]) <= ackno
  <2>1. Len(q) = n /\ Len(q) \in 1 .. n
    BY <1>2, <1>3, <1>5, <1>7
  <2> QED
    BY <1>1, <2>1
<1>8. \A i \in 1 .. Len(r) : \E j \in 1 .. Len(q) : r[i] = q[j]
  <2> SUFFICES ASSUME NEW i \in 1 .. Len(r)
               PROVE  \E j \in 1 .. Len(q) : r[i] = q[j]
    OBVIOUS
  <2>1. n + i \in 1 .. Len(q) /\ i \in 1 .. Len(q) - n
    BY <1>2, <1>3
  <2> QED
    BY <1>3, <2>1
<1>9. Len(r) <= Len(q)
  BY <1>2, <1>3
<1> QED
  BY <1>1, <1>3, <1>4, <1>6, <1>7, <1>8, <1>9 DEF Left, r

(* An ACK of something that was sent moves the line's start.               *)
LEMMA AckLine ==
  ASSUME NEW u \in Seq(Segment), NEW t \in Seq(Segment), NEW last \in Nat,
         NEW nxt \in Nat, NEW edge \in Nat, NEW right \in Nat, NEW wider \in Nat,
         NEW ackno \in Nat, NEW v, NEW r,
         Line(u, t, last, nxt, edge, right),
         Left(u, v, ackno), Left(t, r, ackno),
         last <= ackno, ackno <= nxt, right <= wider
  PROVE  Line(v, r, ackno, nxt, edge, wider)
<1>1. /\ Len(u) \in Nat /\ Len(t) \in Nat
      /\ \A k \in 1 .. Len(u) : u[k].seqno \in Nat /\ End(u[k]) \in Nat
                                  /\ u[k].seqno < End(u[k]) /\ Len(u[k].p) \in Nat
      /\ \A k \in 1 .. Len(t) : t[k].seqno \in Nat /\ End(t[k]) \in Nat
                                  /\ t[k].seqno < End(t[k])
      /\ (u # <<>> <=> Len(u) > 0) /\ (t # <<>> <=> Len(t) > 0)
  BY QueueFacts
<1>2. /\ Chain(u) /\ Chain(t) /\ Linked(u, t) /\ Starts(u, t, last, edge)
      /\ Ends(u, t, nxt, edge) /\ Sent(u, nxt, right) /\ last <= nxt /\ nxt <= edge
  BY DEF Line
<1>3. /\ v \in Seq(Segment) /\ r \in Seq(Segment) /\ Chain(v) /\ Chain(r)
  BY DEF Left
<1>4. /\ Len(v) \in Nat /\ Len(r) \in Nat
      /\ \A k \in 1 .. Len(v) : v[k].seqno \in Nat /\ End(v[k]) \in Nat
                                  /\ v[k].seqno < End(v[k])
      /\ \A k \in 1 .. Len(r) : r[k].seqno \in Nat /\ End(r[k]) \in Nat
                                  /\ r[k].seqno < End(r[k])
      /\ (v # <<>> <=> Len(v) > 0) /\ (r # <<>> <=> Len(r) > 0)
  BY <1>3, QueueFacts
<1>5. ASSUME v # <<>>
      PROVE  /\ u # <<>> /\ v[Len(v)] = u[Len(u)] /\ ~(End(v[1]) <= ackno)
             /\ v[1] = u[1] \/ v[1].seqno <= ackno
  BY <1>5 DEF Left
<1>6. ASSUME r # <<>>
      PROVE  /\ t # <<>> /\ r[Len(r)] = t[Len(t)] /\ ~(End(r[1]) <= ackno)
             /\ r[1] = t[1] \/ r[1].seqno <= ackno
  BY <1>6 DEF Left
<1>7. ASSUME u # <<>>, v = <<>>
      PROVE  End(u[Len(u)]) <= ackno
  BY <1>7 DEF Left
<1>8. ASSUME t # <<>>, r = <<>>
      PROVE  End(t[Len(t)]) <= ackno
  BY <1>8 DEF Left
<1>9. ASSUME v # <<>>, t # <<>>
      PROVE  r # <<>> /\ r[1] = t[1]
  <2>1. 1 \in 1 .. Len(v) /\ Len(u) \in 1 .. Len(u) /\ 1 \in 1 .. Len(t)
        /\ Len(t) \in 1 .. Len(t)
    BY <1>1, <1>4, <1>5, <1>9
  <2>2. End(v[1]) <= End(v[Len(v)])
    BY <1>3, <2>1, NoneBeyond
  <2>3. t[1].seqno = End(u[Len(u)])
    BY <1>2, <1>5, <1>9 DEF Linked
  <2>4. ackno < t[1].seqno
    <3>1. End(v[1]) \in Nat /\ End(v[Len(v)]) \in Nat /\ Len(v) \in 1 .. Len(v)
      BY <1>4, <2>1
    <3>2. ~(End(v[1]) <= ackno) /\ End(v[Len(v)]) = t[1].seqno
      BY <1>5, <1>9, <2>3
    <3> QED
      BY <2>2, <3>1, <3>2
  <2>5. End(t[1]) <= End(t[Len(t)])
    BY <1>2, <2>1, NoneBeyond
  <2>6. ~(End(t[Len(t)]) <= ackno)
    <3>1. /\ t[1].seqno \in Nat /\ End(t[1]) \in Nat /\ t[1].seqno < End(t[1])
          /\ End(t[Len(t)]) \in Nat
      BY <1>1, <2>1
    <3> QED
      BY <2>4, <2>5, <3>1
  <2>8. r # <<>>
    BY <1>8, <1>9, <2>6
  <2>7. ~(r[1].seqno <= ackno) \/ r[1] = t[1]
    <3>1. r[1].seqno >= t[1].seqno /\ 1 \in 1 .. Len(r)
      BY <1>4, <2>8 DEF Left
    <3>2. r[1].seqno \in Nat /\ t[1].seqno \in Nat
      BY <1>1, <1>4, <2>1, <3>1
    <3> QED
      BY <2>4, <3>1, <3>2
  <2> QED
    BY <1>6, <2>8, <2>7
<1>10. Linked(v, r)
  <2> SUFFICES ASSUME v # <<>>, r # <<>>
               PROVE  r[1].seqno = End(v[Len(v)])
    BY DEF Linked
  <2> QED
    BY <1>2, <1>5, <1>6, <1>9 DEF Linked
<1>11. Starts(v, r, ackno, edge)
  <2>1. ASSUME v # <<>>
        PROVE  Holds(v, ackno)
    <3>1. 1 \in 1 .. Len(v) /\ 1 \in 1 .. Len(u)
      BY <1>1, <1>4, <1>5, <2>1
    <3>2. u[1].seqno <= last
      BY <1>2, <1>5, <2>1 DEF Starts, Holds
    <3> QED
      BY <1>1, <1>4, <1>5, <2>1, <3>1, <3>2 DEF Holds
  <2>2. ASSUME v = <<>>, r # <<>>
        PROVE  Holds(r, ackno)
    <3>1. t # <<>> /\ 1 \in 1 .. Len(r) /\ 1 \in 1 .. Len(t)
      BY <1>1, <1>4, <1>6, <2>2
    <3>2. t[1].seqno <= ackno
      <4>1. CASE u = <<>>
        <5>1. t[1].seqno <= last
          BY <1>2, <3>1, <4>1 DEF Starts, Holds
        <5> QED
          BY <1>1, <3>1, <5>1
      <4>2. CASE u # <<>>
        BY <1>2, <1>7, <2>2, <3>1, <4>2 DEF Linked
      <4> QED
        BY <4>1, <4>2
    <3> QED
      BY <1>1, <1>4, <1>6, <2>2, <3>1, <3>2 DEF Holds
  <2>3. ASSUME v = <<>>, r = <<>>
        PROVE  ackno = edge
    <3>1. edge <= ackno
      <4>1. CASE t # <<>>
        BY <1>2, <1>8, <2>3, <4>1 DEF Ends
      <4>2. CASE t = <<>> /\ u # <<>>
        BY <1>2, <1>7, <2>3, <4>2 DEF Ends
      <4>3. CASE t = <<>> /\ u = <<>>
        BY <1>2, <4>3 DEF Starts
      <4> QED
        BY <4>1, <4>2, <4>3
    <3> QED
      BY <1>2, <3>1
  <2> QED
    BY <2>1, <2>2, <2>3 DEF Starts
<1>12. NoFin(u) => NoFin(v)
  BY DEF NoFin, Left
<1>13. Ends(v, r, nxt, edge)
  <2>1. ASSUME r # <<>>
        PROVE  End(r[Len(r)]) = edge /\ r[1].seqno <= nxt /\ NoFin(v)
    <3>1. t # <<>> /\ 1 \in 1 .. Len(r) /\ 1 \in 1 .. Len(t)
      BY <1>1, <1>4, <1>6, <2>1
    <3>2. End(t[Len(t)]) = edge /\ t[1].seqno <= nxt /\ NoFin(u)
      BY <1>2, <3>1 DEF Ends
    <3>3. r[1].seqno <= nxt
      <4>1. r[1].seqno \in Nat
        BY <1>4, <3>1
      <4>2. r[1] = t[1] \/ r[1].seqno <= ackno
        BY <1>6, <2>1
      <4> QED
        BY <3>2, <4>1, <4>2
    <3> QED
      BY <1>6, <1>12, <2>1, <3>2, <3>3
  <2>2. ASSUME r = <<>>
        PROVE  nxt = edge
    <3>1. CASE t = <<>>
      BY <1>2, <3>1 DEF Ends
    <3>2. CASE t # <<>>
      <4>1. edge <= ackno
        BY <1>2, <1>8, <2>2, <3>2 DEF Ends
      <4> QED
        BY <1>2, <4>1
    <3> QED
      BY <3>1, <3>2
  <2>3. ASSUME v # <<>>, r = <<>>
        PROVE  End(v[Len(v)]) = edge
    <3>1. t = <<>>
      BY <1>9, <2>3
    <3> QED
      BY <1>2, <1>5, <2>3, <3>1 DEF Ends
  <2> QED
    BY <2>1, <2>2, <2>3 DEF Ends
<1>14. Sent(v, nxt, wider)
  <2> SUFFICES ASSUME NEW i \in 1 .. Len(v)
               PROVE  End(v[i]) <= nxt /\ v[i].seqno + Len(v[i].p) <= wider
    BY DEF Sent
  <2>1. PICK j \in 1 .. Len(u) : v[i] = u[j]
    BY DEF Left
  <2>2. End(u[j]) <= nxt /\ u[j].seqno + Len(u[j].p) <= right
    BY <1>2 DEF Sent
  <2>3. u[j].seqno \in Nat /\ Len(u[j].p) \in Nat
    BY <1>1
  <2>4. u[j].seqno + Len(u[j].p) <= wider
    BY <2>2, <2>3
  <2> QED
    BY <2>1, <2>2, <2>4
<1> QED
  BY <1>2, <1>3, <1>10, <1>11, <1>13, <1>14 DEF Line

(* Two queues in line are one queue.                                       *)
LEMMA JoinChain ==
  ASSUME NEW u \in Seq(Segment), NEW t \in Seq(Segment), Chain(u), Chain(t),
         Linked(u, t), t # <<>> => NoFin(u)
  PROVE  Chain(u \o t)
<1> DEFINE w == u \o t
<1>1. /\ Len(u) \in Nat /\ Len(t) \in Nat
      /\ \A k \in 1 .. Len(u) : End(u[k]) \in Nat
      /\ \A k \in 1 .. Len(t) : t[k].seqno \in Nat /\ End(t[k]) \in Nat
                                  /\ t[k].seqno < End(t[k])
      /\ (u # <<>> <=> Len(u) > 0) /\ (t # <<>> <=> Len(t) > 0)
  BY QueueFacts
<1>2. /\ Len(w) = Len(u) + Len(t)
      /\ \A i \in 1 .. Len(u) : w[i] = u[i]
      /\ \A i \in 1 .. Len(t) : w[Len(u) + i] = t[i]
  BY JoinFacts
<1> HIDE DEF w
<1>3. \A i \in 1 .. Len(w) :
        \/ i \in 1 .. Len(u)
        \/ /\ t # <<>> /\ i > Len(u)
           /\ i - Len(u) \in 1 .. Len(t) /\ w[i] = t[i - Len(u)]
  <2> SUFFICES ASSUME NEW i \in 1 .. Len(w), i \notin 1 .. Len(u)
               PROVE  /\ t # <<>> /\ i > Len(u)
                      /\ i - Len(u) \in 1 .. Len(t) /\ w[i] = t[i - Len(u)]
    OBVIOUS
  <2>1. i - Len(u) \in 1 .. Len(t) /\ Len(u) + (i - Len(u)) = i /\ i > Len(u)
    BY <1>1, <1>2
  <2>2. w[Len(u) + (i - Len(u))] = t[i - Len(u)]
    BY <1>2, <2>1
  <2>3. Len(t) > 0
    BY <1>1, <2>1
  <2> QED
    BY <1>1, <2>1, <2>2, <2>3
<1>4. \A i \in 1 .. Len(w) - 1 : w[i + 1].seqno = End(w[i])
  <2> SUFFICES ASSUME NEW i \in 1 .. Len(w) - 1
               PROVE  w[i + 1].seqno = End(w[i])
    OBVIOUS
  <2>1. CASE i < Len(u)
    <3>1. i \in 1 .. Len(u) - 1 /\ i \in 1 .. Len(u) /\ i + 1 \in 1 .. Len(u)
      BY <1>1, <2>1
    <3> QED
      BY <1>2, <3>1 DEF Chain
  <2>2. CASE i = Len(u)
    <3>1. /\ i \in 1 .. Len(u) /\ 1 \in 1 .. Len(t) /\ u # <<>> /\ t # <<>>
          /\ i + 1 = Len(u) + 1
      BY <1>1, <1>2, <2>2
    <3>2. t[1].seqno = End(u[Len(u)])
      BY <3>1 DEF Linked
    <3> QED
      BY <1>2, <2>2, <3>1, <3>2
  <2>3. CASE i > Len(u)
    <3> DEFINE k == i - Len(u)
    <3>1. /\ k \in 1 .. Len(t) - 1 /\ k \in 1 .. Len(t) /\ k + 1 \in 1 .. Len(t)
          /\ Len(u) + k = i /\ Len(u) + (k + 1) = i + 1
      BY <1>1, <1>2, <2>3
    <3> HIDE DEF k
    <3>2. t[k + 1].seqno = End(t[k])
      BY <3>1 DEF Chain
    <3>3. w[Len(u) + k] = t[k] /\ w[Len(u) + (k + 1)] = t[k + 1]
      BY <1>2, <3>1
    <3> QED
      BY <3>1, <3>2, <3>3
  <2> QED
    BY <1>1, <1>2, <2>1, <2>2, <2>3
<1>5. \A i, j \in 1 .. Len(w) : i < j => End(w[i]) <= w[j].seqno
  <2> SUFFICES ASSUME NEW i \in 1 .. Len(w), NEW j \in 1 .. Len(w), i < j
               PROVE  End(w[i]) <= w[j].seqno
    OBVIOUS
  <2>1. CASE i \in 1 .. Len(u) /\ j \in 1 .. Len(u)
    BY <1>2, <2>1 DEF Chain
  <2>2. CASE i \in 1 .. Len(u) /\ j \notin 1 .. Len(u)
    <3>1. t # <<>> /\ j - Len(u) \in 1 .. Len(t) /\ w[j] = t[j - Len(u)]
      BY <1>3, <2>2
    <3>2. End(u[i]) <= t[1].seqno
      BY <2>2, <3>1, Before
    <3> DEFINE k == j - Len(u)
    <3> HIDE DEF k
    <3>3. k \in 1 .. Len(t) /\ 1 \in 1 .. Len(t) /\ w[j] = t[k]
      BY <1>1, <3>1 DEF k
    <3>4. k = 1 \/ End(t[1]) <= t[k].seqno
      BY <1>1, <3>3 DEF Chain
    <3>5. End(u[i]) <= t[k].seqno
      <4>1. /\ End(u[i]) \in Nat /\ t[1].seqno \in Nat /\ End(t[1]) \in Nat
            /\ t[k].seqno \in Nat /\ t[1].seqno < End(t[1])
        BY <1>1, <2>2, <3>3
      <4> QED
        BY <3>2, <3>4, <4>1
    <3> QED
      BY <1>2, <2>2, <3>3, <3>5
  <2>3. CASE i \notin 1 .. Len(u)
    <3>1. i > Len(u) /\ i - Len(u) \in 1 .. Len(t) /\ w[i] = t[i - Len(u)]
      BY <1>3, <2>3
    <3>2. j \notin 1 .. Len(u)
      BY <1>1, <3>1
    <3>3. j - Len(u) \in 1 .. Len(t) /\ w[j] = t[j - Len(u)]
      BY <1>3, <3>2
    <3>4. i - Len(u) < j - Len(u)
      BY <1>1
    <3> QED
      BY <3>1, <3>3, <3>4 DEF Chain
  <2> QED
    BY <2>1, <2>2, <2>3
<1>6. \A i \in 1 .. Len(w) : w[i].fin = TRUE => i = Len(w)
  <2> SUFFICES ASSUME NEW i \in 1 .. Len(w), w[i].fin = TRUE
               PROVE  i = Len(w)
    OBVIOUS
  <2>1. CASE i \in 1 .. Len(u)
    <3>1. u[i].fin = TRUE
      BY <1>2, <2>1
    <3>2. i = Len(u)
      BY <2>1, <3>1 DEF Chain
    <3>3. t = <<>>
      BY <2>1, <3>1 DEF NoFin
    <3>4. Len(t) = 0
      BY <1>1, <3>3
    <3> QED
      BY <1>1, <1>2, <3>2, <3>4
  <2>2. CASE i \notin 1 .. Len(u)
    <3>1. i - Len(u) \in 1 .. Len(t) /\ w[i] = t[i - Len(u)]
      BY <1>3, <2>2
    <3>2. i - Len(u) = Len(t)
      BY <3>1 DEF Chain
    <3>3. i \in Int
      OBVIOUS
    <3> QED
      BY <1>1, <1>2, <3>2, <3>3
  <2> QED
    BY <2>1, <2>2
<1> QED
  BY <1>4, <1>5, <1>6 DEF Chain, w

(* All that was sent is to be sent again.                                  *)
LEMMA RtoLine ==
  ASSUME NEW u \in Seq(Segment), NEW t \in Seq(Segment), NEW last \in Nat,
         NEW nxt \in Nat, NEW edge \in Nat, NEW right \in Nat,
         Line(u, t, last, nxt, edge, right), u # <<>>
  PROVE  /\ u \o t \in Seq(Segment)
         /\ Line(<<>>, u \o t, last, nxt, edge, right)
<1> DEFINE w == u \o t
<1>1. /\ Len(u) \in Nat /\ Len(t) \in Nat /\ 1 \in 1 .. Len(u) /\ Len(u) \in 1 .. Len(u)
      /\ (t # <<>> <=> Len(t) > 0)
      /\ \A k \in 1 .. Len(u) : u[k].seqno \in Nat
  BY QueueFacts
<1>2. /\ Chain(u) /\ Chain(t) /\ Linked(u, t) /\ Starts(u, t, last, edge)
      /\ Ends(u, t, nxt, edge) /\ last <= nxt /\ nxt <= edge
  BY DEF Line
<1>3. /\ w \in Seq(Segment) /\ Len(w) = Len(u) + Len(t)
      /\ \A i \in 1 .. Len(u) : w[i] = u[i]
      /\ \A i \in 1 .. Len(t) : w[Len(u) + i] = t[i]
  BY JoinFacts
<1>4. Chain(w)
  BY <1>2, JoinChain DEF Ends
<1> HIDE DEF w
<1>5. w # <<>> /\ w[1] = u[1]
  <2>1. w # <<>> <=> Len(w) > 0
    BY <1>3, QueueFacts
  <2> QED
    BY <1>1, <1>3, <2>1
<1>6. End(w[Len(w)]) = edge
  <2>1. CASE t = <<>>
    <3>1. Len(w) = Len(u) /\ w[Len(u)] = u[Len(u)]
      BY <1>1, <1>3, <2>1
    <3> QED
      BY <1>2, <2>1, <3>1 DEF Ends
  <2>2. CASE t # <<>>
    <3>1. Len(t) \in 1 .. Len(t)
      BY <1>1, <2>2
    <3>2. w[Len(w)] = t[Len(t)]
      BY <1>3, <3>1
    <3> QED
      BY <1>2, <2>2, <3>2 DEF Ends
  <2> QED
    BY <2>1, <2>2
<1>7. Holds(w, last)
  BY <1>2, <1>5 DEF Starts, Holds
<1>8. Starts(<<>>, w, last, edge)
  BY <1>5, <1>7 DEF Starts
<1>9. w[1].seqno <= nxt
  BY <1>1, <1>2, <1>5, <1>7 DEF Holds
<1>10. Len(<<>>) = 0 /\ \A i \in 1 .. Len(<<>>) : FALSE
  OBVIOUS
<1>11. Ends(<<>>, w, nxt, edge)
  BY <1>5, <1>6, <1>9, <1>10 DEF Ends, NoFin
<1>12. Chain(<<>>) /\ Linked(<<>>, w) /\ Sent(<<>>, nxt, right)
  BY <1>10 DEF Chain, Linked, Sent
<1> QED
  BY <1>2, <1>3, <1>4, <1>8, <1>11, <1>12 DEF Line, w

(* More is written: the unsent queue t becomes r, the edge moves on.       *)
Grown(t, r, edge, further) ==
  /\ r \in Seq(Segment) /\ Chain(r) /\ r # <<>>
  /\ End(r[Len(r)]) = further /\ edge <= further
  /\ t # <<>> => r[1].seqno = t[1].seqno /\ End(t[1]) <= End(r[1])
  /\ t = <<>> => r[1].seqno = edge

LEMMA GrownLine ==
  ASSUME NEW u \in Seq(Segment), NEW t \in Seq(Segment), NEW last \in Nat,
         NEW nxt \in Nat, NEW edge \in Nat, NEW right \in Nat,
         NEW further \in Nat, NEW r,
         Line(u, t, last, nxt, edge, right), NoFin(u), Grown(t, r, edge, further)
  PROVE  /\ Line(u, r, last, nxt, further, right)
         /\ Reach(u, t, nxt) <= Reach(u, r, nxt)
<1>1. /\ Chain(u) /\ Chain(t) /\ Linked(u, t) /\ Starts(u, t, last, edge)
      /\ Ends(u, t, nxt, edge) /\ Sent(u, nxt, right) /\ last <= nxt /\ nxt <= edge
  BY DEF Line
<1>2. /\ r \in Seq(Segment) /\ Chain(r) /\ r # <<>>
      /\ End(r[Len(r)]) = further /\ edge <= further
      /\ t # <<>> => r[1].seqno = t[1].seqno /\ End(t[1]) <= End(r[1])
      /\ t = <<>> => r[1].seqno = edge
  BY DEF Grown
<1>3. r[1].seqno \in Nat /\ End(r[1]) \in Nat /\ r[1].seqno < End(r[1])
  BY <1>2, QueueFacts
<1>4. Linked(u, r)
  <2> SUFFICES ASSUME u # <<>>
               PROVE  r[1].seqno = End(u[Len(u)])
    BY DEF Linked
  <2>1. CASE t # <<>>
    BY <1>1, <1>2, <2>1 DEF Linked
  <2>2. CASE t = <<>>
    BY <1>1, <1>2, <2>2 DEF Ends
  <2> QED
    BY <2>1, <2>2
<1>5. Starts(u, r, last, further)
  <2>1. ASSUME u = <<>>
        PROVE  Holds(r, last)
    <3>1. CASE t # <<>>
      <4>1. t[1].seqno <= last /\ last < End(t[1]) /\ End(t[1]) \in Nat
        BY <1>1, <2>1, <3>1, QueueFacts DEF Starts, Holds
      <4> QED
        BY <1>2, <1>3, <3>1, <4>1 DEF Holds
    <3>2. CASE t = <<>>
      <4>1. last = edge
        BY <1>1, <2>1, <3>2 DEF Starts
      <4> QED
        BY <1>2, <1>3, <3>2, <4>1 DEF Holds
    <3> QED
      BY <3>1, <3>2
  <2> QED
    BY <1>1, <1>2, <2>1 DEF Starts
<1>6. r[1].seqno <= nxt
  <2>1. CASE t # <<>>
    BY <1>1, <1>2, <2>1 DEF Ends
  <2>2. CASE t = <<>>
    <3>1. nxt = edge
      BY <1>1, <2>2 DEF Ends
    <3> QED
      BY <1>2, <2>2, <3>1
  <2> QED
    BY <2>1, <2>2
<1>7. Ends(u, r, nxt, further)
  BY <1>2, <1>6 DEF Ends
<1>8. nxt <= further
  BY <1>1, <1>2
<1>9. Reach(u, t, nxt) <= Reach(u, r, nxt)
  <2>1. CASE u = <<>> /\ t # <<>> /\ t[1].seqno = nxt
    BY <1>2, <2>1 DEF Reach
  <2>2. CASE ~(u = <<>> /\ t # <<>> /\ t[1].seqno = nxt)
    BY <2>2 DEF Reach
  <2> QED
    BY <2>1, <2>2
<1> QED
  BY <1>1, <1>2, <1>4, <1>5, <1>7, <1>8, <1>9 DEF Line

(* What is sent, and an ACK, do not make the reach smaller.                *)
LEMMA ReachFacts ==
  ASSUME NEW u, NEW t, NEW nxt \in Nat
  PROVE  /\ Reach(u, t, nxt) \in Nat
         /\ nxt <= Reach(u, t, nxt) /\ Reach(u, t, nxt) <= nxt + 1
         /\ u # <<>> => Reach(u, t, nxt) = nxt
BY DEF Reach

LEMMA SendReach ==
  ASSUME NEW u \in Seq(Segment), NEW t \in Seq(Segment), NEW nxt \in Nat, t # <<>>
  PROVE  /\ Greater(nxt, End(t[1])) \in Nat
         /\ Reach(u, t, nxt)
              <= Reach(Append(u, t[1]), Tail(t), Greater(nxt, End(t[1])))
         /\ End(t[1]) <= Reach(Append(u, t[1]), Tail(t), Greater(nxt, End(t[1])))
<1>1. t[1] \in Segment /\ t[1].seqno \in Nat /\ End(t[1]) \in Nat /\ t[1].seqno < End(t[1])
  BY QueueFacts
<1>2. Append(u, t[1]) # <<>>
  BY <1>1, AppendFacts
<1> DEFINE n == Greater(nxt, End(t[1]))
<1>3. n \in Nat /\ nxt <= n /\ End(t[1]) <= n
  BY <1>1 DEF Greater
<1> HIDE DEF n
<1>4. Reach(Append(u, t[1]), Tail(t), n) = n
  BY <1>2, <1>3, ReachFacts
<1>5. Reach(u, t, nxt) <= n
  <2>1. CASE u = <<>> /\ t # <<>> /\ t[1].seqno = nxt
    BY <1>1, <1>3, <2>1 DEF Reach
  <2>2. CASE ~(u = <<>> /\ t # <<>> /\ t[1].seqno = nxt)
    BY <1>3, <2>2 DEF Reach
  <2> QED
    BY <2>1, <2>2
<1> QED
  BY <1>3, <1>4, <1>5 DEF n

(* An ACK that is beyond snd_nxt, or that was sent when the window was     *)
(* probed, finds nothing unacknowledged.                                   *)
LEMMA AckReach ==
  ASSUME NEW u \in Seq(Segment), NEW t \in Seq(Segment), NEW last \in Nat,
         NEW nxt \in Nat, NEW edge \in Nat, NEW right \in Nat,
         NEW ackno \in Nat, NEW v, NEW r,
         Line(u, t, last, nxt, edge, right),
         Left(u, v, ackno), Left(t, r, ackno), last < ackno, ackno <= nxt
  PROVE  Reach(u, t, nxt) <= Reach(v, r, nxt)
<1>1. ~(u = <<>> /\ t # <<>> /\ t[1].seqno = nxt)
  <2> SUFFICES ASSUME u = <<>>, t # <<>>, t[1].seqno = nxt
               PROVE  FALSE
    OBVIOUS
  <2>1. t[1].seqno <= last
    BY DEF Line, Starts, Holds
  <2> QED
    BY <2>1
<1>2. Reach(u, t, nxt) = nxt
  BY <1>1 DEF Reach
<1> QED
  BY <1>2, ReachFacts

-----------------------------------------------------------------------------
(* Counting pbufs.                                                         *)

LEMMA PbufOf ==
  ASSUME NEW q \in Seq(Segment), NEW x
  PROVE  x \in PbufsOf(q) <=> \E i \in 1 .. Len(q) : \E k \in 1 .. q[i].clen : x = <<i, k>>
<1>1. DOMAIN q = 1 .. Len(q)
  BY QueueFacts
<1>2. x \in PbufsOf(q) <=> \E i \in 1 .. Len(q) : x \in {i} \X (1 .. q[i].clen)
  BY <1>1 DEF PbufsOf
<1> QED
  BY <1>2

(* A queue has finitely many pbufs.                                        *)
LEMMA PbufsType ==
  ASSUME NEW q \in Seq(Segment)
  PROVE  IsFiniteSet(PbufsOf(q)) /\ Pbufs(q) \in Nat
<1> DEFINE f == [i \in 1 .. Len(q) |-> {i} \X (1 .. q[i].clen)]
           S == {{i} \X (1 .. q[i].clen) : i \in 1 .. Len(q)}
<1>1. /\ Len(q) \in Nat /\ DOMAIN q = 1 .. Len(q)
      /\ \A i \in 1 .. Len(q) : q[i] \in Segment
  BY QueueFacts
<1>2. IsFiniteSet(1 .. Len(q))
  BY <1>1, FS_Interval
<1>3. f \in Surjection(1 .. Len(q), S)
  BY DEF Surjection
<1>4. IsFiniteSet(S)
  BY <1>2, <1>3, FS_Surjection
<1>5. \A T \in S : IsFiniteSet(T)
  <2> SUFFICES ASSUME NEW i \in 1 .. Len(q)
               PROVE  IsFiniteSet({i} \X (1 .. q[i].clen))
    OBVIOUS
  <2>1. q[i].clen \in Nat
    BY <1>1, SegmentFacts
  <2>2. ASSUME NEW n \in Nat
        PROVE  IsFiniteSet(1 .. n)
    BY FS_Interval
  <2>3. IsFiniteSet(1 .. q[i].clen)
    BY <2>1, <2>2
  <2> QED
    BY <2>3, FS_Singleton, FS_Product
<1>6. IsFiniteSet(UNION S)
  BY <1>4, <1>5, FS_UNION
<1>7. PbufsOf(q) = UNION S
  BY <1>1 DEF PbufsOf
<1> QED
  BY <1>6, <1>7, FS_CardinalityType DEF Pbufs

LEMMA PbufsEmpty == Pbufs(<<>>) = 0
<1>1. PbufsOf(<<>>) = {}
  BY DEF PbufsOf
<1> QED
  BY <1>1, FS_EmptySet DEF Pbufs

LEMMA PbufsOne ==
  ASSUME NEW s \in Segment
  PROVE  Pbufs(<<s>>) = s.clen
<1> DEFINE f == [k \in 1 .. s.clen |-> <<1, k>>]
<1>1. s.clen \in Nat
  BY SegmentFacts
<1>2. \A x : x \in PbufsOf(<<s>>) <=> \E k \in 1 .. s.clen : x = <<1, k>>
  <2> TAKE x
  <2>1. /\ <<s>> \in Seq(Segment) /\ Len(<<s>>) = 1 /\ <<s>>[1] = s
    BY OneFacts
  <2>2. x \in PbufsOf(<<s>>) <=> \E i \in 1 .. Len(<<s>>) : \E k \in 1 .. <<s>>[i].clen : x = <<i, k>>
    <3> DEFINE q == <<s>>
    <3>1. q \in Seq(Segment)
      BY <2>1
    <3> HIDE DEF q
    <3>2. x \in PbufsOf(q) <=> \E i \in 1 .. Len(q) : \E k \in 1 .. q[i].clen : x = <<i, k>>
      BY <3>1, PbufOf
    <3> QED
      BY <3>2 DEF q
  <2>3. 1 .. Len(<<s>>) = {1}
    BY <2>1
  <2> QED
    BY <2>1, <2>2, <2>3
<1>3. f \in Bijection(1 .. s.clen, PbufsOf(<<s>>))
  <2>1. f \in [1 .. s.clen -> PbufsOf(<<s>>)]
    BY <1>2
  <2>2. \A a, b \in 1 .. s.clen : f[a] = f[b] => a = b
    OBVIOUS
  <2>3. \A t \in PbufsOf(<<s>>) : \E a \in 1 .. s.clen : f[a] = t
    BY <1>2
  <2> QED
    BY <2>1, <2>2, <2>3, Fun_IsBij
<1>4. ExistsBijection(1 .. s.clen, PbufsOf(<<s>>))
  BY <1>3 DEF ExistsBijection
<1>5. IsFiniteSet(1 .. s.clen) /\ Cardinality(1 .. s.clen) = s.clen
  <2>1. Cardinality(1 .. s.clen) = IF 1 > s.clen THEN 0 ELSE s.clen - 1 + 1
    BY <1>1, FS_Interval
  <2>2. IsFiniteSet(1 .. s.clen)
    BY <1>1, FS_Interval
  <2> QED
    BY <1>1, <2>1, <2>2
<1>6. Cardinality(PbufsOf(<<s>>)) = s.clen
  BY <1>4, <1>5, FS_Bijection
<1> QED
  BY <1>6 DEF Pbufs

(* The pbufs of two queues, one behind the other.                          *)
LEMMA PbufsJoin ==
  ASSUME NEW q \in Seq(Segment), NEW r \in Seq(Segment)
  PROVE  Pbufs(q \o r) = Pbufs(q) + Pbufs(r)
<1> DEFINE w == q \o r
           A == PbufsOf(q)
           B == PbufsOf(r)
           C == PbufsOf(w) \ A
           f == [x \in B |-> <<Len(q) + x[1], x[2]>>]
<1>1. /\ Len(q) \in Nat /\ Len(r) \in Nat
  BY QueueFacts
<1>2. /\ w \in Seq(Segment) /\ Len(w) = Len(q) + Len(r)
      /\ \A i \in 1 .. Len(q) : w[i] = q[i]
      /\ \A i \in 1 .. Len(r) : w[Len(q) + i] = r[i]
  BY JoinFacts
<1>3. \A x : x \in A <=> \E i \in 1 .. Len(q) : \E k \in 1 .. q[i].clen : x = <<i, k>>
  BY PbufOf
<1>4. \A x : x \in B <=> \E i \in 1 .. Len(r) : \E k \in 1 .. r[i].clen : x = <<i, k>>
  BY PbufOf
<1>5. \A x : x \in PbufsOf(w) <=> \E i \in 1 .. Len(w) : \E k \in 1 .. w[i].clen : x = <<i, k>>
  BY <1>2, PbufOf
<1> HIDE DEF w, A, B
<1>6. A \subseteq PbufsOf(w)
  <2> SUFFICES ASSUME NEW x \in A
               PROVE  x \in PbufsOf(w)
    OBVIOUS
  <2>10. PICK i \in 1 .. Len(q) : \E k \in 1 .. q[i].clen : x = <<i, k>>
    BY <1>3
  <2>1. PICK k \in 1 .. q[i].clen : x = <<i, k>>
    BY <2>10
  <2>2. i \in 1 .. Len(w) /\ k \in 1 .. w[i].clen
    BY <1>1, <1>2
  <2> QED
    BY <1>5, <2>1, <2>2
<1>7. \A x : x \in C <=> \E i \in 1 .. Len(r) : \E k \in 1 .. r[i].clen : x = <<Len(q) + i, k>>
  <2> TAKE x
  <2>1. ASSUME x \in C
        PROVE  \E i \in 1 .. Len(r) : \E k \in 1 .. r[i].clen : x = <<Len(q) + i, k>>
    <3>10. PICK j \in 1 .. Len(w) : \E k \in 1 .. w[j].clen : x = <<j, k>>
      BY <1>5, <2>1
    <3>1. PICK k \in 1 .. w[j].clen : x = <<j, k>>
      BY <3>10
    <3>2. j \notin 1 .. Len(q)
      <4> SUFFICES ASSUME j \in 1 .. Len(q)
                   PROVE  FALSE
        OBVIOUS
      <4>1. k \in 1 .. q[j].clen
        BY <1>2
      <4>2. x \in A
        BY <1>3, <3>1, <4>1
      <4> QED
        BY <2>1, <4>2
    <3> DEFINE i == j - Len(q)
    <3>3. i \in 1 .. Len(r) /\ j = Len(q) + i
      BY <1>1, <1>2, <3>2
    <3> HIDE DEF i
    <3>4. k \in 1 .. r[i].clen
      BY <1>2, <3>3
    <3> QED
      BY <3>1, <3>3, <3>4
  <2>2. ASSUME NEW i \in 1 .. Len(r), NEW k \in 1 .. r[i].clen, x = <<Len(q) + i, k>>
        PROVE  x \in C
    <3>1. Len(q) + i \in 1 .. Len(w) /\ w[Len(q) + i] = r[i]
      BY <1>1, <1>2
    <3>2. x \in PbufsOf(w)
      BY <1>5, <2>2, <3>1
    <3>3. x \notin A
      <4> SUFFICES ASSUME x \in A
                   PROVE  FALSE
        OBVIOUS
      <4>10. PICK j \in 1 .. Len(q) : \E l \in 1 .. q[j].clen : x = <<j, l>>
        BY <1>3
      <4>1. PICK l \in 1 .. q[j].clen : x = <<j, l>>
        BY <4>10
      <4>2. j = Len(q) + i
        BY <2>2, <4>1
      <4> QED
        BY <1>1, <4>2
    <3> QED
      BY <3>2, <3>3
  <2> QED
    BY <2>1, <2>2
<1>8. ExistsBijection(B, C)
  <2>1. f \in [B -> C]
    <3> SUFFICES ASSUME NEW x \in B
                 PROVE  <<Len(q) + x[1], x[2]>> \in C
      OBVIOUS
    <3>10. PICK i \in 1 .. Len(r) : \E k \in 1 .. r[i].clen : x = <<i, k>>
      BY <1>4
    <3>1. PICK k \in 1 .. r[i].clen : x = <<i, k>>
      BY <3>10
    <3>2. x[1] = i /\ x[2] = k
      BY <3>1
    <3> QED
      BY <1>7, <3>2
  <2>2. \A a, b \in B : f[a] = f[b] => a = b
    <3> SUFFICES ASSUME NEW a \in B, NEW b \in B, f[a] = f[b]
                 PROVE  a = b
      OBVIOUS
    <3>10. PICK i \in 1 .. Len(r) : \E k \in 1 .. r[i].clen : a = <<i, k>>
      BY <1>4
    <3>1. PICK k \in 1 .. r[i].clen : a = <<i, k>>
      BY <3>10
    <3>20. PICK j \in 1 .. Len(r) : \E l \in 1 .. r[j].clen : b = <<j, l>>
      BY <1>4
    <3>2. PICK l \in 1 .. r[j].clen : b = <<j, l>>
      BY <3>20
    <3>3. f[a] = <<Len(q) + i, k>> /\ f[b] = <<Len(q) + j, l>>
      BY <3>1, <3>2
    <3>4. Len(q) + i = Len(q) + j /\ k = l
      BY <3>3
    <3>5. i = j
      BY <1>1, <3>4
    <3> QED
      BY <3>1, <3>2, <3>4, <3>5
  <2>3. \A t \in C : \E a \in B : f[a] = t
    <3> SUFFICES ASSUME NEW t \in C
                 PROVE  \E a \in B : f[a] = t
      OBVIOUS
    <3>10. PICK i \in 1 .. Len(r) : \E k \in 1 .. r[i].clen : t = <<Len(q) + i, k>>
      BY <1>7
    <3>1. PICK k \in 1 .. r[i].clen : t = <<Len(q) + i, k>>
      BY <3>10
    <3>2. <<i, k>> \in B
      BY <1>4
    <3>3. f[<<i, k>>] = t
      BY <3>1, <3>2
    <3> QED
      BY <3>2, <3>3
  <2>4. f \in Bijection(B, C)
    BY <2>1, <2>2, <2>3, Fun_IsBij
  <2> QED
    BY <2>4 DEF ExistsBijection
<1>9. IsFiniteSet(A) /\ IsFiniteSet(B) /\ Cardinality(A) \in Nat /\ Cardinality(B) \in Nat
  BY PbufsType DEF A, B, Pbufs
<1>10. IsFiniteSet(C) /\ Cardinality(C) = Cardinality(B)
  BY <1>8, <1>9, FS_Bijection
<1>11. PbufsOf(w) = A \cup C /\ A \cap C = {}
  BY <1>6
<1> HIDE DEF C
<1>12. Cardinality(A \cup C) = Cardinality(A) + Cardinality(C) - Cardinality(A \cap C)
  BY <1>9, <1>10, FS_Union
<1>13. Cardinality(A \cap C) = 0
  BY <1>11, FS_EmptySet
<1>14. Cardinality(PbufsOf(w)) = Cardinality(A \cup C)
  BY <1>11
<1>15. Cardinality(PbufsOf(w)) = Cardinality(A) + Cardinality(B)
  BY <1>9, <1>10, <1>12, <1>13, <1>14
<1> QED
  BY <1>15 DEF A, B, w, Pbufs

(* Sending the first segment moves its pbufs.                              *)
LEMMA PbufsMove ==
  ASSUME NEW u \in Seq(Segment), NEW t \in Seq(Segment), t # <<>>
  PROVE  Pbufs(Tail(t)) + Pbufs(Append(u, t[1])) = Pbufs(t) + Pbufs(u)
<1>1. t[1] \in Segment /\ Tail(t) \in Seq(Segment) /\ <<t[1]>> \in Seq(Segment)
  BY QueueFacts, TailFacts, OneFacts
<1>2. t = <<t[1]>> \o Tail(t)
  BY HeadThenTail
<1>3. Pbufs(t) = Pbufs(<<t[1]>>) + Pbufs(Tail(t))
  BY <1>1, <1>2, PbufsJoin
<1>4. Append(u, t[1]) = u \o <<t[1]>>
  BY <1>1, AppendIsConcat
<1>5. Pbufs(Append(u, t[1])) = Pbufs(u) + Pbufs(<<t[1]>>)
  BY <1>1, <1>4, PbufsJoin
<1>6. /\ Pbufs(u) \in Nat /\ Pbufs(<<t[1]>>) \in Nat /\ Pbufs(Tail(t)) \in Nat
  BY <1>1, PbufsType
<1> QED
  BY <1>3, <1>5, <1>6

-----------------------------------------------------------------------------
(* tcp_output                                                              *)

Right(c) == c.lastack + c.snd_wnd
Row(c) == Line(c.unacked, c.unsent, c.lastack, c.snd_nxt, Edge(c), Right(c))
ReachOf(c) == Reach(c.unacked, c.unsent, c.snd_nxt)

(* Before closing there is no FIN.                                         *)
Plain(c) == c.state \in Open => /\ NoFin(c.unacked) /\ NoFin(c.unsent)
                                /\ "TF_FIN" \notin c.flags
Books(c) == /\ c.snd_buf + c.snd_lbb - c.lastack = TCP_SND_BUF
            /\ c.snd_queuelen = Pbufs(c.unsent) + Pbufs(c.unacked)
Spare(c) == c.unsent # <<>> => c.unsent_oversize <= c.unsent[Len(c.unsent)].room
Recovers(c) == "TF_INFR" \in c.flags => c.ssthresh \in 2 * TCP_MSS .. U16 - 1

(* A connection tcp_output can be called for.                              *)
Ready(c) == /\ c \in Pcb /\ c.state \in Active
            /\ Row(c) /\ Plain(c) /\ Books(c) /\ Spare(c) /\ Recovers(c)

(* What the loop of tcp_output leaves alone.                               *)
Kept(d, c) ==
  /\ d.lastack = c.lastack /\ d.snd_lbb = c.snd_lbb /\ d.snd_buf = c.snd_buf
  /\ d.snd_queuelen = c.snd_queuelen /\ d.unsent_oversize = c.unsent_oversize
  /\ d.snd_wnd = c.snd_wnd /\ d.snd_wl2 = c.snd_wl2 /\ d.cwnd = c.cwnd
  /\ d.ssthresh = c.ssthresh /\ d.flags = c.flags /\ d.state = c.state

(* Segments on the wire, and that they end within the reach.               *)
Wire == {s \in [seqno : Nat, p : Seq(Nat), fin : BOOLEAN] :
           s.p = Bytes(s.seqno, Len(s.p))}
OnWire(S, reach) == \A s \in S : s \in Wire /\ End(s) <= reach

LEMMA PcbFacts ==
  ASSUME NEW c \in Pcb
  PROVE  /\ c.unsent \in Seq(Segment) /\ c.unacked \in Seq(Segment)
         /\ c.snd_nxt \in Nat /\ c.lastack \in Nat /\ c.snd_lbb \in Nat
         /\ c.snd_buf \in Nat /\ c.snd_queuelen \in 0 .. TCP_SND_QUEUELEN
         /\ c.unsent_oversize \in Nat /\ c.snd_wnd \in 0 .. PeerBuf
         /\ c.snd_wl2 \in Nat /\ c.cwnd \in TCP_MSS .. U16 - 1
         /\ c.ssthresh \in Nat /\ c.dupacks \in 0 .. 4 /\ c.flags \subseteq Flags
         /\ c.rtime \in BOOLEAN /\ c.persist \in BOOLEAN /\ c.nrtx \in BOOLEAN
         /\ c.state \in Active \cup {"CLOSED", "ABORTED"}
BY DEF Pcb

(* The edges are numbers.                                                  *)
LEMMA EdgeFacts ==
  ASSUME NEW c \in Pcb
  PROVE  /\ Edge(c) \in Nat /\ Right(c) \in Nat
         /\ c.snd_lbb <= Edge(c) /\ Edge(c) <= c.snd_lbb + 1
         /\ c.state \in Open => Edge(c) = c.snd_lbb
<1>1. /\ c.snd_lbb \in Nat /\ c.lastack \in Nat /\ c.snd_wnd \in 0 .. PeerBuf
  BY PcbFacts
<1>2. Right(c) \in Nat
  BY <1>1, SizeAssumption DEF Right
<1>3. CASE c.state \notin Open /\ "TF_FIN" \notin c.flags
  BY <1>1, <1>2, <1>3 DEF Edge
<1>4. CASE ~(c.state \notin Open /\ "TF_FIN" \notin c.flags)
  BY <1>1, <1>2, <1>4 DEF Edge
<1> QED
  BY <1>3, <1>4

(* tcp_output_segment in its parts.                                        *)
LEMMA OutputSegmentFacts ==
  ASSUME NEW c \in Pcb, NEW s, Sorted(c.unacked, s) \in Seq(Segment),
         Tail(c.unsent) \in Seq(Segment), Greater(c.snd_nxt, End(s)) \in Nat
  PROVE  /\ tcp_output_segment(c, s) \in Pcb
         /\ Kept(tcp_output_segment(c, s), c)
         /\ tcp_output_segment(c, s).unsent = Tail(c.unsent)
         /\ tcp_output_segment(c, s).unacked = Sorted(c.unacked, s)
         /\ tcp_output_segment(c, s).snd_nxt = Greater(c.snd_nxt, End(s))
         /\ tcp_output_segment(c, s).rtime = TRUE
<1> DEFINE d == tcp_output_segment(c, s)
           w == Sorted(c.unacked, s)
           n == Greater(c.snd_nxt, End(s))
           r == Tail(c.unsent)
<1>1. d = [c EXCEPT !.unsent = r, !.unacked = w, !.snd_nxt = n, !.rtime = TRUE]
  BY DEF tcp_output_segment
<1>2. w \in Seq(Segment) /\ n \in Nat /\ r \in Seq(Segment)
  OBVIOUS
<1> HIDE DEF d, w, n, r
<1>3. d \in Pcb
  BY <1>1, <1>2 DEF Pcb
<1>4. d.unsent = r /\ d.unacked = w /\ d.snd_nxt = n /\ d.rtime = TRUE
  BY <1>1 DEF Pcb
<1>5. Kept(d, c)
  BY <1>1 DEF Pcb, Kept
<1> QED
  BY <1>3, <1>4, <1>5 DEF d, w, n, r

(* What the line needs of a connection does not change.                    *)
LEMMA KeptEdges ==
  ASSUME NEW c, NEW d, Kept(d, c)
  PROVE  Edge(d) = Edge(c) /\ Right(d) = Right(c)
BY DEF Kept, Edge, Right

(* A segment in the window is sent.                                        *)
LEMMA SegmentSent ==
  ASSUME NEW c, Ready(c), c.unsent # <<>>,
         Fits(c, c.unsent[1], Lesser(c.snd_wnd, c.cwnd))
  PROVE  LET d == tcp_output_segment(c, c.unsent[1])
         IN /\ Ready(d) /\ Kept(d, c)
            /\ d.unsent = Tail(c.unsent)
            /\ ReachOf(c) <= ReachOf(d)
            /\ End(c.unsent[1]) <= ReachOf(d)
<1> DEFINE s == c.unsent[1]
           d == tcp_output_segment(c, s)
           u == c.unacked
           t == c.unsent
<1>1. /\ c \in Pcb /\ c.state \in Active
      /\ Row(c) /\ Plain(c) /\ Books(c) /\ Spare(c) /\ Recovers(c)
  BY DEF Ready
<1>2. /\ t \in Seq(Segment) /\ u \in Seq(Segment) /\ c.snd_nxt \in Nat
      /\ c.lastack \in Nat /\ c.snd_wnd \in 0 .. PeerBuf
      /\ c.cwnd \in TCP_MSS .. U16 - 1
      /\ Edge(c) \in Nat /\ Right(c) \in Nat
  BY <1>1, PcbFacts, EdgeFacts
<1>3. s \in Segment /\ s.seqno \in Nat /\ Len(s.p) \in Nat
  BY <1>2, QueueFacts
<1>4. s.seqno + Len(s.p) <= Right(c)
  <2>1. s.seqno - c.lastack + Len(s.p) <= Lesser(c.snd_wnd, c.cwnd)
    BY DEF Fits
  <2>2. Lesser(c.snd_wnd, c.cwnd) <= c.snd_wnd /\ Lesser(c.snd_wnd, c.cwnd) \in Int
    BY <1>2, SizeAssumption DEF Lesser
  <2>3. c.snd_wnd \in Nat
    BY <1>2, SizeAssumption
  <2>4. /\ s.seqno \in Nat /\ Len(s.p) \in Nat /\ c.lastack \in Nat
        /\ Right(c) = c.lastack + c.snd_wnd
    BY <1>2, <1>3 DEF Right
  <2> DEFINE m == Lesser(c.snd_wnd, c.cwnd)
  <2>5. s.seqno - c.lastack + Len(s.p) <= m /\ m <= c.snd_wnd /\ m \in Int
    BY <2>1, <2>2
  <2> HIDE DEF m
  <2> QED
    BY <2>3, <2>4, <2>5
<1>5. /\ Sorted(u, s) = Append(u, s)
      /\ Line(Append(u, s), Tail(t), c.lastack, Greater(c.snd_nxt, End(s)), Edge(c), Right(c))
  BY <1>1, <1>2, <1>4, SendFirst DEF Row
<1>6. Append(u, s) \in Seq(Segment) /\ Tail(t) \in Seq(Segment)
  BY <1>2, <1>3, AppendFacts, TailFacts
<1>7. /\ Greater(c.snd_nxt, End(s)) \in Nat
      /\ Reach(u, t, c.snd_nxt) <= Reach(Append(u, s), Tail(t), Greater(c.snd_nxt, End(s)))
      /\ End(s) <= Reach(Append(u, s), Tail(t), Greater(c.snd_nxt, End(s)))
  BY <1>2, SendReach
<1>8. /\ d \in Pcb /\ Kept(d, c) /\ d.unsent = Tail(t) /\ d.unacked = Append(u, s)
      /\ d.snd_nxt = Greater(c.snd_nxt, End(s))
  BY <1>1, <1>5, <1>6, <1>7, OutputSegmentFacts
<1> HIDE DEF d
<1>9. Edge(d) = Edge(c) /\ Right(d) = Right(c) /\ d.lastack = c.lastack
      /\ d.state = c.state /\ d.flags = c.flags
  BY <1>8, KeptEdges DEF Kept
<1>10. Row(d)
  BY <1>5, <1>8, <1>9 DEF Row
<1>11. Plain(d)
  <2> SUFFICES ASSUME d.state \in Open
               PROVE  NoFin(Append(u, s)) /\ NoFin(Tail(t)) /\ "TF_FIN" \notin c.flags
    BY <1>8, <1>9 DEF Plain
  <2>1. NoFin(u) /\ NoFin(t) /\ "TF_FIN" \notin c.flags
    BY <1>1, <1>9 DEF Plain
  <2>2. /\ Len(u) \in Nat /\ Len(t) \in Nat /\ Len(t) > 0
        /\ Len(Append(u, s)) = Len(u) + 1 /\ Len(Tail(t)) = Len(t) - 1
        /\ \A i \in 1 .. Len(u) : Append(u, s)[i] = u[i]
        /\ Append(u, s)[Len(u) + 1] = s
        /\ \A i \in 1 .. Len(t) - 1 : Tail(t)[i] = t[i + 1]
    BY <1>2, <1>3, QueueFacts, AppendFacts, TailFacts
  <2>3. NoFin(Append(u, s))
    <3>1. \A i \in 1 .. Len(Append(u, s)) : i \in 1 .. Len(u) \/ i = Len(u) + 1
      BY <2>2
    <3>2. 1 \in 1 .. Len(t)
      BY <2>2
    <3> QED
      BY <2>1, <2>2, <3>1, <3>2 DEF NoFin
  <2>4. NoFin(Tail(t))
    <3>1. \A i \in 1 .. Len(Tail(t)) : i + 1 \in 1 .. Len(t) /\ Tail(t)[i] = t[i + 1]
      BY <2>2
    <3> QED
      BY <2>1, <3>1 DEF NoFin
  <2> QED
    BY <2>1, <2>3, <2>4
<1>12. Books(d)
  <2>1. d.snd_buf = c.snd_buf /\ d.snd_lbb = c.snd_lbb /\ d.lastack = c.lastack
        /\ d.snd_queuelen = c.snd_queuelen
    BY <1>8 DEF Kept
  <2>2. Pbufs(Tail(t)) + Pbufs(Append(u, s)) = Pbufs(t) + Pbufs(u)
    BY <1>2, PbufsMove
  <2> QED
    BY <1>1, <1>8, <2>1, <2>2 DEF Books
<1>13. Spare(d)
  <2> SUFFICES ASSUME Tail(t) # <<>>
               PROVE  c.unsent_oversize <= Tail(t)[Len(Tail(t))].room
    BY <1>8 DEF Spare, Kept
  <2>1. /\ Len(t) \in Nat /\ Len(Tail(t)) = Len(t) - 1
        /\ \A i \in 1 .. Len(t) - 1 : Tail(t)[i] = t[i + 1]
        /\ Len(Tail(t)) > 0
    BY <1>2, <1>6, QueueFacts, TailFacts
  <2>2. Len(t) - 1 \in 1 .. Len(t) - 1 /\ (Len(t) - 1) + 1 = Len(t)
    BY <2>1
  <2>3. Tail(t)[Len(Tail(t))] = t[Len(t)]
    BY <2>1, <2>2
  <2> QED
    BY <1>1, <2>3 DEF Spare
<1>14. Recovers(d)
  BY <1>1, <1>8 DEF Recovers, Kept
<1>15. Ready(d)
  BY <1>1, <1>8, <1>9, <1>10, <1>11, <1>12, <1>13, <1>14 DEF Ready
<1>16. ReachOf(c) <= ReachOf(d) /\ End(s) <= ReachOf(d)
  BY <1>7, <1>8 DEF ReachOf
<1> QED
  BY <1>8, <1>15, <1>16 DEF d

(* The loop as a function of the number of turns: that there is one.       *)
Start(c) == [more |-> TRUE, c |-> c, out |-> {}]
Loop(f, c, n) ==
  f = [k \in 0 .. n |-> IF k = 0 THEN Start(c) ELSE Turn(f[k - 1], c.unsent[k])]

LEMMA LoopExists ==
  ASSUME NEW c, NEW n \in Nat
  PROVE  \E f : Loop(f, c, n)
<1> DEFINE B == {k \in Nat : ~ \E f : Loop(f, c, k)}
<1> SUFFICES ASSUME B # {}
             PROVE  FALSE
  OBVIOUS
<1>1. PICK b \in B : \A k \in B : b <= k
  <2>1. B \subseteq Nat
    OBVIOUS
  <2> QED
    BY <2>1, LeastOf
<1>2. b \in Nat /\ ~ \E f : Loop(f, c, b)
  OBVIOUS
<1>3. CASE b = 0
  <2> DEFINE f == [k \in 0 .. 0 |-> Start(c)]
  <2>1. f = [k \in 0 .. 0 |-> IF k = 0 THEN Start(c) ELSE Turn(f[k - 1], c.unsent[k])]
    OBVIOUS
  <2>2. Loop(f, c, 0)
    BY <2>1 DEF Loop
  <2> QED
    BY <1>2, <1>3, <2>2
<1>4. CASE b > 0
  <2>1. b - 1 \in Nat /\ ~(b <= b - 1)
    BY <1>2, <1>4
  <2>2. b - 1 \notin B
    BY <1>1, <2>1
  <2>3. PICK f : Loop(f, c, b - 1)
    BY <2>1, <2>2
  <2> DEFINE g == [k \in 0 .. b |-> IF k = b THEN Turn(f[b - 1], c.unsent[b]) ELSE f[k]]
             h == [k \in 0 .. b |-> IF k = 0 THEN Start(c) ELSE Turn(g[k - 1], c.unsent[k])]
  <2>4. \A k \in 0 .. b - 1 : f[k] = IF k = 0 THEN Start(c) ELSE Turn(f[k - 1], c.unsent[k])
    BY <2>3 DEF Loop
  <2>5. \A k \in 0 .. b : g[k] = h[k]
    <3> SUFFICES ASSUME NEW k \in 0 .. b
                 PROVE  g[k] = h[k]
      OBVIOUS
    <3>1. CASE k = 0
      <4>1. k # b /\ k \in 0 .. b - 1
        BY <1>2, <1>4, <3>1
      <4> QED
        BY <2>4, <3>1, <4>1
    <3>2. CASE k # 0
      <4>1. k - 1 \in 0 .. b /\ k - 1 # b
        BY <1>2, <3>2
      <4>2. g[k - 1] = f[k - 1]
        BY <4>1
      <4>3. CASE k = b
        BY <3>2, <4>2, <4>3
      <4>4. CASE k # b
        <5>1. k \in 0 .. b - 1
          BY <1>2, <4>4
        <5> QED
          BY <2>4, <3>2, <4>2, <4>4, <5>1
      <4> QED
        BY <4>3, <4>4
    <3> QED
      BY <3>1, <3>2
  <2>6. g = h
    BY <2>5
  <2>7. Loop(g, c, b)
    BY <2>6 DEF Loop
  <2> QED
    BY <1>2, <2>7
<1> QED
  BY <1>2, <1>3, <1>4

LEMMA TurnsFacts ==
  ASSUME NEW c, Len(c.unsent) \in Nat
  PROVE  /\ Turns(c)[0] = Start(c)
         /\ \A k \in 1 .. Len(c.unsent) : Turns(c)[k] = Turn(Turns(c)[k - 1], c.unsent[k])
<1> DEFINE n == Len(c.unsent)
<1>1. \E f : Loop(f, c, n)
  BY LoopExists
<1>2. \E f : f = [k \in 0 .. n |-> IF k = 0 THEN Start(c) ELSE Turn(f[k - 1], c.unsent[k])]
  BY <1>1 DEF Loop
<1>3. Turns(c) = CHOOSE f : f = [k \in 0 .. n |-> IF k = 0 THEN Start(c)
                                                 ELSE Turn(f[k - 1], c.unsent[k])]
  BY DEF Turns, Start
<1>4. Turns(c) = [k \in 0 .. n |-> IF k = 0 THEN Start(c)
                                   ELSE Turn(Turns(c)[k - 1], c.unsent[k])]
  BY <1>2, <1>3
<1> DEFINE T == Turns(c)
<1> HIDE DEF n, T
<1>5. T = [k \in 0 .. n |-> IF k = 0 THEN Start(c) ELSE Turn(T[k - 1], c.unsent[k])]
  BY <1>4 DEF T
<1>6. n \in Nat
  BY DEF n
<1>7. T[0] = Start(c)
  BY <1>5, <1>6
<1>8. \A k \in 1 .. n : k \in 0 .. n /\ k # 0
  BY <1>6
<1>9. \A k \in 1 .. n : T[k] = Turn(T[k - 1], c.unsent[k])
  BY <1>5, <1>8
<1> QED
  BY <1>7, <1>9 DEF n, T

(* After k turns of the loop for c, which stands for b: the connection is  *)
(* in order, and what went out is on the wire.                             *)
InLoop(c, b, k, a) ==
  /\ a \in [more : BOOLEAN, c : Pcb, out : SUBSET Wire]
  /\ Ready(a.c) /\ Kept(a.c, b)
  /\ ReachOf(b) <= ReachOf(a.c) /\ OnWire(a.out, ReachOf(a.c))
  /\ a.more = TRUE => a.c.unsent = SubSeq(c.unsent, k + 1, Len(c.unsent))

LEMMA ReachOfType ==
  ASSUME NEW c \in Pcb
  PROVE  ReachOf(c) \in Nat
<1>1. c.snd_nxt \in Nat
  BY PcbFacts
<1> QED
  BY <1>1, ReachFacts DEF ReachOf

LEMMA KeptTrans ==
  ASSUME NEW c, NEW d, NEW e, Kept(d, c), Kept(e, d)
  PROVE  Kept(e, c)
BY DEF Kept

(* A segment as it is on the wire.                                         *)
LEMMA WireFacts ==
  ASSUME NEW s \in Segment
  PROVE  /\ [seqno |-> s.seqno, p |-> s.p, fin |-> s.fin] \in Wire
         /\ End([seqno |-> s.seqno, p |-> s.p, fin |-> s.fin]) = End(s)
<1>1. /\ s.seqno \in Nat /\ s.p \in Seq(Nat) /\ s.fin \in BOOLEAN
      /\ s.p = Bytes(s.seqno, Len(s.p))
  BY SegmentFacts
<1> DEFINE w == [seqno |-> s.seqno, p |-> s.p, fin |-> s.fin]
<1>2. w.seqno = s.seqno /\ w.p = s.p /\ w.fin = s.fin
  OBVIOUS
<1>3. w \in [seqno : Nat, p : Seq(Nat), fin : BOOLEAN]
  BY <1>1
<1> HIDE DEF w
<1>4. w \in Wire
  BY <1>1, <1>2, <1>3 DEF Wire
<1>5. End(w) = End(s)
  BY <1>2 DEF End, TCP_TCPLEN
<1> QED
  BY <1>4, <1>5 DEF w

LEMMA WireEnd ==
  ASSUME NEW x \in Wire
  PROVE  /\ x.seqno \in Nat /\ Len(x.p) \in Nat /\ x.fin \in BOOLEAN
         /\ x.p \in Seq(Nat) /\ x.p = Bytes(x.seqno, Len(x.p))
         /\ End(x) \in Nat
         /\ x.fin = TRUE => End(x) = x.seqno + Len(x.p) + 1
         /\ x.fin = FALSE => End(x) = x.seqno + Len(x.p)
<1>1. /\ x \in [seqno : Nat, p : Seq(Nat), fin : BOOLEAN]
      /\ x.p = Bytes(x.seqno, Len(x.p))
  BY DEF Wire
<1>2. x.seqno \in Nat /\ x.p \in Seq(Nat) /\ x.fin \in BOOLEAN
  BY <1>1
<1>3. Len(x.p) \in Nat
  BY <1>2
<1>4. CASE x.fin = TRUE
  BY <1>1, <1>2, <1>3, <1>4 DEF End, TCP_TCPLEN
<1>5. CASE x.fin = FALSE
  BY <1>1, <1>2, <1>3, <1>5 DEF End, TCP_TCPLEN
<1> QED
  BY <1>1, <1>2, <1>3, <1>4, <1>5

LEMMA TurnKeeps ==
  ASSUME NEW c, NEW b \in Pcb, c.unsent \in Seq(Segment), NEW k \in 1 .. Len(c.unsent),
         NEW a, InLoop(c, b, k - 1, a)
  PROVE  InLoop(c, b, k, Turn(a, c.unsent[k]))
<1> DEFINE s == c.unsent[k]
           d == tcp_output_segment(a.c, s)
           w == [seqno |-> s.seqno, p |-> s.p, fin |-> s.fin]
<1>1. /\ a \in [more : BOOLEAN, c : Pcb, out : SUBSET Wire]
      /\ Ready(a.c) /\ Kept(a.c, b)
      /\ ReachOf(b) <= ReachOf(a.c) /\ OnWire(a.out, ReachOf(a.c))
      /\ a.more = TRUE => a.c.unsent = SubSeq(c.unsent, (k - 1) + 1, Len(c.unsent))
  BY DEF InLoop
<1>2. a.more \in BOOLEAN /\ a.c \in Pcb /\ a.out \subseteq Wire
  BY <1>1
<1> DEFINE go == /\ a.more = TRUE
                 /\ Fits(a.c, s, Lesser(a.c.snd_wnd, a.c.cwnd))
                 /\ tcp_do_output_nagle(a.c)
                      \/ a.c.flags \cap {"TF_NAGLEMEMERR", "TF_FIN"} # {}
<1>3. Turn(a, s) = IF go THEN [more |-> TRUE, c |-> d, out |-> a.out \cup {w}]
                   ELSE [a EXCEPT !.more = FALSE]
  BY <1>2 DEF Turn
<1>4. CASE ~go
  <2>1. Turn(a, s) = [a EXCEPT !.more = FALSE]
    BY <1>3, <1>4
  <2> DEFINE e == [a EXCEPT !.more = FALSE]
  <2>2. e \in [more : BOOLEAN, c : Pcb, out : SUBSET Wire]
        /\ e.more = FALSE /\ e.c = a.c /\ e.out = a.out
    BY <1>1
  <2> HIDE DEF e
  <2>3. InLoop(c, b, k, e)
    BY <1>1, <2>2 DEF InLoop
  <2> QED
    BY <2>1, <2>3 DEF e
<1>5. CASE go
  <2>1. Turn(a, s) = [more |-> TRUE, c |-> d, out |-> a.out \cup {w}]
    BY <1>3, <1>5
  <2>2. /\ Len(c.unsent) \in Nat /\ s \in Segment
    BY QueueFacts
  <2>3. a.c.unsent = SubSeq(c.unsent, k, Len(c.unsent))
    <3>1. (k - 1) + 1 = k
      OBVIOUS
    <3> QED
      BY <1>1, <1>5, <3>1
  <2>4. a.c.unsent # <<>> /\ a.c.unsent[1] = s
        /\ Tail(a.c.unsent) = SubSeq(c.unsent, k + 1, Len(c.unsent))
    <3>1. k - 1 \in Nat /\ Len(c.unsent) \in Nat /\ k - 1 <= Len(c.unsent)
          /\ (k - 1) + 1 = k /\ 1 \in 1 .. Len(c.unsent) - (k - 1)
          /\ k \in 1 .. Len(c.unsent) /\ Len(c.unsent) \in k .. Len(c.unsent)
      BY <2>2
    <3>2. /\ SubSeq(c.unsent, k, Len(c.unsent)) \in Seq(Segment)
          /\ Len(SubSeq(c.unsent, k, Len(c.unsent))) = Len(c.unsent) - (k - 1)
          /\ SubSeq(c.unsent, k, Len(c.unsent))[1] = c.unsent[k]
      BY <3>1, PartFacts
    <3>3. SubSeq(c.unsent, k, Len(c.unsent)) # <<>>
      <4> DEFINE r == SubSeq(c.unsent, k, Len(c.unsent))
      <4>1. r \in Seq(Segment) /\ Len(r) > 0
        BY <3>1, <3>2
      <4> HIDE DEF r
      <4>2. r # <<>>
        BY <4>1, QueueFacts
      <4> QED
        BY <4>2 DEF r
    <3>4. Tail(SubSeq(c.unsent, k, Len(c.unsent))) = SubSeq(c.unsent, k + 1, Len(c.unsent))
      BY <3>1, HeadTailOfSubSeq
    <3> QED
      BY <2>3, <3>2, <3>3, <3>4
  <2>5. /\ Ready(d) /\ Kept(d, a.c)
        /\ d.unsent = Tail(a.c.unsent)
        /\ ReachOf(a.c) <= ReachOf(d)
        /\ End(s) <= ReachOf(d)
    BY <1>1, <1>5, <2>4, SegmentSent
  <2>6. d \in Pcb
    BY <2>5 DEF Ready
  <2>7. w \in Wire /\ End(w) = End(s)
    BY <2>2, WireFacts
  <2> DEFINE e == [more |-> TRUE, c |-> d, out |-> a.out \cup {w}]
  <2> HIDE DEF d, w, s
  <2>8. e \in [more : BOOLEAN, c : Pcb, out : SUBSET Wire]
        /\ e.more = TRUE /\ e.c = d /\ e.out = a.out \cup {w}
    BY <1>2, <2>6, <2>7
  <2> HIDE DEF e
  <2>9. /\ ReachOf(b) \in Nat /\ ReachOf(a.c) \in Nat /\ ReachOf(d) \in Nat
    BY <1>2, <2>6, ReachOfType
  <2>10. ReachOf(b) <= ReachOf(d)
    BY <1>1, <2>5, <2>9
  <2>11. Kept(d, b)
    BY <1>1, <2>5, KeptTrans
  <2>12. OnWire(a.out \cup {w}, ReachOf(d))
    <3> SUFFICES ASSUME NEW x \in a.out \cup {w}
                 PROVE  x \in Wire /\ End(x) <= ReachOf(d)
      BY DEF OnWire
    <3>1. CASE x = w
      BY <2>5, <2>7, <3>1
    <3>2. CASE x \in a.out
      <4>1. x \in Wire /\ End(x) <= ReachOf(a.c)
        BY <1>1, <3>2 DEF OnWire
      <4>2. End(x) \in Nat
        BY <4>1, WireEnd
      <4>3. End(x) <= ReachOf(d)
        BY <2>5, <2>9, <4>1, <4>2
      <4> QED
        BY <4>1, <4>3
    <3> QED
      BY <3>1, <3>2
  <2>13. InLoop(c, b, k, e)
    BY <2>4, <2>5, <2>8, <2>10, <2>11, <2>12 DEF InLoop
  <2> QED
    BY <2>1, <2>13 DEF e, s
<1> QED
  BY <1>4, <1>5

(* From a turn on, through the loop.                                       *)
LEMMA LoopKeeps ==
  ASSUME NEW c, NEW b \in Pcb, c.unsent \in Seq(Segment), NEW m \in 0 .. Len(c.unsent),
         InLoop(c, b, m, Turns(c)[m])
  PROVE  InLoop(c, b, Len(c.unsent), Turns(c)[Len(c.unsent)])
<1> DEFINE n == Len(c.unsent)
           B == {k \in m .. n : ~ InLoop(c, b, k, Turns(c)[k])}
<1>1. n \in Nat
  BY QueueFacts
<1> SUFFICES ASSUME B # {}
             PROVE  FALSE
  BY <1>1
<1>2. PICK k \in B : \A j \in B : k <= j
  <2>1. B \subseteq Nat
    BY <1>1
  <2> QED
    BY <2>1, LeastOf
<1>3. k \in m .. n /\ ~ InLoop(c, b, k, Turns(c)[k])
  OBVIOUS
<1>4. k # m
  BY <1>3
<1>5. k - 1 \in m .. n /\ ~(k <= k - 1) /\ k \in 1 .. n
  BY <1>1, <1>3, <1>4
<1>6. InLoop(c, b, k - 1, Turns(c)[k - 1])
  BY <1>2, <1>5
<1>7. Turns(c)[k] = Turn(Turns(c)[k - 1], c.unsent[k])
  BY <1>1, <1>5, TurnsFacts
<1> QED
  BY <1>3, <1>5, <1>6, <1>7, TurnKeeps

(* A connection between two steps.                                         *)
Settled(c) == /\ Ready(c)
              /\ c.unsent = <<>> => c.unsent_oversize = 0

(* What tcp_output does not change, and how far it gets.                   *)
Advanced(d, c) ==
  /\ d.lastack = c.lastack /\ d.snd_wnd = c.snd_wnd /\ d.snd_wl2 = c.snd_wl2
  /\ d.state = c.state /\ ReachOf(c) <= ReachOf(d)

LEMMA OutputFacts ==
  ASSUME NEW c, NEW b \in Pcb, c.unsent \in Seq(Segment), NEW m \in 0 .. Len(c.unsent),
         InLoop(c, b, m, Turns(c)[m])
  PROVE  /\ Settled(tcp_output(c).c) /\ Advanced(tcp_output(c).c, b)
         /\ OnWire(tcp_output(c).out, ReachOf(tcp_output(c).c))
<1> DEFINE a == Turns(c)[Len(c.unsent)]
           over == IF a.c.unsent = <<>> THEN 0 ELSE a.c.unsent_oversize
           pers == a.c.persist \/ Persist(a.c)
           flag == a.c.flags \ {"TF_NAGLEMEMERR"}
           d == [a.c EXCEPT !.unsent_oversize = over, !.persist = pers, !.flags = flag]
<1>1. InLoop(c, b, Len(c.unsent), a)
  BY LoopKeeps
<1>2. tcp_output(c).c = d /\ tcp_output(c).out = a.out
  BY DEF tcp_output
<1>3. /\ Ready(a.c) /\ Kept(a.c, b) /\ a.c \in Pcb
      /\ ReachOf(b) <= ReachOf(a.c) /\ OnWire(a.out, ReachOf(a.c))
  BY <1>1 DEF InLoop, Ready
<1> DEFINE e == a.c
<1> HIDE DEF a
<1>4. over \in Nat /\ pers \in BOOLEAN /\ flag \subseteq Flags
  BY <1>3, PcbFacts DEF Persist
<1>5. over <= e.unsent_oversize /\ (e.unsent = <<>> => over = 0)
  BY <1>3, PcbFacts
<1>6. /\ d = [e EXCEPT !.unsent_oversize = over, !.persist = pers, !.flags = flag]
      /\ e \in Pcb
      /\ "TF_FIN" \in flag <=> "TF_FIN" \in e.flags
      /\ "TF_INFR" \in flag <=> "TF_INFR" \in e.flags
  BY <1>3
<1> HIDE DEF over, pers, flag, d, e
<1>7. d \in Pcb
  BY <1>4, <1>6 DEF Pcb
<1>8. /\ d.unsent_oversize = over /\ d.flags = flag
      /\ d.unsent = e.unsent /\ d.unacked = e.unacked /\ d.snd_nxt = e.snd_nxt
      /\ d.lastack = e.lastack /\ d.snd_lbb = e.snd_lbb /\ d.snd_buf = e.snd_buf
      /\ d.snd_queuelen = e.snd_queuelen /\ d.snd_wnd = e.snd_wnd
      /\ d.snd_wl2 = e.snd_wl2 /\ d.ssthresh = e.ssthresh /\ d.state = e.state
  BY <1>6 DEF Pcb
<1>9. Ready(e) /\ Kept(e, b) /\ ReachOf(b) <= ReachOf(e) /\ OnWire(a.out, ReachOf(e))
  BY <1>3 DEF e
<1>10. ReachOf(d) = ReachOf(e)
  BY <1>8 DEF ReachOf
<1>11. Ready(d)
  <2>1. /\ Row(e) /\ Plain(e) /\ Books(e) /\ Spare(e) /\ Recovers(e) /\ e.state \in Active
    BY <1>9 DEF Ready
  <2>2. Edge(d) = Edge(e) /\ Right(d) = Right(e)
    BY <1>6, <1>8 DEF Edge, Right
  <2>3. Row(d)
    BY <1>8, <2>1, <2>2 DEF Row
  <2>4. Plain(d) /\ Recovers(d)
    BY <1>6, <1>8, <2>1 DEF Plain, Recovers
  <2>5. Books(d)
    BY <1>8, <2>1 DEF Books
  <2>6. Spare(d)
    <3> SUFFICES ASSUME e.unsent # <<>>
                 PROVE  over <= e.unsent[Len(e.unsent)].room
      BY <1>8 DEF Spare
    <3>1. e.unsent_oversize <= e.unsent[Len(e.unsent)].room
      BY <2>1 DEF Spare
    <3>2. e.unsent \in Seq(Segment) /\ e.unsent_oversize \in Nat
      BY <1>6, PcbFacts
    <3>3. e.unsent[Len(e.unsent)] \in Segment
      BY <3>2, QueueFacts
    <3>4. e.unsent[Len(e.unsent)].room \in Nat
      BY <3>3, SegmentFacts
    <3> QED
      BY <1>4, <1>5, <3>1, <3>2, <3>4
  <2> QED
    BY <1>7, <1>8, <2>1, <2>3, <2>4, <2>5, <2>6 DEF Ready
<1>12. Settled(d)
  BY <1>5, <1>8, <1>11 DEF Settled
<1>13. Advanced(d, b)
  BY <1>8, <1>9, <1>10 DEF Advanced, Kept
<1>14. OnWire(a.out, ReachOf(d))
  BY <1>9, <1>10
<1> QED
  BY <1>2, <1>12, <1>13, <1>14

(* A step that leaves the queues alone.                                    *)
Same(d, c) ==
  /\ d.unsent = c.unsent /\ d.unacked = c.unacked /\ d.snd_nxt = c.snd_nxt
  /\ d.lastack = c.lastack /\ d.snd_lbb = c.snd_lbb /\ d.snd_buf = c.snd_buf
  /\ d.snd_queuelen = c.snd_queuelen /\ d.unsent_oversize = c.unsent_oversize
  /\ c.snd_wnd <= d.snd_wnd \/ c.unacked = <<>>
  /\ "TF_FIN" \in d.flags <=> "TF_FIN" \in c.flags
  /\ d.state \in Active /\ (d.state \in Open <=> c.state \in Open)
  /\ Recovers(d)

(* A wider window.                                                         *)
LEMMA WiderLine ==
  ASSUME NEW u \in Seq(Segment), NEW t \in Seq(Segment), NEW last \in Nat,
         NEW nxt \in Nat, NEW edge \in Nat, NEW right \in Nat, NEW wider \in Nat,
         Line(u, t, last, nxt, edge, right), right <= wider \/ u = <<>>
  PROVE  Line(u, t, last, nxt, edge, wider)
<1>1. Sent(u, nxt, right)
  BY DEF Line
<1>2. Sent(u, nxt, wider)
  <2> SUFFICES ASSUME NEW i \in 1 .. Len(u)
               PROVE  End(u[i]) <= nxt /\ u[i].seqno + Len(u[i].p) <= wider
    BY DEF Sent
  <2>1. End(u[i]) <= nxt /\ u[i].seqno + Len(u[i].p) <= right
    BY <1>1 DEF Sent
  <2>2. u[i].seqno \in Nat /\ Len(u[i].p) \in Nat /\ Len(u) \in Nat
    BY QueueFacts
  <2>3. u # <<>>
    <3>1. Len(u) > 0
      BY <2>2
    <3> QED
      BY <3>1, QueueFacts
  <2> QED
    BY <2>1, <2>2, <2>3
<1> QED
  BY <1>2 DEF Line

LEMMA SameReady ==
  ASSUME NEW c, NEW d \in Pcb, Ready(c), Same(d, c)
  PROVE  Ready(d) /\ ReachOf(d) = ReachOf(c)
<1>1. /\ c \in Pcb /\ Row(c) /\ Plain(c) /\ Books(c) /\ Spare(c) /\ Recovers(c)
  BY DEF Ready
<1>2. /\ c.unsent \in Seq(Segment) /\ c.unacked \in Seq(Segment) /\ c.snd_nxt \in Nat
      /\ c.lastack \in Nat /\ Edge(c) \in Nat /\ Right(c) \in Nat /\ Right(d) \in Nat
      /\ c.snd_wnd \in 0 .. PeerBuf /\ d.snd_wnd \in 0 .. PeerBuf
  BY <1>1, PcbFacts, EdgeFacts
<1>3. Edge(d) = Edge(c)
  BY DEF Edge, Same
<1>4. Right(c) <= Right(d) \/ c.unacked = <<>>
  BY <1>2, SizeAssumption DEF Right, Same
<1>5. Line(c.unacked, c.unsent, c.lastack, c.snd_nxt, Edge(c), Right(d))
  BY <1>1, <1>2, <1>4, WiderLine DEF Row
<1>6. Row(d)
  BY <1>3, <1>5 DEF Row, Same
<1>7. Plain(d)
  BY <1>1 DEF Plain, Same
<1>8. Books(d)
  BY <1>1 DEF Books, Same
<1>9. Spare(d)
  BY <1>1 DEF Spare, Same
<1>10. Ready(d)
  BY <1>6, <1>7, <1>8, <1>9 DEF Ready, Same
<1>11. ReachOf(d) = ReachOf(c)
  BY DEF ReachOf, Same
<1> QED
  BY <1>10, <1>11

(* What a step hands to tcp_output, and what comes of it: d afterwards,    *)
(* out on the wire, b what c stands for.                                   *)
Leaves(c, b) ==
  /\ Settled(tcp_output(c).c) /\ Advanced(tcp_output(c).c, b)
  /\ OnWire(tcp_output(c).out, ReachOf(tcp_output(c).c))

(* tcp_output for a connection whose queues are in line.                   *)
LEMMA OutputReady ==
  ASSUME NEW c, Ready(c)
  PROVE  Leaves(c, c)
<1>1. c \in Pcb /\ c.unsent \in Seq(Segment) /\ Len(c.unsent) \in Nat
  BY PcbFacts, QueueFacts DEF Ready
<1>2. 0 \in 0 .. Len(c.unsent)
  BY <1>1
<1>3. Turns(c)[0] = Start(c)
  BY <1>1, TurnsFacts
<1> DEFINE a == Start(c)
<1>4. a.more = TRUE /\ a.c = c /\ a.out = {}
      /\ a \in [more : BOOLEAN, c : Pcb, out : SUBSET Wire]
  BY <1>1 DEF Start
<1> HIDE DEF a
<1>5. ReachOf(c) \in Nat
  BY <1>1, ReachOfType
<1>6. c.unsent = SubSeq(c.unsent, 0 + 1, Len(c.unsent))
  <2>1. SubSeq(c.unsent, 1, Len(c.unsent)) = c.unsent
    BY <1>1, SubSeqFull
  <2> QED
    BY <2>1
<1>7. Kept(c, c)
  BY DEF Kept
<1>8. OnWire({}, ReachOf(c)) /\ ReachOf(c) <= ReachOf(c)
  BY <1>5 DEF OnWire
<1>9. InLoop(c, c, 0, a)
  BY <1>4, <1>6, <1>7, <1>8 DEF InLoop
<1>10. InLoop(c, c, 0, Turns(c)[0])
  BY <1>3, <1>9 DEF a
<1> QED
  BY <1>1, <1>2, <1>10, OutputFacts DEF Leaves

(* The first unacked segment, put back to unsent, is sent before anything  *)
(* else and is then where it was: the turn undoes tcp_rexmit.              *)
Resends(c, e) ==
  c = [e EXCEPT !.unacked = Tail(@), !.unsent = Sorted(@, Head(e.unacked))]

LEMMA FirstAgain ==
  ASSUME NEW u \in Seq(Segment), NEW t \in Seq(Segment), u # <<>>,
         Chain(u), Chain(t), Linked(u, t)
  PROVE  Sorted(t, u[1]) = <<u[1]>> \o t
<1>1. /\ u[1] \in Segment /\ u[1].seqno \in Nat
      /\ 1 \in 1 .. Len(u) /\ Len(t) \in Nat
  BY QueueFacts
<1>2. ASSUME NEW i \in 1 .. Len(t)
      PROVE  ~(t[i].seqno < u[1].seqno)
  <2>1. Len(t) > 0
    BY <1>1
  <2>2. t # <<>>
    BY <2>1, QueueFacts
  <2>3. u[1].seqno < t[1].seqno
    BY <1>1, <2>2, Before
  <2>4. 1 \in 1 .. Len(t) /\ (i = 1 \/ 1 < i)
    BY <1>1
  <2>5. /\ t[1].seqno \in Nat /\ t[i].seqno \in Nat /\ End(t[1]) \in Nat
        /\ t[1].seqno < End(t[1])
    BY <2>4, QueueFacts
  <2>6. 1 < i => End(t[1]) <= t[i].seqno
    BY <2>4 DEF Chain
  <2>7. CASE i = 1
    BY <1>1, <2>3, <2>5, <2>7
  <2>8. CASE 1 < i
    BY <1>1, <2>3, <2>5, <2>6, <2>8
  <2> QED
    BY <2>4, <2>7, <2>8
<1> QED
  BY <1>1, <1>2, SortedFirst

LEMMA OutputAgain ==
  ASSUME NEW c, NEW e, Ready(e), e.unacked # <<>>, "TF_INFR" \in e.flags,
         e.rtime = TRUE, Resends(c, e)
  PROVE  Leaves(c, e)
<1> DEFINE u == e.unacked
           t == e.unsent
           s == u[1]
           w == [seqno |-> s.seqno, p |-> s.p, fin |-> s.fin]
           a == [more |-> TRUE, c |-> e, out |-> {w}]
<1>1. /\ e \in Pcb /\ e.state \in Active /\ Row(e)
  BY DEF Ready
<1>2. /\ t \in Seq(Segment) /\ u \in Seq(Segment) /\ e.snd_nxt \in Nat
      /\ e.lastack \in Nat /\ e.snd_wnd \in Nat /\ e.snd_wnd \in 0 .. PeerBuf
      /\ e.cwnd \in TCP_MSS .. U16 - 1 /\ e.rtime \in BOOLEAN
  BY <1>1, PcbFacts, SizeAssumption
<1>3. /\ s \in Segment /\ 1 \in 1 .. Len(u) /\ Head(u) = s
      /\ Tail(u) \in Seq(Segment)
  BY <1>2, QueueFacts, TailFacts
<1>4. /\ Chain(u) /\ Chain(t) /\ Linked(u, t)
      /\ Holds(u, e.lastack) /\ Sent(u, e.snd_nxt, Right(e))
  BY <1>1 DEF Row, Line, Starts
<1>5. Sorted(t, s) = <<s>> \o t
  BY <1>2, <1>4, FirstAgain
<1>6. /\ c = [e EXCEPT !.unacked = Tail(u), !.unsent = <<s>> \o t]
  BY <1>3, <1>5 DEF Resends
<1>7. /\ <<s>> \o t \in Seq(Segment) /\ Len(<<s>> \o t) = 1 + Len(t)
      /\ (<<s>> \o t)[1] = s /\ Len(t) \in Nat
  <2>1. <<s>> \in Seq(Segment) /\ Len(<<s>>) = 1 /\ <<s>>[1] = s /\ 1 \in 1 .. 1
    BY <1>3, OneFacts
  <2> QED
    BY <1>2, <2>1, JoinFacts, QueueFacts
<1>8. Tail(<<s>> \o t) = t
  <2> DEFINE q == <<s>> \o t
  <2>1. q \in Seq(Segment) /\ Len(q) = 1 + Len(t) /\ Len(t) \in Nat
    BY <1>7
  <2>2. \A i \in 1 .. Len(t) : q[1 + i] = t[i]
    <3>1. <<s>> \in Seq(Segment) /\ Len(<<s>>) = 1
      BY <1>3, OneFacts
    <3> QED
      BY <1>2, <3>1, JoinFacts
  <2> HIDE DEF q
  <2>3. Len(q) > 0
    BY <2>1
  <2>4. q # <<>>
    BY <2>1, <2>3, QueueFacts
  <2>5. /\ Tail(q) \in Seq(Segment) /\ Len(Tail(q)) = Len(q) - 1
        /\ \A i \in 1 .. Len(q) - 1 : Tail(q)[i] = q[i + 1]
    BY <2>1, <2>4, TailFacts
  <2>6. Len(Tail(q)) = Len(t)
    BY <2>1, <2>5
  <2>7. \A i \in 1 .. Len(Tail(q)) : Tail(q)[i] = t[i]
    <3> SUFFICES ASSUME NEW i \in 1 .. Len(Tail(q))
                 PROVE  Tail(q)[i] = t[i]
      OBVIOUS
    <3>1. i \in 1 .. Len(t) /\ i \in 1 .. Len(q) - 1 /\ i + 1 = 1 + i
      BY <2>1, <2>5
    <3> QED
      BY <2>2, <2>5, <3>1
  <2>8. Tail(q) = t
    BY <1>2, <2>5, <2>6, <2>7, SameQueue
  <2> QED
    BY <2>8 DEF q
<1> DEFINE q == <<s>> \o t
           v == Tail(u)
<1>9. Sorted(v, s) = u
  BY <1>2, <1>4, SortedBack
<1>10. /\ q \in Seq(Segment) /\ Len(q) = 1 + Len(t) /\ q[1] = s /\ Len(t) \in Nat
       /\ Tail(q) = t /\ v \in Seq(Segment) /\ Sorted(v, s) = u
       /\ c = [e EXCEPT !.unacked = v, !.unsent = q]
  BY <1>3, <1>6, <1>7, <1>8, <1>9
<1>11. s.seqno \in Nat /\ Len(s.p) \in Nat /\ End(s) \in Nat /\ Len(s.p) <= TCP_MSS
  <2>1. s.room \in Nat /\ Len(s.p) + s.room <= TCP_MSS
        /\ s.seqno \in Nat /\ Len(s.p) \in Nat /\ End(s) \in Nat
    BY <1>3, SegmentFacts
  <2> QED
    BY <2>1, SizeAssumption
<1>12. /\ s.seqno <= e.lastack /\ End(s) <= e.snd_nxt
       /\ s.seqno + Len(s.p) <= e.lastack + e.snd_wnd
  BY <1>3, <1>4 DEF Holds, Sent, Right
<1> HIDE DEF u, t, q, v, s
<1>13. /\ c.unsent = q /\ c.unacked = v /\ c.snd_nxt = e.snd_nxt /\ c.rtime = e.rtime
       /\ c.lastack = e.lastack /\ c.snd_wnd = e.snd_wnd /\ c.cwnd = e.cwnd
       /\ c.flags = e.flags
  BY <1>1, <1>10 DEF Pcb
<1>14. Greater(e.snd_nxt, End(s)) = e.snd_nxt
  BY <1>2, <1>11, <1>12 DEF Greater
<1>15. tcp_output_segment(c, s) = e
  <2>1. tcp_output_segment(c, s) =
          [c EXCEPT !.unsent = t, !.unacked = u, !.snd_nxt = e.snd_nxt, !.rtime = e.rtime]
    BY <1>10, <1>13, <1>14 DEF tcp_output_segment
  <2>2. [c EXCEPT !.unsent = t, !.unacked = u, !.snd_nxt = e.snd_nxt, !.rtime = e.rtime] = e
    BY <1>1, <1>10 DEF Pcb, u, t
  <2> QED
    BY <2>1, <2>2
<1>16. Fits(c, s, Lesser(c.snd_wnd, c.cwnd))
  <2>1. /\ e.lastack \in Nat /\ e.snd_wnd \in Nat /\ e.cwnd \in Nat /\ TCP_MSS <= e.cwnd
    BY <1>2, SizeAssumption
  <2>2. s.seqno - e.lastack + Len(s.p) <= e.snd_wnd
    BY <1>11, <1>12, <2>1
  <2>3. s.seqno - e.lastack + Len(s.p) <= e.cwnd
    BY <1>11, <1>12, <2>1, SizeAssumption
  <2> QED
    BY <1>13, <2>2, <2>3 DEF Fits, Lesser
<1>17. tcp_do_output_nagle(c)
  BY <1>13 DEF tcp_do_output_nagle
<1> DEFINE b == Start(c)
<1>18. b.more = TRUE /\ b.c = c /\ b.out = {}
  BY DEF Start
<1> HIDE DEF b
<1>19. Turn(b, s) = a
  BY <1>15, <1>16, <1>17, <1>18 DEF Turn
<1>20. Turns(c)[1] = a
  <2>1. Len(c.unsent) \in Nat /\ 1 \in 1 .. Len(c.unsent)
    BY <1>10, <1>13
  <2>2. Turns(c)[1] = Turn(Turns(c)[1 - 1], c.unsent[1]) /\ Turns(c)[0] = Start(c)
    BY <2>1, TurnsFacts
  <2>3. 1 - 1 = 0
    OBVIOUS
  <2> QED
    BY <1>10, <1>13, <1>19, <2>2, <2>3 DEF b
<1>21. w \in Wire /\ End(w) = End(s)
  BY <1>3, WireFacts
<1>22. ReachOf(e) \in Nat /\ e.snd_nxt <= ReachOf(e)
  BY <1>2, ReachFacts DEF ReachOf
<1> HIDE DEF w
<1>23. OnWire({w}, ReachOf(e))
  <2>1. End(w) <= ReachOf(e)
    BY <1>2, <1>11, <1>12, <1>21, <1>22
  <2> QED
    BY <1>21, <2>1 DEF OnWire
<1>24. a \in [more : BOOLEAN, c : Pcb, out : SUBSET Wire]
       /\ a.more = TRUE /\ a.c = e /\ a.out = {w}
  BY <1>1, <1>21
<1> HIDE DEF a
<1>25. t = SubSeq(q, 1 + 1, Len(q))
  <2>1. Tail(q) = SubSeq(q, 2, Len(q))
    BY <1>10, TailIsSubSeq
  <2> QED
    BY <1>10, <2>1
<1>26. InLoop(c, e, 1, a)
  <2>1. Kept(e, e)
    BY DEF Kept
  <2>2. ReachOf(e) <= ReachOf(e)
    BY <1>22
  <2>3. a.c.unsent = SubSeq(c.unsent, 1 + 1, Len(c.unsent))
    BY <1>13, <1>24, <1>25 DEF t
  <2> QED
    BY <1>23, <1>24, <2>1, <2>2, <2>3 DEF InLoop
<1>27. c.unsent \in Seq(Segment) /\ 1 \in 0 .. Len(c.unsent)
  BY <1>10, <1>13
<1> QED
  BY <1>1, <1>20, <1>26, <1>27, OutputFacts DEF Leaves

(* tcp_output for a connection that has nothing to send.                   *)
Empty(c) == /\ c.unsent = <<>> /\ c.unacked = <<>> /\ c.unsent_oversize = 0
            /\ c.snd_buf <= TCP_SND_BUF + 1

LEMMA OutputGone ==
  ASSUME NEW c \in Pcb, Empty(c)
  PROVE  /\ tcp_output(c).c \in Pcb /\ Empty(tcp_output(c).c)
         /\ tcp_output(c).c.state = c.state /\ tcp_output(c).out = {}
<1> DEFINE a == Start(c)
           flag == c.flags \ {"TF_NAGLEMEMERR"}
           d == [c EXCEPT !.unsent_oversize = 0, !.persist = c.persist, !.flags = flag]
<1>1. Len(c.unsent) = 0 /\ Len(c.unsent) \in Nat
  BY DEF Empty
<1>2. Turns(c)[Len(c.unsent)] = a
  BY <1>1, TurnsFacts
<1>3. a.c = c /\ a.out = {}
  BY DEF Start
<1>4. Persist(c) = FALSE /\ c.unsent = <<>> /\ c.persist \in BOOLEAN
  BY PcbFacts DEF Persist, Empty
<1> HIDE DEF a
<1>5. tcp_output(c).c = d /\ tcp_output(c).out = {}
  BY <1>2, <1>3, <1>4 DEF tcp_output
<1>6. flag \subseteq Flags /\ c.persist \in BOOLEAN
  BY PcbFacts
<1> HIDE DEF flag
<1>7. d \in Pcb
  BY <1>6 DEF Pcb
<1>8. d.unsent = c.unsent /\ d.unacked = c.unacked /\ d.unsent_oversize = 0
      /\ d.state = c.state /\ d.snd_buf = c.snd_buf
  BY DEF Pcb
<1> HIDE DEF d
<1> QED
  BY <1>5, <1>7, <1>8 DEF Empty

-----------------------------------------------------------------------------
(* tcp_write                                                               *)

(* Consecutive bytes.                                                      *)
LEMMA BytesFacts ==
  ASSUME NEW a \in Nat, NEW n \in Nat
  PROVE  /\ Bytes(a, n) \in Seq(Nat) /\ Len(Bytes(a, n)) = n
         /\ \A k \in 1 .. n : Bytes(a, n)[k] = a + k - 1
<1>1. \A k \in 1 .. n : a + k - 1 \in Nat
  OBVIOUS
<1>2. Bytes(a, n) \in [1 .. n -> Nat]
  BY <1>1 DEF Bytes
<1>3. Bytes(a, n) \in Seq(Nat) /\ Len(Bytes(a, n)) = n
  BY <1>2
<1> QED
  BY <1>3 DEF Bytes

LEMMA BytesJoin ==
  ASSUME NEW a \in Nat, NEW n \in Nat, NEW k \in Nat
  PROVE  Bytes(a, n) \o Bytes(a + n, k) = Bytes(a, n + k)
<1> DEFINE x == Bytes(a, n)
           y == Bytes(a + n, k)
           z == Bytes(a, n + k)
<1>1. /\ x \in Seq(Nat) /\ Len(x) = n /\ \A i \in 1 .. n : x[i] = a + i - 1
  BY BytesFacts
<1>2. /\ y \in Seq(Nat) /\ Len(y) = k /\ \A i \in 1 .. k : y[i] = a + n + i - 1
  <2>1. a + n \in Nat
    OBVIOUS
  <2> QED
    BY <2>1, BytesFacts
<1>3. /\ z \in Seq(Nat) /\ Len(z) = n + k /\ \A i \in 1 .. n + k : z[i] = a + i - 1
  <2>1. n + k \in Nat
    OBVIOUS
  <2> QED
    BY <2>1, BytesFacts
<1> HIDE DEF x, y, z
<1>4. /\ x \o y \in Seq(Nat) /\ Len(x \o y) = n + k
      /\ \A i \in 1 .. n + k : (x \o y)[i] = IF i <= n THEN x[i] ELSE y[i - n]
  BY <1>1, <1>2, ConcatProperties
<1>5. \A i \in 1 .. n + k : (x \o y)[i] = z[i]
  <2> SUFFICES ASSUME NEW i \in 1 .. n + k
               PROVE  (x \o y)[i] = z[i]
    OBVIOUS
  <2>1. CASE i <= n
    <3>1. i \in 1 .. n
      BY <2>1
    <3> QED
      BY <1>1, <1>3, <1>4, <2>1, <3>1
  <2>2. CASE ~(i <= n)
    <3>1. i - n \in 1 .. k /\ a + n + (i - n) - 1 = a + i - 1
      BY <2>2
    <3>2. y[i - n] = a + n + (i - n) - 1
      BY <1>2, <3>1
    <3> QED
      BY <1>3, <1>4, <2>2, <3>1, <3>2
  <2> QED
    BY <2>1, <2>2
<1>6. x \o y = z
  BY <1>3, <1>4, <1>5, SeqEqual
<1> QED
  BY <1>6 DEF x, y, z

(* The last segment of a queue is replaced by one that is longer.          *)
Replaced(q, t, s) == q = Front(t) \o <<s>>

LEMMA ReplaceLast ==
  ASSUME NEW t \in Seq(Segment), t # <<>>, Chain(t), NEW s \in Segment,
         s.seqno = t[Len(t)].seqno, End(t[Len(t)]) <= End(s), NEW q,
         Replaced(q, t, s)
  PROVE  /\ q \in Seq(Segment) /\ q # <<>> /\ Len(q) = Len(t)
         /\ q[Len(q)] = s /\ \A i \in 1 .. Len(t) - 1 : q[i] = t[i]
         /\ Chain(q) /\ q[1].seqno = t[1].seqno /\ End(t[1]) <= End(q[1])
         /\ Pbufs(q) + t[Len(t)].clen = Pbufs(t) + s.clen
<1> DEFINE n == Len(t)
           f == SubSeq(t, 1, n - 1)
           l == t[n]
<1>1. n \in Nat /\ n > 0 /\ n - 1 \in Nat /\ n - 1 <= n /\ l \in Segment
      /\ 1 \in 1 .. n /\ n \in 1 .. n
  BY QueueFacts
<1>2. f \in Seq(Segment) /\ Len(f) = n - 1 /\ \A i \in 1 .. n - 1 : f[i] = t[i]
  <2>1. ASSUME NEW m \in Nat, m <= n - 1
        PROVE  /\ SubSeq(t, m + 1, n - 1) \in Seq(Segment)
               /\ Len(SubSeq(t, m + 1, n - 1)) = n - 1 - m
               /\ \A i \in 1 .. n - 1 - m : SubSeq(t, m + 1, n - 1)[i] = t[m + i]
    BY <1>1, <2>1, PartFacts
  <2>2. 0 \in Nat /\ 0 <= n - 1 /\ 0 + 1 = 1 /\ n - 1 - 0 = n - 1
        /\ \A i \in 1 .. n - 1 : 0 + i = i
    BY <1>1
  <2>3. /\ SubSeq(t, 0 + 1, n - 1) \in Seq(Segment)
        /\ Len(SubSeq(t, 0 + 1, n - 1)) = n - 1 - 0
        /\ \A i \in 1 .. n - 1 - 0 : SubSeq(t, 0 + 1, n - 1)[i] = t[0 + i]
    BY <2>1, <2>2
  <2> QED
    BY <2>2, <2>3
<1>3. q = f \o <<s>>
  BY DEF Front, Replaced
<1> HIDE DEF f
<1>4. /\ q \in Seq(Segment) /\ Len(q) = n /\ q[n] = s
      /\ \A i \in 1 .. n - 1 : q[i] = t[i]
  <2>1. <<s>> \in Seq(Segment) /\ Len(<<s>>) = 1 /\ <<s>>[1] = s /\ 1 \in 1 .. 1
    BY OneFacts
  <2> DEFINE r == f \o <<s>>
  <2>2. /\ r \in Seq(Segment) /\ Len(r) = n - 1 + 1
        /\ \A i \in 1 .. n - 1 : r[i] = f[i]
        /\ r[n - 1 + 1] = s
    BY <1>2, <2>1, JoinFacts
  <2>3. n - 1 + 1 = n /\ q = r
    BY <1>1, <1>3
  <2> HIDE DEF r
  <2> QED
    BY <1>2, <2>2, <2>3
<1>5. q # <<>>
  BY <1>1, <1>4, QueueFacts
<1>6. \A i \in 1 .. n : q[i].seqno = t[i].seqno /\ End(t[i]) <= End(q[i])
  <2> SUFFICES ASSUME NEW i \in 1 .. n
               PROVE  q[i].seqno = t[i].seqno /\ End(t[i]) <= End(q[i])
    OBVIOUS
  <2>1. CASE i = n
    BY <1>4, <2>1
  <2>2. CASE i # n
    <3>1. i \in 1 .. n - 1
      BY <1>1, <2>2
    <3>2. End(t[i]) \in Nat
      BY QueueFacts
    <3> QED
      BY <1>4, <3>1, <3>2
  <2> QED
    BY <2>1, <2>2
<1>7. Chain(q)
  <2>1. ASSUME NEW i \in 1 .. n - 1
        PROVE  q[i + 1].seqno = End(q[i])
    <3>1. i + 1 \in 1 .. n
      BY <1>1
    <3> QED
      BY <1>4, <1>6, <3>1 DEF Chain
  <2>2. ASSUME NEW i \in 1 .. n, NEW j \in 1 .. n, i < j
        PROVE  End(q[i]) <= q[j].seqno
    <3>1. i \in 1 .. n - 1
      BY <1>1, <2>2
    <3>2. End(t[i]) <= t[j].seqno
      BY <2>2 DEF Chain
    <3> QED
      BY <1>4, <1>6, <3>1, <3>2
  <2>3. ASSUME NEW i \in 1 .. n, q[i].fin = TRUE
        PROVE  i = n
    <3> SUFFICES ASSUME i # n
                 PROVE  FALSE
      OBVIOUS
    <3>1. i \in 1 .. n - 1
      BY <1>1
    <3> QED
      BY <1>4, <2>3, <3>1 DEF Chain
  <2> QED
    BY <1>4, <2>1, <2>2, <2>3 DEF Chain
<1>8. Pbufs(q) = Pbufs(f) + s.clen /\ Pbufs(f) \in Nat
  <2>1. Pbufs(f \o <<s>>) = Pbufs(f) + Pbufs(<<s>>)
    BY <1>2, OneFacts, PbufsJoin
  <2> QED
    BY <1>2, <1>3, <2>1, PbufsOne, PbufsType
<1>9. Pbufs(t) = Pbufs(f) + l.clen
  <2> DEFINE r == f \o <<l>>
  <2>1. <<l>> \in Seq(Segment) /\ Len(<<l>>) = 1 /\ <<l>>[1] = l /\ 1 \in 1 .. 1
    BY <1>1, OneFacts
  <2>2. /\ r \in Seq(Segment) /\ Len(r) = n - 1 + 1
        /\ \A i \in 1 .. n - 1 : r[i] = f[i]
        /\ r[n - 1 + 1] = l
    BY <1>2, <2>1, JoinFacts
  <2> HIDE DEF r
  <2>3. n - 1 + 1 = n
    BY <1>1
  <2>4. \A i \in 1 .. n : r[i] = t[i]
    <3>1. \A i \in 1 .. n : i = n \/ i \in 1 .. n - 1
      BY <1>1
    <3> QED
      BY <1>2, <2>2, <2>3, <3>1
  <2>5. r = t
    BY <2>2, <2>3, <2>4, SameQueue
  <2>6. Pbufs(r) = Pbufs(f) + Pbufs(<<l>>)
    BY <1>2, <2>1, PbufsJoin DEF r
  <2> QED
    BY <1>1, <2>5, <2>6, PbufsOne
<1>10. s.clen \in Nat /\ l.clen \in Nat
  BY <1>1, SegmentFacts
<1> QED
  BY <1>1, <1>4, <1>5, <1>6, <1>7, <1>8, <1>9, <1>10

(* Multiples of a number.                                                  *)
LEMMA Multiples ==
  ASSUME NEW i \in Nat, NEW j \in Nat, NEW m \in Nat, i <= j
  PROVE  i * m \in Nat /\ j * m \in Nat /\ i * m <= j * m /\ (i + 1) * m = i * m + m
<1>1. i * m \in Nat /\ j * m \in Nat /\ (j - i) * m \in Nat
  OBVIOUS
<1>2. j * m = i * m + (j - i) * m
  OBVIOUS
<1>3. (i + 1) * m = i * m + m
  OBVIOUS
<1> QED
  BY <1>1, <1>2, <1>3

(* How many pieces of at most m bytes r bytes are.                         *)
Count(n, r, m) == n = (r + m - 1) \div m

LEMMA PieceCount ==
  ASSUME NEW r \in Nat, NEW m \in Nat \ {0}, NEW n, Count(n, r, m)
  PROVE  /\ n \in Nat /\ r <= n * m
         /\ \A i \in 1 .. n : /\ (i - 1) * m \in Nat /\ (i - 1) * m < r
                              /\ i < n => i * m < r
                              /\ i * m = (i - 1) * m + m
         /\ r = 0 => n = 0
         /\ r > 0 => n > 0
<1>1. n \in Nat /\ n * m \in Nat /\ n * m <= r + m - 1 /\ r + m - 1 < n * m + m
  <2>1. n \in Int /\ n * m <= r + m - 1 /\ r + m - 1 < n * m + m
    BY DEF Count
  <2>2. n \in Nat
    <3> SUFFICES ASSUME n <= 0 - 1
                 PROVE  FALSE
      BY <2>1
    <3>1. n * m <= 0 - m
      BY <2>1
    <3> QED
      BY <2>1, <3>1
  <2> QED
    BY <2>1, <2>2
<1>2. ASSUME NEW i \in 1 .. n
      PROVE  /\ (i - 1) * m \in Nat /\ (i - 1) * m < r
             /\ i < n => i * m < r
             /\ i * m = (i - 1) * m + m
  <2>1. i - 1 \in Nat /\ n - 1 \in Nat /\ i - 1 <= n - 1 /\ i \in Nat /\ n \in Nat /\ i <= n
    BY <1>1
  <2>2. /\ (i - 1) * m \in Nat /\ (n - 1) * m \in Nat /\ (i - 1) * m <= (n - 1) * m
        /\ ((i - 1) + 1) * m = (i - 1) * m + m
    BY <2>1, Multiples
  <2>3. ((n - 1) + 1) * m = (n - 1) * m + m
    <3>1. n - 1 <= n - 1
      BY <2>1
    <3> QED
      BY <2>1, <3>1, Multiples
  <2>4. (i - 1) + 1 = i /\ (n - 1) + 1 = n
    BY <2>1
  <2>5. i * m = (i - 1) * m + m /\ n * m = (n - 1) * m + m
    BY <2>2, <2>3, <2>4
  <2>6. (n - 1) * m < r
    BY <1>1, <2>2, <2>5
  <2>7. i < n => i * m < r
    <3> SUFFICES ASSUME i < n
                 PROVE  i * m < r
      OBVIOUS
    <3>1. i <= n - 1
      BY <2>1
    <3>2. i * m \in Nat /\ i * m <= (n - 1) * m
      BY <2>1, <3>1, Multiples
    <3> QED
      BY <2>2, <2>6, <3>2
  <2> QED
    BY <2>2, <2>5, <2>6, <2>7
<1>3. r <= n * m
  BY <1>1
<1>4. r = 0 => n = 0
  <2> SUFFICES ASSUME r = 0, n # 0
               PROVE  FALSE
    OBVIOUS
  <2>1. 1 \in 1 .. n
    BY <1>1
  <2>2. (1 - 1) * m \in Nat /\ (1 - 1) * m < r
    BY <1>2, <2>1
  <2> QED
    BY <2>2
<1>5. r > 0 => n > 0
  BY <1>1
<1> QED
  BY <1>1, <1>2, <1>3, <1>4, <1>5

(* Segments with the bytes up to to, from from on.                         *)
Pieces(q, from, to) ==
  /\ q \in Seq(Segment) /\ Chain(q) /\ NoFin(q)
  /\ from < to => q # <<>>
  /\ from = to => q = <<>>
  /\ q # <<>> => q[1].seqno = from /\ End(q[Len(q)]) = to

(* A new segment with n bytes.                                             *)
IsPlain(s, a, n, k, room) ==
  s = [seqno |-> a, p |-> Bytes(a, n), fin |-> FALSE, clen |-> k, room |-> room]

LEMMA PlainSegment ==
  ASSUME NEW a \in Nat, NEW n \in 1 .. TCP_MSS, NEW k \in Nat, NEW room \in Nat,
         n + room <= TCP_MSS, NEW s, IsPlain(s, a, n, k, room)
  PROVE  s \in Segment
<1>1. n \in Nat /\ n > 0
  BY SizeAssumption
<1>2. Bytes(a, n) \in Seq(Nat) /\ Len(Bytes(a, n)) = n
  BY <1>1, BytesFacts
<1> DEFINE b == Bytes(a, n)
<1>3. b \in Seq(Nat) /\ Len(b) = n
  BY <1>2
<1>4. s = [seqno |-> a, p |-> b, fin |-> FALSE, clen |-> k, room |-> room]
  BY DEF IsPlain
<1> HIDE DEF b
<1>5. /\ s.seqno = a /\ s.p = b /\ s.fin = FALSE /\ s.clen = k /\ s.room = room
      /\ s \in [seqno : Nat, p : Seq(Nat), fin : BOOLEAN, clen : Nat, room : Nat]
  BY <1>3, <1>4
<1>6. TCP_TCPLEN(s) = n
  BY <1>1, <1>3, <1>5 DEF TCP_TCPLEN
<1>7. s.p = Bytes(s.seqno, Len(s.p))
  BY <1>3, <1>5 DEF b
<1> QED
  BY <1>1, <1>3, <1>5, <1>6, <1>7 DEF Segment

(* Phase 3 of tcp_write.                                                   *)
LEMMA NewFacts ==
  ASSUME NEW c \in Pcb, NEW len \in Nat, NEW copy, NEW more, NEW pos \in 0 .. len,
         pos = Used(c, len) + Cat(c, len)
  PROVE  Pieces(NewSegments(c, len, copy, more), c.snd_lbb + pos, c.snd_lbb + len)
<1> DEFINE m == TCP_MSS
           r == len - pos
           n == (r + m - 1) \div m
           off(i) == (i - 1) * m
           size(i) == Lesser(m, r - off(i))
           start(i) == c.snd_lbb + pos + off(i)
           room(i) == IF copy THEN tcp_pbuf_prealloc(c, size(i), m, more, i = 1) ELSE 0
           clen == IF copy THEN 1 ELSE 2
           seg(i) == [seqno |-> start(i), p |-> Bytes(start(i), size(i)), fin |-> FALSE,
                      clen |-> clen, room |-> room(i)]
           q == NewSegments(c, len, copy, more)
           from == c.snd_lbb + pos
           to == c.snd_lbb + len
<1>1. c.snd_lbb \in Nat /\ m \in Nat \ {0} /\ r \in Nat /\ m \in Nat /\ clen \in Nat
      /\ from \in Nat /\ to \in Nat /\ to = from + r
  <2>1. c.snd_lbb \in Nat /\ m \in Nat \ {0}
    BY PcbFacts, SizeAssumption
  <2>2. clen \in Nat
    OBVIOUS
  <2> QED
    BY <2>1, <2>2
<1>16. Count(n, r, m)
  BY DEF Count
<1> HIDE DEF n, r, m
<1>2. /\ n \in Nat /\ r <= n * m /\ (r = 0 => n = 0) /\ (r > 0 => n > 0)
  BY <1>1, <1>16, PieceCount
<1>3. \A i \in 1 .. n : /\ off(i) \in Nat /\ off(i) < r
                        /\ i < n => i * m < r
                        /\ i * m = off(i) + m
  BY <1>1, <1>16, PieceCount
<1>4. q = [i \in 1 .. n |-> seg(i)]
  <2>1. \A i \in 1 .. n : c.snd_lbb + (pos + off(i)) = start(i)
    BY <1>1, <1>3
  <2>2. q = [i \in 1 .. n |->
              [seqno |-> c.snd_lbb + pos + off(i),
               p |-> Bytes(c.snd_lbb + (pos + off(i)), Lesser(m, len - pos - off(i))),
               fin |-> FALSE, clen |-> clen, room |-> room(i)]]
    BY DEF NewSegments, Data, n, r, m
  <2>3. len - pos = r
    BY DEF r
  <2> HIDE DEF off, q, room, clen, m
  <2> QED
    BY <2>1, <2>2, <2>3
<1> HIDE DEF off, q, clen
<1>5. ASSUME NEW i \in 1 .. n
      PROVE  /\ size(i) \in 1 .. m /\ size(i) \in Nat
             /\ i < n => size(i) = m
             /\ i = n => off(i) + size(i) = r
             /\ start(i) \in Nat /\ room(i) \in Nat /\ size(i) + room(i) <= m
  <2>1. off(i) \in Nat /\ off(i) < r /\ (i < n => off(i) + m < r)
    BY <1>3
  <2>2. i = n => r <= off(i) + m
    <3> SUFFICES ASSUME i = n
                 PROVE  r <= off(i) + m
      OBVIOUS
    <3>1. i * m = off(i) + m /\ i * m = n * m
      BY <1>3
    <3> QED
      BY <1>2, <3>1
  <2>3. size(i) = IF m < r - off(i) THEN m ELSE r - off(i)
    BY DEF Lesser
  <2> HIDE DEF size
  <2>4. size(i) \in Nat /\ size(i) > 0 /\ size(i) <= m
    BY <1>1, <2>1, <2>3
  <2>5. i < n => size(i) = m
    BY <1>1, <2>1, <2>3
  <2>6. i = n => off(i) + size(i) = r
    BY <1>1, <2>1, <2>2, <2>3
  <2>7. start(i) \in Nat
    BY <1>1, <2>1
  <2>8. room(i) = 0 \/ room(i) = m - size(i)
    BY DEF tcp_pbuf_prealloc
  <2> HIDE DEF room
  <2>9. room(i) \in Nat /\ size(i) + room(i) <= m
    BY <1>1, <2>4, <2>8
  <2> QED
    BY <1>1, <2>4, <2>5, <2>6, <2>7, <2>9
<1>6. ASSUME NEW i \in 1 .. n
      PROVE  /\ seg(i) \in Segment /\ seg(i).seqno = start(i)
             /\ End(seg(i)) = start(i) + size(i) /\ seg(i).fin = FALSE
  <2>1. /\ size(i) \in 1 .. TCP_MSS /\ start(i) \in Nat /\ room(i) \in Nat
        /\ size(i) + room(i) <= TCP_MSS
    BY <1>5 DEF m
  <2> DEFINE a == start(i)
             z == size(i)
             o == room(i)
             s == seg(i)
  <2>2. IsPlain(s, a, z, clen, o)
    BY DEF IsPlain
  <2>3. z \in 1 .. TCP_MSS /\ a \in Nat /\ o \in Nat /\ z + o <= TCP_MSS /\ clen \in Nat
    BY <1>1, <2>1
  <2> HIDE DEF a, z, o, s
  <2>4. s \in Segment
    BY ONLY <2>2, <2>3, PlainSegment
  <2>5. s.seqno = a /\ s.fin = FALSE /\ s.p = Bytes(a, z)
    BY <2>2 DEF IsPlain
  <2>6. End(s) = a + z
    <3>1. z \in Nat
      BY <2>3, SizeAssumption
    <3>2. Len(s.p) = z
      BY <2>3, <2>5, <3>1, BytesFacts
    <3> QED
      BY <2>4, <2>5, <3>2, SegmentFacts
  <2> QED
    BY <2>4, <2>5, <2>6 DEF a, z, s
<1> HIDE DEF seg, size, room
<1>7. q \in Seq(Segment) /\ Len(q) = n
  <2>1. q \in [1 .. n -> Segment]
    BY <1>4, <1>6
  <2> QED
    BY <1>2, <2>1
<1>8. \A i \in 1 .. n : q[i] = seg(i)
  BY <1>4
<1>9. \A i \in 1 .. n : /\ q[i].seqno = from + off(i) /\ q[i].fin = FALSE
                        /\ End(q[i]) = from + off(i) + size(i)
  BY <1>6, <1>8
<1>10. ASSUME NEW i \in 1 .. n, NEW j \in 1 .. n, i < j
       PROVE  End(q[i]) <= q[j].seqno /\ (j = i + 1 => q[j].seqno = End(q[i]))
  <2>1. i < n /\ i \in Nat /\ j - 1 \in Nat /\ i <= j - 1
    BY <1>2, <1>10
  <2>2. End(q[i]) = from + off(i) + m /\ i * m = off(i) + m /\ off(i) \in Nat
    BY <1>3, <1>5, <1>9, <2>1
  <2>3. off(j) \in Nat /\ q[j].seqno = from + off(j) /\ off(j) = (j - 1) * m
    BY <1>3, <1>9 DEF off
  <2>4. i * m <= (j - 1) * m
    BY <1>1, <2>1, Multiples
  <2>5. End(q[i]) <= q[j].seqno
    BY <1>1, <2>2, <2>3, <2>4
  <2>6. j = i + 1 => q[j].seqno = End(q[i])
    <3> SUFFICES ASSUME j = i + 1
                 PROVE  q[j].seqno = End(q[i])
      OBVIOUS
    <3>1. j - 1 = i
      BY <2>1
    <3> QED
      BY <1>1, <2>2, <2>3, <3>1
  <2> QED
    BY <2>5, <2>6
<1>11. Chain(q)
  <2>1. ASSUME NEW i \in 1 .. n - 1
        PROVE  q[i + 1].seqno = End(q[i])
    <3>1. i \in 1 .. n /\ i + 1 \in 1 .. n /\ i < i + 1
      BY <1>2
    <3> QED
      BY <1>10, <3>1
  <2>2. \A i \in 1 .. n : q[i].fin = TRUE => i = n
    BY <1>9
  <2> QED
    BY <1>7, <1>10, <2>1, <2>2 DEF Chain
<1>12. NoFin(q)
  BY <1>7, <1>9 DEF NoFin
<1>13. from < to => q # <<>>
  <2> SUFFICES ASSUME from < to
               PROVE  q # <<>>
    OBVIOUS
  <2>1. n > 0
    BY <1>1, <1>2
  <2> QED
    BY <1>7, <2>1, QueueFacts
<1>14. from = to => q = <<>>
  <2> SUFFICES ASSUME from = to
               PROVE  q = <<>>
    OBVIOUS
  <2>1. n = 0
    BY <1>1, <1>2
  <2> QED
    BY <1>7, <2>1, QueueFacts
<1>15. q # <<>> => q[1].seqno = from /\ End(q[Len(q)]) = to
  <2> SUFFICES ASSUME q # <<>>
               PROVE  q[1].seqno = from /\ End(q[Len(q)]) = to
    OBVIOUS
  <2>1. 1 \in 1 .. n /\ n \in 1 .. n
    BY <1>7, QueueFacts
  <2>2. off(1) = 0
    <3>1. (1 - 1) * m = 0
      BY <1>1
    <3> QED
      BY <3>1 DEF off
  <2>3. q[1].seqno = from
    BY <1>1, <1>9, <2>1, <2>2
  <2>4. End(q[n]) = from + off(n) + size(n) /\ off(n) + size(n) = r
        /\ off(n) \in Nat /\ size(n) \in Nat
    BY <1>3, <1>5, <1>9, <2>1
  <2>5. End(q[n]) = to
    BY <1>1, <2>4
  <2> QED
    BY <1>7, <2>3, <2>5
<1> QED
  BY <1>7, <1>11, <1>12, <1>13, <1>14, <1>15 DEF Pieces, q

(* The last unsent segment while the application may write.                *)
LEMMA LastFacts ==
  ASSUME NEW c, Ready(c), c.state \in Open, c.unsent # <<>>
  PROVE  LET s == c.unsent[Len(c.unsent)]
         IN /\ s \in Segment /\ s.fin = FALSE
            /\ s.seqno \in Nat /\ Len(s.p) \in Nat /\ s.room \in Nat /\ s.clen \in Nat
            /\ s.seqno + Len(s.p) = c.snd_lbb /\ Len(s.p) > 0
            /\ Len(s.p) + s.room <= TCP_MSS
            /\ c.unsent_oversize <= s.room
            /\ End(s) = c.snd_lbb
<1> DEFINE t == c.unsent
           s == t[Len(t)]
<1>1. c \in Pcb /\ Row(c) /\ Plain(c) /\ Spare(c)
  BY DEF Ready
<1>2. t \in Seq(Segment) /\ c.snd_lbb \in Nat /\ Edge(c) = c.snd_lbb
  BY <1>1, PcbFacts, EdgeFacts
<1>3. s \in Segment /\ Len(t) \in 1 .. Len(t)
  BY <1>2, QueueFacts
<1>4. End(s) = c.snd_lbb
  BY <1>1, <1>2 DEF Row, Line, Ends
<1>5. s.fin = FALSE
  BY <1>1, <1>3 DEF Plain, NoFin
<1>6. c.unsent_oversize <= s.room
  BY <1>1 DEF Spare
<1> HIDE DEF s, t
<1>7. /\ s.seqno \in Nat /\ Len(s.p) \in Nat /\ End(s) \in Nat /\ s.room \in Nat
      /\ s.clen \in Nat /\ s.seqno < End(s) /\ Len(s.p) + s.room <= TCP_MSS
      /\ End(s) = s.seqno + Len(s.p)
  BY <1>3, <1>5, SegmentFacts
<1>8. Len(s.p) > 0
  BY <1>7
<1> QED
  BY <1>3, <1>4, <1>5, <1>6, <1>7, <1>8 DEF s, t

(* Phases 1 and 2 of tcp_write: what they take.                            *)
LEMMA UsedFacts ==
  ASSUME NEW c, Ready(c), c.state \in Open, NEW len \in Nat
  PROVE  /\ Used(c, len) \in Nat /\ Cat(c, len) \in Nat
         /\ Used(c, len) + Cat(c, len) <= len
         /\ c.unsent = <<>> => Used(c, len) = 0 /\ Cat(c, len) = 0
         /\ c.unsent # <<>> =>
              LET s == c.unsent[Len(c.unsent)]
              IN /\ Used(c, len) <= c.unsent_oversize /\ Used(c, len) <= s.room
                 /\ Len(s.p) + Used(c, len) + Cat(c, len) <= TCP_MSS
<1>1. c \in Pcb
  BY DEF Ready
<1>2. c.unsent_oversize \in Nat
  BY <1>1, PcbFacts
<1>3. CASE c.unsent = <<>>
  BY <1>3 DEF Used, Cat
<1>4. CASE c.unsent # <<>>
  <2> DEFINE s == c.unsent[Len(c.unsent)]
             o == c.unsent_oversize
             k == Len(s.p)
             used == Used(c, len)
             cat == Cat(c, len)
  <2>1. /\ k \in Nat /\ s.room \in Nat /\ k > 0 /\ k + s.room <= TCP_MSS /\ o <= s.room
    BY <1>4, LastFacts
  <2>2. used = IF o < len THEN o ELSE len
    BY <1>4 DEF Used, Lesser
  <2>3. cat = IF TCP_MSS - k - used < len - used THEN TCP_MSS - k - used ELSE len - used
    BY <1>4, <2>1 DEF Cat, Lesser, Last
  <2>4. o \in Nat
    BY <1>2
  <2> HIDE DEF used, cat, k, o
  <2>5. used \in Nat /\ used <= len /\ used <= o
    BY <2>2, <2>4
  <2>6. used <= s.room
    BY <2>1, <2>4, <2>5
  <2>7. /\ cat \in Nat /\ used + cat <= len /\ k + used + cat <= TCP_MSS
    BY <2>1, <2>3, <2>4, <2>5, <2>6, SizeAssumption
  <2> QED
    BY <1>4, <2>5, <2>6, <2>7 DEF used, cat, k, o
<1> QED
  BY <1>3, <1>4

LEMMA FilledFacts ==
  ASSUME NEW c, Ready(c), c.state \in Open, NEW len \in Nat, NEW copy, NEW more,
         c.unsent # <<>>
  PROVE  LET s == c.unsent[Len(c.unsent)]
             f == Filled(c, len, copy, more)
         IN /\ f \in Segment /\ f.seqno = s.seqno /\ f.fin = FALSE
            /\ End(f) = c.snd_lbb + Used(c, len) + Cat(c, len)
            /\ f.clen = s.clen + IF Cat(c, len) > 0 THEN 1 ELSE 0
            /\ Cat(c, len) = 0 => f.room = s.room - Used(c, len)
<1> DEFINE s == c.unsent[Len(c.unsent)]
           k == Len(s.p)
           used == Used(c, len)
           cat == Cat(c, len)
           space == TCP_MSS - k - used
           f == Filled(c, len, copy, more)
           grow == IF cat > 0 THEN 1 ELSE 0
           room == IF cat = 0 THEN s.room - used
                   ELSE IF copy THEN tcp_pbuf_prealloc(c, cat, space, more, TRUE) ELSE 0
           b == s.p \o Data(c, 0, used + cat)
<1>1. c \in Pcb /\ c.snd_lbb \in Nat
  BY PcbFacts DEF Ready
<1>2. /\ s \in Segment /\ s.fin = FALSE
      /\ s.seqno \in Nat /\ k \in Nat /\ s.room \in Nat /\ s.clen \in Nat
      /\ s.seqno + k = c.snd_lbb /\ k > 0 /\ k + s.room <= TCP_MSS
  BY LastFacts
<1>3. /\ used \in Nat /\ cat \in Nat /\ used <= s.room /\ k + used + cat <= TCP_MSS
  BY UsedFacts
<1>4. f = [s EXCEPT !.p = b, !.clen = s.clen + grow, !.room = room]
  BY DEF Filled, Last
<1>5. b = Bytes(s.seqno, k + (used + cat))
  <2>1. s.p = Bytes(s.seqno, k)
    BY <1>2, SegmentFacts
  <2>2. Data(c, 0, used + cat) = Bytes(s.seqno + k, used + cat)
    <3>1. c.snd_lbb + 0 = s.seqno + k
      BY <1>1, <1>2
    <3> QED
      BY <3>1 DEF Data
  <2>3. used + cat \in Nat
    BY <1>3
  <2> HIDE DEF k, used, cat
  <2>4. Bytes(s.seqno, k) \o Bytes(s.seqno + k, used + cat) = Bytes(s.seqno, k + (used + cat))
    <3> DEFINE a == s.seqno
               m == used + cat
    <3>1. a \in Nat /\ k \in Nat /\ m \in Nat
      BY <1>2, <2>3
    <3> HIDE DEF a, m
    <3>2. Bytes(a, k) \o Bytes(a + k, m) = Bytes(a, k + m)
      BY <3>1, BytesJoin
    <3> QED
      BY <3>2 DEF a, m
  <2> QED
    BY <2>1, <2>2, <2>4
<1>6. k + (used + cat) \in Nat /\ k + (used + cat) <= TCP_MSS
  BY <1>2, <1>3
<1>7. b \in Seq(Nat) /\ Len(b) = k + (used + cat)
  <2> DEFINE a == s.seqno
             n == k + (used + cat)
  <2>1. a \in Nat /\ n \in Nat /\ b = Bytes(a, n)
    BY <1>2, <1>5, <1>6
  <2> HIDE DEF a, n, b
  <2>2. b \in Seq(Nat) /\ Len(b) = n
    BY <2>1, BytesFacts
  <2> QED
    BY <2>2 DEF n
<1>8. room = s.room - used \/ room = space - cat \/ room = 0
  BY DEF tcp_pbuf_prealloc
<1>9. cat # 0 => room = space - cat \/ room = 0
  BY DEF tcp_pbuf_prealloc
<1>10. cat = 0 => room = s.room - used
  OBVIOUS
<1> HIDE DEF k, used, cat, grow, room, b, f
<1>11. room \in Nat /\ k + (used + cat) + room <= TCP_MSS
  <2>1. CASE cat = 0
    BY <1>2, <1>3, <1>10, <2>1, SizeAssumption
  <2>2. CASE cat # 0 /\ room = space - cat
    BY <1>2, <1>3, <2>2, SizeAssumption
  <2>3. CASE cat # 0 /\ room = 0
    BY <1>2, <1>3, <1>6, <2>3, SizeAssumption
  <2> QED
    BY <1>9, <2>1, <2>2, <2>3
<1>12. grow \in Nat
  BY DEF grow
<1>13. s \in [seqno : Nat, p : Seq(Nat), fin : BOOLEAN, clen : Nat, room : Nat]
  BY <1>2 DEF Segment
<1>14. s.clen + grow \in Nat
  BY <1>2, <1>12
<1>15. /\ f \in [seqno : Nat, p : Seq(Nat), fin : BOOLEAN, clen : Nat, room : Nat]
       /\ f.seqno = s.seqno /\ f.p = b /\ f.fin = s.fin /\ f.clen = s.clen + grow
       /\ f.room = room
  BY <1>4, <1>7, <1>11, <1>13, <1>14
<1>16. Len(f.p) = k + (used + cat) /\ f.fin = FALSE
  BY <1>2, <1>7, <1>15
<1>17. TCP_TCPLEN(f) = k + (used + cat)
  BY <1>6, <1>16 DEF TCP_TCPLEN
<1>18. f \in Segment
  <2>1. TCP_TCPLEN(f) > 0
    BY <1>2, <1>3, <1>17
  <2>2. f.p = Bytes(f.seqno, Len(f.p))
    BY <1>5, <1>15, <1>16
  <2>3. Len(f.p) + f.room <= TCP_MSS
    BY <1>11, <1>15, <1>16
  <2> QED
    BY <1>15, <2>1, <2>2, <2>3 DEF Segment
<1>19. End(f) = c.snd_lbb + used + cat
  <2>1. End(f) = s.seqno + (k + (used + cat))
    BY <1>15, <1>17 DEF End
  <2>2. s.seqno \in Nat /\ k \in Nat /\ s.seqno + k = c.snd_lbb
    BY <1>2
  <2> QED
    BY <1>3, <2>1, <2>2
<1> QED
  BY <1>10, <1>15, <1>16, <1>18, <1>19 DEF f, used, cat, grow, s

(* The ends of two queues that are joined.                                 *)
LEMMA JoinEnds ==
  ASSUME NEW q \in Seq(Segment), NEW r \in Seq(Segment)
  PROVE  /\ q # <<>> => q \o r # <<>> /\ (q \o r)[1] = q[1]
         /\ q = <<>> => q \o r = r
         /\ r # <<>> => /\ q \o r # <<>>
                        /\ (q \o r)[Len(q \o r)] = r[Len(r)]
         /\ r = <<>> => q \o r = q
<1> DEFINE w == q \o r
<1>1. /\ w \in Seq(Segment) /\ Len(w) = Len(q) + Len(r)
      /\ \A i \in 1 .. Len(q) : w[i] = q[i]
      /\ \A i \in 1 .. Len(r) : w[Len(q) + i] = r[i]
  BY JoinFacts
<1>2. Len(q) \in Nat /\ Len(r) \in Nat
  BY QueueFacts
<1>3. q = <<>> => w = r
  BY ConcatEmptySeq
<1>4. r = <<>> => w = q
  BY ConcatEmptySeq
<1> HIDE DEF w
<1>5. q # <<>> => w # <<>> /\ w[1] = q[1]
  <2> SUFFICES ASSUME q # <<>>
               PROVE  w # <<>> /\ w[1] = q[1]
    OBVIOUS
  <2>1. Len(q) > 0 /\ 1 \in 1 .. Len(q)
    BY QueueFacts
  <2>2. Len(w) > 0
    BY <1>1, <1>2, <2>1
  <2> QED
    BY <1>1, <2>1, <2>2, QueueFacts
<1>6. r # <<>> => w # <<>> /\ w[Len(w)] = r[Len(r)]
  <2> SUFFICES ASSUME r # <<>>
               PROVE  w # <<>> /\ w[Len(w)] = r[Len(r)]
    OBVIOUS
  <2>1. Len(r) > 0 /\ Len(r) \in 1 .. Len(r)
    BY QueueFacts
  <2>2. Len(w) > 0
    BY <1>1, <1>2, <2>1
  <2> QED
    BY <1>1, <2>1, <2>2, QueueFacts
<1> QED
  BY <1>3, <1>4, <1>5, <1>6 DEF w

LEMMA JoinNoFin ==
  ASSUME NEW q \in Seq(Segment), NEW r \in Seq(Segment), NoFin(q), NoFin(r)
  PROVE  NoFin(q \o r)
<1> DEFINE w == q \o r
<1>1. /\ w \in Seq(Segment) /\ Len(w) = Len(q) + Len(r)
      /\ \A i \in 1 .. Len(q) : w[i] = q[i]
      /\ \A i \in 1 .. Len(r) : w[Len(q) + i] = r[i]
  BY JoinFacts
<1>2. Len(q) \in Nat /\ Len(r) \in Nat
  BY QueueFacts
<1> HIDE DEF w
<1>3. ASSUME NEW i \in 1 .. Len(w)
      PROVE  w[i].fin = FALSE
  <2>1. CASE i <= Len(q)
    <3>1. i \in 1 .. Len(q)
      BY <1>1, <1>2, <2>1
    <3> QED
      BY <1>1, <3>1 DEF NoFin
  <2>2. CASE ~(i <= Len(q))
    <3>1. i - Len(q) \in 1 .. Len(r) /\ Len(q) + (i - Len(q)) = i
      BY <1>1, <1>2, <2>2
    <3>2. w[Len(q) + (i - Len(q))] = r[i - Len(q)]
      BY <1>1, <3>1
    <3> QED
      BY <3>1, <3>2 DEF NoFin
  <2> QED
    BY <2>1, <2>2
<1>4. NoFin(w)
  BY <1>3 DEF NoFin
<1> QED
  BY <1>4 DEF w

(* The unsent queue t, filled up to from: b.                               *)
Base(c, len, copy, more) ==
  IF Used(c, len) + Cat(c, len) = 0 THEN c.unsent
  ELSE Front(c.unsent) \o <<Filled(c, len, copy, more)>>
Extended(t, b, from) ==
  /\ b \in Seq(Segment) /\ Chain(b) /\ NoFin(b)
  /\ t # <<>> => /\ b # <<>> /\ b[1].seqno = t[1].seqno /\ End(t[1]) <= End(b[1])
                 /\ End(b[Len(b)]) = from
  /\ t = <<>> => b = <<>>

LEMMA BaseFacts ==
  ASSUME NEW c, Ready(c), c.state \in Open, NEW len \in Nat, NEW copy, NEW more
  PROVE  LET b == Base(c, len, copy, more)
         IN /\ Extended(c.unsent, b, c.snd_lbb + (Used(c, len) + Cat(c, len)))
            /\ Pbufs(b) = Pbufs(c.unsent) + IF Cat(c, len) > 0 THEN 1 ELSE 0
            /\ Used(c, len) + Cat(c, len) # 0 =>
                 c.unsent # <<>> /\ b[Len(b)] = Filled(c, len, copy, more)
<1> DEFINE t == c.unsent
           used == Used(c, len)
           cat == Cat(c, len)
           pos == used + cat
           f == Filled(c, len, copy, more)
           b == Base(c, len, copy, more)
           l == t[Len(t)]
<1>1. c \in Pcb /\ Row(c) /\ Plain(c)
  BY DEF Ready
<1>2. t \in Seq(Segment) /\ c.snd_lbb \in Nat /\ Pbufs(t) \in Nat
  BY <1>1, PcbFacts, PbufsType
<1>3. Chain(t) /\ NoFin(t)
  BY <1>1 DEF Row, Line, Plain
<1>4. used \in Nat /\ cat \in Nat /\ (t = <<>> => used = 0 /\ cat = 0)
  BY UsedFacts
<1>5. CASE pos = 0
  <2>1. b = t /\ cat = 0
    BY <1>4, <1>5 DEF Base
  <2>2. t # <<>> => End(l) = c.snd_lbb
    BY LastFacts
  <2>3. t # <<>> => End(t[1]) \in Nat
    BY <1>2, QueueFacts
  <2>4. c.snd_lbb + pos = c.snd_lbb
    BY <1>2, <1>5
  <2>5. Extended(t, t, c.snd_lbb)
    BY <1>2, <1>3, <2>2, <2>3 DEF Extended
  <2> QED
    BY <1>2, <1>5, <2>1, <2>4, <2>5
<1>6. CASE pos # 0
  <2>1. t # <<>>
    BY <1>4, <1>6
  <2>2. Replaced(b, t, f)
    BY <1>6 DEF Base, Replaced
  <2>3. /\ f \in Segment /\ f.seqno = l.seqno /\ f.fin = FALSE
        /\ End(f) = c.snd_lbb + used + cat
        /\ f.clen = l.clen + IF cat > 0 THEN 1 ELSE 0
    BY <2>1, FilledFacts
  <2>4. /\ End(l) = c.snd_lbb /\ l.clen \in Nat
    BY <2>1, LastFacts
  <2>5. End(f) = c.snd_lbb + pos /\ End(l) <= End(f)
    BY <1>2, <1>4, <2>3, <2>4
  <2> HIDE DEF f, b, pos, cat, used
  <2>11. f \in Segment /\ f.seqno = l.seqno
    BY <2>3
  <2>6. /\ b \in Seq(Segment) /\ b # <<>> /\ Len(b) = Len(t)
        /\ b[Len(b)] = f /\ \A i \in 1 .. Len(t) - 1 : b[i] = t[i]
        /\ Chain(b) /\ b[1].seqno = t[1].seqno /\ End(t[1]) <= End(b[1])
        /\ Pbufs(b) + l.clen = Pbufs(t) + f.clen
    BY <1>2, <1>3, <2>1, <2>2, <2>11, <2>5, ReplaceLast
  <2>7. NoFin(b)
    <3> SUFFICES ASSUME NEW i \in 1 .. Len(b)
                 PROVE  b[i].fin = FALSE
      BY DEF NoFin
    <3>1. Len(t) \in Nat
      BY <1>2, QueueFacts
    <3>2. i = Len(b) \/ i \in 1 .. Len(t) - 1
      BY <2>6, <3>1
    <3>3. CASE i = Len(b)
      BY <2>3, <2>6, <3>3
    <3>4. CASE i \in 1 .. Len(t) - 1
      <4>1. i \in 1 .. Len(t)
        BY <3>1, <3>4
      <4> QED
        BY <1>3, <2>6, <3>4, <4>1 DEF NoFin
    <3> QED
      BY <3>2, <3>3, <3>4
  <2>8. Extended(t, b, c.snd_lbb + pos)
    BY <2>1, <2>5, <2>6, <2>7 DEF Extended
  <2>9. Pbufs(b) \in Nat
    BY <2>6, PbufsType
  <2>10. Pbufs(b) = Pbufs(t) + IF cat > 0 THEN 1 ELSE 0
    BY <1>2, <2>3, <2>4, <2>6, <2>9
  <2> QED
    BY <2>1, <2>6, <2>8, <2>10 DEF f, b, pos, cat, used
<1> QED
  BY <1>5, <1>6

(* A call that finds no memory only remembers that.                        *)
LEMMA RefusedFacts ==
  ASSUME NEW c, Ready(c)
  PROVE  /\ Ready(Refused(c)) /\ Advanced(Refused(c), c) /\ ReachOf(Refused(c)) = ReachOf(c)
         /\ Refused(c).unsent = c.unsent /\ Refused(c).unsent_oversize = c.unsent_oversize
<1> DEFINE g == c.flags \cup {"TF_NAGLEMEMERR"}
           d == Refused(c)
<1>1. c \in Pcb /\ c.state \in Active /\ Recovers(c) /\ ReachOf(c) \in Nat
  BY ReachOfType DEF Ready
<1>2. d = [c EXCEPT !.flags = g]
  BY DEF Refused
<1>3. g \subseteq Flags /\ ("TF_FIN" \in g <=> "TF_FIN" \in c.flags)
      /\ ("TF_INFR" \in g <=> "TF_INFR" \in c.flags)
  BY <1>1, PcbFacts DEF Flags
<1> HIDE DEF d, g
<1>4. d \in Pcb
  BY <1>1, <1>2, <1>3 DEF Pcb
<1>5. /\ d.flags = g /\ d.unsent = c.unsent /\ d.unacked = c.unacked
      /\ d.snd_nxt = c.snd_nxt /\ d.lastack = c.lastack /\ d.snd_lbb = c.snd_lbb
      /\ d.snd_buf = c.snd_buf /\ d.snd_queuelen = c.snd_queuelen
      /\ d.unsent_oversize = c.unsent_oversize /\ d.snd_wnd = c.snd_wnd
      /\ d.snd_wl2 = c.snd_wl2 /\ d.ssthresh = c.ssthresh /\ d.state = c.state
  BY <1>1, <1>2 DEF Pcb
<1>6. c.snd_wnd <= c.snd_wnd
  BY <1>1, PcbFacts, SizeAssumption
<1>7. Same(d, c)
  BY <1>1, <1>3, <1>5, <1>6 DEF Same, Recovers
<1>8. Ready(d) /\ ReachOf(d) = ReachOf(c)
  BY <1>4, <1>7, SameReady
<1>9. Advanced(d, c)
  BY <1>1, <1>5, <1>8 DEF Advanced
<1> QED
  BY <1>5, <1>8, <1>9 DEF d

(* What tcp_write leaves alone, and what it makes of the rest.             *)
Wrote(d, c, q, over, len, grown) ==
  d = [c EXCEPT !.unsent = q, !.unsent_oversize = over, !.snd_lbb = c.snd_lbb + len,
                !.snd_buf = c.snd_buf - len, !.snd_queuelen = c.snd_queuelen + grown]

LEMMA WroteReady ==
  ASSUME NEW c, Ready(c), c.state \in Open, NEW d, NEW q, NEW over \in Nat,
         NEW len \in Nat, NEW grown \in Nat, len <= c.snd_buf,
         c.snd_queuelen + grown <= TCP_SND_QUEUELEN,
         Wrote(d, c, q, over, len, grown),
         Grown(c.unsent, q, c.snd_lbb, c.snd_lbb + len), NoFin(q),
         over <= q[Len(q)].room, Pbufs(q) = Pbufs(c.unsent) + grown
  PROVE  Ready(d) /\ Advanced(d, c)
<1>1. /\ c \in Pcb /\ c.state \in Active /\ Row(c) /\ Plain(c) /\ Books(c) /\ Recovers(c)
  BY DEF Ready
<1>2. /\ c.unsent \in Seq(Segment) /\ c.unacked \in Seq(Segment) /\ c.snd_nxt \in Nat
      /\ c.lastack \in Nat /\ c.snd_lbb \in Nat /\ c.snd_buf \in Nat
      /\ c.snd_queuelen \in Nat /\ Edge(c) = c.snd_lbb /\ Right(c) \in Nat
  BY <1>1, PcbFacts, EdgeFacts, SizeAssumption
<1>3. q \in Seq(Segment)
  BY DEF Grown
<1> DEFINE lbb == c.snd_lbb + len
           buf == c.snd_buf - len
           ql == c.snd_queuelen + grown
<1>4. lbb \in Nat /\ buf \in Nat /\ ql \in 0 .. TCP_SND_QUEUELEN
  <2>1. c.snd_lbb \in Nat /\ c.snd_buf \in Nat /\ c.snd_queuelen \in Nat
    BY <1>2
  <2>2. lbb \in Nat /\ buf \in Nat
    BY ONLY <2>1, len \in Nat, len <= c.snd_buf
  <2>3. ql \in 0 .. TCP_SND_QUEUELEN
    BY ONLY <2>1, grown \in Nat, c.snd_queuelen + grown <= TCP_SND_QUEUELEN, SizeAssumption
  <2> QED
    BY <2>2, <2>3
<1>5. d = [c EXCEPT !.unsent = q, !.unsent_oversize = over, !.snd_lbb = lbb,
                    !.snd_buf = buf, !.snd_queuelen = ql]
  BY DEF Wrote
<1> HIDE DEF lbb, buf, ql
<1>6. d \in Pcb
  BY <1>1, <1>3, <1>4, <1>5 DEF Pcb
<1>7. /\ d.unsent = q /\ d.unsent_oversize = over /\ d.snd_lbb = lbb /\ d.snd_buf = buf
      /\ d.snd_queuelen = ql /\ d.unacked = c.unacked /\ d.snd_nxt = c.snd_nxt
      /\ d.lastack = c.lastack /\ d.snd_wnd = c.snd_wnd /\ d.snd_wl2 = c.snd_wl2
      /\ d.flags = c.flags /\ d.ssthresh = c.ssthresh /\ d.state = c.state
  BY <1>1, <1>5 DEF Pcb
<1>8. Edge(d) = lbb /\ Right(d) = Right(c)
  <2>1. Edge(d) = d.snd_lbb
    BY <1>6, <1>7, EdgeFacts
  <2> QED
    BY <1>7, <2>1 DEF Right
<1>9. /\ Line(c.unacked, q, c.lastack, c.snd_nxt, lbb, Right(c))
      /\ Reach(c.unacked, c.unsent, c.snd_nxt) <= Reach(c.unacked, q, c.snd_nxt)
  <2>1. Line(c.unacked, c.unsent, c.lastack, c.snd_nxt, c.snd_lbb, Right(c))
    BY <1>1, <1>2 DEF Row
  <2>2. NoFin(c.unacked) /\ Grown(c.unsent, q, c.snd_lbb, lbb)
    BY <1>1 DEF Plain, lbb
  <2> QED
    BY <1>2, <1>4, <2>1, <2>2, GrownLine
<1>10. Row(d) /\ ReachOf(c) <= ReachOf(d)
  BY <1>7, <1>8, <1>9 DEF Row, ReachOf
<1>11. Plain(d)
  BY <1>1, <1>7 DEF Plain
<1>12. Books(d)
  <2>1. /\ c.snd_buf + c.snd_lbb - c.lastack = TCP_SND_BUF
        /\ c.snd_queuelen = Pbufs(c.unsent) + Pbufs(c.unacked)
    BY <1>1 DEF Books
  <2>2. Pbufs(c.unsent) \in Nat /\ Pbufs(c.unacked) \in Nat
    BY <1>2, PbufsType
  <2>3. buf + lbb - c.lastack = TCP_SND_BUF
    <3>1. c.snd_lbb \in Nat /\ c.snd_buf \in Nat /\ c.lastack \in Nat
      BY <1>2
    <3> QED
      BY ONLY <2>1, <3>1, len \in Nat DEF buf, lbb
  <2>4. ql = Pbufs(q) + Pbufs(c.unacked)
    BY <2>1, <2>2 DEF ql
  <2> QED
    BY <1>7, <2>3, <2>4 DEF Books
<1>13. Spare(d) /\ Recovers(d)
  BY <1>1, <1>7 DEF Spare, Recovers
<1>14. Ready(d)
  BY <1>1, <1>6, <1>7, <1>10, <1>11, <1>12, <1>13 DEF Ready
<1> QED
  BY <1>7, <1>10, <1>14 DEF Advanced

(* tcp_write keeps the queues in line.                                     *)
LEMMA WriteReady ==
  ASSUME NEW c, Ready(c), c.state \in Open, NEW len \in Nat \ {0}, len <= c.snd_buf,
         NEW copy, NEW more, NEW mem
  PROVE  /\ Ready(tcp_write(c, len, copy, more, mem))
         /\ Advanced(tcp_write(c, len, copy, more, mem), c)
<1> DEFINE used == Used(c, len)
           cat == Cat(c, len)
           pos == used + cat
           new == NewSegments(c, len, copy, more)
           last == Filled(c, len, copy, more)
           b == Base(c, len, copy, more)
           q == b \o new
           more1 == IF cat > 0 THEN 1 ELSE 0
           grown == more1 + Pbufs(new)
           over == IF new # <<>> THEN Last(new).room
                   ELSE IF cat > 0 THEN last.room
                   ELSE c.unsent_oversize - used
           L == c.snd_lbb
           t == c.unsent
           bad == \/ c.snd_queuelen >= TCP_SND_QUEUELEN
                  \/ ~mem
                  \/ new # <<>> /\ c.snd_queuelen + grown > TCP_SND_QUEUELEN
           d == [c EXCEPT !.unsent = q, !.unsent_oversize = over,
                          !.snd_lbb = L + len, !.snd_buf = c.snd_buf - len,
                          !.snd_queuelen = c.snd_queuelen + grown]
<1>1. tcp_write(c, len, copy, more, mem) = IF bad THEN Refused(c) ELSE d
  BY DEF tcp_write, Base
<1>2. CASE bad
  BY <1>1, <1>2, RefusedFacts
<1>3. CASE ~bad
  <2>1. c \in Pcb /\ len \in Nat /\ len > 0
    BY DEF Ready
  <2>2. /\ L \in Nat /\ c.snd_queuelen \in 0 .. TCP_SND_QUEUELEN
        /\ c.unsent_oversize \in Nat /\ t \in Seq(Segment)
    BY <2>1, PcbFacts
  <2>3. /\ used \in Nat /\ cat \in Nat /\ pos <= len
        /\ t = <<>> => used = 0 /\ cat = 0
        /\ t # <<>> => used <= c.unsent_oversize /\ used <= t[Len(t)].room
    BY <2>1, UsedFacts
  <2>4. pos \in 0 .. len /\ L + pos \in Nat /\ L + len \in Nat
    <3>1. used \in Nat /\ cat \in Nat /\ used + cat <= len
      BY <2>3
    <3>2. L \in Nat
      BY <2>2
    <3> HIDE DEF used, cat, L
    <3> QED
      BY <2>1, <3>1, <3>2
  <2>5. Pieces(new, L + pos, L + len)
    BY <2>1, <2>4, NewFacts
  <2>6. /\ Extended(t, b, L + pos)
        /\ Pbufs(b) = Pbufs(t) + more1
        /\ pos # 0 => t # <<>> /\ b[Len(b)] = last
    BY <2>1, BaseFacts
  <2>7. t # <<>> => /\ last \in Segment
                    /\ cat = 0 => last.room = t[Len(t)].room - used
    <3>1. ASSUME t # <<>>
          PROVE  last \in Segment /\ (cat = 0 => last.room = t[Len(t)].room - used)
      BY <2>1, <3>1, FilledFacts, ZenonT(60)
    <3> QED
      BY <3>1
  <2>8. t # <<>> => c.unsent_oversize <= t[Len(t)].room
    BY LastFacts
  <2>9. ~(c.snd_queuelen >= TCP_SND_QUEUELEN)
        /\ (new # <<>> => ~(c.snd_queuelen + grown > TCP_SND_QUEUELEN))
    BY <1>3
  <2>10. Wrote(d, c, q, over, len, grown)
    BY DEF Wrote
  <2> HIDE DEF used, cat, new, last, b, bad, d
  <2>11. /\ b \in Seq(Segment) /\ Chain(b) /\ NoFin(b)
         /\ new \in Seq(Segment) /\ Chain(new) /\ NoFin(new)
    BY <2>5, <2>6 DEF Extended, Pieces
  <2>12. q \in Seq(Segment) /\ NoFin(q)
    BY <2>11, JoinFacts, JoinNoFin
  <2>13. Linked(b, new)
    <3>1. b # <<>> => End(b[Len(b)]) = L + pos
      BY <2>6 DEF Extended
    <3>2. new # <<>> => new[1].seqno = L + pos
      BY <2>5 DEF Pieces
    <3> QED
      BY <3>1, <3>2 DEF Linked
  <2>14. Chain(q)
    BY <2>11, <2>13, JoinChain
  <2>15. /\ b # <<>> => q # <<>> /\ q[1] = b[1]
         /\ b = <<>> => q = new
         /\ new # <<>> => q # <<>> /\ q[Len(q)] = new[Len(new)]
         /\ new = <<>> => q = b
    BY <2>11, JoinEnds
  <2> HIDE DEF q
  <2>16. new = <<>> => pos = len /\ pos # 0
    <3>1. new = <<>> => ~(L + pos < L + len)
      BY <2>5 DEF Pieces
    <3> QED
      BY <2>1, <2>2, <2>3, <3>1
  <2>17. Grown(t, q, L, L + len)
    <3>1. q # <<>> /\ End(q[Len(q)]) = L + len
      <4>1. CASE new # <<>>
        BY <2>5, <2>15, <4>1 DEF Pieces
      <4>2. CASE new = <<>>
        <5>1. t # <<>> /\ pos = len
          BY <2>6, <2>16, <4>2
        <5> QED
          BY <2>6, <2>15, <4>2, <5>1 DEF Extended
      <4> QED
        BY <4>1, <4>2
    <3>2. t # <<>> => q[1].seqno = t[1].seqno /\ End(t[1]) <= End(q[1])
      BY <2>6, <2>15 DEF Extended
    <3>3. t = <<>> => q[1].seqno = L
      <4> SUFFICES ASSUME t = <<>>
                   PROVE  q[1].seqno = L
        OBVIOUS
      <4>1. b = <<>> /\ pos = 0
        BY <2>3, <2>6 DEF Extended
      <4>2. q = new /\ new # <<>>
        BY <2>15, <2>16, <4>1
      <4>3. new[1].seqno = L + pos
        BY <2>5, <4>2 DEF Pieces
      <4> QED
        BY <2>2, <4>1, <4>2, <4>3
    <3>4. L <= L + len
      BY <2>1, <2>2
    <3> QED
      BY <2>12, <2>14, <3>1, <3>2, <3>3, <3>4 DEF Grown
  <2>18. /\ Pbufs(new) \in Nat /\ Pbufs(b) \in Nat /\ Pbufs(t) \in Nat
         /\ (new = <<>> => Pbufs(new) = 0)
    BY <2>2, <2>11, PbufsType, PbufsEmpty
  <2>19. Pbufs(q) = Pbufs(t) + grown
    <3>1. Pbufs(q) = Pbufs(b) + Pbufs(new)
      BY <2>11, PbufsJoin DEF q
    <3> QED
      BY <2>6, <2>18, <3>1
  <2>20. grown \in Nat /\ c.snd_queuelen + grown <= TCP_SND_QUEUELEN
    <3>1. new = <<>> => grown <= 1
      BY <2>18
    <3>2. grown \in Nat
      BY <2>18
    <3> HIDE DEF grown
    <3> QED
      BY <2>2, <2>9, <3>1, <3>2, SizeAssumption
  <2>21. over \in Nat /\ over <= q[Len(q)].room
    <3>1. q[Len(q)] \in Segment
      <4>1. q # <<>>
        BY <2>17 DEF Grown
      <4> QED
        BY <2>12, <4>1, QueueFacts
    <3>2. q[Len(q)].room \in Nat
      BY <3>1, SegmentFacts
    <3>3. CASE new # <<>>
      <4>1. over = q[Len(q)].room
        BY <2>15, <3>3 DEF Last
      <4> QED
        BY <3>2, <4>1
    <3>4. CASE new = <<>>
      <4>1. t # <<>> /\ q[Len(q)] = last
        BY <2>6, <2>15, <2>16, <3>4
      <4>2. CASE cat > 0
        <5>1. over = last.room
          BY <3>4, <4>2
        <5> QED
          BY <3>2, <4>1, <5>1
      <4>3. CASE ~(cat > 0)
        <5>1. cat = 0
          BY <2>3, <4>3
        <5>2. over = c.unsent_oversize - used
          BY <3>4, <4>3
        <5>3. last.room = t[Len(t)].room - used
          BY <2>7, <4>1, <5>1
        <5>4. t[Len(t)] \in Segment
          BY <2>2, <4>1, QueueFacts
        <5>5. t[Len(t)].room \in Nat
          BY <5>4, SegmentFacts
        <5>6. used <= c.unsent_oversize /\ c.unsent_oversize <= t[Len(t)].room
          BY <2>3, <2>8, <4>1
        <5> HIDE DEF over, t
        <5>7. over \in Nat /\ over <= last.room
          BY <2>2, <2>3, <5>2, <5>3, <5>5, <5>6
        <5> QED
          BY <4>1, <5>7
      <4> QED
        BY <4>2, <4>3
    <3> QED
      BY <3>3, <3>4
  <2> HIDE DEF over, grown
  <2>22. Ready(d) /\ Advanced(d, c)
    BY <2>1, <2>10, <2>12, <2>17, <2>19, <2>20, <2>21, WroteReady
  <2> QED
    BY <1>1, <1>3, <2>22 DEF d, q, over, grown
<1> QED
  BY <1>2, <1>3

-----------------------------------------------------------------------------
(* Closing and the retransmission timeout                                  *)

(* Nothing that was heard from the remote host is forgotten.               *)
Onward(d, c) ==
  /\ d.lastack = c.lastack /\ d.snd_wnd = c.snd_wnd /\ d.snd_wl2 = c.snd_wl2
  /\ ReachOf(c) <= ReachOf(d)

(* The segment that carries a FIN.                                         *)
LEMMA WithFin ==
  ASSUME NEW l \in Segment, l.fin = FALSE, NEW s, s = [l EXCEPT !.fin = TRUE]
  PROVE  /\ s \in Segment /\ s.seqno = l.seqno /\ s.fin = TRUE /\ s.room = l.room
         /\ s.clen = l.clen /\ End(s) = End(l) + 1
<1>1. /\ l.seqno \in Nat /\ Len(l.p) \in Nat /\ End(l) = l.seqno + Len(l.p)
      /\ Len(l.p) + l.room <= TCP_MSS /\ l.p = Bytes(l.seqno, Len(l.p))
  BY SegmentFacts
<1>2. l \in [seqno : Nat, p : Seq(Nat), fin : BOOLEAN, clen : Nat, room : Nat]
  BY DEF Segment
<1>3. /\ s \in [seqno : Nat, p : Seq(Nat), fin : BOOLEAN, clen : Nat, room : Nat]
      /\ s.seqno = l.seqno /\ s.p = l.p /\ s.fin = TRUE /\ s.room = l.room
      /\ s.clen = l.clen
  BY <1>2
<1>4. TCP_TCPLEN(s) = Len(l.p) + 1
  BY <1>3 DEF TCP_TCPLEN
<1>5. End(s) = End(l) + 1
  BY <1>1, <1>3, <1>4 DEF End
<1>6. s \in Segment
  <2>1. TCP_TCPLEN(s) > 0
    BY <1>1, <1>4
  <2>2. Len(s.p) + s.room <= TCP_MSS /\ s.p = Bytes(s.seqno, Len(s.p))
    BY <1>1, <1>3
  <2> QED
    BY <1>3, <2>1, <2>2 DEF Segment
<1> QED
  BY <1>3, <1>5, <1>6

LEMMA OnlyFin ==
  ASSUME NEW a \in Nat, NEW s,
         s = [seqno |-> a, p |-> <<>>, fin |-> TRUE, clen |-> 1, room |-> 0]
  PROVE  s \in Segment /\ End(s) = s.seqno + 1
<1>1. Bytes(a, 0) = <<>>
  <2>1. Bytes(a, 0) \in Seq(Nat) /\ Len(Bytes(a, 0)) = 0
    BY BytesFacts
  <2> QED
    BY <2>1, EmptySeq
<1>2. /\ s \in [seqno : Nat, p : Seq(Nat), fin : BOOLEAN, clen : Nat, room : Nat]
      /\ s.seqno = a /\ s.p = <<>> /\ s.fin = TRUE /\ s.room = 0 /\ Len(s.p) = 0
  OBVIOUS
<1>3. TCP_TCPLEN(s) = 1
  BY <1>2 DEF TCP_TCPLEN
<1> QED
  BY <1>1, <1>2, <1>3, SizeAssumption DEF Segment, End

(* What closing makes of a connection.                                     *)
Closed(d, c, q, over, lbb, buf, ql, flags, st) ==
  d = [c EXCEPT !.unsent = q, !.unsent_oversize = over, !.snd_lbb = lbb,
                !.snd_buf = buf, !.snd_queuelen = ql, !.flags = flags, !.state = st]

LEMMA ClosedReady ==
  ASSUME NEW c, Ready(c), c.state \in Open, NEW d, NEW q, NEW over \in Nat,
         NEW lbb \in Nat, NEW buf \in Nat, NEW ql \in 0 .. TCP_SND_QUEUELEN,
         NEW flags \in SUBSET Flags, NEW st \in {"LAST_ACK", "FIN_WAIT_1"},
         Closed(d, c, q, over, lbb, buf, ql, flags, st),
         Grown(c.unsent, q, c.snd_lbb, c.snd_lbb + 1), over <= q[Len(q)].room,
         buf + lbb = c.snd_buf + c.snd_lbb,
         lbb + (IF "TF_FIN" \notin flags THEN 1 ELSE 0) = c.snd_lbb + 1,
         "TF_INFR" \in flags <=> "TF_INFR" \in c.flags,
         ql = Pbufs(q) + Pbufs(c.unacked)
  PROVE  Ready(d) /\ Onward(d, c)
<1>1. /\ c \in Pcb /\ Row(c) /\ Plain(c) /\ Books(c) /\ Recovers(c)
  BY DEF Ready
<1>2. /\ c.unsent \in Seq(Segment) /\ c.unacked \in Seq(Segment) /\ c.snd_nxt \in Nat
      /\ c.lastack \in Nat /\ c.snd_lbb \in Nat /\ c.snd_buf \in Nat
      /\ Edge(c) = c.snd_lbb /\ Right(c) \in Nat
  BY <1>1, PcbFacts, EdgeFacts
<1>3. q \in Seq(Segment) /\ st \in Active /\ st \notin Open
  BY DEF Grown, Active, Open
<1>4. d = [c EXCEPT !.unsent = q, !.unsent_oversize = over, !.snd_lbb = lbb,
                    !.snd_buf = buf, !.snd_queuelen = ql, !.flags = flags, !.state = st]
  BY DEF Closed
<1>5. d \in Pcb
  <2>1. st \in Active \cup {"CLOSED", "ABORTED"}
    BY <1>3
  <2> QED
    BY <1>1, <1>3, <1>4, <2>1 DEF Pcb
<1>6. /\ d.unsent = q /\ d.unsent_oversize = over /\ d.snd_lbb = lbb /\ d.snd_buf = buf
      /\ d.snd_queuelen = ql /\ d.flags = flags /\ d.state = st
      /\ d.unacked = c.unacked /\ d.snd_nxt = c.snd_nxt
      /\ d.lastack = c.lastack /\ d.snd_wnd = c.snd_wnd /\ d.snd_wl2 = c.snd_wl2
      /\ d.ssthresh = c.ssthresh
  BY <1>1, <1>4 DEF Pcb
<1>7. Edge(d) = c.snd_lbb + 1 /\ Right(d) = Right(c)
  BY <1>3, <1>6 DEF Edge, Right
<1>8. /\ Line(c.unacked, q, c.lastack, c.snd_nxt, c.snd_lbb + 1, Right(c))
      /\ Reach(c.unacked, c.unsent, c.snd_nxt) <= Reach(c.unacked, q, c.snd_nxt)
  <2>1. Line(c.unacked, c.unsent, c.lastack, c.snd_nxt, c.snd_lbb, Right(c))
    BY <1>1, <1>2 DEF Row
  <2>2. NoFin(c.unacked) /\ c.snd_lbb + 1 \in Nat
    BY <1>1, <1>2 DEF Plain
  <2> QED
    BY <1>2, <2>1, <2>2, GrownLine
<1>9. Row(d) /\ ReachOf(c) <= ReachOf(d)
  BY <1>6, <1>7, <1>8 DEF Row, ReachOf
<1>10. Plain(d)
  BY <1>3, <1>6 DEF Plain
<1>11. Books(d)
  <2>1. c.snd_buf + c.snd_lbb - c.lastack = TCP_SND_BUF
    BY <1>1 DEF Books
  <2>2. buf + lbb - c.lastack = TCP_SND_BUF
    <3>1. buf + lbb = c.snd_buf + c.snd_lbb
      OBVIOUS
    <3>2. c.snd_buf \in Nat /\ c.snd_lbb \in Nat /\ c.lastack \in Nat /\ TCP_SND_BUF \in Nat
      BY <1>2, SizeAssumption
    <3> QED
      BY ONLY <2>1, <3>1, <3>2
  <2> QED
    BY <1>6, <2>2 DEF Books
<1>12. Spare(d) /\ Recovers(d)
  BY <1>1, <1>6 DEF Spare, Recovers
<1>13. Ready(d)
  BY <1>3, <1>5, <1>6, <1>9, <1>10, <1>11, <1>12 DEF Ready
<1> QED
  BY <1>6, <1>9, <1>13 DEF Onward

(* The FIN is queued.                                                      *)
LEMMA FinReady ==
  ASSUME NEW c, Ready(c), c.state \in Open,
         c.unsent # <<>> \/ (c.snd_queuelen < TCP_SND_QUEUELEN /\ c.snd_buf > 0),
         NEW st \in {"LAST_ACK", "FIN_WAIT_1"}, NEW d,
         d = [tcp_send_fin(c) EXCEPT !.state = st]
  PROVE  Ready(d) /\ Onward(d, c)
<1> DEFINE t == c.unsent
           L == c.snd_lbb
<1>1. c \in Pcb /\ Plain(c) /\ Books(c) /\ Row(c)
  BY DEF Ready
<1>2. /\ t \in Seq(Segment) /\ L \in Nat /\ c.snd_buf \in Nat /\ c.flags \subseteq Flags
      /\ c.snd_queuelen \in 0 .. TCP_SND_QUEUELEN /\ c.unsent_oversize \in Nat
      /\ c.unacked \in Seq(Segment) /\ c.snd_queuelen \in Nat
  BY <1>1, PcbFacts, SizeAssumption
<1>3. "TF_FIN" \notin c.flags /\ Chain(t)
  BY <1>1 DEF Plain, Row, Line
<1>4. c.snd_queuelen = Pbufs(t) + Pbufs(c.unacked) /\ Pbufs(t) \in Nat
      /\ Pbufs(c.unacked) \in Nat
  BY <1>1, <1>2, PbufsType DEF Books
<1>5. CASE t # <<>>
  <2> DEFINE l == t[Len(t)]
             s == [l EXCEPT !.fin = TRUE]
             q == Front(t) \o <<s>>
  <2>1. /\ l \in Segment /\ l.fin = FALSE /\ End(l) = L /\ l.clen \in Nat
        /\ c.unsent_oversize <= l.room
    BY <1>5, LastFacts
  <2>2. d = [c EXCEPT !.unsent = q, !.unsent_oversize = c.unsent_oversize, !.snd_lbb = L,
                      !.snd_buf = c.snd_buf, !.snd_queuelen = c.snd_queuelen,
                      !.flags = c.flags, !.state = st]
    <3>1. tcp_send_fin(c) = [c EXCEPT !.unsent = q]
      BY <1>5 DEF tcp_send_fin, Last
    <3> HIDE DEF q
    <3> QED
      BY <1>1, <3>1 DEF Pcb
  <2> HIDE DEF l
  <2>3. /\ s \in Segment /\ s.seqno = l.seqno /\ s.room = l.room
        /\ s.clen = l.clen /\ End(s) = End(l) + 1
    BY <2>1, WithFin
  <2> HIDE DEF s
  <2>4. Replaced(q, t, s)
    BY DEF Replaced
  <2>5. Closed(d, c, q, c.unsent_oversize, L, c.snd_buf, c.snd_queuelen, c.flags, st)
    BY <2>2 DEF Closed
  <2> HIDE DEF q
  <2>6. /\ q \in Seq(Segment) /\ q # <<>> /\ q[Len(q)] = s
        /\ Chain(q) /\ q[1].seqno = t[1].seqno /\ End(t[1]) <= End(q[1])
        /\ Pbufs(q) + l.clen = Pbufs(t) + s.clen
    <3>1. End(l) <= End(s) /\ s.seqno = l.seqno
      BY <1>2, <2>1, <2>3
    <3> QED
      BY <1>2, <1>3, <1>5, <2>3, <2>4, <3>1, ReplaceLast DEF l
  <2>7. Grown(t, q, L, L + 1)
    <3>1. End(q[Len(q)]) = L + 1 /\ L <= L + 1
      BY <1>2, <2>1, <2>3, <2>6
    <3> QED
      BY <1>5, <2>6, <3>1 DEF Grown
  <2>8. Pbufs(q) = Pbufs(t)
    <3>1. Pbufs(q) \in Nat
      BY <2>6, PbufsType
    <3> QED
      BY <1>4, <2>1, <2>3, <2>6, <3>1
  <2>9. c.unsent_oversize <= q[Len(q)].room
    BY <2>1, <2>3, <2>6
  <2>10. L + (IF "TF_FIN" \notin c.flags THEN 1 ELSE 0) = L + 1
    BY <1>3
  <2>11. c.snd_queuelen = Pbufs(q) + Pbufs(c.unacked)
    BY <1>4, <2>8
  <2> HIDE DEF L, t
  <2> QED
    BY <1>2, <2>5, <2>7, <2>9, <2>10, <2>11, ClosedReady DEF L, t
<1>6. CASE t = <<>>
  <2> DEFINE s == [seqno |-> L, p |-> <<>>, fin |-> TRUE, clen |-> 1, room |-> 0]
             q == <<s>>
             g == c.flags \cup {"TF_FIN"}
  <2>1. d = [c EXCEPT !.unsent = q, !.unsent_oversize = 0, !.snd_lbb = L + 1,
                      !.snd_buf = c.snd_buf - 1, !.snd_queuelen = c.snd_queuelen + 1,
                      !.flags = g, !.state = st]
    <3>1. Append(t, s) = q
      BY <1>6
    <3>2. tcp_send_fin(c) = [c EXCEPT !.unsent = Append(t, s), !.unsent_oversize = 0,
                                      !.snd_lbb = L + 1, !.snd_buf = c.snd_buf - 1,
                                      !.flags = g, !.snd_queuelen = c.snd_queuelen + 1]
      BY <1>6 DEF tcp_send_fin, tcp_enqueue_flags
    <3> HIDE DEF q, s, g
    <3> QED
      BY <1>1, <3>1, <3>2 DEF Pcb
  <2>2. s \in Segment /\ End(s) = s.seqno + 1
    BY <1>2, OnlyFin
  <2>3. s.seqno = L /\ s.clen = 1 /\ s.room = 0 /\ s.fin = TRUE
    OBVIOUS
  <2> HIDE DEF s
  <2>4. q \in Seq(Segment) /\ Len(q) = 1 /\ q[1] = s /\ q # <<>> /\ Pbufs(q) = 1
    BY <2>2, <2>3, OneFacts, PbufsOne
  <2> HIDE DEF q
  <2>5. Chain(q)
    <3>1. \A i \in 1 .. Len(q) : i = 1
      BY <2>4
    <3>2. \A i \in 1 .. Len(q) - 1 : FALSE
      BY <2>4
    <3>3. \A i, j \in 1 .. Len(q) : ~(i < j)
      BY <2>4
    <3> QED
      BY <2>4, <3>1, <3>2, <3>3 DEF Chain
  <2>6. Grown(t, q, L, L + 1)
    <3>1. End(q[Len(q)]) = L + 1 /\ q[1].seqno = L /\ L <= L + 1
      BY <1>2, <2>2, <2>3, <2>4
    <3> QED
      BY <1>6, <2>4, <2>5, <3>1 DEF Grown
  <2>7. c.snd_queuelen + 1 = Pbufs(q) + Pbufs(c.unacked)
    BY <1>2, <1>4, <1>6, <2>4, PbufsEmpty
  <2>8. /\ L + 1 \in Nat /\ c.snd_buf - 1 \in Nat
        /\ c.snd_queuelen + 1 \in 0 .. TCP_SND_QUEUELEN
        /\ (c.snd_buf - 1) + (L + 1) = c.snd_buf + L
    <3>1. c.snd_queuelen < TCP_SND_QUEUELEN /\ c.snd_buf > 0
      BY <1>6
    <3>2. c.snd_queuelen \in Nat /\ c.snd_buf \in Nat /\ L \in Nat /\ TCP_SND_QUEUELEN \in Nat
      BY <1>2, SizeAssumption
    <3> HIDE DEF L
    <3> QED
      BY <3>1, <3>2
  <2>9. /\ g \in SUBSET Flags /\ "TF_FIN" \in g
        /\ ("TF_INFR" \in g <=> "TF_INFR" \in c.flags)
    BY <1>2 DEF Flags
  <2>10. 0 <= q[Len(q)].room
    BY <2>3, <2>4
  <2>11. (L + 1) + (IF "TF_FIN" \notin g THEN 1 ELSE 0) = L + 1
    BY <1>2, <2>9
  <2>12. Closed(d, c, q, 0, L + 1, c.snd_buf - 1, c.snd_queuelen + 1, g, st)
    BY <2>1 DEF Closed
  <2> DEFINE lbb == L + 1
             buf == c.snd_buf - 1
             ql == c.snd_queuelen + 1
  <2>13. /\ Closed(d, c, q, 0, lbb, buf, ql, g, st) /\ lbb \in Nat /\ buf \in Nat
         /\ ql \in 0 .. TCP_SND_QUEUELEN /\ buf + lbb = c.snd_buf + c.snd_lbb
         /\ lbb + (IF "TF_FIN" \notin g THEN 1 ELSE 0) = c.snd_lbb + 1
         /\ ql = Pbufs(q) + Pbufs(c.unacked)
    BY <2>7, <2>8, <2>11, <2>12
  <2> HIDE DEF lbb, buf, ql, g
  <2> QED
    BY <2>6, <2>9, <2>10, <2>13, ClosedReady
<1> QED
  BY <1>5, <1>6

(* Half of the window that was in use: the new threshold.                  *)
Half(c) == Greater(Lesser(c.cwnd, c.snd_wnd) \div 2, 2 * TCP_MSS)

LEMMA HalfFacts ==
  ASSUME NEW c \in Pcb
  PROVE  /\ Half(c) \in 2 * TCP_MSS .. U16 - 1 /\ Half(c) \in Nat
         /\ Half(c) + 3 * TCP_MSS \in TCP_MSS .. U16 - 1
<1> DEFINE l == Lesser(c.cwnd, c.snd_wnd)
           h == l \div 2
<1>1. /\ c.cwnd \in Nat /\ c.cwnd < U16 /\ c.snd_wnd \in Nat
      /\ TCP_MSS \in Nat /\ U16 \in Nat /\ U16 > 6 * TCP_MSS /\ TCP_MSS > 0
  BY PcbFacts, SizeAssumption
<1>2. l \in Nat /\ l < U16
  BY <1>1 DEF Lesser
<1>3. Half(c) = IF h < 2 * TCP_MSS THEN 2 * TCP_MSS ELSE h
  BY DEF Half, Greater
<1> HIDE DEF l
<1>4. h \in Nat /\ 2 * h <= l
  BY <1>2
<1> HIDE DEF h
<1> QED
  BY <1>1, <1>2, <1>3, <1>4

(* The retransmission timer runs out.                                      *)
LEMMA RtoReady ==
  ASSUME NEW c, Settled(c), c.unacked # <<>>, NEW d,
         d = tcp_rexmit_rto([c EXCEPT !.ssthresh = Half(c), !.cwnd = TCP_MSS])
  PROVE  Ready(d) /\ Advanced(d, c)
<1> DEFINE u == c.unacked
           t == c.unsent
           q == u \o t
           h == Half(c)
<1>1. /\ c \in Pcb /\ c.state \in Active /\ Row(c) /\ Plain(c) /\ Books(c) /\ Spare(c)
      /\ t = <<>> => c.unsent_oversize = 0
  BY DEF Settled, Ready
<1>2. /\ t \in Seq(Segment) /\ u \in Seq(Segment) /\ c.snd_nxt \in Nat
      /\ c.lastack \in Nat /\ Edge(c) \in Nat /\ Right(c) \in Nat
  BY <1>1, PcbFacts, EdgeFacts
<1>3. h \in 2 * TCP_MSS .. U16 - 1 /\ h \in Nat
  BY <1>1, HalfFacts
<1>4. d = [c EXCEPT !.ssthresh = h, !.cwnd = TCP_MSS, !.unsent = q, !.unacked = <<>>,
                    !.nrtx = TRUE]
  <2> DEFINE e == [c EXCEPT !.ssthresh = h, !.cwnd = TCP_MSS]
  <2>1. e.unacked = u /\ e.unsent = t
    BY <1>1 DEF Pcb
  <2>2. d = [e EXCEPT !.unsent = q, !.unacked = <<>>, !.nrtx = TRUE]
    BY <2>1 DEF tcp_rexmit_rto
  <2> HIDE DEF h, q
  <2> QED
    BY <1>1, <2>2 DEF Pcb
<1>5. q \in Seq(Segment) /\ Line(<<>>, q, c.lastack, c.snd_nxt, Edge(c), Right(c))
  BY <1>1, <1>2, RtoLine DEF Row
<1>6. Pbufs(q) = Pbufs(u) + Pbufs(t) /\ Pbufs(u) \in Nat /\ Pbufs(t) \in Nat
  BY <1>2, PbufsJoin, PbufsType
<1>7. /\ t # <<>> => q # <<>> /\ q[Len(q)] = t[Len(t)]
      /\ t = <<>> => q = u
  BY <1>2, JoinEnds
<1>8. c.state \in Open => NoFin(q)
  BY <1>1, <1>2, JoinNoFin DEF Plain
<1>9. Reach(u, t, c.snd_nxt) <= Reach(<<>>, q, c.snd_nxt)
  <2>1. Reach(u, t, c.snd_nxt) = c.snd_nxt
    BY <1>2, ReachFacts
  <2> HIDE DEF q
  <2>2. c.snd_nxt <= Reach(<<>>, q, c.snd_nxt)
    BY <1>2, ReachFacts
  <2> QED
    BY <2>1, <2>2
<1>14. TCP_MSS \in TCP_MSS .. U16 - 1 /\ <<>> \in Seq(Segment)
  BY SizeAssumption
<1> HIDE DEF q, h
<1>10. d \in Pcb
  <2>1. c \in Pcb /\ h \in Nat /\ q \in Seq(Segment)
    BY <1>1, <1>3, <1>5
  <2> QED
    BY ONLY <1>4, <1>14, <2>1 DEF Pcb
<1>11. /\ d.ssthresh = h /\ d.unsent = q /\ d.unacked = <<>>
       /\ d.snd_nxt = c.snd_nxt /\ d.lastack = c.lastack /\ d.snd_lbb = c.snd_lbb
       /\ d.snd_buf = c.snd_buf /\ d.snd_queuelen = c.snd_queuelen
       /\ d.unsent_oversize = c.unsent_oversize /\ d.snd_wnd = c.snd_wnd
       /\ d.snd_wl2 = c.snd_wl2 /\ d.flags = c.flags /\ d.state = c.state
  BY <1>1, <1>4 DEF Pcb
<1>12. Ready(d)
  <2>1. Edge(d) = Edge(c) /\ Right(d) = Right(c)
    BY <1>11 DEF Edge, Right
  <2>2. Row(d)
    BY <1>5, <1>11, <2>1 DEF Row
  <2>3. NoFin(<<>>)
    BY DEF NoFin
  <2>4. Plain(d)
    BY <1>1, <1>8, <1>11, <2>3 DEF Plain
  <2>5. Books(d)
    BY <1>1, <1>6, <1>11, PbufsEmpty DEF Books
  <2>6. Spare(d)
    <3>1. CASE t # <<>>
      BY <1>1, <1>7, <1>11, <3>1 DEF Spare
    <3>2. CASE t = <<>>
      <4>1. q = u /\ u[Len(u)] \in Segment /\ d.unsent_oversize = 0
        BY <1>1, <1>2, <1>7, <1>11, <3>2, QueueFacts
      <4>2. u[Len(u)].room \in Nat
        BY <4>1, SegmentFacts
      <4> QED
        BY <1>11, <4>1, <4>2 DEF Spare
    <3> QED
      BY <3>1, <3>2
  <2>7. Recovers(d)
    BY <1>3, <1>11 DEF Recovers
  <2> QED
    BY <1>1, <1>10, <1>11, <2>2, <2>4, <2>5, <2>6, <2>7 DEF Ready
<1>13. ReachOf(c) <= ReachOf(d)
  BY <1>9, <1>11 DEF ReachOf
<1> QED
  BY <1>11, <1>12, <1>13 DEF Advanced

(* The remote host has closed its direction.                               *)
LEMMA PeerFinReady ==
  ASSUME NEW c, Settled(c), c.state = "ESTABLISHED", NEW d,
         d = [c EXCEPT !.state = "CLOSE_WAIT"]
  PROVE  Settled(d) /\ Onward(d, c)
<1>1. c \in Pcb /\ Ready(c) /\ Recovers(c) /\ (c.unsent = <<>> => c.unsent_oversize = 0)
  BY DEF Settled, Ready
<1>2. d \in Pcb
  BY <1>1 DEF Pcb, Active
<1>3. /\ d.flags = c.flags /\ d.unsent = c.unsent /\ d.unacked = c.unacked
      /\ d.snd_nxt = c.snd_nxt /\ d.lastack = c.lastack /\ d.snd_lbb = c.snd_lbb
      /\ d.snd_buf = c.snd_buf /\ d.snd_queuelen = c.snd_queuelen
      /\ d.unsent_oversize = c.unsent_oversize /\ d.snd_wnd = c.snd_wnd
      /\ d.snd_wl2 = c.snd_wl2 /\ d.ssthresh = c.ssthresh /\ d.state = "CLOSE_WAIT"
  BY <1>1 DEF Pcb
<1>4. c.snd_wnd <= c.snd_wnd /\ ReachOf(c) <= ReachOf(c)
  BY <1>1, PcbFacts, ReachOfType, SizeAssumption
<1>5. Same(d, c)
  BY <1>1, <1>3, <1>4 DEF Same, Recovers, Active, Open
<1>6. Ready(d) /\ ReachOf(d) = ReachOf(c)
  BY <1>1, <1>2, <1>5, SameReady
<1> QED
  BY <1>1, <1>3, <1>4, <1>6 DEF Settled, Onward

-----------------------------------------------------------------------------
(* ACKs                                                                    *)

(* An ACK as the remote host may have sent it to c.                        *)
Answer(c, a) ==
  /\ a.ackno \in Nat /\ a.wnd \in 0 .. PeerBuf
  /\ a.ackno <= ReachOf(c) /\ c.lastack <= c.snd_wl2
  /\ c.snd_wl2 < a.ackno => c.snd_wl2 + c.snd_wnd <= a.ackno + a.wnd

(* e goes by the window of c or by the one a announced.                    *)
Hears(e, c, a) ==
  /\ e.lastack <= e.snd_wl2 /\ ReachOf(c) <= ReachOf(e)
  /\ \/ e.snd_wl2 = c.snd_wl2 /\ e.snd_wnd = c.snd_wnd
     \/ e.snd_wl2 = a.ackno /\ e.snd_wnd = a.wnd

LEMMA HearsOn ==
  ASSUME NEW c \in Pcb, NEW e \in Pcb, NEW f \in Pcb, NEW a, Hears(e, c, a), Onward(f, e)
  PROVE  Hears(f, c, a)
<1>1. ReachOf(c) \in Nat /\ ReachOf(e) \in Nat /\ ReachOf(f) \in Nat
  BY ReachOfType
<1>2. ReachOf(c) <= ReachOf(f)
  BY <1>1 DEF Hears, Onward
<1> QED
  BY <1>2 DEF Hears, Onward

(* What an ACK takes off a queue and what it leaves are the queue.         *)
LEMMA AckedRest ==
  ASSUME NEW q \in Seq(Segment), NEW ackno
  PROVE  /\ Acked(q, ackno) \in Seq(Segment) /\ Rest(q, ackno) \in Seq(Segment)
         /\ Pbufs(q) = Pbufs(Acked(q, ackno)) + Pbufs(Rest(q, ackno))
<1>1. PICK n \in 0 .. Len(q) :
           /\ Acked(q, ackno) = SubSeq(q, 1, n)
           /\ Rest(q, ackno) = SubSeq(q, n + 1, Len(q))
  BY RestFacts
<1> DEFINE x == SubSeq(q, 1, n)
           y == SubSeq(q, n + 1, Len(q))
           L == Len(q)
<1>2. L \in Nat /\ n \in Nat /\ n <= L /\ L <= L
  BY QueueFacts
<1>3. x \in Seq(Segment) /\ Len(x) = n /\ \A i \in 1 .. n : x[i] = q[i]
  <2>1. ASSUME NEW m \in Nat, m <= n
        PROVE  /\ SubSeq(q, m + 1, n) \in Seq(Segment)
               /\ Len(SubSeq(q, m + 1, n)) = n - m
               /\ \A i \in 1 .. n - m : SubSeq(q, m + 1, n)[i] = q[m + i]
    BY <1>2, <2>1, PartFacts
  <2>2. 0 \in Nat /\ 0 <= n /\ 0 + 1 = 1 /\ n - 0 = n /\ \A i \in 1 .. n : 0 + i = i
    BY <1>2
  <2>3. /\ SubSeq(q, 0 + 1, n) \in Seq(Segment) /\ Len(SubSeq(q, 0 + 1, n)) = n - 0
        /\ \A i \in 1 .. n - 0 : SubSeq(q, 0 + 1, n)[i] = q[0 + i]
    BY <2>1, <2>2
  <2> QED
    BY <2>2, <2>3
<1>4. y \in Seq(Segment) /\ Len(y) = L - n /\ \A i \in 1 .. L - n : y[i] = q[n + i]
  BY <1>2, PartFacts
<1> HIDE DEF x, y
<1> DEFINE w == x \o y
<1>5. /\ w \in Seq(Segment) /\ Len(w) = n + (L - n)
      /\ \A i \in 1 .. n : w[i] = x[i]
      /\ \A i \in 1 .. L - n : w[n + i] = y[i]
  <2>1. x \in Seq(Segment) /\ y \in Seq(Segment) /\ Len(x) = n /\ Len(y) = L - n
    BY <1>3, <1>4
  <2>2. /\ w \in Seq(Segment) /\ Len(w) = Len(x) + Len(y)
        /\ \A i \in 1 .. Len(x) : w[i] = x[i]
        /\ \A i \in 1 .. Len(y) : w[Len(x) + i] = y[i]
    BY <2>1, JoinFacts
  <2> HIDE DEF w, L
  <2> QED
    BY <2>1, <2>2
<1> HIDE DEF w
<1>6. Len(w) = L
  BY <1>2, <1>5
<1>7. \A i \in 1 .. Len(w) : w[i] = q[i]
  <2> SUFFICES ASSUME NEW i \in 1 .. L
               PROVE  w[i] = q[i]
    BY <1>6
  <2>1. CASE i <= n
    <3>1. i \in 1 .. n
      BY <1>2, <2>1
    <3> QED
      BY <1>3, <1>5, <3>1
  <2>2. CASE ~(i <= n)
    <3>1. i - n \in 1 .. L - n /\ n + (i - n) = i
      BY <1>2, <2>2
    <3>2. w[n + (i - n)] = y[i - n] /\ y[i - n] = q[n + (i - n)]
      BY <1>4, <1>5, <3>1
    <3> QED
      BY <3>1, <3>2
  <2> QED
    BY <2>1, <2>2
<1>8. w = q
  BY <1>5, <1>6, <1>7, SameQueue
<1>9. Pbufs(w) = Pbufs(x) + Pbufs(y)
  BY <1>3, <1>4, PbufsJoin DEF w
<1> QED
  BY <1>1, <1>3, <1>4, <1>8, <1>9 DEF x, y

(* The window is updated by an ACK for nothing new, or one that finds      *)
(* nothing sent and unacknowledged.                                        *)
LEMMA UpdateReady ==
  ASSUME NEW c, Ready(c), NEW a, Answer(c, a),
         a.ackno <= c.lastack \/ c.unacked = <<>>, NEW d, d = UpdateWindow(c, a)
  PROVE  /\ Ready(d) /\ Hears(d, c, a)
         /\ d.lastack = c.lastack /\ d.unacked = c.unacked /\ d.unsent = c.unsent
         /\ d.snd_nxt = c.snd_nxt /\ d.state = c.state
<1>1. c \in Pcb /\ c.state \in Active /\ Recovers(c)
  BY DEF Ready
<1>2. /\ c.lastack \in Nat /\ c.snd_wl2 \in Nat /\ c.snd_wnd \in Nat /\ c.persist \in BOOLEAN
      /\ ReachOf(c) \in Nat
  BY <1>1, PcbFacts, ReachOfType, SizeAssumption
<1>3. /\ a.ackno \in Nat /\ a.wnd \in 0 .. PeerBuf /\ a.wnd \in Nat /\ c.lastack <= c.snd_wl2
  BY SizeAssumption DEF Answer
<1>4. CASE c.snd_wl2 < a.ackno \/ (c.snd_wl2 = a.ackno /\ a.wnd > c.snd_wnd)
  <2> DEFINE p == c.persist /\ a.wnd = 0
  <2>1. d = [c EXCEPT !.snd_wnd = a.wnd, !.snd_wl2 = a.ackno, !.persist = p]
    BY <1>4 DEF UpdateWindow
  <2>2. p \in BOOLEAN
    OBVIOUS
  <2> HIDE DEF p
  <2>3. d \in Pcb
    BY ONLY <1>1, <1>3, <2>1, <2>2 DEF Pcb
  <2>4. /\ d.flags = c.flags /\ d.unsent = c.unsent /\ d.unacked = c.unacked
        /\ d.snd_nxt = c.snd_nxt /\ d.lastack = c.lastack /\ d.snd_lbb = c.snd_lbb
        /\ d.snd_buf = c.snd_buf /\ d.snd_queuelen = c.snd_queuelen
        /\ d.unsent_oversize = c.unsent_oversize /\ d.snd_wnd = a.wnd
        /\ d.snd_wl2 = a.ackno /\ d.ssthresh = c.ssthresh /\ d.state = c.state
    BY <1>1, <2>1 DEF Pcb
  <2>5. c.snd_wnd <= a.wnd \/ c.unacked = <<>>
    BY <1>2, <1>3, <1>4
  <2>6. Same(d, c)
    BY <1>1, <2>4, <2>5 DEF Same, Recovers
  <2>7. Ready(d) /\ ReachOf(d) = ReachOf(c)
    BY <2>3, <2>6, SameReady
  <2>8. c.lastack <= a.ackno
    BY <1>2, <1>3, <1>4
  <2>9. Hears(d, c, a)
    BY <1>2, <2>4, <2>7, <2>8 DEF Hears
  <2> QED
    BY <2>4, <2>7, <2>9
<1>5. CASE ~(c.snd_wl2 < a.ackno \/ (c.snd_wl2 = a.ackno /\ a.wnd > c.snd_wnd))
  <2>1. d = c
    BY <1>5 DEF UpdateWindow
  <2>2. Hears(c, c, a)
    BY <1>2, <1>3 DEF Hears
  <2> QED
    BY <2>1, <2>2
<1> QED
  BY <1>4, <1>5

(* Nothing of unsent is acknowledged.                                      *)
LEMMA AckNothing ==
  ASSUME NEW c \in Pcb, NEW a, c.unsent # <<>> => ~(End(c.unsent[1]) <= a.ackno)
  PROVE  AckUnsent(c, a) = c
<1>1. c.unsent \in Seq(Segment) /\ c.snd_queuelen \in Nat
  BY PcbFacts, SizeAssumption
<1>2. Rest(c.unsent, a.ackno) = c.unsent /\ Acked(c.unsent, a.ackno) = <<>>
  BY <1>1, RestAll
<1>3. c.snd_queuelen - Pbufs(Acked(c.unsent, a.ackno)) = c.snd_queuelen
  BY <1>1, <1>2, PbufsEmpty
<1>4. [c EXCEPT !.unsent = c.unsent, !.snd_queuelen = c.snd_queuelen] = c
  BY DEF Pcb
<1> QED
  BY <1>2, <1>3, <1>4 DEF AckUnsent

(* lastack is before the end of the first unsent segment.                  *)
LEMMA UnsentBeyond ==
  ASSUME NEW c, Ready(c), c.unsent # <<>>, NEW n \in Nat, n <= c.lastack
  PROVE  ~(End(c.unsent[1]) <= n)
<1> DEFINE u == c.unacked
           t == c.unsent
<1>1. c \in Pcb /\ Row(c)
  BY DEF Ready
<1>2. t \in Seq(Segment) /\ u \in Seq(Segment) /\ c.lastack \in Nat
  BY <1>1, PcbFacts
<1>3. t[1].seqno \in Nat /\ End(t[1]) \in Nat /\ t[1].seqno < End(t[1])
  BY <1>2, QueueFacts
<1>4. Chain(u) /\ Linked(u, t) /\ Starts(u, t, c.lastack, Edge(c))
  BY <1>1 DEF Row, Line
<1>5. CASE u = <<>>
  <2>1. c.lastack < End(t[1])
    BY <1>4, <1>5 DEF Starts, Holds
  <2> QED
    BY <1>2, <1>3, <2>1
<1>6. CASE u # <<>>
  <2>1. c.lastack < End(u[1]) /\ 1 \in 1 .. Len(u) /\ End(u[1]) \in Nat
    BY <1>2, <1>4, <1>6, QueueFacts DEF Starts, Holds
  <2>2. End(u[1]) <= t[1].seqno
    BY <1>2, <1>4, <2>1, Before
  <2> QED
    BY <1>2, <1>3, <2>1, <2>2
<1> QED
  BY <1>5, <1>6

(* The congestion control of c is changed, and nothing else.               *)
Tuned(f, c, k, w, h, g, x) ==
  f = [c EXCEPT !.dupacks = k, !.cwnd = w, !.ssthresh = h, !.flags = g, !.nrtx = x]

LEMMA TunedReady ==
  ASSUME NEW c, Ready(c), NEW f, NEW k \in 0 .. 4, NEW w \in TCP_MSS .. U16 - 1,
         NEW h \in Nat, NEW g \in SUBSET Flags, NEW x \in BOOLEAN,
         Tuned(f, c, k, w, h, g, x), "TF_FIN" \in g <=> "TF_FIN" \in c.flags,
         "TF_INFR" \in g => h \in 2 * TCP_MSS .. U16 - 1
  PROVE  /\ Ready(f) /\ Onward(f, c) /\ f.unacked = c.unacked /\ f.unsent = c.unsent
         /\ f.flags = g /\ f.rtime = c.rtime /\ f.snd_nxt = c.snd_nxt
<1>1. c \in Pcb /\ c.state \in Active
  BY DEF Ready
<1>2. f = [c EXCEPT !.dupacks = k, !.cwnd = w, !.ssthresh = h, !.flags = g, !.nrtx = x]
  BY DEF Tuned
<1>3. f \in Pcb
  BY <1>1, <1>2 DEF Pcb
<1>4. /\ f.flags = g /\ f.unsent = c.unsent /\ f.unacked = c.unacked
      /\ f.snd_nxt = c.snd_nxt /\ f.lastack = c.lastack /\ f.snd_lbb = c.snd_lbb
      /\ f.snd_buf = c.snd_buf /\ f.snd_queuelen = c.snd_queuelen
      /\ f.unsent_oversize = c.unsent_oversize /\ f.snd_wnd = c.snd_wnd
      /\ f.snd_wl2 = c.snd_wl2 /\ f.ssthresh = h /\ f.state = c.state
      /\ f.rtime = c.rtime
  BY <1>1, <1>2 DEF Pcb
<1>5. c.snd_wnd <= c.snd_wnd /\ ReachOf(c) <= ReachOf(c)
  BY <1>1, PcbFacts, ReachOfType, SizeAssumption
<1>6. Same(f, c)
  BY <1>1, <1>4, <1>5 DEF Same, Recovers
<1>7. Ready(f) /\ ReachOf(f) = ReachOf(c)
  BY <1>3, <1>6, SameReady
<1>8. Onward(f, c)
  BY <1>4, <1>5, <1>7 DEF Onward
<1> QED
  BY <1>4, <1>7, <1>8

LEMMA InflatedType ==
  ASSUME NEW w \in TCP_MSS .. U16 - 1
  PROVE  Inflated(w) \in TCP_MSS .. U16 - 1
BY SizeAssumption DEF Inflated

(* A segment that is to be sent again at once.                             *)
Again(r, f) ==
  /\ Ready(f) /\ f.unacked # <<>> /\ "TF_INFR" \in f.flags /\ f.rtime = TRUE
  /\ Resends(r, f)

(* An ACK for nothing new: counted, or it starts a fast retransmission.    *)
LEMMA OldAckFacts ==
  ASSUME NEW c, NEW d, Ready(d), NEW a, NEW r, r = OldAck(c, d, a)
  PROVE  \/ Ready(r) /\ Onward(r, d)
         \/ \E f : Again(r, f) /\ Onward(f, d)
<1> DEFINE dup == /\ d.snd_wl2 + d.snd_wnd = c.snd_wl2 + c.snd_wnd
                  /\ d.rtime
                  /\ d.lastack = a.ackno
           k == IF dup THEN Lesser(d.dupacks + 1, 4) ELSE 0
           e == [d EXCEPT !.dupacks = k]
<1>1. d \in Pcb /\ Recovers(d)
  BY DEF Ready
<1>2. /\ d.dupacks \in 0 .. 4 /\ d.cwnd \in TCP_MSS .. U16 - 1 /\ d.ssthresh \in Nat
      /\ d.flags \in SUBSET Flags /\ d.nrtx \in BOOLEAN /\ d.rtime \in BOOLEAN
  BY <1>1, PcbFacts
<1>3. k \in 0 .. 4
  BY <1>2 DEF Lesser
<1>4. r = IF e.dupacks > 3 THEN [e EXCEPT !.cwnd = Inflated(@)]
          ELSE IF e.dupacks = 3 THEN tcp_rexmit_fast(e) ELSE e
  BY DEF OldAck
<1>5. k = 3 => d.rtime = TRUE
  BY <1>2
<1> HIDE DEF k
<1>6. e.dupacks = k /\ e.cwnd = d.cwnd /\ e.unacked = d.unacked /\ e.flags = d.flags
      /\ e.rtime = d.rtime /\ e.unsent = d.unsent /\ e.snd_wnd = d.snd_wnd /\ e \in Pcb
  BY <1>1, <1>3 DEF Pcb
<1>7. "TF_INFR" \in d.flags => d.ssthresh \in 2 * TCP_MSS .. U16 - 1
  BY <1>1 DEF Recovers
<1>8. CASE k > 3
  <2> DEFINE w == Inflated(d.cwnd)
  <2>1. w \in TCP_MSS .. U16 - 1
    BY <1>2, InflatedType
  <2>2. r = [e EXCEPT !.cwnd = w]
    BY <1>4, <1>6, <1>8
  <2> HIDE DEF w
  <2>3. Tuned(r, d, k, w, d.ssthresh, d.flags, d.nrtx)
    BY <1>1, <2>2 DEF Tuned, Pcb
  <2> QED
    BY <1>2, <1>3, <1>7, <2>1, <2>3, TunedReady
<1>9. ASSUME r = e
      PROVE  Ready(r) /\ Onward(r, d)
  <2>1. Tuned(r, d, k, d.cwnd, d.ssthresh, d.flags, d.nrtx)
    BY <1>1, <1>9 DEF Tuned, Pcb
  <2> QED
    BY <1>2, <1>3, <1>7, <2>1, TunedReady
<1>10. CASE ~(k > 3) /\ k # 3
  <2>1. r = e
    BY <1>4, <1>6, <1>10
  <2> QED
    BY <1>9, <2>1
<1>11. CASE k = 3
  <2>1. ~(k > 3)
    BY <1>11
  <2>2. r = tcp_rexmit_fast(e)
    BY <1>4, <1>6, <1>11, <2>1
  <2>3. CASE e.unacked = <<>> \/ "TF_INFR" \in e.flags
    <3>1. r = e
      BY <2>2, <2>3 DEF tcp_rexmit_fast
    <3> QED
      BY <1>9, <3>1
  <2>4. CASE ~(e.unacked = <<>> \/ "TF_INFR" \in e.flags)
    <3> DEFINE h == Half(e)
               w == h + 3 * TCP_MSS
               g == d.flags \cup {"TF_INFR"}
               f == [d EXCEPT !.dupacks = k, !.cwnd = w, !.ssthresh = h, !.flags = g,
                              !.nrtx = TRUE]
               v == Tail(d.unacked)
               q == Sorted(d.unsent, Head(d.unacked))
    <3>1. /\ h \in 2 * TCP_MSS .. U16 - 1 /\ h \in Nat /\ w \in TCP_MSS .. U16 - 1
      BY <1>6, HalfFacts
    <3>2. /\ g \in SUBSET Flags /\ "TF_INFR" \in g /\ ("TF_FIN" \in g <=> "TF_FIN" \in d.flags)
      BY <1>2 DEF Flags
    <3>3. tcp_rexmit(e) = [e EXCEPT !.unacked = v, !.unsent = q, !.nrtx = TRUE]
      BY <1>6, <2>4 DEF tcp_rexmit
    <3> DEFINE y == tcp_rexmit(e)
    <3>4. y.flags = d.flags
      <4> HIDE DEF v, q, y
      <4>1. y = [e EXCEPT !.unacked = v, !.unsent = q, !.nrtx = TRUE]
        BY <3>3 DEF y
      <4> QED
        BY <1>6, <4>1 DEF Pcb
    <3>5. r = [y EXCEPT !.ssthresh = h, !.cwnd = w, !.flags = g]
      BY <2>2, <2>4, <3>4 DEF tcp_rexmit_fast, Half
    <3> HIDE DEF h, w, g, v, q
    <3>6. r = [f EXCEPT !.unacked = v, !.unsent = q]
      BY <1>1, <3>3, <3>5 DEF Pcb
    <3>7. Tuned(f, d, k, w, h, g, TRUE)
      BY DEF Tuned
    <3> HIDE DEF f
    <3>8. /\ Ready(f) /\ Onward(f, d) /\ f.unacked = d.unacked /\ f.unsent = d.unsent
          /\ f.flags = g /\ f.rtime = d.rtime
      BY <1>3, <3>1, <3>2, <3>7, TunedReady
    <3>9. Resends(r, f)
      BY <3>6, <3>8 DEF Resends, v, q
    <3>10. Again(r, f)
      BY <1>5, <1>6, <1>11, <2>4, <3>2, <3>8, <3>9 DEF Again
    <3> QED
      BY <3>8, <3>10
  <2> QED
    BY <2>3, <2>4
<1> QED
  BY <1>8, <1>10, <1>11

(* The window after an ACK for something new.                              *)
Windowed(d, c, a) ==
  /\ d.unsent = c.unsent /\ d.unacked = c.unacked
  /\ d.snd_nxt = c.snd_nxt /\ d.lastack = c.lastack /\ d.snd_lbb = c.snd_lbb
  /\ d.snd_buf = c.snd_buf /\ d.snd_queuelen = c.snd_queuelen
  /\ d.unsent_oversize = c.unsent_oversize /\ d.flags = c.flags
  /\ d.ssthresh = c.ssthresh /\ d.state = c.state
  /\ Right(c) <= a.ackno + d.snd_wnd /\ a.ackno <= d.snd_wl2
  /\ \/ d.snd_wl2 = c.snd_wl2 /\ d.snd_wnd = c.snd_wnd
     \/ d.snd_wl2 = a.ackno /\ d.snd_wnd = a.wnd

LEMMA WindowUpdated ==
  ASSUME NEW c \in Pcb, NEW a, Answer(c, a), c.lastack < a.ackno, NEW d,
         d = UpdateWindow(c, a)
  PROVE  d \in Pcb /\ Windowed(d, c, a)
<1>2. /\ c.lastack \in Nat /\ c.snd_wl2 \in Nat /\ c.snd_wnd \in Nat /\ c.persist \in BOOLEAN
  BY PcbFacts, SizeAssumption
<1>3. /\ a.ackno \in Nat /\ a.wnd \in 0 .. PeerBuf /\ a.wnd \in Nat /\ c.lastack <= c.snd_wl2
      /\ c.snd_wl2 < a.ackno => c.snd_wl2 + c.snd_wnd <= a.ackno + a.wnd
  BY SizeAssumption DEF Answer
<1>4. CASE c.snd_wl2 < a.ackno \/ (c.snd_wl2 = a.ackno /\ a.wnd > c.snd_wnd)
  <2> DEFINE p == c.persist /\ a.wnd = 0
  <2>1. d = [c EXCEPT !.snd_wnd = a.wnd, !.snd_wl2 = a.ackno, !.persist = p]
    BY <1>4 DEF UpdateWindow
  <2>2. p \in BOOLEAN
    OBVIOUS
  <2> HIDE DEF p
  <2>3. d \in Pcb
    BY <1>3, <2>1, <2>2 DEF Pcb
  <2>4. /\ d.flags = c.flags /\ d.unsent = c.unsent /\ d.unacked = c.unacked
        /\ d.snd_nxt = c.snd_nxt /\ d.lastack = c.lastack /\ d.snd_lbb = c.snd_lbb
        /\ d.snd_buf = c.snd_buf /\ d.snd_queuelen = c.snd_queuelen
        /\ d.unsent_oversize = c.unsent_oversize /\ d.snd_wnd = a.wnd
        /\ d.snd_wl2 = a.ackno /\ d.ssthresh = c.ssthresh /\ d.state = c.state
    BY <2>1 DEF Pcb
  <2>5. c.lastack + c.snd_wnd <= a.ackno + a.wnd /\ a.ackno <= a.ackno
    BY <1>2, <1>3, <1>4
  <2> QED
    BY <2>3, <2>4, <2>5 DEF Windowed, Right
<1>5. CASE ~(c.snd_wl2 < a.ackno \/ (c.snd_wl2 = a.ackno /\ a.wnd > c.snd_wnd))
  <2>1. d = c
    BY <1>5 DEF UpdateWindow
  <2>2. c.lastack + c.snd_wnd <= a.ackno + c.snd_wnd /\ a.ackno <= c.snd_wl2
    BY <1>2, <1>3, <1>5
  <2> QED
    BY <2>1, <2>2 DEF Windowed, Right
<1> QED
  BY <1>4, <1>5

(* The congestion window after an ACK.                                     *)
Opened(d) ==
  LET base == IF "TF_INFR" \in d.flags THEN d.ssthresh ELSE d.cwnd
      slow == (base + (TCP_MSS * TCP_MSS) \div base) % U16
  IN IF base < d.ssthresh THEN Inflated(base) ELSE Greater(base, slow)

LEMMA OpenedType ==
  ASSUME NEW d \in Pcb, Recovers(d)
  PROVE  Opened(d) \in TCP_MSS .. U16 - 1
<1> DEFINE base == IF "TF_INFR" \in d.flags THEN d.ssthresh ELSE d.cwnd
           k == (TCP_MSS * TCP_MSS) \div base
           slow == (base + k) % U16
<1>1. /\ d.cwnd \in TCP_MSS .. U16 - 1 /\ d.ssthresh \in Nat
      /\ TCP_MSS \in Nat /\ TCP_MSS > 0 /\ U16 \in Nat /\ U16 > 6 * TCP_MSS
  BY PcbFacts, SizeAssumption
<1>2. base \in TCP_MSS .. U16 - 1
  <2>1. CASE "TF_INFR" \in d.flags
    <3>1. d.ssthresh \in 2 * TCP_MSS .. U16 - 1 /\ base = d.ssthresh
      BY <2>1 DEF Recovers
    <3> HIDE DEF base
    <3> QED
      BY <1>1, <3>1
  <2>2. CASE "TF_INFR" \notin d.flags
    BY <1>1, <2>2
  <2> QED
    BY <2>1, <2>2
<1>3. Opened(d) = IF base < d.ssthresh THEN Inflated(base) ELSE Greater(base, slow)
  BY DEF Opened
<1> HIDE DEF base
<1>4. k \in Int
  <2>1. TCP_MSS * TCP_MSS \in Nat /\ base \in Nat /\ base > 0
    BY <1>1, <1>2
  <2> DEFINE m == TCP_MSS * TCP_MSS
  <2> HIDE DEF m
  <2>2. m \div base \in Int
    BY <2>1 DEF m
  <2> QED
    BY <2>2 DEF m
<1> HIDE DEF k
<1>5. slow \in 0 .. U16 - 1
  <2>1. base + k \in Int
    BY <1>1, <1>2, <1>4
  <2> QED
    BY <1>1, <2>1
<1> HIDE DEF slow
<1>6. Inflated(base) \in TCP_MSS .. U16 - 1
  BY <1>2, InflatedType
<1>7. Greater(base, slow) \in TCP_MSS .. U16 - 1
  BY <1>1, <1>2, <1>5 DEF Greater
<1> QED
  BY <1>3, <1>6, <1>7

(* NewAck and AckUnsent in their parts: v and r are what is left of the    *)
(* queues.                                                                 *)
Trimmed(f, d, a, v, r, cwnd, ql, flags, buf) ==
  /\ f \in Pcb
  /\ f.unacked = v /\ f.unsent = r /\ f.snd_nxt = d.snd_nxt /\ f.lastack = a.ackno
  /\ f.snd_lbb = d.snd_lbb /\ f.snd_buf = buf /\ f.snd_queuelen = ql
  /\ f.unsent_oversize = d.unsent_oversize /\ f.snd_wnd = d.snd_wnd
  /\ f.snd_wl2 = d.snd_wl2 /\ f.cwnd = cwnd /\ f.flags = flags /\ f.state = d.state

LEMMA TrimFacts ==
  ASSUME NEW d \in Pcb, NEW a, a.ackno \in Nat, a.ackno <= d.snd_nxt, NEW v, NEW r,
         v = Rest(d.unacked, a.ackno), r = Rest(d.unsent, a.ackno), Recovers(d),
         NEW ql \in 0 .. TCP_SND_QUEUELEN, NEW buf \in Nat,
         ql = d.snd_queuelen - Pbufs(Acked(d.unacked, a.ackno))
                - Pbufs(Acked(d.unsent, a.ackno)),
         buf = d.snd_buf + a.ackno - d.lastack,
         NEW f, f = AckUnsent(NewAck(d, a), a)
  PROVE  Trimmed(f, d, a, v, r, Opened(d), ql, d.flags \ {"TF_INFR"}, buf)
<1> DEFINE q1 == d.snd_queuelen - Pbufs(Acked(d.unacked, a.ackno))
           w == Opened(d)
           g == d.flags \ {"TF_INFR"}
           x == v # <<>>
           n == NewAck(d, a)
<1>1. /\ d.unacked \in Seq(Segment) /\ d.unsent \in Seq(Segment) /\ d.flags \subseteq Flags
      /\ d.snd_nxt \in Nat
  BY PcbFacts
<1>2. v \in Seq(Segment) /\ r \in Seq(Segment)
  BY <1>1, AckedRest
<1>3. w \in TCP_MSS .. U16 - 1
  BY OpenedType
<1>4. n = [d EXCEPT !.flags = g, !.nrtx = FALSE, !.snd_buf = buf, !.dupacks = 0,
                    !.lastack = a.ackno, !.cwnd = w, !.unacked = v,
                    !.snd_queuelen = q1, !.rtime = x]
  BY DEF NewAck, Opened
<1>5. g \in SUBSET Flags /\ x \in BOOLEAN
  BY <1>1
<1>6. n.snd_nxt = d.snd_nxt /\ n.unsent = d.unsent /\ n.snd_queuelen = q1
  <2> HIDE DEF n, g, w, q1, x
  <2> QED
    BY <1>4 DEF Pcb
<1>7. ~(a.ackno > d.snd_nxt)
  BY <1>1
<1>8. f = [n EXCEPT !.unsent = r, !.snd_queuelen = ql]
  <2>1. f = [n EXCEPT !.unsent = Rest(n.unsent, a.ackno),
                      !.snd_queuelen = n.snd_queuelen - Pbufs(Acked(n.unsent, a.ackno))]
    BY <1>6, <1>7 DEF AckUnsent
  <2> HIDE DEF n, q1
  <2>2. n.snd_queuelen - Pbufs(Acked(n.unsent, a.ackno)) = ql
    BY <1>6 DEF q1
  <2> QED
    BY <1>6, <2>1, <2>2
<1> HIDE DEF n, g, w, q1, x
<1>9. f = [d EXCEPT !.flags = g, !.nrtx = FALSE, !.snd_buf = buf, !.dupacks = 0,
                    !.lastack = a.ackno, !.cwnd = w, !.unacked = v,
                    !.snd_queuelen = ql, !.rtime = x, !.unsent = r]
  BY <1>4, <1>8 DEF Pcb
<1>10. f \in Pcb
  <2> DEFINE m == [d EXCEPT !.flags = g, !.nrtx = FALSE, !.snd_buf = buf, !.dupacks = 0,
                            !.lastack = a.ackno]
  <2>1. m \in Pcb
    <3>1. /\ d \in Pcb /\ g \in SUBSET Flags /\ buf \in Nat /\ a.ackno \in Nat
          /\ 0 \in 0 .. 4 /\ FALSE \in BOOLEAN
      BY <1>5
    <3> QED
      BY ONLY <3>1 DEF Pcb, m
  <2>2. f = [m EXCEPT !.cwnd = w, !.unacked = v, !.snd_queuelen = ql, !.rtime = x,
                      !.unsent = r]
    BY <1>9 DEF Pcb
  <2> HIDE DEF m
  <2> QED
    BY <1>2, <1>3, <1>5, <2>1, <2>2 DEF Pcb
<1>11. Trimmed(f, d, a, v, r, w, ql, g, buf)
  BY <1>9, <1>10 DEF Pcb, Trimmed
<1> QED
  BY <1>11 DEF w, g

(* What is left of a queue has no FIN if the queue has none.               *)
LEMMA LeftNoFin ==
  ASSUME NEW q \in Seq(Segment), NEW r, NEW ackno, Left(q, r, ackno), NoFin(q)
  PROVE  NoFin(r)
BY DEF Left, NoFin

(* An ACK for something new leaves the queues in line.                     *)
LEMMA NewAckReady ==
  ASSUME NEW c, Ready(c), NEW a, Answer(c, a), c.lastack < a.ackno,
         a.ackno <= c.snd_nxt, NEW d, d = UpdateWindow(c, a),
         NEW f, f = AckUnsent(NewAck(d, a), a)
  PROVE  Ready(f) /\ Hears(f, c, a)
<1> DEFINE u == c.unacked
           t == c.unsent
           n == a.ackno
           v == Rest(u, n)
           r == Rest(t, n)
           buf == c.snd_buf + n - c.lastack
           ql == c.snd_queuelen - Pbufs(Acked(u, n)) - Pbufs(Acked(t, n))
<1>1. /\ c \in Pcb /\ c.state \in Active /\ Row(c) /\ Plain(c) /\ Books(c) /\ Spare(c)
      /\ Recovers(c)
  BY DEF Ready
<1>2. /\ u \in Seq(Segment) /\ t \in Seq(Segment) /\ c.snd_nxt \in Nat
      /\ c.lastack \in Nat /\ c.snd_buf \in Nat /\ c.snd_lbb \in Nat
      /\ c.snd_queuelen \in 0 .. TCP_SND_QUEUELEN
      /\ Edge(c) \in Nat /\ Right(c) \in Nat
  BY <1>1, PcbFacts, EdgeFacts
<1>3. n \in Nat
  BY DEF Answer
<1>4. d \in Pcb /\ Windowed(d, c, a)
  BY <1>1, WindowUpdated
<1>5. /\ d.unsent = t /\ d.unacked = u /\ d.snd_nxt = c.snd_nxt /\ d.lastack = c.lastack
      /\ d.snd_lbb = c.snd_lbb /\ d.snd_buf = c.snd_buf
      /\ d.snd_queuelen = c.snd_queuelen /\ d.unsent_oversize = c.unsent_oversize
      /\ d.flags = c.flags /\ d.ssthresh = c.ssthresh /\ d.state = c.state
  BY <1>4 DEF Windowed
<1>6. /\ Pbufs(u) = Pbufs(Acked(u, n)) + Pbufs(v) /\ Pbufs(t) = Pbufs(Acked(t, n)) + Pbufs(r)
      /\ Pbufs(Acked(u, n)) \in Nat /\ Pbufs(v) \in Nat
      /\ Pbufs(Acked(t, n)) \in Nat /\ Pbufs(r) \in Nat
  BY <1>2, AckedRest, PbufsType
<1>7. c.snd_queuelen = Pbufs(t) + Pbufs(u)
      /\ c.snd_buf + c.snd_lbb - c.lastack = TCP_SND_BUF
  BY <1>1 DEF Books
<1>8. ql = Pbufs(r) + Pbufs(v) /\ ql \in 0 .. TCP_SND_QUEUELEN
  <2>1. ql = Pbufs(r) + Pbufs(v)
    BY <1>6, <1>7
  <2>2. ql \in Nat /\ ql <= c.snd_queuelen
    BY <1>6, <1>7
  <2> HIDE DEF ql
  <2> QED
    BY <1>2, <2>1, <2>2, SizeAssumption
<1>9. buf \in Nat /\ buf + c.snd_lbb - n = TCP_SND_BUF
  <2>1. TCP_SND_BUF \in Nat
    BY SizeAssumption
  <2>2. c.snd_buf \in Nat /\ c.snd_lbb \in Nat /\ c.lastack \in Nat
    BY <1>2
  <2>3. c.lastack < n
    OBVIOUS
  <2> HIDE DEF n
  <2> QED
    BY <1>3, <1>7, <2>1, <2>2, <2>3
<1>10. Recovers(d)
  BY <1>1, <1>5 DEF Recovers
<1>11. Left(u, v, n) /\ Left(t, r, n)
  <2>1. Chain(u) /\ Chain(t)
    BY <1>1 DEF Row, Line
  <2> QED
    BY <1>2, <1>3, <2>1, RestLeft
<1>12. ql = d.snd_queuelen - Pbufs(Acked(d.unacked, a.ackno))
              - Pbufs(Acked(d.unsent, a.ackno))
       /\ buf = d.snd_buf + a.ackno - d.lastack
       /\ v = Rest(d.unacked, a.ackno) /\ r = Rest(d.unsent, a.ackno)
       /\ a.ackno <= d.snd_nxt /\ a.ackno \in Nat
  BY <1>3, <1>5
<1> HIDE DEF v, r, ql, buf, n
<1>13. Trimmed(f, d, a, v, r, Opened(d), ql, d.flags \ {"TF_INFR"}, buf)
  BY <1>4, <1>8, <1>9, <1>10, <1>12, TrimFacts
<1>14. /\ f \in Pcb
       /\ f.unacked = v /\ f.unsent = r /\ f.snd_nxt = c.snd_nxt /\ f.lastack = n
       /\ f.snd_lbb = c.snd_lbb /\ f.snd_buf = buf /\ f.snd_queuelen = ql
       /\ f.unsent_oversize = c.unsent_oversize /\ f.snd_wnd = d.snd_wnd
       /\ f.snd_wl2 = d.snd_wl2 /\ f.flags = c.flags \ {"TF_INFR"} /\ f.state = c.state
  BY <1>5, <1>13 DEF Trimmed, n
<1>15. /\ Edge(f) = Edge(c)
       /\ Right(f) = n + d.snd_wnd /\ Right(f) \in Nat /\ Right(c) <= Right(f)
  <2>1. Edge(f) = Edge(c)
    BY <1>14 DEF Edge
  <2>2. Right(f) \in Nat
    BY <1>14, EdgeFacts
  <2> QED
    BY <1>4, <1>14, <2>1, <2>2 DEF Right, Windowed, n
<1>16. c.lastack < n /\ n <= c.snd_nxt /\ c.lastack <= n
  BY <1>2, <1>3 DEF n
<1>17. Line(v, r, n, c.snd_nxt, Edge(c), Right(f))
  BY <1>1, <1>2, <1>3, <1>11, <1>15, <1>16, AckLine DEF Row
<1>18. Reach(u, t, c.snd_nxt) <= Reach(v, r, c.snd_nxt)
  BY <1>1, <1>2, <1>3, <1>11, <1>16, AckReach DEF Row
<1>19. Row(f) /\ ReachOf(c) <= ReachOf(f)
  BY <1>14, <1>15, <1>17, <1>18 DEF Row, ReachOf
<1>20. Plain(f)
  <2> SUFFICES ASSUME c.state \in Open
               PROVE  NoFin(v) /\ NoFin(r) /\ "TF_FIN" \notin c.flags
    BY <1>14 DEF Plain
  <2>1. NoFin(u) /\ NoFin(t) /\ "TF_FIN" \notin c.flags
    BY <1>1 DEF Plain
  <2> QED
    BY <1>2, <1>11, <2>1, LeftNoFin
<1>21. Books(f)
  BY <1>8, <1>9, <1>14 DEF Books
<1>22. Spare(f)
  <2> SUFFICES ASSUME r # <<>>
               PROVE  c.unsent_oversize <= r[Len(r)].room
    BY <1>14 DEF Spare
  <2>1. t # <<>> /\ r[Len(r)] = t[Len(t)]
    BY <1>11 DEF Left
  <2> QED
    BY <1>1, <2>1 DEF Spare
<1>23. Recovers(f)
  BY <1>14 DEF Recovers
<1>24. Ready(f)
  BY <1>1, <1>14, <1>19, <1>20, <1>21, <1>22, <1>23 DEF Ready
<1>25. Hears(f, c, a)
  BY <1>4, <1>14, <1>19 DEF Hears, Windowed, n
<1> QED
  BY <1>24, <1>25

(* The states of closing after an ACK: r, or what comes of it.             *)
Processed(d, r, a) ==
  d = IF a.ackno # r.snd_nxt THEN r
      ELSE IF r.state = "FIN_WAIT_1" THEN [r EXCEPT !.state = "FIN_WAIT_2"]
      ELSE IF r.state = "LAST_ACK"
      THEN [tcp_pcb_purge(r) EXCEPT !.state = "CLOSED"]
      ELSE r

(* snd_buf is at most one more than what it was: by a FIN that went with   *)
(* data and is acknowledged.                                               *)
LEMMA BufBound ==
  ASSUME NEW c, Ready(c)
  PROVE  c.snd_buf <= TCP_SND_BUF + 1
<1>1. c \in Pcb /\ Row(c) /\ Books(c)
  BY DEF Ready
<1>2. /\ c.snd_buf \in Nat /\ c.snd_lbb \in Nat /\ c.lastack \in Nat /\ c.snd_nxt \in Nat
      /\ Edge(c) \in Nat /\ Edge(c) <= c.snd_lbb + 1 /\ TCP_SND_BUF \in Nat
  BY <1>1, PcbFacts, EdgeFacts, SizeAssumption
<1>3. c.lastack <= c.snd_nxt /\ c.snd_nxt <= Edge(c)
  BY <1>1 DEF Row, Line
<1>4. c.snd_buf + c.snd_lbb - c.lastack = TCP_SND_BUF
  BY <1>1 DEF Books
<1> QED
  BY <1>2, <1>3, <1>4

(* The connection is purged and in state st.                               *)
LEMMA PurgeFacts ==
  ASSUME NEW c, Ready(c), NEW st \in {"CLOSED", "ABORTED"}, NEW d,
         d = [tcp_pcb_purge(c) EXCEPT !.state = st]
  PROVE  d \in Pcb /\ Empty(d) /\ d.state = st
<1> DEFINE e == tcp_pcb_purge(c)
<1>1. e = [c EXCEPT !.unsent = <<>>, !.unacked = <<>>, !.unsent_oversize = 0,
                    !.snd_queuelen = 0, !.rtime = FALSE, !.persist = FALSE]
  BY DEF tcp_pcb_purge
<1>2. <<>> \in Seq(Segment) /\ 0 \in Nat /\ 0 \in 0 .. TCP_SND_QUEUELEN
  BY SizeAssumption
<1> HIDE DEF e
<1>9. c \in Pcb
  BY DEF Ready
<1>3. e \in Pcb
  BY <1>1, <1>2, <1>9 DEF Pcb
<1>4. e.unsent = <<>> /\ e.unacked = <<>> /\ e.unsent_oversize = 0 /\ e.snd_buf = c.snd_buf
  BY <1>1, <1>9 DEF Pcb
<1>5. d = [e EXCEPT !.state = st]
  BY DEF e
<1>6. st \in Active \cup {"CLOSED", "ABORTED"}
  OBVIOUS
<1>7. d \in Pcb
  BY <1>3, <1>5, <1>6 DEF Pcb
<1>8. d.unsent = e.unsent /\ d.unacked = e.unacked /\ d.unsent_oversize = e.unsent_oversize
      /\ d.state = st /\ d.snd_buf = e.snd_buf
  BY <1>3, <1>5 DEF Pcb
<1> QED
  BY <1>4, <1>7, <1>8, BufBound DEF Empty

LEMMA ProcessReady ==
  ASSUME NEW r, Ready(r), NEW a, NEW d, Processed(d, r, a)
  PROVE  \/ Ready(d) /\ Onward(d, r)
         \/ d \in Pcb /\ Empty(d) /\ d.state = "CLOSED"
<1>1. r \in Pcb /\ r.state \in Active /\ Recovers(r)
  BY DEF Ready
<1>2. r.snd_wnd <= r.snd_wnd /\ ReachOf(r) <= ReachOf(r)
  BY <1>1, PcbFacts, ReachOfType, SizeAssumption
<1>3. ASSUME d = r
      PROVE  Ready(d) /\ Onward(d, r)
  BY <1>2, <1>3 DEF Onward
<1>4. CASE a.ackno = r.snd_nxt /\ r.state = "FIN_WAIT_1"
  <2>1. d = [r EXCEPT !.state = "FIN_WAIT_2"]
    BY <1>4 DEF Processed
  <2>2. d \in Pcb
    BY <1>1, <2>1 DEF Pcb, Active
  <2>3. /\ d.flags = r.flags /\ d.unsent = r.unsent /\ d.unacked = r.unacked
        /\ d.snd_nxt = r.snd_nxt /\ d.lastack = r.lastack /\ d.snd_lbb = r.snd_lbb
        /\ d.snd_buf = r.snd_buf /\ d.snd_queuelen = r.snd_queuelen
        /\ d.unsent_oversize = r.unsent_oversize /\ d.snd_wnd = r.snd_wnd
        /\ d.snd_wl2 = r.snd_wl2 /\ d.ssthresh = r.ssthresh /\ d.state = "FIN_WAIT_2"
    BY <1>1, <2>1 DEF Pcb
  <2>4. Same(d, r)
    BY <1>1, <1>2, <1>4, <2>3 DEF Same, Recovers, Active, Open
  <2>5. Ready(d) /\ ReachOf(d) = ReachOf(r)
    BY <2>2, <2>4, SameReady
  <2> QED
    BY <1>2, <2>3, <2>5 DEF Onward
<1>5. CASE a.ackno = r.snd_nxt /\ r.state = "LAST_ACK"
  <2>1. d = [tcp_pcb_purge(r) EXCEPT !.state = "CLOSED"]
    BY <1>5 DEF Processed
  <2> QED
    BY <2>1, PurgeFacts
<1>6. CASE a.ackno # r.snd_nxt \/ (r.state # "FIN_WAIT_1" /\ r.state # "LAST_ACK")
  <2>1. d = r
    BY <1>6 DEF Processed
  <2> QED
    BY <1>3, <2>1
<1> QED
  BY <1>4, <1>5, <1>6

(* What comes of an ACK.                                                   *)
Answered(d, c, a) ==
  \/ \E e \in Pcb : /\ Leaves(d, e) /\ e.state \in Active
                    /\ Hears(e, c, a)
  \/ d \in Pcb /\ Empty(d) /\ d.state = "CLOSED"

(* The connection r after tcp_receive is in line, and so it is answered.   *)
LEMMA ReadyAnswered ==
  ASSUME NEW c \in Pcb, NEW a, NEW r, Ready(r), Hears(r, c, a), NEW d, Processed(d, r, a)
  PROVE  Answered(d, c, a)
<1>1. CASE Ready(d) /\ Onward(d, r)
  <2>1. r \in Pcb /\ d \in Pcb /\ d.state \in Active
    BY <1>1 DEF Ready
  <2>2. Hears(d, c, a)
    BY <1>1, <2>1, HearsOn
  <2>3. Leaves(d, d)
    BY <1>1, OutputReady
  <2> QED
    BY <2>1, <2>2, <2>3 DEF Answered
<1>2. CASE d \in Pcb /\ Empty(d) /\ d.state = "CLOSED"
  BY <1>2 DEF Answered
<1> QED
  BY <1>1, <1>2, ProcessReady

LEMMA InputFacts ==
  ASSUME NEW c, Ready(c), NEW a, Answer(c, a)
  PROVE  Answered(tcp_process(c, a), c, a)
<1> DEFINE p == tcp_process(c, a)
           s == tcp_receive(c, a)
           d == UpdateWindow(c, a)
<1>1. c \in Pcb /\ Row(c)
  BY DEF Ready
<1>2. /\ c.lastack \in Nat /\ c.snd_nxt \in Nat /\ a.ackno \in Nat /\ c.unacked \in Seq(Segment)
      /\ a.ackno <= ReachOf(c)
  BY <1>1, PcbFacts DEF Answer
<1>3. Processed(p, s, a)
  BY DEF tcp_process, Processed
<1>4. s = AckUnsent(IF a.ackno <= c.lastack THEN OldAck(c, d, a)
                    ELSE IF a.ackno <= c.snd_nxt THEN NewAck(d, a)
                    ELSE d, a)
  BY DEF tcp_receive
<1> HIDE DEF p, s, d
<1>5. CASE a.ackno <= c.lastack
  <2> DEFINE r == OldAck(c, d, a)
  <2>1. s = AckUnsent(r, a)
    BY <1>4, <1>5
  <2>2. /\ Ready(d) /\ Hears(d, c, a) /\ d.lastack = c.lastack
    BY <1>5, UpdateReady DEF d
  <2>3. d \in Pcb
    BY <2>2 DEF Ready
  <2>4. CASE Ready(r) /\ Onward(r, d)
    <3> HIDE DEF r
    <3>1. r \in Pcb /\ r.lastack = c.lastack
      BY <2>2, <2>4 DEF Ready, Onward
    <3>2. r.unsent # <<>> => ~(End(r.unsent[1]) <= a.ackno)
      BY <1>2, <1>5, <2>4, <3>1, UnsentBeyond
    <3>3. s = r
      BY <2>1, <3>1, <3>2, AckNothing
    <3>4. Hears(r, c, a)
      BY <1>1, <2>2, <2>3, <2>4, <3>1, HearsOn
    <3>5. Answered(p, c, a)
      BY <1>1, <1>3, <2>4, <3>3, <3>4, ReadyAnswered
    <3> QED
      BY <3>5 DEF p
  <2>5. CASE \E f : Again(r, f) /\ Onward(f, d)
    <3> HIDE DEF r
    <3>1. PICK f : Again(r, f) /\ Onward(f, d)
      BY <2>5
    <3>2. /\ Ready(f) /\ f.unacked # <<>> /\ "TF_INFR" \in f.flags /\ f.rtime = TRUE
          /\ Resends(r, f)
      BY <3>1 DEF Again
    <3> DEFINE u == f.unacked
               t == f.unsent
               q == <<u[1]>> \o t
               v == Tail(u)
    <3>3. f \in Pcb /\ f.state \in Active /\ Row(f) /\ f.lastack = c.lastack
      BY <2>2, <3>1, <3>2 DEF Ready, Onward
    <3>4. /\ u \in Seq(Segment) /\ t \in Seq(Segment) /\ f.lastack \in Nat /\ f.snd_nxt \in Nat
      BY <3>3, PcbFacts
    <3>5. /\ Chain(u) /\ Chain(t) /\ Linked(u, t) /\ f.lastack < End(u[1])
          /\ Sent(u, f.snd_nxt, Right(f))
      BY <3>2, <3>3 DEF Row, Line, Starts, Holds
    <3>6. /\ u[1] \in Segment /\ End(u[1]) \in Nat /\ 1 \in 1 .. Len(u) /\ Head(u) = u[1]
          /\ v \in Seq(Segment)
      BY <3>2, <3>4, QueueFacts, TailFacts
    <3>7. Sorted(t, u[1]) = q
      BY <3>2, <3>4, <3>5, FirstAgain
    <3>8. q \in Seq(Segment) /\ q[1] = u[1]
      <4>1. <<u[1]>> \in Seq(Segment) /\ Len(<<u[1]>>) = 1 /\ <<u[1]>>[1] = u[1] /\ 1 \in 1 .. 1
        BY <3>6, OneFacts
      <4> QED
        BY <3>4, <4>1, JoinFacts
    <3>9. r = [f EXCEPT !.unacked = v, !.unsent = q]
      BY <3>2, <3>6, <3>7 DEF Resends
    <3> HIDE DEF q, v
    <3>10. r \in Pcb /\ r.unsent = q /\ r.snd_nxt = f.snd_nxt
      BY <3>3, <3>6, <3>8, <3>9 DEF Pcb
    <3>11. End(u[1]) <= f.snd_nxt
      BY <3>5, <3>6 DEF Sent
    <3> DEFINE z == End(u[1])
    <3>12. z \in Nat /\ z <= f.snd_nxt /\ f.lastack < z /\ a.ackno <= f.lastack
      BY <1>5, <3>3, <3>5, <3>6, <3>11
    <3> HIDE DEF z
    <3>13. ~(z <= a.ackno) /\ a.ackno # f.snd_nxt
      BY <1>2, <3>4, <3>12
    <3>14. s = r
      BY <2>1, <3>8, <3>10, <3>13, AckNothing DEF z
    <3>15. p = r
      BY <1>3, <3>10, <3>13, <3>14 DEF Processed
    <3>16. Leaves(r, f)
      BY <3>2, OutputAgain
    <3>17. Hears(f, c, a)
      BY <1>1, <2>2, <2>3, <3>1, <3>3, HearsOn
    <3>18. Answered(p, c, a)
      BY <3>3, <3>15, <3>16, <3>17 DEF Answered
    <3> QED
      BY <3>18 DEF p
  <2> QED
    BY <2>2, <2>4, <2>5, OldAckFacts
<1>6. CASE c.lastack < a.ackno /\ a.ackno <= c.snd_nxt
  <2>1. ~(a.ackno <= c.lastack)
    BY <1>2, <1>6
  <2>2. s = AckUnsent(NewAck(d, a), a)
    BY <1>4, <1>6, <2>1
  <2>3. Ready(s) /\ Hears(s, c, a)
    BY <1>6, <2>2, NewAckReady DEF d
  <2>4. Answered(p, c, a)
    BY <1>1, <1>3, <2>3, ReadyAnswered
  <2> QED
    BY <2>4 DEF p
<1>7. CASE c.lastack < a.ackno /\ c.snd_nxt < a.ackno
  <2>1. ~(a.ackno <= c.lastack) /\ ~(a.ackno <= c.snd_nxt) /\ a.ackno > c.snd_nxt
    BY <1>2, <1>7
  <2>2. c.unacked = <<>>
    <3> SUFFICES ASSUME c.unacked # <<>>
                 PROVE  FALSE
      OBVIOUS
    <3>1. ReachOf(c) = c.snd_nxt
      BY <1>2, ReachFacts DEF ReachOf
    <3> QED
      BY <1>2, <2>1, <3>1
  <2>3. /\ Ready(d) /\ Hears(d, c, a) /\ d.snd_nxt = c.snd_nxt
    BY <2>2, UpdateReady DEF d
  <2>4. s = d
    BY <1>4, <2>1, <2>3 DEF AckUnsent
  <2>5. Answered(p, c, a)
    BY <1>1, <1>3, <2>3, <2>4, ReadyAnswered
  <2> QED
    BY <2>5 DEF p
<1> QED
  BY <1>2, <1>5, <1>6, <1>7

-----------------------------------------------------------------------------
(* The remote host and the network                                         *)

(* What the remote host has got is the start of the stream.                *)
Host == {r \in [got : Seq(Nat), fin : BOOLEAN, unread : 0 .. PeerBuf] :
           r.got = Bytes(0, Len(r.got))}

(* The right edge of the window it has announced last.                     *)
Limit(r) == PeerNext(r) + PeerBuf - r.unread

(* What the sender goes by, as the ACK it has it from.                     *)
Known(c) == [ackno |-> c.snd_wl2, wnd |-> c.snd_wnd]

(* The ACKs of S are of what r has got, and for no more than its window.   *)
Within(S, r) ==
  \A a \in S : /\ a = [ackno |-> a.ackno, wnd |-> a.wnd]
               /\ a.ackno \in Nat /\ a.wnd \in 0 .. PeerBuf
               /\ a.ackno <= PeerNext(r) /\ a.ackno + a.wnd <= Limit(r)

(* No ACK of S takes back what one for less has announced.                 *)
Consistent(S) ==
  \A a, b \in S : a.ackno < b.ackno => a.ackno + a.wnd <= b.ackno + b.wnd

(* s is at or behind r in everything.                                      *)
Later(s, r) == PeerNext(r) <= PeerNext(s) /\ Limit(r) <= Limit(s)

LEMMA HostFacts ==
  ASSUME NEW r \in Host
  PROVE  /\ r.got \in Seq(Nat) /\ Len(r.got) \in Nat /\ r.fin \in BOOLEAN
         /\ r.unread \in 0 .. PeerBuf /\ r.got = Bytes(0, Len(r.got))
         /\ PeerNext(r) \in Nat /\ Limit(r) \in Nat
         /\ Len(r.got) <= PeerNext(r) /\ PeerNext(r) <= Len(r.got) + 1
         /\ r.fin = FALSE => PeerNext(r) = Len(r.got)
         /\ r.fin = TRUE => PeerNext(r) = Len(r.got) + 1
<1>1. /\ r.got \in Seq(Nat) /\ r.fin \in BOOLEAN
      /\ r.unread \in 0 .. PeerBuf /\ r.got = Bytes(0, Len(r.got))
  BY DEF Host
<1>2. Len(r.got) \in Nat
  BY <1>1
<1>3. /\ PeerNext(r) \in Nat
      /\ Len(r.got) <= PeerNext(r) /\ PeerNext(r) <= Len(r.got) + 1
      /\ r.fin = FALSE => PeerNext(r) = Len(r.got)
      /\ r.fin = TRUE => PeerNext(r) = Len(r.got) + 1
  <2>1. CASE r.fin = TRUE
    <3>1. PeerNext(r) = Len(r.got) + 1
      BY <2>1 DEF PeerNext
    <3> QED
      BY <1>2, <2>1, <3>1
  <2>2. CASE r.fin = FALSE
    <3>1. PeerNext(r) = Len(r.got) + 0
      BY <2>2 DEF PeerNext
    <3> QED
      BY <1>2, <2>2, <3>1
  <2> QED
    BY <1>1, <2>1, <2>2
<1>4. Limit(r) \in Nat
  BY <1>1, <1>3, SizeAssumption DEF Limit
<1> QED
  BY <1>1, <1>2, <1>3, <1>4

(* The answer of the remote host is in order with the earlier ones.        *)
LEMMA Announce ==
  ASSUME NEW S, NEW r \in Host, NEW s \in Host, Within(S, r), Consistent(S), Later(s, r),
         NEW T, T \subseteq S \cup {PeerAck(s)}
  PROVE  Within(T, s) /\ Consistent(T)
<1> DEFINE n == PeerAck(s)
<1>1. /\ PeerNext(r) \in Nat /\ PeerNext(s) \in Nat /\ Limit(r) \in Nat /\ Limit(s) \in Nat
      /\ s.unread \in 0 .. PeerBuf /\ PeerBuf \in Nat
  BY HostFacts, SizeAssumption
<1>2. PeerNext(r) <= PeerNext(s) /\ Limit(r) <= Limit(s)
  BY DEF Later
<1>3. n.ackno = PeerNext(s) /\ n.wnd = PeerBuf - s.unread
  BY DEF PeerAck
<1>4. n.wnd \in 0 .. PeerBuf /\ n.ackno + n.wnd = Limit(s)
  BY <1>1, <1>3 DEF Limit
<1>7. n = [ackno |-> n.ackno, wnd |-> n.wnd]
  BY DEF PeerAck
<1> HIDE DEF n
<1>8. ASSUME NEW a \in T
      PROVE  a = [ackno |-> a.ackno, wnd |-> a.wnd]
  <2>1. CASE a = n
    BY <1>7, <2>1
  <2>2. CASE a \in S
    BY <2>2 DEF Within
  <2> QED
    BY <2>1, <2>2 DEF n
<1>5. ASSUME NEW a \in T
      PROVE  /\ a.ackno \in Nat /\ a.wnd \in 0 .. PeerBuf
             /\ a.ackno <= PeerNext(s) /\ a.ackno + a.wnd <= Limit(s)
  <2>1. CASE a = n
    BY <1>1, <1>3, <1>4, <2>1
  <2>2. CASE a \in S
    <3>1. /\ a.ackno \in Nat /\ a.wnd \in 0 .. PeerBuf
          /\ a.ackno <= PeerNext(r) /\ a.ackno + a.wnd <= Limit(r)
      BY <2>2 DEF Within
    <3> QED
      BY <1>1, <1>2, <3>1
  <2> QED
    BY <2>1, <2>2 DEF n
<1>6. ASSUME NEW a \in T, NEW b \in T, a.ackno < b.ackno
      PROVE  a.ackno + a.wnd <= b.ackno + b.wnd
  <2>1. /\ a.ackno \in Nat /\ b.ackno \in Nat
        /\ a.ackno <= PeerNext(s) /\ b.ackno <= PeerNext(s)
        /\ a.ackno + a.wnd <= Limit(s)
    BY <1>5
  <2>2. CASE b = n
    BY <1>4, <2>1, <2>2
  <2>3. CASE a = n
    BY <1>1, <1>3, <1>6, <2>1, <2>3
  <2>4. CASE a \in S /\ b \in S
    BY <1>6, <2>4 DEF Consistent
  <2> QED
    BY <2>2, <2>3, <2>4 DEF n
<1> QED
  BY <1>5, <1>6, <1>8 DEF Within, Consistent

(* Fewer ACKs.                                                             *)
LEMMA Fewer ==
  ASSUME NEW S, NEW r, NEW T, T \subseteq S, Within(S, r), Consistent(S)
  PROVE  Within(T, r) /\ Consistent(T)
BY DEF Within, Consistent

LEMMA CarryFacts ==
  ASSUME NEW old, NEW new, NEW max, NEW x \in Carry(old, new, max)
  PROVE  x \subseteq old \cup new
BY DEF Carry

LEMMA OnWireJoin ==
  ASSUME NEW S, NEW T, NEW x \in Nat, NEW y \in Nat, x <= y, OnWire(S, x), OnWire(T, y),
         NEW U, U \subseteq S \cup T
  PROVE  OnWire(U, y)
<1> SUFFICES ASSUME NEW s \in U
             PROVE  s \in Wire /\ End(s) <= y
  BY DEF OnWire
<1>1. CASE s \in T
  BY <1>1 DEF OnWire
<1>2. CASE s \in S
  <2>1. s \in Wire /\ End(s) <= x
    BY <1>2 DEF OnWire
  <2>2. End(s) \in Nat
    BY <2>1, WireEnd
  <2> QED
    BY <2>1, <2>2
<1> QED
  BY <1>1, <1>2

LEMMA LesserFacts ==
  ASSUME NEW a \in Nat, NEW b \in Nat
  PROVE  Lesser(a, b) \in Nat /\ Lesser(a, b) <= a /\ Lesser(a, b) <= b
BY DEF Lesser

(* A part of consecutive bytes.                                            *)
LEMMA BytesPart ==
  ASSUME NEW a \in Nat, NEW n \in Nat, NEW m \in Nat, NEW k \in Nat, m + k <= n
  PROVE  SubSeq(Bytes(a, n), m + 1, m + k) = Bytes(a + m, k)
<1> DEFINE x == Bytes(a, n)
           y == Bytes(a + m, k)
           z == SubSeq(x, m + 1, m + k)
<1>1. /\ x \in Seq(Nat) /\ Len(x) = n /\ \A i \in 1 .. n : x[i] = a + i - 1
  BY BytesFacts
<1>2. /\ y \in Seq(Nat) /\ Len(y) = k /\ \A i \in 1 .. k : y[i] = a + m + i - 1
  <2>1. a + m \in Nat
    OBVIOUS
  <2> QED
    BY <2>1, BytesFacts
<1> HIDE DEF x, y
<1>3. \A i \in m + 1 .. m + k : x[i] \in Nat
  BY <1>1
<1>4. /\ z \in Seq(Nat)
      /\ Len(z) = IF m + 1 <= m + k THEN m + k - (m + 1) + 1 ELSE 0
      /\ \A i \in 1 .. m + k - (m + 1) + 1 : z[i] = x[(m + 1) + i - 1]
  <2>1. m + 1 \in Int /\ m + k \in Int
    OBVIOUS
  <2> QED
    BY <1>3, <2>1, SubSeqProperties
<1> HIDE DEF z
<1>5. Len(z) = k /\ m + k - (m + 1) + 1 = k
  BY <1>4
<1>6. \A i \in 1 .. k : z[i] = y[i]
  <2> SUFFICES ASSUME NEW i \in 1 .. k
               PROVE  z[i] = y[i]
    OBVIOUS
  <2>1. (m + 1) + i - 1 = m + i /\ m + i \in 1 .. n /\ a + (m + i) - 1 = a + m + i - 1
    OBVIOUS
  <2>2. z[i] = x[m + i]
    BY <1>4, <1>5, <2>1
  <2>3. x[m + i] = a + (m + i) - 1
    BY <1>1, <2>1
  <2> QED
    BY <1>2, <2>1, <2>2, <2>3
<1>7. z = y
  BY <1>2, <1>4, <1>5, <1>6, SeqEqual
<1> QED
  BY <1>7 DEF x, y, z

(* What the remote host makes of a segment: the stream as far as it goes,  *)
(* never beyond the end of the segment, and the window does not shrink.    *)
LEMMA TakenFacts ==
  ASSUME NEW r \in Host, NEW s \in Wire
  PROVE  /\ Taken(r, s) \in Host /\ Later(Taken(r, s), r)
         /\ PeerNext(Taken(r, s)) <= PeerNext(r) \/ PeerNext(Taken(r, s)) <= End(s)
<1> DEFINE G == Len(r.got)
           P == Len(s.p)
           old == G - s.seqno
           k == Lesser(P - old, PeerBuf - r.unread)
           got == r.got \o SubSeq(s.p, old + 1, old + k)
           b == [got |-> got, fin |-> r.fin, unread |-> r.unread + k]
           f == s.fin /\ Len(got) = s.seqno + P
           t == [got |-> got, fin |-> f, unread |-> r.unread + k]
<1>1. /\ r.got \in Seq(Nat) /\ G \in Nat /\ r.unread \in 0 .. PeerBuf
      /\ r.got = Bytes(0, G) /\ PeerNext(r) \in Nat /\ Limit(r) \in Nat
      /\ r.fin = FALSE => PeerNext(r) = G
      /\ r.fin \in BOOLEAN /\ PeerBuf \in Nat
  BY HostFacts, SizeAssumption
<1>2. /\ s.seqno \in Nat /\ P \in Nat /\ s.fin \in BOOLEAN
      /\ s.p = Bytes(s.seqno, P) /\ End(s) \in Nat
      /\ s.fin = TRUE => End(s) = s.seqno + P + 1
      /\ s.fin = FALSE => End(s) = s.seqno + P
  BY WireEnd
<1>3. CASE r.fin = TRUE \/ old < 0 \/ old > P
  <2>1. Taken(r, s) = r
    BY <1>3 DEF Taken
  <2> QED
    BY <1>1, <2>1 DEF Later
<1>4. CASE r.fin = FALSE /\ ~(old < 0) /\ ~(old > P)
  <2>1. Taken(r, s) = [b EXCEPT !.fin = s.fin /\ Len(b.got) = s.seqno + P]
    BY <1>4 DEF Taken
  <2>2. Taken(r, s) = t
    BY <2>1
  <2> HIDE DEF t, f, got, k, old, G, P
  <2>3. old \in Nat /\ old <= P /\ G = s.seqno + old
    BY <1>1, <1>2, <1>4 DEF old
  <2>4. k \in Nat /\ old + k <= P /\ r.unread + k \in 0 .. PeerBuf
    <3>1. P - old \in Nat /\ PeerBuf - r.unread \in Nat
      BY <1>1, <1>2, <2>3
    <3>2. k \in Nat /\ k <= P - old /\ k <= PeerBuf - r.unread
      BY <3>1, LesserFacts DEF k
    <3>3. P \in Nat /\ r.unread \in 0 .. PeerBuf /\ PeerBuf \in Nat
      BY <1>1, <1>2
    <3> QED
      BY <2>3, <3>2, <3>3
  <2>5. SubSeq(s.p, old + 1, old + k) = Bytes(G, k)
    BY <1>2, <2>3, <2>4, BytesPart
  <2>6. got = Bytes(0, G + k)
    <3>1. Bytes(0, G) \o Bytes(0 + G, k) = Bytes(0, G + k)
      BY <1>1, <2>4, BytesJoin
    <3>2. 0 + G = G
      BY <1>1
    <3> QED
      BY <1>1, <2>5, <3>1, <3>2 DEF got
  <2>7. G + k \in Nat /\ 0 \in Nat
    BY <1>1, <2>4
  <2>8. got \in Seq(Nat) /\ Len(got) = G + k
    BY <2>6, <2>7, BytesFacts
  <2>9. f \in BOOLEAN
    BY <1>2 DEF f
  <2>10. t.got = got /\ t.fin = f /\ t.unread = r.unread + k
    BY DEF t
  <2>11. t \in [got : Seq(Nat), fin : BOOLEAN, unread : 0 .. PeerBuf]
    BY <2>4, <2>8, <2>9 DEF t
  <2>12. t \in Host
    BY <2>6, <2>8, <2>10, <2>11 DEF Host
  <2>13. /\ PeerNext(t) \in Nat /\ G + k <= PeerNext(t)
         /\ f = FALSE => PeerNext(t) = G + k
         /\ f = TRUE => PeerNext(t) = G + k + 1
    BY <2>8, <2>10, <2>12, HostFacts
  <2>14. Limit(t) = PeerNext(t) + PeerBuf - (r.unread + k) /\ Limit(r) = G + PeerBuf - r.unread
    BY <1>1, <1>4, <2>10 DEF Limit
  <2>17. /\ G \in Nat /\ s.seqno \in Nat /\ P \in Nat /\ PeerBuf \in Nat /\ k \in Nat
         /\ r.unread \in 0 .. PeerBuf /\ PeerNext(r) = G /\ PeerNext(t) \in Nat
    BY <1>1, <1>2, <1>4, <2>4, <2>13
  <2>15. Later(t, r)
    <3>1. PeerNext(r) <= PeerNext(t)
      BY <2>13, <2>17
    <3>2. Limit(r) <= Limit(t)
      BY <2>13, <2>14, <2>17
    <3> QED
      BY <3>1, <3>2 DEF Later
  <2>16. PeerNext(t) <= End(s)
    <3>1. G + k <= s.seqno + P
      BY <2>3, <2>4, <2>17
    <3>2. CASE f = TRUE
      <4>1. s.fin = TRUE
        BY <1>2, <3>2 DEF f
      <4>2. End(s) = s.seqno + P + 1 /\ PeerNext(t) = G + k + 1
        BY <1>2, <2>13, <3>2, <4>1
      <4> QED
        BY <2>17, <3>1, <4>2
    <3>3. CASE f = FALSE
      <4>1. PeerNext(t) = G + k /\ (End(s) = s.seqno + P \/ End(s) = s.seqno + P + 1)
        BY <1>2, <2>13, <3>3
      <4> QED
        BY <2>17, <3>1, <4>1
    <3> QED
      BY <2>9, <3>2, <3>3
  <2> QED
    BY <2>2, <2>12, <2>15, <2>16
<1> QED
  BY <1>1, <1>3, <1>4

(* A probe takes the first sequence number that is not acknowledged.       *)
LEMMA ProbeFacts ==
  ASSUME NEW c, Ready(c), c.unacked \o c.unsent # <<>>
  PROVE  Probe(c) \in Wire /\ End(Probe(c)) <= ReachOf(c)
<1> DEFINE u == c.unacked
           t == c.unsent
           q == u \o t
           s == q[1]
           L == Len(s.p)
           k == Lesser(1, L)
           p == SubSeq(s.p, 1, k)
           w == [seqno |-> s.seqno, p |-> p, fin |-> s.p = <<>>]
<1>1. c \in Pcb /\ Row(c)
  BY DEF Ready
<1>2. u \in Seq(Segment) /\ t \in Seq(Segment) /\ c.snd_nxt \in Nat
  BY <1>1, PcbFacts
<1>3. q \in Seq(Segment)
  BY <1>2, JoinFacts
<1>4. s \in Segment /\ Head(q) = s
  BY <1>3, QueueFacts, TailFacts
<1>5. Probe(c) = w
  BY <1>4 DEF Probe
<1>6. /\ s.seqno \in Nat /\ L \in Nat /\ s.p \in Seq(Nat) /\ s.p = Bytes(s.seqno, L)
  BY <1>4, SegmentFacts
<1>7. s.seqno + 1 <= ReachOf(c)
  <2>1. CASE u # <<>>
    <3>1. s = u[1]
      BY <1>2, <2>1, JoinEnds
    <3>2. 1 \in 1 .. Len(u) /\ u[1].seqno \in Nat /\ End(u[1]) \in Nat /\ u[1].seqno < End(u[1])
      BY <1>2, <2>1, QueueFacts
    <3>3. Sent(u, c.snd_nxt, Right(c))
      BY <1>1 DEF Row, Line
    <3>4. End(u[1]) <= c.snd_nxt
      BY <3>2, <3>3 DEF Sent
    <3>5. ReachOf(c) = c.snd_nxt
      BY <1>2, <2>1, ReachFacts DEF ReachOf
    <3> HIDE DEF s, q
    <3> QED
      BY <1>2, <3>1, <3>2, <3>4, <3>5
  <2>2. CASE u = <<>>
    <3>1. q = t /\ t # <<>>
      BY <1>2, <2>2, JoinEnds
    <3>2. t[1].seqno <= c.snd_nxt
      BY <1>1, <3>1 DEF Row, Line, Ends
    <3>3. s.seqno = t[1].seqno
      BY <3>1
    <3> HIDE DEF s, q
    <3>4. CASE t[1].seqno = c.snd_nxt
      <4>1. ReachOf(c) = c.snd_nxt + 1
        BY <2>2, <3>1, <3>4 DEF ReachOf, Reach
      <4> QED
        BY <1>2, <3>3, <3>4, <4>1
    <3>5. CASE t[1].seqno # c.snd_nxt
      <4>1. ReachOf(c) = c.snd_nxt
        BY <3>5 DEF ReachOf, Reach
      <4> QED
        BY <1>2, <1>6, <3>2, <3>3, <3>5, <4>1
    <3> QED
      BY <3>4, <3>5
  <2> QED
    BY <2>1, <2>2
<1> HIDE DEF q, s, L
<1>8. k \in Nat /\ k <= L /\ k <= 1
  BY <1>6, LesserFacts
<1> HIDE DEF k
<1>9. p = Bytes(s.seqno, k)
  <2>1. ASSUME NEW m \in Nat, m = 0
        PROVE  SubSeq(s.p, m + 1, m + k) = Bytes(s.seqno + m, k)
    <3>1. SubSeq(Bytes(s.seqno, L), m + 1, m + k) = Bytes(s.seqno + m, k)
      <4>1. m + k <= L
        BY <1>6, <1>8, <2>1
      <4>2. s.seqno \in Nat /\ L \in Nat /\ k \in Nat
        BY <1>6, <1>8
      <4> DEFINE a == s.seqno
      <4>3. a \in Nat
        BY <4>2
      <4> HIDE DEF a
      <4>4. SubSeq(Bytes(a, L), m + 1, m + k) = Bytes(a + m, k)
        BY ONLY <4>1, <4>2, <4>3, m \in Nat, BytesPart, ZenonT(60)
      <4> QED
        BY <4>4 DEF a
    <3> QED
      BY <1>6, <3>1
  <2>2. SubSeq(s.p, 0 + 1, 0 + k) = Bytes(s.seqno + 0, k)
    BY <2>1
  <2>3. 0 + 1 = 1 /\ 0 + k = k /\ s.seqno + 0 = s.seqno
    BY <1>6, <1>8
  <2> QED
    BY <2>2, <2>3
<1>10. p \in Seq(Nat) /\ Len(p) = k
  <2>1. s.seqno \in Nat /\ k \in Nat
    BY <1>6, <1>8
  <2> DEFINE a == s.seqno
  <2>2. a \in Nat /\ p = Bytes(a, k)
    BY <1>9, <2>1
  <2> HIDE DEF a, p
  <2> QED
    BY <2>1, <2>2, BytesFacts
<1> HIDE DEF p
<1>11. w.seqno = s.seqno /\ w.p = p /\ w.fin = (s.p = <<>>) /\ w.fin \in BOOLEAN
  OBVIOUS
<1>12. w \in [seqno : Nat, p : Seq(Nat), fin : BOOLEAN]
  BY <1>6, <1>10
<1> HIDE DEF w
<1>13. w \in Wire
  BY <1>9, <1>10, <1>11, <1>12 DEF Wire
<1>14. End(w) = s.seqno + 1
  <2>1. s.p = <<>> <=> L = 0
    BY <1>6, EmptySeq DEF L
  <2>2. CASE s.p = <<>>
    <3>1. k = 0
      BY <1>8, <2>1, <2>2
    <3>2. w.fin = TRUE
      BY <1>11, <2>2
    <3>3. End(w) = w.seqno + Len(w.p) + 1
      BY <1>13, <3>2, WireEnd
    <3>4. w.seqno + Len(w.p) + 1 = s.seqno + 0 + 1
      BY <1>10, <1>11, <3>1
    <3> QED
      BY <1>6, <3>3, <3>4
  <2>3. CASE s.p # <<>>
    <3>1. L # 0 /\ k = 1
      BY <1>6, <2>1, <2>3 DEF k, Lesser
    <3>2. w.fin = FALSE
      BY <1>11, <2>3
    <3> QED
      BY <1>10, <1>11, <1>13, <3>1, <3>2, WireEnd
  <2> QED
    BY <2>2, <2>3
<1> QED
  BY <1>5, <1>7, <1>13, <1>14

-----------------------------------------------------------------------------
(* The invariant.                                                          *)

(* A connection that is there: the remote host has got no further than the *)
(* sender can have sent, neither has what is under way, and the window the *)
(* sender goes by is one the remote host has announced.                    *)
Talk(c, n, k, r) ==
  /\ Settled(c) /\ PeerNext(r) <= ReachOf(c) /\ OnWire(n, ReachOf(c))
  /\ Within(k \cup {Known(c)}, r) /\ Consistent(k \cup {Known(c)})
  /\ c.lastack <= c.snd_wl2

Inv(c, n, k, r) ==
  /\ c \in Pcb /\ r \in Host
  /\ c.state \in Active => Talk(c, n, k, r)
  /\ c.state \notin Active => Empty(c)

(* The connection e of a step that ends with tcp_output: it is in line,    *)
(* goes on from c, and knows the window of c or one of an ACK under way.   *)
Follows(e, c, k) ==
  /\ e \in Pcb /\ e.state \in Active /\ e.lastack <= e.snd_wl2
  /\ ReachOf(c) <= ReachOf(e) /\ Known(e) \in k \cup {Known(c)}

LEMMA SenderStep ==
  ASSUME NEW c, NEW n, NEW k, NEW r \in Host, Talk(c, n, k, r),
         NEW d, NEW e, Leaves(d, e), Follows(e, c, k),
         NEW m \in Carry(n, tcp_output(d).out, NetMax), NEW j, j \subseteq k
  PROVE  Inv(tcp_output(d).c, m, j, r)
<1> DEFINE f == tcp_output(d).c
           out == tcp_output(d).out
<1>1. Settled(f) /\ Advanced(f, e) /\ OnWire(out, ReachOf(f))
  BY DEF Leaves
<1>2. m \subseteq n \cup out
  BY CarryFacts
<1> HIDE DEF f, out
<1>3. c \in Pcb /\ e \in Pcb /\ f \in Pcb /\ f.state \in Active
  BY <1>1 DEF Talk, Settled, Ready, Follows
<1>4. ReachOf(c) \in Nat /\ ReachOf(e) \in Nat /\ ReachOf(f) \in Nat /\ PeerNext(r) \in Nat
  BY <1>3, ReachOfType, HostFacts
<1>5. ReachOf(c) <= ReachOf(f)
  BY <1>1, <1>4 DEF Follows, Advanced
<1>6. PeerNext(r) <= ReachOf(f)
  BY <1>4, <1>5 DEF Talk
<1>7. OnWire(m, ReachOf(f))
  BY <1>1, <1>2, <1>4, <1>5, OnWireJoin DEF Talk
<1>8. Known(f) = Known(e) /\ f.lastack <= f.snd_wl2
  BY <1>1 DEF Advanced, Known, Follows
<1>9. j \cup {Known(f)} \subseteq k \cup {Known(c)}
  BY <1>8 DEF Follows
<1>10. Within(j \cup {Known(f)}, r) /\ Consistent(j \cup {Known(f)})
  BY <1>9, Fewer DEF Talk
<1>11. Talk(f, m, j, r)
  BY <1>1, <1>6, <1>7, <1>8, <1>10 DEF Talk
<1>12. Inv(f, m, j, r)
  BY <1>3, <1>11 DEF Inv
<1> QED
  BY <1>12 DEF f

(* The same for a connection that goes on from c without an ACK.           *)
LEMMA OnwardStep ==
  ASSUME NEW c, NEW n, NEW k, NEW r \in Host, Talk(c, n, k, r),
         NEW d, Ready(d), Onward(d, c),
         NEW m \in Carry(n, tcp_output(d).out, NetMax)
  PROVE  Inv(tcp_output(d).c, m, k, r)
<1>1. Leaves(d, d)
  BY OutputReady
<1>2. d \in Pcb /\ d.state \in Active
  BY DEF Ready
<1>3. d.lastack <= d.snd_wl2 /\ Known(d) = Known(c) /\ ReachOf(c) <= ReachOf(d)
  BY DEF Talk, Onward, Known
<1>4. Follows(d, c, k)
  BY <1>2, <1>3 DEF Follows
<1> QED
  BY <1>1, <1>4, SenderStep

(* A step that leaves the sender's view and what is under way as it was.   *)
LEMMA QuietStep ==
  ASSUME NEW c, NEW n, NEW k, NEW r \in Host, Talk(c, n, k, r),
         NEW d, Settled(d), Onward(d, c),
         NEW m, OnWire(m, ReachOf(c)), NEW j, j \subseteq k
  PROVE  Inv(d, m, j, r)
<1>1. c \in Pcb /\ d \in Pcb /\ d.state \in Active
  BY DEF Talk, Settled, Ready
<1>2. ReachOf(c) \in Nat /\ ReachOf(d) \in Nat /\ PeerNext(r) \in Nat
  BY <1>1, ReachOfType, HostFacts
<1>3. PeerNext(r) <= ReachOf(d)
  BY <1>2 DEF Talk, Onward
<1>4. OnWire({}, ReachOf(d)) /\ m \subseteq m \cup {} /\ ReachOf(c) <= ReachOf(d)
  BY DEF OnWire, Onward
<1>5. OnWire(m, ReachOf(d))
  BY <1>2, <1>4, OnWireJoin
<1>6. Known(d) = Known(c) /\ d.lastack <= d.snd_wl2
  BY DEF Known, Onward, Talk
<1>7. Within(j \cup {Known(d)}, r) /\ Consistent(j \cup {Known(d)})
  <2>1. j \cup {Known(d)} \subseteq k \cup {Known(c)}
    BY <1>6
  <2> QED
    BY <2>1, Fewer DEF Talk
<1>8. Talk(d, m, j, r)
  BY <1>3, <1>5, <1>6, <1>7 DEF Talk
<1> QED
  BY <1>1, <1>8 DEF Inv

(* The remote host answers.                                                *)
LEMMA HostStep ==
  ASSUME NEW c, NEW n, NEW k, NEW r \in Host, Talk(c, n, k, r),
         NEW s \in Host, Later(s, r), PeerNext(s) <= ReachOf(c),
         NEW m, m \subseteq n, NEW j \in Carry(k, {PeerAck(s)}, AckMax)
  PROVE  Inv(c, m, j, s)
<1>1. c \in Pcb /\ c.state \in Active
  BY DEF Talk, Settled, Ready
<1>2. OnWire(m, ReachOf(c))
  BY DEF Talk, OnWire
<1>3. j \cup {Known(c)} \subseteq (k \cup {Known(c)}) \cup {PeerAck(s)}
  <2>1. j \subseteq k \cup {PeerAck(s)}
    BY CarryFacts
  <2> QED
    BY <2>1
<1>4. Within(j \cup {Known(c)}, s) /\ Consistent(j \cup {Known(c)})
  <2>1. Within(k \cup {Known(c)}, r) /\ Consistent(k \cup {Known(c)})
    BY DEF Talk
  <2> QED
    BY <1>3, <2>1, Announce
<1>5. Talk(c, m, j, s)
  BY <1>2, <1>4 DEF Talk
<1> QED
  BY <1>1, <1>5 DEF Inv

-----------------------------------------------------------------------------
(* The steps.                                                              *)

IInv == Inv(pcb, net, acks, peer)

LEMMA InitInv ==
  ASSUME Init
  PROVE  IInv
<1>1. /\ pcb = [unsent |-> <<>>, unacked |-> <<>>, snd_nxt |-> 0, lastack |-> 0,
                snd_lbb |-> 0, snd_buf |-> TCP_SND_BUF, snd_queuelen |-> 0,
                unsent_oversize |-> 0, snd_wnd |-> PeerBuf, snd_wl2 |-> 0,
                cwnd |-> 2 * TCP_MSS, ssthresh |-> PeerBuf, dupacks |-> 0,
                flags |-> {}, rtime |-> FALSE, persist |-> FALSE, nrtx |-> FALSE,
                state |-> "ESTABLISHED"]
      /\ net = {} /\ acks = {} /\ peer = [got |-> <<>>, fin |-> FALSE, unread |-> 0]
  BY DEF Init
<1>2. 2 * TCP_MSS \in TCP_MSS .. U16 - 1
  BY SizeAssumption
<1>3. pcb \in Pcb
  <2>1. <<>> \in Seq(Segment) /\ TCP_SND_BUF \in Nat /\ PeerBuf \in Nat /\ PeerBuf \in 0 .. PeerBuf
        /\ 0 \in 0 .. TCP_SND_QUEUELEN /\ 0 \in 0 .. 4 /\ {} \in SUBSET Flags
        /\ "ESTABLISHED" \in Active \cup {"CLOSED", "ABORTED"}
    BY SizeAssumption DEF Active
  <2> DEFINE two == 2 * TCP_MSS
  <2>2. two \in TCP_MSS .. U16 - 1
    BY <1>2
  <2> HIDE DEF two
  <2>3. pcb = [unsent |-> <<>>, unacked |-> <<>>, snd_nxt |-> 0, lastack |-> 0,
                snd_lbb |-> 0, snd_buf |-> TCP_SND_BUF, snd_queuelen |-> 0,
                unsent_oversize |-> 0, snd_wnd |-> PeerBuf, snd_wl2 |-> 0,
                cwnd |-> two, ssthresh |-> PeerBuf, dupacks |-> 0,
                flags |-> {}, rtime |-> FALSE, persist |-> FALSE, nrtx |-> FALSE,
                state |-> "ESTABLISHED"]
    BY <1>1 DEF two
  <2> QED
    BY <2>1, <2>2, <2>3 DEF Pcb
<1>4. /\ pcb.unsent = <<>> /\ pcb.unacked = <<>> /\ pcb.snd_nxt = 0 /\ pcb.lastack = 0
      /\ pcb.snd_lbb = 0 /\ pcb.snd_buf = TCP_SND_BUF /\ pcb.snd_queuelen = 0
      /\ pcb.unsent_oversize = 0 /\ pcb.snd_wnd = PeerBuf /\ pcb.snd_wl2 = 0
      /\ pcb.flags = {} /\ pcb.state = "ESTABLISHED"
  BY <1>1
<1>5. Edge(pcb) = 0
  BY <1>4 DEF Edge, Open
<1>6. Row(pcb)
  <2>1. Len(<<>>) = 0 /\ Chain(<<>>)
    BY DEF Chain
  <2>2. Linked(<<>>, <<>>) /\ Starts(<<>>, <<>>, 0, 0) /\ Ends(<<>>, <<>>, 0, 0)
    BY DEF Linked, Starts, Ends
  <2>3. Sent(<<>>, 0, Right(pcb))
    BY <2>1 DEF Sent
  <2> QED
    BY <1>4, <1>5, <2>1, <2>2, <2>3 DEF Row, Line
<1>7. Plain(pcb)
  BY <1>4 DEF Plain, NoFin
<1>8. Books(pcb)
  BY <1>4, PbufsEmpty, SizeAssumption DEF Books
<1>9. Spare(pcb) /\ Recovers(pcb)
  BY <1>4 DEF Spare, Recovers
<1>10. Settled(pcb) /\ pcb.state \in Active
  BY <1>3, <1>4, <1>6, <1>7, <1>8, <1>9 DEF Settled, Ready, Active
<1>11. peer \in Host /\ PeerNext(peer) = 0 /\ Limit(peer) = PeerBuf
  <2>1. peer.got = <<>> /\ peer.fin = FALSE /\ peer.unread = 0
    BY <1>1
  <2>2. peer \in [got : Seq(Nat), fin : BOOLEAN, unread : 0 .. PeerBuf]
    BY <1>1, SizeAssumption
  <2>3. Bytes(0, 0) = <<>>
    <3>1. Bytes(0, 0) \in Seq(Nat) /\ Len(Bytes(0, 0)) = 0
      BY BytesFacts
    <3> QED
      BY <3>1, EmptySeq
  <2>4. Len(peer.got) = 0
    BY <2>1
  <2>5. peer \in Host
    BY <2>1, <2>2, <2>3, <2>4 DEF Host
  <2>6. PeerNext(peer) = 0
    BY <2>1, <2>4, <2>5, HostFacts
  <2> QED
    BY <2>1, <2>5, <2>6, SizeAssumption DEF Limit
<1>12. ReachOf(pcb) \in Nat /\ PeerNext(peer) <= ReachOf(pcb) /\ OnWire(net, ReachOf(pcb))
  BY <1>1, <1>3, <1>11, ReachOfType DEF OnWire
<1>13. acks \cup {Known(pcb)} = {Known(pcb)}
       /\ Known(pcb).ackno = 0 /\ Known(pcb).wnd = PeerBuf
       /\ Known(pcb) = [ackno |-> Known(pcb).ackno, wnd |-> Known(pcb).wnd]
  BY <1>1, <1>4 DEF Known
<1>14. Within(acks \cup {Known(pcb)}, peer) /\ Consistent(acks \cup {Known(pcb)})
  BY <1>11, <1>13, SizeAssumption DEF Within, Consistent
<1>15. Talk(pcb, net, acks, peer)
  BY <1>4, <1>10, <1>12, <1>14 DEF Talk
<1> QED
  BY <1>3, <1>10, <1>11, <1>15 DEF IInv, Inv

(* A connection that is there.                                             *)
LEMMA Alive ==
  ASSUME IInv, pcb.state \in Active
  PROVE  /\ Talk(pcb, net, acks, peer) /\ pcb \in Pcb /\ peer \in Host
         /\ Ready(pcb) /\ Settled(pcb) /\ OnWire(net, ReachOf(pcb))
         /\ PeerNext(peer) <= ReachOf(pcb) /\ ReachOf(pcb) \in Nat
         /\ Onward(pcb, pcb)
<1>1. Talk(pcb, net, acks, peer) /\ pcb \in Pcb /\ peer \in Host
  BY DEF IInv, Inv
<1>2. ReachOf(pcb) \in Nat
  BY <1>1, ReachOfType
<1> QED
  BY <1>1, <1>2 DEF Talk, Settled, Onward

LEMMA PeerReceiveInv ==
  ASSUME IInv, NEW s \in net, NEW dup \in BOOLEAN, PeerReceive(s, dup)
  PROVE  IInv'
<1>1. /\ pcb.state \in Active /\ peer' = Taken(peer, s) /\ pcb' = pcb
      /\ acks' \in Carry(acks, {PeerAck(peer')}, AckMax)
      /\ net' \subseteq net
  BY DEF PeerReceive
<1>2. /\ Talk(pcb, net, acks, peer) /\ pcb \in Pcb /\ peer \in Host
      /\ OnWire(net, ReachOf(pcb))
      /\ PeerNext(peer) <= ReachOf(pcb) /\ ReachOf(pcb) \in Nat
  BY <1>1, Alive
<1>3. s \in Wire /\ End(s) <= ReachOf(pcb) /\ End(s) \in Nat
  BY <1>2, WireEnd DEF OnWire
<1>4. /\ peer' \in Host /\ Later(peer', peer)
      /\ PeerNext(peer') <= PeerNext(peer) \/ PeerNext(peer') <= End(s)
  BY <1>1, <1>2, <1>3, TakenFacts
<1>5. PeerNext(peer) \in Nat /\ PeerNext(peer') \in Nat
  BY <1>2, <1>4, HostFacts
<1>6. PeerNext(peer') <= ReachOf(pcb)
  BY <1>2, <1>3, <1>4, <1>5
<1>7. Inv(pcb, net', acks', peer')
  BY <1>1, <1>2, <1>4, <1>6, HostStep
<1> QED
  BY <1>1, <1>7 DEF IInv

LEMMA PeerReadInv ==
  ASSUME IInv, PeerRead
  PROVE  IInv'
<1>1. /\ pcb.state \in Active /\ peer' = [peer EXCEPT !.unread = 0]
      /\ acks' \in Carry(acks, {PeerAck(peer')}, AckMax)
      /\ net' = net /\ pcb' = pcb
  BY DEF PeerRead
<1>2. /\ Talk(pcb, net, acks, peer) /\ pcb \in Pcb /\ peer \in Host
      /\ PeerNext(peer) <= ReachOf(pcb) /\ ReachOf(pcb) \in Nat
  BY <1>1, Alive
<1>3. /\ peer'.got = peer.got /\ peer'.fin = peer.fin /\ peer'.unread = 0
      /\ peer' \in [got : Seq(Nat), fin : BOOLEAN, unread : 0 .. PeerBuf]
  <2>1. peer \in [got : Seq(Nat), fin : BOOLEAN, unread : 0 .. PeerBuf]
    BY <1>2 DEF Host
  <2>2. 0 \in 0 .. PeerBuf
    BY SizeAssumption
  <2> QED
    BY <1>1, <2>1, <2>2
<1>4. peer' \in Host
  BY <1>2, <1>3 DEF Host
<1>5. PeerNext(peer') = PeerNext(peer)
  BY <1>3 DEF PeerNext
<1>6. Later(peer', peer)
  <2>1. PeerNext(peer) \in Nat /\ peer.unread \in 0 .. PeerBuf
    BY <1>2, HostFacts
  <2>2. Limit(peer) = PeerNext(peer) + PeerBuf - peer.unread
        /\ Limit(peer') = PeerNext(peer) + PeerBuf - 0
    BY <1>3, <1>5 DEF Limit
  <2> QED
    BY <1>5, <2>1, <2>2, SizeAssumption DEF Later
<1>7. PeerNext(peer') <= ReachOf(pcb) /\ net' \subseteq net
  BY <1>1, <1>2, <1>5
<1>8. Inv(pcb, net', acks', peer')
  BY <1>1, <1>2, <1>4, <1>6, <1>7, HostStep
<1> QED
  BY <1>1, <1>8 DEF IInv

LEMMA LoseInv ==
  ASSUME IInv, Lose
  PROVE  IInv'
<1>1. /\ pcb.state \in Active /\ pcb' = pcb /\ peer' = peer
      /\ net' \subseteq net /\ acks' \subseteq acks
  BY DEF Lose
<1>2. /\ Talk(pcb, net, acks, peer) /\ peer \in Host /\ Settled(pcb)
      /\ OnWire(net, ReachOf(pcb)) /\ Onward(pcb, pcb)
  BY <1>1, Alive
<1>3. OnWire(net', ReachOf(pcb))
  BY <1>1, <1>2 DEF OnWire
<1>4. Inv(pcb, net', acks', peer)
  BY <1>1, <1>2, <1>3, QuietStep
<1> QED
  BY <1>1, <1>4 DEF IInv

LEMMA WriteInv ==
  ASSUME IInv, NEW len \in WriteSizes, NEW copy, NEW more, NEW mem,
         Write(len, copy, more, mem)
  PROVE  IInv'
<1> DEFINE d == tcp_write(pcb, len, copy, more, mem)
<1>1. /\ pcb.state \in Open /\ len <= pcb.snd_buf /\ acks' = acks /\ peer' = peer
      /\ pcb' = tcp_output(d).c /\ net' \in Carry(net, tcp_output(d).out, NetMax)
  BY DEF Write, Output, Open
<1>2. pcb.state \in Active
  BY <1>1 DEF Open, Active
<1>3. Talk(pcb, net, acks, peer) /\ peer \in Host /\ Ready(pcb)
  BY <1>2, Alive
<1>4. len \in Nat \ {0}
  BY SizeAssumption
<1>5. Ready(d) /\ Advanced(d, pcb)
  BY <1>1, <1>3, <1>4, WriteReady
<1> HIDE DEF d
<1>6. Onward(d, pcb)
  BY <1>5 DEF Advanced, Onward
<1>7. Inv(tcp_output(d).c, net', acks, peer)
  BY <1>1, <1>3, <1>5, <1>6, OnwardStep
<1> QED
  BY <1>1, <1>7 DEF IInv

LEMMA CloseInv ==
  ASSUME IInv, NEW mem \in BOOLEAN, Close(mem)
  PROVE  IInv'
<1> DEFINE full == pcb.snd_queuelen >= TCP_SND_QUEUELEN
           fits == pcb.unsent # <<>> \/ (mem /\ ~full /\ pcb.snd_buf > 0)
<1>1. pcb.state \in Open /\ acks' = acks /\ peer' = peer
  BY DEF Close, Open
<1>2. pcb.state \in Active
  BY <1>1 DEF Open, Active
<1>3. /\ Talk(pcb, net, acks, peer) /\ peer \in Host /\ Ready(pcb) /\ Settled(pcb)
      /\ pcb \in Pcb /\ OnWire(net, ReachOf(pcb)) /\ Onward(pcb, pcb)
  BY <1>2, Alive
<1>4. CASE fits
  <2> DEFINE st == IF pcb.state = "CLOSE_WAIT" THEN "LAST_ACK" ELSE "FIN_WAIT_1"
             d == [tcp_send_fin(pcb) EXCEPT !.state = st]
  <2>1. tcp_send_fin(pcb).state = pcb.state
    BY <1>3 DEF Pcb, tcp_send_fin, tcp_enqueue_flags
  <2>2. pcb' = tcp_output(d).c /\ net' \in Carry(net, tcp_output(d).out, NetMax)
    BY <1>4, <2>1 DEF Close, Output
  <2>3. pcb.unsent # <<>> \/ (pcb.snd_queuelen < TCP_SND_QUEUELEN /\ pcb.snd_buf > 0)
    BY <1>3, <1>4, PcbFacts, SizeAssumption
  <2>4. st \in {"LAST_ACK", "FIN_WAIT_1"}
    OBVIOUS
  <2> HIDE DEF st
  <2>5. Ready(d) /\ Onward(d, pcb)
    BY <1>1, <1>3, <2>3, <2>4, FinReady
  <2> HIDE DEF d
  <2>6. Inv(tcp_output(d).c, net', acks, peer)
    BY <1>3, <2>2, <2>5, OnwardStep
  <2> QED
    BY <1>1, <2>2, <2>6 DEF IInv
<1>5. CASE ~fits
  <2>1. net' = net /\ (pcb' = Refused(pcb) \/ pcb' = pcb)
    BY <1>5 DEF Close
  <2>2. CASE pcb' = pcb
    <3>1. Inv(pcb, net, acks, peer)
      BY DEF IInv
    <3> QED
      BY <1>1, <2>1, <2>2, <3>1 DEF IInv
  <2>3. CASE pcb' = Refused(pcb)
    <3>1. Settled(Refused(pcb)) /\ Onward(Refused(pcb), pcb)
      BY <1>3, RefusedFacts DEF Settled, Advanced, Onward
    <3>2. Inv(Refused(pcb), net, acks, peer)
      BY <1>3, <3>1, QuietStep
    <3> QED
      BY <1>1, <2>1, <2>3, <3>2 DEF IInv
  <2> QED
    BY <2>1, <2>2, <2>3
<1> QED
  BY <1>4, <1>5

LEMMA PeerFinInv ==
  ASSUME IInv, PeerFin
  PROVE  IInv'
<1>1. /\ pcb.state = "ESTABLISHED" /\ pcb' = [pcb EXCEPT !.state = "CLOSE_WAIT"]
      /\ net' = net /\ acks' = acks /\ peer' = peer
  BY DEF PeerFin
<1>2. pcb.state \in Active
  BY <1>1 DEF Active
<1>3. /\ Talk(pcb, net, acks, peer) /\ peer \in Host /\ Settled(pcb)
      /\ OnWire(net, ReachOf(pcb))
  BY <1>2, Alive
<1>4. Settled(pcb') /\ Onward(pcb', pcb)
  BY <1>1, <1>3, PeerFinReady
<1>5. Inv(pcb', net, acks, peer)
  BY <1>3, <1>4, QuietStep
<1> QED
  BY <1>1, <1>5 DEF IInv

LEMMA InputInv ==
  ASSUME IInv, NEW a \in acks, NEW dup \in BOOLEAN, tcp_input(a, dup)
  PROVE  IInv'
<1> DEFINE d == tcp_process(pcb, a)
<1>1. /\ pcb.state \in Active /\ acks' \subseteq acks /\ peer' = peer
      /\ pcb' = tcp_output(d).c /\ net' \in Carry(net, tcp_output(d).out, NetMax)
  BY DEF tcp_input, Output
<1>2. /\ Talk(pcb, net, acks, peer) /\ peer \in Host /\ Ready(pcb) /\ pcb \in Pcb
      /\ PeerNext(peer) <= ReachOf(pcb) /\ ReachOf(pcb) \in Nat
  BY <1>1, Alive
<1>3. /\ Within(acks \cup {Known(pcb)}, peer) /\ Consistent(acks \cup {Known(pcb)})
      /\ pcb.lastack <= pcb.snd_wl2
  BY <1>2 DEF Talk
<1>4. /\ a.ackno \in Nat /\ a.wnd \in 0 .. PeerBuf /\ a.ackno <= PeerNext(peer)
  BY <1>3 DEF Within
<1>5. a.ackno <= ReachOf(pcb)
  <2>1. PeerNext(peer) \in Nat
    BY <1>2, HostFacts
  <2> QED
    BY <1>2, <1>4, <2>1
<1>6. pcb.snd_wl2 < a.ackno => pcb.snd_wl2 + pcb.snd_wnd <= a.ackno + a.wnd
  <2>1. Known(pcb).ackno = pcb.snd_wl2 /\ Known(pcb).wnd = pcb.snd_wnd
    BY DEF Known
  <2>2. Known(pcb).ackno < a.ackno
          => Known(pcb).ackno + Known(pcb).wnd <= a.ackno + a.wnd
    BY <1>3 DEF Consistent
  <2> QED
    BY <2>1, <2>2
<1>7. Answer(pcb, a)
  BY <1>3, <1>4, <1>5, <1>6 DEF Answer
<1>8. Answered(d, pcb, a)
  BY <1>2, <1>7, InputFacts
<1> HIDE DEF d
<1>9. CASE \E e \in Pcb : Leaves(d, e) /\ e.state \in Active /\ Hears(e, pcb, a)
  <2>1. PICK e \in Pcb : Leaves(d, e) /\ e.state \in Active /\ Hears(e, pcb, a)
    BY <1>9
  <2>2. Known(e) \in acks \cup {Known(pcb)}
    <3>1. CASE e.snd_wl2 = pcb.snd_wl2 /\ e.snd_wnd = pcb.snd_wnd
      BY <3>1 DEF Known
    <3>2. CASE e.snd_wl2 = a.ackno /\ e.snd_wnd = a.wnd
      <4>1. Known(e) = a
        <5>1. a = [ackno |-> a.ackno, wnd |-> a.wnd]
          BY <1>3 DEF Within
        <5> QED
          BY <3>2, <5>1 DEF Known
      <4> QED
        BY <4>1
    <3> QED
      BY <2>1, <3>1, <3>2 DEF Hears
  <2>3. Follows(e, pcb, acks)
    BY <2>1, <2>2 DEF Follows, Hears
  <2>4. Inv(tcp_output(d).c, net', acks', peer)
    BY <1>1, <1>2, <2>1, <2>3, SenderStep
  <2> QED
    BY <1>1, <2>4 DEF IInv
<1>10. CASE d \in Pcb /\ Empty(d) /\ d.state = "CLOSED"
  <2>1. pcb' \in Pcb /\ Empty(pcb') /\ pcb'.state = "CLOSED"
    BY <1>1, <1>10, OutputGone
  <2>2. pcb'.state \notin Active
    BY <2>1 DEF Active
  <2> QED
    BY <1>1, <1>2, <2>1, <2>2 DEF IInv, Inv
<1> QED
  BY <1>8, <1>9, <1>10 DEF Answered

LEMMA RtoInv ==
  ASSUME IInv, Rto
  PROVE  IInv'
<1> DEFINE d == tcp_rexmit_rto([pcb EXCEPT !.ssthresh = Half(pcb), !.cwnd = TCP_MSS])
<1>1. /\ pcb.state \in Active /\ pcb.unacked # <<>> /\ acks' = acks /\ peer' = peer
      /\ pcb' = tcp_output(d).c /\ net' \in Carry(net, tcp_output(d).out, NetMax)
  BY DEF Rto, RtoRuns, Output, Half
<1>2. Talk(pcb, net, acks, peer) /\ peer \in Host /\ Settled(pcb)
  BY <1>1, Alive
<1>3. Ready(d) /\ Advanced(d, pcb)
  BY <1>1, <1>2, RtoReady
<1> HIDE DEF d
<1>4. Onward(d, pcb)
  BY <1>3 DEF Advanced, Onward
<1>5. Inv(tcp_output(d).c, net', acks, peer)
  BY <1>1, <1>2, <1>3, <1>4, OnwardStep
<1> QED
  BY <1>1, <1>5 DEF IInv

LEMMA ProbeInv ==
  ASSUME IInv, tcp_zero_window_probe
  PROVE  IInv'
<1>1. /\ pcb.state \in Active /\ pcb.unacked \o pcb.unsent # <<>>
      /\ net' \in Carry(net, {Probe(pcb)}, NetMax)
      /\ pcb' = pcb /\ acks' = acks /\ peer' = peer
  BY DEF tcp_zero_window_probe, PersistRuns
<1>2. /\ Talk(pcb, net, acks, peer) /\ peer \in Host /\ Ready(pcb) /\ Settled(pcb)
      /\ OnWire(net, ReachOf(pcb)) /\ Onward(pcb, pcb)
  BY <1>1, Alive
<1>3. Probe(pcb) \in Wire /\ End(Probe(pcb)) <= ReachOf(pcb)
  BY <1>1, <1>2, ProbeFacts
<1>4. net' \subseteq net \cup {Probe(pcb)}
  BY <1>1, CarryFacts
<1>5. OnWire(net', ReachOf(pcb))
  BY <1>2, <1>3, <1>4 DEF OnWire
<1>6. Inv(pcb, net', acks, peer)
  BY <1>2, <1>5, QuietStep
<1> QED
  BY <1>1, <1>6 DEF IInv

LEMMA GiveUpInv ==
  ASSUME IInv, GiveUp
  PROVE  IInv'
<1>1. /\ pcb.state \in Active /\ peer' = peer
      /\ pcb' = [tcp_pcb_purge(pcb) EXCEPT !.state = "ABORTED"]
  BY DEF GiveUp
<1>2. peer \in Host /\ Ready(pcb)
  BY <1>1, Alive
<1>3. pcb' \in Pcb /\ Empty(pcb') /\ pcb'.state = "ABORTED"
  BY <1>1, <1>2, PurgeFacts
<1>4. pcb'.state \notin Active
  BY <1>3 DEF Active
<1> QED
  BY <1>1, <1>2, <1>3, <1>4 DEF IInv, Inv

(* Every step keeps the invariant.                                         *)
LEMMA NextInv ==
  ASSUME IInv, [Next]_vars
  PROVE  IInv'
<1>1. CASE UNCHANGED vars
  BY <1>1 DEF vars, IInv
<1>2. CASE \E s \in net, dup \in BOOLEAN : PeerReceive(s, dup)
  BY <1>2, PeerReceiveInv
<1>3. CASE PeerRead
  BY <1>3, PeerReadInv
<1>4. CASE Lose
  BY <1>4, LoseInv
<1>5. CASE \E len \in WriteSizes, copy \in Copies, more, mem \in BOOLEAN :
             Write(len, copy, more, mem)
  BY <1>5, WriteInv
<1>6. CASE \E mem \in BOOLEAN : Close(mem)
  BY <1>6, CloseInv
<1>7. CASE PeerFin
  BY <1>7, PeerFinInv
<1>8. CASE \E a \in acks, dup \in BOOLEAN : tcp_input(a, dup)
  BY <1>8, InputInv
<1>9. CASE Rto
  BY <1>9, RtoInv
<1>10. CASE tcp_zero_window_probe
  BY <1>10, ProbeInv
<1>11. CASE GiveUp
  BY <1>11, GiveUpInv
<1> QED
  BY <1>1, <1>2, <1>3, <1>4, <1>5, <1>6, <1>7, <1>8, <1>9, <1>10, <1>11 DEF Next

(* The invariant of every behaviour.                                       *)
LEMMA InvTheorem == Spec => []IInv
<1>1. Init => IInv
  BY InitInv
<1>2. IInv /\ [Next]_vars => IInv'
  BY NextInv
<1> QED
  BY <1>1, <1>2, PTL DEF Spec

-----------------------------------------------------------------------------
(* What the invariant says.                                                *)

(* The queues of a connection as one.                                      *)
LEMMA QueuedFacts ==
  ASSUME NEW c, Ready(c), NEW q, q = c.unacked \o c.unsent
  PROVE  /\ q \in Seq(Segment) /\ Chain(q)
         /\ q = <<>> => c.lastack >= c.snd_lbb
         /\ q # <<>> => /\ q[1].seqno <= c.lastack /\ c.lastack < End(q[1])
                        /\ End(q[Len(q)]) \in {c.snd_lbb, c.snd_lbb + 1}
<1> DEFINE u == c.unacked
           t == c.unsent
<1>1. c \in Pcb /\ Row(c)
  BY DEF Ready
<1>2. u \in Seq(Segment) /\ t \in Seq(Segment) /\ c.lastack \in Nat /\ c.snd_lbb \in Nat
  BY <1>1, PcbFacts
<1>3. /\ Chain(u) /\ Chain(t) /\ Linked(u, t) /\ (t # <<>> => NoFin(u))
      /\ Starts(u, t, c.lastack, Edge(c)) /\ Ends(u, t, c.snd_nxt, Edge(c))
  BY <1>1 DEF Row, Line, Ends
<1>4. q \in Seq(Segment) /\ Chain(q)
  BY <1>2, <1>3, JoinFacts, JoinChain
<1>5. Edge(c) \in {c.snd_lbb, c.snd_lbb + 1} /\ c.snd_lbb <= Edge(c) /\ Edge(c) \in Nat
  BY <1>1, <1>2, EdgeFacts
<1>6. CASE u = <<>> /\ t = <<>>
  <2>1. q = <<>> /\ c.lastack = Edge(c)
    BY <1>2, <1>3, <1>6, JoinEnds DEF Starts
  <2> QED
    BY <1>2, <1>4, <1>5, <2>1
<1>7. CASE u # <<>> /\ t = <<>>
  <2>1. q = u /\ Holds(u, c.lastack) /\ End(u[Len(u)]) = Edge(c)
    BY <1>2, <1>3, <1>7, JoinEnds DEF Starts, Ends
  <2> QED
    BY <1>4, <1>5, <1>7, <2>1 DEF Holds
<1>8. CASE u = <<>> /\ t # <<>>
  <2>1. q = t /\ Holds(t, c.lastack) /\ End(t[Len(t)]) = Edge(c)
    BY <1>2, <1>3, <1>8, JoinEnds DEF Starts, Ends
  <2> QED
    BY <1>4, <1>5, <1>8, <2>1 DEF Holds
<1>9. CASE u # <<>> /\ t # <<>>
  <2>1. q # <<>> /\ q[1] = u[1] /\ q[Len(q)] = t[Len(t)]
    BY <1>2, <1>9, JoinEnds
  <2>2. Holds(u, c.lastack) /\ End(t[Len(t)]) = Edge(c)
    BY <1>3, <1>9 DEF Starts, Ends
  <2> QED
    BY <1>4, <1>5, <2>1, <2>2 DEF Holds
<1> QED
  BY <1>6, <1>7, <1>8, <1>9

LEMMA InvTypeOK ==
  ASSUME IInv
  PROVE  TypeOK
<1>1. pcb \in Pcb
  BY DEF IInv, Inv
<1>2. pcb.snd_buf \in 0 .. TCP_SND_BUF + 1
  <2>1. pcb.snd_buf \in Nat
    BY <1>1, PcbFacts
  <2>2. pcb.snd_buf <= TCP_SND_BUF + 1
    <3>1. CASE pcb.state \in Active
      BY <3>1, Alive, BufBound
    <3>2. CASE pcb.state \notin Active
      BY <3>2 DEF IInv, Inv, Empty
    <3> QED
      BY <3>1, <3>2
  <2> QED
    BY <2>1, <2>2, SizeAssumption
<1>3. /\ pcb.snd_queuelen \in 0 .. TCP_SND_QUEUELEN
      /\ pcb.cwnd \in TCP_MSS .. U16 - 1 /\ pcb.nrtx \in BOOLEAN
      /\ pcb.dupacks \in 0 .. 4 /\ pcb.snd_wnd \in 0 .. PeerBuf
      /\ pcb.flags \subseteq {"TF_NAGLEMEMERR", "TF_FIN", "TF_INFR"}
      /\ pcb.state \in Active \cup {"CLOSED", "ABORTED"}
  BY <1>1, PcbFacts DEF Flags
<1>4. ASSUME NEW q \in {pcb.unsent, pcb.unacked}, NEW i \in DOMAIN q
      PROVE  TCP_TCPLEN(q[i]) > 0 /\ Len(q[i].p) <= TCP_MSS
  <2>1. q \in Seq(Segment)
    BY <1>1, PcbFacts
  <2>2. q[i] \in Segment
    BY <2>1, QueueFacts
  <2>3. TCP_TCPLEN(q[i]) > 0
    BY <2>2 DEF Segment
  <2>4. Len(q[i].p) \in Nat /\ q[i].room \in Nat /\ Len(q[i].p) + q[i].room <= TCP_MSS
    BY <2>2, SegmentFacts
  <2>5. Len(q[i].p) <= TCP_MSS
    BY <2>4, SizeAssumption
  <2> QED
    BY <2>3, <2>5
<1> QED
  BY <1>2, <1>3, <1>4 DEF TypeOK

(* A connection that is not gone is there.                                 *)
LEMMA GoneFacts ==
  ASSUME IInv, ~Gone
  PROVE  pcb.state \in Active
BY PcbFacts DEF Gone, IInv, Inv

LEMMA InvNothingDropped ==
  ASSUME IInv
  PROVE  NothingDropped
<1>1. TypeOK
  BY InvTypeOK
<1>2. BuffersConserved
  <2> SUFFICES ASSUME ~Gone
               PROVE  /\ pcb.snd_buf + pcb.snd_lbb - pcb.lastack = TCP_SND_BUF
                      /\ pcb.snd_queuelen = Pbufs(pcb.unsent) + Pbufs(pcb.unacked)
    BY DEF BuffersConserved
  <2>1. Ready(pcb)
    BY GoneFacts, Alive
  <2> QED
    BY <2>1 DEF Ready, Books
<1>3. ASSUME ~Gone
      PROVE  /\ \A i \in 2 .. Len(Queued) : Queued[i].seqno = End(Queued[i - 1])
             /\ IF Queued = <<>> THEN pcb.lastack >= pcb.snd_lbb
                ELSE /\ Queued[1].seqno <= pcb.lastack
                     /\ pcb.lastack < End(Queued[1])
                     /\ End(Last(Queued)) \in {pcb.snd_lbb, pcb.snd_lbb + 1}
  <2> DEFINE q == Queued
  <2>1. Ready(pcb)
    BY <1>3, GoneFacts, Alive
  <2>2. q = pcb.unacked \o pcb.unsent
    BY DEF Queued
  <2> HIDE DEF q
  <2>3. /\ q \in Seq(Segment) /\ Chain(q)
        /\ q = <<>> => pcb.lastack >= pcb.snd_lbb
        /\ q # <<>> => /\ q[1].seqno <= pcb.lastack /\ pcb.lastack < End(q[1])
                       /\ End(q[Len(q)]) \in {pcb.snd_lbb, pcb.snd_lbb + 1}
    BY <2>1, <2>2, QueuedFacts
  <2>4. Last(q) = q[Len(q)]
    BY DEF Last
  <2>5. ASSUME NEW i \in 2 .. Len(q)
        PROVE  q[i].seqno = End(q[i - 1])
    <3>1. i - 1 \in 1 .. Len(q) - 1 /\ (i - 1) + 1 = i
      BY <2>3
    <3>2. q[(i - 1) + 1].seqno = End(q[i - 1])
      BY <2>3, <3>1 DEF Chain
    <3> QED
      BY <3>1, <3>2
  <2> QED
    BY <2>3, <2>4, <2>5 DEF q
<1> QED
  BY <1>1, <1>2, <1>3 DEF NothingDropped

LEMMA InvOversize ==
  ASSUME IInv
  PROVE  OversizeIsThere
<1>1. pcb \in Pcb
  BY DEF IInv, Inv
<1>2. pcb.unsent = <<>> => pcb.unsent_oversize = 0
  <2>1. CASE pcb.state \in Active
    BY <2>1, Alive DEF Settled
  <2>2. CASE pcb.state \notin Active
    BY <2>2 DEF IInv, Inv, Empty
  <2> QED
    BY <2>1, <2>2
<1>3. pcb.unsent # <<>> => pcb.unsent_oversize <= Last(pcb.unsent).room
  <2>1. CASE pcb.state \in Active
    BY <2>1, Alive DEF Ready, Spare, Last
  <2>2. CASE pcb.state \notin Active
    BY <2>2 DEF IInv, Inv, Empty
  <2> QED
    BY <2>1, <2>2
<1> QED
  BY <1>2, <1>3 DEF OversizeIsThere

LEMMA InvWindow ==
  ASSUME IInv
  PROVE  WindowRespected
<1> SUFFICES ASSUME ~Gone
             PROVE  pcb.lastack + pcb.snd_wnd <= Len(peer.got) + 1 + PeerBuf - peer.unread
  BY DEF WindowRespected
<1>1. Talk(pcb, net, acks, peer) /\ pcb \in Pcb /\ peer \in Host
  BY GoneFacts, Alive
<1>2. /\ Known(pcb).ackno + Known(pcb).wnd <= Limit(peer) /\ pcb.lastack <= pcb.snd_wl2
  BY <1>1 DEF Talk, Within
<1>3. pcb.snd_wl2 + pcb.snd_wnd <= PeerNext(peer) + PeerBuf - peer.unread
  BY <1>2 DEF Known, Limit
<1>4. /\ pcb.lastack \in Nat /\ pcb.snd_wl2 \in Nat /\ pcb.snd_wnd \in 0 .. PeerBuf
      /\ PeerNext(peer) \in Nat /\ Len(peer.got) \in Nat /\ peer.unread \in 0 .. PeerBuf
      /\ PeerNext(peer) <= Len(peer.got) + 1 /\ PeerBuf \in Nat
  BY <1>1, PcbFacts, HostFacts, SizeAssumption
<1> DEFINE z == Len(peer.got)
           y == PeerNext(peer)
           x == peer.unread
<1>5. /\ z \in Nat /\ y \in Nat /\ x \in 0 .. PeerBuf /\ y <= z + 1 /\ PeerBuf \in Nat
      /\ pcb.lastack \in Nat /\ pcb.snd_wl2 \in Nat /\ pcb.snd_wnd \in Nat
      /\ pcb.snd_wl2 + pcb.snd_wnd <= y + PeerBuf - x /\ pcb.lastack <= pcb.snd_wl2
  BY <1>2, <1>3, <1>4
<1> HIDE DEF x, y, z
<1>6. pcb.lastack + pcb.snd_wnd <= z + 1 + PeerBuf - x
  BY <1>5
<1> QED
  BY <1>6 DEF x, z

-----------------------------------------------------------------------------
(* Whatever is lost, doubled, reordered and sent again, and however        *)
(* tcp_write cut the data into segments, the remote host receives the      *)
(* bytes the application wrote, in order.                                  *)
THEOREM StreamTheorem == Spec => []StreamIntact
<1>1. IInv => StreamIntact
  BY HostFacts DEF IInv, Inv, StreamIntact
<1> QED
  BY <1>1, InvTheorem, PTL

(* unacked and unsent together are what was written and is not             *)
(* acknowledged, without a gap or an overlap, and snd_buf and snd_queuelen *)
(* are what they leave: no retransmission and no ACK, however late, loses  *)
(* a segment or a buffer.                                                  *)
THEOREM NothingDroppedTheorem == Spec => []NothingDropped
<1>1. IInv => NothingDropped
  BY InvNothingDropped
<1> QED
  BY <1>1, InvTheorem, PTL

(* tcp_write never copies beyond the last pbuf: unsent_oversize is there,  *)
(* whatever was sent or sent again since it was noted.                     *)
THEOREM OversizeTheorem == Spec => []OversizeIsThere
<1>1. IInv => OversizeIsThere
  BY InvOversize
<1> QED
  BY <1>1, InvTheorem, PTL

(* The sender goes by no window that the remote host has not announced,    *)
(* in whatever order the ACKs arrive.                                      *)
THEOREM WindowTheorem == Spec => []WindowRespected
<1>1. IInv => WindowRespected
  BY InvWindow
<1> QED
  BY <1>1, InvTheorem, PTL
=============================================================================
