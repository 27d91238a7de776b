---------------------------- MODULE EmacRx_proofs ---------------------------
(***************************************************************************)
(* Proofs about the receive path: for every ring, every pool and mailbox   *)
(* size and every set of frames.                                           *)
(***************************************************************************)
EXTENDS EmacRx, FiniteSetTheorems, FunctionTheorems, SequenceTheorems,
        NaturalsInduction, WellFoundedInduction, TLAPS

(* The messages there can be; a packet has pbufs, and no more than there   *)
(* are.                                                                    *)
Carried == {f \in Frames : f.chain \in 1 .. PBUF_POOL_SIZE}
Message == [kind : {"INPKT"}, frame : Carried]
             \cup [kind : {"OOSEQ", "CALLBACK", "API", "DONE"}]

(* The places of a sequence of messages that hold one of the given kinds,  *)
(* and how many there are.                                                 *)
Places(s, kinds) == {i \in 1 .. Len(s) : s[i].kind \in kinds}
Count(s, kinds) == Cardinality(Places(s, kinds))

(* The pbufs of the packets of a sequence, as places in their chains.      *)
Pbufs(s) == {c \in (1 .. Len(s)) \X (1 .. PBUF_POOL_SIZE) :
               s[c[1]].kind = "INPKT" /\ c[2] <= s[c[1]].frame.chain}

USE RxAssumption

-----------------------------------------------------------------------------
(* Counting messages and pbufs.                                            *)

(* The places of a sequence are finitely many.                             *)
LEMMA CountType ==
  ASSUME NEW s \in Seq(Message), NEW kinds
  PROVE  IsFiniteSet(Places(s, kinds)) /\ Count(s, kinds) \in Nat
  <1>1. IsFiniteSet(1 .. Len(s))
    <2>1. Len(s) \in Int /\ 1 \in Int
      OBVIOUS
    <2> QED
      BY <2>1, FS_Interval
  <1>2. IsFiniteSet(Places(s, kinds))
    <2>1. Places(s, kinds) \subseteq 1 .. Len(s)
      BY DEF Places
    <2> QED
      BY <1>1, <2>1, FS_Subset
  <1> QED
    BY <1>2, FS_CardinalityType DEF Count

(* An empty sequence holds none.                                           *)
LEMMA CountEmpty ==
  ASSUME NEW kinds
  PROVE  Count(<<>>, kinds) = 0
  <1>1. Places(<<>>, kinds) = {}
    BY DEF Places
  <1> QED
    BY <1>1, FS_EmptySet DEF Count

(* Appending a message adds one if it is of the kinds.                     *)
LEMMA CountAppend ==
  ASSUME NEW s \in Seq(Message), NEW m \in Message, NEW kinds
  PROVE  Count(Append(s, m), kinds) = Count(s, kinds) + IF m.kind \in kinds THEN 1 ELSE 0
  <1>1. /\ Len(s) \in Nat /\ Len(Append(s, m)) = Len(s) + 1
        /\ Append(s, m)[Len(s) + 1] = m
        /\ \A i \in 1 .. Len(s) : Append(s, m)[i] = s[i]
    OBVIOUS
  <1>2. CASE m.kind \notin kinds
    <2>1. Places(Append(s, m), kinds) = Places(s, kinds)
      BY <1>1, <1>2 DEF Places
    <2> QED
      BY <1>2, <2>1, CountType DEF Count
  <1>3. CASE m.kind \in kinds
    <2>1. Places(Append(s, m), kinds) = Places(s, kinds) \cup {Len(s) + 1}
      BY <1>1, <1>3 DEF Places
    <2>2. Len(s) + 1 \notin Places(s, kinds)
      BY <1>1 DEF Places
    <2>3. Cardinality(Places(s, kinds) \cup {Len(s) + 1}) = Cardinality(Places(s, kinds)) + 1
      BY <2>2, CountType, FS_AddElement
    <2> QED
      BY <1>3, <2>1, <2>3 DEF Count
  <1> QED
    BY <1>2, <1>3

(* Taking the first message away removes one if it is of the kinds.        *)
LEMMA CountTail ==
  ASSUME NEW s \in Seq(Message), s # <<>>, NEW kinds
  PROVE  Count(s, kinds) = Count(Tail(s), kinds) + IF Head(s).kind \in kinds THEN 1 ELSE 0
  <1> DEFINE T == Places(Tail(s), kinds)
             R == Places(s, kinds) \ {1}
             f == [i \in T |-> i + 1]
  <1>1. /\ Tail(s) \in Seq(Message) /\ Len(s) \in Nat \ {0}
        /\ Len(Tail(s)) = Len(s) - 1 /\ Head(s) = s[1]
        /\ \A i \in 1 .. Len(Tail(s)) : Tail(s)[i] = s[i + 1]
    OBVIOUS
  <1>2. f \in [T -> R]
    BY <1>1 DEF Places
  <1>3. \A a, b \in T : f[a] = f[b] => a = b
    BY DEF Places
  <1>4. \A t \in R : \E a \in T : f[a] = t
    <2> SUFFICES ASSUME NEW t \in R
                 PROVE  \E a \in T : f[a] = t
      OBVIOUS
    <2>1. t \in 2 .. Len(s) /\ s[t].kind \in kinds
      BY <1>1 DEF Places
    <2>2. t - 1 \in 1 .. Len(Tail(s)) /\ Tail(s)[t - 1] = s[t]
      BY <1>1, <2>1
    <2>3. t - 1 \in T
      BY <2>1, <2>2 DEF Places
    <2> QED
      BY <2>1, <2>3
  <1>5. ExistsBijection(T, R)
    <2>1. f \in Bijection(T, R)
      BY <1>2, <1>3, <1>4, Fun_IsBij
    <2> QED
      BY <2>1 DEF ExistsBijection
  <1>6. Cardinality(R) = Cardinality(T)
    BY <1>1, <1>5, CountType, FS_Bijection
  <1>7. Cardinality(R) = IF 1 \in Places(s, kinds) THEN Cardinality(Places(s, kinds)) - 1
                                                   ELSE Cardinality(Places(s, kinds))
    BY CountType, FS_RemoveElement
  <1>8. 1 \in Places(s, kinds) <=> Head(s).kind \in kinds
    BY <1>1 DEF Places
  <1>9. Cardinality(Places(s, kinds)) \in Nat /\ Cardinality(T) \in Nat
    BY <1>1, CountType DEF Count
  <1> QED
    BY <1>6, <1>7, <1>8, <1>9 DEF Count

(* A sequence of one message.                                              *)
LEMMA CountOne ==
  ASSUME NEW m \in Message, NEW kinds
  PROVE  Count(<<m>>, kinds) = IF m.kind \in kinds THEN 1 ELSE 0
  <1>1. CASE m.kind \in kinds
    <2>1. Places(<<m>>, kinds) = {1}
      BY <1>1 DEF Places
    <2> QED
      BY <1>1, <2>1, FS_Singleton DEF Count
  <1>2. CASE m.kind \notin kinds
    <2>1. Places(<<m>>, kinds) = {}
      BY <1>2 DEF Places
    <2> QED
      BY <1>2, <2>1, FS_EmptySet DEF Count
  <1> QED
    BY <1>1, <1>2

(* The pbufs of a sequence are finitely many, and PbufsIn counts them.     *)
LEMMA PbufsType ==
  ASSUME NEW s \in Seq(Message)
  PROVE  /\ IsFiniteSet(Pbufs(s)) /\ PbufsIn(s) = Cardinality(Pbufs(s))
         /\ PbufsIn(s) \in Nat
  <1>1. IsFiniteSet(1 .. Len(s)) /\ IsFiniteSet(1 .. PBUF_POOL_SIZE)
    <2>1. Len(s) \in Int /\ 1 \in Int /\ PBUF_POOL_SIZE \in Int
      OBVIOUS
    <2> QED
      BY <2>1, FS_Interval
  <1>2. IsFiniteSet((1 .. Len(s)) \X (1 .. PBUF_POOL_SIZE))
    BY <1>1, FS_Product
  <1>3. IsFiniteSet(Pbufs(s))
    <2>1. Pbufs(s) \subseteq (1 .. Len(s)) \X (1 .. PBUF_POOL_SIZE)
      BY DEF Pbufs
    <2> QED
      BY <1>2, <2>1, FS_Subset
  <1> QED
    BY <1>3, FS_CardinalityType DEF PbufsIn, Pbufs

(* An empty sequence has none.                                             *)
LEMMA PbufsEmpty == PbufsIn(<<>>) = 0
  <1>1. Pbufs(<<>>) = {}
    BY DEF Pbufs
  <1>2. <<>> \in Seq(Message)
    OBVIOUS
  <1>3. PbufsIn(<<>>) = Cardinality(Pbufs(<<>>))
    BY <1>2, PbufsType
  <1> QED
    BY <1>1, <1>3, FS_EmptySet

(* The pbufs of a message.                                                 *)
Chain(m) == IF m.kind = "INPKT" THEN m.frame.chain ELSE 0

(* Their number.                                                           *)
LEMMA ChainType ==
  ASSUME NEW m \in Message
  PROVE  Chain(m) \in 0 .. PBUF_POOL_SIZE
  BY DEF Message, Carried, Chain

(* The pbufs of the i-th message, as places in its chain.                  *)
LEMMA ChainPlaces ==
  ASSUME NEW i, NEW n \in Nat
  PROVE  IsFiniteSet({i} \X (1 .. n)) /\ Cardinality({i} \X (1 .. n)) = n
  <1>1. IsFiniteSet(1 .. n) /\ Cardinality(1 .. n) = n
    <2>1. n \in Int /\ 1 \in Int
      OBVIOUS
    <2>2. /\ IsFiniteSet(1 .. n)
          /\ Cardinality(1 .. n) = IF 1 > n THEN 0 ELSE n - 1 + 1
      BY <2>1, FS_Interval
    <2> QED
      BY <2>2
  <1>2. IsFiniteSet({i}) /\ Cardinality({i}) = 1
    BY FS_Singleton
  <1>3. /\ IsFiniteSet({i} \X (1 .. n))
        /\ Cardinality({i} \X (1 .. n)) = Cardinality({i}) * Cardinality(1 .. n)
    BY <1>1, <1>2, FS_Product
  <1> QED
    BY <1>1, <1>2, <1>3

(* Appending a packet adds its chain.                                      *)
LEMMA PbufsAppend ==
  ASSUME NEW s \in Seq(Message), NEW m \in Message
  PROVE  PbufsIn(Append(s, m)) = PbufsIn(s) + Chain(m)
  <1> DEFINE new == {Len(s) + 1} \X (1 .. Chain(m))
  <1>1. /\ Len(s) \in Nat /\ Len(Append(s, m)) = Len(s) + 1
        /\ Append(s, m)[Len(s) + 1] = m /\ Append(s, m) \in Seq(Message)
        /\ \A i \in 1 .. Len(s) : Append(s, m)[i] = s[i]
    OBVIOUS
  <1>2. Pbufs(Append(s, m)) = Pbufs(s) \cup new
    <2>1. ASSUME NEW c \in Pbufs(Append(s, m))
          PROVE  c \in Pbufs(s) \cup new
      <3>1. c \in (1 .. Len(s) + 1) \X (1 .. PBUF_POOL_SIZE)
        BY <1>1 DEF Pbufs
      <3>2. CASE c[1] = Len(s) + 1
        BY <1>1, <2>1, <3>1, <3>2 DEF Pbufs, Chain
      <3>3. CASE c[1] # Len(s) + 1
        BY <1>1, <2>1, <3>1, <3>3 DEF Pbufs
      <3> QED
        BY <3>2, <3>3
    <2>2. ASSUME NEW c \in Pbufs(s)
          PROVE  c \in Pbufs(Append(s, m))
      BY <1>1 DEF Pbufs
    <2>3. ASSUME NEW c \in new
          PROVE  c \in Pbufs(Append(s, m))
      <3>1. Chain(m) \in 0 .. PBUF_POOL_SIZE
        BY ChainType
      <3>2. /\ c[1] = Len(s) + 1 /\ c[2] \in 1 .. Chain(m)
            /\ c \in (1 .. Len(s) + 1) \X (1 .. PBUF_POOL_SIZE)
        BY <1>1, <3>1
      <3>3. m.kind = "INPKT" /\ c[2] <= m.frame.chain
        BY <3>1, <3>2 DEF Chain
      <3> QED
        BY <1>1, <3>2, <3>3 DEF Pbufs
    <2> HIDE DEF new
    <2> QED
      BY <2>1, <2>2, <2>3
  <1>3. Pbufs(s) \cap new = {}
    <2> SUFFICES ASSUME NEW c \in Pbufs(s), c \in new
                 PROVE  FALSE
      OBVIOUS
    <2>1. c[1] \in 1 .. Len(s)
      BY DEF Pbufs
    <2>2. c[1] = Len(s) + 1
      OBVIOUS
    <2> QED
      BY <1>1, <2>1, <2>2
  <1>4. IsFiniteSet(new) /\ Cardinality(new) = Chain(m)
    <2>1. Chain(m) \in Nat
      BY ChainType
    <2> QED
      BY <2>1, ChainPlaces
  <1> HIDE DEF new
  <1>5. Cardinality(Pbufs(s) \cup new) =
          Cardinality(Pbufs(s)) + Cardinality(new) - Cardinality(Pbufs(s) \cap new)
    BY <1>4, PbufsType, FS_Union
  <1>6. Cardinality(Pbufs(s) \cap new) = 0
    BY <1>3, FS_EmptySet
  <1>7. PbufsIn(s) \in Nat /\ Chain(m) \in Nat /\ PbufsIn(s) = Cardinality(Pbufs(s))
    BY PbufsType, ChainType
  <1>8. PbufsIn(Append(s, m)) = Cardinality(Pbufs(s) \cup new)
    BY <1>1, <1>2, PbufsType
  <1> QED
    BY <1>4, <1>5, <1>6, <1>7, <1>8

(* Taking the first message away takes its chain away.                     *)
LEMMA PbufsTail ==
  ASSUME NEW s \in Seq(Message), s # <<>>
  PROVE  PbufsIn(s) = PbufsIn(Tail(s)) + Chain(Head(s))
  <1> DEFINE T == Pbufs(Tail(s))
             R == {c \in Pbufs(s) : c[1] # 1}
             old == {1} \X (1 .. Chain(Head(s)))
             f == [c \in T |-> <<c[1] + 1, c[2]>>]
  <1>1. /\ Tail(s) \in Seq(Message) /\ Len(s) \in Nat \ {0}
        /\ Len(Tail(s)) = Len(s) - 1 /\ Head(s) = s[1] /\ Head(s) \in Message
        /\ \A i \in 1 .. Len(Tail(s)) : Tail(s)[i] = s[i + 1]
    OBVIOUS
  <1>2. \A c \in T : /\ c[1] \in 1 .. Len(s) - 1 /\ c[2] \in 1 .. PBUF_POOL_SIZE
                     /\ c = <<c[1], c[2]>> /\ s[c[1] + 1].kind = "INPKT"
                     /\ c[2] <= s[c[1] + 1].frame.chain
    BY <1>1 DEF Pbufs
  <1>3. \A i \in 1 .. Len(s), j \in 1 .. PBUF_POOL_SIZE :
          i # 1 /\ s[i].kind = "INPKT" /\ j <= s[i].frame.chain => <<i, j>> \in R
    BY DEF Pbufs
  <1>4. \A c \in R : /\ c[1] \in 2 .. Len(s) /\ c[2] \in 1 .. PBUF_POOL_SIZE
                     /\ c = <<c[1], c[2]>> /\ s[c[1]].kind = "INPKT"
                     /\ c[2] <= s[c[1]].frame.chain
    BY <1>1 DEF Pbufs
  <1>5. \A i \in 1 .. Len(s) - 1, j \in 1 .. PBUF_POOL_SIZE :
          s[i + 1].kind = "INPKT" /\ j <= s[i + 1].frame.chain => <<i, j>> \in T
    BY <1>1 DEF Pbufs
  <1> HIDE DEF T, R
  <1>6. f \in [T -> R]
    <2> SUFFICES ASSUME NEW c \in T
                 PROVE  <<c[1] + 1, c[2]>> \in R
      OBVIOUS
    <2>1. c[1] + 1 \in 1 .. Len(s) /\ c[1] + 1 # 1 /\ c[2] \in 1 .. PBUF_POOL_SIZE
      BY <1>1, <1>2
    <2> QED
      BY <1>2, <1>3, <2>1
  <1>7. \A a, b \in T : f[a] = f[b] => a = b
    <2> SUFFICES ASSUME NEW a \in T, NEW b \in T, f[a] = f[b]
                 PROVE  a = b
      OBVIOUS
    <2>1. <<a[1] + 1, a[2]>> = <<b[1] + 1, b[2]>>
      OBVIOUS
    <2>2. a[1] + 1 = b[1] + 1 /\ a[2] = b[2]
      BY <2>1
    <2>3. a[1] = b[1] /\ a = <<a[1], a[2]>> /\ b = <<b[1], b[2]>>
      BY <1>2, <2>2
    <2> QED
      BY <2>2, <2>3
  <1>8. \A t \in R : \E a \in T : f[a] = t
    <2> SUFFICES ASSUME NEW t \in R
                 PROVE  \E a \in T : f[a] = t
      OBVIOUS
    <2>1. /\ t[1] - 1 \in 1 .. Len(s) - 1 /\ t[1] - 1 + 1 = t[1]
          /\ t[2] \in 1 .. PBUF_POOL_SIZE /\ t = <<t[1], t[2]>>
      BY <1>1, <1>4
    <2>2. <<t[1] - 1, t[2]>> \in T
      BY <1>4, <1>5, <2>1
    <2>3. f[<<t[1] - 1, t[2]>>] = <<t[1] - 1 + 1, t[2]>>
      BY <2>2
    <2> QED
      BY <2>1, <2>2, <2>3
  <1>9. ExistsBijection(T, R)
    <2>1. f \in Bijection(T, R)
      BY <1>6, <1>7, <1>8, Fun_IsBij
    <2> QED
      BY <2>1 DEF ExistsBijection
  <1>10. /\ IsFiniteSet(T) /\ PbufsIn(Tail(s)) = Cardinality(T)
         /\ PbufsIn(Tail(s)) \in Nat
    BY <1>1, PbufsType DEF T
  <1>11. IsFiniteSet(R) /\ Cardinality(R) = Cardinality(T)
    BY <1>9, <1>10, FS_Bijection
  <1>12. Pbufs(s) = R \cup old
    <2>1. ASSUME NEW c \in Pbufs(s), c \notin R
          PROVE  c \in old
      <3>1. /\ c[1] = 1 /\ c[2] \in 1 .. PBUF_POOL_SIZE /\ c = <<c[1], c[2]>>
            /\ s[1].kind = "INPKT" /\ c[2] <= s[1].frame.chain
        BY <2>1 DEF Pbufs, R
      <3>2. Chain(Head(s)) = s[1].frame.chain /\ Chain(Head(s)) \in Nat
        BY <1>1, <3>1, ChainType DEF Chain
      <3> QED
        BY <3>1, <3>2
    <2>2. ASSUME NEW c \in old
          PROVE  c \in Pbufs(s)
      <3>1. Chain(Head(s)) \in 0 .. PBUF_POOL_SIZE
        BY <1>1, ChainType
      <3>2. /\ c[1] = 1 /\ c[2] \in 1 .. Chain(Head(s))
            /\ c \in (1 .. Len(s)) \X (1 .. PBUF_POOL_SIZE)
        BY <1>1, <3>1
      <3>3. s[1].kind = "INPKT" /\ c[2] <= s[1].frame.chain
        BY <1>1, <3>1, <3>2 DEF Chain
      <3> QED
        BY <3>2, <3>3 DEF Pbufs
    <2>3. R \subseteq Pbufs(s)
      BY DEF R
    <2> HIDE DEF old
    <2> QED
      BY <2>1, <2>2, <2>3
  <1>13. R \cap old = {}
    BY <1>4
  <1>14. IsFiniteSet(old) /\ Cardinality(old) = Chain(Head(s)) /\ Chain(Head(s)) \in Nat
    <2>1. Chain(Head(s)) \in Nat
      BY <1>1, ChainType
    <2> QED
      BY <2>1, ChainPlaces
  <1> HIDE DEF old
  <1>15. Cardinality(R \cup old) =
           Cardinality(R) + Cardinality(old) - Cardinality(R \cap old)
    BY <1>11, <1>14, FS_Union
  <1>16. Cardinality(R \cap old) = 0
    BY <1>13, FS_EmptySet
  <1>17. PbufsIn(s) = Cardinality(R \cup old)
    BY <1>12, PbufsType
  <1> QED
    BY <1>10, <1>11, <1>14, <1>15, <1>16, <1>17

(* A sequence of one message.                                              *)
LEMMA PbufsOne ==
  ASSUME NEW m \in Message
  PROVE  PbufsIn(<<m>>) = Chain(m)
  <1> DEFINE s == <<m>>
  <1>1. s \in Seq(Message) /\ s # <<>> /\ Head(s) = m /\ Tail(s) = <<>>
    OBVIOUS
  <1> HIDE DEF s
  <1>2. PbufsIn(s) = PbufsIn(Tail(s)) + Chain(Head(s))
    BY <1>1, PbufsTail
  <1>3. PbufsIn(s) = 0 + Chain(m)
    BY <1>1, <1>2, PbufsEmpty
  <1> QED
    BY <1>3, ChainType DEF s

-----------------------------------------------------------------------------
(* The books of the three pools: mailbox mb, message ms of the thread, pf, *)
(* nf and af free pbufs, packet and callback messages, hd pbufs kept by    *)
(* the stack, h in the handler, and q requests for pbuf_free_ooseq.        *)
Ledger(mb, ms, pf, nf, af, hd, h, q) ==
  /\ mb \in Seq(Message) /\ ms \in Seq(Message)
  /\ pf \in Nat /\ nf \in Nat /\ af \in Nat /\ hd \in Nat /\ h \in Nat
  /\ PBUF_POOL_SIZE = pf + hd + PbufsIn(mb) + PbufsIn(ms) + h
  /\ MEMP_NUM_TCPIP_MSG_INPKT =
       nf + (Count(mb, {"INPKT", "DONE"}) + Count(ms, {"INPKT", "DONE"}))
  /\ MEMP_NUM_TCPIP_MSG_API =
       af + (Count(mb, {"OOSEQ", "CALLBACK"}) + Count(ms, {"OOSEQ", "CALLBACK"}))
  /\ Count(mb, {"OOSEQ"}) + Count(ms, {"OOSEQ"}) = q

Done == [kind |-> "DONE"]

(* What is counted is natural.                                             *)
LEMMA Counts ==
  ASSUME NEW s \in Seq(Message)
  PROVE  /\ PbufsIn(s) \in Nat /\ Count(s, {"INPKT", "DONE"}) \in Nat
         /\ Count(s, {"OOSEQ", "CALLBACK"}) \in Nat /\ Count(s, {"OOSEQ"}) \in Nat
  BY PbufsType, CountType

(* The counts of no message.                                               *)
LEMMA CountsEmpty ==
  /\ <<>> \in Seq(Message) /\ PbufsIn(<<>>) = 0
  /\ Count(<<>>, {"INPKT", "DONE"}) = 0 /\ Count(<<>>, {"OOSEQ", "CALLBACK"}) = 0
  /\ Count(<<>>, {"OOSEQ"}) = 0
  BY PbufsEmpty, CountEmpty

(* The counts of one message.                                              *)
LEMMA CountsOne ==
  ASSUME NEW m \in Message
  PROVE  /\ <<m>> \in Seq(Message) /\ PbufsIn(<<m>>) = Chain(m)
         /\ Count(<<m>>, {"INPKT", "DONE"}) = IF m.kind \in {"INPKT", "DONE"} THEN 1 ELSE 0
         /\ Count(<<m>>, {"OOSEQ", "CALLBACK"}) =
              IF m.kind \in {"OOSEQ", "CALLBACK"} THEN 1 ELSE 0
         /\ Count(<<m>>, {"OOSEQ"}) = IF m.kind \in {"OOSEQ"} THEN 1 ELSE 0
  <1>1. <<m>> \in Seq(Message)
    OBVIOUS
  <1>2. PbufsIn(<<m>>) = Chain(m)
    BY PbufsOne
  <1>3. Count(<<m>>, {"INPKT", "DONE"}) = IF m.kind \in {"INPKT", "DONE"} THEN 1 ELSE 0
    BY CountOne
  <1>4. Count(<<m>>, {"OOSEQ", "CALLBACK"}) =
          IF m.kind \in {"OOSEQ", "CALLBACK"} THEN 1 ELSE 0
    BY CountOne
  <1>5. Count(<<m>>, {"OOSEQ"}) = IF m.kind \in {"OOSEQ"} THEN 1 ELSE 0
    BY CountOne
  <1> QED
    BY <1>1, <1>2, <1>3, <1>4, <1>5

(* The counts when a message is posted.                                    *)
LEMMA CountsAppend ==
  ASSUME NEW s \in Seq(Message), NEW m \in Message
  PROVE  /\ Append(s, m) \in Seq(Message)
         /\ PbufsIn(Append(s, m)) = PbufsIn(s) + Chain(m)
         /\ Count(Append(s, m), {"INPKT", "DONE"}) =
              Count(s, {"INPKT", "DONE"}) + IF m.kind \in {"INPKT", "DONE"} THEN 1 ELSE 0
         /\ Count(Append(s, m), {"OOSEQ", "CALLBACK"}) =
              Count(s, {"OOSEQ", "CALLBACK"})
                + IF m.kind \in {"OOSEQ", "CALLBACK"} THEN 1 ELSE 0
         /\ Count(Append(s, m), {"OOSEQ"}) =
              Count(s, {"OOSEQ"}) + IF m.kind \in {"OOSEQ"} THEN 1 ELSE 0
  <1>1. Append(s, m) \in Seq(Message)
    OBVIOUS
  <1>2. PbufsIn(Append(s, m)) = PbufsIn(s) + Chain(m)
    BY PbufsAppend
  <1>3. Count(Append(s, m), {"INPKT", "DONE"}) =
          Count(s, {"INPKT", "DONE"}) + IF m.kind \in {"INPKT", "DONE"} THEN 1 ELSE 0
    BY CountAppend
  <1>4. Count(Append(s, m), {"OOSEQ", "CALLBACK"}) =
          Count(s, {"OOSEQ", "CALLBACK"})
            + IF m.kind \in {"OOSEQ", "CALLBACK"} THEN 1 ELSE 0
    BY CountAppend
  <1>5. Count(Append(s, m), {"OOSEQ"}) =
          Count(s, {"OOSEQ"}) + IF m.kind \in {"OOSEQ"} THEN 1 ELSE 0
    BY CountAppend
  <1> QED
    BY <1>1, <1>2, <1>3, <1>4, <1>5

(* The counts when a message is fetched.                                   *)
LEMMA CountsTail ==
  ASSUME NEW s \in Seq(Message), s # <<>>
  PROVE  /\ Tail(s) \in Seq(Message) /\ Head(s) \in Message
         /\ PbufsIn(s) = PbufsIn(Tail(s)) + Chain(Head(s))
         /\ Count(s, {"INPKT", "DONE"}) =
              Count(Tail(s), {"INPKT", "DONE"})
                + IF Head(s).kind \in {"INPKT", "DONE"} THEN 1 ELSE 0
         /\ Count(s, {"OOSEQ", "CALLBACK"}) =
              Count(Tail(s), {"OOSEQ", "CALLBACK"})
                + IF Head(s).kind \in {"OOSEQ", "CALLBACK"} THEN 1 ELSE 0
         /\ Count(s, {"OOSEQ"}) =
              Count(Tail(s), {"OOSEQ"}) + IF Head(s).kind \in {"OOSEQ"} THEN 1 ELSE 0
  <1>1. Tail(s) \in Seq(Message) /\ Head(s) \in Message
    OBVIOUS
  <1>2. PbufsIn(s) = PbufsIn(Tail(s)) + Chain(Head(s))
    BY PbufsTail
  <1>3. Count(s, {"INPKT", "DONE"}) =
          Count(Tail(s), {"INPKT", "DONE"})
            + IF Head(s).kind \in {"INPKT", "DONE"} THEN 1 ELSE 0
    BY CountTail
  <1>4. Count(s, {"OOSEQ", "CALLBACK"}) =
          Count(Tail(s), {"OOSEQ", "CALLBACK"})
            + IF Head(s).kind \in {"OOSEQ", "CALLBACK"} THEN 1 ELSE 0
    BY CountTail
  <1>5. Count(s, {"OOSEQ"}) =
          Count(Tail(s), {"OOSEQ"}) + IF Head(s).kind \in {"OOSEQ"} THEN 1 ELSE 0
    BY CountTail
  <1> QED
    BY <1>1, <1>2, <1>3, <1>4, <1>5

(* The messages that are posted are messages.                              *)
LEMMA MessageFacts ==
  /\ Ooseq \in Message /\ Ooseq.kind = "OOSEQ" /\ Chain(Ooseq) = 0
  /\ Callback \in Message /\ Callback.kind = "CALLBACK" /\ Chain(Callback) = 0
  /\ Api \in Message /\ Api.kind = "API" /\ Chain(Api) = 0
  /\ Done \in Message /\ Done.kind = "DONE" /\ Chain(Done) = 0
  /\ \A f \in Carried : /\ Packet(f) \in Message /\ Packet(f).kind = "INPKT"
                        /\ Chain(Packet(f)) = f.chain
                        /\ f \in Frames /\ f.chain \in 1 .. PBUF_POOL_SIZE
  BY DEF Message, Ooseq, Callback, Api, Done, Packet, Chain, Carried

(* One if the message is of the kinds, else none.                          *)
Of(m, kinds) == IF m.kind \in kinds THEN 1 ELSE 0

(* A message is posted with what it carries.                               *)
LEMMA LedgerPost ==
  ASSUME NEW mb, NEW ms, NEW pf \in Nat, NEW nf \in Nat, NEW af \in Nat,
         NEW hd \in Nat, NEW h \in Nat, NEW q \in Nat,
         Ledger(mb, ms, pf, nf, af, hd, h, q), NEW m \in Message,
         NEW nf2 \in Nat, nf = nf2 + Of(m, {"INPKT", "DONE"}),
         NEW af2 \in Nat, af = af2 + Of(m, {"OOSEQ", "CALLBACK"}),
         NEW h2 \in Nat, h = h2 + Chain(m),
         NEW q2 \in Nat, q2 = q + Of(m, {"OOSEQ"})
  PROVE  Ledger(Append(mb, m), ms, pf, nf2, af2, hd, h2, q2)
  <1>1. mb \in Seq(Message) /\ ms \in Seq(Message) /\ Chain(m) \in Nat
    BY ChainType DEF Ledger
  <1>2. Of(m, {"INPKT", "DONE"}) \in 0 .. 1 /\ Of(m, {"OOSEQ", "CALLBACK"}) \in 0 .. 1
        /\ Of(m, {"OOSEQ"}) \in 0 .. 1
    BY DEF Of
  <1> DEFINE a == Append(mb, m)
  <1>3. /\ a \in Seq(Message) /\ PbufsIn(a) = PbufsIn(mb) + Chain(m)
        /\ Count(a, {"INPKT", "DONE"}) =
             Count(mb, {"INPKT", "DONE"}) + Of(m, {"INPKT", "DONE"})
        /\ Count(a, {"OOSEQ", "CALLBACK"}) =
             Count(mb, {"OOSEQ", "CALLBACK"}) + Of(m, {"OOSEQ", "CALLBACK"})
        /\ Count(a, {"OOSEQ"}) = Count(mb, {"OOSEQ"}) + Of(m, {"OOSEQ"})
    BY <1>1, CountsAppend DEF Of
  <1> HIDE DEF a
  <1>4. /\ PbufsIn(mb) \in Nat /\ Count(mb, {"INPKT", "DONE"}) \in Nat
        /\ Count(mb, {"OOSEQ", "CALLBACK"}) \in Nat /\ Count(mb, {"OOSEQ"}) \in Nat
        /\ PbufsIn(ms) \in Nat /\ Count(ms, {"INPKT", "DONE"}) \in Nat
        /\ Count(ms, {"OOSEQ", "CALLBACK"}) \in Nat /\ Count(ms, {"OOSEQ"}) \in Nat
        /\ PbufsIn(a) \in Nat /\ Count(a, {"INPKT", "DONE"}) \in Nat
        /\ Count(a, {"OOSEQ", "CALLBACK"}) \in Nat /\ Count(a, {"OOSEQ"}) \in Nat
    BY <1>1, <1>3, Counts
  <1>5. /\ pf \in Nat /\ nf \in Nat /\ af \in Nat /\ hd \in Nat /\ h \in Nat
        /\ PBUF_POOL_SIZE = pf + hd + PbufsIn(mb) + PbufsIn(ms) + h
        /\ MEMP_NUM_TCPIP_MSG_INPKT =
             nf + (Count(mb, {"INPKT", "DONE"}) + Count(ms, {"INPKT", "DONE"}))
        /\ MEMP_NUM_TCPIP_MSG_API =
             af + (Count(mb, {"OOSEQ", "CALLBACK"}) + Count(ms, {"OOSEQ", "CALLBACK"}))
        /\ Count(mb, {"OOSEQ"}) + Count(ms, {"OOSEQ"}) = q
    BY DEF Ledger
  <1>6. PBUF_POOL_SIZE = pf + hd + PbufsIn(a) + PbufsIn(ms) + h2
    <2>1. Chain(m) \in Nat /\ PbufsIn(a) = PbufsIn(mb) + Chain(m)
      BY <1>1, <1>3
    <2>2. PBUF_POOL_SIZE = pf + hd + PbufsIn(mb) + PbufsIn(ms) + h
      BY <1>5
    <2>3. PbufsIn(mb) \in Nat /\ PbufsIn(ms) \in Nat
      BY <1>4
    <2> QED
      BY <2>1, <2>2, <2>3
  <1>7. MEMP_NUM_TCPIP_MSG_INPKT =
          nf2 + (Count(a, {"INPKT", "DONE"}) + Count(ms, {"INPKT", "DONE"}))
    <2>1. /\ Of(m, {"INPKT", "DONE"}) \in 0 .. 1
          /\ Count(a, {"INPKT", "DONE"}) = Count(mb, {"INPKT", "DONE"}) + Of(m, {"INPKT", "DONE"})
      BY <1>2, <1>3
    <2>2. Count(mb, {"INPKT", "DONE"}) \in Nat /\ Count(ms, {"INPKT", "DONE"}) \in Nat
      BY <1>4
    <2>3. MEMP_NUM_TCPIP_MSG_INPKT = nf + (Count(mb, {"INPKT", "DONE"}) + Count(ms, {"INPKT", "DONE"}))
      BY <1>5
    <2> QED
      BY <2>1, <2>2, <2>3
  <1>8. MEMP_NUM_TCPIP_MSG_API =
          af2 + (Count(a, {"OOSEQ", "CALLBACK"}) + Count(ms, {"OOSEQ", "CALLBACK"}))
    <2>1. /\ Of(m, {"OOSEQ", "CALLBACK"}) \in 0 .. 1
          /\ Count(a, {"OOSEQ", "CALLBACK"}) = Count(mb, {"OOSEQ", "CALLBACK"}) + Of(m, {"OOSEQ", "CALLBACK"})
      BY <1>2, <1>3
    <2>2. Count(mb, {"OOSEQ", "CALLBACK"}) \in Nat /\ Count(ms, {"OOSEQ", "CALLBACK"}) \in Nat
      BY <1>4
    <2>3. MEMP_NUM_TCPIP_MSG_API = af + (Count(mb, {"OOSEQ", "CALLBACK"}) + Count(ms, {"OOSEQ", "CALLBACK"}))
      BY <1>5
    <2> QED
      BY <2>1, <2>2, <2>3
  <1>9. Count(a, {"OOSEQ"}) + Count(ms, {"OOSEQ"}) = q2
    <2>1. /\ Of(m, {"OOSEQ"}) \in 0 .. 1
          /\ Count(a, {"OOSEQ"}) = Count(mb, {"OOSEQ"}) + Of(m, {"OOSEQ"})
      BY <1>2, <1>3
    <2>2. Count(mb, {"OOSEQ"}) \in Nat /\ Count(ms, {"OOSEQ"}) \in Nat
      BY <1>4
    <2>3. Count(mb, {"OOSEQ"}) + Count(ms, {"OOSEQ"}) = q
      BY <1>5
    <2> QED
      BY <2>1, <2>2, <2>3
  <1>10. Ledger(a, ms, pf, nf2, af2, hd, h2, q2)
    BY <1>1, <1>3, <1>5, <1>6, <1>7, <1>8, <1>9 DEF Ledger
  <1> QED
    BY <1>10 DEF a

(* A message is fetched.                                                   *)
LEMMA LedgerFetch ==
  ASSUME NEW mb, NEW pf, NEW nf, NEW af, NEW hd, NEW h, NEW q, mb # <<>>,
         Ledger(mb, <<>>, pf, nf, af, hd, h, q)
  PROVE  Ledger(Tail(mb), <<Head(mb)>>, pf, nf, af, hd, h, q)
  <1>1. mb \in Seq(Message) /\ <<>> \in Seq(Message)
    BY DEF Ledger
  <1> DEFINE m == Head(mb)
             t == Tail(mb)
  <1> DEFINE PK == {"INPKT", "DONE"}
             AP == {"OOSEQ", "CALLBACK"}
             OO == {"OOSEQ"}
             e == <<>>
             o == <<m>>
  <1>2. /\ t \in Seq(Message) /\ m \in Message /\ PbufsIn(mb) = PbufsIn(t) + Chain(m)
        /\ Count(mb, PK) = Count(t, PK) + Of(m, PK)
        /\ Count(mb, AP) = Count(t, AP) + Of(m, AP)
        /\ Count(mb, OO) = Count(t, OO) + Of(m, OO)
    BY <1>1, CountsTail DEF Of
  <1> HIDE DEF m, t
  <1>3. /\ o \in Seq(Message) /\ PbufsIn(o) = Chain(m)
        /\ Count(o, PK) = Of(m, PK) /\ Count(o, AP) = Of(m, AP) /\ Count(o, OO) = Of(m, OO)
    BY <1>2, CountsOne DEF Of
  <1>4. /\ PbufsIn(t) \in Nat /\ Count(t, PK) \in Nat
        /\ Count(t, AP) \in Nat /\ Count(t, OO) \in Nat
        /\ Chain(m) \in Nat /\ Of(m, PK) \in Nat /\ Of(m, AP) \in Nat /\ Of(m, OO) \in Nat
    BY <1>2, Counts, ChainType DEF Of
  <1>5. /\ pf \in Nat /\ nf \in Nat /\ af \in Nat /\ hd \in Nat /\ h \in Nat
        /\ PBUF_POOL_SIZE = pf + hd + PbufsIn(mb) + PbufsIn(e) + h
        /\ MEMP_NUM_TCPIP_MSG_INPKT = nf + (Count(mb, PK) + Count(e, PK))
        /\ MEMP_NUM_TCPIP_MSG_API = af + (Count(mb, AP) + Count(e, AP))
        /\ Count(mb, OO) + Count(e, OO) = q
    BY DEF Ledger
  <1>a. PbufsIn(e) = 0 /\ Count(e, PK) = 0 /\ Count(e, AP) = 0 /\ Count(e, OO) = 0
    BY CountsEmpty
  <1>b. /\ PbufsIn(mb) = PbufsIn(t) + PbufsIn(o) /\ Count(mb, PK) = Count(t, PK) + Count(o, PK)
        /\ Count(mb, AP) = Count(t, AP) + Count(o, AP)
        /\ Count(mb, OO) = Count(t, OO) + Count(o, OO)
    BY <1>2, <1>3
  <1>c. /\ PbufsIn(t) \in Nat /\ PbufsIn(o) \in Nat /\ Count(t, PK) \in Nat
        /\ Count(o, PK) \in Nat /\ Count(t, AP) \in Nat /\ Count(o, AP) \in Nat
        /\ Count(t, OO) \in Nat /\ Count(o, OO) \in Nat
    BY <1>3, <1>4
  <1> HIDE DEF e, o, PK, AP, OO
  <1>6. PBUF_POOL_SIZE = pf + hd + PbufsIn(t) + PbufsIn(o) + h
    <2>1. PBUF_POOL_SIZE = pf + hd + (PbufsIn(t) + PbufsIn(o)) + 0 + h
      BY <1>5, <1>a, <1>b
    <2>2. /\ pf \in Nat /\ hd \in Nat /\ h \in Nat
          /\ PbufsIn(t) \in Nat /\ PbufsIn(o) \in Nat
      BY <1>5, <1>c
    <2>3. pf + hd + (PbufsIn(t) + PbufsIn(o)) + 0 + h = pf + hd + PbufsIn(t) + PbufsIn(o) + h
      BY <2>2
    <2> QED
      BY <2>1, <2>3, Zenon
  <1>7. MEMP_NUM_TCPIP_MSG_INPKT = nf + (Count(t, PK) + Count(o, PK))
    BY <1>5, <1>a, <1>b, <1>c
  <1>8. MEMP_NUM_TCPIP_MSG_API = af + (Count(t, AP) + Count(o, AP))
    BY <1>5, <1>a, <1>b, <1>c
  <1>9. Count(t, OO) + Count(o, OO) = q
    BY <1>5, <1>a, <1>b, <1>c
  <1>10. Ledger(t, o, pf, nf, af, hd, h, q)
    BY <1>2, <1>3, <1>5, <1>6, <1>7, <1>8, <1>9 DEF Ledger, PK, AP, OO
  <1> QED
    BY <1>10 DEF m, t, o

(* The message in hand is replaced, or taken out of the books, with what   *)
(* it carried.                                                             *)
LEMMA LedgerHand ==
  ASSUME NEW mb, NEW m \in Message, NEW pf, NEW nf, NEW af, NEW hd, NEW h, NEW q,
         NEW k \in Message, NEW n \in 0 .. Chain(m), Chain(k) = 0,
         Ledger(mb, <<m>>, pf, nf, af, hd, h, q)
  PROVE  /\ Ledger(mb, <<>>, pf + n, nf + Of(m, {"INPKT", "DONE"}),
                   af + Of(m, {"OOSEQ", "CALLBACK"}), hd + (Chain(m) - n), h,
                   q - Of(m, {"OOSEQ"}))
         /\ Of(k, {"INPKT", "DONE"}) = Of(m, {"INPKT", "DONE"}) /\
            Of(k, {"OOSEQ", "CALLBACK"}) = Of(m, {"OOSEQ", "CALLBACK"}) =>
              Ledger(mb, <<k>>, pf + n, nf, af, hd + (Chain(m) - n), h,
                     q - Of(m, {"OOSEQ"}) + Of(k, {"OOSEQ"}))
  <1>1. mb \in Seq(Message)
    BY DEF Ledger
  <1>2. /\ <<m>> \in Seq(Message) /\ PbufsIn(<<m>>) = Chain(m)
        /\ Count(<<m>>, {"INPKT", "DONE"}) = Of(m, {"INPKT", "DONE"})
        /\ Count(<<m>>, {"OOSEQ", "CALLBACK"}) = Of(m, {"OOSEQ", "CALLBACK"})
        /\ Count(<<m>>, {"OOSEQ"}) = Of(m, {"OOSEQ"})
    BY CountsOne DEF Of
  <1>3. /\ <<k>> \in Seq(Message) /\ PbufsIn(<<k>>) = 0
        /\ Count(<<k>>, {"INPKT", "DONE"}) = Of(k, {"INPKT", "DONE"})
        /\ Count(<<k>>, {"OOSEQ", "CALLBACK"}) = Of(k, {"OOSEQ", "CALLBACK"})
        /\ Count(<<k>>, {"OOSEQ"}) = Of(k, {"OOSEQ"})
    BY CountsOne DEF Of
  <1>4. /\ PbufsIn(mb) \in Nat /\ Count(mb, {"INPKT", "DONE"}) \in Nat
        /\ Count(mb, {"OOSEQ", "CALLBACK"}) \in Nat /\ Count(mb, {"OOSEQ"}) \in Nat
        /\ Chain(m) \in Nat /\ Of(m, {"INPKT", "DONE"}) \in Nat
        /\ Of(m, {"OOSEQ", "CALLBACK"}) \in Nat /\ Of(m, {"OOSEQ"}) \in Nat
        /\ Of(k, {"OOSEQ"}) \in Nat
    BY <1>1, Counts, ChainType DEF Of
  <1>5. /\ pf \in Nat /\ nf \in Nat /\ af \in Nat /\ hd \in Nat /\ h \in Nat
        /\ PBUF_POOL_SIZE = pf + hd + PbufsIn(mb) + Chain(m) + h
        /\ MEMP_NUM_TCPIP_MSG_INPKT =
             nf + (Count(mb, {"INPKT", "DONE"}) + Of(m, {"INPKT", "DONE"}))
        /\ MEMP_NUM_TCPIP_MSG_API =
             af + (Count(mb, {"OOSEQ", "CALLBACK"}) + Of(m, {"OOSEQ", "CALLBACK"}))
        /\ Count(mb, {"OOSEQ"}) + Of(m, {"OOSEQ"}) = q
    BY <1>2 DEF Ledger
  <1>6. n \in Nat /\ Chain(m) - n \in Nat /\ pf + n \in Nat /\ hd + (Chain(m) - n) \in Nat
    BY <1>4, <1>5
  <1>7. PBUF_POOL_SIZE = (pf + n) + (hd + (Chain(m) - n)) + PbufsIn(mb) + 0 + h
    BY <1>4, <1>5, <1>6
  <1>8. Ledger(mb, <<>>, pf + n, nf + Of(m, {"INPKT", "DONE"}),
               af + Of(m, {"OOSEQ", "CALLBACK"}), hd + (Chain(m) - n), h,
               q - Of(m, {"OOSEQ"}))
    <2>1. MEMP_NUM_TCPIP_MSG_INPKT =
            (nf + Of(m, {"INPKT", "DONE"})) + (Count(mb, {"INPKT", "DONE"}) + 0)
      BY <1>4, <1>5
    <2>2. MEMP_NUM_TCPIP_MSG_API =
            (af + Of(m, {"OOSEQ", "CALLBACK"})) + (Count(mb, {"OOSEQ", "CALLBACK"}) + 0)
      BY <1>4, <1>5
    <2>3. Count(mb, {"OOSEQ"}) + 0 = q - Of(m, {"OOSEQ"})
      BY <1>4, <1>5
    <2>4. nf + Of(m, {"INPKT", "DONE"}) \in Nat /\ af + Of(m, {"OOSEQ", "CALLBACK"}) \in Nat
      BY <1>4, <1>5
    <2> QED
      BY <1>1, <1>5, <1>6, <1>7, <2>1, <2>2, <2>3, <2>4, CountsEmpty DEF Ledger
  <1>9. ASSUME Of(k, {"INPKT", "DONE"}) = Of(m, {"INPKT", "DONE"}),
               Of(k, {"OOSEQ", "CALLBACK"}) = Of(m, {"OOSEQ", "CALLBACK"})
        PROVE  Ledger(mb, <<k>>, pf + n, nf, af, hd + (Chain(m) - n), h,
                      q - Of(m, {"OOSEQ"}) + Of(k, {"OOSEQ"}))
    <2>1. Count(mb, {"OOSEQ"}) + Of(k, {"OOSEQ"}) = q - Of(m, {"OOSEQ"}) + Of(k, {"OOSEQ"})
      BY <1>4, <1>5
    <2> QED
      BY <1>1, <1>3, <1>5, <1>6, <1>7, <1>9, <2>1 DEF Ledger
  <1> QED
    BY <1>8, <1>9

(* Pbufs move between the pool, the stack and the handler.                 *)
LEMMA LedgerMove ==
  ASSUME NEW mb, NEW ms, NEW pf, NEW nf, NEW af, NEW hd, NEW h, NEW q,
         Ledger(mb, ms, pf, nf, af, hd, h, q),
         NEW pf2 \in Nat, NEW hd2 \in Nat, NEW h2 \in Nat,
         pf2 + hd2 + h2 = pf + hd + h
  PROVE  Ledger(mb, ms, pf2, nf, af, hd2, h2, q)
  <1>1. PbufsIn(mb) \in Nat /\ PbufsIn(ms) \in Nat
    BY Counts DEF Ledger
  <1>2. /\ pf \in Nat /\ hd \in Nat /\ h \in Nat
        /\ PBUF_POOL_SIZE = pf + hd + PbufsIn(mb) + PbufsIn(ms) + h
    BY DEF Ledger
  <1>3. PBUF_POOL_SIZE = pf2 + hd2 + PbufsIn(mb) + PbufsIn(ms) + h2
    BY <1>1, <1>2
  <1> QED
    BY <1>3 DEF Ledger

(* The pools never hold more than they had.                                *)
LEMMA LedgerBounds ==
  ASSUME NEW mb, NEW ms, NEW pf, NEW nf, NEW af, NEW hd, NEW h, NEW q,
         Ledger(mb, ms, pf, nf, af, hd, h, q)
  PROVE  /\ pf \in 0 .. PBUF_POOL_SIZE /\ hd \in 0 .. PBUF_POOL_SIZE
         /\ nf \in 0 .. MEMP_NUM_TCPIP_MSG_INPKT /\ af \in 0 .. MEMP_NUM_TCPIP_MSG_API
  <1>1. /\ PbufsIn(mb) \in Nat /\ Count(mb, {"INPKT", "DONE"}) \in Nat
        /\ Count(mb, {"OOSEQ", "CALLBACK"}) \in Nat
        /\ PbufsIn(ms) \in Nat /\ Count(ms, {"INPKT", "DONE"}) \in Nat
        /\ Count(ms, {"OOSEQ", "CALLBACK"}) \in Nat
    BY Counts DEF Ledger
  <1>2. /\ pf \in Nat /\ hd \in Nat /\ nf \in Nat /\ af \in Nat /\ h \in Nat
        /\ PBUF_POOL_SIZE = pf + hd + PbufsIn(mb) + PbufsIn(ms) + h
        /\ MEMP_NUM_TCPIP_MSG_INPKT =
             nf + (Count(mb, {"INPKT", "DONE"}) + Count(ms, {"INPKT", "DONE"}))
        /\ MEMP_NUM_TCPIP_MSG_API =
             af + (Count(mb, {"OOSEQ", "CALLBACK"}) + Count(ms, {"OOSEQ", "CALLBACK"}))
    BY DEF Ledger
  <1>3. pf <= PBUF_POOL_SIZE /\ hd <= PBUF_POOL_SIZE
    BY <1>1, <1>2
  <1>4. nf <= MEMP_NUM_TCPIP_MSG_INPKT /\ af <= MEMP_NUM_TCPIP_MSG_API
    BY <1>1, <1>2
  <1> QED
    BY <1>2, <1>3, <1>4

-----------------------------------------------------------------------------
(* The inductive invariant.                                                *)

(* The descriptors that hold a frame for the handler.                      *)
Owned(i) ==
  IF RxConsumeIndex <= RxProduceIndex
  THEN RxConsumeIndex <= i /\ i < RxProduceIndex
  ELSE RxConsumeIndex <= i \/ i < RxProduceIndex

(* A descriptor that is the handler's holds a frame.                       *)
Ring == \A i \in Index : Owned(i) => Rx[i] \in Frames

(* While the handler deals with a frame the ring is not empty, and what it *)
(* has allocated pbufs for is the frame in the current descriptor.         *)
InIsr ==
  /\ isr \in {"copy", "input", "release"} => RxConsumeIndex # RxProduceIndex
  /\ isr \in {"copy", "input"} => Current \in Carried
  /\ isr = "input" => p = <<Current>>
  /\ isr # "input" => p = <<>>

(* The pbufs in the handler, and the requests for pbuf_free_ooseq.         *)
InHandler == IF isr \in {"copy", "input"} THEN Current.chain ELSE 0
Asked == IF ooseqQueued = TRUE THEN 1 ELSE 0

Books == Ledger(mbox, msg, pbufFree, inpktFree, apiFree, held, InHandler, Asked)

(* The types that the books do not give.                                   *)
Types ==
  /\ RxProduceIndex \in Index /\ RxConsumeIndex \in Index
  /\ Rx \in [Index -> Frames \cup {Garbage}]
  /\ ooseqQueued \in BOOLEAN
  /\ IntStatus \subseteq {"RX_DONE", "TX_DONE"}
  /\ cause \subseteq {"RX_DONE", "TX_DONE"}
  /\ isr \in {"out", "loop", "clear", "rx", "copy", "input", "release"}
  /\ Len(mbox) <= TCPIP_MBOX_SIZE /\ Len(msg) <= 1

IInv == Types /\ Ring /\ InIsr /\ Books

(* The books say what PoolsConserved does.                                 *)
LEMMA Conserved == IInv => PoolsConserved
  <1> SUFFICES ASSUME IInv
               PROVE  PoolsConserved
    OBVIOUS
  <1>1. /\ pbufFree \in 0 .. PBUF_POOL_SIZE /\ held \in 0 .. PBUF_POOL_SIZE
        /\ inpktFree \in 0 .. MEMP_NUM_TCPIP_MSG_INPKT
        /\ apiFree \in 0 .. MEMP_NUM_TCPIP_MSG_API
    BY LedgerBounds DEF IInv, Books
  <1>2. p = <<>> \/ p[1] \in Frames
    BY DEF IInv, InIsr, Carried
  <1>3. TypeOK
    BY <1>1, <1>2 DEF IInv, Types, TypeOK
  <1>4. PbufsConserved
    BY DEF IInv, Books, Ledger, PbufsConserved, InHandler
  <1>5. MessagesConserved
    BY DEF IInv, Books, Ledger, MessagesConserved, InFlight, Count, Places
  <1>6. OoseqFlagMatches
    BY DEF IInv, Types, Books, Ledger, OoseqFlagMatches, InFlight, Count, Places, Asked
  <1> QED
    BY <1>3, <1>4, <1>5, <1>6 DEF PoolsConserved

(* Where the ring wraps, and how its indices move.                         *)
LEMMA RingMoves ==
  ASSUME NEW i \in Index
  PROVE  NextIndex(i) \in Index /\ NextIndex(i) # i
  BY DEF Index, NextIndex

(* At the start everything is free.                                        *)
LEMMA InitInvariant == Init => IInv
  <1> SUFFICES ASSUME Init
               PROVE  IInv
    OBVIOUS
  <1>1. Types
    BY DEF Init, Types, Index
  <1>2. Ring /\ InIsr
    BY DEF Init, Ring, InIsr, Owned, Index
  <1>3. InHandler = 0 /\ Asked = 0
    BY DEF Init, InHandler, Asked
  <1>4. Books
    <2>1. Ledger(<<>>, <<>>, PBUF_POOL_SIZE, MEMP_NUM_TCPIP_MSG_INPKT,
                 MEMP_NUM_TCPIP_MSG_API, 0, 0, 0)
      BY CountsEmpty DEF Ledger
    <2> QED
      BY <1>3, <2>1 DEF Init, Books
  <1> QED
    BY <1>1, <1>2, <1>4 DEF IInv

(* A step that leaves the pools, the mailbox and the handler's frame alone *)
(* leaves the books alone.                                                 *)
LEMMA BooksUnchanged ==
  ASSUME Books, UNCHANGED <<mbox, msg, pbufFree, inpktFree, apiFree, held, ooseqQueued>>,
         InHandler' = InHandler
  PROVE  Books'
  BY DEF Books, Asked

(* The MAC receives a frame: the handler's descriptor is not touched.      *)
LEMMA RxFrameInvariant ==
  ASSUME IInv, NEW f \in Frames, RxFrame(f)
  PROVE  IInv'
  <1>1. /\ NextIndex(RxProduceIndex) # RxConsumeIndex
        /\ Rx' = [Rx EXCEPT ![RxProduceIndex] = f]
        /\ RxProduceIndex' = NextIndex(RxProduceIndex)
        /\ IntStatus' = IntStatus \cup {"RX_DONE"}
        /\ isr' = isr /\ cause' = cause /\ p' = p /\ RxConsumeIndex' = RxConsumeIndex
        /\ UNCHANGED <<mbox, msg, pbufFree, inpktFree, apiFree, held, ooseqQueued>>
    BY DEF RxFrame, RingFull, isrVars, poolVars
  <1>2. Types'
    BY <1>1, RingMoves DEF IInv, Types, Index
  <1>3. Ring'
    <2> SUFFICES ASSUME NEW i \in Index, Owned(i)'
                 PROVE  Rx'[i] \in Frames
      BY DEF Ring, Index
    <2>1. i = RxProduceIndex \/ Owned(i)
      BY <1>1 DEF IInv, Types, Owned, NextIndex, Index
    <2> QED
      BY <1>1, <2>1 DEF IInv, Types, Ring
  <1>4. isr \in {"copy", "input"} => Current' = Current
    BY <1>1 DEF IInv, Types, InIsr, Current
  <1>5. InIsr'
    BY <1>1, <1>4 DEF IInv, InIsr, Carried
  <1>6. Books'
    BY <1>1, <1>4, BooksUnchanged DEF IInv, InHandler
  <1> QED
    BY <1>2, <1>3, <1>5, <1>6 DEF IInv

(* Steps of the handler that take nothing and give nothing back.           *)
LEMMA LookInvariant ==
  ASSUME IInv, TxDone \/ IrqEnter \/ IrqRead \/ IrqClear \/ IrqNothing
  PROVE  IInv'
  <1>1. /\ UNCHANGED <<RxProduceIndex, RxConsumeIndex, Rx, p, mbox, msg, pbufFree,
                       inpktFree, apiFree, held, ooseqQueued>>
        /\ IntStatus' \subseteq {"RX_DONE", "TX_DONE"}
        /\ cause' \subseteq {"RX_DONE", "TX_DONE"}
        /\ \/ isr' = isr
           \/ /\ isr \in {"out", "loop", "clear", "rx"}
              /\ isr' \in {"out", "loop", "clear", "rx", "release"}
              /\ isr' = "release" => RxConsumeIndex # RxProduceIndex
    BY DEF TxDone, IrqEnter, IrqRead, IrqClear, IrqNothing, EMAC_CheckReceiveIndex,
           macVars, isrVars, poolVars, IInv, Types
  <1>2. Types'
    BY <1>1 DEF IInv, Types, Index
  <1>3. Ring'
    BY <1>1 DEF IInv, Ring, Owned, Index
  <1>4. InIsr' /\ InHandler' = InHandler
    BY <1>1 DEF IInv, InIsr, Current, Carried, InHandler
  <1>5. Books'
    BY <1>1, <1>4, BooksUnchanged DEF IInv
  <1> QED
    BY <1>2, <1>3, <1>4, <1>5 DEF IInv

(* pbuf_alloc succeeds.                                                    *)
LEMMA AllocInvariant ==
  ASSUME IInv, IrqAlloc
  PROVE  IInv'
  <1>1. /\ isr = "rx" /\ isr' = "copy" /\ RxConsumeIndex # RxProduceIndex
        /\ Current.chain \in 1 .. pbufFree /\ pbufFree' = pbufFree - Current.chain
        /\ UNCHANGED <<RxProduceIndex, Rx, RxConsumeIndex, IntStatus, cause, p, inpktFree,
                       apiFree, mbox, msg, held, ooseqQueued>>
    BY DEF IrqAlloc, EMAC_CheckReceiveIndex, macVars
  <1>2. /\ pbufFree \in 0 .. PBUF_POOL_SIZE /\ held \in Nat
    BY LedgerBounds DEF IInv, Books
  <1>3. Owned(RxConsumeIndex) /\ RxConsumeIndex \in Index
    BY <1>1 DEF IInv, Types, Owned, Index
  <1>4. Current \in Frames
    BY <1>3 DEF IInv, Ring, Current
  <1>5. Current \in Carried
    BY <1>1, <1>2, <1>4 DEF Carried
  <1>6. Types'
    BY <1>1 DEF IInv, Types, Index
  <1>7. Ring'
    BY <1>1 DEF IInv, Ring, Owned, Index
  <1>8. Current' = Current
    BY <1>1 DEF Current
  <1>9. InIsr'
    BY <1>1, <1>5, <1>8 DEF IInv, InIsr, Carried
  <1>10. Books'
    <2> DEFINE n == Current.chain
    <2>1. n \in Nat /\ pbufFree - n \in Nat /\ pbufFree \in Nat
      BY <1>1, <1>2
    <2>2. InHandler = 0 /\ InHandler' = n /\ Asked' = Asked
      BY <1>1, <1>8 DEF InHandler, Asked
    <2>3. Ledger(mbox, msg, pbufFree, inpktFree, apiFree, held, 0, Asked)
      BY <2>2 DEF IInv, Books
    <2> HIDE DEF n
    <2>4. (pbufFree - n) + held + n = pbufFree + held + 0
      BY <1>2, <2>1
    <2>5. Ledger(mbox, msg, pbufFree - n, inpktFree, apiFree, held, n, Asked)
      BY <1>2, <2>1, <2>3, <2>4, LedgerMove
    <2>6. pbufFree' = pbufFree - n
      BY <1>1 DEF n
    <2> QED
      BY <1>1, <2>2, <2>5, <2>6 DEF Books
  <1> QED
    BY <1>6, <1>7, <1>9, <1>10 DEF IInv

(* The numbers of the books are natural.                                   *)
LEMMA BooksType ==
  ASSUME IInv
  PROVE  /\ pbufFree \in Nat /\ inpktFree \in Nat /\ apiFree \in Nat /\ held \in Nat
         /\ InHandler \in Nat /\ Asked \in Nat
         /\ mbox \in Seq(Message) /\ msg \in Seq(Message)
  BY DEF IInv, Books, Ledger, Asked

(* The pool is empty; pbuf_free_ooseq is asked for at most once.           *)
LEMMA NoPbufInvariant ==
  ASSUME IInv, IrqNoPbuf
  PROVE  IInv'
  <1>1. /\ isr = "rx" /\ isr' = "release" /\ RxConsumeIndex # RxProduceIndex
        /\ UNCHANGED <<RxProduceIndex, Rx, RxConsumeIndex, IntStatus, cause, p, pbufFree,
                       inpktFree, msg, held>>
    BY DEF IrqNoPbuf, EMAC_CheckReceiveIndex, macVars
  <1>2. \/ UNCHANGED <<ooseqQueued, apiFree, mbox>>
        \/ /\ ooseqQueued = FALSE /\ ooseqQueued' = TRUE
           /\ apiFree > 0 /\ apiFree' = apiFree - 1
           /\ Len(mbox) < TCPIP_MBOX_SIZE /\ mbox' = Append(mbox, Ooseq)
    BY DEF IrqNoPbuf, OoseqFlag, MboxHasRoom, IInv, Types
  <1>3. Ring'
    BY <1>1 DEF IInv, Ring, Owned, Index
  <1>4. InIsr' /\ InHandler = 0 /\ InHandler' = 0
    BY <1>1 DEF IInv, InIsr, InHandler
  <1>5. CASE UNCHANGED <<ooseqQueued, apiFree, mbox>>
    <2>1. Types'
      BY <1>1, <1>5 DEF IInv, Types, Index
    <2>2. Books'
      BY <1>1, <1>4, <1>5, BooksUnchanged DEF IInv
    <2> QED
      BY <1>3, <1>4, <2>1, <2>2 DEF IInv
  <1>6. CASE /\ ooseqQueued = FALSE /\ ooseqQueued' = TRUE
             /\ apiFree > 0 /\ apiFree' = apiFree - 1
             /\ Len(mbox) < TCPIP_MBOX_SIZE /\ mbox' = Append(mbox, Ooseq)
    <2>1. Len(mbox') = Len(mbox) + 1 /\ Len(mbox) \in Nat
      BY <1>6, BooksType
    <2>2. Types'
      BY <1>1, <1>6, <2>1 DEF IInv, Types, Index
    <2>3. Asked = 0 /\ Asked' = 1
      BY <1>6 DEF Asked
    <2>4. /\ Of(Ooseq, {"INPKT", "DONE"}) = 0 /\ Of(Ooseq, {"OOSEQ", "CALLBACK"}) = 1
          /\ Of(Ooseq, {"OOSEQ"}) = 1 /\ Ooseq \in Message /\ Chain(Ooseq) = 0
      BY MessageFacts DEF Of
    <2>5. /\ apiFree' \in Nat /\ apiFree = apiFree' + 1 /\ inpktFree = inpktFree + 0
          /\ 0 = 0 + 0 /\ 1 = 0 + 1
      BY <1>6, BooksType
    <2>6. Ledger(mbox, msg, pbufFree, inpktFree, apiFree, held, 0, 0)
      BY <1>4, <2>3 DEF IInv, Books
    <2>7. Ledger(Append(mbox, Ooseq), msg, pbufFree, inpktFree, apiFree', held, 0, 1)
      BY <2>4, <2>5, <2>6, BooksType, LedgerPost
    <2>8. Books'
      BY <1>1, <1>4, <1>6, <2>3, <2>7 DEF Books
    <2> QED
      BY <1>3, <1>4, <2>2, <2>8 DEF IInv
  <1> QED
    BY <1>2, <1>5, <1>6

(* The frame is copied, and goes on or is dropped.                         *)
LEMMA CopyInvariant ==
  ASSUME IInv, IrqCopy
  PROVE  IInv'
  <1>1. /\ isr = "copy"
        /\ UNCHANGED <<RxProduceIndex, Rx, RxConsumeIndex, IntStatus, cause, inpktFree,
                       apiFree, mbox, msg, held, ooseqQueued>>
        /\ \/ p' = <<Current>> /\ isr' = "input" /\ pbufFree' = pbufFree
           \/ pbufFree' = pbufFree + Current.chain /\ isr' = "release" /\ p' = p
    BY DEF IrqCopy, FreePbufs, macVars
  <1>2. Types'
    BY <1>1 DEF IInv, Types, Index
  <1>3. Ring'
    BY <1>1 DEF IInv, Ring, Owned, Index
  <1>4. Current' = Current /\ Asked' = Asked
    BY <1>1 DEF Current, Asked
  <1>5. InIsr'
    BY <1>1, <1>4 DEF IInv, InIsr, Carried
  <1>6. Books'
    <2>1. CASE isr' = "input"
      BY <1>1, <1>4, <2>1, BooksUnchanged DEF InHandler, IInv
    <2>2. CASE isr' = "release"
      <3> DEFINE n == Current.chain
      <3>1. pbufFree' = pbufFree + n /\ InHandler = n /\ InHandler' = 0
        BY <1>1, <2>2 DEF InHandler
      <3>2. n \in Nat /\ pbufFree + n \in Nat /\ pbufFree \in Nat /\ held \in Nat
        BY <3>1, BooksType
      <3>3. Ledger(mbox, msg, pbufFree, inpktFree, apiFree, held, n, Asked)
        BY <3>1 DEF IInv, Books
      <3> HIDE DEF n
      <3>4. (pbufFree + n) + held + 0 = pbufFree + held + n
        BY <3>2
      <3>5. Ledger(mbox, msg, pbufFree + n, inpktFree, apiFree, held, 0, Asked)
        BY <3>2, <3>3, <3>4, LedgerMove
      <3> QED
        BY <1>1, <1>4, <3>1, <3>5 DEF Books
    <2> QED
      BY <1>1, <2>1, <2>2
  <1> QED
    BY <1>2, <1>3, <1>5, <1>6 DEF IInv

(* tcpip_input posts the frame or frees its pbufs.                         *)
LEMMA InputInvariant ==
  ASSUME IInv, IrqInput
  PROVE  IInv'
  <1>1. /\ isr = "input" /\ isr' = "release" /\ p' = <<>>
        /\ UNCHANGED <<RxProduceIndex, Rx, RxConsumeIndex, IntStatus, cause, apiFree, msg,
                       held, ooseqQueued>>
    BY DEF IrqInput, macVars
  <1>2. p[1] = Current /\ Current \in Carried /\ RxConsumeIndex # RxProduceIndex
    BY <1>1 DEF IInv, InIsr
  <1>3. \/ /\ inpktFree > 0 /\ inpktFree' = inpktFree - 1 /\ pbufFree' = pbufFree
           /\ Len(mbox) < TCPIP_MBOX_SIZE /\ mbox' = Append(mbox, Packet(Current))
        \/ pbufFree' = pbufFree + Current.chain /\ UNCHANGED <<inpktFree, mbox>>
    BY <1>2 DEF IrqInput, FreePbufs, MboxHasRoom
  <1>4. Ring'
    BY <1>1 DEF IInv, Ring, Owned, Index
  <1> DEFINE n == Current.chain
  <1>5. InIsr' /\ InHandler = n /\ InHandler' = 0 /\ Asked' = Asked
    BY <1>1, <1>2 DEF InIsr, InHandler, Asked
  <1>6. n \in Nat
    BY <1>5, BooksType
  <1>7. Ledger(mbox, msg, pbufFree, inpktFree, apiFree, held, n, Asked)
    BY <1>5 DEF IInv, Books
  <1>8. CASE pbufFree' = pbufFree + n /\ UNCHANGED <<inpktFree, mbox>>
    <2>1. Types'
      BY <1>1, <1>8 DEF IInv, Types, Index
    <2> HIDE DEF n
    <2>2. (pbufFree + n) + held + 0 = pbufFree + held + n /\ pbufFree + n \in Nat
      BY <1>6, BooksType
    <2>3. Ledger(mbox, msg, pbufFree + n, inpktFree, apiFree, held, 0, Asked)
      BY <1>6, <1>7, <2>2, LedgerMove, BooksType
    <2>4. Books'
      BY <1>1, <1>5, <1>8, <2>3 DEF Books
    <2> QED
      BY <1>4, <1>5, <2>1, <2>4 DEF IInv
  <1>9. CASE /\ inpktFree > 0 /\ inpktFree' = inpktFree - 1 /\ pbufFree' = pbufFree
             /\ Len(mbox) < TCPIP_MBOX_SIZE /\ mbox' = Append(mbox, Packet(Current))
    <2> DEFINE m == Packet(Current)
    <2>1. m \in Message /\ m.kind = "INPKT" /\ Chain(m) = n
      BY <1>2, MessageFacts
    <2> HIDE DEF m, n
    <2>2. Len(mbox') = Len(mbox) + 1 /\ Len(mbox) \in Nat
      BY <1>9, BooksType
    <2>3. Types'
      BY <1>1, <1>9, <2>2 DEF IInv, Types, Index
    <2>4. /\ Of(m, {"INPKT", "DONE"}) = 1 /\ Of(m, {"OOSEQ", "CALLBACK"}) = 0
          /\ Of(m, {"OOSEQ"}) = 0
      BY <2>1 DEF Of
    <2>5. /\ inpktFree' \in Nat /\ inpktFree = inpktFree' + 1 /\ apiFree = apiFree + 0
          /\ n = 0 + n /\ Asked = Asked + 0
      BY <1>6, <1>9, BooksType
    <2>6. Ledger(Append(mbox, m), msg, pbufFree, inpktFree', apiFree, held, 0, Asked)
      BY <1>6, <1>7, <2>1, <2>4, <2>5, BooksType, LedgerPost
    <2>7. mbox' = Append(mbox, m)
      BY <1>9 DEF m
    <2>8. Books'
      BY <1>1, <1>5, <1>9, <2>6, <2>7 DEF Books
    <2> QED
      BY <1>4, <1>5, <2>3, <2>8 DEF IInv
  <1> QED
    BY <1>3, <1>8, <1>9

(* The descriptor goes back to the MAC.                                    *)
LEMMA ReleaseInvariant ==
  ASSUME IInv, IrqRelease
  PROVE  IInv'
  <1>1. /\ isr = "release" /\ isr' = "loop"
        /\ RxConsumeIndex' = NextIndex(RxConsumeIndex)
        /\ Rx' = [Rx EXCEPT ![RxConsumeIndex] = Garbage]
        /\ UNCHANGED <<RxProduceIndex, IntStatus, cause, p, mbox, msg, pbufFree,
                       inpktFree, apiFree, held, ooseqQueued>>
    BY DEF IrqRelease, poolVars
  <1>2. Types'
    BY <1>1, RingMoves DEF IInv, Types, Index
  <1>3. Ring'
    <2> SUFFICES ASSUME NEW i \in Index, Owned(i)'
                 PROVE  Rx'[i] \in Frames
      BY DEF Ring, Index
    <2>1. RxConsumeIndex # RxProduceIndex
      BY <1>1 DEF IInv, InIsr
    <2>2. Owned(i) /\ i # RxConsumeIndex
      BY <1>1, <2>1 DEF IInv, Types, Owned, NextIndex, Index
    <2> QED
      BY <1>1, <2>2 DEF IInv, Types, Ring
  <1>4. InIsr' /\ InHandler' = InHandler
    BY <1>1 DEF IInv, InIsr, InHandler
  <1>5. Books'
    BY <1>1, <1>4, BooksUnchanged DEF IInv
  <1> QED
    BY <1>2, <1>3, <1>4, <1>5 DEF IInv

-----------------------------------------------------------------------------
(* The tasks.                                                              *)

(* A task's step leaves the ring and the handler alone.                    *)
LEMMA TaskStep ==
  ASSUME IInv, UNCHANGED <<macVars, isrVars, IntStatus>>, isr = "out",
         Len(mbox') <= TCPIP_MBOX_SIZE, Len(msg') <= 1, ooseqQueued' \in BOOLEAN,
         Ledger(mbox', msg', pbufFree', inpktFree', apiFree', held', InHandler, Asked')
  PROVE  IInv'
  <1>1. UNCHANGED <<RxProduceIndex, RxConsumeIndex, Rx, IntStatus, isr, cause, p>>
    BY DEF macVars, isrVars
  <1>2. Types'
    BY <1>1 DEF IInv, Types, Index
  <1>3. Ring'
    BY <1>1 DEF IInv, Ring, Owned, Index
  <1>4. InIsr' /\ InHandler' = InHandler
    BY <1>1 DEF IInv, InIsr, InHandler
  <1> QED
    BY <1>2, <1>3, <1>4 DEF IInv, Books

(* The thread handles one message at a time.                               *)
LEMMA MsgIsOne ==
  ASSUME IInv, msg # <<>>
  PROVE  msg = <<msg[1]>> /\ msg[1] \in Message
  <1>1. msg \in Seq(Message) /\ Len(msg) <= 1
    BY BooksType DEF IInv, Types
  <1>2. Len(msg) \in Nat /\ Len(msg) > 0
    BY <1>1, EmptySeq
  <1>3. \A n \in Nat : n > 0 /\ n <= 1 => n = 1
    OBVIOUS
  <1>4. Len(msg) = 1
    BY <1>1, <1>2, <1>3
  <1> QED
    BY <1>1, <1>4

(* A message is fetched.                                                   *)
LEMMA FetchInvariant ==
  ASSUME IInv, Fetch
  PROVE  IInv'
  <1>1. /\ isr = "out" /\ msg = <<>> /\ mbox # <<>> /\ msg' = <<Head(mbox)>>
        /\ mbox' = Tail(mbox) /\ UNCHANGED <<macVars, isrVars, IntStatus>>
        /\ UNCHANGED <<pbufFree, inpktFree, apiFree, held, ooseqQueued>>
    BY DEF Fetch, poolVars
  <1>2. Len(mbox') <= TCPIP_MBOX_SIZE /\ Len(msg') <= 1
    <2>1. Len(mbox') = Len(mbox) - 1 /\ Len(mbox) \in Nat /\ Len(msg') = 1
      BY <1>1, BooksType
    <2> QED
      BY <2>1 DEF IInv, Types
  <1>3. Asked' = Asked /\ ooseqQueued' \in BOOLEAN
    BY <1>1 DEF IInv, Types, Asked
  <1>4. Ledger(mbox, <<>>, pbufFree, inpktFree, apiFree, held, InHandler, Asked)
    BY <1>1 DEF IInv, Books
  <1>5. Ledger(mbox', msg', pbufFree', inpktFree', apiFree', held', InHandler, Asked')
    BY <1>1, <1>3, <1>4, LedgerFetch
  <1> QED
    BY <1>1, <1>2, <1>3, <1>5, TaskStep

(* The stack takes a packet: its pbufs are freed or kept.                  *)
LEMMA StackInvariant ==
  ASSUME IInv, Input
  PROVE  IInv'
  <1> DEFINE m == msg[1]
             n == m.frame.chain
  <1>1. /\ isr = "out" /\ msg # <<>> /\ m.kind = "INPKT" /\ msg' = <<Done>>
        /\ UNCHANGED <<macVars, isrVars, IntStatus>>
        /\ UNCHANGED <<inpktFree, apiFree, mbox, ooseqQueued>>
        /\ \/ pbufFree' = pbufFree + n /\ held' = held
           \/ held' = held + n /\ pbufFree' = pbufFree
    BY DEF Input, FreePbufs, Done
  <1>2. msg = <<m>> /\ m \in Message /\ Chain(m) = n
    BY <1>1, MsgIsOne DEF Chain
  <1> HIDE DEF m, n
  <1>3. n \in Nat
    BY <1>2, ChainType
  <1>4. Len(mbox') <= TCPIP_MBOX_SIZE /\ Len(msg') <= 1
    BY <1>1 DEF IInv, Types
  <1>5. Asked' = Asked /\ ooseqQueued' \in BOOLEAN
    BY <1>1 DEF IInv, Types, Asked
  <1>6. Ledger(mbox, <<m>>, pbufFree, inpktFree, apiFree, held, InHandler, Asked)
    BY <1>2 DEF IInv, Books
  <1>7. /\ Done \in Message /\ Chain(Done) = 0
        /\ Of(Done, {"INPKT", "DONE"}) = Of(m, {"INPKT", "DONE"})
        /\ Of(Done, {"OOSEQ", "CALLBACK"}) = Of(m, {"OOSEQ", "CALLBACK"})
        /\ Of(Done, {"OOSEQ"}) = 0 /\ Of(m, {"OOSEQ"}) = 0
    BY <1>1, MessageFacts DEF Of
  <1>8. \A k \in 0 .. Chain(m) :
          Ledger(mbox, <<Done>>, pbufFree + k, inpktFree, apiFree,
                 held + (Chain(m) - k), InHandler,
                 Asked - Of(m, {"OOSEQ"}) + Of(Done, {"OOSEQ"}))
    BY <1>2, <1>6, <1>7, LedgerHand
  <1>9. Asked - Of(m, {"OOSEQ"}) + Of(Done, {"OOSEQ"}) = Asked
    BY <1>7, BooksType
  <1>10. Ledger(mbox, <<Done>>, pbufFree', inpktFree, apiFree, held', InHandler, Asked)
    <2>1. CASE pbufFree' = pbufFree + n /\ held' = held
      <3>1. n \in 0 .. Chain(m) /\ held + (Chain(m) - n) = held'
        BY <1>2, <1>3, <2>1, BooksType
      <3> QED
        BY <1>8, <1>9, <2>1, <3>1
    <2>2. CASE held' = held + n /\ pbufFree' = pbufFree
      <3>1. /\ 0 \in 0 .. Chain(m) /\ held + (Chain(m) - 0) = held'
            /\ pbufFree + 0 = pbufFree'
        BY <1>2, <1>3, <2>2, BooksType
      <3> QED
        BY <1>8, <1>9, <3>1
    <2> QED
      BY <1>1, <2>1, <2>2
  <1>11. Ledger(mbox', msg', pbufFree', inpktFree', apiFree', held', InHandler, Asked')
    BY <1>1, <1>5, <1>10
  <1> QED
    BY <1>1, <1>4, <1>5, <1>11, TaskStep

(* The message in hand is done with.                                       *)
LEMMA HandDone ==
  ASSUME IInv, NEW m \in Message, msg = <<m>>, Chain(m) = 0, Of(m, {"OOSEQ"}) = 0
  PROVE  Ledger(mbox, <<>>, pbufFree, inpktFree + Of(m, {"INPKT", "DONE"}),
                apiFree + Of(m, {"OOSEQ", "CALLBACK"}), held, InHandler, Asked)
  <1>1. Ledger(mbox, <<m>>, pbufFree, inpktFree, apiFree, held, InHandler, Asked)
    BY DEF IInv, Books
  <1>2. 0 \in 0 .. Chain(m)
    OBVIOUS
  <1>3. Ledger(mbox, <<>>, pbufFree + 0, inpktFree + Of(m, {"INPKT", "DONE"}),
               apiFree + Of(m, {"OOSEQ", "CALLBACK"}), held + (Chain(m) - 0),
               InHandler, Asked - Of(m, {"OOSEQ"}))
    BY <1>1, <1>2, LedgerHand
  <1>4. pbufFree + 0 = pbufFree /\ held + (Chain(m) - 0) = held
        /\ Asked - Of(m, {"OOSEQ"}) = Asked
    BY BooksType
  <1> QED
    BY <1>3, <1>4

(* The packet message goes back to its pool.                               *)
LEMMA FreeInpktInvariant ==
  ASSUME IInv, FreeInpkt
  PROVE  IInv'
  <1> DEFINE m == msg[1]
  <1>1. /\ isr = "out" /\ msg # <<>> /\ m.kind = "DONE" /\ msg' = <<>>
        /\ inpktFree' = inpktFree + 1 /\ UNCHANGED <<macVars, isrVars, IntStatus>>
        /\ UNCHANGED <<pbufFree, apiFree, mbox, held, ooseqQueued>>
    BY DEF FreeInpkt
  <1>2. msg = <<m>> /\ m \in Message /\ Chain(m) = 0
    BY <1>1, MsgIsOne DEF Chain
  <1> HIDE DEF m
  <1>3. /\ Of(m, {"OOSEQ"}) = 0 /\ Of(m, {"INPKT", "DONE"}) = 1
        /\ Of(m, {"OOSEQ", "CALLBACK"}) = 0
    BY <1>1 DEF Of
  <1>4. Ledger(mbox, <<>>, pbufFree, inpktFree + 1, apiFree + 0, held, InHandler, Asked)
    BY <1>2, <1>3, HandDone
  <1>5. /\ Len(mbox') <= TCPIP_MBOX_SIZE /\ Len(msg') <= 1
        /\ Asked' = Asked /\ ooseqQueued' \in BOOLEAN /\ apiFree + 0 = apiFree
    BY <1>1, BooksType DEF IInv, Types, Asked
  <1>6. Ledger(mbox', msg', pbufFree', inpktFree', apiFree', held', InHandler, Asked')
    BY <1>1, <1>4, <1>5
  <1> QED
    BY <1>1, <1>5, <1>6, TaskStep

(* pbuf_free_ooseq resets its flag.                                        *)
LEMMA OoseqResetInvariant ==
  ASSUME IInv, OoseqReset
  PROVE  IInv'
  <1>1. /\ isr = "out" /\ msg = <<Ooseq>> /\ msg' = <<Callback>> /\ ooseqQueued' = FALSE
        /\ UNCHANGED <<macVars, isrVars, IntStatus>>
        /\ UNCHANGED <<pbufFree, inpktFree, apiFree, mbox, held>>
    BY DEF OoseqReset, poolVars
  <1>2. /\ Ooseq \in Message /\ Chain(Ooseq) = 0 /\ Callback \in Message
        /\ Chain(Callback) = 0
        /\ Of(Callback, {"INPKT", "DONE"}) = Of(Ooseq, {"INPKT", "DONE"})
        /\ Of(Callback, {"OOSEQ", "CALLBACK"}) = Of(Ooseq, {"OOSEQ", "CALLBACK"})
        /\ Of(Callback, {"OOSEQ"}) = 0 /\ Of(Ooseq, {"OOSEQ"}) = 1
    BY MessageFacts DEF Of
  <1>3. Ledger(mbox, <<Ooseq>>, pbufFree, inpktFree, apiFree, held, InHandler, Asked)
    BY <1>1 DEF IInv, Books
  <1>4. Asked = 1
    <2>1. Count(mbox, {"OOSEQ"}) + Count(<<Ooseq>>, {"OOSEQ"}) = Asked
      BY <1>3 DEF Ledger
    <2>2. Count(<<Ooseq>>, {"OOSEQ"}) = 1
      BY <1>2, CountsOne DEF Of
    <2>3. Count(mbox, {"OOSEQ"}) \in Nat
      BY BooksType, Counts
    <2> QED
      BY <2>1, <2>2, <2>3 DEF Asked
  <1>5. 0 \in 0 .. Chain(Ooseq)
    BY <1>2
  <1>6. Ledger(mbox, <<Callback>>, pbufFree + 0, inpktFree, apiFree,
               held + (Chain(Ooseq) - 0), InHandler,
               Asked - Of(Ooseq, {"OOSEQ"}) + Of(Callback, {"OOSEQ"}))
    BY <1>2, <1>3, <1>5, LedgerHand
  <1>7. pbufFree + 0 = pbufFree /\ held + (Chain(Ooseq) - 0) = held
        /\ Asked - Of(Ooseq, {"OOSEQ"}) + Of(Callback, {"OOSEQ"}) = 0
    BY <1>2, <1>4, BooksType
  <1>8. /\ Len(mbox') <= TCPIP_MBOX_SIZE /\ Len(msg') <= 1
        /\ Asked' = 0 /\ ooseqQueued' \in BOOLEAN
    BY <1>1 DEF IInv, Types, Asked
  <1>9. Ledger(mbox', msg', pbufFree', inpktFree', apiFree', held', InHandler, Asked')
    BY <1>1, <1>6, <1>7, <1>8
  <1> QED
    BY <1>1, <1>8, <1>9, TaskStep

(* A callback runs; it may free pbufs the stack has kept.                  *)
LEMMA RunCallbackInvariant ==
  ASSUME IInv, RunCallback
  PROVE  IInv'
  <1>1. /\ isr = "out" /\ msg = <<Callback>> /\ msg' = <<>> /\ apiFree' = apiFree + 1
        /\ UNCHANGED <<macVars, isrVars, IntStatus>>
        /\ UNCHANGED <<inpktFree, mbox, ooseqQueued>>
    BY DEF RunCallback
  <1>2. PICK n \in 0 .. held : held' = held - n /\ pbufFree' = pbufFree + n
    BY DEF RunCallback
  <1>3. /\ Callback \in Message /\ Chain(Callback) = 0
        /\ Of(Callback, {"INPKT", "DONE"}) = 0 /\ Of(Callback, {"OOSEQ"}) = 0
        /\ Of(Callback, {"OOSEQ", "CALLBACK"}) = 1
    BY MessageFacts DEF Of
  <1>4. Ledger(mbox, <<>>, pbufFree, inpktFree + 0, apiFree + 1, held, InHandler, Asked)
    BY <1>1, <1>3, HandDone
  <1>5. /\ pbufFree' \in Nat /\ held' \in Nat
        /\ pbufFree' + held' + InHandler = pbufFree + held + InHandler
        /\ inpktFree + 0 = inpktFree
    <2>1. pbufFree \in Nat /\ held \in Nat /\ InHandler \in Nat /\ inpktFree \in Nat
      BY BooksType
    <2> QED
      BY <1>2, <2>1
  <1>6. Ledger(mbox, <<>>, pbufFree', inpktFree + 0, apiFree + 1, held', InHandler, Asked)
    BY <1>4, <1>5, BooksType, LedgerMove
  <1>7. /\ Len(mbox') <= TCPIP_MBOX_SIZE /\ Len(msg') <= 1
        /\ Asked' = Asked /\ ooseqQueued' \in BOOLEAN
    BY <1>1 DEF IInv, Types, Asked
  <1>8. Ledger(mbox', msg', pbufFree', inpktFree', apiFree', held', InHandler, Asked')
    BY <1>1, <1>5, <1>6, <1>7
  <1> QED
    BY <1>1, <1>7, <1>8, TaskStep

(* An API call runs.                                                       *)
LEMMA RunApiInvariant ==
  ASSUME IInv, RunApi
  PROVE  IInv'
  <1>1. /\ isr = "out" /\ msg = <<Api>> /\ msg' = <<>>
        /\ UNCHANGED <<macVars, isrVars, IntStatus>>
        /\ UNCHANGED <<pbufFree, inpktFree, apiFree, mbox, held, ooseqQueued>>
    BY DEF RunApi, poolVars
  <1>2. /\ Api \in Message /\ Chain(Api) = 0 /\ Of(Api, {"INPKT", "DONE"}) = 0
        /\ Of(Api, {"OOSEQ"}) = 0 /\ Of(Api, {"OOSEQ", "CALLBACK"}) = 0
    BY MessageFacts DEF Of
  <1>3. Ledger(mbox, <<>>, pbufFree, inpktFree + 0, apiFree + 0, held, InHandler, Asked)
    BY <1>1, <1>2, HandDone
  <1>4. /\ Len(mbox') <= TCPIP_MBOX_SIZE /\ Len(msg') <= 1
        /\ Asked' = Asked /\ ooseqQueued' \in BOOLEAN
        /\ inpktFree + 0 = inpktFree /\ apiFree + 0 = apiFree
    BY <1>1, BooksType DEF IInv, Types, Asked
  <1>5. Ledger(mbox', msg', pbufFree', inpktFree', apiFree', held', InHandler, Asked')
    BY <1>1, <1>3, <1>4
  <1> QED
    BY <1>1, <1>4, <1>5, TaskStep

(* A kept pbuf is freed.                                                   *)
LEMMA StackFreeInvariant ==
  ASSUME IInv, StackFree
  PROVE  IInv'
  <1>1. /\ isr = "out" /\ held > 0 /\ held' = held - 1 /\ pbufFree' = pbufFree + 1
        /\ UNCHANGED <<macVars, isrVars, IntStatus>>
        /\ UNCHANGED <<inpktFree, apiFree, mbox, msg, ooseqQueued>>
    BY DEF StackFree
  <1>2. /\ pbufFree' \in Nat /\ held' \in Nat
        /\ pbufFree' + held' + InHandler = pbufFree + held + InHandler
    <2>1. pbufFree \in Nat /\ held \in Nat /\ InHandler \in Nat
      BY BooksType
    <2>2. held > 0 /\ held' = held - 1 /\ pbufFree' = pbufFree + 1
      BY <1>1
    <2> QED
      BY <2>1, <2>2
  <1>3. /\ Len(mbox') <= TCPIP_MBOX_SIZE /\ Len(msg') <= 1
        /\ Asked' = Asked /\ ooseqQueued' \in BOOLEAN
    BY <1>1 DEF IInv, Types, Asked
  <1>4. Ledger(mbox, msg, pbufFree, inpktFree, apiFree, held, InHandler, Asked)
    BY DEF IInv, Books
  <1>5. Ledger(mbox, msg, pbufFree', inpktFree, apiFree, held', InHandler, Asked)
    BY <1>2, <1>4, BooksType, LedgerMove
  <1>6. Ledger(mbox', msg', pbufFree', inpktFree', apiFree', held', InHandler, Asked')
    BY <1>1, <1>3, <1>5
  <1> QED
    BY <1>1, <1>3, <1>6, TaskStep

(* Another task posts a callback or an API call.                           *)
LEMMA PostInvariant ==
  ASSUME IInv, PostCallback \/ PostApi
  PROVE  IInv'
  <1>1. PICK m \in {Callback, Api} :
          /\ isr = "out" /\ Len(mbox) < TCPIP_MBOX_SIZE /\ mbox' = Append(mbox, m)
          /\ m = Callback => apiFree > 0 /\ apiFree' = apiFree - 1
          /\ m = Api => apiFree' = apiFree
          /\ UNCHANGED <<macVars, isrVars, IntStatus>>
          /\ UNCHANGED <<pbufFree, inpktFree, msg, held, ooseqQueued>>
    <2>1. Callback # Api
      BY MessageFacts
    <2>2. CASE PostCallback
      BY <2>1, <2>2 DEF PostCallback, MboxHasRoom
    <2>3. CASE PostApi
      BY <2>1, <2>3 DEF PostApi, MboxHasRoom, poolVars
    <2> QED
      BY <2>2, <2>3
  <1>2. /\ m \in Message /\ Chain(m) = 0 /\ Of(m, {"INPKT", "DONE"}) = 0
        /\ Of(m, {"OOSEQ"}) = 0
        /\ Of(m, {"OOSEQ", "CALLBACK"}) = IF m = Callback THEN 1 ELSE 0
    BY <1>1, MessageFacts DEF Of
  <1>3. Len(mbox') = Len(mbox) + 1 /\ Len(mbox) \in Nat
    BY <1>1, <1>2, BooksType
  <1>4. /\ Len(mbox') <= TCPIP_MBOX_SIZE /\ Len(msg') <= 1
        /\ Asked' = Asked /\ ooseqQueued' \in BOOLEAN
    BY <1>1, <1>3 DEF IInv, Types, Asked
  <1>5. /\ apiFree' \in Nat /\ apiFree = apiFree' + Of(m, {"OOSEQ", "CALLBACK"})
        /\ inpktFree = inpktFree + 0 /\ InHandler = InHandler + 0 /\ Asked = Asked + 0
    BY <1>1, <1>2, BooksType
  <1>6. Ledger(mbox, msg, pbufFree, inpktFree, apiFree, held, InHandler, Asked)
    BY DEF IInv, Books
  <1>7. Ledger(Append(mbox, m), msg, pbufFree, inpktFree, apiFree', held, InHandler, Asked)
    BY <1>2, <1>5, <1>6, BooksType, LedgerPost
  <1>8. Ledger(mbox', msg', pbufFree', inpktFree', apiFree', held', InHandler, Asked')
    BY <1>1, <1>4, <1>7
  <1> QED
    BY <1>1, <1>4, <1>8, TaskStep

(* Nothing happens.                                                        *)
LEMMA StutterInvariant ==
  ASSUME IInv, UNCHANGED vars
  PROVE  IInv'
  <1>1. UNCHANGED <<RxProduceIndex, RxConsumeIndex, Rx, IntStatus, isr, cause, p, mbox,
                    msg, pbufFree, inpktFree, apiFree, held, ooseqQueued>>
    BY DEF vars
  <1>2. Types'
    BY <1>1 DEF IInv, Types, Index
  <1>3. Ring'
    BY <1>1 DEF IInv, Ring, Owned, Index
  <1>4. InIsr' /\ InHandler' = InHandler
    BY <1>1 DEF IInv, InIsr, Current, Carried, InHandler
  <1>5. Books'
    BY <1>1, <1>4, BooksUnchanged DEF IInv
  <1> QED
    BY <1>2, <1>3, <1>4, <1>5 DEF IInv

(* Every step of the MAC, the handler and the tasks keeps the invariant.   *)
LEMMA NextInvariant ==
  ASSUME IInv, [Next]_vars
  PROVE  IInv'
  BY RxFrameInvariant, LookInvariant, AllocInvariant, NoPbufInvariant, CopyInvariant,
     InputInvariant, ReleaseInvariant, FetchInvariant, StackInvariant,
     FreeInpktInvariant, OoseqResetInvariant, RunCallbackInvariant, RunApiInvariant,
     StackFreeInvariant, PostInvariant, StutterInvariant
  DEF Next, Mac, Irq, Thread

(* The inductive invariant holds in every reachable state.                 *)
THEOREM Invariant == Spec => []IInv
  BY InitInvariant, NextInvariant, PTL DEF Spec

(* No pbuf and no message of tcpip_input is lost or freed twice, and       *)
(* pbuf_free_ooseq_queued is set exactly while the request is under way,   *)
(* for pools, a mailbox and a ring of any size and any frames.             *)
THEOREM PoolsTheorem == Spec => []PoolsConserved
  BY Invariant, Conserved, PTL

-----------------------------------------------------------------------------
(* The frames of a sequence of messages.                                   *)

(* Some numbers have a least one.                                          *)
LEMMA LeastOf ==
  ASSUME NEW S, S \subseteq Nat, S # {}
  PROVE  \E x \in S : \A y \in S : x <= y
  <1> DEFINE R == OpToRel(<, Nat)
  <1>1. IsWellFoundedOn(R, Nat)
    BY NatLessThanWellFounded
  <1>2. \A x, y \in Nat : x < y => <<x, y>> \in R
    BY DEF OpToRel
  <1> HIDE DEF R
  <1>3. \E x \in S : \A y \in S : ~(<<y, x>> \in R)
    BY <1>1, WFMin
  <1>4. PICK x \in S : \A y \in S : ~(<<y, x>> \in R)
    BY <1>3
  <1>5. \A y \in S : x <= y
    <2> SUFFICES ASSUME NEW y \in S
                 PROVE  x <= y
      OBVIOUS
    <2>1. x \in Nat /\ y \in Nat /\ ~(y < x)
      BY <1>2, <1>4
    <2> QED
      BY <2>1
  <1> QED
    BY <1>5

(* The packets up to a place, as a set.                                    *)
Upto(s, i) == {j \in 1 .. i : s[j].kind = "INPKT"}

LEMMA UptoType ==
  ASSUME NEW s, NEW n \in Nat
  PROVE  /\ IsFiniteSet(Upto(s, n)) /\ PacketsUpTo(s, n) = Cardinality(Upto(s, n))
         /\ PacketsUpTo(s, n) \in Nat
  <1>1. IsFiniteSet(1 .. n)
    <2>1. n \in Int /\ 1 \in Int
      OBVIOUS
    <2> QED
      BY <2>1, FS_Interval
  <1>2. IsFiniteSet(Upto(s, n))
    <2>1. Upto(s, n) \subseteq 1 .. n
      BY DEF Upto
    <2> QED
      BY <1>1, <2>1, FS_Subset
  <1>3. PacketsUpTo(s, n) = Cardinality(Upto(s, n))
    BY DEF PacketsUpTo, Upto
  <1> QED
    BY <1>2, <1>3, FS_CardinalityType

(* There is none before the first place, and each place adds its own.      *)
LEMMA UptoSteps ==
  ASSUME NEW s
  PROVE  /\ PacketsUpTo(s, 0) = 0
         /\ \A n \in Nat : PacketsUpTo(s, n + 1) =
              PacketsUpTo(s, n) + IF s[n + 1].kind = "INPKT" THEN 1 ELSE 0
  <1>1. PacketsUpTo(s, 0) = 0
    <2>1. Upto(s, 0) = {}
      BY DEF Upto
    <2> QED
      BY <2>1, UptoType, FS_EmptySet
  <1>2. ASSUME NEW n \in Nat
        PROVE  PacketsUpTo(s, n + 1) =
                 PacketsUpTo(s, n) + IF s[n + 1].kind = "INPKT" THEN 1 ELSE 0
    <2>0. n + 1 \in Nat /\ n + 1 \notin Upto(s, n)
      BY DEF Upto
    <2>1. CASE s[n + 1].kind = "INPKT"
      <3>1. Upto(s, n + 1) = Upto(s, n) \cup {n + 1}
        BY <2>1 DEF Upto
      <3>2. Cardinality(Upto(s, n) \cup {n + 1}) = Cardinality(Upto(s, n)) + 1
        BY <2>0, UptoType, FS_AddElement
      <3>3. PacketsUpTo(s, n + 1) = Cardinality(Upto(s, n + 1))
        BY <2>0, UptoType
      <3>4. PacketsUpTo(s, n) = Cardinality(Upto(s, n))
        BY UptoType
      <3> QED
        BY <2>1, <3>1, <3>2, <3>3, <3>4
    <2>2. CASE s[n + 1].kind # "INPKT"
      <3>1. Upto(s, n + 1) = Upto(s, n)
        BY <2>2 DEF Upto
      <3>3. PacketsUpTo(s, n + 1) = Cardinality(Upto(s, n + 1))
        BY <2>0, UptoType
      <3>4. PacketsUpTo(s, n) = Cardinality(Upto(s, n)) /\ PacketsUpTo(s, n) \in Nat
        BY UptoType
      <3> QED
        BY <2>2, <3>1, <3>3, <3>4
    <2> QED
      BY <2>1, <2>2
  <1> QED
    BY <1>1, <1>2

(* A later place has no fewer, and a later packet has more.                *)
LEMMA UptoGrows ==
  ASSUME NEW s, NEW i \in Nat, NEW j \in Nat, i <= j
  PROVE  /\ PacketsUpTo(s, i) <= PacketsUpTo(s, j)
         /\ i < j /\ s[j].kind = "INPKT" => PacketsUpTo(s, i) < PacketsUpTo(s, j)
  <1>1. ASSUME NEW a \in Nat, NEW b \in Nat, a <= b
        PROVE  PacketsUpTo(s, a) <= PacketsUpTo(s, b)
    <2>1. Upto(s, a) \subseteq Upto(s, b)
      BY <1>1 DEF Upto
    <2>2. Cardinality(Upto(s, a)) <= Cardinality(Upto(s, b))
      BY <2>1, UptoType, FS_Subset
    <2> QED
      BY <2>2, UptoType
  <1>2. ASSUME i < j, s[j].kind = "INPKT"
        PROVE  PacketsUpTo(s, i) < PacketsUpTo(s, j)
    <2>1. j - 1 \in Nat /\ i <= j - 1 /\ (j - 1) + 1 = j
      BY <1>2
    <2>2. PacketsUpTo(s, i) <= PacketsUpTo(s, j - 1)
      BY <1>1, <2>1
    <2>3. PacketsUpTo(s, (j - 1) + 1) = PacketsUpTo(s, j - 1) + 1
      BY <1>2, <2>1, UptoSteps
    <2>4. PacketsUpTo(s, i) \in Nat /\ PacketsUpTo(s, j - 1) \in Nat
      BY <2>1, UptoType
    <2> QED
      BY <2>1, <2>2, <2>3, <2>4
  <1> QED
    BY <1>1, <1>2

(* Every packet has its place.                                             *)
LEMMA PlaceExists ==
  ASSUME NEW s \in Seq(Message), NEW k \in 1 .. PacketsUpTo(s, Len(s))
  PROVE  /\ PlaceOf(s, k) \in 1 .. Len(s) /\ s[PlaceOf(s, k)].kind = "INPKT"
         /\ PacketsUpTo(s, PlaceOf(s, k)) = k
  <1> DEFINE S == {i \in 0 .. Len(s) : k <= PacketsUpTo(s, i)}
  <1>0. Len(s) \in Nat /\ k \in Nat /\ k >= 1 /\ k <= PacketsUpTo(s, Len(s))
    BY UptoType
  <1>1. S \subseteq Nat /\ Len(s) \in S
    BY <1>0
  <1>2. PICK i \in S : \A y \in S : i <= y
    BY <1>1, LeastOf
  <1>3. i \in 0 .. Len(s) /\ k <= PacketsUpTo(s, i)
    OBVIOUS
  <1>4. i # 0
    BY <1>0, <1>3, UptoSteps
  <1>5. i - 1 \in Nat /\ i - 1 \in 0 .. Len(s) /\ (i - 1) + 1 = i /\ i \in 1 .. Len(s) /\ i \in Nat
    BY <1>0, <1>3, <1>4
  <1>6. ~(k <= PacketsUpTo(s, i - 1))
    <2> SUFFICES ASSUME k <= PacketsUpTo(s, i - 1)
                 PROVE  FALSE
      OBVIOUS
    <2>1. i - 1 \in S
      BY <1>5
    <2>2. i <= i - 1
      BY <1>2, <2>1
    <2> QED
      BY <1>5, <2>2
  <1>7. PacketsUpTo(s, (i - 1) + 1) =
          PacketsUpTo(s, i - 1) + IF s[(i - 1) + 1].kind = "INPKT" THEN 1 ELSE 0
    BY <1>5, UptoSteps
  <1>8. PacketsUpTo(s, i) \in Nat /\ PacketsUpTo(s, i - 1) \in Nat
    BY <1>5, UptoType
  <1>9. s[i].kind = "INPKT" /\ PacketsUpTo(s, i) = k
    BY <1>0, <1>3, <1>5, <1>6, <1>7, <1>8
  <1> HIDE DEF S
  <1> QED
    BY <1>5, <1>9 DEF PlaceOf

(* It has no other.                                                        *)
LEMMA PlaceUnique ==
  ASSUME NEW s \in Seq(Message), NEW i \in 1 .. Len(s), s[i].kind = "INPKT"
  PROVE  /\ PacketsUpTo(s, i) \in 1 .. PacketsUpTo(s, Len(s))
         /\ PlaceOf(s, PacketsUpTo(s, i)) = i
  <1> DEFINE k == PacketsUpTo(s, i)
             j == PlaceOf(s, k)
  <1>0. Len(s) \in Nat /\ i \in Nat /\ 0 < i /\ i <= Len(s)
    OBVIOUS
  <1>1. k \in 1 .. PacketsUpTo(s, Len(s))
    <2>1. PacketsUpTo(s, 0) < PacketsUpTo(s, i)
      BY <1>0, UptoGrows
    <2>2. PacketsUpTo(s, i) <= PacketsUpTo(s, Len(s))
      BY <1>0, UptoGrows
    <2>3. PacketsUpTo(s, 0) = 0
      BY UptoSteps
    <2>4. PacketsUpTo(s, i) \in Nat /\ PacketsUpTo(s, Len(s)) \in Nat
      BY <1>0, UptoType
    <2> QED
      BY <2>1, <2>2, <2>3, <2>4
  <1>2. j \in 1 .. Len(s) /\ s[j].kind = "INPKT" /\ PacketsUpTo(s, j) = k
    BY <1>1, PlaceExists
  <1>3. j \in Nat /\ k \in Nat
    BY <1>0, <1>2, UptoType
  <1> HIDE DEF j
  <1>4. ~(i < j)
    <2>1. i < j => k < PacketsUpTo(s, j)
      BY <1>0, <1>2, <1>3, UptoGrows
    <2> QED
      BY <1>2, <1>3, <2>1
  <1>5. ~(j < i)
    <2>1. j < i => PacketsUpTo(s, j) < k
      BY <1>0, <1>3, UptoGrows
    <2> QED
      BY <1>2, <1>3, <2>1
  <1>6. i = j
    BY <1>0, <1>3, <1>4, <1>5
  <1> QED
    BY <1>1, <1>6 DEF j

(* The frames of a sequence of messages are a sequence of frames.          *)
LEMMA FramesType ==
  ASSUME NEW s \in Seq(Message)
  PROVE  /\ FramesIn(s) \in Seq(Frames) /\ Len(FramesIn(s)) = PacketsUpTo(s, Len(s))
         /\ \A k \in 1 .. Len(FramesIn(s)) : FramesIn(s)[k] = s[PlaceOf(s, k)].frame
  <1>1. PacketsUpTo(s, Len(s)) \in Nat
    <2>1. Len(s) \in Nat
      OBVIOUS
    <2> QED
      BY <2>1, UptoType
  <1>2. \A k \in 1 .. PacketsUpTo(s, Len(s)) : s[PlaceOf(s, k)].frame \in Frames
    <2> SUFFICES ASSUME NEW k \in 1 .. PacketsUpTo(s, Len(s))
                 PROVE  s[PlaceOf(s, k)].frame \in Frames
      OBVIOUS
    <2>1. PlaceOf(s, k) \in 1 .. Len(s) /\ s[PlaceOf(s, k)].kind = "INPKT"
      BY PlaceExists
    <2>2. s[PlaceOf(s, k)] \in Message
      BY <2>1
    <2> QED
      BY <2>1, <2>2 DEF Message, Carried
  <1>3. FramesIn(s) \in [1 .. PacketsUpTo(s, Len(s)) -> Frames]
    BY <1>2 DEF FramesIn
  <1>4. FramesIn(s) \in Seq(Frames) /\ Len(FramesIn(s)) = PacketsUpTo(s, Len(s))
    BY <1>1, <1>3
  <1> QED
    BY <1>4 DEF FramesIn

(* Without a message there is no frame.                                    *)
LEMMA FramesEmpty == FramesIn(<<>>) = <<>>
  <1>1. <<>> \in Seq(Message) /\ Len(<<>>) = 0
    OBVIOUS
  <1>2. PacketsUpTo(<<>>, 0) = 0
    BY UptoSteps
  <1>3. FramesIn(<<>>) \in Seq(Frames) /\ Len(FramesIn(<<>>)) = PacketsUpTo(<<>>, Len(<<>>))
    BY <1>1, FramesType
  <1>4. Len(FramesIn(<<>>)) = 0
    BY <1>1, <1>2, <1>3
  <1> QED
    BY <1>3, <1>4, EmptySeq

(* What a message adds at the end of the frames.                           *)
FrameOf(m) == IF m.kind = "INPKT" THEN <<m.frame>> ELSE <<>>

LEMMA FrameOfType ==
  ASSUME NEW m \in Message
  PROVE  FrameOf(m) \in Seq(Frames)
  BY DEF FrameOf, Message, Carried

(* Two sequences that agree up to a place have the same packets there.     *)
LEMMA UptoSame ==
  ASSUME NEW s, NEW t, NEW n \in Nat, \A i \in 1 .. n : s[i] = t[i]
  PROVE  \A i \in 0 .. n : PacketsUpTo(s, i) = PacketsUpTo(t, i)
  <1> SUFFICES ASSUME NEW i \in 0 .. n
               PROVE  PacketsUpTo(s, i) = PacketsUpTo(t, i)
    OBVIOUS
  <1>1. {j \in 1 .. i : s[j].kind = "INPKT"} = {j \in 1 .. i : t[j].kind = "INPKT"}
    OBVIOUS
  <1> QED
    BY <1>1 DEF PacketsUpTo

(* A message that is appended adds its frame at the end.                   *)
LEMMA FramesAppend ==
  ASSUME NEW s \in Seq(Message), NEW m \in Message
  PROVE  FramesIn(Append(s, m)) = FramesIn(s) \o FrameOf(m)
  <1> DEFINE t == Append(s, m)
             n == Len(s)
  <1>1. /\ t \in Seq(Message) /\ n \in Nat /\ Len(t) = n + 1 /\ t[n + 1] = m
        /\ \A i \in 1 .. n : t[i] = s[i]
    OBVIOUS
  <1> HIDE DEF t, n
  <1>2. \A i \in 0 .. n : PacketsUpTo(s, i) = PacketsUpTo(t, i)
    <2>1. \A i \in 1 .. n : s[i] = t[i]
      BY <1>1
    <2> QED
      BY ONLY <1>1, <2>1, UptoSame
  <1>3. /\ PacketsUpTo(t, n + 1) = PacketsUpTo(s, n) + IF m.kind = "INPKT" THEN 1 ELSE 0
        /\ PacketsUpTo(s, n) \in Nat
    <2>1. PacketsUpTo(t, n + 1) = PacketsUpTo(t, n) + IF t[n + 1].kind = "INPKT" THEN 1 ELSE 0
      BY <1>1, UptoSteps
    <2>2. PacketsUpTo(t, n) = PacketsUpTo(s, n) /\ PacketsUpTo(s, n) \in Nat
      BY <1>1, <1>2, UptoType
    <2> QED
      BY <1>1, <2>1, <2>2
  <1>4. \A k \in 1 .. PacketsUpTo(s, n) : t[PlaceOf(t, k)] = s[PlaceOf(s, k)]
    <2> SUFFICES ASSUME NEW k \in 1 .. PacketsUpTo(s, n)
                 PROVE  t[PlaceOf(t, k)] = s[PlaceOf(s, k)]
      OBVIOUS
    <2>1. /\ PlaceOf(s, k) \in 1 .. n /\ s[PlaceOf(s, k)].kind = "INPKT"
          /\ PacketsUpTo(s, PlaceOf(s, k)) = k
      BY PlaceExists DEF n
    <2>2. PlaceOf(s, k) \in 1 .. Len(t) /\ t[PlaceOf(s, k)] = s[PlaceOf(s, k)]
      BY <1>1, <2>1
    <2>3. PacketsUpTo(t, PlaceOf(s, k)) = k
      BY <1>1, <1>2, <2>1
    <2>4. PlaceOf(t, PacketsUpTo(t, PlaceOf(s, k))) = PlaceOf(s, k)
      BY <1>1, <2>1, <2>2, PlaceUnique
    <2> QED
      BY <2>2, <2>3, <2>4
  <1>5. /\ FramesIn(s) \in Seq(Frames) /\ Len(FramesIn(s)) = PacketsUpTo(s, n)
        /\ \A k \in 1 .. Len(FramesIn(s)) : FramesIn(s)[k] = s[PlaceOf(s, k)].frame
    BY FramesType DEF n
  <1>6. /\ FramesIn(t) \in Seq(Frames) /\ Len(FramesIn(t)) = PacketsUpTo(t, n + 1)
        /\ \A k \in 1 .. Len(FramesIn(t)) : FramesIn(t)[k] = t[PlaceOf(t, k)].frame
    BY <1>1, FramesType
  <1>7. CASE m.kind # "INPKT"
    <2>1. Len(FramesIn(t)) = Len(FramesIn(s))
      BY <1>3, <1>5, <1>6, <1>7
    <2>2. \A k \in 1 .. Len(FramesIn(t)) : FramesIn(t)[k] = FramesIn(s)[k]
      BY <1>4, <1>5, <1>6, <2>1
    <2>3. FramesIn(t) = FramesIn(s)
      BY <1>5, <1>6, <2>1, <2>2, SeqEqual
    <2>4. FramesIn(s) \o <<>> = FramesIn(s)
      BY <1>5, ConcatEmptySeq
    <2> QED
      BY <1>7, <2>3, <2>4 DEF FrameOf, t
  <1>8. CASE m.kind = "INPKT"
    <2>0. <<m.frame>> \in Seq(Frames) /\ Len(<<m.frame>>) = 1 /\ <<m.frame>>[1] = m.frame
      BY <1>8, FrameOfType DEF FrameOf
    <2> DEFINE q == FramesIn(s) \o <<m.frame>>
    <2>1. q \in Seq(Frames) /\ Len(q) = Len(FramesIn(s)) + 1
      BY <1>5, <2>0, ConcatProperties
    <2>2. \A k \in 1 .. Len(FramesIn(s)) : q[k] = FramesIn(s)[k]
      BY <1>5, <2>0, ConcatProperties
    <2>3. q[Len(FramesIn(s)) + 1] = m.frame
      BY <1>5, <2>0, ConcatProperties
    <2> HIDE DEF q
    <2>4. Len(FramesIn(t)) = Len(FramesIn(s)) + 1
      BY <1>3, <1>5, <1>6, <1>8
    <2>5. t[PlaceOf(t, Len(FramesIn(s)) + 1)] = m
      <3>1. n + 1 \in 1 .. Len(t) /\ t[n + 1].kind = "INPKT"
        BY <1>1, <1>8
      <3>2. PlaceOf(t, PacketsUpTo(t, n + 1)) = n + 1
        BY <1>1, <3>1, PlaceUnique
      <3> QED
        BY <1>1, <1>6, <2>4, <3>2
    <2>6. \A k \in 1 .. Len(FramesIn(t)) : FramesIn(t)[k] = q[k]
      <3> SUFFICES ASSUME NEW k \in 1 .. Len(FramesIn(t))
                   PROVE  FramesIn(t)[k] = q[k]
        OBVIOUS
      <3>0. Len(FramesIn(s)) \in Nat
        BY <1>5
      <3>1. CASE k = Len(FramesIn(s)) + 1
        BY <1>6, <2>3, <2>5, <3>1
      <3>2. CASE k \in 1 .. Len(FramesIn(s))
        BY <1>4, <1>5, <1>6, <2>2, <3>2
      <3> QED
        BY <2>4, <3>0, <3>1, <3>2
    <2>7. FramesIn(t) = q
      BY <1>6, <2>1, <2>4, <2>6, SeqEqual
    <2> QED
      BY <1>8, <2>7 DEF FrameOf, t, q
  <1> QED
    BY <1>7, <1>8

(* One message.                                                            *)
LEMMA FramesOne ==
  ASSUME NEW m \in Message
  PROVE  FramesIn(<<m>>) = FrameOf(m)
  <1>1. <<>> \in Seq(Message) /\ <<m>> = Append(<<>>, m)
    OBVIOUS
  <1>2. FramesIn(<<m>>) = FramesIn(<<>>) \o FrameOf(m)
    BY <1>1, FramesAppend
  <1> QED
    BY <1>2, FramesEmpty, FrameOfType, ConcatEmptySeq

(* A sequence's packets are the first message's and the others'.           *)
LEMMA UptoTail ==
  ASSUME NEW s \in Seq(Message), s # <<>>
  PROVE  \A i \in 0 .. Len(s) - 1 :
           PacketsUpTo(s, i + 1) = PacketsUpTo(Tail(s), i) + Len(FrameOf(s[1]))
  <1> DEFINE n == Len(s) - 1
             S == {i \in 0 .. n : PacketsUpTo(s, i + 1) # PacketsUpTo(Tail(s), i) + Len(FrameOf(s[1]))}
  <1>1. /\ Len(s) \in Nat \ {0} /\ n \in Nat /\ Len(Tail(s)) = n
        /\ \A i \in 1 .. n : Tail(s)[i] = s[i + 1]
    OBVIOUS
  <1>2. Len(FrameOf(s[1])) = IF s[1].kind = "INPKT" THEN 1 ELSE 0
    BY DEF FrameOf
  <1>3. S = {}
    <2> SUFFICES ASSUME S # {}
                 PROVE  FALSE
      OBVIOUS
    <2>1. S \subseteq Nat
      BY <1>1
    <2>2. PICK i \in S : \A y \in S : i <= y
      BY <2>1, LeastOf
    <2>3. /\ i \in 0 .. n
          /\ PacketsUpTo(s, i + 1) # PacketsUpTo(Tail(s), i) + Len(FrameOf(s[1]))
      OBVIOUS
    <2>4. i # 0
      <3>1. PacketsUpTo(s, 0 + 1) = PacketsUpTo(s, 0) + IF s[0 + 1].kind = "INPKT" THEN 1 ELSE 0
        BY UptoSteps
      <3>2. PacketsUpTo(s, 0) = 0 /\ PacketsUpTo(Tail(s), 0) = 0
        BY UptoSteps
      <3> QED
        BY <1>2, <2>3, <3>1, <3>2
    <2>5. i - 1 \in 0 .. n /\ i - 1 \in Nat /\ (i - 1) + 1 = i /\ i \in Nat /\ i \in 1 .. n
      BY <1>1, <2>3, <2>4
    <2>6. PacketsUpTo(s, i) = PacketsUpTo(Tail(s), i - 1) + Len(FrameOf(s[1]))
      <3>1. i - 1 \notin S
        BY <2>2, <2>5
      <3> QED
        BY <2>5, <3>1
    <2>7. PacketsUpTo(s, i + 1) = PacketsUpTo(s, i) + IF s[i + 1].kind = "INPKT" THEN 1 ELSE 0
      BY <2>5, UptoSteps
    <2>8. PacketsUpTo(Tail(s), (i - 1) + 1) =
            PacketsUpTo(Tail(s), i - 1) + IF Tail(s)[(i - 1) + 1].kind = "INPKT" THEN 1 ELSE 0
      BY <2>5, UptoSteps
    <2>9. Tail(s)[i] = s[i + 1]
      BY <1>1, <2>5
    <2>10. PacketsUpTo(Tail(s), i - 1) \in Nat /\ Len(FrameOf(s[1])) \in Nat
      BY <1>2, <2>5, UptoType
    <2> HIDE DEF S
    <2> QED
      BY <2>3, <2>5, <2>6, <2>7, <2>8, <2>9, <2>10
  <1> QED
    BY <1>3

(* The first message's frame comes first.                                  *)
LEMMA FramesTail ==
  ASSUME NEW s \in Seq(Message), s # <<>>
  PROVE  FramesIn(s) = FrameOf(Head(s)) \o FramesIn(Tail(s))
  <1> DEFINE t == Tail(s)
             n == Len(s) - 1
             h == FrameOf(s[1])
  <1>1. /\ t \in Seq(Message) /\ n \in Nat /\ Len(t) = n /\ Len(s) = n + 1
        /\ \A i \in 1 .. n : t[i] = s[i + 1]
        /\ s[1] \in Message /\ Head(s) = s[1]
    OBVIOUS
  <1>2. h \in Seq(Frames) /\ Len(h) = IF s[1].kind = "INPKT" THEN 1 ELSE 0
    BY <1>1, FrameOfType DEF FrameOf
  <1>3. \A i \in 0 .. n : PacketsUpTo(s, i + 1) = PacketsUpTo(t, i) + Len(h)
    BY UptoTail
  <1>4. Len(h) = 1 => h[1] = s[1].frame
    BY <1>2 DEF FrameOf
  <1> HIDE DEF t, n, h
  <1>5. /\ FramesIn(s) \in Seq(Frames) /\ Len(FramesIn(s)) = PacketsUpTo(s, n + 1)
        /\ \A k \in 1 .. Len(FramesIn(s)) : FramesIn(s)[k] = s[PlaceOf(s, k)].frame
    BY <1>1, FramesType
  <1>6. /\ FramesIn(t) \in Seq(Frames) /\ Len(FramesIn(t)) = PacketsUpTo(t, n)
        /\ \A k \in 1 .. Len(FramesIn(t)) : FramesIn(t)[k] = t[PlaceOf(t, k)].frame
    BY <1>1, FramesType
  <1> DEFINE q == h \o FramesIn(t)
  <1>7. /\ q \in Seq(Frames) /\ Len(q) = Len(h) + Len(FramesIn(t))
        /\ \A i \in 1 .. Len(h) + Len(FramesIn(t)) :
             q[i] = IF i <= Len(h) THEN h[i] ELSE FramesIn(t)[i - Len(h)]
    BY <1>2, <1>6, ConcatProperties
  <1> HIDE DEF q
  <1>8. Len(FramesIn(s)) = Len(q) /\ Len(FramesIn(t)) \in Nat
    BY <1>1, <1>2, <1>3, <1>5, <1>6, <1>7
  <1>9. ASSUME NEW k \in 1 .. Len(FramesIn(s))
        PROVE  FramesIn(s)[k] = q[k]
    <2>1. CASE k <= Len(h)
      <3>1. k = 1 /\ Len(h) = 1 /\ s[1].kind = "INPKT"
        BY <1>2, <2>1
      <3>2. PacketsUpTo(s, 0 + 1) = 1
        <4>1. PacketsUpTo(s, 0) = 0
          BY UptoSteps
        <4>2. PacketsUpTo(s, 0 + 1) = PacketsUpTo(s, 0) + IF s[0 + 1].kind = "INPKT" THEN 1 ELSE 0
          BY UptoSteps
        <4> QED
          BY <3>1, <4>1, <4>2
      <3>3. PacketsUpTo(s, 1) = 1 /\ 1 \in 1 .. Len(s)
        BY <1>1, <3>2
      <3>4. PlaceOf(s, PacketsUpTo(s, 1)) = 1
        BY <3>1, <3>3, PlaceUnique
      <3>5. FramesIn(s)[1] = s[1].frame
        BY <1>5, <3>1, <3>3, <3>4
      <3>6. q[1] = h[1]
        BY <1>7, <1>8, <2>1, <3>1
      <3> QED
        BY <1>4, <3>1, <3>5, <3>6
    <2>2. CASE k > Len(h)
      <3> DEFINE j == k - Len(h)
                 i == PlaceOf(t, j)
      <3>1. j \in 1 .. Len(FramesIn(t)) /\ k = j + Len(h)
        BY <1>2, <1>7, <1>8, <2>2
      <3> HIDE DEF j
      <3>2. i \in 1 .. n /\ t[i].kind = "INPKT" /\ PacketsUpTo(t, i) = j
        BY <1>1, <1>6, <3>1, PlaceExists
      <3>3. i + 1 \in 1 .. Len(s) /\ s[i + 1] = t[i] /\ i \in 0 .. n
        BY <1>1, <3>2
      <3>4. PacketsUpTo(s, i + 1) = k
        BY <1>3, <3>1, <3>2, <3>3
      <3>5. PlaceOf(s, PacketsUpTo(s, i + 1)) = i + 1
        BY <3>2, <3>3, PlaceUnique
      <3>6. FramesIn(s)[k] = t[i].frame
        BY <1>5, <3>3, <3>4, <3>5
      <3>7. FramesIn(t)[j] = t[i].frame
        BY <1>6, <3>1
      <3>8. q[k] = FramesIn(t)[j]
        <4>1. k \in 1 .. Len(h) + Len(FramesIn(t)) /\ ~(k <= Len(h)) /\ k - Len(h) = j
          BY <1>2, <1>7, <1>8, <2>2, <3>1
        <4> QED
          BY <1>7, <4>1
      <3> QED
        BY <3>6, <3>7, <3>8
    <2> QED
      BY <1>2, <2>1, <2>2
  <1>10. FramesIn(s) = q
    BY <1>5, <1>7, <1>8, <1>9, SeqEqual
  <1> QED
    BY <1>1, <1>10 DEF q, h, t

-----------------------------------------------------------------------------
(* The frames of the ring.                                                 *)

(* What a descriptor holds.                                                *)
Held == Frames \cup {Garbage}

(* The frames of a ring from one index up to another.                      *)
RingFrom(rx, i, j) == [k \in 1 .. Ahead(i, j) |-> rx[After(i, k - 1)]]

(* How far apart two indices are.                                          *)
LEMMA RingNumbers ==
  ASSUME NEW i \in Index, NEW j \in Index
  PROVE  /\ Ahead(i, j) \in Nat
         /\ \A k \in 1 .. Ahead(i, j) : After(i, k - 1) \in Index /\ After(i, k - 1) # j
         /\ After(i, 0) = i /\ After(i, Ahead(i, j)) = j
         /\ NextIndex(j) # i => Ahead(i, NextIndex(j)) = Ahead(i, j) + 1
         /\ i # j => /\ Ahead(i, j) = Ahead(NextIndex(i), j) + 1
                     /\ \A k \in 2 .. Ahead(i, j) : After(i, k - 1) = After(NextIndex(i), k - 2)
                     /\ \A k \in 1 .. Ahead(NextIndex(i), j) : After(NextIndex(i), k - 1) # i
  <1>0. /\ EMAC_NUM_RX_FRAG \in Int /\ EMAC_NUM_RX_FRAG > 1
        /\ i \in Int /\ 0 <= i /\ i < EMAC_NUM_RX_FRAG
        /\ j \in Int /\ 0 <= j /\ j < EMAC_NUM_RX_FRAG
    BY DEF Index
  <1>1. Ahead(i, j) \in Nat
    BY ONLY <1>0 DEF Ahead
  <1>2. \A k \in 1 .. Ahead(i, j) : After(i, k - 1) \in Index /\ After(i, k - 1) # j
    BY ONLY <1>0 DEF Ahead, After, Index
  <1>3. After(i, 0) = i /\ After(i, Ahead(i, j)) = j
    BY ONLY <1>0 DEF Ahead, After
  <1>4. NextIndex(j) # i => Ahead(i, NextIndex(j)) = Ahead(i, j) + 1
    BY ONLY <1>0 DEF Ahead, NextIndex
  <1>5. ASSUME i # j
        PROVE  Ahead(i, j) = Ahead(NextIndex(i), j) + 1
    BY ONLY <1>0, <1>5 DEF Ahead, NextIndex
  <1>6. ASSUME i # j
        PROVE  \A k \in 2 .. Ahead(i, j) : After(i, k - 1) = After(NextIndex(i), k - 2)
    BY ONLY <1>0, <1>6 DEF Ahead, After, NextIndex
  <1>7. ASSUME i # j
        PROVE  \A k \in 1 .. Ahead(NextIndex(i), j) : After(NextIndex(i), k - 1) # i
    BY ONLY <1>0, <1>7 DEF Ahead, After, NextIndex
  <1> QED
    BY <1>1, <1>2, <1>3, <1>4, <1>5, <1>6, <1>7

LEMMA RingType ==
  ASSUME NEW rx \in [Index -> Held], NEW i \in Index, NEW j \in Index
  PROVE  /\ RingFrom(rx, i, j) \in Seq(Held) /\ Len(RingFrom(rx, i, j)) = Ahead(i, j)
         /\ Ahead(i, j) \in Nat
         /\ \A k \in 1 .. Ahead(i, j) : /\ RingFrom(rx, i, j)[k] = rx[After(i, k - 1)]
                                        /\ After(i, k - 1) \in Index
  <1>1. Ahead(i, j) \in Nat
    BY RingNumbers
  <1>2. \A k \in 1 .. Ahead(i, j) : After(i, k - 1) \in Index
    BY RingNumbers
  <1>3. \A k \in 1 .. Ahead(i, j) : rx[After(i, k - 1)] \in Held
    BY <1>2
  <1>4. RingFrom(rx, i, j) \in [1 .. Ahead(i, j) -> Held]
    BY <1>3 DEF RingFrom
  <1>5. RingFrom(rx, i, j) \in Seq(Held) /\ Len(RingFrom(rx, i, j)) = Ahead(i, j)
    BY <1>1, <1>4
  <1> QED
    BY <1>1, <1>2, <1>5 DEF RingFrom

(* The frames of the ring are those of its two indices.                    *)
LEMMA InRingIs == InRing = RingFrom(Rx, Undealt, RxProduceIndex)
  BY DEF InRing, RingFrom

(* A frame that is written behind the last is the last.                    *)
LEMMA RingArrives ==
  ASSUME NEW rx \in [Index -> Held], NEW i \in Index, NEW j \in Index,
         NextIndex(j) # i, NEW f \in Held
  PROVE  RingFrom([rx EXCEPT ![j] = f], i, NextIndex(j)) = Append(RingFrom(rx, i, j), f)
  <1> DEFINE rx2 == [rx EXCEPT ![j] = f]
             a == RingFrom(rx2, i, NextIndex(j))
             b == RingFrom(rx, i, j)
  <1>1. NextIndex(j) \in Index
    BY RingMoves
  <1>2. Ahead(i, NextIndex(j)) = Ahead(i, j) + 1 /\ After(i, Ahead(i, j)) = j
    BY RingNumbers
  <1>3. rx2 \in [Index -> Held] /\ rx2[j] = f /\ \A k \in Index : k # j => rx2[k] = rx[k]
    OBVIOUS
  <1> HIDE DEF rx2
  <1>4. /\ a \in Seq(Held) /\ Len(a) = Ahead(i, j) + 1
        /\ \A k \in 1 .. Ahead(i, j) + 1 : a[k] = rx2[After(i, k - 1)]
    <2>1. /\ a \in Seq(Held) /\ Len(a) = Ahead(i, NextIndex(j))
          /\ \A k \in 1 .. Ahead(i, NextIndex(j)) : a[k] = rx2[After(i, k - 1)]
      BY ONLY <1>1, <1>3, i \in Index, RingType
    <2> QED
      BY ONLY <1>2, <2>1
  <1>5. /\ b \in Seq(Held) /\ Len(b) = Ahead(i, j) /\ Ahead(i, j) \in Nat
        /\ \A k \in 1 .. Ahead(i, j) : b[k] = rx[After(i, k - 1)] /\ After(i, k - 1) \in Index
    BY RingType
  <1> HIDE DEF a, b
  <1>6. /\ Append(b, f) \in Seq(Held) /\ Len(Append(b, f)) = Ahead(i, j) + 1
        /\ Append(b, f)[Ahead(i, j) + 1] = f
        /\ \A k \in 1 .. Ahead(i, j) : Append(b, f)[k] = b[k]
    BY <1>5, AppendProperties
  <1>7. \A k \in 1 .. Ahead(i, j) : After(i, k - 1) # j
    BY RingNumbers
  <1>8. ASSUME NEW k \in 1 .. Len(a)
        PROVE  a[k] = Append(b, f)[k]
    <2>1. CASE k = Ahead(i, j) + 1
      <3>1. k - 1 = Ahead(i, j)
        BY <1>5, <2>1
      <3>2. a[k] = rx2[After(i, k - 1)]
        BY <1>4, <1>8
      <3>3. a[k] = f
        BY <1>2, <1>3, <3>1, <3>2
      <3> QED
        BY <1>6, <2>1, <3>3
    <2>2. CASE k \in 1 .. Ahead(i, j)
      <3>1. a[k] = rx2[After(i, k - 1)]
        BY <1>4, <1>8
      <3>2. rx2[After(i, k - 1)] = rx[After(i, k - 1)]
        BY <1>3, <1>5, <1>7, <2>2
      <3> QED
        BY <1>5, <1>6, <2>2, <3>1, <3>2
    <2> QED
      BY <1>4, <1>5, <2>1, <2>2
  <1>9. Len(a) = Len(Append(b, f))
    BY <1>4, <1>6
  <1>10. a = Append(b, f)
    BY <1>4, <1>6, <1>8, <1>9, SeqEqual
  <1> QED
    BY <1>10 DEF a, b, rx2

(* Without its first frame a ring starts one further.                      *)
LEMMA RingLeaves ==
  ASSUME NEW rx \in [Index -> Held], NEW i \in Index, NEW j \in Index, i # j
  PROVE  RingFrom(rx, i, j) = <<rx[i]>> \o RingFrom(rx, NextIndex(i), j)
  <1> DEFINE a == RingFrom(rx, i, j)
             b == RingFrom(rx, NextIndex(i), j)
             q == <<rx[i]>> \o b
  <1>1. NextIndex(i) \in Index
    BY RingMoves
  <1>2. Ahead(i, j) = Ahead(NextIndex(i), j) + 1 /\ After(i, 0) = i
    BY RingNumbers
  <1>3. \A k \in 2 .. Ahead(i, j) : After(i, k - 1) = After(NextIndex(i), k - 2)
    BY RingNumbers
  <1>4. /\ a \in Seq(Held) /\ Len(a) = Ahead(i, j) /\ Ahead(i, j) \in Nat
        /\ \A k \in 1 .. Ahead(i, j) : a[k] = rx[After(i, k - 1)]
    BY RingType
  <1>5. /\ b \in Seq(Held) /\ Len(b) = Ahead(NextIndex(i), j) /\ Ahead(NextIndex(i), j) \in Nat
        /\ \A k \in 1 .. Ahead(NextIndex(i), j) : b[k] = rx[After(NextIndex(i), k - 1)]
    BY <1>1, RingType
  <1> HIDE DEF a, b
  <1>6. <<rx[i]>> \in Seq(Held) /\ Len(<<rx[i]>>) = 1 /\ <<rx[i]>>[1] = rx[i]
    OBVIOUS
  <1>7. /\ q \in Seq(Held) /\ Len(q) = 1 + Len(b)
        /\ \A k \in 1 .. 1 + Len(b) : q[k] = IF k <= 1 THEN <<rx[i]>>[k] ELSE b[k - 1]
    BY <1>5, <1>6, ConcatProperties
  <1> HIDE DEF q
  <1>8. Len(a) = Len(q)
    BY <1>2, <1>4, <1>5, <1>7
  <1>9. ASSUME NEW k \in 1 .. Len(a)
        PROVE  a[k] = q[k]
    <2>1. CASE k = 1
      <3>1. a[1] = rx[After(i, 1 - 1)]
        BY <1>4, <1>9, <2>1
      <3>2. q[1] = rx[i]
        BY <1>5, <1>6, <1>7
      <3> QED
        BY <1>2, <2>1, <3>1, <3>2
    <2>2. CASE k # 1
      <3>1. k \in 2 .. Ahead(i, j) /\ k - 1 \in 1 .. Ahead(NextIndex(i), j) /\ (k - 1) - 1 = k - 2
        BY <1>2, <1>4, <1>5, <1>9, <2>2
      <3>2. b[k - 1] = rx[After(NextIndex(i), k - 2)]
        BY <1>5, <3>1
      <3>3. q[k] = b[k - 1]
        BY <1>5, <1>7, <1>8, <1>9, <2>2
      <3>4. a[k] = rx[After(i, k - 1)]
        BY <1>4, <1>9
      <3> QED
        BY <1>3, <3>1, <3>2, <3>3, <3>4
    <2> QED
      BY <2>1, <2>2
  <1>10. a = q
    BY <1>4, <1>7, <1>8, <1>9, SeqEqual
  <1> QED
    BY <1>10 DEF a, b, q

(* A descriptor outside is of no matter.                                   *)
LEMMA RingOutside ==
  ASSUME NEW rx \in [Index -> Held], NEW i \in Index, NEW j \in Index, i # j, NEW f \in Held
  PROVE  RingFrom([rx EXCEPT ![i] = f], NextIndex(i), j) = RingFrom(rx, NextIndex(i), j)
  <1> DEFINE rx2 == [rx EXCEPT ![i] = f]
             a == RingFrom(rx2, NextIndex(i), j)
             b == RingFrom(rx, NextIndex(i), j)
  <1>1. NextIndex(i) \in Index
    BY RingMoves
  <1>2. rx2 \in [Index -> Held] /\ \A k \in Index : k # i => rx2[k] = rx[k]
    OBVIOUS
  <1>3. \A k \in 1 .. Ahead(NextIndex(i), j) : After(NextIndex(i), k - 1) # i
    BY RingNumbers
  <1> HIDE DEF rx2
  <1>4. /\ a \in Seq(Held) /\ Len(a) = Ahead(NextIndex(i), j)
        /\ \A k \in 1 .. Ahead(NextIndex(i), j) : a[k] = rx2[After(NextIndex(i), k - 1)]
    BY ONLY <1>1, <1>2, j \in Index, RingType
  <1>5. /\ b \in Seq(Held) /\ Len(b) = Ahead(NextIndex(i), j)
        /\ \A k \in 1 .. Ahead(NextIndex(i), j) : /\ b[k] = rx[After(NextIndex(i), k - 1)]
                                                  /\ After(NextIndex(i), k - 1) \in Index
    BY <1>1, RingType
  <1> HIDE DEF a, b
  <1>6. ASSUME NEW k \in 1 .. Len(a)
        PROVE  a[k] = b[k]
    BY <1>2, <1>3, <1>4, <1>5
  <1>7. a = b
    <2>1. Len(a) = Len(b)
      BY <1>4, <1>5
    <2> QED
      BY <1>4, <1>5, <1>6, <2>1, SeqEqual
  <1> QED
    BY <1>7 DEF a, b, rx2

-----------------------------------------------------------------------------
(* The queue of frames that LossyQueue is about.                           *)

(* Taking an element out of a sequence.                                    *)
LEMMA TakenOut ==
  ASSUME NEW S, NEW C \in Seq(S), NEW h \in S, NEW T \in Seq(S), NEW q, q = C \o (<<h>> \o T)
  PROVE  /\ Len(C) + 1 \in 1 .. Len(q)
         /\ InOrder!RemoveAt(q, Len(C) + 1) = C \o T
  <1> DEFINE D == <<h>> \o T
             i == Len(C) + 1
  <1>1. /\ <<h>> \in Seq(S) /\ Len(<<h>>) = 1 /\ Len(C) \in Nat /\ Len(T) \in Nat
    OBVIOUS
  <1>2. /\ D \in Seq(S) /\ Len(D) = 1 + Len(T)
        /\ \A k \in 1 .. 1 + Len(T) : D[k] = IF k <= 1 THEN <<h>>[k] ELSE T[k - 1]
    BY <1>1, ConcatProperties
  <1>3. /\ q \in Seq(S) /\ Len(q) = Len(C) + Len(D)
        /\ \A k \in 1 .. Len(C) + Len(D) : q[k] = IF k <= Len(C) THEN C[k] ELSE D[k - Len(C)]
    BY <1>2, ConcatProperties
  <1> HIDE DEF D
  <1>4. i \in 1 .. Len(q)
    BY <1>1, <1>2, <1>3
  <1>5. \A k \in 1 .. Len(C) : q[k] = C[k]
    BY <1>1, <1>2, <1>3
  <1>6. \A k \in 1 .. Len(T) : q[k + i] = T[k]
    <2> SUFFICES ASSUME NEW k \in 1 .. Len(T)
                 PROVE  q[k + i] = T[k]
      OBVIOUS
    <2>1. k + i \in 1 .. Len(C) + Len(D) /\ ~(k + i <= Len(C)) /\ k + i - Len(C) = k + 1
      BY <1>1, <1>2
    <2>2. q[k + i] = D[k + 1]
      <3>1. q[k + i] = IF k + i <= Len(C) THEN C[k + i] ELSE D[k + i - Len(C)]
        BY ONLY <1>3, <2>1
      <3> QED
        BY ONLY <2>1, <3>1
    <2>3. k + 1 \in 1 .. 1 + Len(T) /\ ~(k + 1 <= 1) /\ (k + 1) - 1 = k
      BY <1>1
    <2> QED
      BY <1>2, <2>2, <2>3
  <1>7. SubSeq(q, 1, i - 1) = C
    <2>1. i - 1 = Len(C)
      BY <1>1
    <2>2. \A k \in 1 .. Len(C) : q[k] \in S
      BY <1>5
    <2>3. /\ SubSeq(q, 1, Len(C)) \in Seq(S)
          /\ Len(SubSeq(q, 1, Len(C))) = IF 1 <= Len(C) THEN Len(C) - 1 + 1 ELSE 0
          /\ \A k \in 1 .. Len(C) - 1 + 1 : SubSeq(q, 1, Len(C))[k] = q[1 + k - 1]
      <3>1. 1 \in Int /\ Len(C) \in Int
        BY <1>1
      <3> QED
        BY <2>2, <3>1, SubSeqProperties
    <2>4. Len(SubSeq(q, 1, Len(C))) = Len(C)
      BY <1>1, <2>3
    <2>5. \A k \in 1 .. Len(C) : SubSeq(q, 1, Len(C))[k] = C[k]
      BY <1>1, <1>5, <2>3
    <2>6. SubSeq(q, 1, Len(C)) = C
      BY <2>3, <2>4, <2>5, SeqEqual
    <2> QED
      BY <2>1, <2>6
  <1>8. SubSeq(q, i + 1, Len(q)) = T
    <2> DEFINE u == SubSeq(q, i + 1, Len(q))
    <2>1. Len(q) = i + Len(T) /\ i \in Nat
      BY <1>1, <1>2, <1>3
    <2>2. \A k \in i + 1 .. Len(q) : q[k] \in S
      BY <1>3, <2>1
    <2>3. /\ u \in Seq(S)
          /\ Len(u) = IF i + 1 <= Len(q) THEN Len(q) - (i + 1) + 1 ELSE 0
          /\ \A k \in 1 .. Len(q) - (i + 1) + 1 : u[k] = q[i + 1 + k - 1]
      <3>1. i + 1 \in Int /\ Len(q) \in Int
        BY <1>1, <2>1
      <3> QED
        BY <2>2, <3>1, SubSeqProperties
    <2> HIDE DEF u, i
    <2>4. Len(u) = Len(T)
      BY <1>1, <2>1, <2>3
    <2>5. ASSUME NEW k \in 1 .. Len(T)
          PROVE  u[k] = T[k]
      <3>1. k \in 1 .. Len(q) - (i + 1) + 1 /\ i + 1 + k - 1 = k + i
        BY <1>1, <2>1
      <3> QED
        BY <1>6, <2>3, <3>1
    <2>6. u = T
      BY <2>3, <2>4, <2>5, SeqEqual
    <2> QED
      BY <2>6 DEF u
  <1>9. InOrder!RemoveAt(q, i) = SubSeq(q, 1, i - 1) \o SubSeq(q, i + 1, Len(q))
    BY DEF InOrder!RemoveAt
  <1> QED
    BY <1>4, <1>7, <1>8, <1>9

(* The frames on their way, as the abstract specification sees them.       *)
Queue == FramesIn(msg) \o FramesIn(mbox) \o InRing

(* What a step does to the queue.                                          *)
QueueStep == InOrder!Next \/ Queue' = Queue

(* The three parts of the queue are sequences.                             *)
LEMMA PartsType ==
  ASSUME IInv
  PROVE  /\ FramesIn(msg) \in Seq(Held) /\ FramesIn(mbox) \in Seq(Held)
         /\ FramesIn(msg) \o FramesIn(mbox) \in Seq(Held)
         /\ Rx \in [Index -> Held] /\ RxProduceIndex \in Index /\ RxConsumeIndex \in Index
         /\ Undealt \in Index /\ InRing \in Seq(Held)
  <1>1. mbox \in Seq(Message) /\ msg \in Seq(Message)
    BY BooksType
  <1>2. FramesIn(msg) \in Seq(Frames) /\ FramesIn(mbox) \in Seq(Frames)
    BY <1>1, FramesType
  <1>3. Frames \subseteq Held
    BY DEF Held
  <1>4. FramesIn(msg) \in Seq(Held) /\ FramesIn(mbox) \in Seq(Held)
    BY <1>2, <1>3, SeqMonotonic
  <1>5. FramesIn(msg) \o FramesIn(mbox) \in Seq(Held)
    BY <1>4, ConcatProperties
  <1>6. Rx \in [Index -> Held] /\ RxProduceIndex \in Index /\ RxConsumeIndex \in Index
    BY DEF IInv, Types, Held
  <1>7. Undealt \in Index
    BY <1>6, RingMoves DEF Undealt
  <1>8. InRing \in Seq(Held)
    BY <1>6, <1>7, RingType, InRingIs
  <1> QED
    BY <1>4, <1>5, <1>6, <1>7, <1>8

(* A step that leaves the three parts alone leaves the queue alone.        *)
LEMMA SameQueue ==
  ASSUME FramesIn(msg') = FramesIn(msg), FramesIn(mbox') = FramesIn(mbox), InRing' = InRing
  PROVE  QueueStep
  BY DEF QueueStep, Queue

(* The ring of a step that moves no index, and does not start or end the   *)
(* release of a descriptor.                                                *)
LEMMA SameRing ==
  ASSUME UNCHANGED <<RxProduceIndex, RxConsumeIndex, Rx>>, (isr' = "release") <=> (isr = "release")
  PROVE  InRing' = InRing
  BY DEF InRing, Undealt

(* A task's step.                                                          *)
LEMMA TaskRing ==
  ASSUME UNCHANGED macVars, UNCHANGED isrVars
  PROVE  InRing' = InRing
  BY SameRing DEF macVars, isrVars

(* A frame arrives.                                                        *)
LEMMA ArriveStep ==
  ASSUME IInv, NEW f \in Frames, RxFrame(f)
  PROVE  QueueStep
  <1> DEFINE C == FramesIn(msg) \o FramesIn(mbox)
  <1>1. /\ NextIndex(RxProduceIndex) # RxConsumeIndex /\ Rx' = [Rx EXCEPT ![RxProduceIndex] = f]
        /\ RxProduceIndex' = NextIndex(RxProduceIndex)
        /\ UNCHANGED <<isr, RxConsumeIndex, mbox, msg>>
    BY DEF RxFrame, RingFull, isrVars
  <1>2. C \in Seq(Held) /\ InRing \in Seq(Held) /\ f \in Held
    BY PartsType DEF Held
  <1>3. Undealt' = Undealt
    BY <1>1 DEF Undealt
  <1>4. NextIndex(RxProduceIndex) # Undealt
    <2>1. CASE isr # "release"
      BY <1>1, <2>1 DEF Undealt
    <2>2. CASE isr = "release"
      <3>1. RxConsumeIndex # RxProduceIndex
        BY <2>2 DEF IInv, InIsr
      <3>2. RxConsumeIndex \in Index /\ RxProduceIndex \in Index
        BY PartsType
      <3>3. NextIndex(RxConsumeIndex) # NextIndex(RxProduceIndex)
        BY <3>1, <3>2 DEF NextIndex, Index
      <3> QED
        BY <2>2, <3>3 DEF Undealt
    <2> QED
      BY <2>1, <2>2
  <1>5. InRing' = RingFrom(Rx', Undealt, NextIndex(RxProduceIndex))
    BY <1>1, <1>3, InRingIs DEF InRing, RingFrom
  <1>6. InRing' = Append(InRing, f)
    BY <1>1, <1>2, <1>4, <1>5, RingArrives, PartsType, InRingIs
  <1>7. C \o Append(InRing, f) = Append(C \o InRing, f)
    <2>1. Append(InRing, f) = InRing \o <<f>> /\ <<f>> \in Seq(Held)
      BY <1>2, AppendIsConcat
    <2>2. C \o (InRing \o <<f>>) = (C \o InRing) \o <<f>>
      BY <1>2, <2>1, ConcatAssociative
    <2>3. C \o InRing \in Seq(Held)
      BY <1>2, ConcatProperties
    <2>4. (C \o InRing) \o <<f>> = Append(C \o InRing, f)
      BY <1>2, <2>3, AppendIsConcat
    <2> QED
      BY <2>1, <2>2, <2>4
  <1>8. Queue' = Append(Queue, f)
    BY <1>1, <1>6, <1>7 DEF Queue
  <1> QED
    BY <1>8 DEF QueueStep, InOrder!Next, InOrder!Arrive, Queue

(* The handler is done with the first frame of the ring: it goes to        *)
(* "release".                                                              *)
LEMMA DealtWith ==
  ASSUME IInv, isr # "release", isr' = "release", RxConsumeIndex # RxProduceIndex,
         UNCHANGED <<RxProduceIndex, RxConsumeIndex, Rx>>
  PROVE  InRing = <<Current>> \o InRing' /\ InRing' \in Seq(Held) /\ Current \in Held
  <1>1. Undealt = RxConsumeIndex /\ Undealt' = NextIndex(RxConsumeIndex)
    BY DEF Undealt
  <1>2. Rx \in [Index -> Held] /\ RxProduceIndex \in Index /\ RxConsumeIndex \in Index
    BY PartsType
  <1>3. RingFrom(Rx, RxConsumeIndex, RxProduceIndex) =
          <<Rx[RxConsumeIndex]>> \o RingFrom(Rx, NextIndex(RxConsumeIndex), RxProduceIndex)
    BY <1>2, RingLeaves
  <1>4. InRing' = RingFrom(Rx, NextIndex(RxConsumeIndex), RxProduceIndex)
    BY <1>1 DEF InRing, RingFrom
  <1>5. RingFrom(Rx, NextIndex(RxConsumeIndex), RxProduceIndex) \in Seq(Held)
    BY <1>2, RingMoves, RingType
  <1> QED
    BY <1>1, <1>2, <1>3, <1>4, <1>5, InRingIs DEF Current

(* It has dropped the frame.                                               *)
LEMMA DropStep ==
  ASSUME IInv, isr # "release", isr' = "release", RxConsumeIndex # RxProduceIndex,
         UNCHANGED <<RxProduceIndex, RxConsumeIndex, Rx>>, msg' = msg,
         FramesIn(mbox') = FramesIn(mbox)
  PROVE  QueueStep
  <1> DEFINE C == FramesIn(msg) \o FramesIn(mbox)
  <1>1. InRing = <<Current>> \o InRing' /\ InRing' \in Seq(Held) /\ Current \in Held
    BY DealtWith
  <1>2. C \in Seq(Held)
    BY PartsType
  <1>3. Queue = C \o (<<Current>> \o InRing') /\ Queue' = C \o InRing'
    BY <1>1 DEF Queue
  <1> HIDE DEF C
  <1>4. Len(C) + 1 \in 1 .. Len(Queue) /\ InOrder!RemoveAt(Queue, Len(C) + 1) = C \o InRing'
    BY ONLY <1>1, <1>2, <1>3, TakenOut, ZenonT(30)
  <1>5. \E i \in 1 .. Len(Queue) : Queue' = InOrder!RemoveAt(Queue, i)
    BY <1>3, <1>4
  <1> QED
    BY <1>5 DEF QueueStep, InOrder!Next, InOrder!Leave, Queue

(* It has posted the frame.                                                *)
LEMMA HandStep ==
  ASSUME IInv, isr = "input", isr' = "release",
         UNCHANGED <<RxProduceIndex, RxConsumeIndex, Rx>>, msg' = msg,
         mbox' = Append(mbox, Packet(p[1]))
  PROVE  QueueStep
  <1> DEFINE A == FramesIn(msg)
             B == FramesIn(mbox)
             h == <<Current>>
  <1>1. RxConsumeIndex # RxProduceIndex /\ Current \in Carried /\ p = <<Current>>
    BY DEF IInv, InIsr
  <1>2. InRing = h \o InRing' /\ InRing' \in Seq(Held) /\ Current \in Held
    BY <1>1, DealtWith
  <1>3. p[1] = Current /\ Packet(Current) \in Message
    BY <1>1, MessageFacts
  <1>4. FrameOf(Packet(Current)) = h
    BY DEF FrameOf, Packet
  <1>5. FramesIn(mbox') = B \o h
    BY <1>3, <1>4, FramesAppend, BooksType
  <1>6. A \in Seq(Held) /\ B \in Seq(Held) /\ h \in Seq(Held) /\ A \o B \in Seq(Held)
    BY <1>2, PartsType
  <1>7. Queue' = (A \o (B \o h)) \o InRing'
    BY <1>5 DEF Queue
  <1>8. Queue = (A \o B) \o (h \o InRing')
    BY <1>2 DEF Queue
  <1> HIDE DEF A, B, h
  <1>9. \A X, Y, Z \in Seq(Held) : (X \o Y) \o Z = X \o (Y \o Z)
    BY ConcatAssociative
  <1>10. A \o (B \o h) = (A \o B) \o h
    BY ONLY <1>6, <1>9, Zenon
  <1>11. ((A \o B) \o h) \o InRing' = (A \o B) \o (h \o InRing')
    BY ONLY <1>2, <1>6, <1>9, Zenon
  <1> QED
    BY ONLY <1>7, <1>8, <1>10, <1>11, ZenonT(30) DEF QueueStep

(* The descriptor is given back to the MAC.                                *)
LEMMA ReleaseStep ==
  ASSUME IInv, IrqRelease
  PROVE  QueueStep
  <1>1. /\ isr = "release" /\ isr' = "loop" /\ RxConsumeIndex' = NextIndex(RxConsumeIndex)
        /\ Rx' = [Rx EXCEPT ![RxConsumeIndex] = Garbage]
        /\ UNCHANGED <<RxProduceIndex, mbox, msg>>
    BY DEF IrqRelease
  <1>2. RxConsumeIndex # RxProduceIndex
    BY <1>1 DEF IInv, InIsr
  <1>3. Undealt = NextIndex(RxConsumeIndex) /\ Undealt' = NextIndex(RxConsumeIndex)
    BY <1>1 DEF Undealt
  <1>4. InRing' = RingFrom(Rx', NextIndex(RxConsumeIndex), RxProduceIndex)
    BY <1>1, <1>3 DEF InRing, RingFrom
  <1>5. /\ Rx \in [Index -> Held] /\ RxProduceIndex \in Index /\ RxConsumeIndex \in Index
        /\ Garbage \in Held
    BY PartsType DEF Held
  <1>6. RingFrom(Rx', NextIndex(RxConsumeIndex), RxProduceIndex) =
          RingFrom(Rx, NextIndex(RxConsumeIndex), RxProduceIndex)
    BY <1>1, <1>2, <1>5, RingOutside
  <1>7. InRing' = InRing
    BY <1>3, <1>4, <1>6, InRingIs
  <1> QED
    BY <1>1, <1>7, SameQueue

(* A message that is posted and is no packet adds no frame.                *)
LEMMA NoFrame ==
  ASSUME IInv, NEW m \in Message, m.kind # "INPKT"
  PROVE  FramesIn(Append(mbox, m)) = FramesIn(mbox)
  <1>1. mbox \in Seq(Message) /\ FramesIn(mbox) \in Seq(Held)
    BY BooksType, PartsType
  <1>2. FramesIn(Append(mbox, m)) = FramesIn(mbox) \o FrameOf(m)
    BY <1>1, FramesAppend
  <1>3. FrameOf(m) = <<>>
    BY DEF FrameOf
  <1> QED
    BY <1>1, <1>2, <1>3, ConcatEmptySeq

(* The thread fetches a message: its frame stays the oldest.               *)
LEMMA FetchStep ==
  ASSUME IInv, Fetch
  PROVE  QueueStep
  <1>1. /\ msg = <<>> /\ mbox # <<>> /\ msg' = <<Head(mbox)>> /\ mbox' = Tail(mbox)
        /\ UNCHANGED <<macVars, isrVars>>
    BY DEF Fetch
  <1>2. mbox \in Seq(Message) /\ Head(mbox) \in Message
    BY <1>1, BooksType
  <1>3. InRing' = InRing
    BY <1>1, TaskRing
  <1>4. FramesIn(msg) = <<>>
    BY <1>1, FramesEmpty
  <1>5. FramesIn(msg') = FrameOf(Head(mbox))
    BY <1>1, <1>2, FramesOne
  <1>6. FramesIn(mbox) = FrameOf(Head(mbox)) \o FramesIn(Tail(mbox))
    BY <1>1, <1>2, FramesTail
  <1>7. FramesIn(msg) \o FramesIn(mbox) = FramesIn(mbox)
    BY <1>4, PartsType, ConcatEmptySeq
  <1>8. FramesIn(msg') \o FramesIn(mbox') = FramesIn(msg) \o FramesIn(mbox)
    BY <1>1, <1>5, <1>6, <1>7
  <1> QED
    BY <1>3, <1>8 DEF QueueStep, Queue

(* The stack takes the oldest frame.                                       *)
LEMMA StackStep ==
  ASSUME IInv, Input
  PROVE  QueueStep
  <1>1. /\ msg # <<>> /\ msg[1].kind = "INPKT" /\ msg' = <<Done>> /\ mbox' = mbox
        /\ UNCHANGED <<macVars, isrVars>>
    BY DEF Input, Done
  <1>2. msg = <<msg[1]>> /\ msg[1] \in Message
    BY <1>1, MsgIsOne
  <1> DEFINE f == msg[1].frame
             B == FramesIn(mbox)
  <1>3. FramesIn(msg) = <<f>> /\ f \in Held
    <2>1. FramesIn(<<msg[1]>>) = FrameOf(msg[1])
      BY <1>2, FramesOne
    <2>2. f \in Held
      BY <1>1, <1>2 DEF Message, Carried, Held
    <2> QED
      BY <1>1, <1>2, <2>1, <2>2 DEF FrameOf
  <1>4. FramesIn(msg') = <<>>
    BY <1>1, FramesOne, MessageFacts DEF FrameOf
  <1>5. InRing' = InRing /\ InRing \in Seq(Held) /\ B \in Seq(Held) /\ B \o InRing \in Seq(Held)
    BY <1>1, TaskRing, PartsType, ConcatProperties
  <1>6. Queue = (<<f>> \o B) \o InRing /\ Queue' = (<<>> \o B) \o InRing
    BY <1>1, <1>3, <1>4, <1>5 DEF Queue
  <1> HIDE DEF f, B
  <1>7. <<>> \in Seq(Held) /\ <<f>> \in Seq(Held) /\ Len(<<>>) = 0
    BY <1>3
  <1>8. (<<f>> \o B) \o InRing = <<f>> \o (B \o InRing)
    BY <1>5, <1>7, ConcatAssociative
  <1>9. <<f>> \o (B \o InRing) \in Seq(Held)
    BY <1>5, <1>7, ConcatProperties
  <1>10. Queue = <<>> \o (<<f>> \o (B \o InRing))
    BY <1>6, <1>8, <1>9, ConcatEmptySeq
  <1>11. Queue' = <<>> \o (B \o InRing)
    BY <1>5, <1>6, ConcatEmptySeq
  <1>12. Len(<<>>) + 1 \in 1 .. Len(Queue) /\ InOrder!RemoveAt(Queue, Len(<<>>) + 1) = <<>> \o (B \o InRing)
    <2> DEFINE T == B \o InRing
               E == <<>>
    <2>1. E \in Seq(Held) /\ f \in Held /\ T \in Seq(Held) /\ Queue = E \o (<<f>> \o T)
      BY ONLY <1>3, <1>5, <1>7, <1>10
    <2> HIDE DEF E, T
    <2>2. Len(E) + 1 \in 1 .. Len(Queue) /\ InOrder!RemoveAt(Queue, Len(E) + 1) = E \o T
      BY ONLY <2>1, TakenOut, ZenonT(30)
    <2> QED
      BY ONLY <2>2 DEF E, T
  <1>13. \E i \in 1 .. Len(Queue) : Queue' = InOrder!RemoveAt(Queue, i)
    BY <1>11, <1>12
  <1> QED
    BY <1>13 DEF QueueStep, InOrder!Next, InOrder!Leave, Queue

(* A step of the handler that neither takes a frame up nor drops one.      *)
LEMMA QuietStep ==
  ASSUME UNCHANGED macVars, RxConsumeIndex' = RxConsumeIndex, msg' = msg, mbox' = mbox,
         isr # "release", isr' # "release"
  PROVE  QueueStep
  BY SameRing, SameQueue DEF macVars

(* The handler's steps before it has pbufs for a frame.                    *)
LEMMA LookStep ==
  ASSUME IInv, IrqEnter \/ IrqRead \/ IrqClear \/ IrqNothing \/ IrqAlloc
  PROVE  QueueStep
  <1>1. CASE IrqEnter
    BY <1>1, QuietStep DEF IrqEnter
  <1>2. CASE IrqRead
    BY <1>2, QuietStep DEF IrqRead
  <1>3. CASE IrqClear
    BY <1>3, QuietStep DEF IrqClear
  <1>4. CASE IrqAlloc
    BY <1>4, QuietStep DEF IrqAlloc
  <1>5. CASE IrqNothing
    <2>1. /\ isr = "rx" /\ UNCHANGED <<macVars, RxConsumeIndex, mbox, msg>>
          /\ isr' = "loop" \/ (isr' = "release" /\ RxConsumeIndex # RxProduceIndex)
      BY <1>5 DEF IrqNothing, EMAC_CheckReceiveIndex
    <2>2. CASE isr' = "loop"
      BY <2>1, <2>2, QuietStep
    <2>3. CASE isr' = "release" /\ RxConsumeIndex # RxProduceIndex
      BY <2>1, <2>3, DropStep DEF macVars
    <2> QED
      BY <2>1, <2>2, <2>3
  <1> QED
    BY <1>1, <1>2, <1>3, <1>4, <1>5

(* No pbufs for a frame: it is dropped, and what is posted is no packet.   *)
LEMMA NoPbufStep ==
  ASSUME IInv, IrqNoPbuf
  PROVE  QueueStep
  <1>1. /\ isr = "rx" /\ isr' = "release" /\ RxConsumeIndex # RxProduceIndex
        /\ UNCHANGED <<macVars, RxConsumeIndex, msg>>
        /\ mbox' = Append(mbox, Ooseq) \/ mbox' = mbox
    BY DEF IrqNoPbuf, EMAC_CheckReceiveIndex
  <1>2. FramesIn(Append(mbox, Ooseq)) = FramesIn(mbox)
    BY NoFrame, MessageFacts
  <1>3. FramesIn(mbox') = FramesIn(mbox)
    BY <1>1, <1>2
  <1> QED
    BY <1>1, <1>3, DropStep DEF macVars

(* A frame is for the stack, or it is dropped.                             *)
LEMMA CopyStep ==
  ASSUME IInv, IrqCopy
  PROVE  QueueStep
  <1>1. /\ isr = "copy" /\ UNCHANGED <<macVars, RxConsumeIndex, msg, mbox>>
        /\ isr' = "input" \/ isr' = "release"
    BY DEF IrqCopy
  <1>2. RxConsumeIndex # RxProduceIndex
    BY <1>1 DEF IInv, InIsr
  <1>3. CASE isr' = "input"
    BY <1>1, <1>3, QuietStep
  <1>4. CASE isr' = "release"
    BY <1>1, <1>2, <1>4, DropStep DEF macVars
  <1> QED
    BY <1>1, <1>3, <1>4

(* tcpip_input posts the frame, or drops it.                               *)
LEMMA InputStep ==
  ASSUME IInv, IrqInput
  PROVE  QueueStep
  <1>1. /\ isr = "input" /\ isr' = "release" /\ UNCHANGED <<macVars, RxConsumeIndex, msg>>
        /\ mbox' = Append(mbox, Packet(p[1])) \/ mbox' = mbox
    BY DEF IrqInput
  <1>2. RxConsumeIndex # RxProduceIndex
    BY <1>1 DEF IInv, InIsr
  <1>3. CASE mbox' = Append(mbox, Packet(p[1]))
    BY <1>1, <1>3, HandStep DEF macVars
  <1>4. CASE mbox' = mbox
    BY <1>1, <1>2, <1>4, DropStep DEF macVars
  <1> QED
    BY <1>1, <1>3, <1>4

(* The thread is done with a message, or runs one that is no packet.       *)
LEMMA ThreadStep ==
  ASSUME IInv, FreeInpkt \/ OoseqReset \/ RunCallback \/ RunApi
  PROVE  QueueStep
  <1>1. /\ mbox' = mbox /\ UNCHANGED <<macVars, isrVars>> /\ msg # <<>>
        /\ msg[1].kind # "INPKT"
        /\ msg' = <<>> \/ msg' = <<Callback>>
    BY DEF FreeInpkt, OoseqReset, RunCallback, RunApi, Ooseq, Callback, Api
  <1>2. msg = <<msg[1]>> /\ msg[1] \in Message
    BY <1>1, MsgIsOne
  <1>3. FramesIn(msg) = <<>>
    <2>1. FramesIn(<<msg[1]>>) = FrameOf(msg[1])
      BY <1>2, FramesOne
    <2>2. FrameOf(msg[1]) = <<>>
      BY <1>1 DEF FrameOf
    <2> QED
      BY <1>2, <2>1, <2>2
  <1>4. FramesIn(msg') = <<>>
    <2>1. FramesIn(<<Callback>>) = FrameOf(Callback)
      BY FramesOne, MessageFacts
    <2>2. FrameOf(Callback) = <<>>
      BY MessageFacts DEF FrameOf
    <2> QED
      BY <1>1, <2>1, <2>2, FramesEmpty
  <1> QED
    BY <1>1, <1>3, <1>4, TaskRing, SameQueue

(* What the other tasks post is no packet.                                 *)
LEMMA OtherStep ==
  ASSUME IInv, StackFree \/ PostCallback \/ PostApi
  PROVE  QueueStep
  <1>1. /\ msg' = msg /\ UNCHANGED <<macVars, isrVars>>
        /\ mbox' = mbox \/ mbox' = Append(mbox, Callback) \/ mbox' = Append(mbox, Api)
    BY DEF StackFree, PostCallback, PostApi
  <1>2. FramesIn(Append(mbox, Callback)) = FramesIn(mbox)
    BY NoFrame, MessageFacts
  <1>3. FramesIn(Append(mbox, Api)) = FramesIn(mbox)
    BY NoFrame, MessageFacts
  <1> QED
    BY <1>1, <1>2, <1>3, TaskRing, SameQueue

(* Every step is one of the abstract queue, or leaves it alone.            *)
LEMMA NextQueue ==
  ASSUME IInv, [Next]_vars
  PROVE  QueueStep
  <1>1. CASE UNCHANGED vars
    BY <1>1, SameRing, SameQueue DEF vars
  <1>2. CASE \E f \in Frames : RxFrame(f)
    BY <1>2, ArriveStep
  <1>3. CASE TxDone
    BY <1>3, TaskRing, SameQueue DEF TxDone
  <1>4. CASE Irq
    BY <1>4, LookStep, NoPbufStep, CopyStep, InputStep, ReleaseStep DEF Irq
  <1>5. CASE Thread
    BY <1>5, FetchStep, StackStep, ThreadStep DEF Thread
  <1>6. CASE StackFree \/ PostCallback \/ PostApi
    BY <1>6, OtherStep
  <1> QED
    BY <1>1, <1>2, <1>3, <1>4, <1>5, <1>6 DEF Next, Mac

(* At the start no frame is on its way.                                    *)
LEMMA InitQueue == Init => InOrder!Init
  <1> SUFFICES ASSUME Init
               PROVE  Queue = <<>>
    BY DEF InOrder!Init, Queue
  <1>1. msg = <<>> /\ mbox = <<>> /\ Undealt = 0 /\ RxProduceIndex = 0
    BY DEF Init, Undealt
  <1>2. InRing = <<>>
    <2>1. 1 .. Ahead(0, 0) = {}
      BY DEF Ahead
    <2>2. InRing = [k \in {} |-> Rx[After(Undealt, k - 1)]]
      BY <1>1, <2>1 DEF InRing
    <2> QED
      BY <2>2
  <1>3. <<>> \o <<>> = <<>>
    BY EmptySeq, ConcatEmptySeq
  <1> QED
    BY <1>1, <1>2, <1>3, FramesEmpty DEF Queue

(* The receive path implements LossyQueue: for a ring, pools and a mailbox *)
(* of any size, whatever the MAC, the handler, the tcpip thread and the    *)
(* other tasks do in which order, a frame that reaches the stack has       *)
(* arrived, reaches it whole and once, and in the order of arrival.        *)
THEOREM RefinementTheorem == Spec => ImplementsLossyQueue
  <1>1. Init => InOrder!Init
    BY InitQueue
  <1>2. IInv /\ [Next]_vars => [InOrder!Next]_Queue
    BY NextQueue DEF QueueStep
  <1>3. [InOrder!Next]_Queue <=> [InOrder!Next]_(FramesIn(msg) \o FramesIn(mbox) \o InRing)
    BY DEF Queue
  <1> QED
    BY <1>1, <1>2, <1>3, Invariant, PTL DEF Spec, ImplementsLossyQueue, InOrder!Spec
=============================================================================
