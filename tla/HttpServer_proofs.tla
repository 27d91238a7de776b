------------------------- MODULE HttpServer_proofs --------------------------
(***************************************************************************)
(* Proofs about HttpServer, for every number of netconns and connections,  *)
(* every size of the mailboxes that AcceptAssumption allows, every window  *)
(* and any number of failed allocations.                                   *)
(*                                                                         *)
(* The handlers of the tcpip thread are functions from one world to the    *)
(* next and are composed of each other, so the invariant is a predicate of *)
(* a server sv, a call cl, netconns N and connections P, and the lemmas    *)
(* are about arbitrary ones.                                               *)
(***************************************************************************)
EXTENDS HttpServer, SequenceTheorems, FiniteSetTheorems,
        WellFoundedInduction, TLAPS

(* Where a call returns to.                                                *)
Places == ServerPc \ {"wait", "recv", "fetch"}
Serving == {"recv", "fetch", "eof", "parse", "strcpy", "strcat", "write_hdr",
            "write_page", "write_404", "close", "delete", "free"}

(* What is posted to a mailbox, queued to be sent or passed with a call.   *)
Words == {"none", "data", "null", "syn", "fin", "rom", "404", "close"}

Conn == [used : BOOLEAN, state : {"NONE", "WRITE", "LISTEN", "CLOSE"},
         pcb : Pcb \cup {NULL, ListenPcb}, fatal : BOOLEAN,
         recvmbox : Seq(Words), recvOk : BOOLEAN,
         acceptmbox : Seq(Netconn \cup {NULL}), acceptOk : BOOLEAN,
         current_msg : Words, op_completed : {0, 1}]
Connection == [state : Active \cup {"FREE", "CLOSED", "TIME_WAIT"},
               arg : Netconn \cup {NULL},
               cb : {"none", "all", "norecv"}, rxclosed : BOOLEAN,
               unread : Nat, refused : BOOLEAN, queue : Seq(Words)]
Call == [fn : {"none", "newconn", "bind", "listen", "recv", "write",
               "close", "delconn"},
         conn : Netconn \cup {NULL}, what : Words]
Worlds == [call : Call, nc : [Netconn -> Conn], pcb : [Pcb -> Connection],
           stale : BOOLEAN]
Servers == [pc : ServerPc, newconn : Netconn \cup {NULL},
            ret : Places \cup {"none"}]

(* The netconn the server works with, and where it is or will return to.   *)
Cur(sv) == IF sv.newconn = NULL THEN Listener ELSE sv.newconn
Place(sv) == IF sv.pc = "wait" THEN sv.ret ELSE sv.pc

(* A netconn that waits to be accepted.                                    *)
Waits(N, c) == \E i \in DOMAIN N[Listener].acceptmbox :
                 N[Listener].acceptmbox[i] = c

(* Connections that call back and netconns that have one name each other.  *)
Links(N, P) ==
  /\ \A p \in Pcb : P[p].cb # "none" =>
       /\ P[p].arg \in Netconn
       /\ N[P[p].arg].pcb = p
       /\ P[p].cb = "norecv" => N[P[p].arg].state = "CLOSE"
  /\ \A c \in Netconn : N[c].pcb \in Pcb =>
       /\ P[N[c].pcb].arg = c
       /\ P[N[c].pcb].cb # "none"
       /\ P[N[c].pcb].state \in
            IF c = Listener THEN {"CLOSED"} ELSE {"ESTABLISHED", "CLOSE_WAIT"}

(* Before it is established a connection has brought nothing.              *)
Young(P) ==
  \A p \in Pcb :
    /\ P[p].state \in {"CLOSED", "SYN_RCVD"} =>
         P[p].unread = 0 /\ P[p].refused = FALSE
    /\ P[p].state = "CLOSED" => P[p].cb # "none"

(* A connection is being opened only while there is a listening netconn.   *)
Opening(N, P) ==
  \A p \in Pcb : P[p].state = "SYN_RCVD" => N[Listener].acceptOk = TRUE

(* What a free netconn is, and what only the listening one has.            *)
Conns(N) ==
  /\ \A c \in Netconn :
       /\ N[c].used = FALSE => N[c] = NoConn
       /\ Len(N[c].recvmbox) <= DEFAULT_TCP_RECVMBOX_SIZE
       /\ Len(N[c].acceptmbox) <= DEFAULT_ACCEPTMBOX_SIZE
  /\ \A c \in Netconn \ {Listener} :
       /\ N[c].pcb # ListenPcb /\ N[c].state # "LISTEN"
       /\ N[c].acceptOk = FALSE /\ N[c].acceptmbox = <<>>

Listens(N) ==
  /\ N[Listener].fatal = FALSE
  /\ N[Listener].acceptOk = TRUE <=> N[Listener].state = "LISTEN"
  /\ N[Listener].acceptOk = TRUE <=> N[Listener].pcb = ListenPcb
  /\ N[Listener].acceptOk = FALSE => N[Listener].acceptmbox = <<>>

(* Every netconn in use is the listening one, the one that is served or,   *)
(* once, one that waits.                                                   *)
Members(sv, N) ==
  /\ \A i, j \in DOMAIN N[Listener].acceptmbox :
       N[Listener].acceptmbox[i] = N[Listener].acceptmbox[j] => i = j
  /\ \A i \in DOMAIN N[Listener].acceptmbox :
       N[Listener].acceptmbox[i] \in Netconn \ {Listener, sv.newconn}
  /\ \A c \in Netconn \ {Listener} :
       N[c].used = TRUE <=> c = sv.newconn \/ Waits(N, c)
  /\ sv.newconn # Listener

(* A call is posted, worked on or answered, one of the three.              *)
Calls(sv, cl, N) ==
  /\ \A d \in Netconn :
       /\ N[d].op_completed = 1 =>
            /\ sv.pc = "wait" /\ d = Cur(sv) /\ cl.fn = "none"
            /\ ~Working(N[d].state)
       /\ Working(N[d].state) <=> N[d].current_msg # "none"
       /\ Working(N[d].state) =>
            /\ sv.pc = "wait" /\ d = Cur(sv) /\ cl.fn = "none"
            /\ N[d].pcb \in Pcb
            /\ d = Listener => N[d].state = "CLOSE"
       /\ N[d].state = "WRITE" => sv.ret \in {"write_page", "close"}
       /\ N[d].state = "CLOSE" =>
            sv.ret \in {"delete", "delete_listener", "free", "free_listener"}
  /\ cl.fn # "none" => sv.pc = "wait" /\ cl.conn = Cur(sv)
  /\ sv.pc = "wait" /\ cl.fn = "none" =>
       N[Cur(sv)].op_completed = 1 \/ Working(N[Cur(sv)].state)

(* Where the server is tells what it waits for and what there is.          *)
Flow(sv, cl, N) ==
  /\ sv.pc = "wait" <=> sv.ret # "none"
  /\ sv.newconn # NULL <=> Place(sv) \in Serving
  /\ cl.fn = "newconn" => sv.ret = "bind" /\ N[Listener].pcb = NULL
  /\ cl.fn = "bind" => sv.ret = "listen"
  /\ cl.fn = "listen" => sv.ret = "accept" /\ N[Listener].pcb \in Pcb
  /\ cl.fn = "recv" => sv.ret \in {"parse", "eof"}
  /\ cl.fn = "write" => sv.ret \in {"write_page", "close"} /\ cl.what # "none"
  /\ cl.fn = "close" => sv.ret \in {"delete", "delete_listener"}
  /\ cl.fn = "delconn" => sv.ret \in {"free", "free_listener"}
  /\ N[Listener].acceptOk = TRUE =>
       Place(sv) = "accept" \/ Place(sv) \in Serving
  /\ Place(sv) \in Serving => N[Listener].acceptOk = TRUE
  /\ N[Listener].used = TRUE <=> Place(sv) \notin {"new", "halt"}
  /\ Place(sv) = "listen" => N[Listener].pcb \in Pcb
  /\ Place(sv) \in {"free", "free_listener"} /\ cl.fn = "none"
       /\ ~Working(N[Cur(sv)].state) => N[Cur(sv)].pcb = NULL

(* A netconn from which nothing has been received yet holds something, or  *)
(* has an open connection, but for those of X, whose FIN is being handled. *)
Fresh(sv, N, c) ==
  Waits(N, c) \/ (c = sv.newconn /\ sv.pc \in {"recv", "fetch"})
Fed(sv, N, P, X) ==
  \A c \in Netconn : Fresh(sv, N, c) =>
    /\ N[c].recvOk = TRUE
    /\ \/ N[c].recvmbox # <<>>
       \/ N[c].pcb \in Pcb /\ P[N[c].pcb].state = "ESTABLISHED"
       \/ N[c].pcb \in X

(* The window holds, but for the sequence number of a FIN on those of Y.   *)
Window(P, Y) ==
  \A p \in Pcb : P[p].unread <= TCP_WND + IF p \in Y THEN 1 ELSE 0

Typed(sv, cl, N, P) == /\ sv \in Servers /\ cl \in Call
                       /\ N \in [Netconn -> Conn] /\ P \in [Pcb -> Connection]

OK(sv, cl, N, P, X, Y) ==
  /\ Typed(sv, cl, N, P)
  /\ Links(N, P) /\ Young(P) /\ Opening(N, P) /\ Conns(N) /\ Listens(N)
  /\ Members(sv, N) /\ Calls(sv, cl, N) /\ Flow(sv, cl, N)
  /\ Fed(sv, N, P, X) /\ Window(P, Y)

(* The same of a world in which no callback has reached a freed netconn.   *)
WorldOK(sv, w, X, Y) ==
  w \in Worlds /\ w.stale = FALSE /\ OK(sv, w.call, w.nc, w.pcb, X, Y)

(* The inductive invariant. *)
IInv == /\ OK(srv, call, nc, pcb, {}, {}) /\ stale = FALSE
        /\ fbuf \in {"empty", "torn", "whole"} /\ fails \in 0..MaxFail

(* The listening netconn goes on listening.                                *)
Stays(N, M) == N[Listener].acceptOk = TRUE => M[Listener].acceptOk = TRUE

-----------------------------------------------------------------------------
(* Changes. *)

(* Numbers of netconns and connections.                                    *)
LEMMA Numbers ==
  /\ Listener \in Netconn /\ NULL \notin Netconn
  /\ NULL \notin Pcb /\ ListenPcb \notin Pcb /\ ListenPcb # NULL
  /\ Netconn \subseteq Nat /\ Pcb \subseteq Nat
BY AcceptAssumption DEF Listener, Netconn, NULL, Pcb, ListenPcb

(* The empty call is a call.                                               *)
LEMMA NoCallType == NoCall \in Call /\ NoCall.fn = "none"
BY DEF NoCall, Call, Words

(* A function with one value replaced.                                     *)
Put(f, x, y) == [f EXCEPT ![x] = y]

(* A connection changes and keeps its callbacks; without any it may become *)
(* another one.                                                            *)
PcbMay(N, P, p, b, X, Y, X1, Y1) ==
  /\ b.cb = "none" <=> P[p].cb = "none"
  /\ b.cb = "norecv" => P[p].cb = "norecv" \/ N[P[p].arg].state = "CLOSE"
  /\ b.cb # "none" => /\ b.arg = P[p].arg
                      /\ IF P[p].state = "CLOSED" THEN b.state = "CLOSED"
                         ELSE b.state \in {"ESTABLISHED", "CLOSE_WAIT"}
  /\ b.state \in {"CLOSED", "SYN_RCVD"} => b.unread = 0 /\ b.refused = FALSE
  /\ b.state = "CLOSED" => b.cb # "none"
  /\ b.state = "SYN_RCVD" =>
       P[p].state = "SYN_RCVD" \/ N[Listener].acceptOk = TRUE
  /\ \A r \in X : r \in X1 \/ (r = p /\ b.cb = "none")
  /\ Y \subseteq Y1 \cup {p}
  /\ \/ b.state = "ESTABLISHED" \/ P[p].state # "ESTABLISHED"
     \/ p \in X1 \/ b.cb = "none"
  /\ b.unread <= TCP_WND + IF p \in Y1 THEN 1 ELSE 0

(* A connection that changes in this way keeps the invariant.              *)
LEMMA PcbChanges ==
  ASSUME NEW sv, NEW cl, NEW N, NEW P, NEW X, NEW Y, NEW X1, NEW Y1,
         OK(sv, cl, N, P, X, Y),
         NEW p \in Pcb, NEW b \in Connection,
         PcbMay(N, P, p, b, X, Y, X1, Y1)
  PROVE  OK(sv, cl, N, Put(P, p, b), X1, Y1)
<1> DEFINE Q == Put(P, p, b)
<1>a. Q = [P EXCEPT ![p] = b]
  BY DEF Put
<1> HIDE DEF Q
<1> USE DEF PcbMay
<1>0. /\ N \in [Netconn -> Conn] /\ P \in [Pcb -> Connection]
      /\ Links(N, P) /\ Young(P) /\ Opening(N, P) /\ Fed(sv, N, P, X)
      /\ Window(P, Y)
  BY DEF OK, Typed
<1>1. Q \in [Pcb -> Connection] /\ Q[p] = b /\ \A r \in Pcb : r # p => Q[r] = P[r]
  BY <1>0, <1>a
<1>2. Links(N, Q)
  BY <1>0, <1>1 DEF Links
<1>3. Young(Q)
  BY <1>0, <1>1 DEF Young
<1>4. Fed(sv, N, Q, X1)
  <2>1. b.cb = "none" => \A c \in Netconn : N[c].pcb # p
    BY <1>0 DEF Links
  <2> QED
    BY <1>0, <1>1, <2>1 DEF Fed
<1>5. Window(Q, Y1)
  <2> SUFFICES ASSUME NEW r \in Pcb
               PROVE  Q[r].unread <= TCP_WND + IF r \in Y1 THEN 1 ELSE 0
    BY DEF Window
  <2>1. CASE r = p
    BY <1>1, <2>1
  <2>2. CASE r # p
    <3>1. Q[r] = P[r] /\ (r \in Y => r \in Y1)
      BY <1>1, <2>2
    <3>2. P[r].unread \in Nat /\ P[r].unread <= TCP_WND + IF r \in Y THEN 1 ELSE 0
      BY <1>0 DEF Window, Connection
    <3> QED
      BY <3>1, <3>2, AcceptAssumption
  <2> QED
    BY <2>1, <2>2
<1>6. Opening(N, Q)
  BY <1>0, <1>1 DEF Opening
<1> QED
  BY <1>1, <1>2, <1>3, <1>4, <1>5, <1>6 DEF OK, Typed, Q

(* Who uses which netconn depends on the mailbox of the listening one.     *)
LEMMA MembersStay ==
  ASSUME NEW sv, NEW N, NEW M, Members(sv, N),
         M[Listener].acceptmbox = N[Listener].acceptmbox,
         \A d \in Netconn : M[d].used = N[d].used
  PROVE  Members(sv, M) /\ \A d : Waits(M, d) <=> Waits(N, d)
<1>1. \A d : Waits(M, d) <=> Waits(N, d)
  BY DEF Waits
<1>2. ASSUME NEW d \in Netconn \ {Listener}
      PROVE  M[d].used = TRUE <=> d = sv.newconn \/ Waits(M, d)
  BY <1>1 DEF Members
<1>3. /\ \A i, j \in DOMAIN M[Listener].acceptmbox :
           M[Listener].acceptmbox[i] = M[Listener].acceptmbox[j] => i = j
      /\ \A i \in DOMAIN M[Listener].acceptmbox :
           M[Listener].acceptmbox[i] \in Netconn \ {Listener, sv.newconn}
      /\ sv.newconn # Listener
  BY DEF Members
<1> QED
  BY <1>1, <1>2, <1>3 DEF Members

(* Something is put into the mailbox of a netconn.                         *)
ConnGrows(N, c, n, X, X1) ==
  /\ N[c].used = TRUE /\ n.used = TRUE /\ n.state = N[c].state
  /\ n.pcb = N[c].pcb /\ n.fatal = N[c].fatal /\ n.recvOk = N[c].recvOk
  /\ n.acceptmbox = N[c].acceptmbox /\ n.acceptOk = N[c].acceptOk
  /\ n.current_msg = N[c].current_msg /\ n.op_completed = N[c].op_completed
  /\ Len(n.recvmbox) <= DEFAULT_TCP_RECVMBOX_SIZE
  /\ n.recvmbox # <<>> \/ n.recvmbox = N[c].recvmbox
  /\ \/ X \subseteq X1
     \/ /\ X \subseteq X1 \cup {N[c].pcb}
        /\ N[c].pcb \in Pcb /\ n.recvmbox # <<>>

(* A message in the mailbox of a netconn keeps the invariant.              *)
LEMMA MboxGrows ==
  ASSUME NEW sv, NEW cl, NEW N, NEW P, NEW X, NEW Y, NEW X1,
         OK(sv, cl, N, P, X, Y),
         NEW c \in Netconn, NEW n \in Conn, ConnGrows(N, c, n, X, X1)
  PROVE  OK(sv, cl, Put(N, c, n), P, X1, Y) /\ Stays(N, Put(N, c, n))
<1> DEFINE M == Put(N, c, n)
<1>a. M = [N EXCEPT ![c] = n]
  BY DEF Put
<1> HIDE DEF M
<1> USE DEF ConnGrows
<1>0. /\ Typed(sv, cl, N, P)
      /\ Links(N, P) /\ Young(P) /\ Opening(N, P) /\ Conns(N) /\ Listens(N)
      /\ Members(sv, N)
      /\ Calls(sv, cl, N) /\ Flow(sv, cl, N)
      /\ Fed(sv, N, P, X) /\ Window(P, Y)
  BY DEF OK
<1>1. /\ M \in [Netconn -> Conn] /\ M[c] = n
      /\ \A d \in Netconn : d # c => M[d] = N[d]
  BY <1>0, <1>a DEF Typed
<1>2. \A d \in Netconn :
        /\ M[d].used = N[d].used /\ M[d].state = N[d].state
        /\ M[d].pcb = N[d].pcb /\ M[d].fatal = N[d].fatal
        /\ M[d].recvOk = N[d].recvOk /\ M[d].acceptmbox = N[d].acceptmbox
        /\ M[d].acceptOk = N[d].acceptOk
        /\ M[d].current_msg = N[d].current_msg
        /\ M[d].op_completed = N[d].op_completed
  BY <1>1
<1>3. Listener \in Netconn /\ \A d : Waits(M, d) <=> Waits(N, d)
  BY <1>2, Numbers DEF Waits
<1>4. Links(M, P)
  BY <1>0, <1>2 DEF Links
<1>5. Conns(M)
  <2>1. \A d \in Netconn :
          /\ M[d].used = FALSE => M[d] = NoConn
          /\ Len(M[d].recvmbox) <= DEFAULT_TCP_RECVMBOX_SIZE
    BY <1>0, <1>1 DEF Conns
  <2> QED
    BY <1>0, <1>2, <2>1 DEF Conns
<1>6. Listens(M)
  BY <1>0, <1>2, <1>3 DEF Listens
<1>7. Members(sv, M)
  BY <1>0, <1>2, <1>3, MembersStay
<1>8. Cur(sv) \in Netconn
  BY <1>0, Numbers DEF Typed, Servers, Cur
<1>9. Calls(sv, cl, M)
  BY <1>0, <1>2, <1>8 DEF Calls
<1>10. Flow(sv, cl, M)
  BY <1>0, <1>2, <1>3, <1>8 DEF Flow
<1>11. Fed(sv, M, P, X1)
  <2> SUFFICES ASSUME NEW d \in Netconn, Fresh(sv, M, d)
               PROVE  /\ M[d].recvOk = TRUE
                      /\ \/ M[d].recvmbox # <<>>
                         \/ M[d].pcb \in Pcb /\ P[M[d].pcb].state = "ESTABLISHED"
                         \/ M[d].pcb \in X1
    BY DEF Fed
  <2>1. Fresh(sv, N, d)
    BY <1>3 DEF Fresh
  <2>2. /\ N[d].recvOk = TRUE
        /\ \/ N[d].recvmbox # <<>>
           \/ N[d].pcb \in Pcb /\ P[N[d].pcb].state = "ESTABLISHED"
           \/ N[d].pcb \in X
    BY <1>0, <2>1 DEF Fed
  <2>3. CASE d = c
    BY <1>1, <1>2, <2>2, <2>3
  <2>4. CASE d # c
    <3>1. M[d] = N[d]
      BY <1>1, <2>4
    <3>2. CASE N[d].pcb \in X /\ N[d].pcb \notin X1
      <4>1. N[d].pcb = N[c].pcb /\ N[c].pcb \in Pcb
        BY <3>2
      <4>2. d = c
        BY <1>0, <4>1 DEF Links
      <4> QED
        BY <2>4, <4>2
    <3> QED
      BY <2>2, <3>1, <3>2
  <2> QED
    BY <2>3, <2>4
<1>20. Opening(M, P)
  BY <1>0, <1>2, <1>3 DEF Opening
<1> QED
  BY <1>20, <1>0, <1>1, <1>2, <1>3, <1>4, <1>5, <1>6, <1>7, <1>9, <1>10, <1>11
     DEF OK, Typed, Stays, M

(* A netconn and its connection part, and whoever waited for the call that *)
(* the netconn worked on is released.                                      *)
ConnSevers(sv, N, c, n, p, b, X, Y, X1, Y1) ==
  /\ N[c].pcb = p /\ (c = Listener => N[c].state = "CLOSE")
  /\ b.cb = "none" /\ b.state \notin {"CLOSED", "SYN_RCVD"}
  /\ N[c].used = TRUE /\ n.used = TRUE /\ n.state = "NONE" /\ n.pcb = NULL
  /\ c = Listener => n.fatal = FALSE
  /\ n.acceptmbox = N[c].acceptmbox /\ n.acceptOk = N[c].acceptOk
  /\ n.current_msg = "none"
  /\ n.op_completed = IF Working(N[c].state) THEN 1 ELSE N[c].op_completed
  /\ Len(n.recvmbox) <= DEFAULT_TCP_RECVMBOX_SIZE
  /\ Fresh(sv, N, c) => n.recvOk = TRUE /\ n.recvmbox # <<>>
  /\ X \subseteq X1 \cup {p} /\ Y \subseteq Y1 \cup {p}
  /\ b.unread <= TCP_WND + IF p \in Y1 THEN 1 ELSE 0

(* A netconn that loses its connection keeps the invariant.                *)
LEMMA Severs ==
  ASSUME NEW sv, NEW cl, NEW N, NEW P, NEW X, NEW Y, NEW X1, NEW Y1,
         OK(sv, cl, N, P, X, Y),
         NEW c \in Netconn, NEW n \in Conn, NEW p \in Pcb, NEW b \in Connection,
         ConnSevers(sv, N, c, n, p, b, X, Y, X1, Y1)
  PROVE  OK(sv, cl, Put(N, c, n), Put(P, p, b), X1, Y1) /\ Stays(N, Put(N, c, n))
<1> DEFINE M == Put(N, c, n)
           Q == Put(P, p, b)
<1>a. M = [N EXCEPT ![c] = n] /\ Q = [P EXCEPT ![p] = b]
  BY DEF Put
<1> HIDE DEF M, Q
<1> USE DEF ConnSevers
<1>0. /\ Typed(sv, cl, N, P)
      /\ Links(N, P) /\ Young(P) /\ Opening(N, P) /\ Conns(N) /\ Listens(N)
      /\ Members(sv, N)
      /\ Calls(sv, cl, N) /\ Flow(sv, cl, N)
      /\ Fed(sv, N, P, X) /\ Window(P, Y)
  BY DEF OK
<1>1. /\ M \in [Netconn -> Conn] /\ M[c] = n
      /\ \A d \in Netconn : d # c => M[d] = N[d]
      /\ Q \in [Pcb -> Connection] /\ Q[p] = b
      /\ \A r \in Pcb : r # p => Q[r] = P[r]
  BY <1>0, <1>a DEF Typed
<1>2. /\ Listener \in Netconn /\ Cur(sv) \in Netconn /\ NULL \notin Pcb
      /\ NULL # ListenPcb
  BY <1>0, Numbers DEF Typed, Servers, Cur
<1>3. /\ M[Listener].acceptmbox = N[Listener].acceptmbox
      /\ M[Listener].acceptOk = N[Listener].acceptOk
      /\ \A d \in Netconn : M[d].used = N[d].used
  BY <1>1, <1>2
<1>4. Members(sv, M) /\ \A d : Waits(M, d) <=> Waits(N, d)
  BY <1>0, <1>3, MembersStay
<1>5. P[p].arg = c /\ \A d \in Netconn : d # c => N[d].pcb # p
  BY <1>0 DEF Links
<1>6. Links(M, Q)
  BY <1>0, <1>1, <1>2, <1>5 DEF Links
<1>7. Young(Q)
  BY <1>0, <1>1 DEF Young
<1>8. Conns(M)
  BY <1>0, <1>1, <1>2 DEF Conns
<1>9. Listens(M)
  BY <1>0, <1>1, <1>2, <1>3 DEF Listens
<1>10. Calls(sv, cl, M)
  BY <1>0, <1>1, <1>2 DEF Calls, Working
<1>11. Flow(sv, cl, M)
  <2>1. c = Listener => cl.fn = "none" /\ Place(sv) # "listen"
    BY <1>0 DEF Calls, Working, Place
  <2>2. M[Cur(sv)].pcb = NULL \/ M[Cur(sv)] = N[Cur(sv)]
    BY <1>1, <1>2
  <2>3. M[Listener].pcb = N[Listener].pcb \/ c = Listener
    BY <1>1, <1>2
  <2> QED
    BY <1>0, <1>2, <1>3, <2>1, <2>2, <2>3 DEF Flow
<1>12. Fed(sv, M, Q, X1)
  <2> SUFFICES ASSUME NEW d \in Netconn, Fresh(sv, M, d)
               PROVE  /\ M[d].recvOk = TRUE
                      /\ \/ M[d].recvmbox # <<>>
                         \/ M[d].pcb \in Pcb /\ Q[M[d].pcb].state = "ESTABLISHED"
                         \/ M[d].pcb \in X1
    BY DEF Fed
  <2>1. Fresh(sv, N, d)
    BY <1>4 DEF Fresh
  <2>2. CASE d = c
    BY <1>1, <2>1, <2>2
  <2>3. CASE d # c
    BY <1>0, <1>1, <1>5, <2>1, <2>3 DEF Fed
  <2> QED
    BY <2>2, <2>3
<1>13. Window(Q, Y1)
  <2> SUFFICES ASSUME NEW r \in Pcb
               PROVE  Q[r].unread <= TCP_WND + IF r \in Y1 THEN 1 ELSE 0
    BY DEF Window
  <2>1. CASE r = p
    BY <1>1, <2>1
  <2>2. CASE r # p
    <3>1. Q[r] = P[r] /\ (r \in Y => r \in Y1)
      BY <1>1, <2>2
    <3>2. P[r].unread \in Nat /\ P[r].unread <= TCP_WND + IF r \in Y THEN 1 ELSE 0
      BY <1>0 DEF Window, Connection, Typed
    <3> QED
      BY <3>1, <3>2, AcceptAssumption
  <2> QED
    BY <2>1, <2>2
<1>20. Opening(M, Q)
  BY <1>0, <1>1, <1>2, <1>3 DEF Opening
<1> QED
  BY <1>20, <1>0, <1>1, <1>3, <1>4, <1>6, <1>7, <1>8, <1>9, <1>10, <1>11, <1>12, <1>13
     DEF OK, Typed, Stays, M, Q

(* A call is taken up: the netconn works on it.                            *)
ConnBegins(sv, cl, N, c, n) ==
  /\ cl.fn \in {"write", "close", "delconn"} /\ c = Cur(sv)
  /\ N[c].pcb \in Pcb
  /\ n.state = (IF cl.fn = "write" THEN "WRITE" ELSE "CLOSE")
  /\ n.used = N[c].used /\ n.pcb = N[c].pcb /\ n.fatal = N[c].fatal
  /\ n.acceptmbox = N[c].acceptmbox /\ n.acceptOk = N[c].acceptOk
  /\ n.current_msg # "none" /\ n.op_completed = N[c].op_completed
  /\ Len(n.recvmbox) <= DEFAULT_TCP_RECVMBOX_SIZE

(* A netconn that starts to work on the call keeps the invariant.          *)
LEMMA WorkBegins ==
  ASSUME NEW sv, NEW cl, NEW N, NEW P, OK(sv, cl, N, P, {}, {}),
         NEW c \in Netconn, NEW n \in Conn, ConnBegins(sv, cl, N, c, n)
  PROVE  OK(sv, NoCall, Put(N, c, n), P, {}, {}) /\ Stays(N, Put(N, c, n))
<1> DEFINE M == Put(N, c, n)
<1>a. M = [N EXCEPT ![c] = n]
  BY DEF Put
<1> HIDE DEF M
<1> USE DEF ConnBegins
<1>0. /\ Typed(sv, cl, N, P)
      /\ Links(N, P) /\ Young(P) /\ Opening(N, P) /\ Conns(N) /\ Listens(N)
      /\ Members(sv, N)
      /\ Calls(sv, cl, N) /\ Flow(sv, cl, N)
      /\ Fed(sv, N, P, {}) /\ Window(P, {})
  BY DEF OK
<1>1. /\ M \in [Netconn -> Conn] /\ M[c] = n
      /\ \A d \in Netconn : d # c => M[d] = N[d]
  BY <1>0, <1>a DEF Typed
<1>2. /\ Listener \in Netconn /\ NULL \notin Pcb /\ ListenPcb \notin Pcb
      /\ NULL # ListenPcb
      /\ NoCall \in Call /\ NoCall.fn = "none"
  BY Numbers, NoCallType
<1>3. /\ M[Listener].acceptmbox = N[Listener].acceptmbox
      /\ M[Listener].acceptOk = N[Listener].acceptOk
      /\ \A d \in Netconn : M[d].used = N[d].used
      /\ \A d \in Netconn : M[d].pcb = N[d].pcb
  BY <1>1, <1>2
<1>4. Members(sv, M) /\ \A d : Waits(M, d) <=> Waits(N, d)
  BY <1>0, <1>3, MembersStay
<1>5. sv.pc = "wait" /\ N[c].op_completed = 0 /\ ~Working(N[c].state)
  BY <1>0 DEF Calls, Typed, Conn
<1>6. Links(M, P)
  BY <1>0, <1>1, <1>5 DEF Links, Working
<1>7. N[c].used = TRUE
  <2>1. N[c] # NoConn
    BY <1>2 DEF NoConn
  <2> QED
    BY <1>0, <2>1 DEF Conns, Typed, Conn
<1>8. Conns(M)
  BY <1>0, <1>1, <1>7 DEF Conns
<1>9. Listens(M)
  BY <1>0, <1>1, <1>2, <1>3 DEF Listens
<1>10. c = Listener => cl.fn # "write"
  BY <1>0, Numbers DEF Flow, Cur, Place, Calls, Members, Serving
<1>11. Calls(sv, NoCall, M)
  <2>1. /\ n.state = "CLOSE" =>
             sv.ret \in {"delete", "delete_listener", "free", "free_listener"}
        /\ (n.state = "WRITE" => sv.ret \in {"write_page", "close"})
    BY <1>0 DEF Flow
  <2> QED
    BY <1>0, <1>1, <1>2, <1>5, <1>10, <2>1 DEF Calls, Working
<1>12. Flow(sv, NoCall, M)
  BY <1>0, <1>1, <1>2, <1>3 DEF Flow, Working
<1>13. ~Fresh(sv, N, c)
  BY <1>0, <1>2, <1>5 DEF Fresh, Members, Waits, Cur, Listens, Conns
<1>14. Fed(sv, M, P, {})
  BY <1>0, <1>1, <1>4, <1>13 DEF Fed, Fresh
<1>20. Opening(M, P)
  BY <1>0, <1>3 DEF Opening
<1> QED
  BY <1>20, <1>0, <1>1, <1>2, <1>3, <1>4, <1>6, <1>8, <1>9, <1>11, <1>12, <1>14
     DEF OK, Typed, Stays, M

(* A call is answered at once, and the netconn keeps its connection.       *)
ConnAnswers(sv, cl, N, c, n) ==
  /\ cl.fn # "none" /\ c = Cur(sv) /\ (cl.fn = "delconn" => N[c].pcb = NULL)
  /\ n.state = N[c].state
  /\ n.used = N[c].used /\ n.pcb = N[c].pcb /\ n.fatal = N[c].fatal
  /\ n.acceptmbox = N[c].acceptmbox /\ n.acceptOk = N[c].acceptOk
  /\ n.current_msg = N[c].current_msg /\ n.op_completed = 1
  /\ Len(n.recvmbox) <= DEFAULT_TCP_RECVMBOX_SIZE

(* A call that is answered keeps the invariant.                            *)
LEMMA Answers ==
  ASSUME NEW sv, NEW cl, NEW N, NEW P, OK(sv, cl, N, P, {}, {}),
         NEW c \in Netconn, NEW n \in Conn, ConnAnswers(sv, cl, N, c, n)
  PROVE  OK(sv, NoCall, Put(N, c, n), P, {}, {}) /\ Stays(N, Put(N, c, n))
<1> DEFINE M == Put(N, c, n)
<1>a. M = [N EXCEPT ![c] = n]
  BY DEF Put
<1> HIDE DEF M
<1> USE DEF ConnAnswers
<1>0. /\ Typed(sv, cl, N, P)
      /\ Links(N, P) /\ Young(P) /\ Opening(N, P) /\ Conns(N) /\ Listens(N)
      /\ Members(sv, N)
      /\ Calls(sv, cl, N) /\ Flow(sv, cl, N)
      /\ Fed(sv, N, P, {}) /\ Window(P, {})
  BY DEF OK
<1>1. /\ M \in [Netconn -> Conn] /\ M[c] = n
      /\ \A d \in Netconn : d # c => M[d] = N[d]
  BY <1>0, <1>a DEF Typed
<1>2. /\ Listener \in Netconn /\ NULL \notin Pcb /\ ListenPcb \notin Pcb
      /\ NULL # ListenPcb
      /\ NoCall \in Call /\ NoCall.fn = "none"
  BY Numbers, NoCallType
<1>3. \A d \in Netconn :
        /\ M[d].acceptmbox = N[d].acceptmbox /\ M[d].acceptOk = N[d].acceptOk
        /\ M[d].used = N[d].used /\ M[d].pcb = N[d].pcb
        /\ M[d].state = N[d].state /\ M[d].fatal = N[d].fatal
        /\ M[d].current_msg = N[d].current_msg
  BY <1>1
<1>4. Members(sv, M) /\ \A d : Waits(M, d) <=> Waits(N, d)
  BY <1>0, <1>2, <1>3, MembersStay
<1>5. sv.pc = "wait" /\ N[c].op_completed = 0 /\ ~Working(N[c].state)
  BY <1>0 DEF Calls, Typed, Conn
<1>6. Links(M, P)
  BY <1>0, <1>3 DEF Links
<1>7. N[c].used = TRUE
  <2>1. CASE c = Listener
    <3>1. sv.ret \notin {"new", "halt"}
      BY <1>0 DEF Flow, Typed, Call
    <3> QED
      BY <1>0, <1>5, <2>1, <3>1 DEF Flow, Place
  <2>2. CASE c # Listener
    BY <1>0, <2>2 DEF Members, Cur
  <2> QED
    BY <2>1, <2>2
<1>8. Conns(M)
  BY <1>0, <1>1, <1>3, <1>7 DEF Conns
<1>9. Listens(M)
  BY <1>0, <1>2, <1>3 DEF Listens
<1>10. Calls(sv, NoCall, M)
  BY <1>0, <1>1, <1>2, <1>5 DEF Calls, Working
<1>11. Flow(sv, NoCall, M)
  <2>1. Place(sv) \in {"free", "free_listener"} => N[c].pcb = NULL
    BY <1>0, <1>5 DEF Flow, Place, Typed, Call
  <2> QED
    BY <1>0, <1>2, <1>3, <2>1 DEF Flow
<1>12. ~Fresh(sv, N, c)
  BY <1>0, <1>2, <1>5 DEF Fresh, Members, Waits, Cur
<1>13. Fed(sv, M, P, {})
  BY <1>0, <1>1, <1>4, <1>12 DEF Fed, Fresh
<1>20. Opening(M, P)
  BY <1>0, <1>2, <1>3 DEF Opening
<1> QED
  BY <1>20, <1>0, <1>1, <1>2, <1>3, <1>4, <1>6, <1>8, <1>9, <1>10, <1>11, <1>13
     DEF OK, Typed, Stays, M

(* A write is finished, and its caller released.                           *)
ConnFinishes(N, c, n) ==
  /\ N[c].state = "WRITE"
  /\ n.state = "NONE" /\ n.current_msg = "none" /\ n.op_completed = 1
  /\ n.used = N[c].used /\ n.pcb = N[c].pcb /\ n.fatal = N[c].fatal
  /\ n.recvmbox = N[c].recvmbox /\ n.recvOk = N[c].recvOk
  /\ n.acceptmbox = N[c].acceptmbox /\ n.acceptOk = N[c].acceptOk

(* A call whose work is done keeps the invariant.                          *)
LEMMA Finishes ==
  ASSUME NEW sv, NEW cl, NEW N, NEW P, NEW X, NEW Y, OK(sv, cl, N, P, X, Y),
         NEW c \in Netconn, NEW n \in Conn, ConnFinishes(N, c, n)
  PROVE  OK(sv, cl, Put(N, c, n), P, X, Y) /\ Stays(N, Put(N, c, n))
<1> DEFINE M == Put(N, c, n)
<1>a. M = [N EXCEPT ![c] = n]
  BY DEF Put
<1> HIDE DEF M
<1> USE DEF ConnFinishes
<1>0. /\ Typed(sv, cl, N, P)
      /\ Links(N, P) /\ Young(P) /\ Opening(N, P) /\ Conns(N) /\ Listens(N)
      /\ Members(sv, N)
      /\ Calls(sv, cl, N) /\ Flow(sv, cl, N)
      /\ Fed(sv, N, P, X) /\ Window(P, Y)
  BY DEF OK
<1>1. /\ M \in [Netconn -> Conn] /\ M[c] = n
      /\ \A d \in Netconn : d # c => M[d] = N[d]
  BY <1>0, <1>a DEF Typed
<1>2. Listener \in Netconn /\ Cur(sv) \in Netconn
  BY <1>0, Numbers DEF Typed, Servers, Cur
<1>3. \A d \in Netconn :
        /\ M[d].acceptmbox = N[d].acceptmbox /\ M[d].acceptOk = N[d].acceptOk
        /\ M[d].used = N[d].used /\ M[d].pcb = N[d].pcb
        /\ M[d].fatal = N[d].fatal /\ M[d].recvOk = N[d].recvOk
        /\ M[d].recvmbox = N[d].recvmbox
  BY <1>1
<1>4. Members(sv, M) /\ \A d : Waits(M, d) <=> Waits(N, d)
  BY <1>0, <1>2, <1>3, MembersStay
<1>5. /\ sv.pc = "wait" /\ c = Cur(sv) /\ cl.fn = "none" /\ c # Listener
      /\ sv.ret \in {"write_page", "close"}
  BY <1>0 DEF Calls, Working
<1>6. Links(M, P)
  BY <1>0, <1>1, <1>3 DEF Links
<1>7. N[c].used = TRUE
  <2>1. N[c] # NoConn
    BY DEF NoConn
  <2> QED
    BY <1>0, <2>1 DEF Conns, Typed, Conn
<1>8. Conns(M)
  BY <1>0, <1>1, <1>3, <1>7 DEF Conns
<1>9. Listens(M)
  BY <1>0, <1>1, <1>2, <1>5 DEF Listens
<1>10. Calls(sv, cl, M)
  BY <1>0, <1>1, <1>2, <1>5 DEF Calls, Working
<1>11. Flow(sv, cl, M)
  BY <1>0, <1>2, <1>3, <1>5 DEF Flow, Place
<1>12. Fed(sv, M, P, X)
  BY <1>0, <1>3, <1>4 DEF Fed, Fresh
<1>20. Opening(M, P)
  BY <1>0, <1>2, <1>3 DEF Opening
<1> QED
  BY <1>20, <1>0, <1>1, <1>2, <1>3, <1>4, <1>6, <1>8, <1>9, <1>10, <1>11, <1>12
     DEF OK, Typed, Stays, M

(* The connection of a netconn from which nothing has been received calls  *)
(* back with data.                                                         *)
CallsBack(N, P, c) ==
  /\ N[c].recvOk = TRUE /\ ~Working(N[c].state) /\ c # Listener
  /\ N[c].pcb \in Pcb => P[N[c].pcb].cb = "all" /\ P[N[c].pcb].arg = c

(* A netconn from which nothing was received yet is open for data.         *)
LEMMA FreshOpen ==
  ASSUME NEW sv, NEW cl, NEW N, NEW P, NEW X, NEW Y,
         OK(sv, cl, N, P, X, Y),
         NEW c \in Netconn, Fresh(sv, N, c)
  PROVE  CallsBack(N, P, c)
<1>0. /\ Typed(sv, cl, N, P) /\ Links(N, P) /\ Members(sv, N)
      /\ Calls(sv, cl, N) /\ Fed(sv, N, P, X)
  BY DEF OK
<1>1. c # Cur(sv) \/ sv.pc # "wait"
  BY <1>0 DEF Fresh, Members, Waits, Cur
<1>2. ~Working(N[c].state)
  BY <1>0, <1>1 DEF Calls
<1>3. N[c].pcb \in Pcb => P[N[c].pcb].cb \in {"none", "all", "norecv"}
  BY <1>0 DEF Typed, Connection
<1>4. c # Listener
  BY <1>0 DEF Fresh, Members, Waits
<1> QED
  BY <1>0, <1>2, <1>3, <1>4 DEF Fed, Links, Working, CallsBack

(* Once no such netconn has the connection, it need not be excepted.       *)
LEMMA FedDrop ==
  ASSUME NEW sv, NEW cl, NEW N, NEW P, NEW X, NEW Y, NEW X1, NEW p \in Pcb,
         OK(sv, cl, N, P, X, Y),
         P[p].cb # "all" \/ N[P[p].arg].recvOk = FALSE,
         X \subseteq X1 \cup {p}
  PROVE  OK(sv, cl, N, P, X1, Y)
<1>1. Fed(sv, N, P, X)
  BY DEF OK
<1>2. ASSUME NEW c \in Netconn, Fresh(sv, N, c)
      PROVE  N[c].pcb # p
  <2>1. CallsBack(N, P, c)
    BY <1>2, FreshOpen
  <2> QED
    BY <2>1 DEF CallsBack
<1>3. Fed(sv, N, P, X1)
  BY <1>1, <1>2 DEF Fed
<1> QED
  BY <1>3 DEF OK

-----------------------------------------------------------------------------
(* The handlers of the tcpip thread. *)

(* The free connection is a connection.                                    *)
LEMMA NoPcbType == /\ NoPcb \in Connection
                   /\ NoPcb.cb = "none" /\ NoPcb.state = "FREE"
                   /\ NoPcb.unread = 0
<1>1. <<>> \in Seq(Words)
  OBVIOUS
<1> QED
  BY <1>1 DEF NoPcb, Connection

(* The free netconn is a netconn.                                          *)
LEMMA NoConnType == NoConn \in Conn
<1>1. <<>> \in Seq(Words) /\ <<>> \in Seq(Netconn \cup {NULL})
  OBVIOUS
<1> QED
  BY <1>1 DEF NoConn, Conn, Words

(* A world with one connection or one netconn replaced.                    *)
WithPcb(w, p, b) == [w EXCEPT !.pcb = Put(@, p, b)]
WithConn(w, c, n) == [w EXCEPT !.nc = Put(@, c, n)]

(* What replacing one of them leaves alone.                                *)
LEMMA WithFacts ==
  ASSUME NEW w \in Worlds
  PROVE  /\ w.nc \in [Netconn -> Conn] /\ w.pcb \in [Pcb -> Connection]
         /\ w.call \in Call
         /\ \A p \in Pcb, b \in Connection :
              /\ WithPcb(w, p, b) \in Worlds
              /\ WithPcb(w, p, b).pcb = Put(w.pcb, p, b)
              /\ WithPcb(w, p, b).nc = w.nc
              /\ WithPcb(w, p, b).call = w.call
              /\ WithPcb(w, p, b).stale = w.stale
              /\ Put(w.pcb, p, b)[p] = b
              /\ \A q \in Pcb : q # p => Put(w.pcb, p, b)[q] = w.pcb[q]
         /\ \A c \in Netconn, n \in Conn :
              /\ WithConn(w, c, n) \in Worlds
              /\ WithConn(w, c, n).nc = Put(w.nc, c, n)
              /\ WithConn(w, c, n).pcb = w.pcb
              /\ WithConn(w, c, n).call = w.call
              /\ WithConn(w, c, n).stale = w.stale
              /\ Put(w.nc, c, n)[c] = n
              /\ \A d \in Netconn : d # c => Put(w.nc, c, n)[d] = w.nc[d]
BY DEF Worlds, WithPcb, WithConn, Put

(* One netconn is replaced.                                                *)
LEMMA ConnWorld ==
  ASSUME NEW w \in Worlds, NEW c \in Netconn, NEW n \in Conn
  PROVE  /\ WithConn(w, c, n) \in Worlds
         /\ WithConn(w, c, n).nc = Put(w.nc, c, n)
         /\ WithConn(w, c, n).pcb = w.pcb
         /\ WithConn(w, c, n).call = w.call
         /\ WithConn(w, c, n).stale = w.stale
BY WithFacts

(* The same of a world.                                                    *)
LEMMA PcbWorld ==
  ASSUME NEW sv, NEW w, NEW X, NEW Y, NEW X1, NEW Y1, WorldOK(sv, w, X, Y),
         NEW p \in Pcb, NEW b \in Connection,
         PcbMay(w.nc, w.pcb, p, b, X, Y, X1, Y1)
  PROVE  WorldOK(sv, WithPcb(w, p, b), X1, Y1)
BY WithFacts, PcbChanges DEF WorldOK

(* Telling TCP that data was taken opens the window again.                 *)
Took(b, k) == [b EXCEPT !.unread = IF @ > k THEN @ - k ELSE 0]

(* Taking data changes the window only.                                    *)
LEMMA TookFacts ==
  ASSUME NEW b \in Connection, NEW k \in Nat
  PROVE  /\ Took(b, k) \in Connection
         /\ Took(b, k).state = b.state /\ Took(b, k).cb = b.cb
         /\ Took(b, k).arg = b.arg /\ Took(b, k).refused = b.refused
         /\ Took(b, k).rxclosed = b.rxclosed
         /\ Took(b, k).unread <= b.unread
         /\ k > 0 => Took(b, k).unread + 1 <= b.unread \/ Took(b, k).unread = 0
BY DEF Took, Connection

(* tcp_recved replaces one connection.                                     *)
LEMMA RecvedIs ==
  ASSUME NEW w \in Worlds, NEW p \in Pcb, NEW k \in Nat
  PROVE  tcp_recved(w, p, k) = WithPcb(w, p, Took(w.pcb[p], k))
BY DEF tcp_recved, WithPcb, Took, Put, Worlds

(* tcp_recved keeps the invariant, and gives back the sequence number of a *)
(* FIN.                                                                    *)
LEMMA Recved ==
  ASSUME NEW sv, NEW w, NEW X, NEW Y, WorldOK(sv, w, X, Y),
         NEW p \in Pcb, NEW k \in Nat, NEW Y1, Y \subseteq Y1 \cup {p},
         k > 0 \/ Y \subseteq Y1
  PROVE  WorldOK(sv, WithPcb(w, p, Took(w.pcb[p], k)), X, Y1)
<1> DEFINE b == Took(w.pcb[p], k)
<1>1. /\ w \in Worlds /\ w.pcb \in [Pcb -> Connection]
      /\ w.pcb[p] \in Connection /\ w.pcb[p].unread \in Nat
      /\ Young(w.pcb) /\ Window(w.pcb, Y) /\ Links(w.nc, w.pcb)
      /\ w.nc \in [Netconn -> Conn]
  BY DEF WorldOK, Worlds, OK, Typed, Connection
<1>2. /\ b \in Connection /\ b.state = w.pcb[p].state /\ b.cb = w.pcb[p].cb
      /\ b.arg = w.pcb[p].arg /\ b.refused = w.pcb[p].refused
      /\ b.unread <= w.pcb[p].unread /\ b.unread \in Nat
      /\ k > 0 => b.unread + 1 <= w.pcb[p].unread \/ b.unread = 0
  BY <1>1, TookFacts DEF Connection
<1> HIDE DEF b
<1>3. b.unread <= TCP_WND + IF p \in Y1 THEN 1 ELSE 0
  <2>1. w.pcb[p].unread <= TCP_WND + IF p \in Y THEN 1 ELSE 0
    BY <1>1 DEF Window
  <2> QED
    BY <1>1, <1>2, <2>1, AcceptAssumption
<1>4. b.state \in {"CLOSED", "SYN_RCVD"} => b.unread = 0 /\ b.refused = FALSE
  BY <1>1, <1>2 DEF Young
<1>5. /\ b.cb # "none" =>
           IF w.pcb[p].state = "CLOSED" THEN b.state = "CLOSED"
           ELSE b.state \in {"ESTABLISHED", "CLOSE_WAIT"}
      /\ b.state = "CLOSED" => b.cb # "none"
  BY <1>1, <1>2 DEF Links, Young
<1>6. PcbMay(w.nc, w.pcb, p, b, X, Y, X, Y1)
  BY <1>2, <1>3, <1>4, <1>5 DEF PcbMay
<1> QED
  BY <1>2, <1>6, PcbWorld DEF b

(* The same where there was no FIN.                                        *)
LEMMA RecvedPlain ==
  ASSUME NEW sv, NEW w, WorldOK(sv, w, {}, {}), NEW p \in Pcb, NEW k \in Nat
  PROVE  WorldOK(sv, WithPcb(w, p, Took(w.pcb[p], k)), {}, {})
BY Recved

(* A connection that stays as it is but for its queue, its refused data or *)
(* what is unread.                                                         *)
PcbSame(a, b) ==
  /\ b.state = a.state /\ b.cb = a.cb /\ b.arg = a.arg
  /\ b.unread <= a.unread
  /\ b.refused = FALSE \/ a.state \notin {"CLOSED", "SYN_RCVD"}

(* Such a change keeps the invariant of a world.                           *)
LEMMA PcbQuiet ==
  ASSUME NEW sv, NEW w, NEW X, NEW Y, WorldOK(sv, w, X, Y),
         NEW p \in Pcb, NEW b \in Connection, PcbSame(w.pcb[p], b)
  PROVE  WorldOK(sv, WithPcb(w, p, b), X, Y)
<1>1. /\ w \in Worlds /\ w.pcb \in [Pcb -> Connection]
      /\ w.pcb[p] \in Connection /\ w.pcb[p].unread \in Nat
      /\ Young(w.pcb) /\ Window(w.pcb, Y) /\ Links(w.nc, w.pcb)
      /\ w.nc \in [Netconn -> Conn] /\ b.unread \in Nat
  BY DEF WorldOK, Worlds, OK, Typed, Connection
<1>3. b.unread <= TCP_WND + IF p \in Y THEN 1 ELSE 0
  <2>1. w.pcb[p].unread <= TCP_WND + IF p \in Y THEN 1 ELSE 0
    BY <1>1 DEF Window
  <2> QED
    BY <1>1, <2>1, AcceptAssumption DEF PcbSame
<1>4. b.state \in {"CLOSED", "SYN_RCVD"} => b.unread = 0 /\ b.refused = FALSE
  BY <1>1 DEF Young, PcbSame
<1>5. /\ b.cb # "none" =>
           IF w.pcb[p].state = "CLOSED" THEN b.state = "CLOSED"
           ELSE b.state \in {"ESTABLISHED", "CLOSE_WAIT"}
      /\ b.state = "CLOSED" => b.cb # "none"
  BY <1>1 DEF Links, Young, PcbSame
<1>6. PcbMay(w.nc, w.pcb, p, b, X, Y, X, Y)
  BY <1>3, <1>4, <1>5 DEF PcbMay, PcbSame
<1> QED
  BY <1>6, PcbWorld

(* A message that is posted: the mailbox then holds something.             *)
LEMMA Posted ==
  ASSUME NEW S, NEW mbox \in Seq(S), NEW m \in S, NEW size \in Nat \ {0},
         Len(mbox) <= size
  PROVE  /\ TryPost(mbox, m, size) \in Seq(S)
         /\ Len(TryPost(mbox, m, size)) <= size
         /\ TryPost(mbox, m, size) # <<>>
BY DEF TryPost

(* The netconn err_tcp leaves, and the world.                              *)
Erred(n) ==
  [n EXCEPT !.pcb = NULL, !.fatal = TRUE, !.state = "NONE",
            !.recvmbox = IF n.recvOk
                           THEN TryPost(@, "null", DEFAULT_TCP_RECVMBOX_SIZE)
                           ELSE @,
            !.acceptmbox = IF n.acceptOk
                             THEN TryPost(@, NULL, DEFAULT_ACCEPTMBOX_SIZE)
                             ELSE @,
            !.current_msg = "none",
            !.op_completed = IF Working(n.state) THEN 1 ELSE @]

(* What err_tcp leaves of a netconn.                                       *)
LEMMA ErredFacts ==
  ASSUME NEW n \in Conn, n.acceptOk = FALSE,
         Len(n.recvmbox) <= DEFAULT_TCP_RECVMBOX_SIZE
  PROVE  /\ Erred(n) \in Conn
         /\ Erred(n).used = n.used /\ Erred(n).state = "NONE"
         /\ Erred(n).pcb = NULL
         /\ Erred(n).acceptmbox = n.acceptmbox
         /\ Erred(n).acceptOk = n.acceptOk /\ Erred(n).current_msg = "none"
         /\ Erred(n).op_completed = IF Working(n.state) THEN 1 ELSE n.op_completed
         /\ Len(Erred(n).recvmbox) <= DEFAULT_TCP_RECVMBOX_SIZE
         /\ Erred(n).recvOk = n.recvOk
         /\ n.recvOk = TRUE => Erred(n).recvmbox # <<>>
<1> DEFINE r == TryPost(n.recvmbox, "null", DEFAULT_TCP_RECVMBOX_SIZE)
<1>1. n.recvmbox \in Seq(Words) /\ "null" \in Words /\ n.recvOk \in BOOLEAN
  BY DEF Conn, Words
<1>2. /\ r \in Seq(Words) /\ Len(r) <= DEFAULT_TCP_RECVMBOX_SIZE /\ r # <<>>
  BY <1>1, Posted, AcceptAssumption
<1> HIDE DEF r
<1>3. Erred(n) = [n EXCEPT !.pcb = NULL, !.fatal = TRUE, !.state = "NONE",
                    !.recvmbox = IF n.recvOk THEN r ELSE n.recvmbox,
                    !.acceptmbox = n.acceptmbox, !.current_msg = "none",
                    !.op_completed = IF Working(n.state) THEN 1 ELSE @]
  BY DEF Erred, r
<1>4. "none" \in Words
  BY DEF Words
<1> QED
  BY <1>1, <1>2, <1>3, <1>4 DEF Conn

(* tcp_abandon keeps the invariant, frees the connection and reaches no    *)
(* netconn that was freed.                                                 *)
LEMMA Abandoned ==
  ASSUME NEW sv, NEW w, NEW X, NEW Y, NEW X1, NEW Y1, WorldOK(sv, w, X, Y),
         NEW p \in Pcb, w.pcb[p].state # "CLOSED",
         X \subseteq X1 \cup {p}, Y \subseteq Y1 \cup {p}
  PROVE  /\ WorldOK(sv, tcp_abandon(w, p), X1, Y1)
         /\ Stays(w.nc, tcp_abandon(w, p).nc)
         /\ tcp_abandon(w, p).pcb[p] = NoPcb
<1>1. /\ w \in Worlds /\ w.pcb \in [Pcb -> Connection]
      /\ w.pcb[p] \in Connection /\ w.nc \in [Netconn -> Conn]
      /\ OK(sv, w.call, w.nc, w.pcb, X, Y) /\ w.stale = FALSE
      /\ Links(w.nc, w.pcb) /\ Conns(w.nc) /\ Fed(sv, w.nc, w.pcb, X)
  BY DEF WorldOK, Worlds, OK, Typed
<1>2. /\ NoPcb \in Connection /\ NoPcb.cb = "none" /\ NoPcb.state = "FREE"
      /\ NoPcb.unread = 0
  BY NoPcbType
<1>3. CASE w.pcb[p].cb = "none"
  <2>1. tcp_abandon(w, p) = WithPcb(w, p, NoPcb)
    BY <1>1, <1>3 DEF tcp_abandon, WithPcb, Put, Worlds
  <2>2. PcbMay(w.nc, w.pcb, p, NoPcb, X, Y, X1, Y1)
    BY <1>1, <1>2, <1>3, AcceptAssumption DEF PcbMay
  <2> QED
    BY <1>1, <1>2, <2>1, <2>2, PcbWorld, WithFacts DEF Stays
<1>4. CASE w.pcb[p].cb # "none"
  <2> DEFINE c == w.pcb[p].arg
             n == Erred(w.nc[c])
             v == tcp_abandon(w, p)
  <2>1. /\ c \in Netconn /\ w.nc[c].pcb = p /\ c # Listener
        /\ w.pcb[p].state # "TIME_WAIT" /\ w.nc[c] \in Conn
    BY <1>1, <1>4 DEF Links
  <2>2. w.nc[c].used = TRUE
    <3>1. w.nc[c] # NoConn
      BY <2>1, Numbers DEF NoConn
    <3> QED
      BY <1>1, <2>1, <3>1 DEF Conns, Conn
  <2>3. w.nc[c].acceptOk = FALSE /\ Len(w.nc[c].recvmbox) <= DEFAULT_TCP_RECVMBOX_SIZE
    BY <1>1, <2>1 DEF Conns
  <2>4. v = [w EXCEPT !.pcb = Put(w.pcb, p, NoPcb), !.nc = Put(w.nc, c, n),
                      !.stale = FALSE]
    <3>1. v = err_tcp([w EXCEPT !.pcb = Put(w.pcb, p, NoPcb)], c)
      BY <1>1, <1>4, <2>1 DEF tcp_abandon, Put
    <3>2. \A f : f = [w EXCEPT !.pcb = Put(w.pcb, p, NoPcb)] =>
            err_tcp(f, c) = [w EXCEPT !.pcb = Put(w.pcb, p, NoPcb),
                                      !.nc = Put(w.nc, c, n), !.stale = FALSE]
      <4> SUFFICES ASSUME NEW f, f = [w EXCEPT !.pcb = Put(w.pcb, p, NoPcb)]
                   PROVE  err_tcp(f, c) =
                            [w EXCEPT !.pcb = Put(w.pcb, p, NoPcb),
                                      !.nc = Put(w.nc, c, n), !.stale = FALSE]
        OBVIOUS
      <4>1. f.nc = w.nc /\ f.stale = FALSE /\ f.pcb = Put(w.pcb, p, NoPcb)
        BY <1>1 DEF Worlds
      <4>2. err_tcp(f, c) = [f EXCEPT !.stale = FALSE, !.nc = Put(w.nc, c, n)]
        BY <2>2, <4>1 DEF err_tcp, Put, Erred
      <4> QED
        BY <1>1, <4>1, <4>2 DEF Worlds
    <3> QED
      BY <3>1, <3>2
  <2>5. n \in Conn /\ ConnSevers(sv, w.nc, c, n, p, NoPcb, X, Y, X1, Y1)
    <3>1. Fresh(sv, w.nc, c) => w.nc[c].recvOk = TRUE
      BY <1>1, <2>1 DEF Fed
    <3>2. /\ n \in Conn
          /\ n.used = w.nc[c].used /\ n.state = "NONE" /\ n.pcb = NULL
          /\ n.acceptmbox = w.nc[c].acceptmbox
          /\ n.acceptOk = w.nc[c].acceptOk /\ n.current_msg = "none"
          /\ n.op_completed = IF Working(w.nc[c].state) THEN 1
                              ELSE w.nc[c].op_completed
          /\ Len(n.recvmbox) <= DEFAULT_TCP_RECVMBOX_SIZE
          /\ n.recvOk = w.nc[c].recvOk
          /\ w.nc[c].recvOk = TRUE => n.recvmbox # <<>>
      BY <2>1, <2>3, ErredFacts
    <3> HIDE DEF n, c
    <3> QED
      BY <1>2, <2>1, <2>2, <3>1, <3>2, AcceptAssumption DEF ConnSevers
  <2> HIDE DEF c, n, v
  <2>6. /\ OK(sv, w.call, Put(w.nc, c, n), Put(w.pcb, p, NoPcb), X1, Y1)
        /\ Stays(w.nc, Put(w.nc, c, n))
    BY <1>1, <1>2, <2>1, <2>5, Severs
  <2>7. /\ v \in Worlds /\ v.nc = Put(w.nc, c, n) /\ v.stale = FALSE
        /\ v.pcb = Put(w.pcb, p, NoPcb) /\ v.call = w.call
        /\ v.pcb[p] = NoPcb
    BY <1>1, <1>2, <2>1, <2>4, <2>5 DEF Worlds, Put
  <2> QED
    BY <2>6, <2>7 DEF WorldOK, v
<1> QED
  BY <1>3, <1>4

(* What is received goes into the mailbox or is taken by tcp_recv_null.    *)
LEMMA Received ==
  ASSUME NEW sv, NEW w, NEW X, NEW Y, NEW X1, WorldOK(sv, w, X, Y),
         NEW p \in Pcb, NEW m \in {"data", "null"}, X \subseteq X1 \cup {p}
  PROVE  /\ WorldOK(sv, recv_tcp(w, p, m), X1, Y)
         /\ Stays(w.nc, recv_tcp(w, p, m).nc)
         /\ recv_tcp(w, p, m).pcb[p].state = w.pcb[p].state
         /\ recv_tcp(w, p, m).pcb[p].cb = w.pcb[p].cb
         /\ recv_tcp(w, p, m).pcb[p].unread <= w.pcb[p].unread
<1> DEFINE c == w.pcb[p].arg
           v == recv_tcp(w, p, m)
<1>1. /\ w \in Worlds /\ w.pcb \in [Pcb -> Connection]
      /\ w.pcb[p] \in Connection /\ w.nc \in [Netconn -> Conn]
      /\ w.pcb[p].unread \in Nat
      /\ OK(sv, w.call, w.nc, w.pcb, X, Y) /\ w.stale = FALSE
      /\ Links(w.nc, w.pcb) /\ Conns(w.nc)
  BY DEF WorldOK, Worlds, OK, Typed, Connection
<1>2. CASE w.pcb[p].cb = "all" /\ w.nc[c].recvOk
  <2> DEFINE r == TryPost(w.nc[c].recvmbox, m, DEFAULT_TCP_RECVMBOX_SIZE)
             n == [w.nc[c] EXCEPT !.recvmbox = r]
  <2>1. c \in Netconn /\ w.nc[c].pcb = p /\ w.nc[c] \in Conn
    BY <1>1, <1>2 DEF Links
  <2>2. w.nc[c].used = TRUE
    <3>1. w.nc[c] # NoConn
      BY <2>1, Numbers DEF NoConn
    <3> QED
      BY <1>1, <2>1, <3>1 DEF Conns, Conn
  <2>3. r \in Seq(Words) /\ Len(r) <= DEFAULT_TCP_RECVMBOX_SIZE /\ r # <<>>
    <3>1. /\ w.nc[c].recvmbox \in Seq(Words) /\ m \in Words
          /\ Len(w.nc[c].recvmbox) <= DEFAULT_TCP_RECVMBOX_SIZE
      BY <1>1, <2>1 DEF Conns, Conn, Words
    <3> QED
      BY <3>1, Posted, AcceptAssumption
  <2>4. v = [w EXCEPT !.stale = FALSE, !.nc = Put(w.nc, c, n)]
    BY <1>1, <1>2, <2>1, <2>2 DEF recv_tcp, Put
  <2> HIDE DEF r
  <2>5. n \in Conn /\ n.recvmbox = r /\ ConnGrows(w.nc, c, n, X, X1)
    <3>1. n \in Conn /\ n.recvmbox = r
      BY <2>1, <2>3 DEF Conn
    <3> QED
      BY <2>1, <2>2, <2>3, <3>1 DEF ConnGrows, Conn
  <2> HIDE DEF n, v, c
  <2>6. /\ OK(sv, w.call, Put(w.nc, c, n), w.pcb, X1, Y)
        /\ Stays(w.nc, Put(w.nc, c, n))
    BY <1>1, <2>1, <2>5, MboxGrows
  <2>7. /\ v \in Worlds /\ v.nc = Put(w.nc, c, n) /\ v.stale = FALSE
        /\ v.pcb = w.pcb /\ v.call = w.call
    BY <1>1, <2>1, <2>4, <2>5 DEF Worlds, Put
  <2> QED
    BY <1>1, <2>6, <2>7 DEF WorldOK, v
<1>3. CASE w.pcb[p].cb # "all" \/ ~w.nc[c].recvOk
  <2>1. w.pcb[p].cb # "all" \/ w.nc[c].recvOk = FALSE
    BY <1>1, <1>3 DEF Links, Conn
  <2>2. WorldOK(sv, w, X1, Y)
    BY <1>1, <2>1, FedDrop DEF WorldOK
  <2>3. CASE m = "data"
    <3>1. v = tcp_recved(w, p, 1)
      BY <1>3, <2>3 DEF recv_tcp
    <3>2. v = WithPcb(w, p, Took(w.pcb[p], 1))
      BY <1>1, <3>1, RecvedIs
    <3>3. WorldOK(sv, v, X1, Y)
      BY <2>2, <3>2, Recved
    <3>4. /\ Took(w.pcb[p], 1) \in Connection
          /\ Took(w.pcb[p], 1).state = w.pcb[p].state
          /\ Took(w.pcb[p], 1).cb = w.pcb[p].cb
          /\ Took(w.pcb[p], 1).unread <= w.pcb[p].unread
      BY <1>1, TookFacts
    <3>5. v.pcb[p] = Took(w.pcb[p], 1) /\ v.nc = w.nc
      BY <1>1, <3>2, <3>4, WithFacts
    <3> QED
      BY <3>3, <3>4, <3>5 DEF Stays
  <2>4. CASE m = "null"
    <3>1. v = w
      BY <1>3, <2>4 DEF recv_tcp
    <3> QED
      BY <1>1, <2>2, <3>1 DEF Stays
  <2> QED
    BY <2>3, <2>4
<1> QED
  BY <1>2, <1>3

(* Data that is refused is kept, and forgotten once it is taken.           *)
Refuse(w, p, x) == [w EXCEPT !.pcb[p].refused = x]

(* Data that is refused and kept keeps the invariant.                      *)
LEMMA Refused ==
  ASSUME NEW sv, NEW w, NEW X, NEW Y, WorldOK(sv, w, X, Y),
         NEW p \in Pcb, NEW x \in BOOLEAN,
         x => w.pcb[p].state \notin {"CLOSED", "SYN_RCVD"}
  PROVE  /\ WorldOK(sv, Refuse(w, p, x), X, Y) /\ Refuse(w, p, x).nc = w.nc
         /\ Refuse(w, p, x).pcb[p].state = w.pcb[p].state
         /\ Refuse(w, p, x).pcb[p].unread = w.pcb[p].unread
<1> DEFINE b == [w.pcb[p] EXCEPT !.refused = x]
           v == [w EXCEPT !.pcb[p].refused = x]
<1>1. /\ w \in Worlds /\ w.pcb \in [Pcb -> Connection]
      /\ w.pcb[p] \in Connection /\ w.pcb[p].unread \in Nat
  BY DEF WorldOK, Worlds, Connection
<1>2. /\ b \in Connection /\ PcbSame(w.pcb[p], b)
      /\ b.state = w.pcb[p].state /\ b.cb = w.pcb[p].cb
      /\ b.unread = w.pcb[p].unread
  BY <1>1 DEF Connection, PcbSame
<1>3. v = WithPcb(w, p, b)
  BY <1>1 DEF WithPcb, Put, Worlds
<1> HIDE DEF b, v
<1>4. WorldOK(sv, v, X, Y)
  BY <1>2, <1>3, PcbQuiet
<1>5. v.pcb[p] = b /\ v.nc = w.nc
  BY <1>1, <1>2, <1>3, WithFacts
<1> QED
  BY <1>2, <1>4, <1>5 DEF v, Refuse

(* The netconn that Finish leaves.                                         *)
Finished(n) == [n EXCEPT !.current_msg = "none", !.state = "NONE",
                         !.op_completed = 1]

(* Finish replaces one netconn.                                            *)
LEMMA FinishIs ==
  ASSUME NEW w \in Worlds, NEW c \in Netconn
  PROVE  Finish(w, c) = WithConn(w, c, Finished(w.nc[c]))
<1>1. w.nc \in [Netconn -> Conn] /\ w.nc[c] \in Conn
  BY DEF Worlds
<1> DEFINE n1 == [w.nc[c] EXCEPT !.current_msg = "none"]
           n2 == [n1 EXCEPT !.state = "NONE"]
           n3 == [n2 EXCEPT !.op_completed = 1]
           w1 == WithConn(w, c, n1)
           w2 == WithConn(w1, c, n2)
           w3 == WithConn(w2, c, n3)
<1>2. n1 \in Conn /\ n2 \in Conn /\ n3 \in Conn /\ n3 = Finished(w.nc[c])
  BY <1>1 DEF Conn, Finished, Words
<1>3. w1 = [w EXCEPT !.nc[c].current_msg = "none"]
  BY DEF WithConn, Put, Worlds
<1> HIDE DEF n1, n2, n3
<1>4. /\ w1 \in Worlds /\ w1.nc[c] = n1 /\ w1.nc = Put(w.nc, c, n1)
      /\ w1.call = w.call /\ w1.pcb = w.pcb /\ w1.stale = w.stale
  BY <1>1, <1>2, WithFacts
<1> HIDE DEF w1
<1>5. w2 = [w1 EXCEPT !.nc[c].state = "NONE"]
  BY <1>4 DEF WithConn, Put, Worlds, n2
<1>6. /\ w2 \in Worlds /\ w2.nc[c] = n2 /\ w2.nc = Put(w1.nc, c, n2)
      /\ w2.call = w.call /\ w2.pcb = w.pcb /\ w2.stale = w.stale
  <2>1. w1 \in Worlds /\ n2 \in Conn
    BY <1>2, <1>4
  <2>2. /\ w2 \in Worlds /\ w2.nc = Put(w1.nc, c, n2)
        /\ w2.call = w1.call /\ w2.pcb = w1.pcb /\ w2.stale = w1.stale
    BY <2>1, ConnWorld
  <2>3. Put(w1.nc, c, n2)[c] = n2
    BY <2>1, WithFacts
  <2> QED
    BY <1>4, <2>2, <2>3
<1> HIDE DEF w2
<1>7. w3 = [w2 EXCEPT !.nc[c].op_completed = 1]
  BY <1>6 DEF WithConn, Put, Worlds, n3
<1>8. Finish(w, c) = w3
  BY <1>3, <1>5, <1>7 DEF Finish
<1>9. /\ w3 \in Worlds /\ w3.nc = Put(w.nc, c, n3)
      /\ w3.call = w.call /\ w3.pcb = w.pcb /\ w3.stale = w.stale
  <2>1. /\ w3 \in Worlds /\ w3.nc = Put(w2.nc, c, n3)
        /\ w3.call = w.call /\ w3.pcb = w.pcb /\ w3.stale = w.stale
    <3>1. n3 \in Conn
      BY <1>2
    <3> QED
      BY <1>6, <3>1, WithFacts
  <2>2. Put(w2.nc, c, n3) = Put(w.nc, c, n3)
    BY <1>1, <1>2, <1>4, <1>6 DEF Put
  <2> QED
    BY <2>1, <2>2
<1> HIDE DEF w3
<1>10. w3 = WithConn(w, c, n3)
  BY <1>9 DEF WithConn, Worlds
<1> QED
  BY <1>2, <1>8, <1>10

(* What a finished call leaves of its netconn.                             *)
LEMMA FinishedFacts ==
  ASSUME NEW n \in Conn
  PROVE  /\ Finished(n) \in Conn /\ Finished(n).state = "NONE"
         /\ Finished(n).current_msg = "none" /\ Finished(n).op_completed = 1
         /\ Finished(n).used = n.used /\ Finished(n).pcb = n.pcb
         /\ Finished(n).fatal = n.fatal /\ Finished(n).recvmbox = n.recvmbox
         /\ Finished(n).recvOk = n.recvOk /\ Finished(n).acceptmbox = n.acceptmbox
         /\ Finished(n).acceptOk = n.acceptOk
BY DEF Finished, Conn, Words

(* tcp_close of a connection that has lost its callbacks.                  *)
LEMMA ClosedPcb ==
  ASSUME NEW a \in Connection, a.state \in {"CLOSED", "ESTABLISHED", "CLOSE_WAIT"},
         a.state = "CLOSED" => a.unread = 0 /\ a.refused = FALSE,
         NEW ok \in BOOLEAN, ~CloseFails(a, ok),
         NEW b, b = tcp_close([a EXCEPT !.arg = NULL, !.cb = "none"], ok)
  PROVE  /\ b \in Connection /\ b.cb = "none" /\ b.unread <= a.unread
         /\ b.state \notin {"CLOSED", "SYN_RCVD"}
<1> DEFINE d == [a EXCEPT !.arg = NULL, !.cb = "none"]
<1>1. /\ d \in Connection /\ d.state = a.state /\ d.cb = "none"
      /\ d.unread = a.unread /\ d.refused = a.refused /\ a.unread \in Nat
      /\ d.queue \in Seq(Words)
  BY DEF Connection
<1> HIDE DEF d
<1>2. CASE a.state = "CLOSED"
  <2>1. ~Unread(d) /\ d.state \notin Closable
    BY <1>1, <1>2 DEF Unread, Closable
  <2>2. b = NoPcb
    BY <1>1, <1>2, <2>1 DEF tcp_close, d
  <2> QED
    BY <1>1, <2>2, NoPcbType
<1> DEFINE e == [d EXCEPT !.rxclosed = TRUE]
<1>5. /\ e \in Connection /\ e.state = a.state /\ e.cb = "none"
      /\ e.unread = a.unread /\ e.queue = d.queue
  BY <1>1 DEF Connection
<1>3. CASE a.state # "CLOSED" /\ Unread(d)
  <2>1. b = TimeWait(e)
    BY <1>1, <1>3 DEF tcp_close, d
  <2> HIDE DEF e
  <2>2. /\ TimeWait(e).cb = e.cb /\ TimeWait(e).state = "TIME_WAIT"
        /\ TimeWait(e).unread = 0 /\ TimeWait(e) \in Connection
    <3>1. <<>> \in Seq(Words)
      OBVIOUS
    <3> QED
      BY <1>5, <3>1 DEF TimeWait, Connection, NoPcb
  <2> QED
    BY <1>1, <1>5, <2>1, <2>2
<1>4. CASE a.state # "CLOSED" /\ ~Unread(d)
  <2>1. ok = TRUE /\ a.state \in Closable
    BY <1>1, <1>4 DEF CloseFails, Closable, Unread
  <2>2. b = [e EXCEPT
               !.state = IF @ = "CLOSE_WAIT" THEN "LAST_ACK" ELSE "FIN_WAIT_1",
               !.queue = Append(@, "fin")]
    BY <1>1, <1>4, <2>1 DEF tcp_close, d
  <2> HIDE DEF e
  <2>3. Append(e.queue, "fin") \in Seq(Words)
    BY <1>1, <1>5 DEF Words
  <2>4. b \in Connection /\ b.state \in {"LAST_ACK", "FIN_WAIT_1"}
    BY <1>5, <2>2, <2>3 DEF Connection, Active
  <2>5. b.cb = e.cb /\ b.unread = e.unread
    BY <1>5, <2>2 DEF Connection
  <2> QED
    BY <1>1, <1>5, <2>4, <2>5
<1> QED
  BY <1>2, <1>3, <1>4

(* do_close_internal goes on with a close: it fails and is tried again, or *)
(* the netconn and its connection part.                                    *)
LEMMA CloseWorks ==
  ASSUME NEW sv, NEW w, NEW X, NEW Y, WorldOK(sv, w, X, Y),
         NEW c \in Netconn, w.nc[c].state = "CLOSE", NEW ok \in BOOLEAN,
         NEW p, p = w.nc[c].pcb
  PROVE  /\ WorldOK(sv, do_close_internal(w, c, ok), X, Y)
         /\ Stays(w.nc, do_close_internal(w, c, ok).nc)
         /\ w.pcb[p].state # "CLOSED" =>
              do_close_internal(w, c, ok).pcb[p].state \notin {"CLOSED", "SYN_RCVD"}
<1> DEFINE v == do_close_internal(w, c, ok)
<1>1. /\ w \in Worlds /\ w.pcb \in [Pcb -> Connection]
      /\ w.nc \in [Netconn -> Conn] /\ w.nc[c] \in Conn
      /\ OK(sv, w.call, w.nc, w.pcb, X, Y) /\ w.stale = FALSE
      /\ Links(w.nc, w.pcb) /\ Conns(w.nc) /\ Calls(sv, w.call, w.nc)
      /\ Window(w.pcb, Y) /\ Young(w.pcb) /\ Listens(w.nc)
  BY DEF WorldOK, Worlds, OK, Typed
<1>2. p \in Pcb /\ p # ListenPcb
  BY <1>1, Numbers DEF Calls, Working
<1>3. /\ w.pcb[p] \in Connection /\ w.pcb[p].arg = c /\ w.pcb[p].cb # "none"
      /\ w.pcb[p].state \in {"CLOSED", "ESTABLISHED", "CLOSE_WAIT"}
      /\ (w.pcb[p].state = "CLOSED" <=> c = Listener)
      /\ w.pcb[p].unread \in Nat
      /\ w.pcb[p].unread <= TCP_WND + IF p \in Y THEN 1 ELSE 0
  BY <1>1, <1>2 DEF Links, Window, Connection
<1>4. CASE CloseFails(w.pcb[p], ok)
  <2> DEFINE b1 == [w.pcb[p] EXCEPT !.rxclosed = TRUE]
             b == [b1 EXCEPT !.cb = "norecv"]
             w1 == WithPcb(w, p, b1)
  <2>1. b1 \in Connection /\ b \in Connection
    BY <1>3 DEF Connection
  <2>2. /\ b.cb = "norecv" /\ b.state = w.pcb[p].state
        /\ b.arg = c /\ b.unread = w.pcb[p].unread
        /\ b.refused = w.pcb[p].refused
    BY <1>3 DEF Connection
  <2>3. v = [[w EXCEPT !.pcb[p].rxclosed = TRUE] EXCEPT !.pcb[p].cb = "norecv"]
    BY <1>2, <1>4 DEF do_close_internal
  <2>4. [w EXCEPT !.pcb[p].rxclosed = TRUE] = w1
    BY <1>1, <1>2 DEF WithPcb, Put, Worlds
  <2> HIDE DEF b1
  <2>5. /\ w1 \in Worlds /\ w1.pcb[p] = b1 /\ w1.pcb = Put(w.pcb, p, b1)
        /\ w1.nc = w.nc /\ w1.call = w.call /\ w1.stale = w.stale
    BY <1>1, <1>2, <2>1, WithFacts
  <2> HIDE DEF w1
  <2>6. v = WithPcb(w1, p, b)
    BY <1>2, <2>3, <2>4, <2>5 DEF WithPcb, Put, Worlds
  <2> HIDE DEF b, v
  <2>7. /\ v \in Worlds /\ v.pcb = Put(w1.pcb, p, b) /\ v.nc = w.nc
        /\ v.call = w.call /\ v.stale = w.stale /\ v.pcb[p] = b
    BY <1>2, <2>1, <2>5, <2>6, WithFacts
  <2>8. v.pcb = Put(w.pcb, p, b)
    BY <1>1, <1>2, <2>1, <2>5, <2>7 DEF Put
  <2>9. PcbMay(w.nc, w.pcb, p, b, X, Y, X, Y)
    BY <1>1, <1>2, <1>3, <2>2 DEF PcbMay, Young
  <2>10. OK(sv, v.call, v.nc, v.pcb, X, Y)
    BY <1>1, <1>2, <2>1, <2>7, <2>8, <2>9, PcbChanges
  <2> QED
    BY <1>1, <1>3, <2>2, <2>7, <2>10 DEF WorldOK, Stays, v
<1>5. CASE ~CloseFails(w.pcb[p], ok)
  <2> DEFINE b == tcp_close([w.pcb[p] EXCEPT !.arg = NULL, !.cb = "none"], ok)
             n1 == [w.nc[c] EXCEPT !.pcb = NULL]
             n == Finished(n1)
             w1 == [w EXCEPT !.pcb = Put(w.pcb, p, b), !.nc = Put(w.nc, c, n1)]
  <2>1. /\ b \in Connection /\ b.cb = "none" /\ b.unread <= w.pcb[p].unread
        /\ b.state \notin {"CLOSED", "SYN_RCVD"}
    BY <1>1, <1>2, <1>3, <1>5, ClosedPcb DEF Young
  <2>2. n1 \in Conn
    BY <1>1 DEF Conn
  <2>3. v = Finish(w1, c)
    BY <1>1, <1>2, <1>5 DEF do_close_internal, Put, Worlds
  <2>4. /\ n \in Conn /\ n.state = "NONE" /\ n.pcb = NULL
        /\ n.current_msg = "none" /\ n.op_completed = 1
        /\ n.used = w.nc[c].used /\ n.fatal = w.nc[c].fatal
        /\ n.recvmbox = w.nc[c].recvmbox /\ n.acceptOk = w.nc[c].acceptOk
        /\ n.acceptmbox = w.nc[c].acceptmbox
    <3>1. /\ n1.pcb = NULL
          /\ n1.used = w.nc[c].used /\ n1.fatal = w.nc[c].fatal
          /\ n1.recvmbox = w.nc[c].recvmbox /\ n1.acceptOk = w.nc[c].acceptOk
          /\ n1.acceptmbox = w.nc[c].acceptmbox
      BY <1>1 DEF Conn
    <3> HIDE DEF n1
    <3> QED
      BY <2>2, <3>1, FinishedFacts
  <2> HIDE DEF b, n1
  <2>5. /\ w1 \in Worlds /\ w1.nc[c] = n1 /\ w1.pcb = Put(w.pcb, p, b)
        /\ w1.nc = Put(w.nc, c, n1) /\ w1.call = w.call /\ w1.stale = w.stale
    BY <1>1, <1>2, <2>1, <2>2 DEF Worlds, Put
  <2> HIDE DEF w1, n, v
  <2>6. v = WithConn(w1, c, n)
    BY <2>3, <2>5, FinishIs DEF n
  <2>7. /\ v \in Worlds /\ v.nc = Put(w1.nc, c, n) /\ v.pcb = Put(w.pcb, p, b)
        /\ v.call = w.call /\ v.stale = w.stale
    BY <2>4, <2>5, <2>6, WithFacts
  <2>8. v.nc = Put(w.nc, c, n) /\ v.pcb[p] = b
    BY <1>1, <1>2, <2>1, <2>2, <2>4, <2>5, <2>7 DEF Put
  <2>9. ConnSevers(sv, w.nc, c, n, p, b, X, Y, X, Y)
    <3>1. ~Fresh(sv, w.nc, c)
      <4>1. Fresh(sv, w.nc, c) => CallsBack(w.nc, w.pcb, c)
        BY <1>1, FreshOpen
      <4> QED
        BY <4>1 DEF CallsBack, Working
    <3>2. w.nc[c].used = TRUE
      <4>1. w.nc[c] # NoConn
        BY DEF NoConn
      <4> QED
        BY <1>1, <4>1 DEF Conns, Conn
    <3>3. Len(w.nc[c].recvmbox) <= DEFAULT_TCP_RECVMBOX_SIZE
      BY <1>1 DEF Conns
    <3>4. b.unread <= TCP_WND + IF p \in Y THEN 1 ELSE 0
      <4>1. b.unread \in Nat
        BY <2>1 DEF Connection
      <4> QED
        BY <1>3, <2>1, <4>1, AcceptAssumption
    <3>5. c = Listener => w.nc[c].fatal = FALSE
      BY <1>1 DEF Listens
    <3>6. Working(w.nc[c].state)
      BY DEF Working
    <3> QED
      BY <2>1, <2>4, <3>1, <3>2, <3>3, <3>4, <3>5, <3>6 DEF ConnSevers
  <2>10. OK(sv, v.call, v.nc, v.pcb, X, Y) /\ Stays(w.nc, v.nc)
    BY <1>1, <1>2, <2>1, <2>4, <2>7, <2>8, <2>9, Severs
  <2> QED
    BY <1>1, <2>1, <2>7, <2>8, <2>10 DEF WorldOK, v
<1> QED
  BY <1>4, <1>5

(* do_writemore goes on with a write.                                      *)
LEMMA WriteWorks ==
  ASSUME NEW sv, NEW w, NEW X, NEW Y, WorldOK(sv, w, X, Y),
         NEW c \in Netconn, w.nc[c].state = "WRITE", NEW ok \in BOOLEAN,
         NEW p, p = w.nc[c].pcb
  PROVE  /\ WorldOK(sv, do_writemore(w, c, ok), X, Y)
         /\ Stays(w.nc, do_writemore(w, c, ok).nc)
         /\ do_writemore(w, c, ok).pcb[p].state = w.pcb[p].state
<1> DEFINE v == do_writemore(w, c, ok)
<1>1. /\ w \in Worlds /\ w.pcb \in [Pcb -> Connection]
      /\ w.nc \in [Netconn -> Conn] /\ w.nc[c] \in Conn
      /\ Calls(sv, w.call, w.nc) /\ Young(w.pcb)
  BY DEF WorldOK, Worlds, OK, Typed
<1>2. p \in Pcb
  BY <1>1 DEF Calls, Working
<1>3. CASE ~ok
  BY <1>3 DEF do_writemore, Stays
<1>4. CASE ok
  <2> DEFINE b == [w.pcb[p] EXCEPT !.queue = Append(@, w.nc[c].current_msg)]
             n == Finished(w.nc[c])
             w1 == WithPcb(w, p, b)
  <2>1. /\ w.pcb[p] \in Connection /\ w.pcb[p].unread \in Nat
        /\ w.pcb[p].queue \in Seq(Words) /\ w.nc[c].current_msg \in Words
    BY <1>1, <1>2 DEF Connection, Conn
  <2>2. /\ b \in Connection /\ b.state = w.pcb[p].state /\ b.cb = w.pcb[p].cb
        /\ b.arg = w.pcb[p].arg /\ b.unread = w.pcb[p].unread
        /\ b.refused = w.pcb[p].refused
    <3>1. Append(w.pcb[p].queue, w.nc[c].current_msg) \in Seq(Words)
      BY <2>1
    <3> QED
      BY <2>1, <3>1 DEF Connection
  <2>3. v = Finish(w1, c)
    BY <1>1, <1>2, <1>4 DEF do_writemore, WithPcb, Put, Worlds
  <2> HIDE DEF b
  <2>4. PcbSame(w.pcb[p], b)
    <3>1. b.refused = FALSE \/ w.pcb[p].state \notin {"CLOSED", "SYN_RCVD"}
      BY <1>1, <1>2, <2>2 DEF Young
    <3> QED
      BY <2>1, <2>2, <3>1 DEF PcbSame
  <2>5. WorldOK(sv, w1, X, Y)
    BY <1>2, <2>2, <2>4, PcbQuiet
  <2>6. w1 \in Worlds /\ w1.pcb[p] = b /\ w1.nc = w.nc
    BY <1>1, <1>2, <2>2, WithFacts
  <2>7. v = WithConn(w1, c, n)
    BY <2>3, <2>6, FinishIs
  <2>8. n \in Conn /\ ConnFinishes(w.nc, c, n)
    <3>1. /\ n \in Conn /\ n.state = "NONE"
          /\ n.current_msg = "none" /\ n.op_completed = 1
          /\ n.used = w.nc[c].used /\ n.pcb = w.nc[c].pcb
          /\ n.fatal = w.nc[c].fatal /\ n.recvmbox = w.nc[c].recvmbox
          /\ n.recvOk = w.nc[c].recvOk /\ n.acceptmbox = w.nc[c].acceptmbox
          /\ n.acceptOk = w.nc[c].acceptOk
      BY <1>1, FinishedFacts
    <3> QED
      BY <3>1 DEF ConnFinishes
  <2> HIDE DEF n, w1, v
  <2>9. /\ OK(sv, w1.call, Put(w.nc, c, n), w1.pcb, X, Y)
        /\ Stays(w.nc, Put(w.nc, c, n))
    BY <2>5, <2>6, <2>8, Finishes DEF WorldOK
  <2>10. /\ v \in Worlds /\ v.nc = Put(w.nc, c, n) /\ v.pcb = w1.pcb
         /\ v.call = w1.call /\ v.stale = w1.stale
    BY <2>6, <2>7, <2>8, WithFacts
  <2> QED
    BY <2>2, <2>5, <2>6, <2>9, <2>10 DEF WorldOK, v
<1> QED
  BY <1>3, <1>4

(* poll_tcp and sent_tcp.                                                  *)
LEMMA Resumed ==
  ASSUME NEW sv, NEW w, NEW X, NEW Y, WorldOK(sv, w, X, Y),
         NEW p \in Pcb, w.pcb[p].state \notin {"CLOSED", "SYN_RCVD"},
         NEW ok \in BOOLEAN
  PROVE  /\ WorldOK(sv, Resume(w, p, ok), X, Y)
         /\ Stays(w.nc, Resume(w, p, ok).nc)
         /\ Resume(w, p, ok).pcb[p].state \notin {"CLOSED", "SYN_RCVD"}
<1> DEFINE c == w.pcb[p].arg
           v == Resume(w, p, ok)
<1>1. Links(w.nc, w.pcb)
  BY DEF WorldOK, OK
<1>2. w.pcb[p].cb # "none" => c \in Netconn /\ w.nc[c].pcb = p
  BY <1>1 DEF Links
<1>3. CASE w.pcb[p].cb # "none" /\ w.nc[c].state = "WRITE"
  <2>1. v = do_writemore(w, c, ok)
    BY <1>3 DEF Resume
  <2> HIDE DEF v, c
  <2>2. /\ WorldOK(sv, do_writemore(w, c, ok), X, Y)
        /\ Stays(w.nc, do_writemore(w, c, ok).nc)
        /\ do_writemore(w, c, ok).pcb[p].state = w.pcb[p].state
    BY <1>2, <1>3, WriteWorks
  <2> QED
    BY <2>1, <2>2 DEF v
<1>4. CASE w.pcb[p].cb # "none" /\ w.nc[c].state = "CLOSE"
  <2>1. v = do_close_internal(w, c, ok)
    BY <1>4 DEF Resume
  <2> HIDE DEF v, c
  <2>2. /\ WorldOK(sv, do_close_internal(w, c, ok), X, Y)
        /\ Stays(w.nc, do_close_internal(w, c, ok).nc)
        /\ w.pcb[p].state # "CLOSED" =>
             do_close_internal(w, c, ok).pcb[p].state \notin {"CLOSED", "SYN_RCVD"}
    BY <1>2, <1>4, CloseWorks
  <2> QED
    BY <2>1, <2>2 DEF v
<1>5. CASE w.pcb[p].cb = "none" \/ w.nc[c].state \notin {"WRITE", "CLOSE"}
  BY <1>5 DEF Resume, Stays
<1> QED
  BY <1>3, <1>4, <1>5

(* Data that is delivered or kept keeps the invariant.                     *)
LEMMA Delivered ==
  ASSUME NEW sv, NEW w, NEW X, NEW Y, WorldOK(sv, w, X, Y),
         NEW p \in Pcb, w.pcb[p].state \notin {"CLOSED", "SYN_RCVD"}
  PROVE  WorldOK(sv, Deliver(w, p), X, Y) /\ Stays(w.nc, Deliver(w, p).nc)
<1>1. CASE Refuses(w, p)
  <2>1. Deliver(w, p) = Refuse(w, p, TRUE)
    BY <1>1 DEF Deliver, Refuse
  <2>2. /\ WorldOK(sv, Refuse(w, p, TRUE), X, Y)
        /\ Refuse(w, p, TRUE).nc = w.nc
    BY Refused
  <2> QED
    BY <2>1, <2>2 DEF Stays
<1>2. CASE ~Refuses(w, p)
  <2>1. Deliver(w, p) = recv_tcp(w, p, "data")
    BY <1>2 DEF Deliver
  <2>2. /\ WorldOK(sv, recv_tcp(w, p, "data"), X, Y)
        /\ Stays(w.nc, recv_tcp(w, p, "data").nc)
    BY Received
  <2> QED
    BY <2>1, <2>2
<1> QED
  BY <1>1, <1>2

(* The events of a segment: the netconn hears of the FIN, and its sequence *)
(* number leaves the window.                                               *)
LEMMA EventsDone ==
  ASSUME NEW sv, NEW w, NEW X, NEW Y, WorldOK(sv, w, X, Y),
         NEW p \in Pcb, w.pcb[p].state \notin {"CLOSED", "SYN_RCVD"},
         NEW acked \in BOOLEAN, NEW data \in BOOLEAN, NEW fin \in BOOLEAN,
         NEW ok \in BOOLEAN,
         X \subseteq {p}, Y \subseteq {p}, ~fin => X = {} /\ Y = {}
  PROVE  /\ WorldOK(sv, Events(w, p, acked, data, fin, ok), {}, {})
         /\ Stays(w.nc, Events(w, p, acked, data, fin, ok).nc)
<1> DEFINE w1 == IF acked THEN Resume(w, p, ok) ELSE w
           w2 == IF data THEN Deliver(w1, p) ELSE w1
           w3 == tcp_recved(w2, p, 1)
           v == Events(w, p, acked, data, fin, ok)
<1>1. /\ WorldOK(sv, w1, X, Y) /\ Stays(w.nc, w1.nc)
      /\ w1.pcb[p].state \notin {"CLOSED", "SYN_RCVD"}
  BY Resumed DEF Stays
<1> HIDE DEF w1
<1>2. WorldOK(sv, w2, X, Y) /\ Stays(w.nc, w2.nc)
  <2>1. WorldOK(sv, Deliver(w1, p), X, Y) /\ Stays(w1.nc, Deliver(w1, p).nc)
    BY <1>1, Delivered
  <2> QED
    BY <1>1, <2>1 DEF Stays
<1>3. CASE data /\ w1.pcb[p].rxclosed
  <2>1. v = tcp_abandon(w1, p)
    BY <1>3 DEF Events, w1
  <2>2. /\ WorldOK(sv, tcp_abandon(w1, p), {}, {})
        /\ Stays(w1.nc, tcp_abandon(w1, p).nc)
    BY <1>1, Abandoned
  <2> QED
    BY <1>1, <2>1, <2>2 DEF Stays
<1>4. CASE ~(data /\ w1.pcb[p].rxclosed) /\ fin
  <2>1. v = recv_tcp(w3, p, "null")
    BY <1>4 DEF Events, w1
  <2> HIDE DEF w2
  <2>2. WorldOK(sv, w3, X, {}) /\ w3.nc = w2.nc
    <3>1. w2 \in Worlds /\ w2.pcb[p] \in Connection
      BY <1>2 DEF WorldOK, Worlds
    <3>2. w3 = WithPcb(w2, p, Took(w2.pcb[p], 1)) /\ Took(w2.pcb[p], 1) \in Connection
      BY <3>1, RecvedIs, TookFacts
    <3>3. WorldOK(sv, WithPcb(w2, p, Took(w2.pcb[p], 1)), X, {})
      BY <1>2, Recved
    <3> QED
      BY <3>1, <3>2, <3>3, WithFacts
  <2> HIDE DEF w3
  <2>3. /\ WorldOK(sv, recv_tcp(w3, p, "null"), {}, {})
        /\ Stays(w3.nc, recv_tcp(w3, p, "null").nc)
    BY <2>2, Received
  <2> QED
    BY <1>2, <2>1, <2>2, <2>3 DEF Stays
<1>5. CASE ~(data /\ w1.pcb[p].rxclosed) /\ ~fin
  <2>1. v = w2
    BY <1>5 DEF Events, w1
  <2> QED
    BY <1>2, <1>5, <2>1
<1> QED
  BY <1>3, <1>4, <1>5

(* The least of some numbers is one of them.                               *)
LEMMA LeastIs ==
  ASSUME NEW S, S \subseteq Nat, S # {}
  PROVE  Least(S) \in S
<1> DEFINE R == OpToRel(<, Nat)
<1>1. IsWellFoundedOn(R, Nat)
  BY NatLessThanWellFounded
<1>2. \A x, y \in Nat : x < y => <<x, y>> \in R
  BY DEF OpToRel
<1> HIDE DEF R
<1>3. \E x \in S : \A y \in S : ~(<<y, x>> \in R)
  BY <1>1, WFMin
<1>4. PICK x \in S : \A y \in S : ~(<<y, x>> \in R)
  BY <1>3
<1>5. \A y \in S : x <= y
  <2> SUFFICES ASSUME NEW y \in S
               PROVE  x <= y
    OBVIOUS
  <2>1. x \in Nat /\ y \in Nat /\ ~(y < x)
    BY <1>2, <1>4
  <2> QED
    BY <2>1
<1> QED
  BY <1>5 DEF Least

(* What tcp_process makes of a connection.                                 *)
LEMMA ProcessFacts ==
  ASSUME NEW a \in Connection, a.state \in Active \ {"SYN_RCVD"},
         a.cb # "none" => a.state \in {"ESTABLISHED", "CLOSE_WAIT"},
         NEW k \in Nat, NEW all \in BOOLEAN, NEW data \in BOOLEAN,
         NEW fin \in BOOLEAN,
         NEW b, b = tcp_process(a, k, all, data, fin)
  PROVE  /\ b \in Connection /\ b.state \notin {"CLOSED", "SYN_RCVD"}
         /\ b.cb = a.cb
         /\ b.cb # "none" => b.arg = a.arg /\ b.state \in {"ESTABLISHED", "CLOSE_WAIT"}
         /\ b.state = "ESTABLISHED" \/ a.state # "ESTABLISHED" \/ fin
         /\ b.unread <= a.unread + (IF data THEN 1 ELSE 0) + (IF fin THEN 1 ELSE 0)
         /\ b.state = "FREE" => a.state = "LAST_ACK"
<1> DEFINE s == NextState(a, all, fin)
           q == SubSeq(a.queue, k + 1, Len(a.queue))
           u == a.unread + (IF data THEN 1 ELSE 0) + (IF fin THEN 1 ELSE 0)
           got == [a EXCEPT !.state = s, !.queue = q, !.unread = u]
<1>1. /\ a.queue \in Seq(Words) /\ a.unread \in Nat
      /\ a.cb \in {"none", "all", "norecv"}
  BY DEF Connection
<1>2. q \in Seq(Words)
  <2>1. k + 1 \in Int /\ Len(a.queue) \in Int
    BY <1>1
  <2>2. \A i \in k + 1 .. Len(a.queue) : a.queue[i] \in Words
    BY <1>1
  <2> QED
    BY <2>1, <2>2, SubSeqProperties
<1>3. u \in Nat
  BY <1>1
<1>4. /\ s \in (Active \ {"SYN_RCVD"}) \cup {"FREE", "TIME_WAIT"}
      /\ s = "ESTABLISHED" \/ a.state # "ESTABLISHED" \/ fin
      /\ a.state \in {"ESTABLISHED", "CLOSE_WAIT"} =>
           s \in {"ESTABLISHED", "CLOSE_WAIT"}
      /\ s = "FREE" => a.state = "LAST_ACK"
  BY DEF NextState, Active
<1>5. b = CASE s = "FREE" -> NoPcb
            [] s = "TIME_WAIT" -> [TimeWait(a) EXCEPT !.unread = u]
            [] OTHER -> got
  <2>1. [a EXCEPT !.state = s, !.queue = SubSeq(@, k + 1, Len(@)),
                  !.unread = @ + (IF data THEN 1 ELSE 0)
                               + (IF fin THEN 1 ELSE 0)] = got
    BY DEF Connection
  <2>2. got.unread = u
    BY DEF Connection
  <2> HIDE DEF s, got
  <2> QED
    BY <2>1, <2>2 DEF tcp_process, s
<1> HIDE DEF s, q, u
<1>6. CASE s = "FREE"
  <2>1. b = NoPcb /\ a.cb = "none"
    BY <1>4, <1>5, <1>6
  <2> QED
    BY <1>1, <1>4, <1>6, <2>1, NoPcbType DEF u
<1>7. CASE s = "TIME_WAIT"
  <2>1. b = [TimeWait(a) EXCEPT !.unread = u] /\ a.cb = "none"
    BY <1>4, <1>5, <1>7
  <2>2. /\ TimeWait(a).cb = a.cb /\ TimeWait(a).state = "TIME_WAIT"
        /\ TimeWait(a) \in Connection
    <3>1. <<>> \in Seq(Words)
      OBVIOUS
    <3> QED
      BY <1>1, <3>1 DEF TimeWait, Connection, NoPcb
  <2>3. /\ b \in Connection /\ b.cb = TimeWait(a).cb
        /\ b.state = TimeWait(a).state /\ b.unread = u
    BY <1>3, <2>1, <2>2 DEF Connection
  <2>4. b.unread <= u
    BY <1>3, <2>3
  <2> QED
    BY <1>4, <1>7, <2>1, <2>2, <2>3, <2>4 DEF u
<1>8. CASE s \notin {"FREE", "TIME_WAIT"}
  <2>1. b = got
    BY <1>5, <1>8
  <2>2. /\ b \in Connection /\ b.cb = a.cb /\ b.arg = a.arg /\ b.state = s
        /\ b.unread = u
    BY <1>2, <1>3, <1>4, <1>8, <2>1 DEF Connection
  <2>3. b.unread <= u
    BY <1>3, <2>2
  <2>4. b.state \notin {"CLOSED", "SYN_RCVD"}
    BY <1>4, <1>8, <2>2 DEF Active
  <2> QED
    BY <1>4, <1>8, <2>2, <2>3, <2>4 DEF u
<1> QED
  BY <1>6, <1>7, <1>8

(* A segment is processed; until the netconn has heard of a FIN its        *)
(* connection is an exception.                                             *)
FinOf(fin, p) == IF fin THEN {p} ELSE {}

(* The events of a segment, once TCP has processed it.                     *)
LEMMA FinEvents ==
  ASSUME NEW sv, NEW w, NEW p \in Pcb, NEW fin \in BOOLEAN,
         WorldOK(sv, w, FinOf(fin, p), FinOf(fin, p)),
         w.pcb[p].state \notin {"CLOSED", "SYN_RCVD"},
         NEW acked \in BOOLEAN, NEW data \in BOOLEAN, NEW ok \in BOOLEAN
  PROVE  /\ WorldOK(sv, Events(w, p, acked, data, fin, ok), {}, {})
         /\ Stays(w.nc, Events(w, p, acked, data, fin, ok).nc)
<1> DEFINE X == FinOf(fin, p)
<1>1. X \subseteq {p} /\ (~fin => X = {})
  BY DEF FinOf
<1> HIDE DEF X
<1>2. WorldOK(sv, w, X, X)
  BY DEF X
<1> QED
  BY <1>1, <1>2, EventsDone

(* A segment that TCP has processed keeps the invariant, but for the       *)
(* events that follow it.                                                  *)
LEMMA Processed ==
  ASSUME NEW sv, NEW w, WorldOK(sv, w, {}, {}),
         NEW p \in Pcb, w.pcb[p].state \in Active \ {"SYN_RCVD"},
         NEW k \in Nat, NEW all \in BOOLEAN, NEW data \in BOOLEAN,
         NEW fin \in BOOLEAN, data => w.pcb[p].unread < TCP_WND,
         NEW b, b = tcp_process(w.pcb[p], k, all, data, fin)
  PROVE  /\ WorldOK(sv, WithPcb(w, p, b), FinOf(fin, p), FinOf(fin, p))
         /\ b \in Connection /\ b.state \notin {"CLOSED", "SYN_RCVD"}
         /\ b.state = "FREE" => w.pcb[p].state = "LAST_ACK"
<1>1. /\ w \in Worlds /\ w.pcb \in [Pcb -> Connection]
      /\ w.pcb[p] \in Connection /\ w.pcb[p].unread \in Nat
      /\ Window(w.pcb, {}) /\ Links(w.nc, w.pcb)
  BY DEF WorldOK, Worlds, OK, Typed, Connection
<1>2. /\ w.pcb[p].state # "CLOSED"
      /\ w.pcb[p].cb # "none" =>
           w.pcb[p].state \in {"ESTABLISHED", "CLOSE_WAIT"}
  BY <1>1 DEF Links, Active
<1>3. /\ b \in Connection /\ b.state \notin {"CLOSED", "SYN_RCVD"}
      /\ b.cb = w.pcb[p].cb
      /\ b.cb # "none" => b.arg = w.pcb[p].arg /\ b.state \in {"ESTABLISHED", "CLOSE_WAIT"}
      /\ b.state = "ESTABLISHED" \/ w.pcb[p].state # "ESTABLISHED" \/ fin
      /\ b.unread <= w.pcb[p].unread + (IF data THEN 1 ELSE 0) + (IF fin THEN 1 ELSE 0)
      /\ b.state = "FREE" => w.pcb[p].state = "LAST_ACK"
  <2> DEFINE a == w.pcb[p]
  <2>1. /\ a \in Connection /\ a.state \in Active \ {"SYN_RCVD"}
        /\ a.cb # "none" => a.state \in {"ESTABLISHED", "CLOSE_WAIT"}
        /\ b = tcp_process(a, k, all, data, fin)
    BY <1>1, <1>2
  <2> HIDE DEF a
  <2>2. /\ b \in Connection /\ b.state \notin {"CLOSED", "SYN_RCVD"}
        /\ b.cb = a.cb
        /\ b.cb # "none" => b.arg = a.arg /\ b.state \in {"ESTABLISHED", "CLOSE_WAIT"}
        /\ b.state = "ESTABLISHED" \/ a.state # "ESTABLISHED" \/ fin
        /\ b.unread <= a.unread + (IF data THEN 1 ELSE 0) + (IF fin THEN 1 ELSE 0)
        /\ b.state = "FREE" => a.state = "LAST_ACK"
    BY <2>1, ProcessFacts
  <2> QED
    BY <2>2 DEF a
<1>4. b.unread <= TCP_WND + IF p \in FinOf(fin, p) THEN 1 ELSE 0
  <2>1. p \in FinOf(fin, p) <=> fin
    BY DEF FinOf
  <2>2. w.pcb[p].unread <= TCP_WND /\ b.unread \in Nat
    BY <1>1, <1>3, AcceptAssumption DEF Window, Connection
  <2> QED
    BY <1>1, <1>3, <2>1, <2>2, AcceptAssumption
<1>5. fin => p \in FinOf(fin, p)
  BY DEF FinOf
<1>6. PcbMay(w.nc, w.pcb, p, b, {}, {}, FinOf(fin, p), FinOf(fin, p))
  BY <1>2, <1>3, <1>4, <1>5 DEF PcbMay
<1> QED
  BY <1>3, <1>6, PcbWorld

(* While a netconn is free there is room in the mailbox of the listening   *)
(* one: it holds others, each of them once.                                *)
LEMMA MboxRoom ==
  ASSUME NEW sv, NEW cl, NEW N, NEW P, NEW X, NEW Y, OK(sv, cl, N, P, X, Y),
         NEW c \in Netconn \ {Listener}, N[c].used = FALSE
  PROVE  Len(N[Listener].acceptmbox) < DEFAULT_ACCEPTMBOX_SIZE
<1> DEFINE mbox == N[Listener].acceptmbox
           T == (Netconn \ {Listener}) \ {c}
<1>1. /\ Members(sv, N) /\ Listener \in Netconn
      /\ mbox \in Seq(Netconn \cup {NULL})
  BY Numbers DEF OK, Typed, Conn
<1>2. ~Waits(N, c)
  BY <1>1 DEF Members
<1>3. mbox \in [1..Len(mbox) -> T]
  <2>1. \A i \in 1..Len(mbox) : mbox[i] \in T
    BY <1>1, <1>2 DEF Members, Waits
  <2> QED
    BY <1>1, <2>1
<1>4. mbox \in Injection(1..Len(mbox), T)
  <2>1. \A i, j \in 1..Len(mbox) : mbox[i] = mbox[j] => i = j
    BY <1>1 DEF Members
  <2> HIDE DEF mbox, T
  <2> QED
    BY <1>3, <2>1 DEF Injection, IsInjective
<1>5. IsFiniteSet(T) /\ Cardinality(T) = MEMP_NUM_NETCONN - 2
  <2>1. IsFiniteSet(Netconn) /\ Cardinality(Netconn) = MEMP_NUM_NETCONN
    BY FS_Interval, AcceptAssumption DEF Netconn
  <2>2. /\ IsFiniteSet(Netconn \ {Listener})
        /\ Cardinality(Netconn \ {Listener}) = MEMP_NUM_NETCONN - 1
    BY <1>1, <2>1, FS_RemoveElement
  <2>3. /\ IsFiniteSet(T)
        /\ Cardinality(T) = Cardinality(Netconn \ {Listener}) - 1
    BY <2>2, FS_RemoveElement
  <2> QED
    BY <2>2, <2>3, AcceptAssumption
<1>6. Cardinality(1..Len(mbox)) = Len(mbox) /\ Len(mbox) \in Nat
  <2>1. Len(mbox) \in Nat
    BY <1>1
  <2> DEFINE k == Len(mbox)
  <2>2. k \in Nat /\ k \in Int /\ 1 \in Int
    BY <2>1
  <2> HIDE DEF mbox, k
  <2>3. Cardinality(1..k) = IF 1 > k THEN 0 ELSE k - 1 + 1
    BY <2>2, FS_Interval
  <2>4. Cardinality(1..k) = k
    BY <2>2, <2>3
  <2> QED
    BY <2>2, <2>4 DEF k
<1>7. Cardinality(1..Len(mbox)) <= Cardinality(T)
  <2> HIDE DEF mbox, T
  <2> QED
    BY <1>4, <1>5, FS_Injection
<1> HIDE DEF mbox, T
<1> QED
  BY <1>5, <1>6, <1>7, AcceptAssumption DEF mbox

(* A new netconn for a connection that is established.                     *)
NewConn(p) == [NoConn EXCEPT !.used = TRUE, !.pcb = p, !.recvOk = TRUE]

(* The netconn of a new connection.                                        *)
LEMMA NewConnFacts ==
  ASSUME NEW p \in Pcb
  PROVE  /\ NewConn(p) \in Conn
         /\ NewConn(p).used = TRUE /\ NewConn(p).state = "NONE"
         /\ NewConn(p).pcb = p /\ NewConn(p).fatal = FALSE
         /\ NewConn(p).recvmbox = <<>> /\ NewConn(p).recvOk = TRUE
         /\ NewConn(p).acceptmbox = <<>> /\ NewConn(p).acceptOk = FALSE
         /\ NewConn(p).current_msg = "none" /\ NewConn(p).op_completed = 0
<1>1. <<>> \in Seq(Words) /\ <<>> \in Seq(Netconn \cup {NULL})
  OBVIOUS
<1> QED
  BY <1>1 DEF NewConn, NoConn, Conn, Words

(* The new netconn waits to be accepted.                                   *)
ConnAccepted(N, P, c, l, p, b) ==
  /\ P[p].state = "SYN_RCVD" /\ N[c].used = FALSE
  /\ b.state = "ESTABLISHED" /\ b.arg = c /\ b.cb = "all"
  /\ b.unread = 0 /\ b.refused = FALSE
  /\ l.used = N[Listener].used /\ l.state = N[Listener].state
  /\ l.pcb = N[Listener].pcb /\ l.fatal = N[Listener].fatal
  /\ l.recvmbox = N[Listener].recvmbox /\ l.recvOk = N[Listener].recvOk
  /\ l.acceptmbox = Append(N[Listener].acceptmbox, c)
  /\ l.acceptOk = N[Listener].acceptOk
  /\ l.current_msg = N[Listener].current_msg
  /\ l.op_completed = N[Listener].op_completed

(* A new connection that is put into the mailbox keeps the invariant.      *)
LEMMA Accepts ==
  ASSUME NEW sv, NEW cl, NEW N, NEW P, OK(sv, cl, N, P, {}, {}),
         NEW c \in Netconn \ {Listener}, NEW l \in Conn, NEW p \in Pcb,
         NEW b \in Connection, ConnAccepted(N, P, c, l, p, b)
  PROVE  /\ OK(sv, cl, Put(Put(N, c, NewConn(p)), Listener, l), Put(P, p, b),
               {}, {})
         /\ Stays(N, Put(Put(N, c, NewConn(p)), Listener, l))
<1> DEFINE M == Put(Put(N, c, NewConn(p)), Listener, l)
           Q == Put(P, p, b)
           n == NewConn(p)
           mbox == N[Listener].acceptmbox
           box == l.acceptmbox
<1>1. M = [[N EXCEPT ![c] = n] EXCEPT ![Listener] = l] /\ Q = [P EXCEPT ![p] = b]
  BY DEF Put
<1> HIDE DEF M, Q
<1> USE DEF ConnAccepted
<1>2. /\ Typed(sv, cl, N, P)
      /\ Links(N, P) /\ Young(P) /\ Opening(N, P) /\ Conns(N) /\ Listens(N)
      /\ Members(sv, N)
      /\ Calls(sv, cl, N) /\ Flow(sv, cl, N)
      /\ Fed(sv, N, P, {}) /\ Window(P, {})
  BY DEF OK
<1>3. /\ n \in Conn
      /\ n.used = TRUE /\ n.state = "NONE"
      /\ n.pcb = p /\ n.fatal = FALSE
      /\ n.recvmbox = <<>> /\ n.recvOk = TRUE
      /\ n.acceptmbox = <<>> /\ n.acceptOk = FALSE
      /\ n.current_msg = "none" /\ n.op_completed = 0
  BY NewConnFacts
<1> HIDE DEF n
<1>4. /\ Listener \in Netconn /\ Cur(sv) \in Netconn /\ NULL \notin Pcb
      /\ NULL \notin Netconn
      /\ NULL # ListenPcb /\ ListenPcb \notin Pcb
  BY <1>2, Numbers DEF Typed, Servers, Cur
<1>5. /\ M \in [Netconn -> Conn] /\ M[c] = n /\ M[Listener] = l
      /\ \A d \in Netconn : d # c /\ d # Listener => M[d] = N[d]
      /\ Q \in [Pcb -> Connection] /\ Q[p] = b
      /\ \A r \in Pcb : r # p => Q[r] = P[r]
  BY <1>1, <1>2, <1>3, <1>4 DEF Typed
<1>6. \A d \in Netconn : d # c =>
        /\ M[d].used = N[d].used /\ M[d].state = N[d].state
        /\ M[d].pcb = N[d].pcb /\ M[d].fatal = N[d].fatal
        /\ M[d].recvmbox = N[d].recvmbox /\ M[d].recvOk = N[d].recvOk
        /\ M[d].acceptOk = N[d].acceptOk
        /\ M[d].current_msg = N[d].current_msg
        /\ M[d].op_completed = N[d].op_completed
        /\ d # Listener => M[d].acceptmbox = N[d].acceptmbox
  BY <1>5
<1>7. /\ N[c].pcb = NULL /\ P[p].cb = "none" /\ \A d \in Netconn : N[d].pcb # p
      /\ c # sv.newconn /\ c # Cur(sv) /\ ~Waits(N, c)
  <2>1. N[c].pcb = NULL
    BY <1>2 DEF Conns, NoConn
  <2>2. P[p].cb = "none" /\ \A d \in Netconn : N[d].pcb # p
    BY <1>2 DEF Links
  <2>3. c # sv.newconn /\ c # Cur(sv) /\ ~Waits(N, c)
    BY <1>2 DEF Members, Cur
  <2> QED
    BY <2>1, <2>2, <2>3
<1>8. /\ mbox \in Seq(Netconn \cup {NULL}) /\ box = Append(mbox, c)
      /\ Len(box) = Len(mbox) + 1 /\ Len(mbox) \in Nat
      /\ \A i \in 1..Len(mbox) : box[i] = mbox[i]
      /\ box[Len(mbox) + 1] = c
      /\ DOMAIN box = 1..(Len(mbox) + 1) /\ DOMAIN mbox = 1..Len(mbox)
  BY <1>2, <1>4 DEF Typed, Conn
<1>9. M[Listener].acceptmbox = box
  BY <1>5
<1>10. Len(mbox) < DEFAULT_ACCEPTMBOX_SIZE
  BY MboxRoom
<1> HIDE DEF mbox, box
<1>11. \A d : Waits(M, d) <=> Waits(N, d) \/ d = c
  <2>1. \A d : Waits(M, d) <=> \E i \in DOMAIN box : box[i] = d
    BY <1>9 DEF Waits
  <2>2. \A d : Waits(N, d) <=> \E i \in DOMAIN mbox : mbox[i] = d
    BY DEF Waits, mbox
  <2> SUFFICES ASSUME NEW d
               PROVE  (\E i \in DOMAIN box : box[i] = d) <=>
                        (\E i \in DOMAIN mbox : mbox[i] = d) \/ d = c
    BY <2>1, <2>2
  <2>3. ASSUME NEW i \in DOMAIN box, box[i] = d
        PROVE  (\E j \in DOMAIN mbox : mbox[j] = d) \/ d = c
    <3>1. i \in 1..Len(mbox) \/ i = Len(mbox) + 1
      BY <1>8
    <3> QED
      BY <1>8, <2>3, <3>1
  <2>4. ASSUME NEW i \in DOMAIN mbox, mbox[i] = d
        PROVE  \E j \in DOMAIN box : box[j] = d
    <3>1. i \in DOMAIN box /\ box[i] = d
      BY <1>8, <2>4
    <3> QED
      BY <3>1
  <2>5. Len(mbox) + 1 \in DOMAIN box
    BY <1>8
  <2> QED
    BY <1>8, <2>3, <2>4, <2>5
<1>12. Links(M, Q)
  BY <1>2, <1>3, <1>4, <1>5, <1>6, <1>7 DEF Links
<1>13. Young(Q)
  BY <1>2, <1>5 DEF Young
<1>14. Opening(M, Q)
  BY <1>2, <1>4, <1>5, <1>6 DEF Opening
<1>15. Conns(M)
  <2>1. Len(M[Listener].acceptmbox) <= DEFAULT_ACCEPTMBOX_SIZE
    BY <1>8, <1>9, <1>10, AcceptAssumption
  <2>2. ASSUME NEW d \in Netconn
        PROVE  /\ M[d].used = FALSE => M[d] = NoConn
               /\ Len(M[d].recvmbox) <= DEFAULT_TCP_RECVMBOX_SIZE
               /\ Len(M[d].acceptmbox) <= DEFAULT_ACCEPTMBOX_SIZE
    <3>1. CASE d = c
      BY <1>3, <1>5, <3>1, AcceptAssumption
    <3>2. CASE d = Listener
      <4>1. N[Listener].used = TRUE
        BY <1>2, <1>4 DEF Opening, Flow, Serving, Typed
      <4> QED
        BY <1>2, <1>4, <1>6, <2>1, <3>2, <4>1 DEF Conns
    <3>3. CASE d # c /\ d # Listener
      BY <1>2, <1>5, <3>3 DEF Conns
    <3> QED
      BY <3>1, <3>2, <3>3
  <2>3. ASSUME NEW d \in Netconn \ {Listener}
        PROVE  /\ M[d].pcb # ListenPcb /\ M[d].state # "LISTEN"
               /\ M[d].acceptOk = FALSE /\ M[d].acceptmbox = <<>>
    BY <1>2, <1>3, <1>4, <1>5 DEF Conns
  <2> QED
    BY <2>2, <2>3 DEF Conns
<1>16. Listens(M)
  <2>1. N[Listener].acceptOk = TRUE
    BY <1>2 DEF Opening
  <2> QED
    BY <1>2, <1>4, <1>6, <2>1 DEF Listens
<1>17. Members(sv, M)
  <2>1. ASSUME NEW i \in DOMAIN box, NEW j \in DOMAIN box, box[i] = box[j]
        PROVE  i = j
    <3>1. /\ i \in 1..Len(mbox) \/ i = Len(mbox) + 1
          /\ j \in 1..Len(mbox) \/ j = Len(mbox) + 1
      BY <1>8
    <3>2. \A k \in 1..Len(mbox) : mbox[k] # c
      BY <1>7, <1>8 DEF Waits, mbox
    <3>3. \A k, m \in 1..Len(mbox) : mbox[k] = mbox[m] => k = m
      BY <1>2, <1>8 DEF Members, mbox
    <3> QED
      BY <1>8, <2>1, <3>1, <3>2, <3>3
  <2>2. ASSUME NEW i \in DOMAIN box
        PROVE  box[i] \in Netconn \ {Listener, sv.newconn}
    <3>1. i \in 1..Len(mbox) \/ i = Len(mbox) + 1
      BY <1>8
    <3>2. \A k \in 1..Len(mbox) : mbox[k] \in Netconn \ {Listener, sv.newconn}
      BY <1>2, <1>8 DEF Members, mbox
    <3> QED
      BY <1>7, <1>8, <3>1, <3>2
  <2>3. ASSUME NEW d \in Netconn \ {Listener}
        PROVE  M[d].used = TRUE <=> d = sv.newconn \/ Waits(M, d)
    BY <1>2, <1>3, <1>5, <1>11 DEF Members
  <2>4. sv.newconn # Listener
    BY <1>2 DEF Members
  <2> QED
    BY <1>9, <2>1, <2>2, <2>3, <2>4 DEF Members
<1>18. Calls(sv, cl, M)
  BY <1>2, <1>3, <1>4, <1>5, <1>6, <1>7 DEF Calls, Working
<1>19. Flow(sv, cl, M)
  BY <1>2, <1>4, <1>6, <1>7 DEF Flow
<1>20. Fed(sv, M, Q, {})
  <2> SUFFICES ASSUME NEW d \in Netconn, Fresh(sv, M, d)
               PROVE  /\ M[d].recvOk = TRUE
                      /\ \/ M[d].recvmbox # <<>>
                         \/ M[d].pcb \in Pcb /\ Q[M[d].pcb].state = "ESTABLISHED"
                         \/ M[d].pcb \in {}
    BY DEF Fed
  <2>1. CASE d = c
    BY <1>3, <1>5, <2>1
  <2>2. CASE d # c
    <3>1. Fresh(sv, N, d)
      BY <1>11, <2>2 DEF Fresh
    <3> QED
      BY <1>2, <1>5, <1>6, <1>7, <2>2, <3>1 DEF Fed
  <2> QED
    BY <2>1, <2>2
<1>21. Window(Q, {})
  <2> SUFFICES ASSUME NEW r \in Pcb
               PROVE  Q[r].unread <= TCP_WND + IF r \in {} THEN 1 ELSE 0
    BY DEF Window
  <2>1. CASE r = p
    BY <1>5, <2>1, AcceptAssumption
  <2>2. CASE r # p
    BY <1>2, <1>5, <2>2 DEF Window
  <2> QED
    BY <2>1, <2>2
<1> QED
  BY <1>2, <1>4, <1>5, <1>6, <1>12, <1>13, <1>14, <1>15, <1>16, <1>17, <1>18,
     <1>19, <1>20, <1>21
     DEF OK, Typed, Stays, M, Q

(* accept_function: the connection is aborted for want of a netconn, or    *)
(* gets one that waits.                                                    *)
LEMMA AcceptWorks ==
  ASSUME NEW sv, NEW w, WorldOK(sv, w, {}, {}), NEW p \in Pcb,
         w.pcb[p].state = "SYN_RCVD", NEW ok \in BOOLEAN
  PROVE  /\ WorldOK(sv, accept_function(w, p, ok), {}, {})
         /\ Stays(w.nc, accept_function(w, p, ok).nc)
         /\ accept_function(w, p, ok).pcb[p].unread = 0
<1> DEFINE v == accept_function(w, p, ok)
           e == [w.pcb[p] EXCEPT !.state = "ESTABLISHED"]
           est == [w EXCEPT !.pcb[p].state = "ESTABLISHED"]
<1>1. /\ w \in Worlds /\ w.pcb \in [Pcb -> Connection]
      /\ w.pcb[p] \in Connection /\ w.nc \in [Netconn -> Conn]
      /\ OK(sv, w.call, w.nc, w.pcb, {}, {}) /\ w.stale = FALSE
      /\ Links(w.nc, w.pcb) /\ Young(w.pcb) /\ Opening(w.nc, w.pcb)
      /\ Flow(sv, w.call, w.nc) /\ Listener \in Netconn /\ sv \in Servers
  BY Numbers DEF WorldOK, Worlds, OK, Typed
<1>2. w.nc[Listener].acceptOk = TRUE /\ w.nc[Listener].used = TRUE
  <2>1. w.nc[Listener].acceptOk = TRUE
    BY <1>1 DEF Opening
  <2>2. Place(sv) \notin {"new", "halt"}
    BY <1>1, <2>1 DEF Flow, Serving
  <2> QED
    BY <1>1, <2>1, <2>2 DEF Flow
<1>3. w.pcb[p].cb = "none" /\ w.pcb[p].unread = 0 /\ w.pcb[p].refused = FALSE
  BY <1>1 DEF Links, Young
<1>4. /\ e \in Connection /\ e.state = "ESTABLISHED" /\ e.cb = "none"
      /\ e.unread = 0 /\ e.refused = FALSE
  BY <1>1, <1>3 DEF Connection, Active
<1>5. est = WithPcb(w, p, e)
  BY <1>1 DEF WithPcb, Put, Worlds
<1> HIDE DEF e, est
<1>6. /\ est \in Worlds /\ est.nc = w.nc /\ est.call = w.call
      /\ est.stale = FALSE /\ est.pcb[p] = e /\ est.pcb = Put(w.pcb, p, e)
  BY <1>1, <1>4, <1>5, WithFacts
<1>7. CASE FreeConn(w) = {} \/ ~ok
  <2>1. v = tcp_abandon([est EXCEPT !.stale = @ \/ ~w.nc[Listener].used], p)
    BY <1>2, <1>7 DEF accept_function, est
  <2> HIDE DEF v
  <2>2. [est EXCEPT !.stale = @ \/ ~w.nc[Listener].used] = est
    BY <1>2, <1>6 DEF Worlds
  <2>3. PcbMay(w.nc, w.pcb, p, e, {}, {}, {}, {})
    BY <1>3, <1>4, AcceptAssumption DEF PcbMay
  <2>4. WorldOK(sv, est, {}, {})
    BY <1>4, <1>5, <2>3, PcbWorld
  <2>5. /\ WorldOK(sv, tcp_abandon(est, p), {}, {})
        /\ Stays(est.nc, tcp_abandon(est, p).nc)
        /\ tcp_abandon(est, p).pcb[p] = NoPcb
    BY <1>4, <1>6, <2>4, Abandoned
  <2> QED
    BY <1>6, <2>1, <2>2, <2>5, NoPcbType DEF v
<1>8. CASE FreeConn(w) # {} /\ ok
  <2> DEFINE c == Least(FreeConn(w))
             b1 == [e EXCEPT !.arg = c]
             b == [b1 EXCEPT !.cb = "all"]
             w1 == WithPcb(est, p, b1)
             w2 == WithPcb(w1, p, b)
             l == [w.nc[Listener] EXCEPT !.acceptmbox = Append(@, c)]
             w3 == WithConn(w2, c, NewConn(p))
             w4 == WithConn(w3, Listener, l)
  <2>1. c \in FreeConn(w)
    <3>1. FreeConn(w) \subseteq Nat
      BY Numbers DEF FreeConn
    <3> QED
      BY <1>8, <3>1, LeastIs
  <2>2. c \in Netconn \ {Listener} /\ w.nc[c].used = FALSE
    BY <1>1, <1>2, <2>1 DEF FreeConn, Conn
  <2>3. Len(w.nc[Listener].acceptmbox) < DEFAULT_ACCEPTMBOX_SIZE
    BY <1>1, <2>2, MboxRoom
  <2>4. v = [[est EXCEPT !.pcb[p].arg = c, !.pcb[p].cb = "all"] EXCEPT
               !.nc[c] = NewConn(p), !.nc[Listener].acceptmbox = Append(@, c)]
    <3>1. ~(Len(w.nc[Listener].acceptmbox) >= DEFAULT_ACCEPTMBOX_SIZE)
      <4>1. Len(w.nc[Listener].acceptmbox) \in Nat
        BY <1>1 DEF Conn
      <4> QED
        BY <2>3, <4>1, AcceptAssumption
    <3> QED
      BY <1>2, <1>8, <3>1 DEF accept_function, NewConn, est
  <2> HIDE DEF c, v
  <2>5. /\ b1 \in Connection /\ b \in Connection /\ b.state = "ESTABLISHED"
        /\ b.arg = c /\ b.cb = "all" /\ b.unread = 0 /\ b.refused = FALSE
    BY <1>4, <2>2 DEF Connection
  <2>6. /\ l \in Conn
        /\ ConnAccepted(w.nc, w.pcb, c, l, p, b)
    <3>1. w.nc[Listener] \in Conn
      BY <1>1
    <3>2. Append(w.nc[Listener].acceptmbox, c) \in Seq(Netconn \cup {NULL})
      BY <2>2, <3>1 DEF Conn
    <3>3. l \in Conn
      BY <3>1, <3>2 DEF Conn
    <3>4. /\ l.used = w.nc[Listener].used /\ l.state = w.nc[Listener].state
          /\ l.pcb = w.nc[Listener].pcb /\ l.fatal = w.nc[Listener].fatal
          /\ l.recvmbox = w.nc[Listener].recvmbox
          /\ l.recvOk = w.nc[Listener].recvOk
          /\ l.acceptmbox = Append(w.nc[Listener].acceptmbox, c)
          /\ l.acceptOk = w.nc[Listener].acceptOk
          /\ l.current_msg = w.nc[Listener].current_msg
          /\ l.op_completed = w.nc[Listener].op_completed
      BY <3>1 DEF Conn
    <3> HIDE DEF l, b
    <3> QED
      BY <2>2, <2>5, <3>3, <3>4 DEF ConnAccepted
  <2>7. [est EXCEPT !.pcb[p].arg = c] = w1
    BY <1>6 DEF WithPcb, Put, Worlds
  <2> HIDE DEF b1
  <2>8. /\ w1 \in Worlds /\ w1.pcb[p] = b1 /\ w1.pcb = Put(est.pcb, p, b1)
        /\ w1.nc = w.nc /\ w1.call = w.call /\ w1.stale = FALSE
    BY <1>6, <2>5, WithFacts
  <2> HIDE DEF w1
  <2>9. [w1 EXCEPT !.pcb[p].cb = "all"] = w2
    BY <2>8 DEF WithPcb, Put, Worlds
  <2> HIDE DEF b
  <2>10. /\ w2 \in Worlds /\ w2.pcb = Put(w1.pcb, p, b)
         /\ w2.nc = w.nc /\ w2.call = w.call /\ w2.stale = FALSE
    BY <2>5, <2>8, WithFacts
  <2> HIDE DEF w2
  <2>11. w2.pcb = Put(w.pcb, p, b) /\ w2.pcb[p] = b
    BY <1>1, <1>4, <1>6, <2>5, <2>8, <2>10 DEF Put
  <2>12. [w2 EXCEPT !.nc[c] = NewConn(p)] = w3
    BY <2>2, <2>10 DEF WithConn, Put, Worlds
  <2>13. /\ w3 \in Worlds /\ w3.pcb = w2.pcb /\ w3.nc = Put(w.nc, c, NewConn(p))
         /\ w3.call = w.call /\ w3.stale = FALSE
    <3>1. NewConn(p) \in Conn
      BY NewConnFacts
    <3> QED
      BY <2>2, <2>10, <3>1, WithFacts
  <2>14. w3.nc[Listener] = w.nc[Listener]
    BY <1>1, <2>2, <2>13 DEF Put
  <2> HIDE DEF w3
  <2>15. [w3 EXCEPT !.nc[Listener].acceptmbox = Append(@, c)] = w4
    BY <1>1, <2>13, <2>14 DEF WithConn, Put, Worlds
  <2>16. v = w4
    <3>1. [est EXCEPT !.pcb[p].arg = c, !.pcb[p].cb = "all"] = w2
      BY <2>7, <2>9
    <3>2. v = [w2 EXCEPT !.nc[c] = NewConn(p),
                         !.nc[Listener].acceptmbox = Append(@, c)]
      BY <2>4, <3>1
    <3>3. v = [w3 EXCEPT !.nc[Listener].acceptmbox =
                           Append(w2.nc[Listener].acceptmbox, c)]
      BY <2>12, <3>2
    <3>4. w2.nc[Listener].acceptmbox = w3.nc[Listener].acceptmbox
      BY <2>10, <2>14
    <3> QED
      BY <2>15, <3>3, <3>4
  <2> HIDE DEF l
  <2>17. /\ w4 \in Worlds /\ w4.nc = Put(w3.nc, Listener, l) /\ w4.pcb = w2.pcb
         /\ w4.call = w.call /\ w4.stale = FALSE
    BY <1>1, <2>6, <2>13, WithFacts
  <2> HIDE DEF w4
  <2>18. /\ OK(sv, w.call, Put(Put(w.nc, c, NewConn(p)), Listener, l),
               Put(w.pcb, p, b), {}, {})
         /\ Stays(w.nc, Put(Put(w.nc, c, NewConn(p)), Listener, l))
    BY <1>1, <2>2, <2>5, <2>6, Accepts
  <2> QED
    BY <2>5, <2>11, <2>13, <2>16, <2>17, <2>18 DEF WorldOK, v
<1> QED
  BY <1>7, <1>8

-----------------------------------------------------------------------------
(* The steps of TCP. *)

(* The invariant, of the world the tcpip thread finds.                     *)
LEMMA WorldIs ==
  ASSUME IInv
  PROVE  /\ WorldOK(srv, World, {}, {})
         /\ World.call = call /\ World.nc = nc /\ World.pcb = pcb
         /\ World.stale = FALSE
BY DEF IInv, WorldOK, World, Worlds, OK, Typed

(* A handler that keeps the invariant of the world keeps the invariant.    *)
LEMMA Comes ==
  ASSUME IInv, NEW v, WorldOK(srv, v, {}, {}), Stays(nc, v.nc), Becomes(v),
         UNCHANGED <<srv, fbuf>>, fails' \in 0..MaxFail
  PROVE  IInv' /\ Stays(nc, nc')
BY DEF IInv, WorldOK, Becomes

(* Failed allocations stay within their bound.                             *)
LEMMA AllocOK ==
  ASSUME IInv, NEW ok \in BOOLEAN, Alloc(ok)
  PROVE  fails' \in 0..MaxFail
BY AcceptAssumption DEF IInv, Alloc

(* A SYN, and whatever connection is given up for it.                      *)
LEMMA ListenStep ==
  ASSUME IInv, NEW p \in Pcb, NEW ok \in BOOLEAN, tcp_listen_input(p, ok)
  PROVE  IInv' /\ Stays(nc, nc')
<1> DEFINE w == IF pcb[p].state = "FREE" THEN World ELSE tcp_abandon(World, p)
           v == IF ok THEN [w EXCEPT !.pcb[p] = SynRcvd] ELSE w
<1>1. /\ WorldOK(srv, World, {}, {}) /\ World.nc = nc /\ World.pcb = pcb
      /\ Links(nc, pcb) /\ Listens(nc)
  BY WorldIs DEF WorldOK, OK
<1>2. Becomes(v) /\ UNCHANGED <<srv, fbuf>> /\ fails' \in 0..MaxFail
  BY AllocOK DEF tcp_listen_input
<1>3. pcb[p].state # "CLOSED"
  <2>1. FreePcb # {} => Least(FreePcb) \in FreePcb
    BY LeastIs, Numbers DEF FreePcb
  <2> QED
    BY <2>1 DEF tcp_listen_input, tcp_alloc, FreePcb, Active
<1>4. nc[Listener].acceptOk = TRUE
  BY <1>1 DEF tcp_listen_input, Listening, Listens
<1>5. WorldOK(srv, w, {}, {}) /\ Stays(nc, w.nc) /\ w.pcb[p].cb = "none"
  <2>1. CASE pcb[p].state = "FREE"
    BY <1>1, <2>1 DEF Stays, Links
  <2>2. CASE pcb[p].state # "FREE"
    <3>1. /\ WorldOK(srv, tcp_abandon(World, p), {}, {})
          /\ Stays(World.nc, tcp_abandon(World, p).nc)
          /\ tcp_abandon(World, p).pcb[p] = NoPcb
      BY <1>1, <1>3, Abandoned
    <3> QED
      BY <1>1, <2>2, <3>1, NoPcbType
  <2> QED
    BY <2>1, <2>2
<1> HIDE DEF w
<1>6. /\ SynRcvd \in Connection /\ SynRcvd.state = "SYN_RCVD"
      /\ SynRcvd.cb = "none" /\ SynRcvd.unread = 0 /\ SynRcvd.refused = FALSE
  <2>1. <<"syn">> \in Seq(Words)
    BY DEF Words
  <2> QED
    BY <2>1, Numbers DEF SynRcvd, NoPcb, Connection, Active
<1>7. WorldOK(srv, WithPcb(w, p, SynRcvd), {}, {})
  <2>1. PcbMay(w.nc, w.pcb, p, SynRcvd, {}, {}, {}, {})
    BY <1>4, <1>5, <1>6, AcceptAssumption DEF PcbMay, Stays
  <2> QED
    BY <1>5, <1>6, <2>1, PcbWorld
<1>8. /\ w \in Worlds /\ [w EXCEPT !.pcb[p] = SynRcvd] = WithPcb(w, p, SynRcvd)
      /\ WithPcb(w, p, SynRcvd).nc = w.nc
  BY <1>5, <1>6, WithFacts DEF WorldOK, WithPcb, Put
<1>9. WorldOK(srv, v, {}, {}) /\ Stays(nc, v.nc)
  BY <1>5, <1>7, <1>8
<1> HIDE DEF v
<1> QED
  BY <1>2, <1>9, Comes

(* The last segment of the handshake.                                      *)
LEMMA EstablishStep ==
  ASSUME IInv, NEW p \in Pcb, Establish(p)
  PROVE  IInv' /\ Stays(nc, nc')
<1>1. PICK data \in BOOLEAN, fin \in BOOLEAN, ok \in BOOLEAN :
        /\ Becomes(IF accept_function(World, p, ok).pcb[p].state # "ESTABLISHED"
                     THEN accept_function(World, p, ok)
                   ELSE Events([accept_function(World, p, ok) EXCEPT
                                  !.pcb[p] = tcp_process(@, 1, TRUE, data, fin)],
                               p, FALSE, data, fin, TRUE))
        /\ Alloc(ok)
  BY DEF Establish
<1> DEFINE w == accept_function(World, p, ok)
           b == tcp_process(w.pcb[p], 1, TRUE, data, fin)
           w1 == WithPcb(w, p, b)
           v == IF w.pcb[p].state # "ESTABLISHED" THEN w
                ELSE Events(w1, p, FALSE, data, fin, TRUE)
<1>2. /\ WorldOK(srv, World, {}, {}) /\ World.nc = nc
      /\ World.pcb[p].state = "SYN_RCVD"
  BY WorldIs DEF Establish
<1>3. /\ WorldOK(srv, w, {}, {}) /\ Stays(nc, w.nc) /\ w.pcb[p].unread = 0
      /\ w \in Worlds
  BY <1>2, AcceptWorks DEF WorldOK
<1>4. Becomes(v)
  BY <1>1, <1>3 DEF WithPcb, Put
<1> HIDE DEF w
<1>5. WorldOK(srv, v, {}, {}) /\ Stays(nc, v.nc)
  <2>1. CASE w.pcb[p].state # "ESTABLISHED"
    BY <1>3, <2>1
  <2>2. CASE w.pcb[p].state = "ESTABLISHED"
    <3> HIDE DEF b
    <3>1. /\ WorldOK(srv, w1, FinOf(fin, p), FinOf(fin, p))
          /\ b \in Connection /\ b.state \notin {"CLOSED", "SYN_RCVD"}
      <4>1. /\ w.pcb[p].state \in Active \ {"SYN_RCVD"} /\ 1 \in Nat
            /\ data => w.pcb[p].unread < TCP_WND
        BY <1>3, <2>2, AcceptAssumption DEF Active
      <4>2. b = tcp_process(w.pcb[p], 1, TRUE, data, fin) /\ TRUE \in BOOLEAN
        BY DEF b
      <4> QED
        BY <1>3, <4>1, <4>2, Processed
    <3>2. w1.pcb[p] = b /\ w1.nc = w.nc
      BY <1>3, <3>1, WithFacts
    <3> HIDE DEF w1
    <3>3. /\ WorldOK(srv, w1, FinOf(fin, p), FinOf(fin, p))
          /\ w1.pcb[p].state \notin {"CLOSED", "SYN_RCVD"}
      BY <3>1, <3>2 DEF w1
    <3>4. /\ WorldOK(srv, Events(w1, p, FALSE, data, fin, TRUE), {}, {})
          /\ Stays(w1.nc, Events(w1, p, FALSE, data, fin, TRUE).nc)
      <4> DEFINE acked == FALSE
                 room == TRUE
      <4>1. acked \in BOOLEAN /\ room \in BOOLEAN
        OBVIOUS
      <4> HIDE DEF acked, room
      <4>2. /\ WorldOK(srv, Events(w1, p, acked, data, fin, room), {}, {})
            /\ Stays(w1.nc, Events(w1, p, acked, data, fin, room).nc)
        BY <3>3, <4>1, FinEvents
      <4> QED
        BY <4>2 DEF acked, room
    <3> QED
      BY <1>3, <2>2, <3>2, <3>4 DEF Stays
  <2> QED
    BY <2>1, <2>2
<1>6. UNCHANGED <<srv, fbuf>> /\ fails' \in 0..MaxFail
  BY <1>1, AllocOK DEF Establish
<1> HIDE DEF v
<1> QED
  BY <1>4, <1>5, <1>6, Comes

(* Refused data that is presented again and taken.                         *)
Presents(sv, w, p, v) ==
  /\ WorldOK(sv, v, {}, {}) /\ Stays(w.nc, v.nc)
  /\ v.pcb[p].state = w.pcb[p].state
  /\ v.pcb[p].unread \in Nat /\ v.pcb[p].unread <= w.pcb[p].unread

(* Refused data that is presented again keeps the invariant.               *)
LEMMA Presented ==
  ASSUME NEW sv, NEW w, WorldOK(sv, w, {}, {}), NEW p \in Pcb
  PROVE  Presents(sv, w, p, [recv_tcp(w, p, "data") EXCEPT
                               !.pcb[p].refused = FALSE])
<1> DEFINE r == recv_tcp(w, p, "data")
           x == FALSE
           v == Refuse(r, p, x)
<1>1. /\ WorldOK(sv, r, {}, {}) /\ Stays(w.nc, r.nc)
      /\ r.pcb[p].state = w.pcb[p].state
      /\ r.pcb[p].cb = w.pcb[p].cb
      /\ r.pcb[p].unread <= w.pcb[p].unread
  BY Received
<1>2. r.pcb[p].unread \in Nat
  BY <1>1 DEF WorldOK, Worlds, Connection
<1> HIDE DEF r
<1>3. /\ WorldOK(sv, v, {}, {}) /\ v.nc = r.nc
      /\ v.pcb[p].state = r.pcb[p].state
      /\ v.pcb[p].unread = r.pcb[p].unread
  <2>1. WorldOK(sv, r, {}, {}) /\ x \in BOOLEAN /\ ~x
    BY <1>1
  <2> HIDE DEF x
  <2> QED
    BY <2>1, Refused
<1> HIDE DEF v
<1>4. Presents(sv, w, p, v)
  BY <1>1, <1>2, <1>3 DEF Presents
<1> QED
  BY <1>4 DEF v, r, Refuse

(* A segment of an open connection.                                        *)
LEMMA SegmentStep ==
  ASSUME IInv, NEW p \in Pcb, Segment(p)
  PROVE  IInv' /\ Stays(nc, nc')
<1>1. PICK n \in 0..Len(pcb[p].queue), all \in BOOLEAN, data \in BOOLEAN,
           fin \in BOOLEAN, ok \in BOOLEAN :
        tcp_input(p, n, all, data, fin, ok)
  BY DEF Segment
<1> DEFINE again == pcb[p].refused /\ ~Refuses(World, p)
           r == recv_tcp(World, p, "data")
           w == IF again THEN [r EXCEPT !.pcb[p].refused = FALSE] ELSE World
           dropped == pcb[p].refused /\ ~again /\ (data \/ fin)
           b == IF dropped THEN pcb[p]
                ELSE tcp_process(w.pcb[p], n, all, data, fin)
           w1 == [w EXCEPT !.pcb[p] = b]
           v == IF dropped \/ b.state = "FREE" THEN w1
                ELSE Events(w1, p, n > 0, data, fin, ok)
<1>2. /\ WorldOK(srv, World, {}, {}) /\ World.nc = nc /\ World.pcb = pcb
      /\ pcb[p].state \in Active \ {"SYN_RCVD"} /\ pcb[p].unread \in Nat
      /\ pcb[p].state \notin {"CLOSED", "SYN_RCVD"}
      /\ World \in Worlds /\ pcb \in [Pcb -> Connection]
  BY WorldIs DEF Segment, Active, WorldOK, Worlds, Connection
<1>3. /\ data => pcb[p].unread < TCP_WND
      /\ data \/ fin => pcb[p].state \in
                          {"ESTABLISHED", "FIN_WAIT_1", "FIN_WAIT_2"}
      /\ Becomes(v) /\ Alloc(ok)
  BY <1>1 DEF tcp_input
<1>4. /\ WorldOK(srv, w, {}, {}) /\ Stays(nc, w.nc) /\ w.pcb[p].unread \in Nat
      /\ w.pcb[p].state = pcb[p].state /\ w.pcb[p].unread <= pcb[p].unread
  <2>1. CASE ~again
    BY <1>2, <2>1 DEF Stays
  <2>2. CASE again
    <3>1. w = [r EXCEPT !.pcb[p].refused = FALSE]
      BY <2>2
    <3>2. Presents(srv, World, p, [r EXCEPT !.pcb[p].refused = FALSE])
      BY <1>2, Presented
    <3> HIDE DEF w, r, again
    <3> QED
      BY <1>2, <3>1, <3>2 DEF Presents
  <2> QED
    BY <2>1, <2>2
<1>5. w \in Worlds /\ \A a \in Connection : [w EXCEPT !.pcb[p] = a] = WithPcb(w, p, a)
  BY <1>4 DEF WorldOK, WithPcb, Put
<1>6. WorldOK(srv, v, {}, {}) /\ Stays(nc, v.nc)
  <2>1. CASE dropped
    <3>1. w = World /\ b = pcb[p] /\ v = w1
      BY <2>1
    <3>2. [World EXCEPT !.pcb[p] = pcb[p]] = World
      BY <1>2 DEF Worlds
    <3>3. v = World
      BY <3>1, <3>2
    <3> QED
      BY <1>2, <3>3 DEF Stays
  <2>2. CASE ~dropped
    <3>1. b = tcp_process(w.pcb[p], n, all, data, fin)
      BY <2>2
    <3> HIDE DEF w, b, dropped
    <3>2. n \in Nat /\ (data => w.pcb[p].unread < TCP_WND)
      BY <1>2, <1>3, <1>4, AcceptAssumption
    <3>3. /\ WorldOK(srv, WithPcb(w, p, b), FinOf(fin, p), FinOf(fin, p))
          /\ b \in Connection /\ b.state \notin {"CLOSED", "SYN_RCVD"}
          /\ b.state = "FREE" => w.pcb[p].state = "LAST_ACK"
      BY <1>2, <1>4, <3>1, <3>2, Processed
    <3>4. w1 = WithPcb(w, p, b) /\ w1.pcb[p] = b /\ w1.nc = w.nc
      BY <1>5, <3>3, WithFacts
    <3> HIDE DEF w1
    <3>5. /\ FinOf(fin, p) \subseteq {p}
          /\ ~fin => FinOf(fin, p) = {} /\ FinOf(fin, p) = {}
      BY DEF FinOf
    <3>6. CASE b.state = "FREE"
      <4>1. v = w1 /\ ~fin
        BY <1>3, <1>4, <3>3, <3>6
      <4> QED
        BY <1>4, <3>3, <3>4, <3>5, <4>1
    <3>7. CASE b.state # "FREE"
      <4>1. v = Events(w1, p, n > 0, data, fin, ok)
        BY <2>2, <3>7
      <4> DEFINE acked == n > 0
      <4>2. acked \in BOOLEAN
        OBVIOUS
      <4> HIDE DEF acked
      <4>3. /\ WorldOK(srv, Events(w1, p, acked, data, fin, ok), {}, {})
            /\ Stays(w1.nc, Events(w1, p, acked, data, fin, ok).nc)
        <5>1. /\ WorldOK(srv, w1, FinOf(fin, p), FinOf(fin, p))
              /\ w1.pcb[p].state \notin {"CLOSED", "SYN_RCVD"}
          BY <3>3, <3>4
        <5> QED
          BY <4>2, <5>1, FinEvents
      <4> QED
        BY <1>4, <3>4, <4>1, <4>3 DEF Stays, acked
    <3> QED
      BY <3>6, <3>7
  <2> QED
    BY <2>1, <2>2
<1>7. UNCHANGED <<srv, fbuf>> /\ fails' \in 0..MaxFail
  BY <1>3, AllocOK DEF Segment
<1> HIDE DEF v
<1> QED
  BY <1>3, <1>6, <1>7, Comes

(* A reset or a timeout.                                                   *)
LEMMA AbortStep ==
  ASSUME IInv, NEW p \in Pcb, Reset(p) \/ Expire(p)
  PROVE  IInv' /\ Stays(nc, nc')
<1>1. /\ WorldOK(srv, World, {}, {}) /\ World.nc = nc /\ World.pcb = pcb
      /\ pcb[p].state # "CLOSED"
  BY WorldIs DEF Reset, Expire, Active
<1> DEFINE v == tcp_abandon(World, p)
<1>2. WorldOK(srv, v, {}, {}) /\ Stays(nc, v.nc)
  BY <1>1, Abandoned
<1>3. Becomes(v) /\ UNCHANGED <<srv, fbuf>> /\ fails' \in 0..MaxFail
  BY DEF Reset, Expire, IInv
<1> HIDE DEF v
<1> QED
  BY <1>2, <1>3, Comes

(* Refused data, presented by the timer.                                   *)
LEMMA FastStep ==
  ASSUME IInv, NEW p \in Pcb, tcp_fasttmr(p)
  PROVE  IInv' /\ Stays(nc, nc')
<1> DEFINE v == [recv_tcp(World, p, "data") EXCEPT !.pcb[p].refused = FALSE]
<1>1. WorldOK(srv, World, {}, {}) /\ World.nc = nc
  BY WorldIs
<1>2. Becomes(v) /\ UNCHANGED <<srv, fbuf>> /\ fails' \in 0..MaxFail
  BY DEF tcp_fasttmr, IInv
<1>3. Presents(srv, World, p, v)
  BY <1>1, Presented
<1> HIDE DEF v
<1> QED
  BY <1>1, <1>2, <1>3, Comes DEF Presents

(* A call that is tried again by the timer.                                *)
LEMMA PollStep ==
  ASSUME IInv, NEW p \in Pcb, NEW ok \in BOOLEAN, Poll(p, ok)
  PROVE  IInv' /\ Stays(nc, nc')
<1> DEFINE v == Resume(World, p, ok)
<1>1. /\ WorldOK(srv, World, {}, {}) /\ World.nc = nc /\ World.pcb = pcb
      /\ Links(nc, pcb)
  BY WorldIs DEF WorldOK, OK
<1>2. pcb[p].state \notin {"CLOSED", "SYN_RCVD"}
  BY <1>1 DEF Poll, Active, Links
<1>3. WorldOK(srv, v, {}, {}) /\ Stays(nc, v.nc)
  BY <1>1, <1>2, Resumed
<1>4. Becomes(v) /\ UNCHANGED <<srv, fbuf>> /\ fails' \in 0..MaxFail
  BY AllocOK DEF Poll
<1> HIDE DEF v
<1> QED
  BY <1>3, <1>4, Comes

(* Whatever TCP does, the invariant is kept.                               *)
LEMMA TcpStep ==
  ASSUME IInv, Tcp
  PROVE  IInv' /\ Stays(nc, nc')
<1>1. PICK p \in Pcb :
         \/ \E ok \in BOOLEAN : tcp_listen_input(p, ok) \/ Poll(p, ok)
         \/ Establish(p) \/ Segment(p) \/ Reset(p)
         \/ tcp_fasttmr(p) \/ Expire(p)
  BY DEF Tcp
<1> QED
  BY <1>1, ListenStep, PollStep, EstablishStep, SegmentStep, AbortStep, FastStep

-----------------------------------------------------------------------------
(* The handlers of the calls. *)

(* The world once the message of the call is taken from the mailbox.       *)
LEMMA TakenIs ==
  ASSUME IInv
  PROVE  /\ Taken \in Worlds /\ Taken.call = NoCall /\ Taken.nc = nc
         /\ Taken.pcb = pcb /\ Taken.stale = FALSE
<1>1. /\ World \in Worlds /\ World.nc = nc /\ World.pcb = pcb
      /\ World.stale = FALSE
  BY WorldIs DEF WorldOK
<1> HIDE DEF World
<1> QED
  BY <1>1, NoCallType DEF Taken, Worlds

(* A call that is handled is that of the netconn the server works with.    *)
LEMMA Posts ==
  ASSUME IInv, call.fn # "none"
  PROVE  /\ call.conn \in Netconn /\ call.conn = Cur(srv)
         /\ nc[call.conn] \in Conn /\ nc[call.conn].state \in {"NONE", "LISTEN"}
         /\ nc[call.conn].op_completed = 0
         /\ nc \in [Netconn -> Conn] /\ pcb \in [Pcb -> Connection]
         /\ OK(srv, call, nc, pcb, {}, {}) /\ stale = FALSE
         /\ Place(srv) = srv.ret /\ Listener \in Netconn
         /\ call.conn # Listener => nc[call.conn].pcb \in Pcb \cup {NULL}
<1>1. /\ OK(srv, call, nc, pcb, {}, {}) /\ stale = FALSE
      /\ Calls(srv, call, nc) /\ Conns(nc) /\ Typed(srv, call, nc, pcb)
      /\ Flow(srv, call, nc)
  BY DEF IInv, OK
<1>2. call.conn = Cur(srv) /\ Cur(srv) \in Netconn /\ srv.pc = "wait"
  BY <1>1, Numbers DEF Calls, Typed, Servers, Cur
<1>3. /\ nc \in [Netconn -> Conn] /\ pcb \in [Pcb -> Connection]
      /\ nc[call.conn] \in Conn
  BY <1>1, <1>2 DEF Typed
<1>4. ~Working(nc[call.conn].state) /\ nc[call.conn].op_completed # 1
  BY <1>1, <1>2 DEF Calls
<1>5. call.conn # Listener => nc[call.conn].pcb \in Pcb \cup {NULL}
  BY <1>1, <1>2, <1>3 DEF Conns, Conn
<1> QED
  BY <1>1, <1>2, <1>3, <1>4, <1>5, Numbers DEF Working, Conn, Place

Ans(n) == [n EXCEPT !.op_completed = 1]

(* An answer changes op_completed only.                                    *)
LEMMA AnsFacts ==
  ASSUME NEW n \in Conn
  PROVE  /\ Ans(n) \in Conn /\ Ans(n).op_completed = 1
         /\ Ans(n).used = n.used /\ Ans(n).state = n.state
         /\ Ans(n).pcb = n.pcb /\ Ans(n).fatal = n.fatal
         /\ Ans(n).recvmbox = n.recvmbox /\ Ans(n).recvOk = n.recvOk
         /\ Ans(n).acceptmbox = n.acceptmbox /\ Ans(n).acceptOk = n.acceptOk
         /\ Ans(n).current_msg = n.current_msg
BY DEF Ans, Conn

(* A call that changes at most the window is answered.                     *)
LEMMA PlainAnswer ==
  ASSUME IInv, call.fn # "none",
         call.fn = "delconn" => nc[call.conn].pcb = NULL,
         NEW w \in Worlds, w.call = NoCall, w.nc = nc, w.stale = FALSE,
         OK(srv, call, nc, w.pcb, {}, {})
  PROVE  WorldOK(srv, Answered(w), {}, {}) /\ Stays(nc, Answered(w).nc)
<1> DEFINE c == call.conn
           n == Ans(nc[c])
           v == WithConn(w, c, n)
<1>1. c \in Netconn /\ c = Cur(srv) /\ nc[c] \in Conn
  BY Posts
<1>2. Len(nc[c].recvmbox) <= DEFAULT_TCP_RECVMBOX_SIZE
  BY <1>1 DEF OK, Conns
<1>3. n \in Conn /\ ConnAnswers(srv, call, nc, c, n)
  BY <1>1, <1>2, AnsFacts DEF ConnAnswers
<1>4. Answered(w) = v
  BY <1>1 DEF Answered, WithConn, Put, Ans, Worlds
<1> HIDE DEF n, c
<1>5. OK(srv, NoCall, Put(nc, c, n), w.pcb, {}, {}) /\ Stays(nc, Put(nc, c, n))
  BY <1>1, <1>3, Answers
<1>6. /\ v \in Worlds /\ v.call = NoCall /\ v.nc = Put(nc, c, n)
      /\ v.pcb = w.pcb /\ v.stale = FALSE
  BY <1>1, <1>3, WithFacts
<1> QED
  BY <1>4, <1>5, <1>6 DEF WorldOK

(* do_bind keeps the invariant.                                            *)
LEMMA BindStep ==
  ASSUME IInv, do_bind, UNCHANGED <<srv, fbuf, fails>>
  PROVE  IInv' /\ Stays(nc, nc')
<1> DEFINE v == Answered(Taken)
<1>1. call.fn = "bind" /\ Becomes(v) /\ fails' \in 0..MaxFail
  BY DEF do_bind, Take, IInv
<1>2. WorldOK(srv, v, {}, {}) /\ Stays(nc, v.nc)
  BY <1>1, TakenIs, PlainAnswer DEF IInv
<1> HIDE DEF v
<1> QED
  BY <1>1, <1>2, Comes

(* do_recv keeps the invariant.                                            *)
LEMMA RecvStep ==
  ASSUME IInv, do_recv, UNCHANGED <<srv, fbuf, fails>>
  PROVE  IInv' /\ Stays(nc, nc')
<1> DEFINE p == nc[call.conn].pcb
           w == IF p # NULL /\ call.what = "data" THEN tcp_recved(Taken, p, 1)
                ELSE Taken
           v == Answered(w)
<1>1. call.fn = "recv" /\ Becomes(v) /\ fails' \in 0..MaxFail
  BY DEF do_recv, Take, IInv
<1>2. p \in Pcb \cup {NULL}
  <2>1. srv.ret \in {"parse", "eof"} /\ Flow(srv, call, nc) /\ Members(srv, nc)
    BY <1>1 DEF IInv, OK, Flow
  <2>2. Place(srv) = srv.ret /\ call.conn = Cur(srv)
    BY <1>1, Posts
  <2>3. call.conn # Listener
    BY <2>1, <2>2 DEF Flow, Serving, Cur, Members
  <2> QED
    BY <1>1, <2>3, Posts
<1>3. /\ w \in Worlds /\ w.call = NoCall /\ w.nc = nc /\ w.stale = FALSE
      /\ OK(srv, call, nc, w.pcb, {}, {})
  <2>1. CASE p # NULL /\ call.what = "data"
    <3>1. p \in Pcb
      BY <1>2, <2>1
    <3>2. w = tcp_recved(Taken, p, 1)
      BY <2>1
    <3> HIDE DEF p, w
    <3>3. /\ Taken \in Worlds /\ Taken.call = NoCall /\ Taken.nc = nc
          /\ Taken.pcb = pcb /\ Taken.stale = FALSE
      BY TakenIs
    <3>4. /\ WorldOK(srv, World, {}, {}) /\ World.call = call /\ World.nc = nc
          /\ World.pcb = pcb
      BY WorldIs
    <3>5. WorldOK(srv, WithPcb(World, p, Took(World.pcb[p], 1)), {}, {})
      BY <3>1, <3>4, RecvedPlain
    <3>6. Took(pcb[p], 1) \in Connection /\ World \in Worlds
      BY <3>1, <3>4, TookFacts DEF WorldOK, Worlds
    <3>7. OK(srv, call, nc, Put(pcb, p, Took(pcb[p], 1)), {}, {})
      BY <3>1, <3>4, <3>5, <3>6, WithFacts DEF WorldOK
    <3>8. w = WithPcb(Taken, p, Took(pcb[p], 1))
      BY <3>1, <3>2, <3>3, RecvedIs
    <3> QED
      BY <3>1, <3>3, <3>6, <3>7, <3>8, WithFacts
  <2>2. CASE ~(p # NULL /\ call.what = "data")
    BY <2>2, TakenIs DEF IInv
  <2> QED
    BY <2>1, <2>2
<1> HIDE DEF w
<1>4. WorldOK(srv, v, {}, {}) /\ Stays(nc, v.nc)
  BY <1>1, <1>3, PlainAnswer
<1> HIDE DEF v
<1> QED
  BY <1>1, <1>4, Comes

(* The netconn that starts to work on a call.                              *)
Works(n, state, msg) == [n EXCEPT !.state = state, !.current_msg = msg]

(* What starting to work leaves alone.                                     *)
LEMMA WorksFacts ==
  ASSUME NEW n \in Conn, NEW state \in {"WRITE", "CLOSE"}, NEW msg \in Words
  PROVE  /\ Works(n, state, msg) \in Conn
         /\ Works(n, state, msg).state = state
         /\ Works(n, state, msg).current_msg = msg
         /\ Works(n, state, msg).used = n.used
         /\ Works(n, state, msg).pcb = n.pcb
         /\ Works(n, state, msg).fatal = n.fatal
         /\ Works(n, state, msg).recvmbox = n.recvmbox
         /\ Works(n, state, msg).acceptmbox = n.acceptmbox
         /\ Works(n, state, msg).acceptOk = n.acceptOk
         /\ Works(n, state, msg).op_completed = n.op_completed
BY DEF Works, Conn

Begun(w, c, state, msg) ==
  [w EXCEPT !.nc[c].state = state, !.nc[c].current_msg = msg]

(* It replaces one netconn.                                                *)
LEMMA WorksIs ==
  ASSUME NEW w \in Worlds, NEW c \in Netconn, NEW msg \in Words,
         NEW state \in {"WRITE", "CLOSE"}
  PROVE  Begun(w, c, state, msg) = WithConn(w, c, Works(w.nc[c], state, msg))
<1> DEFINE n1 == [w.nc[c] EXCEPT !.state = state]
           n2 == [n1 EXCEPT !.current_msg = msg]
           w1 == WithConn(w, c, n1)
           w2 == WithConn(w1, c, n2)
<1>1. w.nc \in [Netconn -> Conn] /\ w.nc[c] \in Conn
  BY DEF Worlds
<1>2. n1 \in Conn /\ n2 \in Conn /\ n2 = Works(w.nc[c], state, msg)
  BY <1>1 DEF Conn, Works
<1>3. w1 = [w EXCEPT !.nc[c].state = state]
  BY DEF WithConn, Put, Worlds
<1> HIDE DEF n1, n2
<1>4. /\ w1 \in Worlds /\ w1.nc[c] = n1 /\ w1.nc = Put(w.nc, c, n1)
      /\ w1.call = w.call /\ w1.pcb = w.pcb /\ w1.stale = w.stale
  BY <1>1, <1>2, WithFacts
<1> HIDE DEF w1
<1>5. w2 = [w1 EXCEPT !.nc[c].current_msg = msg]
  BY <1>4 DEF WithConn, Put, Worlds, n2
<1>6. w2 = [w EXCEPT !.nc[c].state = state, !.nc[c].current_msg = msg]
  BY <1>3, <1>5
<1>7. Put(w1.nc, c, n2) = Put(w.nc, c, n2)
  BY <1>1, <1>2, <1>4 DEF Put
<1>8. w1 = WithConn(w, c, n1)
  BY DEF w1
<1>9. w2 = WithConn(w, c, n2)
  BY <1>4, <1>7, <1>8 DEF WithConn, Worlds
<1> QED
  BY <1>2, <1>6, <1>9 DEF Begun

(* do_write keeps the invariant.                                           *)
LEMMA WriteStep ==
  ASSUME IInv, NEW ok \in BOOLEAN, do_write(ok), Alloc(ok),
         UNCHANGED <<srv, fbuf>>
  PROVE  IInv' /\ Stays(nc, nc')
<1> DEFINE c == call.conn
           started == [Taken EXCEPT !.nc[c].state = "WRITE",
                                    !.nc[c].current_msg = call.what]
           v == IF nc[c].fatal \/ nc[c].state # "NONE" \/ nc[c].pcb = NULL
                  THEN Answered(Taken) ELSE do_writemore(started, c, ok)
<1>1. call.fn = "write" /\ Becomes(v) /\ fails' \in 0..MaxFail
  BY AllocOK DEF do_write, Take
<1>2. /\ Taken \in Worlds /\ Taken.call = NoCall /\ Taken.nc = nc
      /\ Taken.pcb = pcb /\ Taken.stale = FALSE
  BY TakenIs
<1>3. WorldOK(srv, v, {}, {}) /\ Stays(nc, v.nc)
  <2>1. CASE nc[c].fatal \/ nc[c].state # "NONE" \/ nc[c].pcb = NULL
    <3>1. v = Answered(Taken)
      BY <2>1
    <3> HIDE DEF v
    <3> QED
      BY <1>1, <1>2, <3>1, PlainAnswer DEF IInv
  <2>2. CASE ~(nc[c].fatal \/ nc[c].state # "NONE" \/ nc[c].pcb = NULL)
    <3> DEFINE n == Works(nc[c], "WRITE", call.what)
               w == WithConn(Taken, c, n)
    <3>1. /\ c \in Netconn /\ c = Cur(srv) /\ nc[c] \in Conn
          /\ OK(srv, call, nc, pcb, {}, {})
          /\ Place(srv) = srv.ret
          /\ c # Listener => nc[c].pcb \in Pcb \cup {NULL}
      BY <1>1, Posts
    <3>2. /\ call.what \in Words /\ call.what # "none"
          /\ srv.ret \in {"write_page", "close"}
          /\ Len(nc[c].recvmbox) <= DEFAULT_TCP_RECVMBOX_SIZE
          /\ Flow(srv, call, nc) /\ Members(srv, nc)
      BY <1>1, <3>1 DEF OK, Typed, Call, Flow, Conns
    <3>3. c # Listener
      BY <3>1, <3>2 DEF Flow, Serving, Cur, Members
    <3>4. nc[c].pcb \in Pcb
      BY <2>2, <3>1, <3>3
    <3>5. started = w
      <4>1. started = Begun(Taken, c, "WRITE", call.what)
        BY DEF Begun
      <4>2. Begun(Taken, c, "WRITE", call.what) =
              WithConn(Taken, c, Works(Taken.nc[c], "WRITE", call.what))
        BY <1>2, <3>1, <3>2, WorksIs
      <4> QED
        BY <1>2, <4>1, <4>2
    <3>6. v = do_writemore(w, c, ok)
      BY <2>2, <3>5
    <3>7. n \in Conn /\ n.state = "WRITE" /\ ConnBegins(srv, call, nc, c, n)
      BY <1>1, <3>1, <3>2, <3>4, WorksFacts DEF ConnBegins
    <3> HIDE DEF n, c, v
    <3>8. OK(srv, NoCall, Put(nc, c, n), pcb, {}, {}) /\ Stays(nc, Put(nc, c, n))
      BY <3>1, <3>7, WorkBegins
    <3>9. /\ w \in Worlds /\ w.call = NoCall /\ w.nc = Put(nc, c, n)
          /\ w.pcb = pcb /\ w.stale = FALSE /\ w.nc[c] = n
      BY <1>2, <3>1, <3>7, WithFacts
    <3> HIDE DEF w
    <3>10. WorldOK(srv, w, {}, {})
      BY <3>8, <3>9 DEF WorldOK
    <3>11. /\ WorldOK(srv, do_writemore(w, c, ok), {}, {})
           /\ Stays(w.nc, do_writemore(w, c, ok).nc)
      BY <3>1, <3>7, <3>9, <3>10, WriteWorks
    <3> QED
      BY <3>6, <3>8, <3>9, <3>11 DEF Stays
  <2> QED
    BY <2>1, <2>2
<1> HIDE DEF v
<1> QED
  BY <1>1, <1>3, Comes

(* netconn_drain of a netconn whose mailbox of connections is empty.       *)
LEMMA DatasNat ==
  ASSUME NEW mbox \in Seq(Words)
  PROVE  Datas(mbox) \in Nat
<1>1. Len(mbox) \in Nat /\ DOMAIN mbox = 1..Len(mbox)
  OBVIOUS
<1>2. IsFiniteSet(DOMAIN mbox)
  BY <1>1, FS_Interval
<1>3. {i \in DOMAIN mbox : mbox[i] = "data"} \in SUBSET (DOMAIN mbox)
  OBVIOUS
<1>4. IsFiniteSet({i \in DOMAIN mbox : mbox[i] = "data"})
  BY <1>2, <1>3, FS_Subset
<1> QED
  BY <1>4, FS_CardinalityType DEF Datas

(* What netconn_drain leaves of the netconn.                               *)
LEMMA DrainedFacts ==
  ASSUME NEW n \in Conn
  PROVE  /\ Drained(n) \in Conn /\ Drained(n).recvmbox = <<>>
         /\ Drained(n).acceptmbox = <<>> /\ Drained(n).acceptOk = FALSE
         /\ Drained(n).used = n.used /\ Drained(n).state = n.state
         /\ Drained(n).pcb = n.pcb /\ Drained(n).fatal = n.fatal
         /\ Drained(n).current_msg = n.current_msg
         /\ Drained(n).op_completed = n.op_completed
<1>1. <<>> \in Seq(Words) /\ <<>> \in Seq(Netconn \cup {NULL})
  OBVIOUS
<1> QED
  BY <1>1 DEF Drained, Conn

(* Where nothing waits to be accepted it replaces one netconn and opens    *)
(* the window.                                                             *)
LEMMA DrainIs ==
  ASSUME NEW w \in Worlds, NEW c \in Netconn, w.nc[c].acceptmbox = <<>>
  PROVE  LET u == WithConn(w, c, Drained(w.nc[c])) IN
         netconn_drain(w, c) =
           IF w.nc[c].pcb \in Pcb
             THEN tcp_recved(u, w.nc[c].pcb, Datas(w.nc[c].recvmbox))
           ELSE u
<1> DEFINE n == w.nc[c]
           Waiting == {n.acceptmbox[i] : i \in DOMAIN n.acceptmbox} \ {NULL}
           Aborted == {w.nc[d].pcb : d \in Waiting} \ {NULL}
           N == [d \in Netconn |-> IF d = c THEN Drained(n)
                                   ELSE IF d \in Waiting THEN NoConn
                                   ELSE w.nc[d]]
           P == [p \in Pcb |-> IF p \in Aborted THEN NoPcb ELSE w.pcb[p]]
<1>1. w.nc \in [Netconn -> Conn] /\ w.pcb \in [Pcb -> Connection]
  BY DEF Worlds
<1>2. Waiting = {}
  OBVIOUS
<1>3. Aborted = {}
  BY <1>2
<1>4. N = Put(w.nc, c, Drained(n))
  BY <1>1, <1>2 DEF Put
<1>5. P = w.pcb
  BY <1>1, <1>3
<1>6. netconn_drain(w, c) =
        LET u == [w EXCEPT !.nc = N, !.pcb = P] IN
        IF n.pcb \in Pcb THEN tcp_recved(u, n.pcb, Datas(n.recvmbox)) ELSE u
  BY DEF netconn_drain
<1> HIDE DEF N, P
<1>7. [w EXCEPT !.nc = N, !.pcb = P] = WithConn(w, c, Drained(n))
  BY <1>4, <1>5 DEF WithConn, Worlds
<1> QED
  BY <1>6, <1>7

(* What is drained and then closed.                                        *)
LEMMA ClosingOK ==
  ASSUME IInv, call.fn \in {"close", "delconn"}, NEW ok \in BOOLEAN,
         nc[call.conn].pcb # NULL
  PROVE  LET v == do_close_internal(Closing(netconn_drain(Taken, call.conn),
                                            call.conn), call.conn, ok)
         IN WorldOK(srv, v, {}, {}) /\ Stays(nc, v.nc)
<1> DEFINE c == call.conn
           p == nc[c].pcb
           k == Datas(nc[c].recvmbox)
           d == Drained(nc[c])
           n == Works(d, "CLOSE", "close")
           w1 == WithConn(Taken, c, d)
           b == Took(pcb[p], k)
           w2 == WithPcb(w1, p, b)
           w3 == WithConn(w2, c, n)
           u == WithConn(Taken, c, n)
<1>1. /\ c \in Netconn /\ c = Cur(srv) /\ nc[c] \in Conn
      /\ OK(srv, call, nc, pcb, {}, {}) /\ Place(srv) = srv.ret
      /\ c # Listener => nc[c].pcb \in Pcb \cup {NULL}
      /\ pcb \in [Pcb -> Connection] /\ nc \in [Netconn -> Conn]
  BY Posts
<1>2. nc[c].acceptOk = FALSE /\ nc[c].acceptmbox = <<>> /\ p \in Pcb
  <2>1. /\ Conns(nc) /\ Listens(nc) /\ Flow(srv, call, nc)
        /\ Typed(srv, call, nc, pcb)
    BY <1>1 DEF OK
  <2>2. CASE c # Listener
    BY <1>1, <2>1, <2>2 DEF Conns
  <2>3. CASE c = Listener
    <3>1. srv.newconn = NULL
      BY <1>1, <2>3, <2>1 DEF Cur, OK, Members
    <3>2. Place(srv) \in {"delete_listener", "free_listener"}
      BY <1>1, <2>1, <3>1 DEF Flow, Serving
    <3>3. nc[c].acceptOk # TRUE
      BY <2>1, <2>3, <3>2 DEF Flow, Serving
    <3>4. nc[c].acceptOk = FALSE
      BY <1>1, <3>3 DEF Conn
    <3> QED
      BY <1>1, <2>1, <2>3, <3>4 DEF Listens, Conn
  <2> QED
    BY <2>2, <2>3
<1>3. /\ Taken \in Worlds /\ Taken.call = NoCall /\ Taken.nc = nc
      /\ Taken.pcb = pcb /\ Taken.stale = FALSE
  BY TakenIs
<1>4. /\ d \in Conn /\ d.recvmbox = <<>>
      /\ d.acceptmbox = <<>> /\ d.acceptOk = FALSE
      /\ d.used = nc[c].used /\ d.pcb = nc[c].pcb /\ d.fatal = nc[c].fatal
      /\ d.op_completed = nc[c].op_completed
  BY <1>1, DrainedFacts
<1>5. /\ n \in Conn /\ n.state = "CLOSE" /\ n.current_msg = "close"
      /\ n.used = nc[c].used /\ n.pcb = nc[c].pcb /\ n.fatal = nc[c].fatal
      /\ n.recvmbox = <<>> /\ n.acceptmbox = <<>> /\ n.acceptOk = FALSE
      /\ n.op_completed = nc[c].op_completed
  <2> HIDE DEF d
  <2>1. "close" \in Words
    BY DEF Words
  <2> QED
    BY <1>4, <2>1, WorksFacts
<1>6. k \in Nat /\ b \in Connection
  <2>1. k \in Nat
    BY <1>1, DatasNat DEF Conn
  <2> HIDE DEF k
  <2> QED
    BY <1>1, <1>2, <2>1, TookFacts
<1>7. netconn_drain(Taken, c) = tcp_recved(w1, p, k)
  BY <1>1, <1>2, <1>3, DrainIs
<1>24. c \in Netconn /\ p \in Pcb /\ d \in Conn /\ n \in Conn
  BY <1>1, <1>2, <1>4, <1>5
<1> HIDE DEF c, p, k, d, n, b, w2, w3, u
<1>8. /\ w1 \in Worlds /\ w1.call = NoCall /\ w1.pcb = pcb /\ w1.stale = FALSE
      /\ w1.nc = Put(nc, c, d)
  <2>1. /\ w1 \in Worlds /\ w1.call = Taken.call /\ w1.pcb = Taken.pcb
        /\ w1.stale = Taken.stale /\ w1.nc = Put(Taken.nc, c, d)
    BY <1>3, <1>24, ConnWorld
  <2> QED
    BY <1>3, <2>1
<1> HIDE DEF w1
<1>9. tcp_recved(w1, p, k) = w2
  BY <1>2, <1>6, <1>8, RecvedIs DEF w2, b
<1>10. /\ w2 \in Worlds /\ w2.call = NoCall /\ w2.pcb = Put(pcb, p, b)
       /\ w2.stale = FALSE /\ w2.nc = Put(nc, c, d)
  BY <1>2, <1>6, <1>8, WithFacts DEF w2
<1>11. w2.nc[c] = d
  BY <1>1, <1>4, <1>10 DEF Put
<1>12. Closing(w2, c) = w3
  <2>1. Closing(w2, c) = Begun(w2, c, "CLOSE", "close") /\ "close" \in Words
    BY DEF Closing, Begun, Words
  <2>2. Begun(w2, c, "CLOSE", "close") =
          WithConn(w2, c, Works(w2.nc[c], "CLOSE", "close"))
    <3>1. c \in Netconn /\ w2 \in Worlds /\ "close" \in Words
      BY <1>10, <1>24, <2>1
    <3> QED
      BY <3>1, WorksIs
  <2> QED
    BY <1>11, <2>1, <2>2 DEF n, w3
<1>13. /\ w3 \in Worlds /\ w3.call = NoCall /\ w3.pcb = Put(pcb, p, b)
       /\ w3.stale = FALSE /\ w3.nc = Put(nc, c, n) /\ w3.nc[c] = n
  <2>1. /\ w3 \in Worlds /\ w3.call = NoCall /\ w3.pcb = Put(pcb, p, b)
        /\ w3.stale = FALSE /\ w3.nc = Put(w2.nc, c, n) /\ w3.nc[c] = n
    <3>1. /\ w3 \in Worlds /\ w3.call = w2.call /\ w3.pcb = w2.pcb
          /\ w3.stale = w2.stale /\ w3.nc = Put(w2.nc, c, n)
      BY <1>10, <1>24, ConnWorld DEF w3
    <3>2. Put(w2.nc, c, n)[c] = n
      BY <1>10, <1>24, WithFacts
    <3> QED
      BY <1>10, <3>1, <3>2
  <2>2. Put(w2.nc, c, n) = Put(nc, c, n)
    BY <1>1, <1>4, <1>5, <1>10 DEF Put
  <2> QED
    BY <2>1, <2>2
<1>14. ConnBegins(srv, call, nc, c, n)
  <2>1. /\ n.acceptmbox = nc[c].acceptmbox /\ n.acceptOk = nc[c].acceptOk
        /\ n.state = (IF call.fn = "write" THEN "WRITE" ELSE "CLOSE")
        /\ Len(n.recvmbox) <= DEFAULT_TCP_RECVMBOX_SIZE
    <3>1. n.acceptmbox = nc[c].acceptmbox /\ n.acceptOk = nc[c].acceptOk
      BY <1>2, <1>5
    <3>2. n.state = (IF call.fn = "write" THEN "WRITE" ELSE "CLOSE")
      BY <1>5
    <3>3. Len(n.recvmbox) = 0
      BY <1>5
    <3> QED
      BY <3>1, <3>2, <3>3, AcceptAssumption
  <2>2. nc[c].pcb \in Pcb
    BY <1>2 DEF p
  <2> QED
    BY <1>1, <1>5, <2>1, <2>2 DEF ConnBegins
<1>15. OK(srv, NoCall, Put(nc, c, n), pcb, {}, {}) /\ Stays(nc, Put(nc, c, n))
  BY <1>1, <1>5, <1>14, WorkBegins
<1>16. /\ u \in Worlds /\ u.call = NoCall /\ u.nc = Put(nc, c, n)
       /\ u.pcb = pcb /\ u.stale = FALSE
  BY <1>1, <1>3, <1>5, ConnWorld DEF u
<1>17. WorldOK(srv, u, {}, {})
  BY <1>15, <1>16 DEF WorldOK
<1>18. WorldOK(srv, WithPcb(u, p, Took(u.pcb[p], k)), {}, {})
  <2>1. k \in Nat /\ p \in Pcb
    BY <1>6, <1>24
  <2> QED
    BY <1>17, <2>1, RecvedPlain
<1>19. WithPcb(u, p, Took(u.pcb[p], k)).pcb = Put(pcb, p, b)
  <2>1. Took(u.pcb[p], k) = b
    BY <1>16 DEF b
  <2> QED
    BY <1>2, <1>6, <1>16, <2>1, WithFacts
<1>20. /\ WithPcb(u, p, Took(u.pcb[p], k)).nc = Put(nc, c, n)
       /\ WithPcb(u, p, Took(u.pcb[p], k)).call = NoCall
  <2>1. Took(u.pcb[p], k) = b
    BY <1>16 DEF b
  <2> QED
    BY <1>2, <1>6, <1>16, <2>1, WithFacts
<1>21. WorldOK(srv, w3, {}, {})
  BY <1>13, <1>18, <1>19, <1>20 DEF WorldOK
<1>22. /\ WorldOK(srv, do_close_internal(w3, c, ok), {}, {})
       /\ Stays(w3.nc, do_close_internal(w3, c, ok).nc)
  BY <1>1, <1>5, <1>13, <1>21, CloseWorks
<1>23. /\ WorldOK(srv, do_close_internal(w3, c, ok), {}, {})
       /\ Stays(nc, do_close_internal(w3, c, ok).nc)
  BY <1>13, <1>15, <1>22 DEF Stays
<1> QED
  BY <1>7, <1>9, <1>12, <1>23 DEF c

(* do_close keeps the invariant.                                           *)
LEMMA CloseStep ==
  ASSUME IInv, NEW ok \in BOOLEAN, do_close(ok), Alloc(ok),
         UNCHANGED <<srv, fbuf>>
  PROVE  IInv' /\ Stays(nc, nc')
<1> DEFINE c == call.conn
           x == do_close_internal(Closing(netconn_drain(Taken, c), c), c, ok)
           v == IF ~Idle(c) \/ nc[c].pcb = NULL THEN Answered(Taken) ELSE x
<1>1. call.fn = "close" /\ Becomes(v) /\ fails' \in 0..MaxFail
  BY AllocOK DEF do_close, Take
<1>2. WorldOK(srv, v, {}, {}) /\ Stays(nc, v.nc)
  <2>1. WorldOK(srv, Answered(Taken), {}, {}) /\ Stays(nc, Answered(Taken).nc)
    BY <1>1, TakenIs, PlainAnswer DEF IInv
  <2>2. nc[c].pcb # NULL => WorldOK(srv, x, {}, {}) /\ Stays(nc, x.nc)
    BY <1>1, ClosingOK
  <2> HIDE DEF x
  <2> QED
    BY <2>1, <2>2
<1> HIDE DEF v
<1> QED
  BY <1>1, <1>2, Comes

(* do_delconn keeps the invariant.                                         *)
LEMMA DelconnStep ==
  ASSUME IInv, NEW ok \in BOOLEAN, do_delconn(ok), Alloc(ok),
         UNCHANGED <<srv, fbuf>>
  PROVE  IInv' /\ Stays(nc, nc')
<1> DEFINE c == call.conn
           drained == netconn_drain(Taken, c)
           x == do_close_internal(Closing(drained, c), c, ok)
           v == IF ~Idle(c) THEN Answered(Taken)
                ELSE IF nc[c].pcb = NULL THEN Answered(drained) ELSE x
<1>1. call.fn = "delconn" /\ Becomes(v) /\ fails' \in 0..MaxFail
  BY AllocOK DEF do_delconn, Take
<1>2. /\ c \in Netconn /\ c = Cur(srv) /\ nc[c] \in Conn
      /\ nc[c].state \in {"NONE", "LISTEN"}
      /\ OK(srv, call, nc, pcb, {}, {}) /\ nc \in [Netconn -> Conn]
  BY <1>1, Posts
<1>3. v = IF nc[c].pcb = NULL THEN Answered(drained) ELSE x
  BY <1>2 DEF Idle
<1>4. WorldOK(srv, v, {}, {}) /\ Stays(nc, v.nc)
  <2>1. CASE nc[c].pcb = NULL
    <3> DEFINE d == Drained(nc[c])
               n == Ans(d)
               w1 == WithConn(Taken, c, d)
               w2 == WithConn(w1, c, n)
    <3>1. nc[c].acceptOk = FALSE /\ nc[c].acceptmbox = <<>>
      <4>1. Conns(nc) /\ Listens(nc) /\ NULL # ListenPcb
        BY <1>2, Numbers DEF OK
      <4>2. CASE c # Listener
        BY <1>2, <4>1, <4>2 DEF Conns
      <4>3. CASE c = Listener
        <5>1. nc[c].acceptOk = FALSE
          BY <1>2, <2>1, <4>1, <4>3 DEF Listens, Conn
        <5> QED
          BY <4>1, <4>3, <5>1 DEF Listens
      <4> QED
        BY <4>2, <4>3
    <3>2. /\ Taken \in Worlds /\ Taken.call = NoCall /\ Taken.nc = nc
          /\ Taken.pcb = pcb /\ Taken.stale = FALSE
      BY TakenIs
    <3>3. drained = w1
      BY <1>2, <2>1, <3>1, <3>2, DrainIs, Numbers
    <3>4. /\ d \in Conn /\ d.recvmbox = <<>>
          /\ d.acceptmbox = <<>> /\ d.acceptOk = FALSE
          /\ d.used = nc[c].used /\ d.state = nc[c].state
          /\ d.pcb = nc[c].pcb /\ d.fatal = nc[c].fatal
          /\ d.current_msg = nc[c].current_msg
      BY <1>2, DrainedFacts
    <3> HIDE DEF d
    <3>5. n \in Conn /\ ConnAnswers(srv, call, nc, c, n)
      <4>1. Len(<<>>) <= DEFAULT_TCP_RECVMBOX_SIZE
        BY AcceptAssumption
      <4> QED
        BY <1>1, <1>2, <2>1, <3>1, <3>4, <4>1, AnsFacts DEF ConnAnswers
    <3>6. /\ w1 \in Worlds /\ w1.call = NoCall /\ w1.pcb = pcb
          /\ w1.stale = FALSE /\ w1.nc = Put(nc, c, d) /\ w1.nc[c] = d
      BY <1>2, <3>2, <3>4, WithFacts
    <3>7. v = Answered(w1)
      BY <1>3, <2>1, <3>3
    <3> HIDE DEF w1, v
    <3>8. v = w2
      BY <1>2, <3>6, <3>7 DEF Answered, WithConn, Put, Ans, Worlds
    <3> HIDE DEF n
    <3>9. /\ w2 \in Worlds /\ w2.call = NoCall /\ w2.pcb = pcb
          /\ w2.stale = FALSE /\ w2.nc = Put(w1.nc, c, n)
      BY <1>2, <3>5, <3>6, WithFacts
    <3>10. w2.nc = Put(nc, c, n)
      BY <1>2, <3>4, <3>5, <3>6, <3>9 DEF Put
    <3>11. OK(srv, NoCall, Put(nc, c, n), pcb, {}, {}) /\ Stays(nc, Put(nc, c, n))
      BY <1>2, <3>5, Answers
    <3> QED
      BY <3>8, <3>9, <3>10, <3>11 DEF WorldOK
  <2>2. CASE nc[c].pcb # NULL
    <3>1. v = x
      BY <1>3, <2>2
    <3>2. WorldOK(srv, x, {}, {}) /\ Stays(nc, x.nc)
      BY <1>1, <2>2, ClosingOK
    <3> QED
      BY <3>1, <3>2
  <2> QED
    BY <2>1, <2>2
<1> HIDE DEF v
<1> QED
  BY <1>1, <1>4, Comes


(* The listening netconn gets its connection or gives it up for the one it *)
(* listens with.                                                           *)
ListenerSet(sv, N, P, n, p, b) ==
  /\ n.used = TRUE /\ n.fatal = FALSE /\ n.acceptmbox = <<>>
  /\ n.op_completed = 1 /\ n.current_msg = "none"
  /\ Len(n.recvmbox) <= DEFAULT_TCP_RECVMBOX_SIZE
  /\ n.state \in {"NONE", "LISTEN"}
  /\ n.acceptOk = TRUE <=> n.state = "LISTEN"
  /\ n.acceptOk = TRUE <=> n.pcb = ListenPcb
  /\ n.acceptOk = TRUE => sv.ret = "accept"
  /\ P[p].cb = "none" \/ P[p].arg = Listener
  /\ N[Listener].pcb \in {NULL, p}
  /\ \/ b = NoPcb /\ n.pcb \in {NULL, ListenPcb}
     \/ /\ b.state = "CLOSED" /\ b.arg = Listener /\ b.cb = "all"
        /\ b.unread = 0 /\ b.refused = FALSE /\ n.pcb = p

(* Such a change of the listening netconn keeps the invariant.             *)
LEMMA ListenerSets ==
  ASSUME NEW sv, NEW cl, NEW N, NEW P, OK(sv, cl, N, P, {}, {}),
         cl.fn \in {"newconn", "listen"},
         NEW n \in Conn, NEW p \in Pcb, NEW b \in Connection,
         ListenerSet(sv, N, P, n, p, b)
  PROVE  /\ OK(sv, NoCall, Put(N, Listener, n), Put(P, p, b), {}, {})
         /\ Stays(N, Put(N, Listener, n))
<1> DEFINE M == Put(N, Listener, n)
           Q == Put(P, p, b)
<1>a. M = [N EXCEPT ![Listener] = n] /\ Q = [P EXCEPT ![p] = b]
  BY DEF Put
<1> HIDE DEF M, Q
<1> USE DEF ListenerSet
<1>0. /\ Typed(sv, cl, N, P)
      /\ Links(N, P) /\ Young(P) /\ Opening(N, P) /\ Conns(N) /\ Listens(N)
      /\ Members(sv, N) /\ Calls(sv, cl, N) /\ Flow(sv, cl, N)
      /\ Fed(sv, N, P, {}) /\ Window(P, {})
  BY DEF OK
<1>n. /\ Listener \in Netconn /\ NULL \notin Netconn /\ NULL \notin Pcb
      /\ ListenPcb \notin Pcb /\ ListenPcb # NULL
  BY Numbers
<1>1. /\ M \in [Netconn -> Conn] /\ M[Listener] = n
      /\ \A d \in Netconn : d # Listener => M[d] = N[d]
      /\ Q \in [Pcb -> Connection] /\ Q[p] = b
      /\ \A q \in Pcb : q # p => Q[q] = P[q]
      /\ N[Listener] \in Conn
  BY <1>0, <1>a, <1>n DEF Typed
<1>2. /\ sv.pc = "wait" /\ sv.ret \in {"bind", "accept"} /\ Place(sv) = sv.ret
      /\ sv.newconn = NULL /\ Cur(sv) = Listener
  <2>1. sv.pc = "wait" /\ sv.ret \in {"bind", "accept"}
    BY <1>0 DEF Calls, Flow
  <2>2. Place(sv) = sv.ret
    BY <2>1 DEF Place
  <2>3. sv.newconn = NULL
    BY <1>0, <2>1, <2>2 DEF Flow, Serving
  <2> QED
    BY <2>1, <2>2, <2>3 DEF Cur
<1>3. /\ N[Listener].acceptOk = FALSE /\ N[Listener].acceptmbox = <<>>
      /\ N[Listener].used = TRUE
  <2>1. N[Listener].pcb # ListenPcb
    BY <1>n
  <2>2. N[Listener].acceptOk = FALSE
    BY <1>0, <1>1, <2>1 DEF Listens, Conn
  <2> QED
    BY <1>0, <1>2, <2>2 DEF Listens, Flow
<1>4. Links(M, Q)
  <2>1. ASSUME NEW q \in Pcb, Q[q].cb # "none"
        PROVE  /\ Q[q].arg \in Netconn /\ M[Q[q].arg].pcb = q
               /\ Q[q].cb = "norecv" => M[Q[q].arg].state = "CLOSE"
    <3>1. CASE q = p
      BY <1>1, <1>n, <2>1, <3>1, NoPcbType
    <3>2. CASE q # p
      <4>1. Q[q] = P[q] /\ P[q].cb # "none"
        BY <1>1, <2>1, <3>2
      <4>2. /\ P[q].arg \in Netconn /\ N[P[q].arg].pcb = q
            /\ P[q].cb = "norecv" => N[P[q].arg].state = "CLOSE"
        BY <1>0, <4>1 DEF Links
      <4>3. P[q].arg # Listener
        BY <1>n, <3>2, <4>2
      <4> QED
        BY <1>1, <4>1, <4>2, <4>3
    <3> QED
      BY <3>1, <3>2
  <2>2. ASSUME NEW c \in Netconn, M[c].pcb \in Pcb
        PROVE  /\ Q[M[c].pcb].arg = c /\ Q[M[c].pcb].cb # "none"
               /\ Q[M[c].pcb].state \in IF c = Listener THEN {"CLOSED"}
                                        ELSE {"ESTABLISHED", "CLOSE_WAIT"}
    <3>1. CASE c = Listener
      BY <1>1, <1>n, <2>2, <3>1
    <3>2. CASE c # Listener
      <4>1. M[c] = N[c]
        BY <1>1, <3>2
      <4>2. /\ P[N[c].pcb].arg = c /\ P[N[c].pcb].cb # "none"
            /\ P[N[c].pcb].state \in {"ESTABLISHED", "CLOSE_WAIT"}
        BY <1>0, <2>2, <3>2, <4>1 DEF Links
      <4>3. N[c].pcb # p
        BY <3>2, <4>2
      <4> QED
        BY <1>1, <2>2, <3>2, <4>1, <4>2, <4>3
    <3> QED
      BY <3>1, <3>2
  <2> QED
    BY <2>1, <2>2 DEF Links
<1>5. Young(Q)
  BY <1>0, <1>1, NoPcbType DEF Young
<1>6. Opening(M, Q)
  <2>1. b.state # "SYN_RCVD"
    BY NoPcbType
  <2> QED
    BY <1>0, <1>1, <1>3, <2>1 DEF Opening
<1>7. Conns(M)
  <2>1. Len(n.acceptmbox) <= DEFAULT_ACCEPTMBOX_SIZE
    BY AcceptAssumption
  <2>2. \A d \in Netconn :
          /\ M[d].used = FALSE => M[d] = NoConn
          /\ Len(M[d].recvmbox) <= DEFAULT_TCP_RECVMBOX_SIZE
          /\ Len(M[d].acceptmbox) <= DEFAULT_ACCEPTMBOX_SIZE
    BY <1>0, <1>1, <2>1 DEF Conns
  <2> QED
    BY <1>0, <1>1, <2>2 DEF Conns
<1>8. Listens(M)
  BY <1>1 DEF Listens
<1>9. Members(sv, M) /\ \A d : Waits(M, d) <=> Waits(N, d)
  <2>1. \A d \in Netconn : M[d].used = N[d].used
    BY <1>1, <1>3
  <2>2. M[Listener].acceptmbox = N[Listener].acceptmbox
    BY <1>1, <1>3
  <2> QED
    BY <1>0, <2>1, <2>2, MembersStay
<1>10. Calls(sv, NoCall, M)
  <2>1. ASSUME NEW d \in Netconn, d # Listener
        PROVE  M[d].op_completed # 1 /\ ~Working(M[d].state)
               /\ M[d].current_msg = "none"
    BY <1>0, <1>1, <2>1 DEF Calls
  <2>2. ~Working(n.state)
    BY DEF Working
  <2> QED
    BY <1>1, <1>2, <2>1, <2>2, NoCallType DEF Calls, Working
<1>11. Flow(sv, NoCall, M)
  BY <1>0, <1>1, <1>2, NoCallType DEF Flow, Serving
<1>12. Fed(sv, M, Q, {})
  <2>1. \A d : ~Waits(M, d)
    BY <1>3, <1>9 DEF Waits
  <2> QED
    BY <1>2, <1>n, <2>1 DEF Fed, Fresh
<1>13. Window(Q, {})
  <2>1. b.unread = 0
    BY NoPcbType
  <2>2. \A q \in Pcb : P[q].unread <= TCP_WND
    BY <1>0, AcceptAssumption DEF Window, Typed, Connection
  <2>3. \A q \in Pcb : Q[q].unread <= TCP_WND /\ Q[q].unread \in Nat
    BY <1>1, <2>1, <2>2, AcceptAssumption DEF Connection
  <2> QED
    BY <2>3, AcceptAssumption DEF Window
<1> QED
  BY <1>0, <1>1, <1>3, <1>4, <1>5, <1>6, <1>7, <1>8, <1>9, <1>10, <1>11,
     <1>12, <1>13, NoCallType DEF OK, Typed, Stays, M, Q


(* pcb_new: the listening netconn gets a connection, or none.              *)
LEMMA NewconnStep ==
  ASSUME IInv, NEW ok \in BOOLEAN, do_newconn(ok), Alloc(ok),
         UNCHANGED <<srv, fbuf>>
  PROVE  IInv' /\ Stays(nc, nc')
<1> DEFINE c == call.conn
           p == Least(FreePcb)
           b == [NoPcb EXCEPT !.state = "CLOSED", !.arg = c, !.cb = "all"]
           w == [Taken EXCEPT !.pcb[p] = b, !.nc[c].pcb = p]
           v == Answered(IF ok THEN w ELSE Taken)
<1>1. /\ call.fn = "newconn" /\ Becomes(v) /\ fails' \in 0..MaxFail
      /\ FreePcb # {}
  BY AllocOK DEF do_newconn, Take
<1>2. /\ Taken \in Worlds /\ Taken.call = NoCall /\ Taken.nc = nc
      /\ Taken.pcb = pcb /\ Taken.stale = FALSE
  BY TakenIs
<1>3. WorldOK(srv, v, {}, {}) /\ Stays(nc, v.nc)
  <2>1. CASE ~ok
    BY <1>1, <1>2, <2>1, PlainAnswer DEF IInv
  <2>2. CASE ok
    <3> DEFINE n == [nc[c] EXCEPT !.pcb = p, !.op_completed = 1]
    <3>1. /\ c \in Netconn /\ c = Cur(srv) /\ nc[c] \in Conn
          /\ nc[c].state \in {"NONE", "LISTEN"}
          /\ OK(srv, call, nc, pcb, {}, {}) /\ Place(srv) = srv.ret
          /\ pcb \in [Pcb -> Connection] /\ nc \in [Netconn -> Conn]
      BY <1>1, Posts
    <3>2. p \in Pcb /\ pcb[p].state = "FREE"
      <4>1. FreePcb \subseteq Pcb /\ FreePcb \subseteq Nat
        BY Numbers DEF FreePcb
      <4>2. p \in FreePcb
        BY <1>1, <4>1, LeastIs
      <4> QED
        BY <4>2 DEF FreePcb
    <3>3. /\ Links(nc, pcb) /\ Listens(nc) /\ Flow(srv, call, nc)
          /\ Conns(nc) /\ Members(srv, nc) /\ Calls(srv, call, nc)
      BY <3>1 DEF OK
    <3>4. srv.ret = "bind" /\ nc[Listener].pcb = NULL
      BY <1>1, <3>3 DEF Flow
    <3>5. c = Listener
      BY <3>1, <3>3, <3>4 DEF Flow, Serving, Cur
    <3>6. b \in Connection
      BY <3>1, NoPcbType DEF NoPcb, Connection, Active
    <3>7. /\ n \in Conn /\ n.pcb = p /\ n.op_completed = 1
          /\ n.used = nc[c].used /\ n.state = nc[c].state
          /\ n.fatal = nc[c].fatal /\ n.recvmbox = nc[c].recvmbox
          /\ n.acceptmbox = nc[c].acceptmbox /\ n.acceptOk = nc[c].acceptOk
          /\ n.current_msg = nc[c].current_msg
      BY <3>1, <3>2 DEF Conn
    <3>8. v = Answered(w)
      BY <2>2
    <3>9. /\ v \in Worlds /\ v.call = NoCall /\ v.stale = FALSE
          /\ v.nc = Put(nc, c, n) /\ v.pcb = Put(pcb, p, b)
      <4> HIDE DEF p, b, v
      <4> QED
        BY <1>2, <3>1, <3>2, <3>6, <3>7, <3>8 DEF Answered, Put, Worlds
    <3>10. /\ b.state = "CLOSED" /\ b.arg = Listener /\ b.cb = "all"
           /\ b.unread = 0 /\ b.refused = FALSE
      BY <3>5 DEF NoPcb
    <3>11. pcb[p].cb = "none"
      <4>1. ASSUME pcb[p].cb # "none"
            PROVE  FALSE
        BY <3>2, <3>3, <4>1 DEF Links
      <4> QED
        BY <4>1
    <3>12. /\ nc[c].acceptOk = FALSE /\ nc[c].acceptmbox = <<>>
           /\ nc[c].used = TRUE /\ nc[c].fatal = FALSE
           /\ nc[c].state = "NONE" /\ nc[c].current_msg = "none"
           /\ Len(nc[c].recvmbox) <= DEFAULT_TCP_RECVMBOX_SIZE
      <4>1. nc[c].acceptOk = FALSE
        BY <3>1, <3>3, <3>4, <3>5, Numbers DEF Listens, Conn
      <4>2. nc[c].state # "LISTEN" /\ nc[c].acceptmbox = <<>> /\ nc[c].fatal = FALSE
        BY <3>3, <3>5, <4>1 DEF Listens
      <4>3. nc[c].state = "NONE" /\ nc[c].current_msg = "none"
        BY <3>1, <3>3, <4>2 DEF Calls, Working
      <4> QED
        BY <3>1, <3>3, <3>4, <3>5, <4>1, <4>2, <4>3 DEF Flow, Conns
    <3> HIDE DEF p, b, n, v
    <3>13. ListenerSet(srv, nc, pcb, n, p, b)
      BY <3>2, <3>4, <3>5, <3>7, <3>10, <3>11, <3>12, Numbers DEF ListenerSet
    <3>14. /\ OK(srv, NoCall, Put(nc, Listener, n), Put(pcb, p, b), {}, {})
           /\ Stays(nc, Put(nc, Listener, n))
      BY <1>1, <3>1, <3>2, <3>6, <3>7, <3>13, ListenerSets
    <3> QED
      BY <3>5, <3>9, <3>14 DEF WorldOK
  <2> QED
    BY <2>1, <2>2
<1> HIDE DEF v
<1> QED
  BY <1>1, <1>3, Comes

(* tcp_listen: the listening netconn gives up its connection for a smaller *)
(* one, which it gets or not.                                              *)
LEMMA ListenCallStep ==
  ASSUME IInv, NEW ok1 \in BOOLEAN, NEW ok2 \in BOOLEAN,
         do_listen(ok1, ok2), Alloc(ok1 /\ ok2), UNCHANGED <<srv, fbuf>>
  PROVE  IInv' /\ Stays(nc, nc')
<1> DEFINE c == call.conn
           p == nc[c].pcb
           w1 == [Taken EXCEPT !.pcb[p] = NoPcb, !.nc[c].pcb = NULL,
                               !.nc[c].recvOk = FALSE]
           w2 == [Taken EXCEPT !.pcb[p] = NoPcb, !.nc[c].pcb = ListenPcb,
                               !.nc[c].recvOk = FALSE,
                               !.nc[c].acceptOk = TRUE,
                               !.nc[c].state = "LISTEN"]
           v == Answered(CASE ~ok1 -> Taken
                           [] ok1 /\ ~ok2 -> w1
                           [] OTHER -> w2)
<1>1. call.fn = "listen" /\ Becomes(v)
  BY DEF do_listen, Take
<1>t. fails' \in 0..MaxFail
  BY AllocOK
<1>2. /\ Taken \in Worlds /\ Taken.call = NoCall /\ Taken.nc = nc
      /\ Taken.pcb = pcb /\ Taken.stale = FALSE
  BY TakenIs
<1>3. WorldOK(srv, v, {}, {}) /\ Stays(nc, v.nc)
  <2>1. CASE ~ok1
    <3>1. v = Answered(Taken)
      BY <2>1
    <3> HIDE DEF v
    <3> QED
      BY <1>1, <1>2, <3>1, PlainAnswer DEF IInv
  <2>2. CASE ok1
    <3> DEFINE q == IF ok2 THEN ListenPcb ELSE NULL
               a == IF ok2 THEN TRUE ELSE nc[c].acceptOk
               s == IF ok2 THEN "LISTEN" ELSE nc[c].state
               n == [nc[c] EXCEPT !.pcb = q, !.recvOk = FALSE,
                                  !.acceptOk = a, !.state = s,
                                  !.op_completed = 1]
    <3>1. /\ c \in Netconn /\ c = Cur(srv) /\ nc[c] \in Conn
          /\ nc[c].state \in {"NONE", "LISTEN"}
          /\ OK(srv, call, nc, pcb, {}, {}) /\ Place(srv) = srv.ret
          /\ pcb \in [Pcb -> Connection] /\ nc \in [Netconn -> Conn]
      BY <1>1, Posts
    <3>2. /\ Links(nc, pcb) /\ Listens(nc) /\ Flow(srv, call, nc)
          /\ Conns(nc) /\ Members(srv, nc) /\ Calls(srv, call, nc)
      BY <3>1 DEF OK
    <3>3. srv.ret = "accept" /\ nc[Listener].pcb \in Pcb
      BY <1>1, <3>2 DEF Flow
    <3>4. c = Listener
      BY <3>1, <3>2, <3>3 DEF Flow, Serving, Cur
    <3>5. /\ nc[c].acceptOk = FALSE /\ nc[c].acceptmbox = <<>>
          /\ nc[c].used = TRUE /\ nc[c].fatal = FALSE
          /\ nc[c].state = "NONE" /\ nc[c].current_msg = "none"
          /\ Len(nc[c].recvmbox) <= DEFAULT_TCP_RECVMBOX_SIZE
      <4>1. nc[c].acceptOk = FALSE
        BY <3>1, <3>2, <3>3, <3>4, Numbers DEF Listens, Conn
      <4>2. nc[c].state # "LISTEN" /\ nc[c].acceptmbox = <<>> /\ nc[c].fatal = FALSE
        BY <3>2, <3>4, <4>1 DEF Listens
      <4>3. nc[c].state = "NONE" /\ nc[c].current_msg = "none"
        BY <3>1, <3>2, <4>2 DEF Calls, Working
      <4> QED
        BY <3>1, <3>2, <3>3, <3>4, <4>1, <4>2, <4>3 DEF Flow, Conns
    <3>6. p \in Pcb /\ pcb[p].arg = Listener
      BY <3>1, <3>2, <3>3, <3>4 DEF Links
    <3>7. NoPcb \in Connection
      BY NoPcbType
    <3>8. /\ n \in Conn /\ n.pcb = q /\ n.op_completed = 1
          /\ n.used = nc[c].used /\ n.state = s
          /\ n.fatal = nc[c].fatal /\ n.recvmbox = nc[c].recvmbox
          /\ n.acceptmbox = nc[c].acceptmbox /\ n.acceptOk = a
          /\ n.current_msg = nc[c].current_msg
      BY <3>1 DEF Conn
    <3>9. /\ v \in Worlds /\ v.call = NoCall /\ v.stale = FALSE
          /\ v.nc = Put(nc, c, n) /\ v.pcb = Put(pcb, p, NoPcb)
      <4>1. CASE ok2
        <5>1. v = Answered(w2)
          BY <2>2, <4>1
        <5>2. n = [nc[c] EXCEPT !.pcb = ListenPcb, !.recvOk = FALSE,
                                !.acceptOk = TRUE, !.state = "LISTEN",
                                !.op_completed = 1]
          BY <4>1
        <5> HIDE DEF v, n, p
        <5>3. n \in Conn
          BY <3>8
        <5>4. Put(nc, c, n) \in [Netconn -> Conn]
          BY <3>1, <5>3 DEF Put
        <5>5. Put(pcb, p, NoPcb) \in [Pcb -> Connection]
          BY <3>1, <3>7 DEF Put
        <5> DEFINE n1 == [nc[c] EXCEPT !.pcb = ListenPcb, !.recvOk = FALSE]
                   u1 == [Taken EXCEPT !.pcb[p] = NoPcb,
                                       !.nc[c].pcb = ListenPcb,
                                       !.nc[c].recvOk = FALSE]
        <5>7. u1 = [Taken EXCEPT !.pcb = Put(pcb, p, NoPcb),
                                 !.nc = Put(nc, c, n1)]
          BY <1>2, <3>1 DEF Put, Worlds
        <5>8. w2 = [u1 EXCEPT !.nc[c].acceptOk = TRUE, !.nc[c].state = "LISTEN"]
          OBVIOUS
        <5>9. n1 \in Conn
          BY <3>1 DEF Conn
        <5>10. n = [n1 EXCEPT !.acceptOk = TRUE, !.state = "LISTEN",
                              !.op_completed = 1]
          BY <5>2
        <5> HIDE DEF u1, n1
        <5>11. /\ u1 \in Worlds /\ u1.nc = Put(nc, c, n1) /\ u1.nc[c] = n1
               /\ u1.pcb = Put(pcb, p, NoPcb) /\ u1.call = NoCall
               /\ u1.stale = FALSE
          BY <1>2, <3>1, <5>5, <5>7, <5>9 DEF Put, Worlds
        <5>12. v = [u1 EXCEPT !.nc = Put(u1.nc, c, n)]
          <6>1. v = [w2 EXCEPT !.nc[c].op_completed = 1]
            BY <5>1 DEF Answered
          <6>2. v = [u1 EXCEPT !.nc[c].acceptOk = TRUE,
                               !.nc[c].state = "LISTEN",
                               !.nc[c].op_completed = 1]
            BY <5>8, <6>1
          <6> HIDE DEF w2, c
          <6>3. u1.nc \in [Netconn -> Conn] /\ c \in Netconn
            BY <3>1, <5>11 DEF Worlds
          <6> QED
            BY <5>10, <5>11, <6>2, <6>3 DEF Put
        <5>13. Put(u1.nc, c, n) = Put(nc, c, n)
          BY <3>1, <5>9, <5>11 DEF Put
        <5>6. v = [Taken EXCEPT !.pcb = Put(pcb, p, NoPcb),
                                !.nc = Put(nc, c, n)]
          BY <1>2, <5>4, <5>5, <5>11, <5>12, <5>13 DEF Worlds
        <5> QED
          BY <1>2, <5>4, <5>5, <5>6 DEF Worlds
      <4>2. CASE ~ok2
        <5>1. v = Answered(w1)
          BY <2>2, <4>2
        <5>2. q = NULL /\ a = nc[c].acceptOk /\ s = nc[c].state
          BY <4>2
        <5>3. n = [nc[c] EXCEPT !.pcb = NULL, !.recvOk = FALSE,
                                !.op_completed = 1]
          BY <3>1, <5>2 DEF Conn
        <5> HIDE DEF v, n, p
        <5>4. n \in Conn
          BY <3>8
        <5> QED
          BY <1>2, <3>1, <3>6, <3>7, <5>1, <5>3, <5>4 DEF Answered, Put, Worlds
      <4> QED
        BY <4>1, <4>2
    <3>10. ListenerSet(srv, nc, pcb, n, p, NoPcb)
      <4>1. /\ n.acceptOk = TRUE <=> n.state = "LISTEN"
            /\ n.acceptOk = TRUE <=> n.pcb = ListenPcb
            /\ n.state \in {"NONE", "LISTEN"}
            /\ n.pcb \in {NULL, ListenPcb}
        <5> HIDE DEF n
        <5> QED
          BY <3>5, <3>8, Numbers
      <4>2. nc[Listener].pcb = p
        BY <3>4
      <4> HIDE DEF n, p
      <4> QED
        BY <3>3, <3>5, <3>6, <3>8, <4>1, <4>2 DEF ListenerSet
    <3> HIDE DEF p, n, v
    <3>11. /\ OK(srv, NoCall, Put(nc, Listener, n), Put(pcb, p, NoPcb), {}, {})
           /\ Stays(nc, Put(nc, Listener, n))
      BY <1>1, <3>1, <3>6, <3>7, <3>8, <3>10, ListenerSets
    <3> QED
      BY <3>4, <3>9, <3>11 DEF WorldOK
  <2> QED
    BY <2>1, <2>2
<1> HIDE DEF v
<1> QED
  BY <1>1, <1>t, <1>3, Comes

(* Whatever call is handled, the invariant is kept.                        *)
LEMMA ApiStep ==
  ASSUME IInv, ApiMsg
  PROVE  IInv' /\ Stays(nc, nc')
<1>1. UNCHANGED <<srv, fbuf>>
  BY DEF ApiMsg
<1>2. CASE \E ok \in BOOLEAN :
             /\ do_newconn(ok) \/ do_write(ok) \/ do_close(ok) \/ do_delconn(ok)
             /\ Alloc(ok)
  BY <1>1, <1>2, NewconnStep, WriteStep, CloseStep, DelconnStep
<1>3. CASE \E ok1, ok2 \in BOOLEAN : do_listen(ok1, ok2) /\ Alloc(ok1 /\ ok2)
  BY <1>1, <1>3, ListenCallStep
<1>4. CASE (do_bind \/ do_recv) /\ UNCHANGED fails
  BY <1>1, <1>4, BindStep, RecvStep
<1> QED
  BY <1>2, <1>3, <1>4 DEF ApiMsg


-----------------------------------------------------------------------------
(* The server thread. *)

(* The server goes from sv to t and posts k, or not; of the netconns it    *)
(* changes at most one, whose mailbox it reads or whose answer it takes.   *)
Moving(sv, N, t, k, c, n) ==
  /\ sv.pc = "wait" => c = Cur(sv) /\ N[c].op_completed = 1
  /\ t.newconn = sv.newconn
  /\ k.fn # "none" => t.pc = "wait" /\ k.conn = Cur(t)
  /\ t.pc = "wait" => k.fn # "none"
  /\ n = N[c] \/ N[c].used = TRUE
  /\ n.used = N[c].used /\ n.state = N[c].state /\ n.pcb = N[c].pcb
  /\ n.recvOk = N[c].recvOk /\ n.acceptmbox = N[c].acceptmbox
  /\ n.acceptOk = N[c].acceptOk /\ n.current_msg = N[c].current_msg
  /\ n.fatal = N[c].fatal \/ c # Listener
  /\ n.op_completed = 0
  /\ Len(n.recvmbox) <= DEFAULT_TCP_RECVMBOX_SIZE
  /\ \/ n.recvmbox = N[c].recvmbox
     \/ c = sv.newconn /\ t.pc \notin {"recv", "fetch"}
  /\ t.pc \in {"recv", "fetch"} => sv.pc \in {"recv", "fetch"}
  /\ Flow(t, k, N)

(* Such a step of the server keeps the invariant.                          *)
LEMMA Moves ==
  ASSUME NEW sv, NEW cl, NEW N, NEW P, OK(sv, cl, N, P, {}, {}),
         NEW t \in Servers, NEW k \in Call, NEW c \in Netconn, NEW n \in Conn,
         Moving(sv, N, t, k, c, n)
  PROVE  OK(t, k, Put(N, c, n), P, {}, {})
<1> DEFINE M == Put(N, c, n)
<1>a. M = [N EXCEPT ![c] = n]
  BY DEF Put
<1> HIDE DEF M
<1> USE DEF Moving
<1>0. /\ Typed(sv, cl, N, P)
      /\ Links(N, P) /\ Young(P) /\ Opening(N, P) /\ Conns(N) /\ Listens(N)
      /\ Members(sv, N) /\ Calls(sv, cl, N) /\ Flow(sv, cl, N)
      /\ Fed(sv, N, P, {}) /\ Window(P, {})
  BY DEF OK
<1>1. /\ M \in [Netconn -> Conn] /\ M[c] = n
      /\ \A d \in Netconn : d # c => M[d] = N[d]
      /\ \A d \in Netconn : N[d] \in Conn
  BY <1>0, <1>a DEF Typed
<1>2. \A d \in Netconn :
        /\ M[d].used = N[d].used /\ M[d].state = N[d].state
        /\ M[d].pcb = N[d].pcb /\ M[d].recvOk = N[d].recvOk
        /\ M[d].acceptmbox = N[d].acceptmbox
        /\ M[d].acceptOk = N[d].acceptOk
        /\ M[d].current_msg = N[d].current_msg
  BY <1>1
<1>3. Listener \in Netconn /\ NULL \notin Netconn
  BY Numbers
<1>4. /\ Cur(t) = Cur(sv) /\ Cur(t) \in Netconn
  BY <1>0, <1>3 DEF Typed, Servers, Cur
<1>5. ASSUME NEW d \in Netconn
      PROVE  M[d].op_completed = 0 /\ ~Working(M[d].state)
  <2>1. CASE sv.pc = "wait"
    <3>1. c = Cur(sv) /\ N[c].op_completed = 1 /\ ~Working(N[c].state)
      BY <1>0, <2>1 DEF Calls
    <3>2. d # c => N[d].op_completed # 1 /\ ~Working(N[d].state)
      BY <1>0, <3>1 DEF Calls
    <3>3. ~Working(M[d].state)
      BY <1>2, <3>1, <3>2
    <3>4. d # c => M[d].op_completed = 0
      BY <1>1, <3>2 DEF Conn
    <3> QED
      BY <1>1, <3>3, <3>4
  <2>2. CASE sv.pc # "wait"
    <3>1. N[d].op_completed # 1 /\ ~Working(N[d].state)
      BY <1>0, <2>2 DEF Calls
    <3>2. ~Working(M[d].state)
      BY <1>2, <3>1
    <3>3. d # c => M[d].op_completed = 0
      BY <1>1, <3>1 DEF Conn
    <3> QED
      BY <1>1, <3>2, <3>3
  <2> QED
    BY <2>1, <2>2
<1>6. Links(M, P) /\ Opening(M, P)
  BY <1>0, <1>2, <1>3 DEF Links, Opening
<1>7. Conns(M)
  <2>1. \A d \in Netconn :
          /\ M[d].used = FALSE => M[d] = NoConn
          /\ Len(M[d].recvmbox) <= DEFAULT_TCP_RECVMBOX_SIZE
    BY <1>0, <1>1 DEF Conns
  <2> QED
    BY <1>0, <1>2, <2>1 DEF Conns
<1>8. Listens(M)
  <2>1. M[Listener].fatal = N[Listener].fatal
    BY <1>1, <1>3
  <2> QED
    BY <1>0, <1>2, <1>3, <2>1 DEF Listens
<1>9. Members(t, M) /\ \A d : Waits(M, d) <=> Waits(N, d)
  <2>1. Members(sv, M) /\ \A d : Waits(M, d) <=> Waits(N, d)
    BY <1>0, <1>2, <1>3, MembersStay
  <2> QED
    BY <2>1 DEF Members
<1>10. Calls(t, k, M)
  <2>1. \A d \in Netconn : Working(M[d].state) <=> M[d].current_msg # "none"
    BY <1>0, <1>2 DEF Calls
  <2> QED
    BY <1>4, <1>5, <2>1 DEF Calls, Working
<1>11. Flow(t, k, M)
  BY <1>2, <1>3, <1>4 DEF Flow
<1>12. Fed(t, M, P, {})
  <2> SUFFICES ASSUME NEW d \in Netconn, Fresh(t, M, d)
               PROVE  /\ M[d].recvOk = TRUE
                      /\ \/ M[d].recvmbox # <<>>
                         \/ /\ M[d].pcb \in Pcb
                            /\ P[M[d].pcb].state = "ESTABLISHED"
    BY DEF Fed
  <2>1. Fresh(sv, N, d)
    BY <1>9 DEF Fresh
  <2>2. M[d].recvmbox = N[d].recvmbox
    <3>1. CASE d = c
      <4>1. d = sv.newconn => ~Waits(N, d)
        BY <1>0 DEF Members, Waits
      <4> QED
        BY <1>1, <1>9, <3>1, <4>1 DEF Fresh
    <3>2. CASE d # c
      BY <1>1, <3>2
    <3> QED
      BY <3>1, <3>2
  <2>3. /\ N[d].recvOk = TRUE
        /\ \/ N[d].recvmbox # <<>>
           \/ N[d].pcb \in Pcb /\ P[N[d].pcb].state = "ESTABLISHED"
    BY <1>0, <2>1 DEF Fed
  <2> QED
    BY <1>2, <2>2, <2>3
<1> QED
  BY <1>0, <1>1, <1>6, <1>7, <1>8, <1>9, <1>10, <1>11, <1>12
  DEF OK, Typed, M


(* A netconn without a connection is given back to its pool: the one that  *)
(* was served, or the listening one where the server ends.                 *)
Freeing(sv, N, t, c) ==
  /\ sv.pc # "wait" /\ N[c].pcb = NULL
  /\ t.ret = "none" /\ t.newconn = NULL
  /\ \/ c = sv.newconn /\ t.pc = "accept"
     \/ /\ c = Listener /\ sv.newconn = NULL /\ t.pc = "halt"
        /\ N[Listener].acceptOk = FALSE

(* Giving a netconn back keeps the invariant.                              *)
LEMMA Frees ==
  ASSUME NEW sv, NEW cl, NEW N, NEW P, OK(sv, cl, N, P, {}, {}),
         NEW t \in Servers, NEW c \in Netconn, Freeing(sv, N, t, c)
  PROVE  OK(t, cl, Put(N, c, NoConn), P, {}, {})
<1> DEFINE M == Put(N, c, NoConn)
<1>a. M = [N EXCEPT ![c] = NoConn]
  BY DEF Put
<1> HIDE DEF M
<1> USE DEF Freeing
<1>0. /\ Typed(sv, cl, N, P)
      /\ Links(N, P) /\ Young(P) /\ Opening(N, P) /\ Conns(N) /\ Listens(N)
      /\ Members(sv, N) /\ Calls(sv, cl, N) /\ Flow(sv, cl, N)
      /\ Fed(sv, N, P, {}) /\ Window(P, {})
  BY DEF OK
<1>n. /\ Listener \in Netconn /\ NULL \notin Netconn
      /\ NULL \notin Pcb /\ ListenPcb # NULL
  BY Numbers
<1>1. /\ M \in [Netconn -> Conn] /\ M[c] = NoConn
      /\ \A d \in Netconn : d # c => M[d] = N[d]
      /\ \A d \in Netconn : N[d] \in Conn
  BY <1>0, <1>a, NoConnType DEF Typed
<1>2. /\ NoConn.pcb = NULL /\ NoConn.used = FALSE /\ NoConn.fatal = FALSE
      /\ NoConn.acceptOk = FALSE /\ NoConn.acceptmbox = <<>>
      /\ NoConn.recvmbox = <<>> /\ NoConn.state = "NONE"
      /\ NoConn.current_msg = "none" /\ NoConn.op_completed = 0
  BY DEF NoConn
<1>3. /\ Place(sv) = sv.pc /\ Place(t) = t.pc /\ Cur(t) = Listener
      /\ cl.fn = "none"
  BY <1>0 DEF Place, Cur, Calls
<1>4. Links(M, P)
  <2>1. \A p \in Pcb : P[p].cb # "none" => P[p].arg # c
    BY <1>0, <1>n DEF Links
  <2> QED
    BY <1>0, <1>1, <1>2, <1>n, <2>1 DEF Links
<1>5. /\ c = Listener => N[Listener].acceptOk = FALSE
      /\ sv.newconn # Listener
  BY <1>0 DEF Members
<1>6. Opening(M, P)
  BY <1>0, <1>1, <1>5, <1>n DEF Opening
<1>7. Conns(M)
  <2>1. Len(<<>>) <= DEFAULT_TCP_RECVMBOX_SIZE /\ Len(<<>>) <= DEFAULT_ACCEPTMBOX_SIZE
    BY AcceptAssumption
  <2>2. \A d \in Netconn :
          /\ M[d].used = FALSE => M[d] = NoConn
          /\ Len(M[d].recvmbox) <= DEFAULT_TCP_RECVMBOX_SIZE
          /\ Len(M[d].acceptmbox) <= DEFAULT_ACCEPTMBOX_SIZE
    BY <1>0, <1>1, <1>2, <2>1 DEF Conns
  <2>3. \A d \in Netconn \ {Listener} :
          /\ M[d].pcb # ListenPcb /\ M[d].state # "LISTEN"
          /\ M[d].acceptOk = FALSE /\ M[d].acceptmbox = <<>>
    BY <1>0, <1>1, <1>2, <1>n DEF Conns
  <2> QED
    BY <2>2, <2>3 DEF Conns
<1>8. Listens(M)
  BY <1>0, <1>1, <1>2, <1>n DEF Listens
<1>9. M[Listener].acceptmbox = N[Listener].acceptmbox
  BY <1>0, <1>1, <1>2, <1>5, <1>n DEF Listens
<1>10. \A d : Waits(M, d) <=> Waits(N, d)
  BY <1>9 DEF Waits
<1>11. Members(t, M)
  <2>1. /\ \A i, j \in DOMAIN M[Listener].acceptmbox :
             M[Listener].acceptmbox[i] = M[Listener].acceptmbox[j] => i = j
        /\ \A i \in DOMAIN M[Listener].acceptmbox :
             M[Listener].acceptmbox[i] \in Netconn \ {Listener, t.newconn}
        /\ t.newconn # Listener
    BY <1>0, <1>9, <1>n DEF Members
  <2>2. ASSUME NEW d \in Netconn \ {Listener}
        PROVE  M[d].used = TRUE <=> d = t.newconn \/ Waits(M, d)
    <3>1. d # t.newconn
      BY <1>n
    <3>2. N[d].used = TRUE <=> d = sv.newconn \/ Waits(N, d)
      BY <1>0 DEF Members
    <3>3. CASE d = c
      <4>1. d = sv.newconn
        BY <3>3
      <4>2. ~Waits(N, d)
        BY <1>0, <4>1 DEF Members, Waits
      <4> QED
        BY <1>1, <1>2, <1>10, <3>1, <3>3, <4>2
    <3>4. CASE d # c
      <4>1. d # sv.newconn
        BY <1>n, <3>4
      <4> QED
        BY <1>1, <1>10, <3>1, <3>2, <3>4, <4>1
    <3> QED
      BY <3>3, <3>4
  <2> QED
    BY <2>1, <2>2 DEF Members
<1>12. Calls(t, cl, M)
  <2>1. ASSUME NEW d \in Netconn
        PROVE  M[d].op_completed # 1 /\ ~Working(M[d].state)
               /\ M[d].current_msg = "none"
    <3>1. CASE d = c
      BY <1>1, <1>2, <3>1 DEF Working
    <3>2. CASE d # c
      BY <1>0, <1>1, <3>2 DEF Calls
    <3> QED
      BY <3>1, <3>2
  <2> QED
    BY <1>3, <2>1 DEF Calls, Working
<1>13. Flow(t, cl, M)
  <2>1. CASE c = sv.newconn /\ t.pc = "accept"
    <3>1. M[Listener] = N[Listener] /\ N[Listener].used = TRUE
      BY <1>0, <1>1, <1>3, <1>5, <1>n, <2>1 DEF Flow, Serving
    <3> QED
      BY <1>3, <2>1, <3>1 DEF Flow, Serving
  <2>2. CASE c = Listener /\ t.pc = "halt"
    BY <1>1, <1>2, <1>3, <2>2 DEF Flow, Serving
  <2> QED
    BY <2>1, <2>2
<1>14. Fed(t, M, P, {})
  <2> SUFFICES ASSUME NEW d \in Netconn, Fresh(t, M, d)
               PROVE  /\ M[d].recvOk = TRUE
                      /\ \/ M[d].recvmbox # <<>>
                         \/ /\ M[d].pcb \in Pcb
                            /\ P[M[d].pcb].state = "ESTABLISHED"
    BY DEF Fed
  <2>1. Waits(N, d)
    BY <1>10 DEF Fresh
  <2>2. d # c
    BY <1>0, <2>1 DEF Members, Waits
  <2>3. /\ N[d].recvOk = TRUE
        /\ \/ N[d].recvmbox # <<>>
           \/ N[d].pcb \in Pcb /\ P[N[d].pcb].state = "ESTABLISHED"
    BY <1>0, <2>1 DEF Fed, Fresh
  <2> QED
    BY <1>1, <2>2, <2>3
<1> QED
  BY <1>0, <1>1, <1>4, <1>6, <1>7, <1>8, <1>11, <1>12, <1>13, <1>14
  DEF OK, Typed, M


(* netconn_alloc: the listening netconn comes into use.                    *)
Creating(sv, t, k, n) ==
  /\ sv.pc = "new" /\ t.pc = "wait" /\ t.ret = "bind"
  /\ t.newconn = sv.newconn
  /\ k.fn = "newconn" /\ k.conn = Listener
  /\ n.used = TRUE /\ n.state = "NONE" /\ n.pcb = NULL /\ n.fatal = FALSE
  /\ n.recvmbox = <<>> /\ n.acceptmbox = <<>> /\ n.acceptOk = FALSE
  /\ n.current_msg = "none" /\ n.op_completed = 0

(* The first netconn keeps the invariant.                                  *)
LEMMA Creates ==
  ASSUME NEW sv, NEW cl, NEW N, NEW P, OK(sv, cl, N, P, {}, {}),
         NEW t \in Servers, NEW k \in Call, NEW n \in Conn,
         Creating(sv, t, k, n)
  PROVE  OK(t, k, Put(N, Listener, n), P, {}, {})
<1> DEFINE M == Put(N, Listener, n)
<1>a. M = [N EXCEPT ![Listener] = n]
  BY DEF Put
<1> HIDE DEF M
<1> USE DEF Creating
<1>0. /\ Typed(sv, cl, N, P)
      /\ Links(N, P) /\ Young(P) /\ Opening(N, P) /\ Conns(N) /\ Listens(N)
      /\ Members(sv, N) /\ Calls(sv, cl, N) /\ Flow(sv, cl, N)
      /\ Fed(sv, N, P, {}) /\ Window(P, {})
  BY DEF OK
<1>n. /\ Listener \in Netconn /\ NULL \notin Netconn
      /\ NULL \notin Pcb /\ ListenPcb # NULL
  BY Numbers
<1>1. /\ M \in [Netconn -> Conn] /\ M[Listener] = n
      /\ \A d \in Netconn : d # Listener => M[d] = N[d]
      /\ \A d \in Netconn : N[d] \in Conn
  BY <1>0, <1>a, <1>n DEF Typed
<1>2. /\ Place(sv) = "new" /\ Place(t) = "bind"
      /\ sv.newconn = NULL /\ Cur(t) = Listener
  <2>1. Place(sv) = "new" /\ Place(t) = "bind"
    BY DEF Place
  <2>2. sv.newconn = NULL
    BY <1>0, <2>1 DEF Flow, Serving
  <2> QED
    BY <2>1, <2>2 DEF Cur
<1>3. N[Listener] = NoConn
  <2>1. N[Listener].used = FALSE
    BY <1>0, <1>1, <1>2, <1>n DEF Flow, Conn
  <2> QED
    BY <1>0, <1>n, <2>1 DEF Conns
<1>4. /\ N[Listener].pcb = NULL /\ N[Listener].acceptOk = FALSE
      /\ N[Listener].acceptmbox = <<>>
  BY <1>3 DEF NoConn
<1>5. Links(M, P)
  <2>1. \A p \in Pcb : P[p].cb # "none" => P[p].arg # Listener
    BY <1>0, <1>4, <1>n DEF Links
  <2> QED
    BY <1>0, <1>1, <1>n, <2>1 DEF Links
<1>6. Opening(M, P)
  BY <1>0, <1>1, <1>4 DEF Opening
<1>7. Conns(M)
  <2>1. Len(<<>>) <= DEFAULT_TCP_RECVMBOX_SIZE /\ Len(<<>>) <= DEFAULT_ACCEPTMBOX_SIZE
    BY AcceptAssumption
  <2>2. \A d \in Netconn :
          /\ M[d].used = FALSE => M[d] = NoConn
          /\ Len(M[d].recvmbox) <= DEFAULT_TCP_RECVMBOX_SIZE
          /\ Len(M[d].acceptmbox) <= DEFAULT_ACCEPTMBOX_SIZE
    BY <1>0, <1>1, <2>1 DEF Conns
  <2> QED
    BY <1>0, <1>1, <2>2 DEF Conns
<1>8. Listens(M)
  BY <1>1, <1>n DEF Listens
<1>9. \A d : ~Waits(M, d) /\ ~Waits(N, d)
  BY <1>1, <1>4 DEF Waits
<1>10. Members(t, M)
  <2>1. \A d \in Netconn \ {Listener} :
          M[d].used = TRUE <=> d = t.newconn \/ Waits(M, d)
    BY <1>0, <1>1, <1>9 DEF Members
  <2>2. t.newconn # Listener
    BY <1>2, <1>n
  <2> QED
    BY <1>1, <2>1, <2>2 DEF Members
<1>11. Calls(t, k, M)
  <2>1. ASSUME NEW d \in Netconn
        PROVE  M[d].op_completed # 1 /\ ~Working(M[d].state)
               /\ M[d].current_msg = "none"
    <3>1. CASE d = Listener
      BY <1>1, <3>1 DEF Working
    <3>2. CASE d # Listener
      BY <1>0, <1>1, <3>2 DEF Calls
    <3> QED
      BY <3>1, <3>2
  <2> QED
    BY <1>2, <2>1 DEF Calls, Working
<1>12. Flow(t, k, M)
  BY <1>1, <1>2 DEF Flow, Serving
<1>13. Fed(t, M, P, {})
  BY <1>2, <1>9, <1>n DEF Fed, Fresh
<1> QED
  BY <1>0, <1>1, <1>5, <1>6, <1>7, <1>8, <1>10, <1>11, <1>12, <1>13
  DEF OK, Typed, M

(* The connection that has waited longest is accepted.                     *)
Accepting(sv, N, t, n) ==
  /\ sv.pc = "accept" /\ t.pc = "recv" /\ t.ret = "none"
  /\ N[Listener].acceptOk = TRUE
  /\ N[Listener].acceptmbox # <<>>
  /\ t.newconn = Head(N[Listener].acceptmbox)
  /\ n.acceptmbox = Tail(N[Listener].acceptmbox)
  /\ n.used = N[Listener].used /\ n.state = N[Listener].state
  /\ n.pcb = N[Listener].pcb /\ n.fatal = N[Listener].fatal
  /\ n.recvmbox = N[Listener].recvmbox
  /\ n.recvOk = N[Listener].recvOk /\ n.acceptOk = N[Listener].acceptOk
  /\ n.current_msg = N[Listener].current_msg
  /\ n.op_completed = N[Listener].op_completed

(* Accepting a connection keeps the invariant.                             *)
LEMMA Takes ==
  ASSUME NEW sv, NEW cl, NEW N, NEW P, OK(sv, cl, N, P, {}, {}),
         NEW t \in Servers, NEW n \in Conn, Accepting(sv, N, t, n)
  PROVE  OK(t, cl, Put(N, Listener, n), P, {}, {})
<1> DEFINE M == Put(N, Listener, n)
           mbox == N[Listener].acceptmbox
<1>a. M = [N EXCEPT ![Listener] = n]
  BY DEF Put
<1> HIDE DEF M
<1> USE DEF Accepting
<1>0. /\ Typed(sv, cl, N, P)
      /\ Links(N, P) /\ Young(P) /\ Opening(N, P) /\ Conns(N) /\ Listens(N)
      /\ Members(sv, N) /\ Calls(sv, cl, N) /\ Flow(sv, cl, N)
      /\ Fed(sv, N, P, {}) /\ Window(P, {})
  BY DEF OK
<1>n. /\ Listener \in Netconn /\ NULL \notin Netconn
      /\ NULL \notin Pcb /\ ListenPcb # NULL
  BY Numbers
<1>1. /\ M \in [Netconn -> Conn] /\ M[Listener] = n
      /\ \A d \in Netconn : d # Listener => M[d] = N[d]
      /\ \A d \in Netconn : N[d] \in Conn
  BY <1>0, <1>a, <1>n DEF Typed
<1>2. \A d \in Netconn :
        /\ M[d].used = N[d].used /\ M[d].state = N[d].state
        /\ M[d].pcb = N[d].pcb /\ M[d].fatal = N[d].fatal
        /\ M[d].recvmbox = N[d].recvmbox /\ M[d].recvOk = N[d].recvOk
        /\ M[d].acceptOk = N[d].acceptOk
        /\ M[d].current_msg = N[d].current_msg
        /\ M[d].op_completed = N[d].op_completed
  BY <1>1
<1>3. mbox \in Seq(Netconn \cup {NULL}) /\ mbox # <<>>
  BY <1>1, <1>n DEF Conn
<1>4. /\ Len(n.acceptmbox) = Len(mbox) - 1 /\ Len(mbox) \in Nat \ {0}
      /\ DOMAIN mbox = 1..Len(mbox)
      /\ DOMAIN n.acceptmbox = 1..(Len(mbox) - 1)
      /\ \A i \in DOMAIN n.acceptmbox :
           n.acceptmbox[i] = mbox[i + 1] /\ i + 1 \in DOMAIN mbox
      /\ t.newconn = mbox[1] /\ 1 \in DOMAIN mbox
  BY <1>3
<1>5. /\ Place(sv) = "accept" /\ Place(t) = "recv" /\ sv.newconn = NULL
      /\ cl.fn = "none"
  <2>1. Place(sv) = "accept" /\ Place(t) = "recv" /\ cl.fn = "none"
    BY <1>0 DEF Place, Calls
  <2> QED
    BY <1>0, <2>1 DEF Flow, Serving
<1>6. t.newconn \in Netconn \ {Listener}
  BY <1>0, <1>4 DEF Members
<1>7. \A d \in Netconn : Waits(N, d) <=> d = t.newconn \/ Waits(M, d)
  <2>1. ASSUME NEW d \in Netconn, Waits(N, d), d # t.newconn
        PROVE  Waits(M, d)
    <3>1. PICK i \in DOMAIN mbox : mbox[i] = d
      BY <2>1 DEF Waits
    <3>2. i # 1 /\ i - 1 \in DOMAIN n.acceptmbox /\ (i - 1) + 1 = i
      BY <1>4, <2>1, <3>1
    <3>3. n.acceptmbox[i - 1] = d
      BY <1>4, <3>1, <3>2
    <3> QED
      BY <1>1, <3>2, <3>3 DEF Waits
  <2>2. ASSUME NEW d \in Netconn, Waits(M, d)
        PROVE  Waits(N, d)
    <3>1. PICK i \in DOMAIN n.acceptmbox : n.acceptmbox[i] = d
      BY <1>1, <2>2 DEF Waits
    <3> QED
      BY <1>4, <3>1 DEF Waits
  <2>3. Waits(N, t.newconn)
    BY <1>4 DEF Waits
  <2> QED
    BY <2>1, <2>2, <2>3
<1>8. Members(t, M)
  <2>1. ASSUME NEW i \in DOMAIN n.acceptmbox, NEW j \in DOMAIN n.acceptmbox,
               n.acceptmbox[i] = n.acceptmbox[j]
        PROVE  i = j
    <3>1. mbox[i + 1] = mbox[j + 1] /\ i + 1 \in DOMAIN mbox /\ j + 1 \in DOMAIN mbox
      BY <1>4, <2>1
    <3>2. i + 1 = j + 1
      BY <1>0, <3>1 DEF Members
    <3> QED
      BY <1>4, <3>2
  <2>2. ASSUME NEW i \in DOMAIN n.acceptmbox
        PROVE  n.acceptmbox[i] \in Netconn \ {Listener, t.newconn}
    <3>1. n.acceptmbox[i] = mbox[i + 1] /\ i + 1 \in DOMAIN mbox /\ i + 1 # 1
      BY <1>4
    <3>2. mbox[i + 1] \in Netconn \ {Listener}
      BY <1>0, <3>1 DEF Members
    <3>3. mbox[i + 1] # mbox[1]
      BY <1>0, <1>4, <3>1 DEF Members
    <3> QED
      BY <1>4, <3>1, <3>2, <3>3
  <2>3. \A d \in Netconn \ {Listener} :
          M[d].used = TRUE <=> d = t.newconn \/ Waits(M, d)
    BY <1>0, <1>2, <1>5, <1>7, <1>n DEF Members
  <2> QED
    BY <1>1, <1>6, <2>1, <2>2, <2>3 DEF Members
<1>9. Links(M, P) /\ Opening(M, P)
  BY <1>0, <1>2, <1>n DEF Links, Opening
<1>10. Conns(M)
  <2>1. Len(n.acceptmbox) <= DEFAULT_ACCEPTMBOX_SIZE
    BY <1>0, <1>4, <1>n, AcceptAssumption DEF Conns
  <2>2. N[Listener].used = TRUE
    BY <1>0, <1>5 DEF Flow
  <2>3. \A d \in Netconn :
          /\ M[d].used = FALSE => M[d] = NoConn
          /\ Len(M[d].acceptmbox) <= DEFAULT_ACCEPTMBOX_SIZE
    BY <1>0, <1>1, <2>1, <2>2 DEF Conns
  <2>4. \A d \in Netconn \ {Listener} : M[d].acceptmbox = <<>>
    BY <1>0, <1>1 DEF Conns
  <2> QED
    BY <1>0, <1>2, <2>3, <2>4 DEF Conns
<1>11. Listens(M)
  BY <1>0, <1>2, <1>n DEF Listens
<1>12. Calls(t, cl, M)
  BY <1>0, <1>2, <1>5 DEF Calls, Working
<1>13. Flow(t, cl, M)
  BY <1>0, <1>2, <1>5, <1>6, <1>n DEF Flow, Serving
<1>14. Fed(t, M, P, {})
  <2> SUFFICES ASSUME NEW d \in Netconn, Fresh(t, M, d)
               PROVE  /\ M[d].recvOk = TRUE
                      /\ \/ M[d].recvmbox # <<>>
                         \/ /\ M[d].pcb \in Pcb
                            /\ P[M[d].pcb].state = "ESTABLISHED"
    BY DEF Fed
  <2>1. Waits(N, d)
    BY <1>7 DEF Fresh
  <2>2. /\ N[d].recvOk = TRUE
        /\ \/ N[d].recvmbox # <<>>
           \/ N[d].pcb \in Pcb /\ P[N[d].pcb].state = "ESTABLISHED"
    BY <1>0, <2>1 DEF Fed, Fresh
  <2> QED
    BY <1>2, <2>2
<1> QED
  BY <1>0, <1>1, <1>8, <1>9, <1>10, <1>11, <1>12, <1>13, <1>14
  DEF OK, Typed, M


(* The server is where no call is under way.                               *)
LEMMA Running ==
  ASSUME IInv, srv.pc # "wait"
  PROVE  /\ OK(srv, call, nc, pcb, {}, {}) /\ stale = FALSE
         /\ srv \in Servers /\ call \in Call /\ nc \in [Netconn -> Conn]
         /\ \A c \in Netconn : nc[c] \in Conn
         /\ call.fn = "none" /\ srv.ret = "none" /\ Place(srv) = srv.pc
         /\ Cur(srv) \in Netconn
         /\ srv.newconn # NULL <=> srv.pc \in Serving
         /\ srv.newconn # NULL => Cur(srv) = srv.newconn
         /\ srv.newconn = NULL => Cur(srv) = Listener
         /\ srv.newconn \in Netconn \cup {NULL} /\ srv.newconn # Listener
         /\ nc[Listener].acceptOk = TRUE =>
              srv.pc = "accept" \/ srv.pc \in Serving
         /\ srv.pc \in Serving => nc[Listener].acceptOk = TRUE
         /\ nc[Listener].used = TRUE <=> srv.pc \notin {"new", "halt"}
         /\ srv.pc = "listen" => nc[Listener].pcb \in Pcb
         /\ srv.pc \in {"free", "free_listener"} => nc[Cur(srv)].pcb = NULL
         /\ \A c \in Netconn : nc[c].op_completed = 0
         /\ \A c \in Netconn :
              Len(nc[c].recvmbox) <= DEFAULT_TCP_RECVMBOX_SIZE
         /\ srv.newconn # NULL => nc[srv.newconn].used = TRUE
         /\ fbuf \in {"empty", "torn", "whole"} /\ fails \in 0..MaxFail
<1>1. /\ OK(srv, call, nc, pcb, {}, {}) /\ Typed(srv, call, nc, pcb)
      /\ Conns(nc) /\ Members(srv, nc) /\ Calls(srv, call, nc)
      /\ Flow(srv, call, nc)
  BY DEF IInv, OK
<1>2. /\ srv \in Servers /\ call \in Call /\ nc \in [Netconn -> Conn]
      /\ \A c \in Netconn : nc[c] \in Conn
      /\ srv.newconn \in Netconn \cup {NULL} /\ srv.newconn # Listener
  BY <1>1 DEF Typed, Servers, Members
<1>3. call.fn = "none" /\ srv.ret = "none" /\ Place(srv) = srv.pc
  BY <1>1 DEF Calls, Flow, Place
<1>4. /\ Cur(srv) \in Netconn
      /\ srv.newconn # NULL => Cur(srv) = srv.newconn
      /\ srv.newconn = NULL => Cur(srv) = Listener
  BY <1>2, Numbers DEF Cur
<1>5. \A c \in Netconn : nc[c].op_completed = 0 /\ ~Working(nc[c].state)
  <2> SUFFICES ASSUME NEW c \in Netconn
               PROVE  nc[c].op_completed = 0 /\ ~Working(nc[c].state)
    OBVIOUS
  <2>1. nc[c].op_completed # 1 /\ ~Working(nc[c].state)
    BY <1>1 DEF Calls
  <2>2. nc[c].op_completed \in {0, 1}
    BY <1>2 DEF Conn
  <2> QED
    BY <2>1, <2>2
<1>6. srv.newconn # NULL => nc[srv.newconn].used = TRUE
  BY <1>1, <1>2 DEF Members
<1>7. \A c \in Netconn : Len(nc[c].recvmbox) <= DEFAULT_TCP_RECVMBOX_SIZE
  BY <1>1 DEF Conns
<1>8. /\ srv.newconn # NULL <=> srv.pc \in Serving
      /\ nc[Listener].acceptOk = TRUE =>
              srv.pc = "accept" \/ srv.pc \in Serving
      /\ srv.pc \in Serving => nc[Listener].acceptOk = TRUE
      /\ nc[Listener].used = TRUE <=> srv.pc \notin {"new", "halt"}
      /\ srv.pc = "listen" => nc[Listener].pcb \in Pcb
  BY <1>1, <1>3 DEF Flow
<1>9. srv.pc \in {"free", "free_listener"} => nc[Cur(srv)].pcb = NULL
  BY <1>1, <1>3, <1>4, <1>5 DEF Flow
<1> QED
  BY <1>1, <1>2, <1>3, <1>4, <1>5, <1>6, <1>7, <1>8, <1>9 DEF IInv

(* The server may go to, or return to, a place.                            *)
Reaches(x) ==
  /\ srv.newconn # NULL <=> x \in Serving
  /\ nc[Listener].acceptOk = TRUE => x = "accept" \/ x \in Serving
  /\ x \in Serving => nc[Listener].acceptOk = TRUE
  /\ nc[Listener].used = TRUE <=> x \notin {"new", "halt"}
  /\ x = "listen" => nc[Listener].pcb \in Pcb

(* The call it makes goes with the place it returns to.                    *)
Fits(fn, what, ret) ==
  \/ fn = "bind" /\ ret = "listen"
  \/ fn = "listen" /\ ret = "accept" /\ nc[Listener].pcb \in Pcb
  \/ fn = "recv" /\ ret \in {"parse", "eof"}
  \/ fn = "write" /\ ret \in {"write_page", "close"} /\ what # "none"
  \/ fn = "close" /\ ret \in {"delete", "delete_listener"}
  \/ fn = "delconn" /\ ret \in {"free", "free_listener"}

(* What the invariant needs after a step of the server.                    *)
LEMMA Served ==
  ASSUME IInv, OK(srv, call, nc, pcb, {}, {})', UNCHANGED <<pcb, stale>>,
         fbuf' \in {"empty", "torn", "whole"}, fails' \in 0..MaxFail
  PROVE  IInv'
BY DEF IInv

(* It goes to another place and nothing else changes.                      *)
LEMMA Goes ==
  ASSUME IInv, srv.pc # "wait",
         NEW x \in ServerPc \ {"wait", "free", "free_listener"}, Goto(x),
         Reaches(x), x \in {"recv", "fetch"} => srv.pc \in {"recv", "fetch"},
         UNCHANGED <<call, nc, pcb, stale>>,
         fbuf' \in {"empty", "torn", "whole"}, fails' \in 0..MaxFail
  PROVE  IInv' /\ Stays(nc, nc')
<1> DEFINE t == [srv EXCEPT !.pc = x]
           n == nc[Listener]
<1>1. /\ OK(srv, call, nc, pcb, {}, {}) /\ srv \in Servers /\ call \in Call
      /\ nc \in [Netconn -> Conn] /\ \A c \in Netconn : nc[c] \in Conn
      /\ call.fn = "none" /\ srv.ret = "none"
      /\ \A c \in Netconn : nc[c].op_completed = 0
      /\ \A c \in Netconn :
           Len(nc[c].recvmbox) <= DEFAULT_TCP_RECVMBOX_SIZE
  BY Running
<1>2. Listener \in Netconn
  BY Numbers
<1>3. /\ t \in Servers /\ t.pc = x /\ t.newconn = srv.newconn /\ t.ret = "none"
      /\ srv' = t
  BY <1>1 DEF Servers, Goto
<1> HIDE DEF t
<1>4. Flow(t, call, nc)
  <2>1. Place(t) = x
    BY <1>3 DEF Place
  <2> QED
    BY <1>1, <1>3, <2>1 DEF Flow, Reaches
<1>5. Moving(srv, nc, t, call, Listener, n)
  BY <1>1, <1>2, <1>3, <1>4 DEF Moving
<1>6. n \in Conn
  BY <1>1, <1>2
<1>7. Put(nc, Listener, n) = nc
  BY <1>1, <1>2 DEF Put
<1> HIDE DEF n
<1>8. OK(t, call, nc, pcb, {}, {})
  BY <1>1, <1>2, <1>3, <1>5, <1>6, <1>7, Moves
<1>9. OK(srv, call, nc, pcb, {}, {})'
  BY <1>3, <1>8
<1> QED
  BY <1>9, Served DEF Stays

(* It posts a call, having changed at most what it has read.               *)
LEMMA Calling ==
  ASSUME IInv, srv.pc # "wait",
         NEW fn, NEW c \in Netconn, NEW what \in Words, NEW ret \in Places,
         Post(fn, c, what, ret), c = Cur(srv), Reaches(ret),
         Fits(fn, what, ret),
         NEW n \in Conn, n = nc[c] \/ c = srv.newconn,
         n.used = nc[c].used, n.state = nc[c].state, n.pcb = nc[c].pcb,
         n.recvOk = nc[c].recvOk, n.acceptmbox = nc[c].acceptmbox,
         n.acceptOk = nc[c].acceptOk, n.current_msg = nc[c].current_msg,
         n.fatal = nc[c].fatal, n.op_completed = nc[c].op_completed,
         Len(n.recvmbox) <= DEFAULT_TCP_RECVMBOX_SIZE,
         nc' = Put(nc, c, n), UNCHANGED <<pcb, stale, fbuf, fails>>
  PROVE  IInv' /\ Stays(nc, nc')
<1> DEFINE t == [srv EXCEPT !.pc = "wait", !.ret = ret]
           k == [fn |-> fn, conn |-> c, what |-> what]
<1>1. /\ OK(srv, call, nc, pcb, {}, {}) /\ srv \in Servers
      /\ nc \in [Netconn -> Conn]
      /\ \A d \in Netconn : nc[d].op_completed = 0
      /\ srv.newconn # NULL => nc[srv.newconn].used = TRUE
      /\ fbuf \in {"empty", "torn", "whole"} /\ fails \in 0..MaxFail
      /\ srv.ret = "none"
  BY Running
<1>2. Listener \in Netconn /\ NULL \notin Netconn
  BY Numbers
<1>3. /\ fn \in {"bind", "listen", "recv", "write", "close", "delconn"}
      /\ ret # "none"
  BY DEF Fits, Places, ServerPc
<1>4. /\ t \in Servers /\ t.pc = "wait" /\ t.newconn = srv.newconn
      /\ t.ret = ret /\ srv' = t
      /\ k \in Call /\ k.fn = fn /\ k.conn = c /\ k.what = what /\ call' = k
  BY <1>1, <1>3 DEF Servers, Call, Post, ServerPc
<1> HIDE DEF t, k
<1>5. Cur(t) = c /\ Place(t) = ret
  BY <1>4 DEF Cur, Place
<1>6. Flow(t, k, nc)
  BY <1>3, <1>4, <1>5 DEF Flow, Reaches, Fits
<1>7. Moving(srv, nc, t, k, c, n)
  BY <1>1, <1>2, <1>3, <1>4, <1>5, <1>6 DEF Moving
<1>8. OK(t, k, Put(nc, c, n), pcb, {}, {})
  BY <1>1, <1>4, <1>7, Moves
<1>9. OK(srv, call, nc, pcb, {}, {})'
  BY <1>4, <1>8
<1>10. Stays(nc, nc')
  BY <1>1, <1>2 DEF Stays, Put
<1> QED
  BY <1>1, <1>9, <1>10, Served


(* Calls that are posted with the netconns as they are.                    *)
LEMMA CallingOnly ==
  ASSUME IInv, srv.pc # "wait",
         NEW fn, NEW c \in Netconn, NEW what \in Words, NEW ret \in Places,
         Post(fn, c, what, ret), c = Cur(srv), Reaches(ret),
         Fits(fn, what, ret), UNCHANGED <<nc, pcb, stale, fbuf, fails>>
  PROVE  IInv' /\ Stays(nc, nc')
<1> DEFINE n == nc[c]
<1>1. /\ nc \in [Netconn -> Conn] /\ n \in Conn
      /\ Len(n.recvmbox) <= DEFAULT_TCP_RECVMBOX_SIZE
  BY Running
<1>2. nc' = Put(nc, c, n)
  BY <1>1 DEF Put
<1>3. n = nc[c]
  OBVIOUS
<1> HIDE DEF n
<1> QED
  BY <1>1, <1>2, <1>3, Calling

(* A call that was answered returns.                                       *)
LEMMA ReturnStep ==
  ASSUME IInv, Return
  PROVE  IInv' /\ Stays(nc, nc')
<1> DEFINE c == Cur(srv)
           n == [nc[c] EXCEPT !.op_completed = 0]
           t == [srv EXCEPT !.pc = srv.ret, !.ret = "none"]
<1>1. /\ OK(srv, call, nc, pcb, {}, {}) /\ Typed(srv, call, nc, pcb)
      /\ Conns(nc) /\ Members(srv, nc) /\ Calls(srv, call, nc)
      /\ Flow(srv, call, nc)
  BY DEF IInv, OK
<1>2. /\ srv.pc = "wait" /\ nc[c].op_completed = 1 /\ nc' = Put(nc, c, n)
      /\ srv' = t /\ UNCHANGED <<call, pcb, fbuf, fails, stale>>
  BY DEF Return, Cur, Put
<1>3. /\ srv \in Servers /\ call \in Call /\ nc \in [Netconn -> Conn]
      /\ c \in Netconn /\ nc[c] \in Conn /\ Listener \in Netconn
  BY <1>1, Numbers DEF Typed, Servers, Cur
<1>4. srv.ret \in Places /\ call.fn = "none" /\ ~Working(nc[c].state)
  BY <1>1, <1>2, <1>3 DEF Calls, Flow, Servers
<1>5. /\ t \in Servers /\ t.pc = srv.ret /\ t.newconn = srv.newconn
      /\ t.ret = "none"
  BY <1>3, <1>4 DEF Servers, Places
<1>6. t.pc \notin {"wait", "recv", "fetch"}
  BY <1>4, <1>5 DEF Places
<1>7. /\ n \in Conn /\ n.op_completed = 0
      /\ n.used = nc[c].used /\ n.state = nc[c].state /\ n.pcb = nc[c].pcb
      /\ n.recvOk = nc[c].recvOk /\ n.acceptmbox = nc[c].acceptmbox
      /\ n.acceptOk = nc[c].acceptOk /\ n.current_msg = nc[c].current_msg
      /\ n.fatal = nc[c].fatal /\ n.recvmbox = nc[c].recvmbox
  BY <1>3 DEF Conn
<1> HIDE DEF n, t
<1>8. Flow(t, call, nc)
  <2>1. Place(t) = Place(srv) /\ Cur(t) = Cur(srv)
    BY <1>2, <1>5, <1>6 DEF Place, Cur
  <2> QED
    BY <1>1, <1>4, <1>5, <1>6, <2>1 DEF Flow
<1>9. nc[c].used = TRUE
  <2>1. nc[c].used = FALSE => nc[c] = NoConn
    BY <1>1, <1>3 DEF Conns
  <2>2. NoConn.op_completed = 0
    BY DEF NoConn
  <2> QED
    BY <1>2, <1>3, <2>1, <2>2 DEF Conn
<1>10. Len(nc[c].recvmbox) <= DEFAULT_TCP_RECVMBOX_SIZE
  BY <1>1, <1>3 DEF Conns
<1> HIDE DEF c
<1>11. c = Cur(srv)
  BY DEF c
<1>12. Moving(srv, nc, t, call, c, n)
  BY <1>2, <1>4, <1>5, <1>6, <1>7, <1>8, <1>9, <1>10, <1>11 DEF Moving
<1>13. OK(t, call, Put(nc, c, n), pcb, {}, {})
  BY <1>1, <1>3, <1>5, <1>7, <1>12, Moves
<1>14. OK(srv, call, nc, pcb, {}, {})'
  BY <1>2, <1>13
<1>15. Stays(nc, nc')
  BY <1>2, <1>3, <1>7 DEF Stays, Put
<1> QED
  BY <1>2, <1>14, <1>15, Served DEF IInv

(* netconn_new keeps the invariant, also where it fails.                   *)
LEMMA NewStep ==
  ASSUME IInv, netconn_new
  PROVE  IInv' /\ Stays(nc, nc')
<1>1. srv.pc = "new" /\ UNCHANGED <<pcb, fbuf, stale>>
  BY DEF netconn_new
<1>2. /\ OK(srv, call, nc, pcb, {}, {}) /\ srv \in Servers
      /\ nc \in [Netconn -> Conn] /\ \A c \in Netconn : nc[c] \in Conn
      /\ fbuf \in {"empty", "torn", "whole"} /\ fails \in 0..MaxFail
      /\ nc[Listener].acceptOk # TRUE /\ nc[Listener].used # TRUE
      /\ srv.newconn = NULL
  BY <1>1, Running DEF Serving
<1>3. CASE Alloc(FALSE) /\ Goto("halt") /\ UNCHANGED <<nc, call>>
  <2>1. fails' \in 0..MaxFail
    BY <1>3, AcceptAssumption DEF IInv, Alloc
  <2>2. Reaches("halt") /\ "halt" \in ServerPc \ {"wait", "free", "free_listener"}
    BY <1>2 DEF Reaches, Serving, ServerPc
  <2> QED
    BY <1>1, <1>2, <1>3, <2>1, <2>2, Goes
<1>4. CASE /\ nc' = [nc EXCEPT ![Listener] = [NoConn EXCEPT !.used = TRUE,
                                                            !.recvOk = TRUE]]
           /\ Post("newconn", Listener, "none", "bind")
           /\ UNCHANGED fails
  <2> DEFINE n == [NoConn EXCEPT !.used = TRUE, !.recvOk = TRUE]
             t == [srv EXCEPT !.pc = "wait", !.ret = "bind"]
             k == [fn |-> "newconn", conn |-> Listener, what |-> "none"]
  <2>1. n \in Conn
    BY NoConnType DEF Conn
  <2>2. /\ n.used = TRUE /\ n.state = "NONE" /\ n.pcb = NULL
        /\ n.fatal = FALSE /\ n.recvmbox = <<>> /\ n.acceptmbox = <<>>
        /\ n.acceptOk = FALSE /\ n.current_msg = "none" /\ n.op_completed = 0
    BY DEF NoConn
  <2>3. /\ t \in Servers /\ t.pc = "wait" /\ t.ret = "bind"
        /\ t.newconn = srv.newconn
    BY <1>2 DEF Servers, ServerPc, Places
  <2>4. /\ k \in Call /\ k.fn = "newconn" /\ k.conn = Listener
    BY Numbers DEF Call, Words
  <2>5. srv' = t /\ call' = k /\ nc' = Put(nc, Listener, n)
    BY <1>4 DEF Post, Put
  <2> HIDE DEF n, t, k
  <2>6. Creating(srv, t, k, n)
    BY <1>1, <2>2, <2>3, <2>4 DEF Creating
  <2>7. OK(t, k, Put(nc, Listener, n), pcb, {}, {})
    BY <1>2, <2>1, <2>3, <2>4, <2>6, Creates
  <2>8. OK(srv, call, nc, pcb, {}, {})' /\ fails' = fails
    BY <1>1, <1>4, <2>5, <2>7
  <2> QED
    BY <1>1, <1>2, <2>8, Served DEF Stays
<1> QED
  BY <1>3, <1>4 DEF netconn_new


(* netconn_bind keeps the invariant, also where there was no connection.   *)
LEMMA NetconnBindStep ==
  ASSUME IInv, netconn_bind
  PROVE  IInv' /\ Stays(nc, nc')
<1>1. srv.pc = "bind" /\ UNCHANGED <<pcb, fbuf, fails, stale>>
  BY DEF netconn_bind
<1>2. /\ OK(srv, call, nc, pcb, {}, {}) /\ srv \in Servers
      /\ nc \in [Netconn -> Conn] /\ \A c \in Netconn : nc[c] \in Conn
      /\ fbuf \in {"empty", "torn", "whole"} /\ fails \in 0..MaxFail
      /\ nc[Listener].acceptOk # TRUE /\ nc[Listener].used = TRUE
      /\ srv.newconn = NULL /\ Cur(srv) = Listener /\ srv.ret = "none"
  BY <1>1, Running DEF Serving
<1>3. Listener \in Netconn
  BY Numbers
<1>4. CASE nc[Listener].pcb = NULL
  <2> DEFINE t == [srv EXCEPT !.pc = "halt"]
  <2>1. /\ nc' = Put(nc, Listener, NoConn) /\ srv' = t /\ UNCHANGED call
    BY <1>4 DEF netconn_bind, Put, Goto
  <2>2. /\ t \in Servers /\ t.pc = "halt" /\ t.ret = "none" /\ t.newconn = NULL
    BY <1>2 DEF Servers, ServerPc
  <2>3. nc[Listener].acceptOk = FALSE
    BY <1>2, <1>3 DEF Conn
  <2> HIDE DEF t
  <2>4. Freeing(srv, nc, t, Listener)
    BY <1>1, <1>2, <1>4, <2>2, <2>3 DEF Freeing
  <2>5. OK(t, call, Put(nc, Listener, NoConn), pcb, {}, {})
    BY <1>2, <1>3, <2>2, <2>4, Frees
  <2>6. OK(srv, call, nc, pcb, {}, {})'
    BY <1>1, <2>1, <2>5
  <2> QED
    BY <1>1, <1>2, <2>6, Served DEF Stays
<1>5. CASE nc[Listener].pcb # NULL
  <2>1. Post("bind", Listener, "none", "listen") /\ UNCHANGED nc
    BY <1>5 DEF netconn_bind
  <2>2. nc[Listener].pcb \in Pcb
    <3>1. nc[Listener].pcb # ListenPcb
      BY <1>2 DEF OK, Listens
    <3> QED
      BY <1>2, <1>3, <1>5, <3>1 DEF Conn
  <2>3. Reaches("listen") /\ Fits("bind", "none", "listen")
    BY <1>2, <2>2 DEF Reaches, Fits, Serving
  <2>4. "none" \in Words /\ "listen" \in Places
    BY DEF Words, Places, ServerPc
  <2> QED
    BY <1>1, <1>2, <1>3, <2>1, <2>3, <2>4, CallingOnly
<1> QED
  BY <1>4, <1>5

(* netconn_listen keeps the invariant.                                     *)
LEMMA NetconnListenStep ==
  ASSUME IInv, netconn_listen
  PROVE  IInv' /\ Stays(nc, nc')
<1>1. /\ srv.pc = "listen" /\ Post("listen", Listener, "none", "accept")
      /\ UNCHANGED <<nc, pcb, fbuf, fails, stale>>
  BY DEF netconn_listen
<1>2. /\ nc[Listener].acceptOk # TRUE /\ nc[Listener].used = TRUE
      /\ srv.newconn = NULL /\ Cur(srv) = Listener
      /\ nc[Listener].pcb \in Pcb
  BY <1>1, Running DEF Serving
<1>3. Reaches("accept") /\ Fits("listen", "none", "accept")
  BY <1>2 DEF Reaches, Fits, Serving
<1>4. "none" \in Words /\ "accept" \in Places /\ Listener \in Netconn
  BY Numbers DEF Words, Places, ServerPc
<1> QED
  BY <1>1, <1>2, <1>3, <1>4, CallingOnly

(* netconn_accept takes the oldest connection; it fails only where the     *)
(* netconn does not listen.                                                *)
LEMMA NetconnAcceptStep ==
  ASSUME IInv, netconn_accept
  PROVE  IInv' /\ Stays(nc, nc')
<1>1. srv.pc = "accept" /\ UNCHANGED <<call, pcb, fbuf, fails, stale>>
  BY DEF netconn_accept
<1>2. /\ OK(srv, call, nc, pcb, {}, {}) /\ srv \in Servers
      /\ nc \in [Netconn -> Conn] /\ \A c \in Netconn : nc[c] \in Conn
      /\ fbuf \in {"empty", "torn", "whole"} /\ fails \in 0..MaxFail
      /\ nc[Listener].used = TRUE
      /\ srv.newconn = NULL /\ srv.ret = "none"
  BY <1>1, Running DEF Serving
<1>3. Listener \in Netconn /\ NULL \notin Netconn
  BY Numbers
<1>4. nc[Listener].fatal = FALSE /\ Members(srv, nc)
  BY <1>2 DEF OK, Listens
<1>5. CASE nc[Listener].acceptOk = FALSE
  <2>1. Goto("close_listener") /\ UNCHANGED nc
    BY <1>5 DEF netconn_accept
  <2>2. /\ Reaches("close_listener")
        /\ "close_listener" \in ServerPc \ {"wait", "free", "free_listener"}
    BY <1>2, <1>5 DEF Reaches, Serving, ServerPc
  <2> QED
    BY <1>1, <1>2, <2>1, <2>2, Goes
<1>6. CASE nc[Listener].acceptOk = TRUE
  <2> DEFINE mbox == nc[Listener].acceptmbox
             n == [nc[Listener] EXCEPT !.acceptmbox = Tail(mbox)]
             t == [srv EXCEPT !.pc = "recv", !.newconn = Head(mbox)]
  <2>1. /\ mbox # <<>> /\ nc' = Put(nc, Listener, n)
        /\ srv' = [srv EXCEPT
                     !.pc = IF Head(mbox) = NULL THEN "close_listener"
                            ELSE "recv",
                     !.newconn = Head(mbox)]
    BY <1>4, <1>6 DEF netconn_accept, Put
  <2>2. mbox \in Seq(Netconn \cup {NULL})
    BY <1>2, <1>3 DEF Conn
  <2>3. Head(mbox) \in Netconn
    <3>1. 1 \in DOMAIN mbox /\ Head(mbox) = mbox[1]
      BY <2>1, <2>2
    <3> QED
      BY <1>4, <3>1 DEF Members
  <2>4. srv' = t
    BY <1>3, <2>1, <2>3
  <2>5. /\ t \in Servers /\ t.pc = "recv" /\ t.ret = "none"
        /\ t.newconn = Head(mbox)
    BY <1>2, <2>3 DEF Servers, ServerPc
  <2>6. /\ n \in Conn /\ n.acceptmbox = Tail(mbox)
        /\ n.used = nc[Listener].used /\ n.state = nc[Listener].state
        /\ n.pcb = nc[Listener].pcb /\ n.fatal = nc[Listener].fatal
        /\ n.recvmbox = nc[Listener].recvmbox
        /\ n.recvOk = nc[Listener].recvOk
        /\ n.acceptOk = nc[Listener].acceptOk
        /\ n.current_msg = nc[Listener].current_msg
        /\ n.op_completed = nc[Listener].op_completed
    <3>1. Tail(mbox) \in Seq(Netconn \cup {NULL})
      BY <2>1, <2>2
    <3> QED
      BY <1>2, <1>3, <3>1 DEF Conn
  <2> HIDE DEF t, n
  <2>7. Accepting(srv, nc, t, n)
    BY <1>1, <1>6, <2>1, <2>5, <2>6 DEF Accepting
  <2>8. OK(t, call, Put(nc, Listener, n), pcb, {}, {})
    BY <1>2, <2>5, <2>6, <2>7, Takes
  <2>9. OK(srv, call, nc, pcb, {}, {})'
    BY <1>1, <2>1, <2>4, <2>8
  <2>10. Stays(nc, nc')
    BY <1>2, <1>3, <2>1, <2>6 DEF Stays, Put
  <2> QED
    BY <1>1, <1>2, <2>9, <2>10, Served
<1> QED
  BY <1>2, <1>3, <1>5, <1>6 DEF Conn

(* netconn_recv_data takes a message and posts that it has.                *)
LEMMA RecvDataStep ==
  ASSUME IInv, netconn_recv_data
  PROVE  IInv' /\ Stays(nc, nc')
<1> DEFINE c == srv.newconn
           mbox == nc[c].recvmbox
           n == [nc[c] EXCEPT !.recvmbox = Tail(mbox)]
           ret == IF Head(mbox) = "data" THEN "parse" ELSE "eof"
<1>1. /\ srv.pc = "fetch" /\ mbox # <<>> /\ nc' = Put(nc, c, n)
      /\ Post("recv", c, Head(mbox), ret)
      /\ UNCHANGED <<pcb, fbuf, fails, stale>>
  BY DEF netconn_recv_data, Put
<1>2. /\ nc \in [Netconn -> Conn] /\ srv.pc \in Serving
      /\ c \in Netconn /\ nc[c] \in Conn /\ c = Cur(srv) /\ c # NULL
      /\ nc[Listener].acceptOk = TRUE /\ nc[Listener].used = TRUE
      /\ Len(mbox) <= DEFAULT_TCP_RECVMBOX_SIZE
  BY <1>1, Running DEF Serving
<1>3. mbox \in Seq(Words)
  BY <1>2 DEF Conn
<1>4. /\ Tail(mbox) \in Seq(Words) /\ Head(mbox) \in Words
      /\ Len(Tail(mbox)) <= DEFAULT_TCP_RECVMBOX_SIZE
  BY <1>1, <1>2, <1>3, AcceptAssumption
<1>5. /\ n \in Conn /\ n.recvmbox = Tail(mbox)
      /\ n.used = nc[c].used /\ n.state = nc[c].state /\ n.pcb = nc[c].pcb
      /\ n.recvOk = nc[c].recvOk /\ n.acceptmbox = nc[c].acceptmbox
      /\ n.acceptOk = nc[c].acceptOk /\ n.current_msg = nc[c].current_msg
      /\ n.fatal = nc[c].fatal /\ n.op_completed = nc[c].op_completed
  BY <1>2, <1>4 DEF Conn
<1>6. ret \in {"parse", "eof"}
  OBVIOUS
<1> HIDE DEF ret
<1>7. Reaches(ret) /\ ret \in Places
  BY <1>2, <1>6 DEF Reaches, Serving, Places, ServerPc
<1>8. Fits("recv", Head(mbox), ret)
  BY <1>6 DEF Fits
<1>9. Len(n.recvmbox) <= DEFAULT_TCP_RECVMBOX_SIZE
  BY <1>4, <1>5
<1> DEFINE what == Head(mbox)
<1>10. what \in Words /\ Fits("recv", what, ret) /\ Post("recv", c, what, ret)
  BY <1>1, <1>4, <1>8
<1>11. srv.pc # "wait" /\ c = srv.newconn
  BY <1>1
<1> HIDE DEF n, what, mbox, c
<1> QED
  BY <1>1, <1>2, <1>5, <1>7, <1>9, <1>10, <1>11, Calling


(* A FIN was received: the error is kept in the netconn.                   *)
LEMMA EndOfFileStep ==
  ASSUME IInv, EndOfFile
  PROVE  IInv' /\ Stays(nc, nc')
<1> DEFINE c == srv.newconn
           n == [nc[c] EXCEPT !.fatal = TRUE]
           t == [srv EXCEPT !.pc = "delete"]
<1>1. /\ srv.pc = "eof" /\ nc' = Put(nc, c, n) /\ srv' = t
      /\ UNCHANGED <<call, pcb, fbuf, fails, stale>>
  BY DEF EndOfFile, Put, Goto
<1>2. /\ OK(srv, call, nc, pcb, {}, {}) /\ srv \in Servers /\ call \in Call
      /\ nc \in [Netconn -> Conn] /\ c \in Netconn /\ nc[c] \in Conn
      /\ c # NULL /\ c # Listener /\ nc[c].used = TRUE
      /\ nc[Listener].acceptOk = TRUE /\ nc[Listener].used = TRUE
      /\ Len(nc[c].recvmbox) <= DEFAULT_TCP_RECVMBOX_SIZE
      /\ nc[c].op_completed = 0 /\ call.fn = "none" /\ srv.ret = "none"
      /\ fbuf \in {"empty", "torn", "whole"} /\ fails \in 0..MaxFail
  BY <1>1, Running DEF Serving
<1>3. /\ t \in Servers /\ t.pc = "delete" /\ t.newconn = c /\ t.ret = "none"
  BY <1>2 DEF Servers, ServerPc
<1>4. /\ n \in Conn /\ n.recvmbox = nc[c].recvmbox
      /\ n.used = nc[c].used /\ n.state = nc[c].state /\ n.pcb = nc[c].pcb
      /\ n.recvOk = nc[c].recvOk /\ n.acceptmbox = nc[c].acceptmbox
      /\ n.acceptOk = nc[c].acceptOk /\ n.current_msg = nc[c].current_msg
      /\ n.op_completed = nc[c].op_completed
  BY <1>2 DEF Conn
<1> HIDE DEF n, t
<1>5. Flow(t, call, nc)
  <2>1. Place(t) = "delete"
    BY <1>3 DEF Place
  <2> QED
    BY <1>2, <1>3, <2>1 DEF Flow, Serving
<1>6. Moving(srv, nc, t, call, c, n)
  BY <1>1, <1>2, <1>3, <1>4, <1>5 DEF Moving
<1> HIDE DEF c
<1>7. OK(t, call, Put(nc, c, n), pcb, {}, {})
  BY <1>2, <1>3, <1>4, <1>6, Moves
<1>8. OK(srv, call, nc, pcb, {}, {})'
  BY <1>1, <1>7
<1>9. Stays(nc, nc')
  BY <1>1, <1>2, <1>4, Numbers DEF Stays, Put
<1> QED
  BY <1>1, <1>2, <1>8, <1>9, Served

(* Steps that only change where the server is, or file_buffer.             *)
LEMMA PlainStep ==
  ASSUME IInv, netconn_recv \/ Parse \/ Strcpy \/ Strcat
  PROVE  IInv' /\ Stays(nc, nc')
<1> DEFINE Places2 == {"delete", "fetch", "close", "write_hdr", "strcpy",
                       "strcat", "write_404"}
<1>1. /\ srv.pc \in {"recv", "parse", "strcpy", "strcat"}
      /\ UNCHANGED <<call, nc, pcb, fails, stale>>
      /\ fbuf' \in {fbuf, "torn", "whole"}
  BY DEF netconn_recv, Parse, Strcpy, Strcat
<1>2. PICK x \in Places2 : Goto(x) /\ (x = "fetch" => srv.pc = "recv")
  <2>1. CASE netconn_recv
    <3>1. CASE ~nc[srv.newconn].recvOk \/ nc[srv.newconn].fatal
      <4>1. Goto("delete")
        BY <2>1, <3>1 DEF netconn_recv
      <4> QED
        BY <4>1
    <3>2. CASE ~(~nc[srv.newconn].recvOk \/ nc[srv.newconn].fatal)
      <4>1. Goto("fetch") /\ srv.pc = "recv"
        BY <2>1, <3>2 DEF netconn_recv
      <4> QED
        BY <4>1
    <3> QED
      BY <3>1, <3>2
  <2>2. CASE Parse
    BY <2>2 DEF Parse
  <2>3. CASE Strcpy
    BY <2>3 DEF Strcpy
  <2>4. CASE Strcat
    BY <2>4 DEF Strcat
  <2> QED
    BY <2>1, <2>2, <2>3, <2>4
<1>3. /\ srv.newconn # NULL /\ nc[Listener].acceptOk = TRUE
      /\ nc[Listener].used = TRUE
      /\ fbuf \in {"empty", "torn", "whole"} /\ fails \in 0..MaxFail
  BY <1>1, Running DEF Serving
<1>4. Reaches(x)
  BY <1>3 DEF Reaches, Serving
<1>5. /\ x \in ServerPc \ {"wait", "free", "free_listener"}
      /\ x \in {"recv", "fetch"} => srv.pc \in {"recv", "fetch"}
      /\ srv.pc # "wait"
  BY <1>1, <1>2 DEF ServerPc
<1>6. fbuf' \in {"empty", "torn", "whole"} /\ fails' \in 0..MaxFail
  BY <1>1, <1>3
<1> QED
  BY <1>1, <1>2, <1>4, <1>5, <1>6, Goes

(* netconn_write, netconn_close and netconn_delete post their calls.       *)
LEMMA CallStep ==
  ASSUME IInv, netconn_write \/ netconn_close \/ netconn_delete
  PROVE  IInv' /\ Stays(nc, nc')
<1>1. UNCHANGED <<nc, pcb, fbuf, fails, stale>>
  BY DEF netconn_write, netconn_close, netconn_delete
<1>2. CASE srv.pc \in {"write_hdr", "write_page", "write_404", "close", "delete"}
  <2>1. /\ srv.newconn \in Netconn /\ srv.newconn = Cur(srv)
        /\ nc[Listener].acceptOk = TRUE /\ nc[Listener].used = TRUE
        /\ srv.newconn # NULL /\ srv.pc # "wait"
    BY <1>2, Running DEF Serving
  <2>2. PICK fn \in {"write", "close", "delconn"},
             what \in {"none", "rom", "404"},
             ret \in {"write_page", "close", "delete", "free"} :
          Post(fn, srv.newconn, what, ret) /\ Fits(fn, what, ret)
    BY <1>2 DEF netconn_write, netconn_close, netconn_delete, Fits
  <2>3. Reaches(ret)
    BY <2>1 DEF Reaches, Serving
  <2>4. what \in Words /\ ret \in Places
    BY DEF Words, Places, ServerPc
  <2> QED
    BY <1>1, <2>1, <2>2, <2>3, <2>4, CallingOnly
<1>3. CASE srv.pc \in {"close_listener", "delete_listener"}
  <2>1. /\ Listener \in Netconn /\ Listener = Cur(srv)
        /\ nc[Listener].acceptOk # TRUE /\ nc[Listener].used = TRUE
        /\ srv.newconn = NULL /\ srv.pc # "wait"
    BY <1>3, Running, Numbers DEF Serving
  <2>2. PICK fn \in {"close", "delconn"},
             ret \in {"delete_listener", "free_listener"} :
          Post(fn, Listener, "none", ret) /\ Fits(fn, "none", ret)
    BY <1>3 DEF netconn_write, netconn_close, netconn_delete, Fits
  <2>3. Reaches(ret)
    BY <2>1 DEF Reaches, Serving
  <2>4. "none" \in Words /\ ret \in Places
    BY DEF Words, Places, ServerPc
  <2> QED
    BY <1>1, <2>1, <2>2, <2>3, <2>4, CallingOnly
<1> QED
  BY <1>2, <1>3 DEF netconn_write, netconn_close, netconn_delete

(* The end of netconn_delete keeps the invariant.                          *)
LEMMA FreeStep ==
  ASSUME IInv, netconn_free
  PROVE  IInv' /\ Stays(nc, nc')
<1>1. /\ srv.pc \in {"free", "free_listener"}
      /\ UNCHANGED <<call, pcb, fbuf, fails, stale>>
  BY DEF netconn_free
<1>2. /\ OK(srv, call, nc, pcb, {}, {}) /\ srv \in Servers
      /\ nc \in [Netconn -> Conn] /\ \A d \in Netconn : nc[d] \in Conn
      /\ fbuf \in {"empty", "torn", "whole"} /\ fails \in 0..MaxFail
      /\ srv.ret = "none" /\ nc[Cur(srv)].pcb = NULL
      /\ srv.newconn # Listener
  BY <1>1, Running
<1>3. CASE srv.pc = "free"
  <2> DEFINE c == srv.newconn
             t == [srv EXCEPT !.pc = "accept", !.newconn = NULL]
  <2>1. nc' = Put(nc, c, NoConn) /\ srv' = t
    BY <1>3 DEF netconn_free, Put
  <2>2. /\ t \in Servers /\ t.pc = "accept" /\ t.ret = "none" /\ t.newconn = NULL
    BY <1>2 DEF Servers, ServerPc
  <2>3. c \in Netconn /\ nc[c].pcb = NULL
    BY <1>2, <1>3, Running DEF Serving
  <2> HIDE DEF t
  <2>4. Freeing(srv, nc, t, c)
    BY <1>3, <2>2, <2>3 DEF Freeing
  <2> HIDE DEF c
  <2>5. OK(t, call, Put(nc, c, NoConn), pcb, {}, {})
    BY <1>2, <2>2, <2>3, <2>4, Frees
  <2>6. OK(srv, call, nc, pcb, {}, {})'
    BY <1>1, <2>1, <2>5
  <2>7. Stays(nc, nc')
    BY <1>2, <2>1, <2>3, Numbers DEF Stays, Put, c
  <2> QED
    BY <1>1, <1>2, <2>6, <2>7, Served
<1>4. CASE srv.pc = "free_listener"
  <2> DEFINE t == [srv EXCEPT !.pc = "halt"]
  <2>1. nc' = Put(nc, Listener, NoConn) /\ srv' = t
    BY <1>4 DEF netconn_free, Put, Goto
  <2>2. /\ srv.newconn = NULL /\ nc[Listener].acceptOk # TRUE
        /\ Cur(srv) = Listener /\ Listener \in Netconn
    BY <1>4, Running, Numbers DEF Serving
  <2>3. /\ t \in Servers /\ t.pc = "halt" /\ t.ret = "none" /\ t.newconn = NULL
    BY <1>2, <2>2 DEF Servers, ServerPc
  <2>4. nc[Listener].acceptOk = FALSE
    BY <1>2, <2>2 DEF Conn
  <2> HIDE DEF t
  <2>5. Freeing(srv, nc, t, Listener)
    BY <1>2, <1>4, <2>2, <2>3, <2>4 DEF Freeing
  <2>6. OK(t, call, Put(nc, Listener, NoConn), pcb, {}, {})
    BY <1>2, <2>2, <2>3, <2>5, Frees
  <2>7. OK(srv, call, nc, pcb, {}, {})'
    BY <1>1, <2>1, <2>6
  <2> QED
    BY <1>1, <1>2, <2>2, <2>7, Served DEF Stays
<1> QED
  BY <1>1, <1>3, <1>4

(* Whatever the server does, the invariant is kept.                        *)
LEMMA ServerStep ==
  ASSUME IInv, Server
  PROVE  IInv' /\ Stays(nc, nc')
BY ReturnStep, NewStep, NetconnBindStep, NetconnListenStep,
   NetconnAcceptStep, RecvDataStep, EndOfFileStep, PlainStep, CallStep,
   FreeStep DEF Server


-----------------------------------------------------------------------------
(* The theorems. *)

(* Before anything has happened.                                           *)
LEMMA InitOK == Init => IInv
<1> SUFFICES ASSUME Init
             PROVE  IInv
  OBVIOUS
<1>n. /\ Listener \in Netconn /\ NULL \notin Netconn /\ NULL \notin Pcb
      /\ ListenPcb # NULL
  BY Numbers
<1>1. Typed(srv, call, nc, pcb)
  <2>1. srv \in Servers
    BY DEF Init, Servers, ServerPc
  <2>2. call \in Call
    BY NoCallType DEF Init
  <2>3. nc \in [Netconn -> Conn] /\ pcb \in [Pcb -> Connection]
    BY NoConnType, NoPcbType DEF Init
  <2> QED
    BY <2>1, <2>2, <2>3 DEF Typed
<1>2. /\ \A c \in Netconn : nc[c] = NoConn
      /\ \A p \in Pcb : pcb[p] = NoPcb
      /\ srv.pc = "new" /\ srv.newconn = NULL /\ srv.ret = "none"
      /\ call.fn = "none"
  BY NoCallType DEF Init
<1>3. /\ NoConn.pcb = NULL /\ NoConn.used = FALSE /\ NoConn.fatal = FALSE
      /\ NoConn.acceptOk = FALSE /\ NoConn.acceptmbox = <<>>
      /\ NoConn.recvmbox = <<>> /\ NoConn.state = "NONE"
      /\ NoConn.current_msg = "none" /\ NoConn.op_completed = 0
      /\ NoPcb.state = "FREE" /\ NoPcb.cb = "none" /\ NoPcb.unread = 0
  BY DEF NoConn, NoPcb
<1>4. Links(nc, pcb) /\ Young(pcb) /\ Opening(nc, pcb)
  BY <1>2, <1>3, <1>n DEF Links, Young, Opening
<1>5. Conns(nc)
  <2>1. Len(<<>>) <= DEFAULT_TCP_RECVMBOX_SIZE /\ Len(<<>>) <= DEFAULT_ACCEPTMBOX_SIZE
    BY AcceptAssumption
  <2> QED
    BY <1>2, <1>3, <1>n, <2>1 DEF Conns
<1>6. Listens(nc)
  BY <1>2, <1>3, <1>n DEF Listens
<1>7. \A c : ~Waits(nc, c)
  BY <1>2, <1>3, <1>n DEF Waits
<1>8. Members(srv, nc)
  BY <1>2, <1>3, <1>7, <1>n DEF Members
<1>9. Calls(srv, call, nc)
  BY <1>2, <1>3 DEF Calls, Working
<1>10. Flow(srv, call, nc)
  BY <1>2, <1>3, <1>n DEF Flow, Place, Serving
<1>11. Fed(srv, nc, pcb, {})
  BY <1>2, <1>7 DEF Fed, Fresh
<1>12. Window(pcb, {})
  BY <1>2, <1>3, AcceptAssumption DEF Window
<1>13. /\ stale = FALSE /\ fbuf \in {"empty", "torn", "whole"}
       /\ fails \in 0..MaxFail
  BY AcceptAssumption DEF Init
<1> QED
  BY <1>1, <1>4, <1>5, <1>6, <1>8, <1>9, <1>10, <1>11, <1>12, <1>13
  DEF IInv, OK

(* Every step keeps the invariant, and a netconn that listens listens on.  *)
LEMMA NextOK ==
  ASSUME IInv, [Next]_vars
  PROVE  IInv' /\ Stays(nc, nc')
<1>1. CASE Next
  BY <1>1, ServerStep, ApiStep, TcpStep DEF Next
<1>2. CASE UNCHANGED vars
  BY <1>2 DEF vars, IInv, Stays
<1> QED
  BY <1>1, <1>2

(* The invariant holds in every state the server can reach.                *)
THEOREM Invariant == Spec => []IInv
<1>1. IInv /\ [Next]_vars => IInv'
  BY NextOK
<1> QED
  BY InitOK, <1>1, PTL DEF Spec

(* As many netconns wait to be accepted as the mailbox has places taken.   *)
LEMMA WaitingCount ==
  ASSUME NEW mbox \in Seq(Netconn \cup {NULL}),
         \A i, j \in DOMAIN mbox : mbox[i] = mbox[j] => i = j
  PROVE  Cardinality({mbox[i] : i \in DOMAIN mbox}) = Len(mbox)
<1> DEFINE S == DOMAIN mbox
           T == {mbox[i] : i \in DOMAIN mbox}
<1>1. S = 1..Len(mbox) /\ Len(mbox) \in Nat
  OBVIOUS
<1>2. IsFiniteSet(S) /\ Cardinality(S) = Len(mbox)
  BY <1>1, FS_Interval
<1>3. mbox \in [S -> T]
  BY <1>1
<1>4. mbox \in Surjection(S, T)
  BY <1>3 DEF Surjection
<1>5. mbox \in Injection(S, T)
  BY <1>3 DEF Injection, IsInjective
<1> HIDE DEF S, T
<1>6. Cardinality(T) = Cardinality(S)
  BY <1>2, <1>4, <1>5, FS_Surjection
<1> QED
  BY <1>2, <1>6 DEF T

(* The netconns in use are the listening one, the one served and those     *)
(* that wait, each once, and connections and netconns name each other.     *)
LEMMA Conserves == IInv => NetconnsConserved
<1> SUFFICES ASSUME IInv
             PROVE  NetconnsConserved
  OBVIOUS
<1> DEFINE mbox == nc[Listener].acceptmbox
           Waiting == {mbox[i] : i \in DOMAIN mbox}
           Used == {c \in Netconn : nc[c].used}
<1>1. /\ Typed(srv, call, nc, pcb) /\ Links(nc, pcb) /\ Conns(nc)
      /\ Members(srv, nc) /\ Window(pcb, {}) /\ stale = FALSE
      /\ fbuf \in {"empty", "torn", "whole"} /\ fails \in 0..MaxFail
  BY DEF IInv, OK
<1>n. /\ Listener \in Netconn /\ NULL \notin Netconn /\ NULL \notin Pcb
  BY Numbers
<1>2. /\ srv \in Servers /\ call \in Call
      /\ \A c \in Netconn : nc[c] \in Conn
      /\ \A p \in Pcb : pcb[p] \in Connection
  BY <1>1 DEF Typed
<1>3. TypeOK
  <2>1. /\ srv.pc \in ServerPc /\ srv.newconn \in Netconn \cup {NULL}
        /\ call.fn \in {"none", "newconn", "bind", "listen", "recv", "write",
                        "close", "delconn"}
    BY <1>2 DEF Servers, Call
  <2>2. ASSUME NEW c \in Netconn
        PROVE  /\ nc[c].pcb \in Pcb \cup {NULL, ListenPcb}
               /\ nc[c].state \in {"NONE", "WRITE", "LISTEN", "CLOSE"}
               /\ Len(nc[c].recvmbox) <= DEFAULT_TCP_RECVMBOX_SIZE
               /\ Len(nc[c].acceptmbox) <= DEFAULT_ACCEPTMBOX_SIZE
               /\ nc[c].op_completed \in {0, 1}
    BY <1>1, <1>2 DEF Conn, Conns
  <2>3. ASSUME NEW p \in Pcb
        PROVE  /\ pcb[p].state \in Active \cup {"FREE", "CLOSED", "TIME_WAIT"}
               /\ pcb[p].arg \in Netconn \cup {NULL}
               /\ pcb[p].cb \in {"none", "all", "norecv"}
               /\ pcb[p].unread \in 0..TCP_WND
    <3>1. pcb[p].unread \in Nat /\ pcb[p].unread <= TCP_WND + 0
      BY <1>1, <1>2 DEF Window, Connection
    <3>2. pcb[p].unread \in 0..TCP_WND
      BY <3>1, AcceptAssumption
    <3> QED
      BY <1>2, <3>2 DEF Connection
  <2> QED
    BY <1>1, <2>1, <2>2, <2>3 DEF TypeOK
<1>4. \A c \in Netconn : nc[c].pcb \in Pcb => nc[c].used = TRUE
  <2> SUFFICES ASSUME NEW c \in Netconn, nc[c].pcb \in Pcb
               PROVE  nc[c].used = TRUE
    OBVIOUS
  <2>1. nc[c].used = FALSE => nc[c] = NoConn
    BY <1>1 DEF Conns
  <2>2. NoConn.pcb \notin Pcb
    BY <1>n DEF NoConn
  <2> QED
    BY <1>2, <2>1, <2>2 DEF Conn
<1>5. BackPointers
  BY <1>1, <1>4 DEF BackPointers, Links
<1>6. Cardinality(Waiting) = Len(mbox)
  <2>1. mbox \in Seq(Netconn \cup {NULL})
    BY <1>2, <1>n DEF Conn
  <2>2. \A i, j \in DOMAIN mbox : mbox[i] = mbox[j] => i = j
    BY <1>1 DEF Members
  <2> QED
    BY <2>1, <2>2, WaitingCount
<1>7. \A c : c \in Waiting <=> Waits(nc, c)
  BY DEF Waits
<1>8. Waiting \subseteq Netconn \ {Listener, srv.newconn}
  BY <1>1 DEF Members
<1>9. \A c \in Netconn \ {Listener} :
        c \in Used <=> c = srv.newconn \/ c \in Waiting
  <2> SUFFICES ASSUME NEW c \in Netconn \ {Listener}
               PROVE  c \in Used <=> c = srv.newconn \/ c \in Waiting
    OBVIOUS
  <2>1. c \in Used <=> nc[c].used
    OBVIOUS
  <2>2. nc[c].used \in BOOLEAN
    BY <1>2 DEF Conn
  <2>3. nc[c].used = TRUE <=> c = srv.newconn \/ Waits(nc, c)
    BY <1>1 DEF Members
  <2> HIDE DEF Used, Waiting
  <2> QED
    BY <1>7, <2>1, <2>2, <2>3
<1>10. Used \subseteq Netconn
  OBVIOUS
<1>11. srv.newconn \in Netconn \cup {NULL} /\ srv.newconn # Listener
  BY <1>1, <1>2 DEF Servers, Members
<1> HIDE DEF Used, Waiting
<1>12. Used \ {Listener} = Waiting \cup ({srv.newconn} \ {NULL})
  BY <1>8, <1>9, <1>10, <1>11, <1>n
<1> QED
  BY <1>3, <1>5, <1>6, <1>8, <1>12 DEF NetconnsConserved, Waiting, Used

(* No netconn is lost, none is there twice, and no callback reaches one    *)
(* that was freed.                                                         *)
THEOREM ConservedTheorem == Spec => []NetconnsConserved
BY Invariant, Conserves, PTL

(* A server that waits for a request has one in its mailbox, or an open    *)
(* connection that calls back with it: no error and no FIN is lost.        *)
THEOREM WakeupTheorem == Spec => []NoLostWakeup
<1>1. IInv => NoLostWakeup
  <2> SUFFICES ASSUME IInv, srv.pc = "fetch", nc[srv.newconn].recvmbox = <<>>
               PROVE  /\ nc[srv.newconn].pcb \in Pcb
                      /\ pcb[nc[srv.newconn].pcb].state = "ESTABLISHED"
                      /\ pcb[nc[srv.newconn].pcb].cb = "all"
    BY DEF NoLostWakeup
  <2> DEFINE c == srv.newconn
  <2>1. OK(srv, call, nc, pcb, {}, {}) /\ c \in Netconn
    BY Running DEF Serving
  <2>2. Fresh(srv, nc, c) /\ Fed(srv, nc, pcb, {})
    BY <2>1 DEF Fresh, OK
  <2>3. CallsBack(nc, pcb, c)
    BY <2>1, <2>2, FreshOpen
  <2>4. nc[c].pcb \in Pcb /\ pcb[nc[c].pcb].state = "ESTABLISHED"
    BY <2>1, <2>2 DEF Fed
  <2> QED
    BY <2>3, <2>4 DEF CallsBack
<1> QED
  BY Invariant, <1>1, PTL

(* A call of the server is posted, answered, or worked on by a netconn     *)
(* whose connection will go on with it; it is answered once.               *)
THEOREM AnsweredTheorem == Spec => []CallAnswered
<1>1. IInv => CallAnswered
  <2> SUFFICES ASSUME IInv
               PROVE  CallAnswered
    OBVIOUS
  <2> DEFINE c == IF srv.newconn = NULL THEN Listener ELSE srv.newconn
  <2>1. /\ Typed(srv, call, nc, pcb) /\ Links(nc, pcb)
        /\ Calls(srv, call, nc)
    BY DEF IInv, OK
  <2>2. c = Cur(srv) /\ c \in Netconn /\ nc[c] \in Conn
    BY <2>1, Numbers DEF Typed, Servers, Cur
  <2> HIDE DEF c
  <2>3. /\ \A d \in Netconn :
             nc[d].op_completed = 1 => srv.pc = "wait" /\ d = c
        /\ Working(nc[c].state) <=> nc[c].current_msg # "none"
    BY <2>1, <2>2 DEF Calls
  <2>4. nc[c].op_completed \in {0, 1}
    BY <2>2 DEF Conn
  <2>5. ASSUME srv.pc = "wait"
        PROVE  \/ /\ call.fn # "none" /\ nc[c].op_completed = 0
                  /\ ~Working(nc[c].state)
               \/ /\ call.fn = "none" /\ nc[c].op_completed = 1
                  /\ ~Working(nc[c].state)
               \/ /\ call.fn = "none" /\ nc[c].op_completed = 0
                  /\ Working(nc[c].state)
                  /\ nc[c].pcb \in Pcb /\ pcb[nc[c].pcb].cb # "none"
    <3>1. nc[c].pcb \in Pcb => pcb[nc[c].pcb].cb # "none"
      BY <2>1, <2>2 DEF Links
    <3>2. /\ nc[c].op_completed = 1 =>
               call.fn = "none" /\ ~Working(nc[c].state)
          /\ Working(nc[c].state) => call.fn = "none" /\ nc[c].pcb \in Pcb
          /\ call.fn = "none" =>
               nc[c].op_completed = 1 \/ Working(nc[c].state)
      BY <2>1, <2>2, <2>5 DEF Calls
    <3> QED
      BY <2>4, <3>1, <3>2
  <2> QED
    BY <2>3, <2>5 DEF CallAnswered, c
<1> QED
  BY Invariant, <1>1, PTL

(* Once it listens the server stays.                                       *)
THEOREM StaysTheorem == Spec => ServerStays
<1>1. ASSUME IInv, [Next]_vars, nc[Listener].state = "LISTEN"
      PROVE  nc'[Listener].state = "LISTEN" /\ srv'.pc # "close_listener"
  <2>1. IInv' /\ Stays(nc, nc')
    BY <1>1, NextOK
  <2>2. nc[Listener].acceptOk = TRUE
    BY <1>1 DEF IInv, OK, Listens
  <2>3. nc'[Listener].acceptOk = TRUE
    BY <2>1, <2>2 DEF Stays
  <2>4. Listens(nc)' /\ Flow(srv, call, nc)'
    BY <2>1 DEF IInv, OK
  <2>5. nc'[Listener].state = "LISTEN"
    BY <2>3, <2>4 DEF Listens
  <2>6. srv'.pc # "close_listener"
    BY <2>3, <2>4 DEF Flow, Place, Serving
  <2> QED
    BY <2>5, <2>6
<1>2. IInv /\ [Next]_vars =>
        [nc[Listener].state = "LISTEN" =>
           /\ nc'[Listener].state = "LISTEN"
           /\ srv'.pc # "close_listener"]_vars
  BY <1>1
<1> QED
  BY Invariant, <1>2, PTL DEF Spec, ServerStays
=============================================================================
