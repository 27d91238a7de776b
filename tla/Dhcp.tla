-------------------------------- MODULE Dhcp --------------------------------
(***************************************************************************)
(* The DHCP client of lwIP on the board's only interface (dhcp.c), with    *)
(* the parts of netif.c and etharp.c that it acts on.  Everything here     *)
(* runs in the tcpip thread: its handlers are atomic, and what interleaves *)
(* is the answers of servers, the fine and the coarse timer, the answers   *)
(* to ARP queries and the link callbacks.                                  *)
(*                                                                         *)
(* A reply counts only when it carries dhcp->xid, so the network holds     *)
(* nothing but the requests sent under the current one: each of them may   *)
(* be answered never, late, or many times.  request_timeout is kept as     *)
(* whether it runs; it may run out at any time.  Masks, gateways and       *)
(* names are left out.                                                     *)
(***************************************************************************)
EXTENDS Integers, FiniteSets

CONSTANTS Addr,          \* addresses a server may give
          Taken,         \* the ones another host answers ARP queries for
          ServerIds,     \* whether an OFFER carries the server identifier
          Leases,        \* the times an ACK may carry, in seconds
          U8, U16,       \* one more than the greatest value of a counter
          INFINITE,      \* 0xffffffff seconds
          DHCP_COARSE_TIMER_SECS,
          MaxNoMem       \* how often the heap is exhausted

NotGiven == -1
NoAddr == "0.0.0.0"
REBOOT_TRIES == 2

ASSUME AddrAssumption == /\ Taken \subseteq Addr /\ NoAddr \notin Addr
                         /\ ServerIds \subseteq BOOLEAN
(* The greatest limit on the tries is 8, in REBINDING.                     *)
ASSUME WidthAssumption == /\ U8 \in Nat /\ U8 > 9
                          /\ U16 \in Nat /\ U16 > 1
                          /\ INFINITE \in Nat
                          /\ DHCP_COARSE_TIMER_SECS \in Nat \ {0}
                          /\ MaxNoMem \in Nat
Seconds == 0 .. INFINITE
ASSUME LeaseAssumption ==
  Leases \subseteq [t0 : Seconds, t1 : Seconds \cup {NotGiven},
                    t2 : Seconds \cup {NotGiven}]

VARIABLES
  c,      \* the client and what it sets of the interface
  pcb,    \* dhcp->pcb: "none" before dhcp_start, "open", or "removed"
  link,   \* NETIF_FLAG_LINK_UP
  noMem,  \* how often the heap may still be exhausted
  stale   \* T1 or T2 ran out in REQUESTING: they are an older lease's
vars == <<c, pcb, link, noMem, stale>>

State == {"OFF", "SELECTING", "REQUESTING", "CHECKING", "BOUND", "RENEWING",
          "REBINDING", "REBOOTING", "BACKING_OFF"}
Discover == [type |-> "DISCOVER", addr |-> NoAddr]
Request(a) == [type |-> "REQUEST", addr |-> a]

(* probe and granted are the address of the last ARP query that nobody has *)
(* answered, and the one of the last ACK.                                  *)
Client == [state : State, tries : 0 .. U8 - 1, request_timeout : BOOLEAN,
           t1_timeout : 0 .. U16 - 1, t2_timeout : 0 .. U16 - 1,
           offered_ip_addr : Addr \cup {NoAddr}, offered_t0_lease : Seconds,
           offered_t1_renew : Seconds, offered_t2_rebind : Seconds,
           sent : SUBSET ({Discover} \cup {Request(a) : a \in Addr \cup {NoAddr}}),
           up : BOOLEAN, ip_addr : Addr \cup {NoAddr},
           probe : Addr \cup {NoAddr}, granted : Addr \cup {NoAddr}]

(* The counters stay within their widths, and the record is the struct.    *)
TypeOK == /\ c \in Client
          /\ pcb \in {"none", "open", "removed"}
          /\ link \in BOOLEAN /\ stale \in BOOLEAN
          /\ noMem \in 0 .. MaxNoMem

Init == /\ c = [state |-> "OFF", tries |-> 0, request_timeout |-> FALSE,
                t1_timeout |-> 0, t2_timeout |-> 0,
                offered_ip_addr |-> NoAddr, offered_t0_lease |-> 0,
                offered_t1_renew |-> 0, offered_t2_rebind |-> 0,
                sent |-> {}, up |-> FALSE, ip_addr |-> NoAddr,
                probe |-> NoAddr, granted |-> NoAddr]
        /\ pcb = "none" /\ link = TRUE /\ stale = FALSE
        /\ noMem = MaxNoMem

----------------------------------------------------------------------------
(* What the functions of dhcp.c make of the client.  ok says whether       *)
(* dhcp_create_msg got its pbuf.                                           *)

dhcp_set_state(d, s) ==
  IF d.state = s THEN d
  ELSE [d EXCEPT !.state = s, !.tries = 0, !.request_timeout = FALSE]

(* The first try of a transaction takes a new xid, and the answers to      *)
(* everything older are ignored from then on.  req is what can be answered *)
(* of this message.                                                        *)
dhcp_create_msg(d, req, ok) ==
  IF ok THEN [d EXCEPT !.sent = req \cup IF d.tries = 0 THEN {} ELSE @] ELSE d

(* Fault: the timer of the next try is not set.                            *)
FaultBackoff(d) == [d EXCEPT !.tries = (@ + 1) % U8]

(* 1, 2, 4 ... seconds, 60 in the end: never zero.                         *)
Backoff(d) ==
  [d EXCEPT !.tries = (@ + 1) % U8, !.request_timeout = TRUE]

(* tries * 1000 or * 2000 milliseconds: no timer when tries has wrapped.   *)
LinearBackoff(d) ==
  LET n == (d.tries + 1) % U8
  IN [d EXCEPT !.tries = n, !.request_timeout = (n # 0)]

(* Fault: the interface stays up.                                          *)
FaultSetDown(d) == d

netif_set_down(d) == [d EXCEPT !.up = FALSE]

dhcp_discover(d, ok) ==
  LET s == dhcp_set_state([d EXCEPT !.offered_ip_addr = NoAddr], "SELECTING")
  IN Backoff(dhcp_create_msg(s, {Discover}, ok))

dhcp_select(d, ok) ==
  LET s == dhcp_set_state(d, "REQUESTING")
  IN Backoff(dhcp_create_msg(s, {Request(s.offered_ip_addr)}, ok))

dhcp_renew(d, ok) ==
  LET s == dhcp_set_state(d, "RENEWING")
  IN LinearBackoff(dhcp_create_msg(s, {Request(s.ip_addr)}, ok))

dhcp_rebind(d, ok) ==
  LET s == dhcp_set_state(d, "REBINDING")
  IN LinearBackoff(dhcp_create_msg(s, {Request(s.ip_addr)}, ok))

dhcp_reboot(d, ok) ==
  LET s == dhcp_set_state(d, "REBOOTING")
  IN LinearBackoff(dhcp_create_msg(s, {Request(s.offered_ip_addr)}, ok))

dhcp_decline(d, ok) ==
  LET s == dhcp_set_state(d, "BACKING_OFF")
  IN Backoff(dhcp_create_msg(s, {}, ok))

dhcp_release(d, ok) ==
  LET s == [dhcp_set_state(d, "OFF") EXCEPT
              !.offered_ip_addr = NoAddr, !.offered_t0_lease = 0,
              !.offered_t1_renew = 0, !.offered_t2_rebind = 0]
  IN [netif_set_down(LinearBackoff(dhcp_create_msg(s, {}, ok)))
        EXCEPT !.ip_addr = NoAddr]

dhcp_handle_nak(d, ok) ==
  LET s == [netif_set_down(d) EXCEPT !.ip_addr = NoAddr]
  IN dhcp_discover(dhcp_set_state(s, "BACKING_OFF"), ok)

dhcp_handle_ack(d, addr, lease) ==
  LET t0 == lease.t0
  IN [d EXCEPT !.offered_t0_lease = t0,
               !.offered_t1_renew = IF lease.t1 = NotGiven THEN t0 \div 2
                                                           ELSE lease.t1,
               !.offered_t2_rebind = IF lease.t2 = NotGiven THEN t0
                                                            ELSE lease.t2,
               !.offered_ip_addr = addr]

(* Seconds in ticks of the coarse timer, rounded, at least 1.              *)
Ticks(secs) ==
  LET n == (secs + DHCP_COARSE_TIMER_SECS \div 2) \div DHCP_COARSE_TIMER_SECS
  IN IF n > U16 - 1 THEN U16 - 1 ELSE IF n = 0 THEN 1 ELSE n

(* An infinite period leaves its timer as it is.                           *)
dhcp_bind(d) ==
  dhcp_set_state(
    [d EXCEPT !.t1_timeout = IF d.offered_t1_renew # INFINITE
                             THEN Ticks(d.offered_t1_renew) ELSE @,
              !.t2_timeout = IF d.offered_t2_rebind # INFINITE
                             THEN Ticks(d.offered_t2_rebind) ELSE @,
              !.ip_addr = d.offered_ip_addr,
              !.up = TRUE],
    "BOUND")

(* Fault: the address is taken without a query, as without                 *)
(* DHCP_DOES_ARP_CHECK.                                                    *)
FaultCheck(d) == dhcp_bind(d)

(* etharp_query for the offered address; its result is not looked at.      *)
dhcp_check(d) ==
  Backoff([dhcp_set_state(d, "CHECKING") EXCEPT !.probe = d.offered_ip_addr])

----------------------------------------------------------------------------
(* Whether a message can be allocated.                                     *)
Alloc(ok) == \/ ok /\ UNCHANGED noMem
             \/ ~ok /\ noMem > 0 /\ noMem' = noMem - 1

(* network_init starts the client and does not look at the result; a       *)
(* client that could not send its first DISCOVER is stopped.               *)
dhcp_start ==
  /\ pcb = "none"
  /\ \E ok \in BOOLEAN :
       /\ Alloc(ok)
       /\ pcb' = IF ok THEN "open" ELSE "removed"
       /\ c' = IF ok THEN dhcp_discover(c, ok) ELSE c
  /\ UNCHANGED <<link, stale>>

(* dhcp_recv has stopped the timer before it looks for the identifier.     *)
dhcp_handle_offer(addr, id) ==
  /\ pcb = "open" /\ Discover \in c.sent
  /\ c.state = "SELECTING"
  /\ \E ok \in BOOLEAN :
       /\ Alloc(ok)
       /\ LET d == [c EXCEPT !.request_timeout = FALSE]
          IN c' = IF id THEN dhcp_select([d EXCEPT !.offered_ip_addr = addr], ok)
                  ELSE d
  /\ UNCHANGED <<pcb, link, stale>>

(* dhcp_recv of an ACK.  Only in REQUESTING is its content looked at.      *)
RecvAck(addr, lease) ==
  /\ pcb = "open" /\ Request(addr) \in c.sent
  /\ c.state \in {"REQUESTING", "REBOOTING", "REBINDING", "RENEWING"}
  /\ LET d == [c EXCEPT !.granted = addr]
     IN c' = IF c.state = "REQUESTING"
             THEN dhcp_check(dhcp_handle_ack(d, addr, lease))
             ELSE dhcp_bind(d)
  /\ UNCHANGED <<pcb, link, noMem, stale>>

RecvNak ==
  /\ pcb = "open" /\ \E m \in c.sent : m.type = "REQUEST"
  /\ c.state \in {"REQUESTING", "REBOOTING", "REBINDING", "RENEWING"}
  /\ \E ok \in BOOLEAN : Alloc(ok) /\ c' = dhcp_handle_nak(c, ok)
  /\ UNCHANGED <<pcb, link, stale>>

(* etharp.c hands every ARP reply to the client.                           *)
dhcp_arp_reply(addr) ==
  /\ c.state = "CHECKING" /\ c.offered_ip_addr = addr
  /\ \E ok \in BOOLEAN :
       /\ Alloc(ok)
       /\ c' = [dhcp_decline(c, ok) EXCEPT !.probe = NoAddr]
  /\ UNCHANGED <<pcb, link, stale>>

(* dhcp_release, then dhcp_discover: two messages.                         *)
StartOver(d) ==
  \E ok1, ok2 \in BOOLEAN :
    /\ noMem' = noMem - Cardinality({i \in {1, 2} : ~<<ok1, ok2>>[i]})
    /\ noMem' >= 0
    /\ c' = dhcp_discover(dhcp_release(d, ok1), ok2)

(* Fault: the query for other users of the address is repeated for ever.   *)
FaultTriesLeft(d) ==
  \/ d.state = "REQUESTING" /\ d.tries <= 5
  \/ d.state = "CHECKING"
  \/ d.state = "REBINDING" /\ d.tries <= 8
  \/ d.state = "REBOOTING" /\ d.tries < REBOOT_TRIES

TriesLeft(d) ==
  \/ d.state = "REQUESTING" /\ d.tries <= 5
  \/ d.state = "CHECKING" /\ d.tries <= 1
  \/ d.state = "REBINDING" /\ d.tries <= 8
  \/ d.state = "REBOOTING" /\ d.tries < REBOOT_TRIES

(* What waited for an answer tries again, or gives up in its own way.      *)
dhcp_timeout(d) ==
  \/ /\ d.state = "CHECKING"
     /\ c' = (IF TriesLeft(d) THEN dhcp_check(d) ELSE dhcp_bind(d))
     /\ UNCHANGED noMem
  \/ /\ d.state \in {"REQUESTING", "REBINDING"} /\ ~TriesLeft(d)
     /\ StartOver(d)
  \/ \E ok \in BOOLEAN :
       /\ Alloc(ok)
       /\ \/ /\ \/ d.state \in {"BACKING_OFF", "SELECTING"}
                \/ d.state = "REBOOTING" /\ ~TriesLeft(d)
             /\ c' = dhcp_discover(d, ok)
          \/ /\ d.state = "REQUESTING" /\ TriesLeft(d)
             /\ c' = dhcp_select(d, ok)
          \/ d.state = "RENEWING" /\ c' = dhcp_renew(d, ok)
          \/ /\ d.state = "REBINDING" /\ TriesLeft(d)
             /\ c' = dhcp_rebind(d, ok)
          \/ /\ d.state = "REBOOTING" /\ TriesLeft(d)
             /\ c' = dhcp_reboot(d, ok)

(* The tick at which request_timeout reaches 0.                            *)
dhcp_fine_tmr == /\ c.request_timeout
                 /\ dhcp_timeout([c EXCEPT !.request_timeout = FALSE])
                 /\ UNCHANGED <<pcb, link, stale>>

(* u16_t: the timer is compared with 1 and then decremented, 0 included.   *)
Decremented(n) == (n + U16 - 1) % U16

LeaseStates == {"REQUESTING", "BOUND", "RENEWING"}

dhcp_t1_timeout(d) ==
  \E ok \in BOOLEAN : Alloc(ok) /\ c' = dhcp_renew(d, ok)

(* Fault: a lease about to end is renewed once more, never rebound.        *)
FaultT2Timeout(d) ==
  \E ok \in BOOLEAN : Alloc(ok) /\ c' = dhcp_renew(d, ok)

dhcp_t2_timeout(d) ==
  \E ok \in BOOLEAN : Alloc(ok) /\ c' = dhcp_rebind(d, ok)

(* T1 does not advance on the tick at which T2 runs out.                   *)
dhcp_coarse_tmr ==
  /\ pcb # "none"
  /\ LET fires2 == c.t2_timeout = 1
         fires1 == ~fires2 /\ c.t1_timeout = 1
         d == [c EXCEPT !.t2_timeout = Decremented(@),
                        !.t1_timeout = IF fires2 THEN @ ELSE Decremented(@)]
     IN /\ \/ fires2 /\ d.state \in LeaseStates /\ dhcp_t2_timeout(d)
           \/ fires1 /\ d.state \in LeaseStates /\ dhcp_t1_timeout(d)
           \/ /\ ~((fires1 \/ fires2) /\ d.state \in LeaseStates)
              /\ c' = d /\ UNCHANGED noMem
        /\ stale' = (stale \/ ((fires1 \/ fires2) /\ c.state = "REQUESTING"))
  /\ UNCHANGED <<pcb, link>>

dhcp_network_changed ==
  \/ /\ c.state \in {"REBINDING", "RENEWING", "BOUND", "REBOOTING"}
     /\ \E ok \in BOOLEAN :
          /\ Alloc(ok)
          /\ c' = dhcp_reboot([netif_set_down(c) EXCEPT !.tries = 0], ok)
  \/ c.state = "OFF" /\ UNCHANGED <<c, noMem>>
  \/ /\ c.state \in {"SELECTING", "REQUESTING", "CHECKING", "BACKING_OFF"}
     /\ \E ok \in BOOLEAN :
          Alloc(ok) /\ c' = dhcp_discover([c EXCEPT !.tries = 0], ok)

netif_set_link_up == /\ pcb # "none" /\ ~link
                     /\ link' = TRUE
                     /\ dhcp_network_changed
                     /\ UNCHANGED <<pcb, stale>>

netif_set_link_down == /\ pcb # "none" /\ link
                       /\ link' = FALSE
                       /\ UNCHANGED <<c, pcb, noMem, stale>>

Next == \/ dhcp_start
        \/ \E a \in Addr, id \in ServerIds : dhcp_handle_offer(a, id)
        \/ \E a \in Addr, l \in Leases : RecvAck(a, l)
        \/ RecvNak
        \/ \E a \in Taken : dhcp_arp_reply(a)
        \/ dhcp_fine_tmr
        \/ dhcp_coarse_tmr
        \/ netif_set_link_up
        \/ netif_set_link_down

Spec == Init /\ [][Next]_vars

(* The timers of lwip_timers run.  A server that is asked again and again  *)
(* for an address nobody else uses answers some time.                      *)
FairSpec == /\ Spec
            /\ WF_vars(dhcp_start)
            /\ WF_vars(dhcp_fine_tmr) /\ WF_vars(dhcp_coarse_tmr)
            /\ \A a \in Addr \ Taken :
                 /\ SF_vars(dhcp_handle_offer(a, TRUE))
                 /\ SF_vars(\E l \in Leases : RecvAck(a, l))

----------------------------------------------------------------------------

(* The interface carries traffic only under a lease that is held, being    *)
(* renewed or being rebound: every way out of it (NAK, release, a new      *)
(* link) has taken it down.  The address was granted by the last ACK, and  *)
(* a query for it has been sent which nobody answered, whatever late or    *)
(* repeated answers came in between.  Two things can spoil that: a timer   *)
(* of an older lease that runs out in REQUESTING, and three allocations    *)
(* that fail, which keep an old xid and its answers alive.                 *)
GrantedAndProbed ==
  c.up => /\ c.state \in {"BOUND", "RENEWING", "REBINDING"}
          /\ c.ip_addr # NoAddr
          /\ ~stale /\ MaxNoMem - noMem < 3 =>
               c.ip_addr = c.granted /\ c.ip_addr = c.probe

(* A bound lease with an end has its rebind timer running.                 *)
LeaseWatched ==
  /\ c.state \in {"BOUND", "RENEWING"} /\ ~stale
  /\ c.offered_t2_rebind # INFINITE
  => c.t2_timeout > 0

(* A client that waits for an answer has a timer that will wake it: the    *)
(* request timer, or for a renewal whose count of tries has wrapped the    *)
(* rebind timer; and so has a bound one whose lease ends.                  *)
NeverWaitsUnwatched ==
  /\ TypeOK
  /\ LeaseWatched
  /\ c.state \in State \ {"OFF", "BOUND", "RENEWING"} => c.request_timeout
  /\ c.state = "RENEWING" => \/ c.request_timeout
                             \/ c.tries = 0 /\ (c.t2_timeout > 0 \/ stale)
                             \/ c.offered_t2_rebind = INFINITE

(* The address of a working interface does not change under the            *)
(* connections that use it: it goes down first.                            *)
AddressStable == [][c.up /\ c'.up => c'.ip_addr = c.ip_addr]_vars

(* Once the link stays up the client is bound again and again, whatever    *)
(* was lost, refused or declined, unless dhcp_start failed.                *)
GetsBound == <>[]link => []<>(c.state = "BOUND") \/ <>[](pcb = "removed")

(* When no server answers any more, the address is given up.               *)
LeaseGivenUp ==
  <>[][\A a \in Addr, l \in Leases : ~RecvAck(a, l)]_vars => []<>(~c.up)
=============================================================================
