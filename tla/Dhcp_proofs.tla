----------------------------- MODULE Dhcp_proofs -----------------------------
(***************************************************************************)
(* What holds of the DHCP client for every set of addresses and leases,    *)
(* every width of its counters and every number of failed allocations.     *)
(***************************************************************************)
EXTENDS Dhcp, FiniteSetTheorems, TLAPS

Messages == {Discover} \cup {Request(a) : a \in Addr \cup {NoAddr}}

(* What the functions that send a message leave alone.                     *)
Keeps(d, e) ==
  /\ e.up = d.up /\ e.ip_addr = d.ip_addr
  /\ e.offered_ip_addr = d.offered_ip_addr
  /\ e.t2_timeout = d.t2_timeout
  /\ e.offered_t2_rebind = d.offered_t2_rebind
  /\ e.probe = d.probe /\ e.granted = d.granted

(* e is d in state s, but for tries, request timer and messages.           *)
Goes(d, e, s) == e \in Client /\ Keeps(d, e) /\ e.state = s

-----------------------------------------------------------------------------
(* Arithmetic of the counters.                                             *)

(* A remainder is within the width of its counter (u8_t, u16_t).           *)
LEMMA ModRange ==
  ASSUME NEW m \in Nat \ {0}, NEW n \in Nat
  PROVE  n % m \in 0 .. m - 1
  OBVIOUS

(* The count of tries stays in its width, and is zero only after a wrap.   *)
LEMMA TriesFacts ==
  ASSUME NEW t \in 0 .. U8 - 1
  PROVE  /\ (t + 1) % U8 \in 0 .. U8 - 1
         /\ t < U8 - 1 => (t + 1) % U8 # 0
  BY WidthAssumption

(* A timer above zero is just decremented (Decremented).                   *)
LEMMA DecrementedFacts ==
  ASSUME NEW n \in 0 .. U16 - 1
  PROVE  /\ Decremented(n) \in 0 .. U16 - 1
         /\ n > 0 => Decremented(n) = n - 1
  <1>1. U16 \in Nat \ {0}
    BY WidthAssumption
  <1>2. n + U16 - 1 \in Nat
    BY <1>1
  <1>3. Decremented(n) \in 0 .. U16 - 1
    BY <1>1, <1>2, ModRange DEF Decremented
  <1>4. ASSUME n > 0 PROVE Decremented(n) = n - 1
    BY <1>1, <1>4 DEF Decremented
  <1> QED
    BY <1>3, <1>4

(* Ticks of the coarse timer are at least one and fit its width.           *)
LEMMA TicksFacts ==
  ASSUME NEW s \in Seconds
  PROVE  Ticks(s) \in 1 .. U16 - 1
  <1> DEFINE n == (s + DHCP_COARSE_TIMER_SECS \div 2) \div DHCP_COARSE_TIMER_SECS
  <1>1. DHCP_COARSE_TIMER_SECS \in Nat \ {0} /\ U16 \in Nat /\ U16 > 1 /\ s \in Nat
    BY WidthAssumption DEF Seconds
  <1>2. DHCP_COARSE_TIMER_SECS \div 2 \in Nat
    BY <1>1
  <1>3. n \in Nat
    BY <1>1, <1>2
  <1> HIDE DEF n
  <1>4. Ticks(s) = IF n > U16 - 1 THEN U16 - 1 ELSE IF n = 0 THEN 1 ELSE n
    BY DEF Ticks, n
  <1> QED
    BY <1>1, <1>3, <1>4

-----------------------------------------------------------------------------
(* The functions of dhcp.c.                                                *)

(* The client with another state, other tries and another request timer.   *)
Timed(d, s, n, b) == [d EXCEPT !.state = s, !.tries = n, !.request_timeout = b]

(* Setting the state, the tries and the request timer keeps the rest.      *)
LEMMA TimedFacts ==
  ASSUME NEW d \in Client, NEW s \in State, NEW n \in 0 .. U8 - 1, NEW b \in BOOLEAN
  PROVE  /\ Goes(d, Timed(d, s, n, b), s)
         /\ Timed(d, s, n, b).tries = n
         /\ Timed(d, s, n, b).request_timeout = b
  <1> DEFINE e == Timed(d, s, n, b)
  <1>1. e \in Client
    BY DEF Client, Timed
  <1>2. e.state = s /\ e.tries = n /\ e.request_timeout = b /\ Keeps(d, e)
    BY DEF Client, Keeps, Timed
  <1> QED
    BY <1>1, <1>2 DEF Goes

(* dhcp_set_state changes the state, the tries and the request timer.      *)
LEMMA SetStateFacts ==
  ASSUME NEW d \in Client, NEW s \in State
  PROVE  /\ Goes(d, dhcp_set_state(d, s), s)
         /\ d.state = s => dhcp_set_state(d, s).tries = d.tries
         /\ d.state # s => dhcp_set_state(d, s).tries = 0
  <1>1. CASE d.state = s
    BY <1>1 DEF dhcp_set_state, Goes, Keeps
  <1>2. CASE d.state # s
    <2>1. 0 \in 0 .. U8 - 1 /\ FALSE \in BOOLEAN
      BY WidthAssumption
    <2>2. dhcp_set_state(d, s) = Timed(d, s, 0, FALSE)
      BY <1>2 DEF dhcp_set_state, Timed
    <2>3. Goes(d, Timed(d, s, 0, FALSE), s) /\ Timed(d, s, 0, FALSE).tries = 0
      BY <2>1, TimedFacts, Zenon
    <2> QED
      BY <1>2, <2>2, <2>3, Zenon
  <1> QED
    BY <1>1, <1>2

(* dhcp_create_msg changes what can be answered.                           *)
LEMMA CreateFacts ==
  ASSUME NEW d \in Client, NEW req \in SUBSET Messages, NEW ok \in BOOLEAN
  PROVE  /\ Goes(d, dhcp_create_msg(d, req, ok), d.state)
         /\ dhcp_create_msg(d, req, ok).tries = d.tries
  BY DEF dhcp_create_msg, Client, Goes, Keeps, Messages

(* Backoff leaves the request timer running.                               *)
LEMMA BackoffFacts ==
  ASSUME NEW d \in Client
  PROVE  Goes(d, Backoff(d), d.state) /\ Backoff(d).request_timeout = TRUE
  <1> DEFINE n == (d.tries + 1) % U8
  <1>1. d.tries \in 0 .. U8 - 1 /\ d.state \in State /\ TRUE \in BOOLEAN
    BY DEF Client
  <1>2. n \in 0 .. U8 - 1
    BY <1>1, TriesFacts
  <1>3. Backoff(d) = Timed(d, d.state, n, TRUE)
    BY DEF Backoff, Client, Timed
  <1> HIDE DEF n
  <1> QED
    BY <1>1, <1>2, <1>3, TimedFacts, Zenon

(* LinearBackoff does so unless the tries have wrapped.                    *)
LEMMA LinearFacts ==
  ASSUME NEW d \in Client
  PROVE  /\ Goes(d, LinearBackoff(d), d.state)
         /\ LinearBackoff(d).request_timeout = TRUE \/ LinearBackoff(d).tries = 0
         /\ d.tries < U8 - 1 => LinearBackoff(d).request_timeout = TRUE
  <1> DEFINE n == (d.tries + 1) % U8
             b == n # 0
  <1>1. d.tries \in 0 .. U8 - 1 /\ d.state \in State /\ b \in BOOLEAN
    BY DEF Client
  <1>2. n \in 0 .. U8 - 1
    BY <1>1, TriesFacts
  <1>6. d.tries < U8 - 1 => n # 0
    BY <1>1, TriesFacts
  <1>3. LinearBackoff(d) = Timed(d, d.state, n, b)
    BY DEF LinearBackoff, Client, Timed
  <1>4. n = 0 \/ b = TRUE
    OBVIOUS
  <1> HIDE DEF n, b
  <1>5. /\ Goes(d, LinearBackoff(d), d.state)
        /\ LinearBackoff(d).tries = n
        /\ LinearBackoff(d).request_timeout = b
    <2>1. /\ Goes(d, Timed(d, d.state, n, b), d.state)
          /\ Timed(d, d.state, n, b).tries = n
          /\ Timed(d, d.state, n, b).request_timeout = b
      BY <1>1, <1>2, TimedFacts
    <2> QED
      BY <1>3, <2>1, Zenon
  <1> QED
    BY <1>4, <1>5, <1>6, Zenon

(* The messages the client sends are messages.                             *)
LEMMA MessagesFacts ==
  ASSUME NEW d \in Client
  PROVE  /\ {Discover} \in SUBSET Messages /\ {} \in SUBSET Messages
         /\ {Request(d.offered_ip_addr)} \in SUBSET Messages
         /\ {Request(d.ip_addr)} \in SUBSET Messages
  BY DEF Client, Messages

(* Going on from a client that went to a state goes there as well.         *)
LEMMA GoesOn ==
  ASSUME NEW d, NEW e, NEW f, NEW s, Goes(d, e, s), Goes(e, f, e.state)
  PROVE  Goes(d, f, s)
  BY DEF Goes, Keeps

(* dhcp_select waits in REQUESTING.                                        *)
LEMMA SelectFacts ==
  ASSUME NEW d \in Client, NEW ok \in BOOLEAN
  PROVE  /\ Goes(d, dhcp_select(d, ok), "REQUESTING")
         /\ dhcp_select(d, ok).request_timeout = TRUE
  <1> DEFINE s == dhcp_set_state(d, "REQUESTING")
             m == dhcp_create_msg(s, {Request(s.offered_ip_addr)}, ok)
  <1>1. Goes(d, s, "REQUESTING") /\ s \in Client
    BY SetStateFacts DEF State, Goes
  <1>2. Goes(s, m, s.state) /\ m \in Client
    BY <1>1, MessagesFacts, CreateFacts DEF Goes
  <1>3. Goes(m, Backoff(m), m.state) /\ Backoff(m).request_timeout = TRUE
    BY <1>2, BackoffFacts
  <1>4. dhcp_select(d, ok) = Backoff(m)
    BY DEF dhcp_select
  <1> HIDE DEF s, m
  <1> QED
    BY <1>1, <1>2, <1>3, <1>4, GoesOn

(* dhcp_renew goes to RENEWING and waits unless its tries have wrapped.    *)
LEMMA RenewFacts ==
  ASSUME NEW d \in Client, NEW ok \in BOOLEAN
  PROVE  /\ Goes(d, dhcp_renew(d, ok), "RENEWING")
         /\ dhcp_renew(d, ok).request_timeout = TRUE \/ dhcp_renew(d, ok).tries = 0
  <1> DEFINE s == dhcp_set_state(d, "RENEWING")
             m == dhcp_create_msg(s, {Request(s.ip_addr)}, ok)
  <1>1. Goes(d, s, "RENEWING") /\ s \in Client
    BY SetStateFacts DEF State, Goes
  <1>2. Goes(s, m, s.state) /\ m \in Client
    BY <1>1, MessagesFacts, CreateFacts DEF Goes
  <1>3. /\ Goes(m, LinearBackoff(m), m.state)
        /\ LinearBackoff(m).request_timeout = TRUE \/ LinearBackoff(m).tries = 0
    BY <1>2, LinearFacts
  <1>4. dhcp_renew(d, ok) = LinearBackoff(m)
    BY DEF dhcp_renew
  <1> HIDE DEF s, m
  <1> QED
    BY <1>1, <1>2, <1>3, <1>4, GoesOn

(* dhcp_rebind waits in REBINDING as long as its tries are limited.        *)
LEMMA RebindFacts ==
  ASSUME NEW d \in Client, NEW ok \in BOOLEAN, d.state = "REBINDING" => d.tries <= 8
  PROVE  /\ Goes(d, dhcp_rebind(d, ok), "REBINDING")
         /\ dhcp_rebind(d, ok).request_timeout = TRUE
  <1> DEFINE s == dhcp_set_state(d, "REBINDING")
             m == dhcp_create_msg(s, {Request(s.ip_addr)}, ok)
  <1>1. Goes(d, s, "REBINDING") /\ s \in Client /\ s.tries <= 8
    BY SetStateFacts DEF State, Goes
  <1>2. Goes(s, m, s.state) /\ m \in Client /\ m.tries = s.tries
    BY <1>1, MessagesFacts, CreateFacts DEF Goes
  <1>3. /\ Goes(m, LinearBackoff(m), m.state)
        /\ LinearBackoff(m).request_timeout = TRUE
    <2>1. m.tries < U8 - 1
      BY <1>1, <1>2, WidthAssumption DEF Client
    <2> QED
      BY <1>2, <2>1, LinearFacts
  <1>4. dhcp_rebind(d, ok) = LinearBackoff(m)
    BY DEF dhcp_rebind
  <1> HIDE DEF s, m
  <1> QED
    BY <1>1, <1>2, <1>3, <1>4, GoesOn

(* dhcp_reboot waits in REBOOTING as long as its tries are limited.        *)
LEMMA RebootFacts ==
  ASSUME NEW d \in Client, NEW ok \in BOOLEAN, d.state = "REBOOTING" => d.tries <= 8
  PROVE  /\ Goes(d, dhcp_reboot(d, ok), "REBOOTING")
         /\ dhcp_reboot(d, ok).request_timeout = TRUE
  <1> DEFINE s == dhcp_set_state(d, "REBOOTING")
             m == dhcp_create_msg(s, {Request(s.offered_ip_addr)}, ok)
  <1>1. Goes(d, s, "REBOOTING") /\ s \in Client /\ s.tries <= 8
    BY SetStateFacts DEF State, Goes
  <1>2. Goes(s, m, s.state) /\ m \in Client /\ m.tries = s.tries
    BY <1>1, MessagesFacts, CreateFacts DEF Goes
  <1>3. /\ Goes(m, LinearBackoff(m), m.state)
        /\ LinearBackoff(m).request_timeout = TRUE
    <2>1. m.tries < U8 - 1
      BY <1>1, <1>2, WidthAssumption DEF Client
    <2> QED
      BY <1>2, <2>1, LinearFacts
  <1>4. dhcp_reboot(d, ok) = LinearBackoff(m)
    BY DEF dhcp_reboot
  <1> HIDE DEF s, m
  <1> QED
    BY <1>1, <1>2, <1>3, <1>4, GoesOn

(* dhcp_decline waits in BACKING_OFF.                                      *)
LEMMA DeclineFacts ==
  ASSUME NEW d \in Client, NEW ok \in BOOLEAN
  PROVE  /\ Goes(d, dhcp_decline(d, ok), "BACKING_OFF")
         /\ dhcp_decline(d, ok).request_timeout = TRUE
  <1> DEFINE s == dhcp_set_state(d, "BACKING_OFF")
             m == dhcp_create_msg(s, {}, ok)
  <1>1. Goes(d, s, "BACKING_OFF") /\ s \in Client
    BY SetStateFacts DEF State, Goes
  <1>2. Goes(s, m, s.state) /\ m \in Client
    BY <1>1, MessagesFacts, CreateFacts DEF Goes
  <1>3. Goes(m, Backoff(m), m.state) /\ Backoff(m).request_timeout = TRUE
    BY <1>2, BackoffFacts
  <1>4. dhcp_decline(d, ok) = Backoff(m)
    BY DEF dhcp_decline
  <1> HIDE DEF s, m
  <1> QED
    BY <1>1, <1>2, <1>3, <1>4, GoesOn

(* dhcp_discover waits in SELECTING and leaves the interface alone.        *)
LEMMA DiscoverFacts ==
  ASSUME NEW d \in Client, NEW ok \in BOOLEAN
  PROVE  LET e == dhcp_discover(d, ok) IN
         /\ e \in Client /\ e.state = "SELECTING" /\ e.request_timeout = TRUE
         /\ e.up = d.up
  <1> DEFINE r == [d EXCEPT !.offered_ip_addr = NoAddr]
             s == dhcp_set_state(r, "SELECTING")
             m == dhcp_create_msg(s, {Discover}, ok)
  <1>0. r \in Client /\ r.up = d.up
    BY DEF Client
  <1>1. Goes(r, s, "SELECTING") /\ s \in Client
    BY <1>0, SetStateFacts DEF State, Goes
  <1>2. Goes(s, m, s.state) /\ m \in Client
    BY <1>1, MessagesFacts, CreateFacts DEF Goes
  <1>3. Goes(m, Backoff(m), m.state) /\ Backoff(m).request_timeout = TRUE
    BY <1>2, BackoffFacts
  <1>4. dhcp_discover(d, ok) = Backoff(m)
    BY DEF dhcp_discover
  <1> HIDE DEF r, s, m
  <1>5. Goes(r, Backoff(m), "SELECTING")
    BY <1>1, <1>2, <1>3, GoesOn
  <1> QED
    BY <1>0, <1>3, <1>4, <1>5, Zenon DEF Goes, Keeps

(* dhcp_release takes the interface down.                                  *)
LEMMA ReleaseFacts ==
  ASSUME NEW d \in Client, NEW ok \in BOOLEAN
  PROVE  dhcp_release(d, ok) \in Client /\ dhcp_release(d, ok).up = FALSE
  <1> DEFINE o == dhcp_set_state(d, "OFF")
             s == [o EXCEPT !.offered_ip_addr = NoAddr, !.offered_t0_lease = 0,
                            !.offered_t1_renew = 0, !.offered_t2_rebind = 0]
             m == dhcp_create_msg(s, {}, ok)
             b == LinearBackoff(m)
  <1>1. o \in Client
    BY SetStateFacts DEF State, Goes
  <1>0. 0 \in Seconds
    BY WidthAssumption DEF Seconds
  <1> HIDE DEF o
  <1>2. s \in Client
    BY <1>0, <1>1 DEF Client
  <1>3. m \in Client
    BY <1>2, MessagesFacts, CreateFacts DEF Goes
  <1>4. b \in Client
    BY <1>3, LinearFacts DEF Goes
  <1>5. dhcp_release(d, ok) = [netif_set_down(b) EXCEPT !.ip_addr = NoAddr]
    BY DEF dhcp_release, o
  <1> HIDE DEF s, m, b
  <1>6. [netif_set_down(b) EXCEPT !.ip_addr = NoAddr] \in Client
    BY <1>4 DEF Client, netif_set_down
  <1>7. [netif_set_down(b) EXCEPT !.ip_addr = NoAddr].up = FALSE
    BY <1>4 DEF Client, netif_set_down
  <1> QED
    BY <1>5, <1>6, <1>7, Zenon

(* It leaves the client in OFF.                                            *)
LEMMA ReleaseState ==
  ASSUME NEW d \in Client, NEW ok \in BOOLEAN
  PROVE  dhcp_release(d, ok).state = "OFF"
  BY DEF dhcp_release, netif_set_down, LinearBackoff, dhcp_create_msg,
         dhcp_set_state, Client

(* dhcp_handle_nak takes the interface down and starts again.              *)
LEMMA NakFacts ==
  ASSUME NEW d \in Client, NEW ok \in BOOLEAN
  PROVE  LET e == dhcp_handle_nak(d, ok) IN
         /\ e \in Client /\ e.state = "SELECTING" /\ e.request_timeout = TRUE
         /\ e.up = FALSE
  <1> DEFINE s == [netif_set_down(d) EXCEPT !.ip_addr = NoAddr]
             b == dhcp_set_state(s, "BACKING_OFF")
  <1>1. s \in Client
    BY DEF Client, netif_set_down
  <1>2. s.up = FALSE
    BY DEF Client, netif_set_down
  <1>3. b \in Client /\ b.up = s.up
    BY <1>1, SetStateFacts DEF State, Goes, Keeps
  <1>4. dhcp_handle_nak(d, ok) = dhcp_discover(b, ok)
    BY DEF dhcp_handle_nak
  <1> HIDE DEF s, b
  <1>5. /\ dhcp_discover(b, ok) \in Client /\ dhcp_discover(b, ok).up = b.up
        /\ dhcp_discover(b, ok).state = "SELECTING"
        /\ dhcp_discover(b, ok).request_timeout = TRUE
    BY <1>3, DiscoverFacts
  <1> QED
    BY <1>2, <1>3, <1>4, <1>5, Zenon

(* dhcp_bind takes the offered address, sets the interface up and starts   *)
(* the rebind timer of a lease that ends.                                  *)
LEMMA BindFacts ==
  ASSUME NEW d \in Client
  PROVE  LET e == dhcp_bind(d) IN
         /\ e \in Client /\ e.state = "BOUND" /\ e.up = TRUE
         /\ e.ip_addr = d.offered_ip_addr
         /\ e.offered_ip_addr = d.offered_ip_addr
         /\ e.offered_t2_rebind = INFINITE \/ e.t2_timeout > 0
  <1> DEFINE t1 == IF d.offered_t1_renew # INFINITE
                   THEN Ticks(d.offered_t1_renew) ELSE d.t1_timeout
             t2 == IF d.offered_t2_rebind # INFINITE
                   THEN Ticks(d.offered_t2_rebind) ELSE d.t2_timeout
             r == [d EXCEPT !.t1_timeout = t1, !.t2_timeout = t2,
                            !.ip_addr = d.offered_ip_addr, !.up = TRUE]
  <1>1. /\ d.offered_t1_renew \in Seconds /\ d.offered_t2_rebind \in Seconds
        /\ d.t1_timeout \in 0 .. U16 - 1 /\ d.t2_timeout \in 0 .. U16 - 1
    BY DEF Client
  <1>2. t1 \in 0 .. U16 - 1 /\ t2 \in 0 .. U16 - 1
    BY <1>1, TicksFacts, WidthAssumption
  <1>3. d.offered_t2_rebind = INFINITE \/ t2 > 0
    BY <1>1, TicksFacts
  <1>4. dhcp_bind(d) = dhcp_set_state(r, "BOUND")
    BY DEF dhcp_bind
  <1> HIDE DEF t1, t2
  <1>5. r \in Client
    BY <1>2 DEF Client
  <1>6. /\ r.ip_addr = d.offered_ip_addr /\ r.offered_ip_addr = d.offered_ip_addr
        /\ r.t2_timeout = t2 /\ r.offered_t2_rebind = d.offered_t2_rebind
    BY DEF Client
  <1>7. r.up = TRUE
    BY DEF Client
  <1> HIDE DEF r
  <1>8. Goes(r, dhcp_set_state(r, "BOUND"), "BOUND")
    BY <1>5, SetStateFacts DEF State
  <1> QED
    BY <1>3, <1>4, <1>6, <1>7, <1>8, Zenon DEF Goes, Keeps

(* dhcp_check waits in CHECKING.                                           *)
LEMMA CheckFacts ==
  ASSUME NEW d \in Client
  PROVE  LET e == dhcp_check(d) IN
         /\ e \in Client /\ e.state = "CHECKING" /\ e.request_timeout = TRUE
         /\ e.up = d.up /\ e.offered_ip_addr = d.offered_ip_addr
  <1> DEFINE s == dhcp_set_state(d, "CHECKING")
             r == [s EXCEPT !.probe = d.offered_ip_addr]
  <1>1. Goes(d, s, "CHECKING")
    BY SetStateFacts DEF State
  <1>2. d.offered_ip_addr \in Addr \cup {NoAddr}
    BY DEF Client
  <1> HIDE DEF s
  <1>3. /\ r \in Client /\ r.state = s.state /\ r.up = s.up
        /\ r.offered_ip_addr = s.offered_ip_addr
    BY <1>1, <1>2 DEF Client, Goes
  <1>4. dhcp_check(d) = Backoff(r)
    BY DEF dhcp_check, s
  <1> HIDE DEF r
  <1>5. Goes(r, Backoff(r), r.state) /\ Backoff(r).request_timeout = TRUE
    BY <1>3, BackoffFacts
  <1> QED
    BY <1>1, <1>3, <1>4, <1>5, Zenon DEF Goes, Keeps

(* dhcp_handle_ack notes the address and the times.                        *)
LEMMA AckFacts ==
  ASSUME NEW d \in Client, NEW a \in Addr, NEW l \in Leases
  PROVE  LET e == dhcp_handle_ack(d, a, l) IN
         e \in Client /\ e.up = d.up /\ e.offered_ip_addr = a
  <1> DEFINE t1 == IF l.t1 = NotGiven THEN l.t0 \div 2 ELSE l.t1
             t2 == IF l.t2 = NotGiven THEN l.t0 ELSE l.t2
  <1>1. /\ l.t0 \in Seconds /\ l.t1 \in Seconds \cup {NotGiven}
        /\ l.t2 \in Seconds \cup {NotGiven}
    BY LeaseAssumption
  <1>2. l.t0 \div 2 \in Seconds
    BY <1>1, WidthAssumption DEF Seconds
  <1>3. t1 \in Seconds /\ t2 \in Seconds
    BY <1>1, <1>2
  <1>4. dhcp_handle_ack(d, a, l)
          = [d EXCEPT !.offered_t0_lease = l.t0, !.offered_t1_renew = t1,
                      !.offered_t2_rebind = t2, !.offered_ip_addr = a]
    BY DEF dhcp_handle_ack
  <1> HIDE DEF t1, t2
  <1> QED
    BY <1>1, <1>3, <1>4 DEF Client

-----------------------------------------------------------------------------
(* What can be answered.                                                   *)

(* Of the addresses the client has asked for, and may still be granted,    *)
(* only those of S.                                                        *)
Asks(d, S) == \A a \in Addr \cup {NoAddr} : Request(a) \in d.sent => a \in S

(* How a message that was sent on the way from d to e, or was not, changes *)
(* what can be answered: the first try in state s makes it req alone.      *)
Sends(d, e, req, ok, s) ==
  /\ e.sent \subseteq d.sent \cup req
  /\ ok = TRUE /\ (d.tries = 0 \/ d.state # s) => e.sent = req

(* Asking for another address makes one more.                              *)
LEMMA AsksMore ==
  ASSUME NEW d, NEW e, NEW a, NEW S, Asks(d, S),
         e.sent \subseteq d.sent \cup {Request(a)}
  PROVE  Asks(e, S \cup {a})
  BY DEF Asks, Request

(* A DISCOVER makes none.                                                  *)
LEMMA AsksNoMore ==
  ASSUME NEW d, NEW e, NEW S, Asks(d, S), e.sent \subseteq d.sent \cup {Discover}
  PROVE  Asks(e, S)
  BY DEF Asks, Request, Discover

(* Only dhcp_create_msg changes what can be answered.                      *)
LEMMA TimedSent ==
  ASSUME NEW d \in Client
  PROVE  /\ Backoff(d).sent = d.sent /\ LinearBackoff(d).sent = d.sent
         /\ \A s \in State : dhcp_set_state(d, s).sent = d.sent
  <1>1. Backoff(d).sent = d.sent
    BY DEF Backoff, Client
  <1>2. LinearBackoff(d).sent = d.sent
    BY DEF LinearBackoff, Client
  <1>3. ASSUME NEW s \in State PROVE dhcp_set_state(d, s).sent = d.sent
    BY DEF dhcp_set_state, Client
  <1> QED
    BY <1>1, <1>2, <1>3

(* A message that is sent in state s by a client that went there.          *)
LEMMA CreateSends ==
  ASSUME NEW d \in Client, NEW s \in State, NEW req, NEW ok \in BOOLEAN
  PROVE  Sends(d, dhcp_create_msg(dhcp_set_state(d, s), req, ok), req, ok, s)
  <1> DEFINE r == dhcp_set_state(d, s)
             m == dhcp_create_msg(r, req, ok)
  <1>1. r \in Client /\ r.sent = d.sent
    BY TimedSent, SetStateFacts DEF Goes
  <1>2. d.tries = 0 \/ d.state # s => r.tries = 0
    BY SetStateFacts
  <1> HIDE DEF r
  <1>3. m.sent \subseteq r.sent \cup req
    BY <1>1 DEF dhcp_create_msg, Client
  <1>4. ok = TRUE /\ r.tries = 0 => m.sent = req
    BY <1>1 DEF dhcp_create_msg, Client
  <1> HIDE DEF m
  <1>5. Sends(d, m, req, ok, s)
    BY <1>1, <1>2, <1>3, <1>4 DEF Sends
  <1> QED
    BY <1>5 DEF m, r

(* dhcp_select asks for the offered address.                               *)
LEMMA SelectSends ==
  ASSUME NEW d \in Client, NEW ok \in BOOLEAN
  PROVE  Sends(d, dhcp_select(d, ok), {Request(d.offered_ip_addr)}, ok, "REQUESTING")
  <1> DEFINE s == dhcp_set_state(d, "REQUESTING")
             m == dhcp_create_msg(s, {Request(d.offered_ip_addr)}, ok)
  <1>1. s \in Client /\ s.offered_ip_addr = d.offered_ip_addr
    BY SetStateFacts DEF State, Goes, Keeps
  <1>2. m \in Client
    <2>1. {Request(d.offered_ip_addr)} \in SUBSET Messages
      BY MessagesFacts
    <2> QED
      BY <1>1, <2>1, CreateFacts DEF Goes
  <1>3. Sends(d, m, {Request(d.offered_ip_addr)}, ok, "REQUESTING")
    BY CreateSends DEF State
  <1>4. dhcp_select(d, ok) = Backoff(m)
    BY <1>1 DEF dhcp_select
  <1> HIDE DEF s, m
  <1> QED
    BY <1>2, <1>3, <1>4, TimedSent DEF Sends

(* dhcp_renew asks for the address of the interface.                       *)
LEMMA RenewSends ==
  ASSUME NEW d \in Client, NEW ok \in BOOLEAN
  PROVE  Sends(d, dhcp_renew(d, ok), {Request(d.ip_addr)}, ok, "RENEWING")
  <1> DEFINE s == dhcp_set_state(d, "RENEWING")
             m == dhcp_create_msg(s, {Request(d.ip_addr)}, ok)
  <1>1. s \in Client /\ s.ip_addr = d.ip_addr
    BY SetStateFacts DEF State, Goes, Keeps
  <1>2. m \in Client
    <2>1. {Request(d.ip_addr)} \in SUBSET Messages
      BY MessagesFacts
    <2> QED
      BY <1>1, <2>1, CreateFacts DEF Goes
  <1>3. Sends(d, m, {Request(d.ip_addr)}, ok, "RENEWING")
    BY CreateSends DEF State
  <1>4. dhcp_renew(d, ok) = LinearBackoff(m)
    BY <1>1 DEF dhcp_renew
  <1> HIDE DEF s, m
  <1> QED
    BY <1>2, <1>3, <1>4, TimedSent DEF Sends

(* So does dhcp_rebind.                                                    *)
LEMMA RebindSends ==
  ASSUME NEW d \in Client, NEW ok \in BOOLEAN
  PROVE  Sends(d, dhcp_rebind(d, ok), {Request(d.ip_addr)}, ok, "REBINDING")
  <1> DEFINE s == dhcp_set_state(d, "REBINDING")
             m == dhcp_create_msg(s, {Request(d.ip_addr)}, ok)
  <1>1. s \in Client /\ s.ip_addr = d.ip_addr
    BY SetStateFacts DEF State, Goes, Keeps
  <1>2. m \in Client
    <2>1. {Request(d.ip_addr)} \in SUBSET Messages
      BY MessagesFacts
    <2> QED
      BY <1>1, <2>1, CreateFacts DEF Goes
  <1>3. Sends(d, m, {Request(d.ip_addr)}, ok, "REBINDING")
    BY CreateSends DEF State
  <1>4. dhcp_rebind(d, ok) = LinearBackoff(m)
    BY <1>1 DEF dhcp_rebind
  <1> HIDE DEF s, m
  <1> QED
    BY <1>2, <1>3, <1>4, TimedSent DEF Sends

(* dhcp_reboot asks for the address the client had.                        *)
LEMMA RebootSends ==
  ASSUME NEW d \in Client, NEW ok \in BOOLEAN
  PROVE  Sends(d, dhcp_reboot(d, ok), {Request(d.offered_ip_addr)}, ok, "REBOOTING")
  <1> DEFINE s == dhcp_set_state(d, "REBOOTING")
             m == dhcp_create_msg(s, {Request(d.offered_ip_addr)}, ok)
  <1>1. s \in Client /\ s.offered_ip_addr = d.offered_ip_addr
    BY SetStateFacts DEF State, Goes, Keeps
  <1>2. m \in Client
    <2>1. {Request(d.offered_ip_addr)} \in SUBSET Messages
      BY MessagesFacts
    <2> QED
      BY <1>1, <2>1, CreateFacts DEF Goes
  <1>3. Sends(d, m, {Request(d.offered_ip_addr)}, ok, "REBOOTING")
    BY CreateSends DEF State
  <1>4. dhcp_reboot(d, ok) = LinearBackoff(m)
    BY <1>1 DEF dhcp_reboot
  <1> HIDE DEF s, m
  <1> QED
    BY <1>2, <1>3, <1>4, TimedSent DEF Sends

(* dhcp_discover asks for none.                                            *)
LEMMA DiscoverSends ==
  ASSUME NEW d \in Client, NEW ok \in BOOLEAN
  PROVE  Sends(d, dhcp_discover(d, ok), {Discover}, ok, "SELECTING")
  <1> DEFINE r == [d EXCEPT !.offered_ip_addr = NoAddr]
             s == dhcp_set_state(r, "SELECTING")
             m == dhcp_create_msg(s, {Discover}, ok)
  <1>0. r \in Client /\ r.sent = d.sent /\ r.tries = d.tries /\ r.state = d.state
    BY DEF Client
  <1>1. s \in Client
    BY <1>0, SetStateFacts DEF State, Goes
  <1>2. m \in Client
    BY <1>1, MessagesFacts, CreateFacts DEF Goes
  <1> HIDE DEF r
  <1>3. Sends(r, m, {Discover}, ok, "SELECTING")
    BY <1>0, CreateSends DEF State
  <1>4. dhcp_discover(d, ok) = Backoff(m)
    BY DEF dhcp_discover, r
  <1> HIDE DEF s, m
  <1> QED
    BY <1>0, <1>2, <1>3, <1>4, TimedSent DEF Sends

(* dhcp_bind leaves what can be answered, what was granted and probed.     *)
LEMMA BindKeeps ==
  ASSUME NEW d \in Client
  PROVE  /\ dhcp_bind(d).sent = d.sent /\ dhcp_bind(d).granted = d.granted
         /\ dhcp_bind(d).probe = d.probe
  BY DEF dhcp_bind, dhcp_set_state, Client

(* dhcp_check also leaves them, and sends a query for the offered address. *)
LEMMA CheckKeeps ==
  ASSUME NEW d \in Client
  PROVE  /\ dhcp_check(d).sent = d.sent /\ dhcp_check(d).granted = d.granted
         /\ dhcp_check(d).probe = d.offered_ip_addr
  BY DEF dhcp_check, Backoff, dhcp_set_state, Client

(* dhcp_handle_ack leaves both.                                            *)
LEMMA AckKeeps ==
  ASSUME NEW d \in Client, NEW a \in Addr, NEW l \in Leases
  PROVE  /\ dhcp_handle_ack(d, a, l).sent = d.sent
         /\ dhcp_handle_ack(d, a, l).granted = d.granted
         /\ dhcp_handle_ack(d, a, l).state = d.state
  BY DEF dhcp_handle_ack, Client

-----------------------------------------------------------------------------
(* The inductive invariant.                                                *)

HasAddress == {"REQUESTING", "CHECKING", "BOUND", "RENEWING", "REBINDING", "REBOOTING"}

(* An interface that is up has a lease and its address; a client that asks *)
(* for an address, or has one, knows which.                                *)
Held(d) ==
  /\ d \in Client
  /\ d.up = TRUE => /\ d.state \in {"BOUND", "RENEWING", "REBINDING"}
                    /\ d.ip_addr = d.offered_ip_addr
  /\ d.state \in HasAddress => d.offered_ip_addr \in Addr

(* The rebind timer of a lease that ends is running.                       *)
Ends(d, st) == st \/ d.offered_t2_rebind = INFINITE \/ d.t2_timeout > 0

(* The clauses of NeverWaitsUnwatched for a client d.                      *)
Waits(d, st) ==
  /\ d.state \in {"BOUND", "RENEWING"} => Ends(d, st)
  /\ d.state \in State \ {"OFF", "BOUND", "RENEWING"} => d.request_timeout = TRUE
  /\ d.state = "RENEWING" => d.request_timeout = TRUE \/ d.tries = 0

(* What a step from d to e shows.                                          *)
Stable(d, e) == d.up = TRUE /\ e.up = TRUE => e.ip_addr = d.ip_addr

(* A client that is down may start again.                                  *)
LEMMA DiscoverStep ==
  ASSUME NEW d \in Client, NEW ok \in BOOLEAN, NEW st \in BOOLEAN, d.up = FALSE
  PROVE  /\ Held(dhcp_discover(d, ok)) /\ Waits(dhcp_discover(d, ok), st)
         /\ dhcp_discover(d, ok).up = FALSE
  BY DiscoverFacts DEF Held, Waits, HasAddress

(* One that is down and knows an address may ask for it.                   *)
LEMMA SelectStep ==
  ASSUME NEW d \in Client, NEW ok \in BOOLEAN, NEW st \in BOOLEAN, d.up = FALSE,
         d.offered_ip_addr \in Addr
  PROVE  /\ Held(dhcp_select(d, ok)) /\ Waits(dhcp_select(d, ok), st)
         /\ dhcp_select(d, ok).up = FALSE
  BY SelectFacts DEF Held, Waits, HasAddress, Goes, Keeps

(* So may one ask again for the address it had before the link went.       *)
LEMMA RebootStep ==
  ASSUME NEW d \in Client, NEW ok \in BOOLEAN, NEW st \in BOOLEAN, d.up = FALSE,
         d.offered_ip_addr \in Addr, d.state = "REBOOTING" => d.tries <= 8
  PROVE  /\ Held(dhcp_reboot(d, ok)) /\ Waits(dhcp_reboot(d, ok), st)
         /\ dhcp_reboot(d, ok).up = FALSE
  BY RebootFacts DEF Held, Waits, HasAddress, Goes, Keeps

(* And look for another user of it before taking it.                       *)
LEMMA CheckStep ==
  ASSUME NEW d \in Client, NEW st \in BOOLEAN, d.up = FALSE, d.offered_ip_addr \in Addr
  PROVE  /\ Held(dhcp_check(d)) /\ Waits(dhcp_check(d), st)
         /\ dhcp_check(d).up = FALSE
  BY CheckFacts DEF Held, Waits, HasAddress

(* The owner of a lease renews it under the same address.                  *)
LEMMA RenewStep ==
  ASSUME NEW d, Held(d), NEW ok \in BOOLEAN, NEW st \in BOOLEAN, d.state \in LeaseStates
  PROVE  /\ Held(dhcp_renew(d, ok)) /\ Stable(d, dhcp_renew(d, ok))
         /\ Ends(d, st) => Waits(dhcp_renew(d, ok), st)
  BY RenewFacts DEF Held, Waits, Ends, Stable, HasAddress, LeaseStates, Goes, Keeps

(* A lease about to end is rebound, at most nine times, never unwatched.   *)
LEMMA RebindStep ==
  ASSUME NEW d, Held(d), NEW ok \in BOOLEAN, NEW st \in BOOLEAN,
         d.state \in LeaseStates \/ (d.state = "REBINDING" /\ d.tries <= 8)
  PROVE  /\ Held(dhcp_rebind(d, ok)) /\ Stable(d, dhcp_rebind(d, ok))
         /\ Waits(dhcp_rebind(d, ok), st)
  BY RebindFacts DEF Held, Waits, Stable, HasAddress, LeaseStates, Goes, Keeps

(* Taking the address that was known all along changes nothing under it.   *)
LEMMA BindStep ==
  ASSUME NEW d, Held(d), NEW st \in BOOLEAN, d.state \in HasAddress
  PROVE  Held(dhcp_bind(d)) /\ Stable(d, dhcp_bind(d)) /\ Waits(dhcp_bind(d), st)
  BY BindFacts DEF Held, Waits, Ends, Stable, HasAddress

(* Before dhcp_start nothing has happened.                                 *)
IInv == TypeOK /\ Held(c) /\ (pcb = "none" => c.state = "OFF")

(* What every step shows: the invariant, that the address is stable, and,  *)
(* of servers that send their identifier, that no wait is without a timer. *)
Good ==
  /\ IInv' /\ Stable(c, c')
  /\ ServerIds \subseteq {TRUE} /\ Waits(c, stale) => Waits(c', stale')

-----------------------------------------------------------------------------
(* One lemma for each action.                                              *)

(* Allocations that fail are counted down.                                 *)
LEMMA AllocType ==
  ASSUME TypeOK, NEW ok \in BOOLEAN, Alloc(ok)
  PROVE  noMem' \in 0 .. MaxNoMem
  BY WidthAssumption DEF TypeOK, Alloc

(* dhcp_release and dhcp_discover, with their two messages.                *)
LEMMA StartOverStep ==
  ASSUME TypeOK, NEW d \in Client, StartOver(d), NEW st \in BOOLEAN
  PROVE  Held(c') /\ c'.up = FALSE /\ Waits(c', st) /\ noMem' \in 0 .. MaxNoMem
  <1>1. PICK ok1 \in BOOLEAN, ok2 \in BOOLEAN :
          /\ noMem' = noMem - Cardinality({i \in {1, 2} : ~<<ok1, ok2>>[i]})
          /\ noMem' >= 0
          /\ c' = dhcp_discover(dhcp_release(d, ok1), ok2)
    BY DEF StartOver
  <1> DEFINE F == {i \in {1, 2} : ~<<ok1, ok2>>[i]}
  <1>2. IsFiniteSet({1, 2})
    <2>1. IsFiniteSet({1} \cup {2})
      BY FS_Singleton, FS_AddElement, Zenon
    <2>2. {1, 2} = {1} \cup {2}
      OBVIOUS
    <2> QED
      BY <2>1, <2>2, Zenon
  <1>3. Cardinality(F) \in Nat
    BY <1>2, FS_Subset, FS_CardinalityType
  <1> HIDE DEF F
  <1>4. noMem' \in 0 .. MaxNoMem
    BY <1>1, <1>3, WidthAssumption DEF TypeOK, F
  <1>5. dhcp_release(d, ok1) \in Client /\ dhcp_release(d, ok1).up = FALSE
    BY ReleaseFacts
  <1> QED
    BY <1>1, <1>4, <1>5, DiscoverStep

(* dhcp_start: the first DISCOVER is sent, or the client is removed.       *)
LEMMA StartGood ==
  ASSUME IInv, dhcp_start
  PROVE  Good
  <1>1. PICK ok \in BOOLEAN :
          /\ Alloc(ok) /\ pcb' = (IF ok THEN "open" ELSE "removed")
          /\ c' = IF ok THEN dhcp_discover(c, ok) ELSE c
    BY DEF dhcp_start
  <1>2. c \in Client /\ c.up = FALSE /\ c.state = "OFF" /\ stale \in BOOLEAN
    BY DEF IInv, Held, dhcp_start, TypeOK, Client
  <1>3. noMem' \in 0 .. MaxNoMem
    BY <1>1, AllocType DEF IInv
  <1>4. UNCHANGED <<link, stale>> /\ pcb' \in {"open", "removed"}
    BY <1>1 DEF dhcp_start
  <1>5. CASE ok
    <2>1. Held(c') /\ Waits(c', stale) /\ c'.up = FALSE
      BY <1>1, <1>2, <1>5, DiscoverStep
    <2> QED
      BY <1>2, <1>3, <1>4, <2>1 DEF Good, IInv, TypeOK, Held, Stable
  <1>6. CASE ~ok
    BY <1>1, <1>2, <1>3, <1>4, <1>6 DEF Good, IInv, TypeOK, Stable
  <1> QED
    BY <1>5, <1>6

(* dhcp_handle_offer: only an offer without identifier leaves no timer.    *)
LEMMA OfferGood ==
  ASSUME IInv, NEW a \in Addr, NEW id \in ServerIds, dhcp_handle_offer(a, id)
  PROVE  Good
  <1> DEFINE d == [c EXCEPT !.request_timeout = FALSE]
             o == [d EXCEPT !.offered_ip_addr = a]
  <1>1. PICK ok \in BOOLEAN :
          Alloc(ok) /\ c' = IF id THEN dhcp_select(o, ok) ELSE d
    BY DEF dhcp_handle_offer
  <1>2. /\ c \in Client /\ c.up = FALSE /\ c.state = "SELECTING" /\ stale \in BOOLEAN
        /\ pcb = "open"
    BY DEF IInv, Held, dhcp_handle_offer, TypeOK, Client
  <1>3. d \in Client /\ d.state = "SELECTING"
    BY <1>2 DEF Client
  <1>4. d.up = FALSE
    BY <1>2 DEF Client
  <1>5. o \in Client /\ o.offered_ip_addr = a /\ o.up = d.up
    BY <1>3 DEF Client
  <1>6. noMem' \in 0 .. MaxNoMem
    BY <1>1, AllocType DEF IInv
  <1>7. UNCHANGED <<pcb, link, stale>>
    BY DEF dhcp_handle_offer
  <1> HIDE DEF d, o
  <1>8. CASE id
    <2>1. Held(c') /\ Waits(c', stale) /\ c'.up = FALSE
      BY <1>1, <1>2, <1>4, <1>5, <1>8, SelectStep
    <2> QED
      BY <1>2, <1>6, <1>7, <2>1 DEF Good, IInv, TypeOK, Held, Stable
  <1>9. CASE ~id
    <2>1. c' = d
      BY <1>1, <1>9
    <2>2. ~(ServerIds \subseteq {TRUE})
      BY <1>9
    <2>3. Held(d)
      BY <1>3, <1>4 DEF Held, HasAddress
    <2> QED
      BY <1>2, <1>6, <1>7, <2>1, <2>2, <2>3 DEF Good, IInv, TypeOK, Held, Stable
  <1> QED
    BY <1>8, <1>9

(* dhcp_recv of an ACK: a check first, or the address it had.              *)
LEMMA AckGood ==
  ASSUME IInv, NEW a \in Addr, NEW l \in Leases, RecvAck(a, l)
  PROVE  Good
  <1> DEFINE d == [c EXCEPT !.granted = a]
  <1>1. /\ c \in Client /\ Held(c) /\ stale \in BOOLEAN /\ pcb = "open"
        /\ c.state \in {"REQUESTING", "REBOOTING", "REBINDING", "RENEWING"}
    BY DEF IInv, Held, RecvAck, TypeOK
  <1>2. /\ d \in Client /\ d.state = c.state /\ d.up = c.up
        /\ d.ip_addr = c.ip_addr /\ d.offered_ip_addr = c.offered_ip_addr
    BY <1>1 DEF Client
  <1>3. UNCHANGED <<pcb, link, noMem, stale>>
    BY DEF RecvAck
  <1>4. c' = IF c.state = "REQUESTING" THEN dhcp_check(dhcp_handle_ack(d, a, l))
             ELSE dhcp_bind(d)
    BY DEF RecvAck
  <1> HIDE DEF d
  <1>5. Held(d)
    BY <1>1, <1>2 DEF Held
  <1>6. CASE c.state = "REQUESTING"
    <2>1. c.up = FALSE
      BY <1>1, <1>6 DEF Held, Client
    <2>2. /\ dhcp_handle_ack(d, a, l) \in Client
          /\ dhcp_handle_ack(d, a, l).up = FALSE
          /\ dhcp_handle_ack(d, a, l).offered_ip_addr \in Addr
      BY <1>2, <2>1, AckFacts
    <2>3. Held(c') /\ Waits(c', stale) /\ c'.up = FALSE
      BY <1>1, <1>4, <1>6, <2>2, CheckStep
    <2> QED
      BY <1>1, <1>3, <2>1, <2>3 DEF Good, IInv, TypeOK, Held, Stable
  <1>7. CASE c.state # "REQUESTING"
    <2>1. Held(c') /\ Waits(c', stale) /\ Stable(d, c')
      BY <1>1, <1>2, <1>4, <1>5, <1>7, BindStep DEF HasAddress
    <2> QED
      BY <1>1, <1>2, <1>3, <2>1 DEF Good, IInv, TypeOK, Held, Stable
  <1> QED
    BY <1>6, <1>7

(* dhcp_recv of a NAK: the interface goes down and the client starts over. *)
LEMMA NakGood ==
  ASSUME IInv, RecvNak
  PROVE  Good
  <1>1. PICK ok \in BOOLEAN : Alloc(ok) /\ c' = dhcp_handle_nak(c, ok)
    BY DEF RecvNak
  <1>2. c \in Client /\ pcb = "open" /\ UNCHANGED <<pcb, link, stale>>
    BY DEF IInv, TypeOK, RecvNak
  <1>3. noMem' \in 0 .. MaxNoMem
    BY <1>1, AllocType DEF IInv
  <1>4. /\ c' \in Client /\ c'.state = "SELECTING" /\ c'.request_timeout = TRUE
        /\ c'.up = FALSE
    BY <1>1, <1>2, NakFacts
  <1> QED
    BY <1>2, <1>3, <1>4 DEF Good, IInv, TypeOK, Held, Stable, Waits, HasAddress

(* dhcp_arp_reply: another host has the address, and it is declined.       *)
LEMMA ArpGood ==
  ASSUME IInv, NEW a \in Taken, dhcp_arp_reply(a)
  PROVE  Good
  <1>1. PICK ok \in BOOLEAN :
          Alloc(ok) /\ c' = [dhcp_decline(c, ok) EXCEPT !.probe = NoAddr]
    BY DEF dhcp_arp_reply
  <1>2. c \in Client /\ c.state = "CHECKING" /\ UNCHANGED <<pcb, link, stale>>
    BY DEF IInv, TypeOK, dhcp_arp_reply
  <1>3. c.up = FALSE /\ pcb # "none"
    BY <1>2 DEF IInv, Held, Client
  <1>4. noMem' \in 0 .. MaxNoMem
    BY <1>1, AllocType DEF IInv
  <1> DEFINE e == dhcp_decline(c, ok)
  <1>5. /\ e \in Client /\ e.state = "BACKING_OFF" /\ e.up = c.up
        /\ e.request_timeout = TRUE
    BY <1>2, DeclineFacts DEF Goes, Keeps
  <1>6. c' = [e EXCEPT !.probe = NoAddr]
    BY <1>1
  <1> HIDE DEF e
  <1>7. /\ c' \in Client /\ c'.state = e.state /\ c'.up = e.up
        /\ c'.request_timeout = e.request_timeout
    BY <1>5, <1>6 DEF Client
  <1> QED
    BY <1>2, <1>3, <1>4, <1>5, <1>7
    DEF Good, IInv, TypeOK, Held, Stable, Waits, HasAddress

(* dhcp_fine_tmr: the request timer has run out.                           *)
LEMMA FineGood ==
  ASSUME IInv, dhcp_fine_tmr
  PROVE  Good
  <1> DEFINE d == [c EXCEPT !.request_timeout = FALSE]
  <1>1. c \in Client /\ Held(c) /\ stale \in BOOLEAN /\ UNCHANGED <<pcb, link, stale>>
    BY DEF IInv, TypeOK, dhcp_fine_tmr
  <1>2. dhcp_timeout(d)
    BY DEF dhcp_fine_tmr
  <1>3. /\ d \in Client /\ d.state = c.state /\ d.tries = c.tries /\ d.up = c.up
        /\ d.ip_addr = c.ip_addr /\ d.offered_ip_addr = c.offered_ip_addr
        /\ d.t2_timeout = c.t2_timeout /\ d.offered_t2_rebind = c.offered_t2_rebind
    BY <1>1 DEF Client
  <1> HIDE DEF d
  <1>4. Held(d)
    BY <1>1, <1>3 DEF Held
  <1>5. d.state \notin {"BOUND", "RENEWING", "REBINDING"} => d.up = FALSE
    BY <1>4 DEF Held, Client
  <1>6. pcb = "none" => d.state = "OFF"
    BY <1>3 DEF IInv
  <1>7. SUFFICES /\ Held(c') /\ Stable(d, c') /\ noMem' \in 0 .. MaxNoMem
                 /\ d.state # "OFF"
                 /\ (d.state = "RENEWING" => Ends(d, stale)) => Waits(c', stale)
    <2>1. Waits(c, stale) => (d.state = "RENEWING" => Ends(d, stale))
      BY <1>3 DEF Waits, Ends
    <2>2. Stable(d, c') => Stable(c, c')
      BY <1>3 DEF Stable
    <2> QED
      BY <1>1, <1>6, <2>1, <2>2 DEF Good, IInv, TypeOK, Held
  <1>8. CASE /\ d.state = "CHECKING"
             /\ c' = (IF TriesLeft(d) THEN dhcp_check(d) ELSE dhcp_bind(d))
             /\ UNCHANGED noMem
    <2>1. d.up = FALSE /\ d.offered_ip_addr \in Addr
      BY <1>4, <1>5, <1>8 DEF Held, HasAddress
    <2>2. CASE TriesLeft(d)
      BY <1>1, <1>3, <1>8, <2>1, <2>2, CheckStep DEF IInv, TypeOK, Stable
    <2>3. CASE ~TriesLeft(d)
      BY <1>1, <1>4, <1>8, <2>3, BindStep DEF IInv, TypeOK, HasAddress
    <2> QED
      BY <2>2, <2>3
  <1>9. CASE d.state \in {"REQUESTING", "REBINDING"} /\ ~TriesLeft(d) /\ StartOver(d)
    BY <1>1, <1>3, <1>9, StartOverStep DEF IInv, Stable
  <1>10. ASSUME NEW ok \in BOOLEAN, Alloc(ok),
                d.state \in {"BACKING_OFF", "SELECTING", "REBOOTING"},
                c' = dhcp_discover(d, ok)
         PROVE  /\ Held(c') /\ Stable(d, c') /\ noMem' \in 0 .. MaxNoMem
                /\ d.state # "OFF" /\ Waits(c', stale)
    BY <1>1, <1>3, <1>5, <1>10, DiscoverStep, AllocType DEF IInv, Stable
  <1>11. ASSUME NEW ok \in BOOLEAN, Alloc(ok),
                d.state = "REQUESTING", c' = dhcp_select(d, ok)
         PROVE  /\ Held(c') /\ Stable(d, c') /\ noMem' \in 0 .. MaxNoMem
                /\ d.state # "OFF" /\ Waits(c', stale)
    <2>1. d.up = FALSE /\ d.offered_ip_addr \in Addr
      BY <1>4, <1>5, <1>11 DEF Held, HasAddress
    <2> QED
      BY <1>1, <1>3, <1>11, <2>1, SelectStep, AllocType DEF IInv, Stable
  <1>12. ASSUME NEW ok \in BOOLEAN, Alloc(ok),
                d.state = "RENEWING", c' = dhcp_renew(d, ok)
         PROVE  /\ Held(c') /\ Stable(d, c') /\ noMem' \in 0 .. MaxNoMem
                /\ d.state # "OFF" /\ (Ends(d, stale) => Waits(c', stale))
    BY <1>1, <1>4, <1>12, RenewStep, AllocType DEF IInv, LeaseStates
  <1>13. ASSUME NEW ok \in BOOLEAN, Alloc(ok),
                d.state = "REBINDING", TriesLeft(d), c' = dhcp_rebind(d, ok)
         PROVE  /\ Held(c') /\ Stable(d, c') /\ noMem' \in 0 .. MaxNoMem
                /\ d.state # "OFF" /\ Waits(c', stale)
    <2>1. d.tries <= 8
      BY <1>13 DEF TriesLeft
    <2> QED
      BY <1>1, <1>4, <1>13, <2>1, RebindStep, AllocType DEF IInv
  <1>14. ASSUME NEW ok \in BOOLEAN, Alloc(ok),
                d.state = "REBOOTING", TriesLeft(d), c' = dhcp_reboot(d, ok)
         PROVE  /\ Held(c') /\ Stable(d, c') /\ noMem' \in 0 .. MaxNoMem
                /\ d.state # "OFF" /\ Waits(c', stale)
    <2>1. d.tries <= 8
      BY <1>3, <1>14 DEF TriesLeft, REBOOT_TRIES, Client
    <2>2. d.up = FALSE /\ d.offered_ip_addr \in Addr
      BY <1>4, <1>5, <1>14 DEF Held, HasAddress
    <2> QED
      BY <1>1, <1>3, <1>14, <2>1, <2>2, RebootStep, AllocType DEF IInv, Stable
  <1> QED
    BY <1>2, <1>8, <1>9, <1>10, <1>11, <1>12, <1>13, <1>14 DEF dhcp_timeout

(* dhcp_coarse_tmr: T2, T1, or neither has run out.                        *)
LEMMA CoarseGood ==
  ASSUME IInv, dhcp_coarse_tmr
  PROVE  Good
  <1> DEFINE fires2 == c.t2_timeout = 1
             fires1 == ~fires2 /\ c.t1_timeout = 1
             t2 == Decremented(c.t2_timeout)
             t1 == IF fires2 THEN c.t1_timeout ELSE Decremented(c.t1_timeout)
             d == [c EXCEPT !.t2_timeout = t2, !.t1_timeout = t1]
  <1>1. c \in Client /\ Held(c) /\ stale \in BOOLEAN /\ UNCHANGED <<pcb, link>>
    BY DEF IInv, TypeOK, dhcp_coarse_tmr
  <1>2. c.t1_timeout \in 0 .. U16 - 1 /\ c.t2_timeout \in 0 .. U16 - 1
    BY <1>1 DEF Client
  <1>3. t1 \in 0 .. U16 - 1 /\ t2 \in 0 .. U16 - 1
    BY <1>2, DecrementedFacts
  <1>4. c.t2_timeout > 0 /\ ~fires2 => t2 > 0
    BY <1>2, DecrementedFacts
  <1>5. stale' = (stale \/ ((fires1 \/ fires2) /\ c.state = "REQUESTING"))
    BY DEF dhcp_coarse_tmr
  <1>6. \/ fires2 /\ d.state \in LeaseStates /\ dhcp_t2_timeout(d)
        \/ fires1 /\ d.state \in LeaseStates /\ dhcp_t1_timeout(d)
        \/ /\ ~((fires1 \/ fires2) /\ d.state \in LeaseStates)
           /\ c' = d /\ UNCHANGED noMem
    BY DEF dhcp_coarse_tmr
  <1> HIDE DEF t1, t2
  <1>7. /\ d \in Client /\ d.state = c.state /\ d.tries = c.tries /\ d.up = c.up
        /\ d.ip_addr = c.ip_addr /\ d.offered_ip_addr = c.offered_ip_addr
        /\ d.t2_timeout = t2 /\ d.offered_t2_rebind = c.offered_t2_rebind
        /\ d.request_timeout = c.request_timeout
    BY <1>1, <1>3 DEF Client
  <1> HIDE DEF d
  <1>8. Held(d) /\ stale' \in BOOLEAN
    BY <1>1, <1>5, <1>7 DEF Held
  <1>9. SUFFICES /\ Held(c') /\ Stable(d, c') /\ noMem' \in 0 .. MaxNoMem
                 /\ pcb = "none" => c'.state = "OFF"
                 /\ Waits(c, stale) => Waits(c', stale')
    <2>1. Stable(d, c') => Stable(c, c')
      BY <1>7 DEF Stable
    <2> QED
      BY <1>1, <1>8, <2>1 DEF Good, IInv, TypeOK, Held
  <1>10. CASE fires2 /\ d.state \in LeaseStates /\ dhcp_t2_timeout(d)
    <2>1. PICK ok \in BOOLEAN : Alloc(ok) /\ c' = dhcp_rebind(d, ok)
      BY <1>10 DEF dhcp_t2_timeout
    <2>2. pcb # "none"
      BY DEF dhcp_coarse_tmr
    <2> QED
      BY <1>8, <1>10, <2>1, <2>2, RebindStep, AllocType DEF IInv
  <1>11. CASE fires1 /\ d.state \in LeaseStates /\ dhcp_t1_timeout(d)
    <2>1. PICK ok \in BOOLEAN : Alloc(ok) /\ c' = dhcp_renew(d, ok)
      BY <1>11 DEF dhcp_t1_timeout
    <2>2. pcb # "none"
      BY DEF dhcp_coarse_tmr
    <2>3. Waits(c, stale) => Ends(d, stale')
      <3>1. CASE c.state = "REQUESTING"
        BY <1>5, <1>11, <3>1 DEF Ends
      <3>2. CASE c.state \in {"BOUND", "RENEWING"}
        BY <1>4, <1>5, <1>7, <1>11, <3>2 DEF Ends, Waits
      <3> QED
        BY <1>7, <1>11, <3>1, <3>2 DEF LeaseStates
    <2> QED
      BY <1>8, <1>11, <2>1, <2>2, <2>3, RenewStep, AllocType DEF IInv
  <1>12. CASE /\ ~((fires1 \/ fires2) /\ d.state \in LeaseStates)
              /\ c' = d /\ UNCHANGED noMem
    <2>1. Held(c') /\ Stable(d, c') /\ noMem' \in 0 .. MaxNoMem
      BY <1>8, <1>12 DEF IInv, TypeOK, Stable
    <2>2. pcb = "none" => c'.state = "OFF"
      BY <1>7, <1>12 DEF IInv
    <2>3. stale => stale'
      BY <1>5
    <2>4. ASSUME Waits(c, stale) PROVE Waits(c', stale')
      BY <1>4, <1>7, <1>12, <2>3, <2>4 DEF Waits, Ends, LeaseStates
    <2> QED
      BY <2>1, <2>2, <2>4
  <1> QED
    BY <1>6, <1>10, <1>11, <1>12

(* netif_set_link_up: the old address is asked for again with the          *)
(* interface down, or the search starts over.                              *)
LEMMA LinkUpGood ==
  ASSUME IInv, netif_set_link_up
  PROVE  Good
  <1>1. /\ c \in Client /\ Held(c) /\ stale \in BOOLEAN /\ pcb # "none"
        /\ UNCHANGED <<pcb, stale>> /\ link' = TRUE
    BY DEF IInv, TypeOK, netif_set_link_up
  <1>2. dhcp_network_changed
    BY DEF netif_set_link_up
  <1>3. ASSUME Held(c'), c'.up = FALSE, Waits(c', stale), noMem' \in 0 .. MaxNoMem
        PROVE  Good
    BY <1>1, <1>3 DEF Good, IInv, TypeOK, Held, Stable
  <1>4. CASE /\ c.state \in {"REBINDING", "RENEWING", "BOUND", "REBOOTING"}
             /\ \E ok \in BOOLEAN :
                  /\ Alloc(ok)
                  /\ c' = dhcp_reboot([netif_set_down(c) EXCEPT !.tries = 0], ok)
    <2> DEFINE d == [netif_set_down(c) EXCEPT !.tries = 0]
    <2>1. PICK ok \in BOOLEAN : Alloc(ok) /\ c' = dhcp_reboot(d, ok)
      BY <1>4
    <2>2. 0 \in 0 .. U8 - 1
      BY WidthAssumption
    <2>3. /\ d \in Client /\ d.up = FALSE /\ d.tries = 0
          /\ d.offered_ip_addr = c.offered_ip_addr
      BY <1>1, <2>2 DEF netif_set_down, Client
    <2>4. d.offered_ip_addr \in Addr
      BY <1>1, <1>4, <2>3 DEF Held, HasAddress
    <2>5. noMem' \in 0 .. MaxNoMem
      BY <2>1, AllocType DEF IInv
    <2> HIDE DEF d
    <2>6. d.state = "REBOOTING" => d.tries <= 8
      BY <2>3
    <2>7. Held(c') /\ Waits(c', stale) /\ c'.up = FALSE
      BY <1>1, <2>1, <2>3, <2>4, <2>6, RebootStep
    <2> QED
      BY <1>3, <2>5, <2>7
  <1>5. CASE c.state = "OFF" /\ UNCHANGED <<c, noMem>>
    BY <1>1, <1>5 DEF Good, IInv, TypeOK, Held, Stable
  <1>6. CASE /\ c.state \in {"SELECTING", "REQUESTING", "CHECKING", "BACKING_OFF"}
             /\ \E ok \in BOOLEAN :
                  Alloc(ok) /\ c' = dhcp_discover([c EXCEPT !.tries = 0], ok)
    <2> DEFINE d == [c EXCEPT !.tries = 0]
    <2>1. PICK ok \in BOOLEAN : Alloc(ok) /\ c' = dhcp_discover(d, ok)
      BY <1>6
    <2>2. c.up = FALSE /\ 0 \in 0 .. U8 - 1
      BY <1>1, <1>6, WidthAssumption DEF Held, Client
    <2>3. d \in Client /\ d.up = FALSE
      BY <1>1, <2>2 DEF Client
    <2>4. noMem' \in 0 .. MaxNoMem
      BY <2>1, AllocType DEF IInv
    <2> HIDE DEF d
    <2>5. Held(c') /\ Waits(c', stale) /\ c'.up = FALSE
      BY <1>1, <2>1, <2>3, DiscoverStep
    <2> QED
      BY <1>3, <2>4, <2>5
  <1> QED
    BY <1>2, <1>4, <1>5, <1>6 DEF dhcp_network_changed

(* What leaves the client alone: the link going down, and stuttering.      *)
LEMMA IdleGood ==
  ASSUME IInv, c' = c, noMem' = noMem, stale' = stale, pcb' = pcb, link' \in BOOLEAN
  PROVE  Good
  BY DEF Good, IInv, TypeOK, Held, Stable

(* The client starts in the invariant and without a wait.                  *)
LEMMA InitGood ==
  ASSUME Init
  PROVE  IInv /\ Waits(c, stale)
  <1>1. 0 \in 0 .. U8 - 1 /\ 0 \in 0 .. U16 - 1 /\ 0 \in Seconds
    BY WidthAssumption DEF Seconds
  <1>2. c \in Client
    BY <1>1 DEF Init, Client, State
  <1>3. c.state = "OFF" /\ c.up = FALSE
    BY DEF Init
  <1>4. MaxNoMem \in 0 .. MaxNoMem
    BY WidthAssumption
  <1> QED
    BY <1>2, <1>3, <1>4 DEF Init, IInv, TypeOK, Held, Waits, HasAddress

(* Every step of the client is good.                                       *)
LEMMA NextGood ==
  ASSUME IInv, [Next]_vars
  PROVE  Good
  <1>1. CASE dhcp_start
    BY <1>1, StartGood
  <1>2. CASE \E a \in Addr, id \in ServerIds : dhcp_handle_offer(a, id)
    BY <1>2, OfferGood
  <1>3. CASE \E a \in Addr, l \in Leases : RecvAck(a, l)
    BY <1>3, AckGood
  <1>4. CASE RecvNak
    BY <1>4, NakGood
  <1>5. CASE \E a \in Taken : dhcp_arp_reply(a)
    BY <1>5, ArpGood
  <1>6. CASE dhcp_fine_tmr
    BY <1>6, FineGood
  <1>7. CASE dhcp_coarse_tmr
    BY <1>7, CoarseGood
  <1>8. CASE netif_set_link_up
    BY <1>8, LinkUpGood
  <1>9. CASE netif_set_link_down
    BY <1>9, IdleGood DEF netif_set_link_down
  <1>10. CASE UNCHANGED vars
    BY <1>10, IdleGood DEF vars, IInv, TypeOK
  <1> QED
    BY <1>1, <1>2, <1>3, <1>4, <1>5, <1>6, <1>7, <1>8, <1>9, <1>10 DEF Next

-----------------------------------------------------------------------------
(* The address is granted and probed.                                      *)

(* What holds when f allocations have failed and no timer of an older      *)
(* lease has run out in REQUESTING.  A failed allocation keeps an old xid  *)
(* for one more state: one for SELECTING to know of older requests, two    *)
(* for REQUESTING and what follows it, three for the states that ask for   *)
(* the address again.                                                      *)
Fits(d, f) ==
  /\ d.state = "SELECTING" => Asks(d, {}) \/ f >= 1
  /\ d.state \in {"REQUESTING", "CHECKING", "BOUND"} =>
       Asks(d, {d.offered_ip_addr}) \/ f >= 2
  /\ d.state \in {"RENEWING", "REBINDING", "REBOOTING"} =>
       Asks(d, {d.offered_ip_addr}) \/ f >= 3
  /\ d.state \in {"CHECKING", "BOUND", "RENEWING", "REBINDING", "REBOOTING"} =>
       d.probe = d.offered_ip_addr \/ f >= 3
  /\ d.state \in {"CHECKING", "BOUND", "RENEWING", "REBINDING"} =>
       d.granted = d.offered_ip_addr \/ f >= 3
  /\ d.state \in {"BOUND", "RENEWING", "REBINDING"} => d.ip_addr = d.offered_ip_addr

(* The allocations that have failed, before and after one that may fail.   *)
Failed == MaxNoMem - noMem
Costs(ok, f, g) == (ok = TRUE /\ g = f) \/ (ok = FALSE /\ g = f + 1)

(* A search that starts over, unless its first message could not be sent.  *)
LEMMA DiscoverFits ==
  ASSUME NEW d \in Client, NEW ok \in BOOLEAN, NEW f \in Nat, NEW g \in Nat,
         Costs(ok, f, g),
         d.state = "SELECTING" => Asks(d, {}) \/ f >= 1
  PROVE  Fits(dhcp_discover(d, ok), g)
  <1> DEFINE e == dhcp_discover(d, ok)
  <1>1. e.state = "SELECTING"
    BY DiscoverFacts
  <1>2. Sends(d, e, {Discover}, ok, "SELECTING")
    BY DiscoverSends
  <1> HIDE DEF e
  <1>3. Asks(e, {}) \/ g >= 1
    <2>1. CASE ok = FALSE
      BY <2>1 DEF Costs
    <2>2. CASE ok = TRUE /\ d.state # "SELECTING"
      <3>1. e.sent = {Discover}
        BY <1>2, <2>2 DEF Sends
      <3> QED
        BY <3>1 DEF Asks, Request, Discover
    <2>3. CASE ok = TRUE /\ d.state = "SELECTING"
      <3>1. e.sent \subseteq d.sent \cup {Discover} /\ g = f
        BY <1>2, <2>3 DEF Sends, Costs
      <3>2. CASE Asks(d, {})
        BY <3>1, <3>2, AsksNoMore
      <3> QED
        BY <2>3, <3>1, <3>2
    <2> QED
      BY <2>1, <2>2, <2>3
  <1>4. Fits(e, g)
    BY <1>1, <1>3 DEF Fits
  <1> QED
    BY <1>4 DEF e

(* The first request for an offered address, or another.                   *)
LEMMA SelectFits ==
  ASSUME NEW d \in Client, NEW ok \in BOOLEAN, NEW f \in Nat, NEW g \in Nat,
         Costs(ok, f, g),
         \/ d.state = "SELECTING" /\ (Asks(d, {}) \/ f >= 1)
         \/ d.state = "REQUESTING" /\ (Asks(d, {d.offered_ip_addr}) \/ f >= 2)
  PROVE  Fits(dhcp_select(d, ok), g)
  <1> DEFINE e == dhcp_select(d, ok)
             a == d.offered_ip_addr
  <1>1. e.state = "REQUESTING" /\ e.offered_ip_addr = a
    BY SelectFacts DEF Goes, Keeps
  <1>2. Sends(d, e, {Request(a)}, ok, "REQUESTING")
    BY SelectSends
  <1> HIDE DEF e
  <1>3. e.sent \subseteq d.sent \cup {Request(a)}
    BY <1>2 DEF Sends
  <1>4. Asks(e, {a}) \/ g >= 2
    <2>1. CASE d.state = "REQUESTING"
      <3>1. CASE Asks(d, {a})
        <4>1. Asks(e, {a} \cup {a})
          BY <1>3, <3>1, AsksMore
        <4> QED
          BY <4>1 DEF Asks
      <3>2. CASE f >= 2
        BY <3>2 DEF Costs
      <3> QED
        BY <2>1, <3>1, <3>2
    <2>2. CASE d.state = "SELECTING" /\ ok = TRUE
      <3>1. e.sent = {Request(a)}
        BY <1>2, <2>2 DEF Sends
      <3> QED
        BY <3>1 DEF Asks, Request
    <2>3. CASE d.state = "SELECTING" /\ ok = FALSE
      <3>1. CASE Asks(d, {})
        <4>1. Asks(e, {} \cup {a})
          BY <1>3, <3>1, AsksMore
        <4> QED
          BY <4>1 DEF Asks
      <3>2. CASE f >= 1
        BY <2>3, <3>2 DEF Costs
      <3> QED
        BY <2>3, <3>1, <3>2
    <2> QED
      BY <2>1, <2>2, <2>3
  <1> HIDE DEF a
  <1>5. Fits(e, g)
    BY <1>1, <1>4 DEF Fits
  <1> QED
    BY <1>5 DEF e

(* What is common to the states that ask for an address again: the first   *)
(* message in state s may fail once more.                                  *)
LEMMA AgainFits ==
  ASSUME NEW d, NEW e, NEW ok \in BOOLEAN, NEW f \in Nat, NEW g \in Nat,
         NEW s, Costs(ok, f, g), Fits(d, f),
         Sends(d, e, {Request(d.offered_ip_addr)}, ok, s),
         s \in {"RENEWING", "REBINDING", "REBOOTING"},
         d.state \in {"BOUND", "RENEWING", "REBINDING", "REBOOTING"}
  PROVE  Asks(e, {d.offered_ip_addr}) \/ g >= 3
  <1> DEFINE a == d.offered_ip_addr
  <1>1. e.sent \subseteq d.sent \cup {Request(a)}
    BY DEF Sends
  <1>2. CASE Asks(d, {a})
    <2>1. Asks(e, {a} \cup {a})
      BY <1>1, <1>2, AsksMore
    <2> QED
      BY <2>1 DEF Asks
  <1>3. CASE d.state # s /\ ok = TRUE
    <2>1. e.sent = {Request(a)}
      BY <1>3 DEF Sends
    <2> QED
      BY <2>1 DEF Asks, Request
  <1>4. CASE ~Asks(d, {a}) /\ d.state = s
    <2>1. f >= 3
      BY <1>4 DEF Fits
    <2> QED
      BY <2>1 DEF Costs
  <1>5. CASE ~Asks(d, {a}) /\ ok = FALSE
    <2>1. f >= 2
      BY <1>5 DEF Fits
    <2> QED
      BY <1>5, <2>1 DEF Costs
  <1> QED
    BY <1>2, <1>3, <1>4, <1>5

(* Renewing a lease asks for its address once more.                        *)
LEMMA RenewFits ==
  ASSUME NEW d \in Client, NEW ok \in BOOLEAN, NEW f \in Nat, NEW g \in Nat,
         Costs(ok, f, g), Fits(d, f), d.state \in {"BOUND", "RENEWING"}
  PROVE  Fits(dhcp_renew(d, ok), g)
  <1> DEFINE e == dhcp_renew(d, ok)
  <1>1. Goes(d, e, "RENEWING")
    BY RenewFacts
  <1>2. d.ip_addr = d.offered_ip_addr /\ g >= f
    BY DEF Fits, Costs
  <1>3. Sends(d, e, {Request(d.offered_ip_addr)}, ok, "RENEWING")
    BY <1>2, RenewSends
  <1> HIDE DEF e
  <1>4. Asks(e, {d.offered_ip_addr}) \/ g >= 3
    BY <1>3, AgainFits
  <1>5. Fits(e, g)
    BY <1>1, <1>2, <1>4 DEF Fits, Goes, Keeps
  <1> QED
    BY <1>5 DEF e

(* So does rebinding it.                                                   *)
LEMMA RebindFits ==
  ASSUME NEW d \in Client, NEW ok \in BOOLEAN, NEW f \in Nat, NEW g \in Nat,
         Costs(ok, f, g), Fits(d, f), d.state \in {"BOUND", "RENEWING", "REBINDING"},
         d.state = "REBINDING" => d.tries <= 8
  PROVE  Fits(dhcp_rebind(d, ok), g)
  <1> DEFINE e == dhcp_rebind(d, ok)
  <1>1. Goes(d, e, "REBINDING")
    BY RebindFacts
  <1>2. d.ip_addr = d.offered_ip_addr /\ g >= f
    BY DEF Fits, Costs
  <1>3. Sends(d, e, {Request(d.offered_ip_addr)}, ok, "REBINDING")
    BY <1>2, RebindSends
  <1> HIDE DEF e
  <1>4. Asks(e, {d.offered_ip_addr}) \/ g >= 3
    BY <1>3, AgainFits
  <1>5. Fits(e, g)
    BY <1>1, <1>2, <1>4 DEF Fits, Goes, Keeps
  <1> QED
    BY <1>5 DEF e

(* So does asking for it after the link came back.                         *)
LEMMA RebootFits ==
  ASSUME NEW d \in Client, NEW ok \in BOOLEAN, NEW f \in Nat, NEW g \in Nat,
         Costs(ok, f, g), Fits(d, f),
         d.state \in {"BOUND", "RENEWING", "REBINDING", "REBOOTING"},
         d.state = "REBOOTING" => d.tries <= 8
  PROVE  Fits(dhcp_reboot(d, ok), g)
  <1> DEFINE e == dhcp_reboot(d, ok)
  <1>1. Goes(d, e, "REBOOTING")
    BY RebootFacts
  <1>2. g >= f
    BY DEF Costs
  <1>3. Sends(d, e, {Request(d.offered_ip_addr)}, ok, "REBOOTING")
    BY RebootSends
  <1> HIDE DEF e
  <1>4. Asks(e, {d.offered_ip_addr}) \/ g >= 3
    BY <1>3, AgainFits
  <1>5. Fits(e, g)
    BY <1>1, <1>2, <1>4 DEF Fits, Goes, Keeps
  <1> QED
    BY <1>5 DEF e

(* An address that was granted and probed is taken.                        *)
LEMMA BindFits ==
  ASSUME NEW d \in Client, NEW f \in Nat, Fits(d, f),
         d.state \in {"CHECKING", "RENEWING", "REBINDING", "REBOOTING"},
         d.granted = d.offered_ip_addr \/ f >= 3
  PROVE  Fits(dhcp_bind(d), f)
  <1> DEFINE e == dhcp_bind(d)
  <1>1. /\ e.state = "BOUND" /\ e.ip_addr = d.offered_ip_addr
        /\ e.offered_ip_addr = d.offered_ip_addr
    BY BindFacts
  <1>2. e.sent = d.sent /\ e.granted = d.granted /\ e.probe = d.probe
    BY BindKeeps
  <1> HIDE DEF e
  <1>3. Asks(d, {d.offered_ip_addr}) \/ f >= 2
    BY DEF Fits
  <1>4. Asks(e, {d.offered_ip_addr}) \/ f >= 2
    BY <1>2, <1>3 DEF Asks
  <1>5. d.probe = d.offered_ip_addr \/ f >= 3
    BY DEF Fits
  <1>6. Fits(e, f)
    BY <1>1, <1>2, <1>4, <1>5 DEF Fits
  <1> QED
    BY <1>6 DEF e

(* The offered address, which was granted, is probed.                      *)
LEMMA CheckFits ==
  ASSUME NEW d \in Client, NEW f \in Nat, Asks(d, {d.offered_ip_addr}) \/ f >= 2,
         d.granted = d.offered_ip_addr \/ f >= 3
  PROVE  Fits(dhcp_check(d), f)
  <1> DEFINE e == dhcp_check(d)
  <1>1. e.state = "CHECKING" /\ e.offered_ip_addr = d.offered_ip_addr
    BY CheckFacts
  <1>2. e.sent = d.sent /\ e.granted = d.granted /\ e.probe = d.offered_ip_addr
    BY CheckKeeps
  <1> HIDE DEF e
  <1>4. Asks(e, {d.offered_ip_addr}) \/ f >= 2
    BY <1>2 DEF Asks
  <1>6. Fits(e, f)
    BY <1>1, <1>2, <1>4 DEF Fits
  <1> QED
    BY <1>6 DEF e

-----------------------------------------------------------------------------
(* The inductive invariant of the grants, and one lemma for each action.   *)

Vouched == stale = TRUE \/ Fits(c, Failed)

(* Alloc counts what fails.                                                *)
LEMMA AllocCosts ==
  ASSUME TypeOK, NEW ok \in BOOLEAN, Alloc(ok)
  PROVE  Costs(ok, Failed, Failed') /\ Failed \in Nat /\ Failed' \in Nat
  <1>1. noMem \in 0 .. MaxNoMem /\ noMem' \in 0 .. MaxNoMem /\ MaxNoMem \in Nat
    BY AllocType, WidthAssumption DEF TypeOK
  <1>2. CASE ok = TRUE
    <2>1. noMem' = noMem
      BY <1>2 DEF Alloc
    <2> QED
      BY <1>1, <1>2, <2>1 DEF Costs, Failed
  <1>3. CASE ok = FALSE
    <2>1. noMem' = noMem - 1
      BY <1>3 DEF Alloc
    <2> QED
      BY <1>1, <1>3, <2>1 DEF Costs, Failed
  <1> QED
    BY <1>2, <1>3

(* What Fits looks at.                                                     *)
Seen(d, e) ==
  /\ e.state = d.state /\ e.sent = d.sent /\ e.probe = d.probe
  /\ e.granted = d.granted /\ e.ip_addr = d.ip_addr
  /\ e.offered_ip_addr = d.offered_ip_addr

(* The timers and the tries do not matter.                                 *)
LEMMA SeenFits ==
  ASSUME NEW d, NEW e, NEW f, Fits(d, f), Seen(d, e)
  PROVE  Fits(e, f)
  BY DEF Fits, Seen, Asks

(* dhcp_start.                                                             *)
LEMMA StartVouched ==
  ASSUME IInv, Vouched, dhcp_start
  PROVE  Vouched'
  <1>1. PICK ok \in BOOLEAN :
          Alloc(ok) /\ c' = IF ok THEN dhcp_discover(c, ok) ELSE c
    BY DEF dhcp_start
  <1>2. c \in Client /\ c.state = "OFF" /\ stale' = stale /\ TypeOK
    BY DEF IInv, Held, dhcp_start
  <1>3. Costs(ok, Failed, Failed') /\ Failed \in Nat /\ Failed' \in Nat
    BY <1>1, <1>2, AllocCosts
  <1>4. CASE ok = TRUE
    <2>1. Fits(dhcp_discover(c, ok), Failed')
      BY <1>2, <1>3, DiscoverFits
    <2> QED
      BY <1>1, <1>4, <2>1 DEF Vouched
  <1>5. CASE ok = FALSE
    <2>1. c' = c
      BY <1>1, <1>5
    <2>2. Fits(c', Failed')
      BY <1>2, <2>1 DEF Fits
    <2> QED
      BY <2>2 DEF Vouched
  <1> QED
    BY <1>4, <1>5

(* dhcp_handle_offer.                                                      *)
LEMMA OfferVouched ==
  ASSUME IInv, Vouched, NEW a \in Addr, NEW id \in ServerIds, dhcp_handle_offer(a, id)
  PROVE  Vouched'
  <1> DEFINE d == [c EXCEPT !.request_timeout = FALSE]
             o == [d EXCEPT !.offered_ip_addr = a]
  <1>1. PICK ok \in BOOLEAN :
          Alloc(ok) /\ c' = IF id THEN dhcp_select(o, ok) ELSE d
    BY DEF dhcp_handle_offer
  <1>2. c \in Client /\ c.state = "SELECTING" /\ stale' = stale /\ TypeOK
    BY DEF IInv, Held, dhcp_handle_offer
  <1>3. Costs(ok, Failed, Failed') /\ Failed \in Nat /\ Failed' \in Nat
    BY <1>1, <1>2, AllocCosts
  <1>4. /\ d.state = "SELECTING" /\ d.sent = c.sent
        /\ o \in Client /\ o.state = "SELECTING" /\ o.sent = c.sent
    BY <1>2 DEF Client
  <1> HIDE DEF d, o
  <1>5. CASE stale = TRUE
    BY <1>2, <1>5 DEF Vouched
  <1>6. CASE Fits(c, Failed)
    <2>1. Asks(c, {}) \/ Failed >= 1
      BY <1>2, <1>6 DEF Fits
    <2>2. CASE id
      <3>1. Asks(o, {}) \/ Failed >= 1
        BY <1>4, <2>1 DEF Asks
      <3>2. Fits(dhcp_select(o, ok), Failed')
        BY <1>3, <1>4, <3>1, SelectFits
      <3> QED
        BY <1>1, <2>2, <3>2 DEF Vouched
    <2>3. CASE ~id
      <3>1. c' = d
        BY <1>1, <2>3
      <3>2. Failed >= 1 => Failed' >= 1
        BY <1>3 DEF Costs
      <3>3. Asks(d, {}) \/ Failed' >= 1
        BY <1>4, <2>1, <3>2 DEF Asks
      <3>4. Fits(d, Failed')
        BY <1>4, <3>3 DEF Fits
      <3> QED
        BY <3>1, <3>4 DEF Vouched
    <2> QED
      BY <2>2, <2>3
  <1> QED
    BY <1>5, <1>6 DEF Vouched

(* dhcp_recv of an ACK: only what was asked for is granted.                *)
LEMMA AckVouched ==
  ASSUME IInv, Vouched, NEW a \in Addr, NEW l \in Leases, RecvAck(a, l)
  PROVE  Vouched'
  <1> DEFINE d == [c EXCEPT !.granted = a]
  <1>1. /\ c \in Client /\ stale' = stale /\ noMem' = noMem
        /\ c.state \in {"REQUESTING", "REBOOTING", "REBINDING", "RENEWING"}
        /\ Request(a) \in c.sent
        /\ c' = IF c.state = "REQUESTING" THEN dhcp_check(dhcp_handle_ack(d, a, l))
                ELSE dhcp_bind(d)
    BY DEF IInv, Held, RecvAck
  <1>2. Failed' = Failed /\ Failed \in Nat
    BY <1>1, WidthAssumption DEF IInv, TypeOK, Failed
  <1>3. /\ d \in Client /\ d.state = c.state /\ d.sent = c.sent /\ d.probe = c.probe
        /\ d.ip_addr = c.ip_addr /\ d.offered_ip_addr = c.offered_ip_addr
        /\ d.granted = a
    BY <1>1 DEF Client
  <1> HIDE DEF d
  <1>4. CASE stale = TRUE
    BY <1>1, <1>4 DEF Vouched
  <1>5. CASE Fits(c, Failed) /\ c.state = "REQUESTING"
    <2> DEFINE e == dhcp_handle_ack(d, a, l)
    <2>1. /\ e \in Client /\ e.offered_ip_addr = a /\ e.sent = c.sent
          /\ e.granted = a
      BY <1>3, AckFacts, AckKeeps
    <2>2. c' = dhcp_check(e)
      BY <1>1, <1>5
    <2> HIDE DEF e
    <2>3. Asks(c, {c.offered_ip_addr}) \/ Failed >= 2
      BY <1>5 DEF Fits
    <2>4. Asks(c, {c.offered_ip_addr}) => Asks(e, {a})
      BY <1>1, <2>1 DEF Asks
    <2>5. Fits(dhcp_check(e), Failed)
      BY <1>2, <2>1, <2>3, <2>4, CheckFits
    <2> QED
      BY <1>2, <2>2, <2>5 DEF Vouched
  <1>6. CASE Fits(c, Failed) /\ c.state # "REQUESTING"
    <2>1. Asks(c, {c.offered_ip_addr}) \/ Failed >= 3
      BY <1>1, <1>6 DEF Fits
    <2>2. a = d.offered_ip_addr \/ Failed >= 3
      BY <1>1, <1>3, <2>1 DEF Asks
    <2>3. Fits(d, Failed)
      <3>1. Asks(d, {d.offered_ip_addr}) \/ Failed >= 3
        BY <1>3, <2>1 DEF Asks
      <3>2. d.probe = d.offered_ip_addr \/ Failed >= 3
        BY <1>1, <1>3, <1>6 DEF Fits
      <3>3. d.state \in {"RENEWING", "REBINDING"} => d.ip_addr = d.offered_ip_addr
        BY <1>3, <1>6 DEF Fits
      <3> QED
        BY <1>1, <1>3, <1>6, <2>2, <3>1, <3>2, <3>3 DEF Fits
    <2>4. Fits(dhcp_bind(d), Failed)
      BY <1>1, <1>2, <1>3, <1>6, <2>2, <2>3, BindFits
    <2> QED
      BY <1>1, <1>2, <1>6, <2>4 DEF Vouched
  <1> QED
    BY <1>4, <1>5, <1>6 DEF Vouched

(* dhcp_recv of a NAK: the search starts over.                             *)
LEMMA NakVouched ==
  ASSUME IInv, Vouched, RecvNak
  PROVE  Vouched'
  <1> DEFINE s == [netif_set_down(c) EXCEPT !.ip_addr = NoAddr]
             b == dhcp_set_state(s, "BACKING_OFF")
  <1>1. PICK ok \in BOOLEAN : Alloc(ok) /\ c' = dhcp_handle_nak(c, ok)
    BY DEF RecvNak
  <1>2. c \in Client /\ TypeOK
    BY DEF IInv, Held
  <1>3. Costs(ok, Failed, Failed') /\ Failed \in Nat /\ Failed' \in Nat
    BY <1>1, <1>2, AllocCosts
  <1>4. s \in Client
    BY <1>2 DEF Client, netif_set_down
  <1>5. b \in Client /\ b.state = "BACKING_OFF"
    BY <1>4, SetStateFacts DEF State, Goes
  <1>6. c' = dhcp_discover(b, ok)
    BY <1>1 DEF dhcp_handle_nak
  <1> HIDE DEF s, b
  <1>7. Fits(dhcp_discover(b, ok), Failed')
    BY <1>3, <1>5, DiscoverFits
  <1> QED
    BY <1>6, <1>7 DEF Vouched

(* dhcp_arp_reply: the address is given up.                                *)
LEMMA ArpVouched ==
  ASSUME IInv, Vouched, NEW a \in Taken, dhcp_arp_reply(a)
  PROVE  Vouched'
  <1>1. PICK ok \in BOOLEAN :
          Alloc(ok) /\ c' = [dhcp_decline(c, ok) EXCEPT !.probe = NoAddr]
    BY DEF dhcp_arp_reply
  <1>2. c \in Client
    BY DEF IInv, Held
  <1> DEFINE e == dhcp_decline(c, ok)
  <1>3. e \in Client /\ e.state = "BACKING_OFF"
    BY <1>2, DeclineFacts DEF Goes
  <1>4. c' = [e EXCEPT !.probe = NoAddr]
    BY <1>1
  <1> HIDE DEF e
  <1>5. c'.state = "BACKING_OFF"
    BY <1>3, <1>4 DEF Client
  <1>6. Fits(c', Failed')
    BY <1>5 DEF Fits
  <1> QED
    BY <1>6 DEF Vouched

(* dhcp_release, then dhcp_discover.                                       *)
LEMMA StartOverFits ==
  ASSUME TypeOK, NEW d \in Client, StartOver(d)
  PROVE  Fits(c', Failed')
  <1>1. PICK ok1 \in BOOLEAN, ok2 \in BOOLEAN :
          /\ noMem' = noMem - Cardinality({i \in {1, 2} : ~<<ok1, ok2>>[i]})
          /\ noMem' >= 0
          /\ c' = dhcp_discover(dhcp_release(d, ok1), ok2)
    BY DEF StartOver
  <1> DEFINE e == dhcp_release(d, ok1)
             F == {i \in {1, 2} : ~<<ok1, ok2>>[i]}
  <1>2. e \in Client /\ e.state = "OFF"
    BY ReleaseFacts, ReleaseState
  <1>3. IsFiniteSet({1, 2})
    <2>1. IsFiniteSet({1} \cup {2})
      BY FS_Singleton, FS_AddElement, Zenon
    <2>2. {1, 2} = {1} \cup {2}
      OBVIOUS
    <2> QED
      BY <2>1, <2>2, Zenon
  <1>4. IsFiniteSet(F) /\ Cardinality(F) \in Nat
    BY <1>3, FS_Subset, FS_CardinalityType
  <1>5. ok2 = FALSE => Cardinality(F) # 0
    <2>1. ok2 = FALSE => 2 \in F
      OBVIOUS
    <2> HIDE DEF F
    <2>2. Cardinality(F) = 0 => F = {}
      BY <1>4, FS_EmptySet
    <2> QED
      BY <2>1, <2>2
  <1>6. noMem' = noMem - Cardinality(F)
    BY <1>1
  <1> HIDE DEF F
  <1>7. /\ Failed \in Nat /\ Failed' = Failed + Cardinality(F) /\ Failed' \in Nat
    BY <1>4, <1>6, WidthAssumption DEF TypeOK, Failed
  <1>8. c' = dhcp_discover(e, ok2)
    BY <1>1
  <1> HIDE DEF e
  <1>9. CASE ok2 = TRUE
    <2>1. Costs(ok2, Failed', Failed')
      BY <1>9 DEF Costs
    <2>2. Fits(dhcp_discover(e, ok2), Failed')
      BY <1>2, <1>7, <2>1, DiscoverFits
    <2> QED
      BY <1>8, <2>2
  <1>10. CASE ok2 = FALSE
    <2>1. Failed' - 1 \in Nat /\ Costs(ok2, Failed' - 1, Failed')
      BY <1>4, <1>5, <1>7, <1>10 DEF Costs
    <2>2. Fits(dhcp_discover(e, ok2), Failed')
      BY <1>2, <1>7, <2>1, DiscoverFits
    <2> QED
      BY <1>8, <2>2
  <1> QED
    BY <1>9, <1>10

(* dhcp_fine_tmr: what was asked for is asked for again, taken or left.    *)
LEMMA FineVouched ==
  ASSUME IInv, Vouched, dhcp_fine_tmr
  PROVE  Vouched'
  <1> DEFINE d == [c EXCEPT !.request_timeout = FALSE]
  <1>1. c \in Client /\ TypeOK /\ stale' = stale
    BY DEF IInv, Held, dhcp_fine_tmr
  <1>2. dhcp_timeout(d)
    BY DEF dhcp_fine_tmr
  <1>3. d \in Client /\ Seen(c, d)
    BY <1>1 DEF Client, Seen
  <1> HIDE DEF d
  <1>4. CASE stale = TRUE
    BY <1>1, <1>4 DEF Vouched
  <1> SUFFICES ASSUME Fits(c, Failed)
               PROVE  Fits(c', Failed')
    BY <1>4 DEF Vouched
  <1>5. Fits(d, Failed) /\ Failed \in Nat
    BY <1>1, <1>3, SeenFits, WidthAssumption DEF TypeOK, Failed
  <1>6. CASE /\ d.state = "CHECKING"
             /\ c' = (IF TriesLeft(d) THEN dhcp_check(d) ELSE dhcp_bind(d))
             /\ UNCHANGED noMem
    <2>1. Failed' = Failed
      BY <1>6 DEF Failed
    <2>2. /\ Asks(d, {d.offered_ip_addr}) \/ Failed >= 2
          /\ d.granted = d.offered_ip_addr \/ Failed >= 3
      BY <1>5, <1>6 DEF Fits
    <2>3. Fits(dhcp_check(d), Failed)
      BY <1>3, <1>5, <2>2, CheckFits
    <2>4. Fits(dhcp_bind(d), Failed)
      BY <1>3, <1>5, <1>6, <2>2, BindFits
    <2> QED
      BY <1>6, <2>1, <2>3, <2>4
  <1>7. CASE StartOver(d)
    BY <1>1, <1>3, <1>7, StartOverFits
  <1>8. ASSUME NEW ok \in BOOLEAN, Alloc(ok),
               d.state \in {"BACKING_OFF", "SELECTING", "REBOOTING"},
               c' = dhcp_discover(d, ok)
        PROVE  Fits(c', Failed')
    <2>1. Costs(ok, Failed, Failed') /\ Failed' \in Nat
      BY <1>1, <1>8, AllocCosts
    <2>2. d.state = "SELECTING" => Asks(d, {}) \/ Failed >= 1
      BY <1>5 DEF Fits
    <2> QED
      BY <1>3, <1>5, <1>8, <2>1, <2>2, DiscoverFits
  <1>9. ASSUME NEW ok \in BOOLEAN, Alloc(ok),
               d.state = "REQUESTING", c' = dhcp_select(d, ok)
        PROVE  Fits(c', Failed')
    <2>1. Costs(ok, Failed, Failed') /\ Failed' \in Nat
      BY <1>1, <1>9, AllocCosts
    <2>2. Asks(d, {d.offered_ip_addr}) \/ Failed >= 2
      BY <1>5, <1>9 DEF Fits
    <2> QED
      BY <1>3, <1>5, <1>9, <2>1, <2>2, SelectFits
  <1>10. ASSUME NEW ok \in BOOLEAN, Alloc(ok),
                d.state = "RENEWING", c' = dhcp_renew(d, ok)
         PROVE  Fits(c', Failed')
    <2>1. Costs(ok, Failed, Failed') /\ Failed' \in Nat
      BY <1>1, <1>10, AllocCosts
    <2> QED
      BY <1>3, <1>5, <1>10, <2>1, RenewFits
  <1>11. ASSUME NEW ok \in BOOLEAN, Alloc(ok),
                d.state = "REBINDING", TriesLeft(d), c' = dhcp_rebind(d, ok)
         PROVE  Fits(c', Failed')
    <2>1. Costs(ok, Failed, Failed') /\ Failed' \in Nat
      BY <1>1, <1>11, AllocCosts
    <2>2. d.tries <= 8
      BY <1>11 DEF TriesLeft
    <2> QED
      BY <1>3, <1>5, <1>11, <2>1, <2>2, RebindFits
  <1>12. ASSUME NEW ok \in BOOLEAN, Alloc(ok),
                d.state = "REBOOTING", TriesLeft(d), c' = dhcp_reboot(d, ok)
         PROVE  Fits(c', Failed')
    <2>1. Costs(ok, Failed, Failed') /\ Failed' \in Nat
      BY <1>1, <1>12, AllocCosts
    <2>2. d.tries <= 8
      BY <1>3, <1>12 DEF TriesLeft, REBOOT_TRIES, Client
    <2> QED
      BY <1>3, <1>5, <1>12, <2>1, <2>2, RebootFits
  <1> QED
    BY <1>2, <1>6, <1>7, <1>8, <1>9, <1>10, <1>11, <1>12 DEF dhcp_timeout

(* dhcp_coarse_tmr: a timer that runs out in REQUESTING is an older        *)
(* lease's, and is noted; one that runs out under a lease renews it.       *)
LEMMA CoarseVouched ==
  ASSUME IInv, Vouched, dhcp_coarse_tmr
  PROVE  Vouched'
  <1> DEFINE fires2 == c.t2_timeout = 1
             fires1 == ~fires2 /\ c.t1_timeout = 1
             t2 == Decremented(c.t2_timeout)
             t1 == IF fires2 THEN c.t1_timeout ELSE Decremented(c.t1_timeout)
             d == [c EXCEPT !.t2_timeout = t2, !.t1_timeout = t1]
  <1>1. c \in Client /\ TypeOK /\ stale \in BOOLEAN
    BY DEF IInv, Held, TypeOK
  <1>2. c.t1_timeout \in 0 .. U16 - 1 /\ c.t2_timeout \in 0 .. U16 - 1
    BY <1>1 DEF Client
  <1>3. t1 \in 0 .. U16 - 1 /\ t2 \in 0 .. U16 - 1
    BY <1>2, DecrementedFacts
  <1>4. stale' = (stale \/ ((fires1 \/ fires2) /\ c.state = "REQUESTING"))
    BY DEF dhcp_coarse_tmr
  <1>5. \/ fires2 /\ d.state \in LeaseStates /\ dhcp_t2_timeout(d)
        \/ fires1 /\ d.state \in LeaseStates /\ dhcp_t1_timeout(d)
        \/ c' = d /\ UNCHANGED noMem
    BY DEF dhcp_coarse_tmr
  <1> HIDE DEF t1, t2
  <1>6. d \in Client /\ Seen(c, d)
    BY <1>1, <1>3 DEF Client, Seen
  <1> HIDE DEF d
  <1>7. CASE stale' = TRUE
    BY <1>7 DEF Vouched
  <1>8. stale' = TRUE \/ (stale = FALSE /\ ~((fires1 \/ fires2) /\ c.state = "REQUESTING"))
    BY <1>1, <1>4
  <1> SUFFICES ASSUME stale = FALSE, ~((fires1 \/ fires2) /\ c.state = "REQUESTING")
               PROVE  Fits(c', Failed')
    BY <1>7, <1>8 DEF Vouched
  <1>9. Fits(d, Failed) /\ Failed \in Nat /\ d.state = c.state
    BY <1>1, <1>6, SeenFits, WidthAssumption DEF TypeOK, Failed, Vouched, Seen
  <1>10. CASE fires2 /\ d.state \in LeaseStates /\ dhcp_t2_timeout(d)
    <2>1. PICK ok \in BOOLEAN : Alloc(ok) /\ c' = dhcp_rebind(d, ok)
      BY <1>10 DEF dhcp_t2_timeout
    <2>2. Costs(ok, Failed, Failed') /\ Failed' \in Nat
      BY <1>1, <2>1, AllocCosts
    <2>3. d.state \in {"BOUND", "RENEWING"}
      BY <1>9, <1>10 DEF LeaseStates
    <2> QED
      BY <1>6, <1>9, <2>1, <2>2, <2>3, RebindFits
  <1>11. CASE fires1 /\ d.state \in LeaseStates /\ dhcp_t1_timeout(d)
    <2>1. PICK ok \in BOOLEAN : Alloc(ok) /\ c' = dhcp_renew(d, ok)
      BY <1>11 DEF dhcp_t1_timeout
    <2>2. Costs(ok, Failed, Failed') /\ Failed' \in Nat
      BY <1>1, <2>1, AllocCosts
    <2>3. d.state \in {"BOUND", "RENEWING"}
      BY <1>9, <1>11 DEF LeaseStates
    <2> QED
      BY <1>6, <1>9, <2>1, <2>2, <2>3, RenewFits
  <1>12. CASE c' = d /\ UNCHANGED noMem
    <2>1. Failed' = Failed
      BY <1>12 DEF Failed
    <2> QED
      BY <1>9, <1>12, <2>1
  <1> QED
    BY <1>5, <1>10, <1>11, <1>12

(* netif_set_link_up: the old address once more, or a new search.          *)
LEMMA LinkUpVouched ==
  ASSUME IInv, Vouched, netif_set_link_up
  PROVE  Vouched'
  <1>1. c \in Client /\ TypeOK /\ stale' = stale /\ dhcp_network_changed
    BY DEF IInv, Held, netif_set_link_up
  <1>2. 0 \in 0 .. U8 - 1
    BY WidthAssumption
  <1>3. CASE stale = TRUE
    BY <1>1, <1>3 DEF Vouched
  <1> SUFFICES ASSUME Fits(c, Failed)
               PROVE  Fits(c', Failed')
    BY <1>3 DEF Vouched
  <1>4. CASE /\ c.state \in {"REBINDING", "RENEWING", "BOUND", "REBOOTING"}
             /\ \E ok \in BOOLEAN :
                  /\ Alloc(ok)
                  /\ c' = dhcp_reboot([netif_set_down(c) EXCEPT !.tries = 0], ok)
    <2> DEFINE d == [netif_set_down(c) EXCEPT !.tries = 0]
    <2>1. PICK ok \in BOOLEAN : Alloc(ok) /\ c' = dhcp_reboot(d, ok)
      BY <1>4
    <2>2. d \in Client /\ Seen(c, d) /\ d.tries <= 8
      <3>1. d \in Client
        BY <1>1, <1>2 DEF netif_set_down, Client
      <3>2. d.tries = 0
        BY <1>1 DEF netif_set_down, Client
      <3>3. Seen(c, d)
        BY <1>1 DEF netif_set_down, Client, Seen
      <3> QED
        BY <3>1, <3>2, <3>3
    <2>3. Costs(ok, Failed, Failed') /\ Failed \in Nat /\ Failed' \in Nat
      BY <1>1, <2>1, AllocCosts
    <2> HIDE DEF d
    <2>4. Fits(d, Failed) /\ d.state = c.state
      BY <2>2, SeenFits DEF Seen
    <2> QED
      BY <1>4, <2>1, <2>2, <2>3, <2>4, RebootFits
  <1>5. CASE c.state = "OFF" /\ UNCHANGED <<c, noMem>>
    BY <1>5 DEF Failed
  <1>6. CASE /\ c.state \in {"SELECTING", "REQUESTING", "CHECKING", "BACKING_OFF"}
             /\ \E ok \in BOOLEAN :
                  Alloc(ok) /\ c' = dhcp_discover([c EXCEPT !.tries = 0], ok)
    <2> DEFINE d == [c EXCEPT !.tries = 0]
    <2>1. PICK ok \in BOOLEAN : Alloc(ok) /\ c' = dhcp_discover(d, ok)
      BY <1>6
    <2>2. d \in Client /\ Seen(c, d)
      BY <1>1, <1>2 DEF Client, Seen
    <2>3. Costs(ok, Failed, Failed') /\ Failed \in Nat /\ Failed' \in Nat
      BY <1>1, <2>1, AllocCosts
    <2> HIDE DEF d
    <2>4. Fits(d, Failed)
      BY <2>2, SeenFits
    <2>5. d.state = "SELECTING" => Asks(d, {}) \/ Failed >= 1
      BY <2>4 DEF Fits
    <2> QED
      BY <2>1, <2>2, <2>3, <2>5, DiscoverFits
  <1> QED
    BY <1>1, <1>4, <1>5, <1>6 DEF dhcp_network_changed

(* Every step keeps the grants in order.                                   *)
LEMMA NextVouched ==
  ASSUME IInv, Vouched, [Next]_vars
  PROVE  Vouched'
  <1>1. CASE dhcp_start
    BY <1>1, StartVouched
  <1>2. CASE \E a \in Addr, id \in ServerIds : dhcp_handle_offer(a, id)
    BY <1>2, OfferVouched
  <1>3. CASE \E a \in Addr, l \in Leases : RecvAck(a, l)
    BY <1>3, AckVouched
  <1>4. CASE RecvNak
    BY <1>4, NakVouched
  <1>5. CASE \E a \in Taken : dhcp_arp_reply(a)
    BY <1>5, ArpVouched
  <1>6. CASE dhcp_fine_tmr
    BY <1>6, FineVouched
  <1>7. CASE dhcp_coarse_tmr
    BY <1>7, CoarseVouched
  <1>8. CASE netif_set_link_up
    BY <1>8, LinkUpVouched
  <1>9. CASE netif_set_link_down
    BY <1>9 DEF netif_set_link_down, Vouched, Failed
  <1>10. CASE UNCHANGED vars
    BY <1>10 DEF vars, Vouched, Failed
  <1> QED
    BY <1>1, <1>2, <1>3, <1>4, <1>5, <1>6, <1>7, <1>8, <1>9, <1>10 DEF Next

-----------------------------------------------------------------------------
(* The counters of the client keep within their widths, whatever the       *)
(* widths, and it never loses track of the address it asks for: the        *)
(* inductive invariant holds of every run of dhcp.c.                       *)
THEOREM InvariantTheorem == Spec => []IInv
  <1>1. Init => IInv
    BY InitGood
  <1>2. IInv /\ [Next]_vars => IInv'
    BY NextGood DEF Good
  <1> QED
    BY <1>1, <1>2, PTL DEF Spec

(* No handler of dhcp.c changes the address of an interface that is up and *)
(* stays up: dhcp_bind may run again on an ACK to a renewal, but only      *)
(* under the address the interface has.                                    *)
THEOREM AddressStableTheorem == Spec => AddressStable
  <1>1. IInv /\ [Next]_vars => [c.up /\ c'.up => c'.ip_addr = c.ip_addr]_vars
    <2> SUFFICES ASSUME IInv, [Next]_vars, c.up, c'.up
                 PROVE  c'.ip_addr = c.ip_addr
      OBVIOUS
    <2>1. Good
      BY NextGood
    <2>2. c.up = TRUE /\ c'.up = TRUE
      <3>1. c.up \in BOOLEAN /\ c'.up \in BOOLEAN
        BY <2>1 DEF Good, IInv, TypeOK, Client
      <3> QED
        BY <3>1, Zenon
    <2> QED
      BY <2>1, <2>2 DEF Good, Stable
  <1> QED
    BY <1>1, InvariantTheorem, PTL DEF Spec, AddressStable

(* An interface that is up has the address of the last ACK, and the last   *)
(* ARP query nobody answered was for it, unless a timer of an older lease  *)
(* ran out in REQUESTING or dhcp_create_msg failed three times.            *)
THEOREM GrantedTheorem == Spec => []GrantedAndProbed
  <1> DEFINE V == IInv /\ Vouched
  <1>1. Init => V
    <2>1. ASSUME Init PROVE Fits(c, Failed)
      <3>1. c.state = "OFF"
        BY <2>1 DEF Init
      <3> QED
        BY <3>1 DEF Fits
    <2> QED
      BY <2>1, InitGood DEF Vouched
  <1>2. V /\ [Next]_vars => V'
    BY NextGood, NextVouched DEF Good
  <1>3. V => GrantedAndProbed
    <2> SUFFICES ASSUME IInv, Vouched, c.up
                 PROVE  /\ c.state \in {"BOUND", "RENEWING", "REBINDING"}
                        /\ c.ip_addr # NoAddr
                        /\ ~stale /\ MaxNoMem - noMem < 3 =>
                             c.ip_addr = c.granted /\ c.ip_addr = c.probe
      BY DEF GrantedAndProbed
    <2>1. c \in Client /\ c.up = TRUE /\ Held(c) /\ stale \in BOOLEAN
      <3>1. c.up \in BOOLEAN
        BY DEF IInv, TypeOK, Client
      <3>2. c.up = TRUE
        BY <3>1, Zenon
      <3> QED
        BY <3>2 DEF IInv, TypeOK
    <2>2. /\ c.state \in {"BOUND", "RENEWING", "REBINDING"}
          /\ c.ip_addr = c.offered_ip_addr /\ c.ip_addr \in Addr
      BY <2>1 DEF Held, HasAddress
    <2>3. c.ip_addr # NoAddr
      BY <2>2, AddrAssumption
    <2>4. Failed \in Nat /\ Failed = MaxNoMem - noMem
      BY WidthAssumption DEF IInv, TypeOK, Failed
    <2>5. ASSUME ~stale, Failed < 3
          PROVE  c.ip_addr = c.granted /\ c.ip_addr = c.probe
      <3>1. Fits(c, Failed)
        BY <2>1, <2>5 DEF Vouched
      <3>2. ~(Failed >= 3)
        BY <2>4, <2>5
      <3> QED
        BY <2>2, <3>1, <3>2 DEF Fits
    <2> QED
      BY <2>2, <2>3, <2>4, <2>5
  <1> QED
    BY <1>1, <1>2, <1>3, PTL DEF Spec

(* When every OFFER carries its server's identifier, no state of the       *)
(* client waits without a timer that ends the wait.  An offer without one  *)
(* stops the request timer in dhcp_recv and nothing sets it again.         *)
THEOREM NeverWaitsTheorem ==
  ASSUME ServerIds \subseteq {TRUE}
  PROVE  Spec => []NeverWaitsUnwatched
  <1> DEFINE W == IInv /\ Waits(c, stale)
  <1>1. Init => W
    BY InitGood
  <1>2. W /\ [Next]_vars => W'
    BY NextGood DEF Good
  <1>3. W => NeverWaitsUnwatched
    <2> SUFFICES ASSUME IInv, Waits(c, stale)
                 PROVE  NeverWaitsUnwatched
      OBVIOUS
    <2>1. TypeOK /\ c \in Client /\ c.request_timeout \in BOOLEAN /\ stale \in BOOLEAN
      BY DEF IInv, TypeOK, Client
    <2>2. LeaseWatched
      BY <2>1 DEF LeaseWatched, Waits, Ends
    <2>3. c.state \in State \ {"OFF", "BOUND", "RENEWING"} => c.request_timeout
      BY <2>1 DEF Waits
    <2>4. c.state = "RENEWING" => \/ c.request_timeout
                                  \/ c.tries = 0 /\ (c.t2_timeout > 0 \/ stale)
                                  \/ c.offered_t2_rebind = INFINITE
      BY <2>1 DEF Waits, Ends
    <2> QED
      BY <2>1, <2>2, <2>3, <2>4 DEF NeverWaitsUnwatched
  <1> QED
    BY <1>1, <1>2, <1>3, PTL DEF Spec
=============================================================================
