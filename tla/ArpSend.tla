------------------------------- MODULE ArpSend -------------------------------
(***************************************************************************)
(* ARP in front of a reply: wait_for_arp() and next_hop_ipv4()             *)
(* (components/ntp_server/arp_wait.h) as recv_task_() uses them, and the   *)
(* table of recent clients that loop() keeps resolved (note_arp_client_(), *)
(* refresh_arp_entries_(), ntp_server.cpp).                                *)
(*                                                                         *)
(* lwIP's cache is external: a query makes an entry pending and asks the   *)
(* network; an answer makes it stable and sends what is queued behind it;  *)
(* entries age and may be recycled for other hosts.  The core lock makes   *)
(* each look at the cache one step, and is not held between them.          *)
(*                                                                         *)
(* The wait is counted in sleeps of a millisecond; a tick is a part of     *)
(* ARP_REFRESH_INTERVAL_MS, and a wait may fall anywhere in it.            *)
(***************************************************************************)
EXTENDS Integers, FiniteSets

CONSTANTS
  Local, Remote,       \* clients on the subnet, and others
  Gateway,             \* the gateway's address
  Nobody,              \* an empty slot, or no next hop: address 0
  SLOTS,               \* ARP_CLIENT_SLOTS
  WAIT_MAX,            \* ARP_WAIT_MAX_US, in sleeps
  REFRESH,             \* ARP_REFRESH_INTERVAL_MS, in ticks
  MAXAGE,              \* ARP_MAXAGE, in ticks
  MaxSlip              \* bound: how much longer than asked for a sleep takes

Client == Local \cup Remote
Host == Local \cup {Gateway}

ASSUME ArpAssumption ==
  /\ {SLOTS, WAIT_MAX, REFRESH, MAXAGE} \subseteq Nat \ {0} /\ MaxSlip \in Nat
  /\ Nobody \notin Client \cup {Gateway} /\ Gateway \notin Client
  /\ Local \cap Remote = {}

VARIABLES
  has_gateway,     \* configuration: there is a default gateway
  cache, age,      \* lwIP: state of each entry, ticks since it was resolved
  asked,           \* hosts with an ARP request on the network
  arp_clients, arp_client_next,
  since_refresh,   \* ticks since arp_last_refresh_ms_
  slot,            \* the slot refresh_arp_entries_() is at; SLOTS: not running
  rpc, client,     \* recv_task_(): where it is, whom it answers
  elapsed,         \* sleeps since the query
  gone,            \* history: the entry went away after the wait had found it
  late,            \* history: the last reply was queued, its entry not gone
  cold             \* history: ticks each host has been unresolved while tracked

table == <<arp_clients, arp_client_next, since_refresh, slot>>
task  == <<rpc, client, elapsed, gone, late>>
arpVars == <<has_gateway, cache, age, asked, table, task, cold>>

ArpInit ==
  /\ has_gateway \in BOOLEAN
  /\ cache = [h \in Host |-> "none"] /\ age = [h \in Host |-> 0]
  /\ asked = {}
  /\ arp_clients = [i \in 0 .. SLOTS - 1 |-> Nobody] /\ arp_client_next = 0
  /\ since_refresh = REFRESH /\ slot = SLOTS
  /\ rpc = "idle" /\ client = Nobody /\ elapsed = 0
  /\ gone = FALSE /\ late = FALSE
  /\ cold = [h \in Host |-> 0]

\* next_hop_ipv4(): whose entry a reply to c needs.
NextHop(c) == IF c \in Local THEN c ELSE IF has_gateway THEN Gateway ELSE Nobody
Hop == NextHop(client)
Resolved(h) == cache[h] = "stable"
Tracked(clients, h) ==
  \E i \in 0 .. SLOTS - 1 : clients[i] \in Client /\ NextHop(clients[i]) = h

-----------------------------------------------------------------------------
(***************************************************************************)
(* lwIP and the network.                                                   *)
(***************************************************************************)

\* etharp_query(): an entry there is not becomes pending, and a request goes out.
\* A stable entry stays so.
Query(h) ==
  /\ cache' = [cache EXCEPT ![h] = IF @ = "none" THEN "pending" ELSE @]
  /\ asked' = asked \cup {h}

\* What it is to lose an entry, for the reply being made too.
LoseEntry(h) ==
  /\ cache' = [cache EXCEPT ![h] = "none"]
  /\ age' = [age EXCEPT ![h] = 0]
  /\ gone' = (gone \/ (rpc = "send" /\ Hop = h))

\* An ARP reply: the entry is stable, and what lwIP queued behind it leaves.
Answer(h) ==
  /\ h \in asked
  /\ asked' = asked \ {h}
  /\ cache' = [cache EXCEPT ![h] = "stable"]
  /\ age' = [age EXCEPT ![h] = 0]
  /\ cold' = [cold EXCEPT ![h] = 0]
  /\ UNCHANGED <<has_gateway, table, task>>

\* The host stays silent: the entry is given up after a few requests.
GiveUp(h) ==
  /\ h \in asked
  /\ asked' = asked \ {h}
  /\ cold' = [cold EXCEPT ![h] = 0]
  /\ IF Resolved(h) THEN UNCHANGED <<cache, age, gone>> ELSE LoseEntry(h)
  /\ UNCHANGED <<has_gateway, table, rpc, client, elapsed, late>>

\* The place of an entry is used for another host.
Recycle(h) ==
  /\ Resolved(h) /\ LoseEntry(h)
  /\ UNCHANGED <<has_gateway, asked, table, rpc, client, elapsed, late, cold>>

\* etharp_tmr(): an entry expires.
Expire(h) ==
  /\ Resolved(h) /\ age[h] >= MAXAGE /\ LoseEntry(h)
  /\ UNCHANGED <<has_gateway, asked, table, rpc, client, elapsed, late, cold>>

RefreshDue == since_refresh >= REFRESH

\* Time passes.  Requests are answered or given up within a tick, an entry does
\* not outlive its age, and the main loop runs more often than that.
ArpTick ==
  /\ asked = {} /\ ~RefreshDue /\ slot = SLOTS
  /\ \A h \in Host : Resolved(h) => age[h] < MAXAGE
  /\ age' = [h \in Host |-> IF Resolved(h) THEN age[h] + 1 ELSE 0]
  /\ since_refresh' = since_refresh + 1
  /\ cold' = [h \in Host |->
                IF Resolved(h) \/ ~Tracked(arp_clients, h) THEN 0
                ELSE IF cold[h] <= REFRESH THEN cold[h] + 1 ELSE cold[h]]
  /\ UNCHANGED <<has_gateway, cache, asked, arp_clients, arp_client_next, slot, task>>

Lwip == ArpTick \/ \E h \in Host : Answer(h) \/ GiveUp(h) \/ Recycle(h) \/ Expire(h)

-----------------------------------------------------------------------------
(***************************************************************************)
(* refresh_arp_entries_(), in loop().                                      *)
(***************************************************************************)

RefreshBegins ==
  /\ slot = SLOTS /\ RefreshDue
  /\ since_refresh' = 0 /\ slot' = 0
  /\ UNCHANGED <<has_gateway, cache, age, asked, arp_clients, arp_client_next, task, cold>>

\* Mutated form: the client itself is resolved, wherever it is.
RefreshSlot_Client ==
  /\ slot < SLOTS
  /\ slot' = slot + 1
  /\ LET c == arp_clients[slot] IN
     IF c \in Local /\ ~Resolved(c) THEN Query(c) ELSE UNCHANGED <<cache, asked>>
  /\ UNCHANGED <<has_gateway, age, arp_clients, arp_client_next, since_refresh, task, cold>>

RefreshSlot ==
  /\ slot < SLOTS
  /\ slot' = slot + 1
  /\ LET c == arp_clients[slot]
         h == IF c = Nobody THEN Nobody ELSE NextHop(c)
     IN IF h # Nobody /\ ~Resolved(h) THEN Query(h) ELSE UNCHANGED <<cache, asked>>
  /\ UNCHANGED <<has_gateway, age, arp_clients, arp_client_next, since_refresh, task, cold>>

-----------------------------------------------------------------------------
(***************************************************************************)
(* recv_task_().                                                           *)
(***************************************************************************)

\* note_arp_client_()
NoteArpClient(c) ==
  IF \E i \in 0 .. SLOTS - 1 : arp_clients[i] = c
    THEN UNCHANGED <<arp_clients, arp_client_next>>
    ELSE /\ arp_clients' = [arp_clients EXCEPT ![arp_client_next] = c]
         /\ arp_client_next' = (arp_client_next + 1) % SLOTS

\* An admitted request; without a next hop there is nothing to wait for.
Request(c) ==
  /\ rpc = "idle"
  /\ client' = c
  /\ NoteArpClient(c)
  /\ rpc' = IF NextHop(c) = Nobody THEN "send" ELSE "look"
  /\ gone' = FALSE /\ late' = FALSE
  /\ cold' = [h \in Host |-> IF Tracked(arp_clients', h) THEN cold[h] ELSE 0]
  /\ UNCHANGED <<has_gateway, cache, age, asked, since_refresh, slot, elapsed>>

Look ==
  /\ rpc = "look"
  /\ rpc' = IF Resolved(Hop) THEN "send" ELSE "query"
  /\ UNCHANGED <<has_gateway, cache, age, asked, table, client, elapsed, gone, late, cold>>

AskHop ==
  /\ rpc = "query"
  /\ Query(Hop)
  /\ elapsed' = 0 /\ rpc' = "wait"
  /\ UNCHANGED <<has_gateway, age, table, client, gone, late, cold>>

\* Mutated form: the time is never up.
WaitOver_Never(e) == FALSE
\* Mutated form: when the time is up the reply is sent anyway.
Refused_Not == "send"

WaitOver(e) == e >= WAIT_MAX
Refused == "idle"

\* A sleep, and another look: the entry is there, or the time is up, or again.
SleepAndLook ==
  /\ rpc = "wait"
  /\ \E slip \in 0 .. MaxSlip :
       LET e == elapsed + 1 + slip IN
       IF Resolved(Hop) THEN rpc' = "send" /\ elapsed' = 0
       ELSE IF WaitOver(e) THEN rpc' = Refused /\ elapsed' = 0
       ELSE rpc' = "wait" /\ elapsed' = IF e < WAIT_MAX THEN e ELSE WAIT_MAX
  /\ UNCHANGED <<has_gateway, cache, age, asked, table, client, gone, late, cold>>

\* sendto(): the reply leaves, or waits behind the entry, or has no route.
SendTo ==
  /\ rpc = "send"
  /\ rpc' = "idle" /\ client' = Nobody
  /\ IF Hop = Nobody \/ Resolved(Hop) THEN UNCHANGED <<cache, asked, late>>
     ELSE Query(Hop) /\ late' = ~gone
  /\ gone' = FALSE
  /\ UNCHANGED <<has_gateway, age, table, elapsed, cold>>

Task == Look \/ AskHop \/ SleepAndLook \/ SendTo

ArpNext ==
  \/ Lwip \/ RefreshBegins \/ RefreshSlot
  \/ Task \/ \E c \in Client : Request(c)

ArpSpec == ArpInit /\ [][ArpNext]_arpVars

\* recv_task_() is scheduled; nothing is asked of network, lwIP or main loop.
ArpFairness == WF_arpVars(Task)

-----------------------------------------------------------------------------
(***************************************************************************)
(* Properties.                                                             *)
(***************************************************************************)

\* A reply waits behind an ARP exchange, with a T3 that is old when it leaves,
\* only if its next hop's entry was lost between the wait and sendto().
LeavesAtOnce == ~late

\* A recent client whose next hop answers is never unresolved for longer than
\* one refresh interval, whatever happens to its entry: if the main loop is prompt
\* (a refresh begins in the tick in which it is due and is over within it) and an
\* ARP answer comes within a tick.
ColdNotLong == \A h \in Host : cold[h] <= REFRESH

\* A request is answered or refused, though nobody answers the ARP request.
RequestEnds == rpc # "idle" ~> rpc = "idle"
=============================================================================
