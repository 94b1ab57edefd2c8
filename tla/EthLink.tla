-------------------------------- MODULE EthLink --------------------------------
(***************************************************************************)
(* The Ethernet connection: components/ethernet/ethernet_component_esp32.  *)
(*                                                                         *)
(* Two tasks share the component's flags without a lock.  The main loop    *)
(* runs setup(), loop(), enable(), disable() and powerdown(); ESP-IDF's    *)
(* event task runs the three event handlers, which set the flags and then  *)
(* ask for the loop.  A settled connection switches its own loop off, so   *)
(* every later change of a flag has to switch it on again.                 *)
(*                                                                         *)
(* The driver, the network interface with its DHCP client and ESPHome's    *)
(* scheduler are not in the repository: they are modelled as far as the    *)
(* component uses them.                                                    *)
(***************************************************************************)
EXTENDS Integers, Sequences

CONSTANTS
  Configs,      \* the build and YAML options to consider
  COUNT_MOD,    \* ipv6_count_ is an uint8_t: 256 in the code
  MaxQueue,     \* events the event task may be behind
  MaxFlaps,     \* bound on lost links
  MaxToggles,   \* bound on calls of enable() and disable()
  MaxFails,     \* bound on ESP-IDF calls that fail
  MaxIp6        \* bound on IPv6 addresses announced

Config == [enable_on_boot : BOOLEAN, manual_ip : BOOLEAN, min_ipv6 : Nat]
Event == {"START", "STOP", "CONNECTED", "DISCONNECTED", "GOT_IP", "GOT_IP6"}

ASSUME LinkAssumption ==
  /\ Configs \subseteq Config
  /\ COUNT_MOD \in Nat \ {0}
  /\ MaxQueue \in Nat /\ MaxFlaps \in Nat /\ MaxToggles \in Nat
  /\ MaxFails \in Nat /\ MaxIp6 \in Nat

VARIABLES
  config,                \* the options of this build
  pc,                    \* where the main loop is in the component
  state_,
  started_,
  connected_,
  got_ipv4_address_,
  ipv6_count_,
  ipv6_setup_done_,
  disabled_,
  ethernet_initialized_,
  phy_,                  \* phy_ is not null
  timed_out,             \* 15 s have passed since connect_begin_
  failed,                \* mark_failed() was called
  loop_on,               \* the component's loop is enabled
  pending,               \* enable_loop_soon_any_context() was called
  handling,              \* the event task set the flags, has not asked for the loop
  events,                \* events waiting for the event task
  driver,                \* esp_eth_start() succeeded, esp_eth_stop() has not
  link,                  \* the driver sees a link
  netif_up,              \* the interface has been told of it
  dhcp,                  \* the DHCP client
  addr,                  \* the interface has an IPv4 address
  belated,               \* history: it told of an address after the link was lost
  flaps, toggles, fails, ip6s  \* used up of the bounds

options  == <<config, flaps, toggles, fails, ip6s>>
flags    == <<started_, connected_, got_ipv4_address_, ipv6_count_>>
machine  == <<state_, ipv6_setup_done_, timed_out>>
life     == <<disabled_, ethernet_initialized_, phy_, failed>>
schedule == <<loop_on, pending>>
outside  == <<driver, link, netif_up, dhcp, addr, belated>>
vars     == <<options, pc, flags, machine, life, schedule, handling, events, outside>>

Init ==
  /\ config \in Configs
  /\ pc = "setup" /\ state_ = "STOPPED"
  /\ started_ = FALSE /\ connected_ = FALSE /\ got_ipv4_address_ = FALSE
  /\ ipv6_count_ = 0 /\ ipv6_setup_done_ = FALSE /\ timed_out = FALSE
  /\ disabled_ = FALSE /\ ethernet_initialized_ = FALSE /\ phy_ = FALSE
  /\ failed = FALSE /\ loop_on = TRUE /\ pending = FALSE
  /\ handling = FALSE /\ events = << >>
  /\ driver = FALSE /\ link = FALSE /\ netif_up = FALSE
  /\ dhcp = "init" /\ addr = FALSE /\ belated = FALSE
  /\ flaps = 0 /\ toggles = 0 /\ fails = 0 /\ ip6s = 0

\* An ESP-IDF call fails.
Fails == fails < MaxFails /\ fails' = fails + 1
Works == fails' = fails

Posting(es) == Len(events) + Len(es) <= MaxQueue /\ events' = events \o es

\* The interface tells of an address.  It does not ask the driver for the link.
Announcing(e) == Posting(<<e>>) /\ belated' = ~link

-----------------------------------------------------------------------------
(***************************************************************************)
(* setup(), enable() and disable().                                        *)
(***************************************************************************)

\* ethernet_lazy_init_() up to the driver: bus, interface, MAC and PHY.  The
\* PHY may exist although a later step failed.
CreatePhy == phy_' \in {phy_, TRUE} /\ ethernet_initialized_' = FALSE

\* The rest of it: install the driver, attach the interface, register the event
\* handlers.
AttachDriver == phy_' = TRUE /\ ethernet_initialized_' = TRUE

\* ethernet_lazy_init_(): done once; every error exit marks the component failed.
LazyInit ==
  \/ /\ ethernet_initialized_ /\ Works
     /\ UNCHANGED <<phy_, ethernet_initialized_, failed>>
  \/ /\ ~ethernet_initialized_ /\ Works
     /\ AttachDriver /\ UNCHANGED failed
  \/ /\ ~ethernet_initialized_ /\ Fails
     /\ CreatePhy /\ failed' = TRUE

\* esp_eth_start() of a driver that does not run.
EthStart == ~driver /\ driver' = TRUE /\ Posting(<<"START">>)
NoStart  == UNCHANGED <<driver, events>>

\* setup() of a component that is to be enabled at boot ...
Setup ==
  /\ pc = "setup" /\ config.enable_on_boot
  /\ pc' = "idle"
  /\ \/ LazyInit /\ ethernet_initialized_' /\ EthStart
     \/ LazyInit /\ ~ethernet_initialized_' /\ NoStart
     \/ AttachDriver /\ Fails /\ failed' = TRUE /\ NoStart
  /\ UNCHANGED <<config, flaps, toggles, ip6s, flags, machine, disabled_, schedule,
                 handling, link, netif_up, dhcp, addr, belated>>

\* ... and of one that is not.
SetupDisabled ==
  /\ pc = "setup" /\ ~config.enable_on_boot
  /\ pc' = "idle" /\ disabled_' = TRUE
  /\ UNCHANGED <<options, flags, machine, ethernet_initialized_, phy_, failed,
                 schedule, handling, events, outside>>

Toggle == pc = "idle" /\ toggles < MaxToggles /\ toggles' = toggles + 1

\* enable() succeeds: the driver is started and the loop is switched on.
Enable ==
  /\ Toggle /\ disabled_
  /\ LazyInit /\ ethernet_initialized_'
  /\ EthStart
  /\ disabled_' = FALSE
  /\ loop_on' = TRUE
  /\ UNCHANGED <<config, flaps, ip6s, pc, flags, machine, pending, handling, link,
                 netif_up, dhcp, addr, belated>>

\* enable() gives up: the initialisation failed, or the driver did not start (it
\* does not if it runs already).  The component stays disabled.
EnableFails ==
  /\ Toggle /\ disabled_
  /\ \/ LazyInit /\ ~ethernet_initialized_'
     \/ /\ ethernet_initialized_ /\ driver /\ Works
        /\ UNCHANGED <<phy_, ethernet_initialized_, failed>>
     \/ AttachDriver /\ Fails /\ UNCHANGED failed
  /\ UNCHANGED <<config, flaps, ip6s, pc, flags, machine, disabled_, schedule,
                 handling, events, outside>>

\* disable(): the driver tells of the end of the link, if it had one, and of its
\* own.
Disable ==
  /\ Toggle /\ ~disabled_ /\ driver
  /\ disabled_' = TRUE
  /\ driver' = FALSE /\ link' = FALSE
  /\ Posting(<<"STOP">>) \/ (link /\ Posting(<<"DISCONNECTED", "STOP">>))
  /\ UNCHANGED <<config, flaps, fails, ip6s, pc, flags, machine, ethernet_initialized_,
                 phy_, failed, schedule, handling, netif_up, dhcp, addr, belated>>

\* disable(), esp_eth_stop() failed: "disabling anyway".
DisableAnyway ==
  /\ Toggle /\ ~disabled_
  /\ driver => fails < MaxFails
  /\ fails' = IF driver THEN fails + 1 ELSE fails
  /\ disabled_' = TRUE
  /\ UNCHANGED <<config, flaps, ip6s, pc, flags, machine, ethernet_initialized_,
                 phy_, failed, schedule, handling, events, outside>>

\* powerdown(): the node shuts down or reboots; loop() will not run again.
Powerdown ==
  /\ pc = "idle"
  /\ pc' = "off"
  /\ IF phy_ THEN connected_' = FALSE /\ started_' = FALSE
             ELSE UNCHANGED <<connected_, started_>>
  /\ UNCHANGED <<options, got_ipv4_address_, ipv6_count_, machine, life, schedule,
                 handling, events, outside>>

-----------------------------------------------------------------------------
(***************************************************************************)
(* loop().  started_ and connected_ are two reads, and start_connect_()    *)
(* takes its time: the event task may come in between.                     *)
(***************************************************************************)

\* ESPHome switches on the loops that were asked for, before it runs them.
EnablePendingLoop ==
  /\ pc = "idle" /\ pending /\ ~failed
  /\ pending' = FALSE /\ loop_on' = TRUE
  /\ UNCHANGED <<options, pc, flags, machine, life, handling, events, outside>>

Running == loop_on /\ ~failed

Goto(p) ==
  /\ pc' = p
  /\ UNCHANGED <<options, flags, ipv6_setup_done_, timed_out, life, schedule, handling,
                 events, outside>>

LoopStopped ==
  /\ pc = "idle" /\ Running /\ ~started_
  /\ state_ # "STOPPED"
  /\ state_' = "STOPPED"
  /\ Goto("idle")

LoopStarts ==
  /\ pc = "idle" /\ Running /\ started_
  /\ state_ = "STOPPED"
  /\ state_' = "CONNECTING"
  /\ Goto("clear")

\* started_ is set; connected_ is read next.
LoopStarted ==
  /\ pc = "idle" /\ Running /\ started_
  /\ state_ # "STOPPED"
  /\ Goto("started") /\ UNCHANGED state_

LoopConnected ==
  /\ pc = "started" /\ state_ = "CONNECTING" /\ connected_
  /\ state_' = "CONNECTED"
  /\ Goto("idle")

LoopWaits ==
  /\ pc = "started" /\ state_ = "CONNECTING" /\ ~connected_
  /\ Goto(IF timed_out THEN "clear" ELSE "idle") /\ UNCHANGED state_

LoopLost ==
  /\ pc = "started" /\ state_ = "CONNECTED" /\ ~connected_
  /\ state_' = "CONNECTING"
  /\ Goto("clear")

LoopStable ==
  /\ pc = "started" /\ state_ = "CONNECTED" /\ connected_
  /\ Goto("finish") /\ UNCHANGED state_

\* finish_connect_() tries the link-local address once more, whatever comes of
\* it; then the component switches its loop off.
FinishConnect ==
  /\ pc = "finish"
  /\ pc' = "idle"
  /\ ipv6_setup_done_' = TRUE
  /\ loop_on' = FALSE
  /\ UNCHANGED <<options, flags, state_, timed_out, life, pending, handling, events,
                 outside>>

\* start_connect_(): forget the addresses of the connection before ...
ConnectClear ==
  /\ pc = "clear"
  /\ pc' = "dhcp"
  /\ got_ipv4_address_' = FALSE /\ ipv6_count_' = 0
  /\ ipv6_setup_done_' = FALSE /\ timed_out' = FALSE
  /\ UNCHANGED <<options, started_, connected_, state_, life, schedule, handling,
                 events, outside>>

\* Mutated form: a client that is not running is left alone.
ConnectDhcp_OnlyIfRunning ==
  /\ pc = "dhcp"
  /\ pc' = "ip6"
  /\ dhcp' = IF config.manual_ip \/ dhcp = "init" THEN "stopped" ELSE "asking"
  /\ addr' = config.manual_ip
  /\ UNCHANGED <<events, belated>> \/ (config.manual_ip /\ netif_up /\ Announcing("GOT_IP"))
  /\ UNCHANGED <<options, flags, machine, life, schedule, handling, driver, link,
                 netif_up>>

\* ... stop the DHCP client, set the static address or none, and start it again
\* unless the address is static, which the interface announces if it is up ...
ConnectDhcp ==
  /\ pc = "dhcp"
  /\ pc' = "ip6"
  /\ dhcp' = IF config.manual_ip THEN "stopped"
             ELSE IF netif_up THEN "asking" ELSE "init"
  /\ addr' = config.manual_ip
  /\ UNCHANGED <<events, belated>> \/ (config.manual_ip /\ netif_up /\ Announcing("GOT_IP"))
  /\ UNCHANGED <<options, flags, machine, life, schedule, handling, driver, link,
                 netif_up>>

\* ... any of which may fail for good, as may the link-local address that follows.
ConnectFails ==
  /\ pc' = "idle"
  /\ Fails /\ failed' = TRUE
  /\ \/ pc = "dhcp" /\ dhcp' \in {dhcp, "stopped"} /\ addr' \in {addr, config.manual_ip}
     \/ pc = "ip6" /\ UNCHANGED <<dhcp, addr>>
  /\ UNCHANGED <<config, flaps, toggles, ip6s, flags, machine, disabled_,
                 ethernet_initialized_, phy_, schedule, handling, events, driver, link,
                 netif_up, belated>>

\* The link-local address: a failure is not fatal, and connect_begin_ is set again.
ConnectIp6 ==
  /\ pc = "ip6"
  /\ pc' = "idle"
  /\ timed_out' = FALSE
  /\ UNCHANGED <<options, flags, state_, ipv6_setup_done_, life, schedule, handling,
                 events, outside>>

-----------------------------------------------------------------------------
(***************************************************************************)
(* The event task: the interface's own handlers come first, then the       *)
(* component's, which sets the flags and then asks for the loop.           *)
(***************************************************************************)

Handling(e) ==
  /\ ~handling
  /\ events # << >> /\ Head(events) = e
  /\ UNCHANGED <<options, pc, machine, life, schedule, driver, link>>

\* Mutated form: the end of the driver is left to the loop.
Wakes_NotOnStop(e) == e \notin {"CONNECTED", "STOP"}
\* Mutated form: a lost link is left to the loop.
Wakes_NotOnLoss(e) == e \notin {"CONNECTED", "DISCONNECTED"}
\* The events after which the loop is asked for.
Wakes(e) == e # "CONNECTED"

Handled(e) == handling' = Wakes(e)
Taken == events' = Tail(events) /\ UNCHANGED belated

OnStart ==
  /\ Handling("START") /\ Handled("START") /\ Taken
  /\ started_' = TRUE
  /\ UNCHANGED <<connected_, got_ipv4_address_, ipv6_count_, netif_up, dhcp, addr>>

\* The interface goes down: the DHCP client waits for it to come up again.
NetifDown ==
  /\ netif_up' = FALSE
  /\ dhcp' = IF dhcp = "stopped" THEN dhcp ELSE "init"
  /\ addr' = (addr /\ config.manual_ip)

\* Mutated form: the end of the driver is not the end of the connection.
OnStop_KeepsConnected ==
  /\ Handling("STOP") /\ Handled("STOP") /\ Taken
  /\ started_' = FALSE
  /\ NetifDown
  /\ UNCHANGED <<connected_, got_ipv4_address_, ipv6_count_>>

OnStop ==
  /\ Handling("STOP") /\ Handled("STOP") /\ Taken
  /\ started_' = FALSE /\ connected_' = FALSE
  /\ NetifDown
  /\ UNCHANGED <<got_ipv4_address_, ipv6_count_>>

\* The interface comes up; with a static address it may announce that.
OnConnected ==
  /\ Handling("CONNECTED") /\ Handled("CONNECTED")
  /\ \/ Taken
     \/ /\ config.manual_ip /\ addr
        /\ events' = Append(Tail(events), "GOT_IP") /\ belated' = ~link
  /\ netif_up' = TRUE
  /\ dhcp' = IF dhcp = "init" THEN "asking" ELSE dhcp
  /\ UNCHANGED <<flags, addr>>

OnDisconnected ==
  /\ Handling("DISCONNECTED") /\ Handled("DISCONNECTED") /\ Taken
  /\ connected_' = FALSE
  /\ NetifDown
  /\ UNCHANGED <<started_, got_ipv4_address_, ipv6_count_>>

OnGotIp ==
  /\ Handling("GOT_IP") /\ Handled("GOT_IP") /\ Taken
  /\ got_ipv4_address_' = TRUE
  /\ connected_' = (ipv6_count_ >= config.min_ipv6)
  /\ UNCHANGED <<started_, ipv6_count_, netif_up, dhcp, addr>>

\* Mutated form: the counter never wraps.
Counted_Wide(n) == n + 1
Counted(n) == (n + 1) % COUNT_MOD

OnGotIp6 ==
  /\ Handling("GOT_IP6") /\ Handled("GOT_IP6") /\ Taken
  /\ ipv6_count_' = Counted(ipv6_count_)
  /\ connected_' = (got_ipv4_address_ /\ ipv6_count_' >= config.min_ipv6)
  /\ UNCHANGED <<started_, got_ipv4_address_, netif_up, dhcp, addr>>

\* enable_loop_soon_any_context()
AskForLoop ==
  /\ handling
  /\ handling' = FALSE /\ pending' = TRUE
  /\ UNCHANGED <<options, pc, flags, machine, life, loop_on, events, outside>>

-----------------------------------------------------------------------------
(***************************************************************************)
(* The outside world.                                                      *)
(***************************************************************************)

Inside == <<config, toggles, fails, pc, flags, state_, ipv6_setup_done_, life,
            schedule, handling, driver>>

LinkUp ==
  /\ driver /\ ~link /\ link' = TRUE /\ belated' = FALSE
  /\ Posting(<<"CONNECTED">>)
  /\ UNCHANGED <<Inside, flaps, ip6s, timed_out, netif_up, dhcp, addr>>

LinkDown ==
  /\ link /\ flaps < MaxFlaps
  /\ link' = FALSE /\ flaps' = flaps + 1
  /\ Posting(<<"DISCONNECTED">>)
  /\ UNCHANGED <<Inside, ip6s, timed_out, netif_up, dhcp, addr, belated>>

\* The answer of a DHCP server reaches the client.  lwIP's own thread handles it,
\* while the interface is up: until the event task has handled the end of the link.
Lease ==
  /\ netif_up /\ dhcp = "asking"
  /\ dhcp' = "bound" /\ addr' = TRUE
  /\ Announcing("GOT_IP")
  /\ UNCHANGED <<Inside, flaps, ip6s, timed_out, link, netif_up>>

\* An IPv6 address is ready to use, which is a matter of lwIP's timers.
Announce6 ==
  /\ netif_up /\ ip6s < MaxIp6
  /\ ip6s' = ip6s + 1
  /\ Announcing("GOT_IP6")
  /\ UNCHANGED <<Inside, flaps, timed_out, link, netif_up, dhcp, addr>>

\* 15 s pass without a connection.
Elapse ==
  /\ state_ = "CONNECTING" /\ ~timed_out
  /\ timed_out' = TRUE
  /\ UNCHANGED <<Inside, flaps, ip6s, link, netif_up, dhcp, addr, belated, events>>

-----------------------------------------------------------------------------
StartConnect == ConnectClear \/ ConnectDhcp \/ ConnectFails \/ ConnectIp6

Loop ==
  \/ LoopStopped \/ LoopStarts \/ LoopStarted
  \/ LoopConnected \/ LoopWaits \/ LoopLost \/ LoopStable
  \/ FinishConnect \/ StartConnect

EventTask ==
  \/ OnStart \/ OnStop \/ OnConnected \/ OnDisconnected
  \/ OnGotIp \/ OnGotIp6
  \/ AskForLoop

Calls ==
  \/ Setup \/ SetupDisabled
  \/ Enable \/ EnableFails \/ Disable \/ DisableAnyway
  \/ Powerdown

Outside == LinkUp \/ LinkDown \/ Lease \/ Announce6 \/ Elapse

Next == Calls \/ EnablePendingLoop \/ Loop \/ EventTask \/ Outside

Spec == Init /\ [][Next]_vars

\* The main loop goes on and does not get stuck on a failing call, the event
\* task is scheduled, and over a link a DHCP server answers a client that keeps
\* asking.
FairSpec ==
  /\ Spec
  /\ WF_vars(EnablePendingLoop) /\ WF_vars(Loop)
  /\ WF_vars(EventTask) /\ WF_vars(link /\ Lease)

-----------------------------------------------------------------------------
(***************************************************************************)
(* Properties.                                                             *)
(***************************************************************************)

FlagsOK    == started_ \in BOOLEAN /\ connected_ \in BOOLEAN /\ got_ipv4_address_ \in BOOLEAN
MachineOK  == ipv6_setup_done_ \in BOOLEAN /\ timed_out \in BOOLEAN
LifeOK     == /\ disabled_ \in BOOLEAN /\ ethernet_initialized_ \in BOOLEAN
              /\ phy_ \in BOOLEAN /\ failed \in BOOLEAN
ScheduleOK == loop_on \in BOOLEAN /\ pending \in BOOLEAN /\ handling \in BOOLEAN
OutsideOK  == /\ driver \in BOOLEAN /\ link \in BOOLEAN /\ netif_up \in BOOLEAN
              /\ addr \in BOOLEAN /\ belated \in BOOLEAN
SwitchesOK == FlagsOK /\ MachineOK /\ LifeOK /\ ScheduleOK /\ OutsideOK

PlacesOK ==
  /\ config \in Configs
  /\ pc \in {"setup", "idle", "started", "clear", "dhcp", "ip6", "finish", "off"}
  /\ state_ \in {"STOPPED", "CONNECTING", "CONNECTED"}
  /\ dhcp \in {"stopped", "init", "asking", "bound"}
  /\ events \in Seq(Event)

CountsOK ==
  /\ ipv6_count_ \in 0 .. COUNT_MOD - 1
  /\ flaps \in 0 .. MaxFlaps /\ toggles \in 0 .. MaxToggles
  /\ fails \in 0 .. MaxFails /\ ip6s \in 0 .. MaxIp6

\* Types of all variables.
TypeOK == SwitchesOK /\ PlacesOK /\ CountsOK

\* "When connected and stable, disable the loop": the loop is off, and nobody
\* has asked or is about to ask for it, only while there is nothing for it to do.
\* A flag that changed between the loop's reads and disable_loop() is not lost.
SleepsOnlyWhenSettled ==
  ~loop_on /\ ~pending /\ ~handling /\ pc # "off" =>
    state_ = "CONNECTED" /\ started_ /\ connected_

\* Once the event task is up to date, a connection has a link under it, however
\* often the link and the driver went down and up in the meantime; unless an
\* address was announced since the link was lost.  Such an address waits behind the
\* event that ends the connection, the handlers of addresses do not look at the
\* link, and the connection they set lasts until the next link is lost.
ConnectionHasLink ==
  events = << >> /\ ~handling /\ connected_ => (driver /\ link) \/ belated

\* Over a link that lasts, with DHCP and no IPv6 address to wait for, the
\* connection ends up established and with an address, although start_connect_()
\* may throw away the address of an event that came too early.
Settles ==
  /\ ~config.manual_ip /\ config.min_ipv6 = 0
  /\ <>[](link /\ ~failed /\ pc # "off")
  => <>[](state_ = "CONNECTED" /\ addr)

\* A driver that was stopped takes the state machine with it.
StopIsNoticed ==
  <>[](~driver /\ ~failed /\ pc # "off") => <>[](state_ = "STOPPED")
=============================================================================
