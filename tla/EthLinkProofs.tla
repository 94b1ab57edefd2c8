---------------------------- MODULE EthLinkProofs ----------------------------
(***************************************************************************)
(* What the Ethernet component guarantees for any options and any number   *)
(* of events, calls and failures.  EthLink: its types, that a component    *)
(* whose loop is off has nothing to do, and that a connection has a link.  *)
(* Jl1101: the driver knows the link.  EthPoll: the polled connection      *)
(* follows the interface.                                                  *)
(***************************************************************************)
EXTENDS EthLink, Jl1101, EthPoll, TLAPS

USE LinkAssumption DEF LinkAssumption

-----------------------------------------------------------------------------
(***************************************************************************)
(* Types.                                                                  *)
(***************************************************************************)

\* The words that are posted are sequences of events.
LEMMA PostedType ==
  /\ <<"START">> \in Seq(Event) /\ <<"STOP">> \in Seq(Event)
  /\ <<"DISCONNECTED", "STOP">> \in Seq(Event)
  /\ <<"CONNECTED">> \in Seq(Event) /\ <<"DISCONNECTED">> \in Seq(Event)
  /\ <<"GOT_IP">> \in Seq(Event) /\ <<"GOT_IP6">> \in Seq(Event)
  BY DEF Event

\* A queue of events stays one.
LEMMA PostingType ==
  ASSUME events \in Seq(Event), NEW es \in Seq(Event), Posting(es)
  PROVE  events' \in Seq(Event)
  BY DEF Posting

LEMMA TakenType ==
  ASSUME events \in Seq(Event), NEW e, Handling(e), Taken
  PROVE  events' \in Seq(Event)
  BY DEF Handling, Taken

\* The steps of the loop and the calls, for splitting cases.
LEMMA NextCases ==
  ASSUME Next
  PROVE  \/ Calls \/ EnablePendingLoop
         \/ LoopStopped \/ LoopStarts \/ LoopStarted
         \/ LoopConnected \/ LoopWaits \/ LoopLost \/ LoopStable
         \/ FinishConnect
         \/ ConnectClear \/ ConnectDhcp \/ ConnectFails \/ ConnectIp6
         \/ EventTask \/ Outside
  BY DEF Next, Loop, StartConnect

\* A group of switches that a step leaves alone stays in its type.
LEMMA FlagsKept == FlagsOK /\ UNCHANGED flags => FlagsOK'
  BY DEF FlagsOK, flags
LEMMA MachineKept == MachineOK /\ UNCHANGED <<ipv6_setup_done_, timed_out>> => MachineOK'
  BY DEF MachineOK
LEMMA LifeKept == LifeOK /\ UNCHANGED life => LifeOK'
  BY DEF LifeOK, life
LEMMA ScheduleKept == ScheduleOK /\ UNCHANGED <<schedule, handling>> => ScheduleOK'
  BY DEF ScheduleOK, schedule
LEMMA OutsideKept ==
  /\ OutsideOK /\ UNCHANGED <<driver, link, netif_up, addr, belated>> => OutsideOK'
  /\ UNCHANGED outside => UNCHANGED <<driver, link, netif_up, addr, belated>>
  BY DEF OutsideOK, outside
LEMMA MachineTuple == UNCHANGED machine => UNCHANGED <<ipv6_setup_done_, timed_out>>
  BY DEF machine

\* Calls keep the switches.
LEMMA SwitchesCalls == TypeOK /\ Calls => SwitchesOK'
<1> SUFFICES ASSUME TypeOK, Calls PROVE SwitchesOK'
  OBVIOUS
<1> USE FlagsKept, MachineKept, ScheduleKept, OutsideKept, MachineTuple
<1>1. FlagsOK /\ MachineOK /\ LifeOK /\ ScheduleOK /\ OutsideOK
  BY DEF TypeOK, SwitchesOK
<1>2. ASSUME LazyInit
      PROVE  phy_' \in BOOLEAN /\ ethernet_initialized_' \in BOOLEAN /\ failed' \in BOOLEAN
  BY <1>1, <1>2 DEF LazyInit, CreatePhy, AttachDriver, LifeOK
<1>3. CASE Setup
  <2>1. /\ phy_' \in BOOLEAN /\ ethernet_initialized_' \in BOOLEAN /\ failed' \in BOOLEAN
        /\ disabled_' = disabled_
    BY <1>2, <1>3 DEF Setup, AttachDriver
  <2>2. LifeOK' BY <1>1, <2>1 DEF LifeOK
  <2>3. driver' \in BOOLEAN BY <1>1, <1>3 DEF Setup, EthStart, NoStart, OutsideOK
  <2>4. OutsideOK' BY <1>1, <1>3, <2>3 DEF Setup, OutsideOK
  <2>5. FlagsOK' /\ MachineOK' /\ ScheduleOK' BY <1>1, <1>3 DEF Setup
  <2> QED BY <2>2, <2>4, <2>5 DEF SwitchesOK
<1>4. CASE SetupDisabled
  <2>1. LifeOK' BY <1>1, <1>4 DEF SetupDisabled, LifeOK
  <2>2. FlagsOK' /\ MachineOK' /\ ScheduleOK' /\ OutsideOK'
    BY <1>1, <1>4 DEF SetupDisabled
  <2> QED BY <2>1, <2>2 DEF SwitchesOK
<1>5. CASE Enable
  <2>1. LifeOK' BY <1>1, <1>2, <1>5 DEF Enable, LifeOK
  <2>2. ScheduleOK' BY <1>1, <1>5 DEF Enable, ScheduleOK
  <2>3. OutsideOK' BY <1>1, <1>5 DEF Enable, EthStart, OutsideOK
  <2>4. FlagsOK' /\ MachineOK' BY <1>1, <1>5 DEF Enable
  <2> QED BY <2>1, <2>2, <2>3, <2>4 DEF SwitchesOK
<1>6. CASE EnableFails
  <2>1. /\ phy_' \in BOOLEAN /\ ethernet_initialized_' \in BOOLEAN /\ failed' \in BOOLEAN
        /\ disabled_' = disabled_
    BY <1>1, <1>2, <1>6 DEF EnableFails, AttachDriver, LifeOK
  <2>2. LifeOK' BY <1>1, <2>1 DEF LifeOK
  <2>3. FlagsOK' /\ MachineOK' /\ ScheduleOK' /\ OutsideOK'
    BY <1>1, <1>6 DEF EnableFails
  <2> QED BY <2>2, <2>3 DEF SwitchesOK
<1>7. CASE Disable
  <2>1. LifeOK' BY <1>1, <1>7 DEF Disable, LifeOK
  <2>2. OutsideOK' BY <1>1, <1>7 DEF Disable, OutsideOK
  <2>3. FlagsOK' /\ MachineOK' /\ ScheduleOK' BY <1>1, <1>7 DEF Disable
  <2> QED BY <2>1, <2>2, <2>3 DEF SwitchesOK
<1>8. CASE DisableAnyway
  <2>1. LifeOK' BY <1>1, <1>8 DEF DisableAnyway, LifeOK
  <2>2. FlagsOK' /\ MachineOK' /\ ScheduleOK' /\ OutsideOK'
    BY <1>1, <1>8 DEF DisableAnyway
  <2> QED BY <2>1, <2>2 DEF SwitchesOK
<1>9. CASE Powerdown
  <2>1. FlagsOK' BY <1>1, <1>9 DEF Powerdown, FlagsOK
  <2>2. MachineOK' /\ LifeOK' /\ ScheduleOK' /\ OutsideOK'
    BY <1>1, <1>9, LifeKept DEF Powerdown
  <2> QED BY <2>1, <2>2 DEF SwitchesOK
<1> QED BY <1>3, <1>4, <1>5, <1>6, <1>7, <1>8, <1>9 DEF Calls

\* The loop keeps the switches.
LEMMA SwitchesLoop == TypeOK /\ (EnablePendingLoop \/ Loop) => SwitchesOK'
<1> SUFFICES ASSUME TypeOK, EnablePendingLoop \/ Loop PROVE SwitchesOK'
  OBVIOUS
<1> USE FlagsKept, MachineKept, LifeKept, ScheduleKept, OutsideKept, MachineTuple
<1>1. FlagsOK /\ MachineOK /\ LifeOK /\ ScheduleOK /\ OutsideOK
  BY DEF TypeOK, SwitchesOK
<1>2. config.manual_ip \in BOOLEAN BY DEF TypeOK, PlacesOK, Config
<1>3. CASE EnablePendingLoop
  <2>1. ScheduleOK' BY <1>1, <1>3 DEF EnablePendingLoop, ScheduleOK
  <2>2. FlagsOK' /\ MachineOK' /\ LifeOK' /\ OutsideOK'
    BY <1>1, <1>3 DEF EnablePendingLoop
  <2> QED BY <2>1, <2>2 DEF SwitchesOK
<1>4. CASE \/ LoopStopped \/ LoopStarts \/ LoopStarted
           \/ LoopConnected \/ LoopWaits \/ LoopLost \/ LoopStable
  <2>1. UNCHANGED <<flags, ipv6_setup_done_, timed_out, life, schedule, handling, outside>>
    BY <1>4 DEF LoopStopped, LoopStarts, LoopStarted, LoopConnected, LoopWaits,
                LoopLost, LoopStable, Goto
  <2> QED BY <1>1, <2>1 DEF SwitchesOK
<1>5. CASE FinishConnect
  <2>1. MachineOK' BY <1>1, <1>5 DEF FinishConnect, MachineOK
  <2>2. ScheduleOK' BY <1>1, <1>5 DEF FinishConnect, ScheduleOK
  <2>3. FlagsOK' /\ LifeOK' /\ OutsideOK' BY <1>1, <1>5 DEF FinishConnect
  <2> QED BY <2>1, <2>2, <2>3 DEF SwitchesOK
<1>6. CASE ConnectClear
  <2>1. FlagsOK' BY <1>1, <1>6 DEF ConnectClear, FlagsOK
  <2>2. MachineOK' BY <1>6 DEF ConnectClear, MachineOK
  <2>3. LifeOK' /\ ScheduleOK' /\ OutsideOK' BY <1>1, <1>6 DEF ConnectClear
  <2> QED BY <2>1, <2>2, <2>3 DEF SwitchesOK
<1>7. CASE ConnectDhcp
  <2>1. OutsideOK' BY <1>1, <1>2, <1>7 DEF ConnectDhcp, Announcing, OutsideOK
  <2>2. FlagsOK' /\ MachineOK' /\ LifeOK' /\ ScheduleOK' BY <1>1, <1>7 DEF ConnectDhcp
  <2> QED BY <2>1, <2>2 DEF SwitchesOK
<1>8. CASE ConnectFails
  <2>1. addr' \in BOOLEAN BY <1>1, <1>2, <1>8 DEF ConnectFails, OutsideOK
  <2>2. OutsideOK' BY <1>1, <1>8, <2>1 DEF ConnectFails, OutsideOK
  <2>3. LifeOK' BY <1>1, <1>8 DEF ConnectFails, LifeOK
  <2>4. FlagsOK' /\ MachineOK' /\ ScheduleOK' BY <1>1, <1>8 DEF ConnectFails
  <2> QED BY <2>2, <2>3, <2>4 DEF SwitchesOK
<1>9. CASE ConnectIp6
  <2>1. MachineOK' BY <1>1, <1>9 DEF ConnectIp6, MachineOK
  <2>2. FlagsOK' /\ LifeOK' /\ ScheduleOK' /\ OutsideOK' BY <1>1, <1>9 DEF ConnectIp6
  <2> QED BY <2>1, <2>2 DEF SwitchesOK
<1> QED BY <1>3, <1>4, <1>5, <1>6, <1>7, <1>8, <1>9 DEF Loop, StartConnect

\* The event task and the outside world keep the switches.
LEMMA SwitchesOthers == TypeOK /\ (EventTask \/ Outside) => SwitchesOK'
<1> SUFFICES ASSUME TypeOK, EventTask \/ Outside PROVE SwitchesOK'
  OBVIOUS
<1> USE FlagsKept, MachineKept, LifeKept, ScheduleKept, OutsideKept, MachineTuple
<1>1. FlagsOK /\ MachineOK /\ LifeOK /\ ScheduleOK /\ OutsideOK
  BY DEF TypeOK, SwitchesOK
<1>2. config.manual_ip \in BOOLEAN BY DEF TypeOK, PlacesOK, Config
<1>3. CASE OnStart \/ OnStop \/ OnConnected \/ OnDisconnected \/ OnGotIp \/ OnGotIp6
  <2>1. \E e : Handling(e) /\ Handled(e)
    BY <1>3 DEF OnStart, OnStop, OnConnected, OnDisconnected, OnGotIp, OnGotIp6
  <2>2. UNCHANGED <<machine, life, schedule, driver, link>> /\ handling' \in BOOLEAN
    BY <2>1 DEF Handling, Handled, Wakes
  <2>3. MachineOK' /\ LifeOK' BY <1>1, <2>2
  <2>4. ScheduleOK' BY <1>1, <2>2 DEF ScheduleOK, schedule
  <2>5. addr' \in BOOLEAN /\ netif_up' \in BOOLEAN /\ belated' \in BOOLEAN
    BY <1>1, <1>2, <1>3 DEF OnStart, OnStop, OnConnected, OnDisconnected, OnGotIp,
       OnGotIp6, NetifDown, Taken, OutsideOK
  <2>6. OutsideOK' BY <1>1, <2>2, <2>5 DEF OutsideOK
  <2>7. FlagsOK'
    <3>1. CASE OnStart \/ OnStop \/ OnDisconnected
      BY <1>1, <3>1 DEF OnStart, OnStop, OnDisconnected, FlagsOK
    <3>2. CASE OnConnected BY <1>1, <3>2 DEF OnConnected
    <3>3. CASE OnGotIp
      <4>1. connected_' \in BOOLEAN BY <3>3 DEF OnGotIp
      <4> QED BY <1>1, <3>3, <4>1 DEF OnGotIp, FlagsOK
    <3>4. CASE OnGotIp6
      <4>1. connected_' \in BOOLEAN BY <3>4 DEF OnGotIp6
      <4>2. UNCHANGED <<started_, got_ipv4_address_>> BY <3>4 DEF OnGotIp6
      <4> QED BY <1>1, <4>1, <4>2 DEF FlagsOK
    <3> QED BY <1>3, <3>1, <3>2, <3>3, <3>4
  <2> QED BY <2>3, <2>4, <2>6, <2>7 DEF SwitchesOK
<1>4. CASE AskForLoop
  <2>1. ScheduleOK' BY <1>1, <1>4 DEF AskForLoop, ScheduleOK
  <2>2. FlagsOK' /\ MachineOK' /\ LifeOK' /\ OutsideOK' BY <1>1, <1>4 DEF AskForLoop
  <2> QED BY <2>1, <2>2 DEF SwitchesOK
<1>5. CASE Outside
  <2>1. UNCHANGED <<flags, ipv6_setup_done_, life, schedule, handling, driver>>
    BY <1>5 DEF Outside, LinkUp, LinkDown, Lease, Announce6, Elapse, Inside, flags
  <2>2. timed_out' \in BOOLEAN /\ link' \in BOOLEAN /\ addr' \in BOOLEAN
        /\ belated' \in BOOLEAN /\ netif_up' = netif_up
    BY <1>1, <1>5
       DEF Outside, LinkUp, LinkDown, Lease, Announce6, Elapse, Announcing, MachineOK,
           OutsideOK
  <2>3. FlagsOK' /\ LifeOK' /\ ScheduleOK' BY <1>1, <2>1
  <2>4. MachineOK' BY <1>1, <2>1, <2>2 DEF MachineOK
  <2>5. OutsideOK' BY <1>1, <2>1, <2>2 DEF OutsideOK
  <2> QED BY <2>3, <2>4, <2>5 DEF SwitchesOK
<1> QED BY <1>3, <1>4, <1>5 DEF EventTask

\* Program counter, states and event queue stay within their sets.
LEMMA PlacesStep == TypeOK /\ Next => PlacesOK'
<1> SUFFICES ASSUME TypeOK, Next PROVE PlacesOK'
  OBVIOUS
<1> USE DEF options, flags, machine, life, schedule, outside, PlacesOK
<1>1. PlacesOK BY DEF TypeOK
<1>2. CASE Setup
  <2>1. events' \in Seq(Event)
    BY <1>1, <1>2, PostingType, PostedType DEF Setup, EthStart, NoStart
  <2>2. pc' = "idle" /\ UNCHANGED <<config, state_, dhcp>> BY <1>2 DEF Setup
  <2> QED BY <1>1, <2>1, <2>2
<1>3. CASE SetupDisabled \/ Powerdown BY <1>1, <1>3 DEF SetupDisabled, Powerdown
<1>4. CASE Enable
  <2>1. events' \in Seq(Event)
    BY <1>1, <1>4, PostingType, PostedType DEF Enable, EthStart
  <2>2. UNCHANGED <<config, pc, state_, dhcp>> BY <1>4 DEF Enable
  <2> QED BY <1>1, <2>1, <2>2
<1>5. CASE EnableFails \/ DisableAnyway
  <2>1. UNCHANGED <<config, pc, state_, dhcp, events>>
    BY <1>5 DEF EnableFails, DisableAnyway
  <2> QED BY <1>1, <2>1
<1>6. CASE Disable
  <2>1. events' \in Seq(Event) BY <1>1, <1>6, PostingType, PostedType DEF Disable
  <2>2. UNCHANGED <<config, pc, state_, dhcp>> BY <1>6 DEF Disable
  <2> QED BY <1>1, <2>1, <2>2
<1>7. CASE \/ EnablePendingLoop \/ FinishConnect
           \/ ConnectClear \/ ConnectDhcp \/ ConnectFails \/ ConnectIp6
  <2>1. pc' \in {"idle", "dhcp", "ip6"} /\ UNCHANGED <<config, state_>>
    BY <1>7 DEF EnablePendingLoop, FinishConnect, ConnectClear, ConnectDhcp,
                ConnectFails, ConnectIp6
  <2>2. dhcp' \in {"stopped", "init", "asking", "bound"}
    BY <1>1, <1>7 DEF EnablePendingLoop, FinishConnect, ConnectClear, ConnectDhcp,
                      ConnectFails, ConnectIp6
  <2>3. events' \in Seq(Event)
    <3>1. CASE ConnectDhcp
      BY <1>1, <3>1, PostingType, PostedType DEF ConnectDhcp, Announcing
    <3>2. CASE ~ConnectDhcp
      BY <1>1, <1>7, <3>2 DEF EnablePendingLoop, FinishConnect, ConnectClear,
                              ConnectFails, ConnectIp6
    <3> QED BY <3>1, <3>2
  <2> QED BY <1>1, <2>1, <2>2, <2>3
<1>8. CASE \/ LoopStopped \/ LoopStarts \/ LoopStarted
           \/ LoopConnected \/ LoopWaits \/ LoopLost \/ LoopStable
  BY <1>1, <1>8 DEF LoopStopped, LoopStarts, LoopStarted, LoopConnected, LoopWaits,
                    LoopLost, LoopStable, Goto
<1>9. CASE OnStart \/ OnStop \/ OnDisconnected \/ OnGotIp \/ OnGotIp6
  <2>1. events' \in Seq(Event)
    BY <1>1, <1>9, TakenType DEF OnStart, OnStop, OnDisconnected, OnGotIp, OnGotIp6
  <2>2. UNCHANGED <<config, pc, state_>> /\ dhcp' \in {dhcp, "init"}
    BY <1>9 DEF OnStart, OnStop, OnDisconnected, OnGotIp, OnGotIp6, Handling, NetifDown
  <2> QED BY <1>1, <2>1, <2>2
<1>10. CASE OnConnected
  <2>1. Tail(events) \in Seq(Event) BY <1>1, <1>10 DEF OnConnected, Handling
  <2>2. "GOT_IP" \in Event BY DEF Event
  <2>3. Append(Tail(events), "GOT_IP") \in Seq(Event) BY <2>1, <2>2
  <2>4. events' \in Seq(Event) BY <1>10, <2>1, <2>3 DEF OnConnected, Taken
  <2>5. UNCHANGED <<config, pc, state_>> /\ dhcp' \in {dhcp, "asking"}
    BY <1>10 DEF OnConnected, Handling
  <2> QED BY <1>1, <2>4, <2>5
<1>11. CASE AskForLoop BY <1>1, <1>11 DEF AskForLoop
<1>12. CASE LinkUp \/ LinkDown \/ Lease \/ Announce6
  <2>1. events' \in Seq(Event)
    BY <1>1, <1>12, PostingType, PostedType
    DEF LinkUp, LinkDown, Lease, Announce6, Announcing
  <2>2. UNCHANGED <<config, pc, state_>> /\ dhcp' \in {dhcp, "bound"}
    BY <1>12 DEF LinkUp, LinkDown, Lease, Announce6, Inside
  <2> QED BY <1>1, <2>1, <2>2
<1>13. CASE Elapse BY <1>1, <1>13 DEF Elapse, Inside
<1> QED
  BY <1>2, <1>3, <1>4, <1>5, <1>6, <1>7, <1>8, <1>9, <1>10, <1>11, <1>12, <1>13,
     NextCases DEF Calls, EventTask, Outside

\* The bounds hold, and the IPv6 address count stays within its width.
LEMMA CountsStep == TypeOK /\ Next => CountsOK'
<1> SUFFICES ASSUME TypeOK, Next PROVE CountsOK'
  OBVIOUS
<1> USE DEF options, flags, machine, life, schedule, outside, CountsOK
<1>1. CountsOK BY DEF TypeOK
<1>2. CASE Setup
  <2>1. fails' \in {fails, fails + 1} /\ fails' <= MaxFails
    BY <1>1, <1>2 DEF Setup, LazyInit, Fails, Works
  <2>2. UNCHANGED <<ipv6_count_, flaps, toggles, ip6s>> BY <1>2 DEF Setup
  <2> QED BY <1>1, <2>1, <2>2
<1>3. CASE SetupDisabled \/ Powerdown BY <1>1, <1>3 DEF SetupDisabled, Powerdown
<1>4. CASE Enable \/ EnableFails \/ Disable \/ DisableAnyway
  <2>1. fails' \in {fails, fails + 1} /\ fails' <= MaxFails
    BY <1>1, <1>4
       DEF Enable, EnableFails, Disable, DisableAnyway, LazyInit, Fails, Works
  <2>2. toggles < MaxToggles /\ toggles' = toggles + 1
    BY <1>4 DEF Enable, EnableFails, Disable, DisableAnyway, Toggle
  <2>3. UNCHANGED <<ipv6_count_, flaps, ip6s>>
    BY <1>4 DEF Enable, EnableFails, Disable, DisableAnyway
  <2> QED BY <1>1, <2>1, <2>2, <2>3
<1>5. CASE ConnectFails
  <2>1. fails < MaxFails /\ fails' = fails + 1 BY <1>5 DEF ConnectFails, Fails
  <2>2. UNCHANGED <<ipv6_count_, flaps, toggles, ip6s>> BY <1>5 DEF ConnectFails
  <2> QED BY <1>1, <2>1, <2>2
<1>6. CASE ConnectClear
  <2>1. ipv6_count_' = 0 /\ UNCHANGED <<flaps, toggles, fails, ip6s>>
    BY <1>6 DEF ConnectClear
  <2> QED BY <1>1, <2>1
<1>7. CASE \/ EnablePendingLoop \/ FinishConnect \/ ConnectDhcp \/ ConnectIp6
           \/ LoopStopped \/ LoopStarts \/ LoopStarted
           \/ LoopConnected \/ LoopWaits \/ LoopLost \/ LoopStable
  <2>1. UNCHANGED <<ipv6_count_, flaps, toggles, fails, ip6s>>
    BY <1>7 DEF EnablePendingLoop, FinishConnect, ConnectDhcp, ConnectIp6, LoopStopped,
                LoopStarts, LoopStarted, LoopConnected, LoopWaits, LoopLost, LoopStable,
                Goto
  <2> QED BY <1>1, <2>1
<1>8. CASE \/ OnStart \/ OnStop \/ OnConnected \/ OnDisconnected \/ OnGotIp
           \/ AskForLoop
  <2>1. UNCHANGED <<ipv6_count_, flaps, toggles, fails, ip6s>>
    BY <1>8 DEF OnStart, OnStop, OnConnected, OnDisconnected, OnGotIp, AskForLoop,
                Handling
  <2> QED BY <1>1, <2>1
<1>9. CASE OnGotIp6
  <2>1. ipv6_count_' = (ipv6_count_ + 1) % COUNT_MOD BY <1>9 DEF OnGotIp6, Counted
  <2>2. UNCHANGED <<flaps, toggles, fails, ip6s>> BY <1>9 DEF OnGotIp6, Handling
  <2> QED BY <1>1, <2>1, <2>2
<1>10. CASE Outside
  <2>1. UNCHANGED <<ipv6_count_, toggles, fails>>
    BY <1>10 DEF Outside, LinkUp, LinkDown, Lease, Announce6, Elapse, Inside
  <2>2. flaps' = flaps \/ (flaps < MaxFlaps /\ flaps' = flaps + 1)
    <3>1. CASE LinkDown BY <3>1 DEF LinkDown
    <3>2. CASE LinkUp \/ Lease \/ Announce6 \/ Elapse
      BY <3>2 DEF LinkUp, Lease, Announce6, Elapse
    <3> QED BY <1>10, <3>1, <3>2 DEF Outside
  <2>3. ip6s' = ip6s \/ (ip6s < MaxIp6 /\ ip6s' = ip6s + 1)
    <3>1. CASE Announce6 BY <3>1 DEF Announce6
    <3>2. CASE LinkUp \/ LinkDown \/ Lease \/ Elapse
      BY <3>2 DEF LinkUp, LinkDown, Lease, Elapse
    <3> QED BY <1>10, <3>1, <3>2 DEF Outside
  <2> QED BY <1>1, <2>1, <2>2, <2>3
<1> QED
  BY <1>2, <1>3, <1>4, <1>5, <1>6, <1>7, <1>8, <1>9, <1>10, NextCases
  DEF Calls, EventTask

LEMMA TypeInit == Init => TypeOK
<1> SUFFICES ASSUME Init PROVE TypeOK
  OBVIOUS
<1>1. SwitchesOK
  BY DEF Init, SwitchesOK, FlagsOK, MachineOK, LifeOK, ScheduleOK, OutsideOK
<1>2. PlacesOK BY DEF Init, PlacesOK
<1>3. CountsOK BY DEF Init, CountsOK
<1> QED BY <1>1, <1>2, <1>3 DEF TypeOK

\* Every variable keeps its type; the IPv6 address count its eight bits.
THEOREM LinkTypeCorrect == Spec => []TypeOK
<1>1. TypeOK /\ UNCHANGED vars => TypeOK'
  <2> SUFFICES ASSUME TypeOK, UNCHANGED vars PROVE TypeOK'
    OBVIOUS
  <2>1. SwitchesOK'
    BY FlagsKept, MachineKept, MachineTuple, LifeKept, ScheduleKept, OutsideKept
    DEF TypeOK, SwitchesOK, vars
  <2>2. PlacesOK' BY DEF TypeOK, PlacesOK, vars, options, machine, outside
  <2>3. CountsOK' BY DEF TypeOK, CountsOK, vars, options, flags
  <2> QED BY <2>1, <2>2, <2>3 DEF TypeOK
<1>2. TypeOK /\ [Next]_vars => TypeOK'
  BY <1>1, SwitchesCalls, SwitchesLoop, SwitchesOthers, PlacesStep, CountsStep
  DEF TypeOK, Next
<1> QED BY TypeInit, <1>2, PTL DEF Spec

-----------------------------------------------------------------------------
(***************************************************************************)
(* The loop is never off when it is needed.                                *)
(***************************************************************************)

\* The loop will look at the flags again.
WillLook == pending \/ handling

\* What the loop read while it ran is still so, or it will look again.
LookInv ==
  /\ pc = "started" => started_ \/ WillLook
  /\ pc = "finish" => WillLook \/ (started_ /\ connected_)

\* The loop is on while it runs, and for finish_connect_() the state is CONNECTED.
LoopInv ==
  /\ pc \in {"setup", "started", "clear", "dhcp", "ip6", "finish"} => loop_on
  /\ pc = "finish" => state_ = "CONNECTED"

SleepInv == SleepsOnlyWhenSettled /\ LookInv /\ LoopInv

\* Every event that lowers a flag is followed by a request for the loop.
LEMMA EventsWake ==
  ASSUME OnStart \/ OnStop \/ OnConnected \/ OnDisconnected \/ OnGotIp \/ OnGotIp6
  PROVE  /\ handling' \/ (~handling /\ UNCHANGED <<started_, connected_>>)
         /\ UNCHANGED <<pc, state_, loop_on, pending>>
<1>1. PICK e : Handling(e) /\ Handled(e)
  BY DEF OnStart, OnStop, OnConnected, OnDisconnected, OnGotIp, OnGotIp6
<1>2. UNCHANGED <<pc, machine, schedule>> BY <1>1 DEF Handling
<1>3. UNCHANGED <<pc, state_, loop_on, pending>> BY <1>2 DEF machine, schedule
<1>4. CASE OnConnected
  <2>1. ~handling /\ UNCHANGED flags BY <1>4 DEF OnConnected, Handling
  <2> QED BY <1>3, <2>1 DEF flags
<1>5. CASE OnStart \/ OnStop \/ OnDisconnected \/ OnGotIp \/ OnGotIp6
  <2>1. handling' BY <1>5 DEF OnStart, OnStop, OnDisconnected, OnGotIp, OnGotIp6, Handled, Wakes
  <2> QED BY <1>3, <2>1
<1> QED BY <1>3, <1>4, <1>5

LEMMA SleepStep == SleepInv /\ Next => SleepInv'
<1> SUFFICES ASSUME SleepInv, Next PROVE SleepInv'
  OBVIOUS
<1> USE DEF SleepInv, SleepsOnlyWhenSettled, LookInv, LoopInv, WillLook
<1> USE DEF options, flags, machine, life, schedule, outside
<1>1. CASE Setup \/ SetupDisabled
  BY <1>1 DEF Setup, SetupDisabled
<1>2. CASE Enable
  BY <1>2 DEF Enable, Toggle
<1>3. CASE EnableFails \/ Disable \/ DisableAnyway
  BY <1>3 DEF EnableFails, Disable, DisableAnyway, Toggle
<1>4. CASE Powerdown
  BY <1>4 DEF Powerdown
<1>5. CASE EnablePendingLoop
  BY <1>5 DEF EnablePendingLoop
<1>6. CASE LoopStopped \/ LoopStarts \/ LoopStarted
  BY <1>6 DEF LoopStopped, LoopStarts, LoopStarted, Goto, Running
<1>7. CASE LoopConnected \/ LoopWaits \/ LoopLost \/ LoopStable
  BY <1>7 DEF LoopConnected, LoopWaits, LoopLost, LoopStable, Goto
<1>8. CASE FinishConnect
  BY <1>8 DEF FinishConnect
<1>9. CASE StartConnect
  BY <1>9 DEF StartConnect, ConnectClear, ConnectDhcp, ConnectFails, ConnectIp6
<1>10. CASE OnStart \/ OnStop \/ OnConnected \/ OnDisconnected \/ OnGotIp \/ OnGotIp6
  BY <1>10, EventsWake
<1>11. CASE AskForLoop
  BY <1>11 DEF AskForLoop
<1>12. CASE Outside
  BY <1>12 DEF Outside, LinkUp, LinkDown, Lease, Announce6, Elapse, Inside
<1> QED
  BY <1>1, <1>2, <1>3, <1>4, <1>5, <1>6, <1>7, <1>8, <1>9, <1>10, <1>11, <1>12
  DEF Next, Calls, Loop, EventTask

\* The loop that switched itself off is on again, or about to be, whenever a
\* flag has changed, wherever in the loop the event task came in between.
THEOREM NeverSleepsThrough == Spec => []SleepsOnlyWhenSettled
<1>1. Init => SleepInv
  BY DEF Init, SleepInv, SleepsOnlyWhenSettled, LookInv, LoopInv
<1>2. SleepInv /\ UNCHANGED vars => SleepInv'
  BY DEF SleepInv, SleepsOnlyWhenSettled, LookInv, LoopInv, WillLook, vars, flags,
         machine, schedule
<1>3. SleepInv /\ [Next]_vars => SleepInv'
  BY <1>2, SleepStep
<1>4. SleepInv => SleepsOnlyWhenSettled
  BY DEF SleepInv
<1> QED BY <1>1, <1>3, <1>4, PTL DEF Spec

-----------------------------------------------------------------------------
(***************************************************************************)
(* A connection has a link under it.                                       *)
(***************************************************************************)

Downs == {"DISCONNECTED", "STOP"}
Ups   == {"GOT_IP", "GOT_IP6"}

\* An event that ends the connection waits behind place i of the queue.
DownAfter(i) == \E j \in 1 .. Len(events) : j > i /\ events[j] \in Downs

\* Without a link, and without an address announced since it was lost, whatever
\* says connected_, or is going to, has its end queued behind it.
Bare == ~link /\ ~belated

EndInv ==
  /\ link => driver
  /\ Bare /\ connected_ => DownAfter(0)
  /\ Bare => \A i \in 1 .. Len(events) : events[i] \in Ups => DownAfter(i)

\* Posting at the end leaves the order of what waits alone.
LEMMA PostedBehind ==
  ASSUME events \in Seq(Event), NEW es \in Seq(Event), Posting(es)
  PROVE  /\ Len(events') = Len(events) + Len(es)
         /\ \A i \in 1 .. Len(events) : events'[i] = events[i]
         /\ \A i \in 1 .. Len(es) : events'[Len(events) + i] = es[i]
  BY DEF Posting

\* Taking the first event moves the others up.
LEMMA TakenInFront ==
  ASSUME events \in Seq(Event), events # << >>, Taken
  PROVE  /\ Len(events) \in Nat \ {0}
         /\ Len(events') = Len(events) - 1
         /\ \A i \in 1 .. Len(events') : events'[i] = events[i + 1]
  BY DEF Taken

\* The queue is as long as it is.
LEMMA QueueLength == ASSUME events \in Seq(Event) PROVE Len(events) \in Nat
  OBVIOUS

\* An end that is posted is behind everything.
LEMMA EndPosted ==
  ASSUME events \in Seq(Event), NEW es \in Seq(Event), Posting(es),
         es # << >>, es[Len(es)] \in Downs, ~link'
  PROVE  EndInv'
<1>1. Len(es) \in Nat /\ Len(es) \in 1 .. Len(es) /\ Len(events) \in Nat
  OBVIOUS
<1>2. events'[Len(events) + Len(es)] \in Downs /\ Len(events') = Len(events) + Len(es)
  BY <1>1, PostedBehind
<1>3. \A i \in 0 .. Len(events') - 1 : DownAfter(i)'
  BY <1>1, <1>2 DEF DownAfter
<1>4. 0 \in 0 .. Len(events') - 1 BY <1>1, <1>2
<1>5. ASSUME NEW i \in 1 .. Len(events'), events'[i] \in Ups PROVE DownAfter(i)'
  <2>1. i # Len(events') BY <1>2, <1>5 DEF Downs, Ups
  <2>2. i \in 0 .. Len(events') - 1 BY <1>1, <1>2, <2>1
  <2> QED BY <1>3, <2>2
<1> QED BY <1>3, <1>4, <1>5 DEF EndInv

\* Nothing is posted or taken, and nothing says connected that did not.
LEMMA EndSame ==
  ASSUME EndInv, UNCHANGED <<events, link, driver, belated>>,
         ~connected_' \/ connected_' = connected_
  PROVE  EndInv'
  BY DEF EndInv, Bare, DownAfter

\* An address that is announced has a link, or is belated.
LEMMA EndAnnounced ==
  ASSUME EndInv, TypeOK, belated' = ~link, UNCHANGED <<link, driver>>
  PROVE  EndInv'
<1>1. link \in BOOLEAN BY DEF TypeOK, SwitchesOK, OutsideOK
<1>2. ~Bare' BY <1>1 DEF Bare
<1> QED BY <1>2 DEF EndInv

\* Posting something that does not say connected.
LEMMA EndKept ==
  ASSUME EndInv, events \in Seq(Event), NEW es \in Seq(Event), Posting(es),
         UNCHANGED <<link, belated, connected_>>, link => driver',
         \A i \in 1 .. Len(es) : es[i] \notin Ups
  PROVE  EndInv'
<1>1. Len(events) \in Nat /\ Len(es) \in Nat /\ Len(events') \in Nat
  BY PostingType, QueueLength
<1>2. \A i : DownAfter(i) => DownAfter(i)'
  BY <1>1, PostedBehind DEF DownAfter
<1>3. ASSUME Bare', NEW i \in 1 .. Len(events'), events'[i] \in Ups
      PROVE  DownAfter(i)'
  <2>1. CASE i \in 1 .. Len(events)
    BY <1>2, <1>3, <2>1, PostedBehind DEF EndInv, Bare
  <2>2. CASE i \notin 1 .. Len(events)
    <3>1. PICK k \in 1 .. Len(es) : i = Len(events) + k
      <4>1. i - Len(events) \in 1 .. Len(es) BY <1>1, <2>2, PostedBehind
      <4>2. i = Len(events) + (i - Len(events)) BY <1>1
      <4> QED BY <4>1, <4>2
    <3>2. events'[i] = es[k] BY <3>1, PostedBehind
    <3> QED BY <1>3, <3>1, <3>2
  <2> QED BY <2>1, <2>2
<1> QED BY <1>2, <1>3 DEF EndInv, Bare

\* Handling an event keeps the ends where they are.
LEMMA EndTaken ==
  ASSUME EndInv, events \in Seq(Event), events # << >>, Taken,
         UNCHANGED <<link, driver, belated>>,
         \/ ~connected_'
         \/ connected_' = connected_ /\ Head(events) \notin Downs
         \/ Head(events) \in Ups
  PROVE  EndInv'
<1>1. Len(events) \in Nat /\ Len(events') \in Nat
  BY TakenType, TakenInFront
<1>2. \A i \in 1 .. Len(events) : DownAfter(i) => DownAfter(i - 1)'
  <2> SUFFICES ASSUME NEW i \in 1 .. Len(events), DownAfter(i) PROVE DownAfter(i - 1)'
    OBVIOUS
  <2>1. PICK j \in 1 .. Len(events) : j > i /\ events[j] \in Downs BY DEF DownAfter
  <2>2. j - 1 \in 1 .. Len(events') /\ j - 1 > i - 1 BY <2>1, TakenInFront
  <2>3. events'[j - 1] = events[j] BY <2>1, <2>2, TakenInFront
  <2> QED BY <2>1, <2>2, <2>3 DEF DownAfter
<1>3. 1 \in 1 .. Len(events) /\ Head(events) = events[1]
  BY TakenInFront
<1>4. ASSUME Bare', connected_' PROVE DownAfter(0)'
  <2>1. DownAfter(1)
    <3>1. CASE Head(events) \in Ups BY <1>3, <1>4, <3>1 DEF EndInv, Bare
    <3>2. CASE connected_ /\ Head(events) \notin Downs
      <4>1. PICK j \in 1 .. Len(events) : j > 0 /\ events[j] \in Downs
        BY <1>4, <3>2 DEF EndInv, Bare, DownAfter
      <4>2. j # 1 BY <1>3, <3>2, <4>1
      <4> QED BY <4>1, <4>2 DEF DownAfter
    <3> QED BY <1>4, <3>1, <3>2
  <2> QED BY <1>2, <1>3, <2>1
<1>5. ASSUME Bare', NEW i \in 1 .. Len(events'), events'[i] \in Ups
      PROVE  DownAfter(i)'
  <2>1. i + 1 \in 1 .. Len(events) /\ events'[i] = events[i + 1]
    BY TakenInFront
  <2>2. DownAfter(i + 1) BY <1>5, <2>1 DEF EndInv, Bare
  <2>3. DownAfter(i + 1 - 1)' BY <1>2, <2>1, <2>2
  <2> QED BY <2>3
<1> QED BY <1>4, <1>5 DEF EndInv

\* The calls keep the order of ends.
LEMMA EndCalls == TypeOK /\ EndInv /\ Calls => EndInv'
<1> SUFFICES ASSUME TypeOK, EndInv, Calls PROVE EndInv'
  OBVIOUS
<1>1. events \in Seq(Event) BY DEF TypeOK, PlacesOK
<1>2. CASE Setup \/ Enable
  <2>1. UNCHANGED <<link, belated, connected_>> BY <1>2 DEF Setup, Enable, flags
  <2>2. CASE EthStart
    <3>1. driver' /\ Posting(<<"START">>) BY <2>2 DEF EthStart
    <3>2. \A i \in 1 .. Len(<<"START">>) : <<"START">>[i] \notin Ups BY DEF Ups
    <3> QED BY <1>1, <2>1, <3>1, <3>2, EndKept, PostedType
  <2>3. CASE NoStart
    BY <2>1, <2>3, EndSame DEF NoStart
  <2> QED BY <1>2, <2>2, <2>3 DEF Setup, Enable
<1>3. CASE SetupDisabled \/ EnableFails \/ DisableAnyway \/ Powerdown
  <2>1. UNCHANGED <<events, link, driver, belated>>
    BY <1>3 DEF SetupDisabled, EnableFails, DisableAnyway, Powerdown, outside
  <2>2. ~connected_' \/ connected_' = connected_
    BY <1>3 DEF SetupDisabled, EnableFails, DisableAnyway, Powerdown, flags
  <2> QED BY <2>1, <2>2, EndSame
<1>4. CASE Disable
  <2>1. Posting(<<"STOP">>) \/ Posting(<<"DISCONNECTED", "STOP">>)
    BY <1>4 DEF Disable
  <2>2. ~link' BY <1>4 DEF Disable
  <2>3. <<"STOP">>[Len(<<"STOP">>)] \in Downs
        /\ <<"DISCONNECTED", "STOP">>[Len(<<"DISCONNECTED", "STOP">>)] \in Downs
    BY DEF Downs
  <2> QED BY <1>1, <2>1, <2>2, <2>3, EndPosted, PostedType
<1> QED BY <1>2, <1>3, <1>4 DEF Calls

\* The event task keeps it: only GOT_IP and GOT_IP6 may raise connected_.
LEMMA EndEvents == TypeOK /\ EndInv /\ EventTask => EndInv'
<1> SUFFICES ASSUME TypeOK, EndInv, EventTask PROVE EndInv'
  OBVIOUS
<1>1. events \in Seq(Event) BY DEF TypeOK, PlacesOK
<1>2. CASE (OnStart \/ OnConnected) /\ Taken
  <2>1. events # << >> /\ Head(events) \notin Downs /\ UNCHANGED <<link, driver, belated>>
    BY <1>2 DEF OnStart, OnConnected, Handling, Downs, Taken
  <2>2. connected_' = connected_ BY <1>2 DEF OnStart, OnConnected, flags
  <2> QED BY <1>1, <1>2, <2>1, <2>2, EndTaken
<1>3. CASE OnConnected /\ ~Taken
  <2>1. belated' = ~link /\ UNCHANGED <<link, driver>>
    BY <1>3 DEF OnConnected, Handling
  <2> QED BY <2>1, EndAnnounced
<1>4. CASE OnStop \/ OnDisconnected
  <2>1. /\ events # << >> /\ ~connected_' /\ UNCHANGED <<link, driver, belated>>
        /\ Taken
    BY <1>4 DEF OnStop, OnDisconnected, Handling, Taken
  <2> QED BY <1>1, <2>1, EndTaken
<1>5. CASE OnGotIp \/ OnGotIp6
  <2>1. /\ events # << >> /\ Head(events) \in Ups /\ UNCHANGED <<link, driver, belated>>
        /\ Taken
    BY <1>5 DEF OnGotIp, OnGotIp6, Handling, Ups, Taken
  <2> QED BY <1>1, <2>1, EndTaken
<1>6. CASE AskForLoop
  BY <1>6, EndSame DEF AskForLoop, flags, outside
<1>7. OnStart => Taken BY DEF OnStart
<1> QED BY <1>2, <1>3, <1>4, <1>5, <1>6, <1>7 DEF EventTask

\* The outside world keeps it: an address without a link is belated.
LEMMA EndOutside == TypeOK /\ EndInv /\ Outside => EndInv'
<1> SUFFICES ASSUME TypeOK, EndInv, Outside PROVE EndInv'
  OBVIOUS
<1>1. events \in Seq(Event) BY DEF TypeOK, PlacesOK
<1>2. CASE LinkUp
  <2>1. link' /\ driver' BY <1>2 DEF LinkUp, Inside
  <2> QED BY <2>1 DEF EndInv, Bare
<1>3. CASE LinkDown
  <2>1. ~link' /\ Posting(<<"DISCONNECTED">>) BY <1>3 DEF LinkDown
  <2>2. <<"DISCONNECTED">>[Len(<<"DISCONNECTED">>)] \in Downs BY DEF Downs
  <2> QED BY <1>1, <2>1, <2>2, EndPosted, PostedType
<1>4. CASE Lease \/ Announce6
  <2>1. belated' = ~link /\ UNCHANGED <<link, driver>>
    BY <1>4 DEF Lease, Announce6, Announcing, Inside
  <2> QED BY <2>1, EndAnnounced
<1>5. CASE Elapse
  BY <1>5, EndSame DEF Elapse, Inside, flags
<1> QED BY <1>2, <1>3, <1>4, <1>5 DEF Outside

\* The loop's own steps touch neither the driver nor connected_; the queue only
\* start_connect_(), for a static address that the interface announces.
LEMMA EndLoop ==
  ASSUME TypeOK, EndInv, EnablePendingLoop \/ Loop \/ UNCHANGED vars
  PROVE  EndInv'
<1> USE DEF options, flags, outside
<1>1. CASE ConnectDhcp
  <2>1. UNCHANGED <<link, driver, connected_>> BY <1>1 DEF ConnectDhcp
  <2>2. CASE UNCHANGED <<events, belated>> BY <2>1, <2>2, EndSame
  <2>3. CASE belated' = ~link BY <2>1, <2>3, EndAnnounced
  <2> QED BY <1>1, <2>2, <2>3 DEF ConnectDhcp, Announcing
<1>2. CASE EnablePendingLoop \/ FinishConnect
  BY <1>2, EndSame DEF EnablePendingLoop, FinishConnect
<1>3. CASE \/ LoopStopped \/ LoopStarts \/ LoopStarted
           \/ LoopConnected \/ LoopWaits \/ LoopLost \/ LoopStable
  <2>1. UNCHANGED <<options, flags, events, outside>>
    BY <1>3 DEF LoopStopped, LoopStarts, LoopStarted, LoopConnected, LoopWaits,
                LoopLost, LoopStable, Goto
  <2> QED BY <2>1, EndSame
<1>4. CASE ConnectClear \/ ConnectFails \/ ConnectIp6
  BY <1>4, EndSame DEF ConnectClear, ConnectFails, ConnectIp6
<1>5. CASE UNCHANGED vars
  BY <1>5, EndSame DEF vars
<1> QED BY <1>1, <1>2, <1>3, <1>4, <1>5 DEF Loop, StartConnect

\* A connection that the event task is up to date with has a link, unless an
\* address was announced since the link was lost; with DHCP, a static address and
\* IPv6 alike.
THEOREM ConnectionsHaveLinks == Spec => []ConnectionHasLink
<1>1. Init => EndInv
  BY DEF Init, EndInv
<1>2. TypeOK /\ EndInv /\ [Next]_vars => EndInv'
  BY EndCalls, EndEvents, EndOutside, EndLoop DEF Next
<1>3. TypeOK /\ EndInv => ConnectionHasLink
  <2> SUFFICES ASSUME TypeOK, EndInv, events = << >>, connected_, ~belated
               PROVE  driver /\ link
    BY DEF ConnectionHasLink
  <2>1. ~DownAfter(0) BY DEF DownAfter
  <2> QED BY <2>1 DEF EndInv, Bare
<1> QED BY <1>1, <1>2, <1>3, LinkTypeCorrect, PTL DEF Spec

-----------------------------------------------------------------------------
(***************************************************************************)
(* The JL1101 driver.  Of the driver's and the chip's view of the link the *)
(* last report, the latch and the history variables tell which may differ. *)
(***************************************************************************)

\* Types.
PhyTypeOK ==
  /\ link_status \in BOOLEAN /\ up \in BOOLEAN /\ lost \in BOOLEAN /\ running \in BOOLEAN
  /\ mac \in BOOLEAN /\ forgot \in BOOLEAN /\ current \in BOOLEAN
  /\ main \in {"power", "powering", "reset", "resetting", "id", "stopped", "negotiating",
               "running", "off", "failed"}
  /\ poll \in {"idle", "peer", "mode", "report"}
  /\ wire \in Mode \cup {Down} /\ mac_mode \in Mode \cup {Down}

\* Where a task is says what the other may do: the timer asks a driver that runs,
\* and a call under way outlives a stop but not a start.
TurnsInv ==
  /\ running => main \in {"running", "off"}
  /\ poll # "idle" => main \in {"stopped", "running", "off"}
  /\ poll \in {"mode", "report"} => up # link_status
  /\ poll = "mode" => up
  /\ main = "negotiating" => ~link_status /\ (mac => forgot)

\* What a call that is current has read is so, and no loss waits to be read.
CurrentInv ==
  /\ current => running /\ ~lost
  /\ current => (wire # Down) = (IF poll = "idle" THEN link_status ELSE up)

\* The link that was read or reported up is there, and has the mode the driver was
\* told, unless a loss is latched.
ModeInv ==
  running /\ ~lost =>
    /\ poll # "idle" /\ up => wire # Down
    /\ poll = "report" /\ up => mac_mode = wire
    /\ ~forgot /\ mac /\ (poll = "peer" => up) /\ poll \in {"idle", "peer"} =>
         wire # Down /\ mac_mode = wire

\* A running driver was told what was reported last, unless something was forgotten.
PhyInv ==
  /\ PhyTypeOK /\ TurnsInv /\ CurrentInv /\ ModeInv
  /\ running /\ ~forgot => mac = link_status

\* Every register access, report, call of the main task and change of the link keeps it.
LEMMA PhyStep == PhyInv /\ PhyNext => PhyInv'
<1> SUFFICES ASSUME PhyInv, PhyNext PROVE PhyInv'
  OBVIOUS
<1> USE PhyAssumption DEF PhyAssumption, PhyInv, PhyTypeOK, TurnsInv, CurrentInv, ModeInv,
        chip, device, caller, asking, Ok, Fail, GoTo, Again, LoseLink, GiveUp
<1>1. CASE PowerUp \/ AwaitPower
  BY <1>1 DEF PowerUp, AwaitPower
<1>2. CASE Reset
  <2>1. PhyTypeOK' BY <1>2 DEF Reset
  <2>2. TurnsInv' BY <1>2 DEF Reset
  <2>3. CurrentInv' BY <1>2 DEF Reset
  <2>4. ModeInv' BY <1>2 DEF Reset
  <2>5. (running /\ ~forgot => mac = link_status)' BY <1>2 DEF Reset
  <2> QED BY <2>1, <2>2, <2>3, <2>4, <2>5
<1>3. CASE AwaitReset \/ CheckId
  BY <1>3 DEF AwaitReset, CheckId
<1>4. CASE Negotiate
  <2>1. PhyTypeOK' BY <1>4 DEF Negotiate
  <2>2. TurnsInv' BY <1>4 DEF Negotiate
  <2>3. CurrentInv' BY <1>4 DEF Negotiate
  <2>4. ModeInv' BY <1>4 DEF Negotiate
  <2>5. (running /\ ~forgot => mac = link_status)' BY <1>4 DEF Negotiate
  <2> QED BY <2>1, <2>2, <2>3, <2>4, <2>5
<1>5. CASE AwaitNegotiation
  BY <1>5 DEF AwaitNegotiation
<1>6. CASE Stop
  BY <1>6 DEF Stop
<1>7. CASE PowerDown
  <2>1. PhyTypeOK' BY <1>7 DEF PowerDown
  <2>2. TurnsInv' BY <1>7 DEF PowerDown
  <2>3. CurrentInv' BY <1>7 DEF PowerDown
  <2>4. ModeInv' BY <1>7 DEF PowerDown
  <2>5. (running /\ ~forgot => mac = link_status)' BY <1>7 DEF PowerDown
  <2> QED BY <2>1, <2>2, <2>3, <2>4, <2>5
<1>8. CASE ReadStatus
  <2>1. PhyTypeOK' BY <1>8 DEF ReadStatus
  <2>2. TurnsInv' BY <1>8 DEF ReadStatus
  <2>3. CurrentInv' BY <1>8 DEF ReadStatus
  <2>4. ModeInv' BY <1>8 DEF ReadStatus
  <2>5. (running /\ ~forgot => mac = link_status)' BY <1>8 DEF ReadStatus
  <2> QED BY <2>1, <2>2, <2>3, <2>4, <2>5
<1>9. CASE ReadPeer
  <2>1. PhyTypeOK' BY <1>9 DEF ReadPeer
  <2>2. TurnsInv' BY <1>9 DEF ReadPeer
  <2>3. CurrentInv' BY <1>9 DEF ReadPeer
  <2>4. ModeInv' BY <1>9 DEF ReadPeer
  <2>5. (running /\ ~forgot => mac = link_status)' BY <1>9 DEF ReadPeer
  <2> QED BY <2>1, <2>2, <2>3, <2>4, <2>5
<1>10. CASE ReadMode
  BY <1>10 DEF ReadMode
<1>11. CASE Report
  BY <1>11 DEF Report
<1>12. CASE Chip
  <2>1. PhyTypeOK' BY <1>12 DEF Chip, PowersUp, Resets, Negotiates
  <2>2. TurnsInv' BY <1>12 DEF Chip, PowersUp, Resets, Negotiates
  <2>3. CurrentInv' BY <1>12 DEF Chip, PowersUp, Resets, Negotiates
  <2>4. ModeInv' BY <1>12 DEF Chip, PowersUp, Resets, Negotiates
  <2>5. (running /\ ~forgot => mac = link_status)'
    BY <1>12 DEF Chip, PowersUp, Resets, Negotiates
  <2> QED BY <2>1, <2>2, <2>3, <2>4, <2>5
<1>13. CASE Unplugged
  BY <1>13 DEF Unplugged
<1>14. CASE Plugged
  BY <1>14 DEF Plugged
<1> QED
  BY <1>1, <1>2, <1>3, <1>4, <1>5, <1>6, <1>7, <1>8, <1>9, <1>10,
     <1>11, <1>12, <1>13, <1>14
  DEF PhyNext, MainTask, GetLink

\* A driver that is told of changes only knows the link that is there and its mode,
\* after one call that went through, for any modes and any number of lost links,
\* stops and failures.
THEOREM PhyKnowsLink == PhySpec => []DriverKnowsLink
<1>1. PhyInit => PhyInv
  BY DEF PhyInit, PhyInv, PhyTypeOK, TurnsInv, CurrentInv, ModeInv
<1>2. PhyInv /\ UNCHANGED phyVars => PhyInv'
  BY DEF PhyInv, PhyTypeOK, TurnsInv, CurrentInv, ModeInv, phyVars, chip, device,
         caller, asking
<1>3. PhyInv => DriverKnowsLink
  BY DEF PhyInv, PhyTypeOK, CurrentInv, ModeInv, DriverKnowsLink
<1> QED BY <1>1, <1>2, <1>3, PhyStep, PTL DEF PhySpec

-----------------------------------------------------------------------------
(***************************************************************************)
(* The polled connection.  All times are 32 bits that wrap; the age of the *)
(* last poll is exact as long as loops come in time.                       *)
(***************************************************************************)

\* Types.
PollTypeOK ==
  /\ phase \in {"new", "ready", "failed"} /\ state \in {"STOPPED", "CONNECTING", "CONNECTED"}
  /\ started \in BOOLEAN /\ connected \in BOOLEAN
  /\ warning \in BOOLEAN /\ has_link \in BOOLEAN /\ has_ip \in BOOLEAN /\ detects \in BOOLEAN
  /\ now \in 0 .. RANGE - 1 /\ last_link_check \in 0 .. RANGE - 1
  /\ lag \in 0 .. MaxLag /\ gone \in Nat /\ steady \in Nat

\* How long ago the last poll was.
Age == Elapsed(last_link_check)

\* The loop has polled, or will in time.
OnTime == Age < LINK_CHECK_INTERVAL + lag

\* What the component takes for connected was so when it polled last, in time.
BelievesInv ==
  /\ phase # "ready" => ~started /\ ~connected /\ state = "STOPPED"
  /\ Reaches => gone = 0
  /\ connected \/ state = "CONNECTED" => gone <= Age /\ OnTime
  /\ connected => started
  /\ state = "CONNECTED" => ~warning
  /\ state = "CONNECTING" => warning

\* The flags say what the interface says, and the state follows the flags.
Told == started = LinkSeen /\ connected = Reaches

Follows ==
    CASE Reaches    -> state = "CONNECTED"
      [] ~LinkSeen  -> state = "STOPPED"
      [] OTHER      -> state = "CONNECTING"

\* An interface that does not change is asked within this time.
Polled == LINK_CHECK_INTERVAL - 1 + 2 * MaxLag

\* An interface that does not change is waited for: no loop has run since, a poll
\* is to come, one loop is to come, or the component follows.
SteadyInv ==
  phase = "ready" =>
    \/ steady <= lag
    \/ steady <= Age + MaxLag /\ OnTime
    \/ Told /\ state # "STOPPED" /\ steady <= Polled + lag
    \/ Told /\ Follows

PollInv == PollTypeOK /\ BelievesInv /\ SteadyInv

\* The assumption, constant by constant.
LEMMA PollBounds ==
  /\ RANGE \in Nat \ {0} /\ LINK_CHECK_INTERVAL \in Nat \ {0} /\ MaxLag \in Nat \ {0}
  /\ CONNECT_TIMEOUT \in Nat /\ RANGE > LINK_CHECK_INTERVAL + MaxLag
<1>1. LINK_CHECK_INTERVAL \in Nat \ {0} /\ MaxLag \in Nat \ {0}
  BY PollAssumption, Zenon DEF PollAssumption
<1> QED BY <1>1, PollAssumption DEF PollAssumption

\* What % does to two times and their difference.
LEMMA Wraps ==
  ASSUME NEW r \in Nat \ {0}, NEW d \in Int, -r <= d, d < 2 * r
  PROVE  d % r = IF d < 0 THEN d + r ELSE IF d < r THEN d ELSE d - r
  OBVIOUS

\* The age of a poll goes up with the time, up to the range of the time.
LEMMA AgeGrows ==
  ASSUME now \in 0 .. RANGE - 1, last_link_check \in 0 .. RANGE - 1,
         now' = (now + 1) % RANGE, last_link_check' = last_link_check
  PROVE  /\ now' \in 0 .. RANGE - 1
         /\ Age \in 0 .. RANGE - 1
         /\ Age + 1 < RANGE => Age' = Age + 1
<1> USE PollBounds
<1>1. RANGE \in Nat \ {0} OBVIOUS
<1>2. now' = IF now + 1 < RANGE THEN now + 1 ELSE 0
  <2> DEFINE d == now + 1
  <2>1. d \in Int /\ -RANGE <= d /\ d < 2 * RANGE /\ d >= 0 /\ d <= RANGE
    OBVIOUS
  <2>2. d % RANGE = IF d < 0 THEN d + RANGE ELSE IF d < RANGE THEN d ELSE d - RANGE
    <3> HIDE DEF d
    <3> QED BY <1>1, <2>1, Wraps
  <2> QED BY <2>1, <2>2
<1>3. ASSUME NEW t \in 0 .. RANGE - 1
      PROVE  (t - last_link_check) % RANGE =
               IF t < last_link_check THEN t - last_link_check + RANGE ELSE t - last_link_check
  <2> DEFINE d == t - last_link_check
  <2>1. d \in Int /\ -RANGE <= d /\ d < RANGE /\ d < 2 * RANGE
        /\ (d < 0 <=> t < last_link_check)
    OBVIOUS
  <2>2. d % RANGE = IF d < 0 THEN d + RANGE ELSE IF d < RANGE THEN d ELSE d - RANGE
    BY <1>1, <2>1, Wraps
  <2> QED BY <2>1, <2>2
<1>4. now' \in 0 .. RANGE - 1 BY <1>2
<1>5. Age = (now - last_link_check) % RANGE /\ Age' = (now' - last_link_check) % RANGE
  BY DEF Age, Elapsed
<1> QED BY <1>2, <1>3, <1>4, <1>5

\* The age of a poll that is made now.
LEMMA AgeNow ==
  ASSUME now \in 0 .. RANGE - 1, last_link_check' = now, now' = now PROVE Age' = 0
  BY PollBounds DEF Age, Elapsed

\* An age is a time.
LEMMA AgeType ==
  ASSUME now \in 0 .. RANGE - 1, last_link_check \in 0 .. RANGE - 1
  PROVE  Age \in 0 .. RANGE - 1
  BY PollBounds DEF Age, Elapsed

\* It changes with the time or a poll only.
LEMMA AgeKept == UNCHANGED <<now, last_link_check>> => Age' = Age
  BY DEF Age, Elapsed

\* A loop keeps the invariant, whether it polls or not.
LEMMA PollLoopStep == PollInv /\ LoopRp2 => PollInv'
<1> SUFFICES ASSUME PollInv, LoopRp2 PROVE PollInv'
  OBVIOUS
<1> USE PollBounds DEF offered
<1>1. Age \in 0 .. RANGE - 1 /\ now \in 0 .. RANGE - 1 /\ last_link_check \in 0 .. RANGE - 1
  BY AgeType DEF PollInv, PollTypeOK
<1>2. UNCHANGED <<phase, disabled, offered, now, gone, steady>> /\ lag' = 0 /\ phase = "ready"
  BY DEF LoopRp2
<1>3. LinkSeen' = LinkSeen /\ Reaches' = Reaches /\ LinkSeen \in BOOLEAN /\ Reaches \in BOOLEAN
  BY <1>2 DEF LinkSeen, Reaches, PollInv, PollTypeOK
<1>4. PollTypeOK'
  <2>1. started' \in BOOLEAN /\ connected' \in BOOLEAN /\ last_link_check' \in 0 .. RANGE - 1
    BY <1>1, <1>3 DEF LoopRp2, Ask, DontAsk, PollInv, PollTypeOK
  <2>2. state' \in {"STOPPED", "CONNECTING", "CONNECTED"} /\ warning' \in BOOLEAN
    BY DEF LoopRp2, Stopped, Connecting, Connected, StartConnectRp2, PollInv, PollTypeOK
  <2> QED BY <1>2, <2>1, <2>2 DEF PollInv, PollTypeOK
<1>5. \/ Ask /\ Age' = 0
      \/ DontAsk /\ Age' = Age /\ Age < LINK_CHECK_INTERVAL
  BY <1>1, <1>2, AgeNow, AgeKept DEF LoopRp2, Ask, DontAsk, PollDue, Age
<1>6. Age' < LINK_CHECK_INTERVAL
  BY <1>5
<1>7. OnTime' /\ Age' \in Nat
  BY <1>1, <1>2, <1>5, <1>6 DEF OnTime
<1>8. /\ state' = "CONNECTED" => started' /\ connected' /\ ~warning'
      /\ state' = "CONNECTING" => started' /\ warning'
      /\ started' /\ connected' /\ state # "STOPPED" => state' = "CONNECTED"
      /\ started' /\ ~connected' => state' = "CONNECTING"
      /\ ~started' => state' = "STOPPED"
      /\ started' => state' # "STOPPED"
  BY DEF LoopRp2, Stopped, Connecting, Connected, StartConnectRp2, PollInv,
         PollTypeOK, BelievesInv
<1>9. BelievesInv'
  <2>1. (Reaches => gone = 0)' BY <1>2, <1>3 DEF PollInv, BelievesInv
  <2>2. connected' => gone' <= Age' /\ started'
    <3>1. CASE Ask BY <1>2, <1>5, <1>7, <3>1, <2>1, <1>3 DEF Ask, Reaches, PollInv, PollTypeOK
    <3>2. CASE ~Ask BY <1>2, <1>5, <3>2 DEF DontAsk, PollInv, BelievesInv
    <3> QED BY <3>1, <3>2
  <2> QED BY <1>2, <1>7, <1>8, <2>1, <2>2 DEF BelievesInv
<1>10. Told' => Follows' \/ state' # "STOPPED"
  BY <1>8 DEF Told, Follows, Reaches
<1>11. (Told /\ DontAsk) \/ Ask => Told'
  BY <1>3 DEF Ask, DontAsk, Told
<1>12. SteadyInv'
  <2>1. Polled \in Int /\ steady' = steady /\ steady \in Nat /\ lag \in 0 .. MaxLag
    BY <1>2 DEF Polled, PollInv, PollTypeOK
  <2>2. CASE steady <= lag
    <3>1. CASE Ask
      <4>1. steady' <= Polled BY <2>1, <2>2 DEF Polled
      <4> QED BY <1>2, <1>10, <1>11, <2>1, <3>1, <4>1 DEF SteadyInv
    <3>2. CASE ~Ask
      <4>1. steady' <= Age' + MaxLag BY <1>1, <1>5, <2>1, <2>2, <3>2
      <4> QED BY <1>7, <4>1 DEF SteadyInv
    <3> QED BY <3>1, <3>2
  <2>3. CASE steady <= Age + MaxLag /\ OnTime
    <3>1. CASE Ask
      <4>1. steady' <= Polled BY <1>1, <2>1, <2>3 DEF Polled, OnTime
      <4> QED BY <1>2, <1>10, <1>11, <2>1, <3>1, <4>1 DEF SteadyInv
    <3>2. CASE ~Ask
      <4>1. steady' <= Age' + MaxLag BY <1>1, <1>5, <2>1, <2>3, <3>2
      <4> QED BY <1>7, <4>1 DEF SteadyInv
    <3> QED BY <3>1, <3>2
  <2>4. CASE Told /\ (Follows \/ state # "STOPPED")
    <3>1. Told' BY <1>5, <1>11, <2>4
    <3>2. Follows'
      BY <1>3, <1>8, <2>4, <3>1 DEF Told, Follows, Reaches
    <3> QED BY <3>1, <3>2 DEF SteadyInv
  <2> QED BY <1>2, <2>2, <2>3, <2>4 DEF PollInv, SteadyInv
<1> QED BY <1>4, <1>9, <1>12 DEF PollInv

\* So does the time ...
LEMMA PollTickStep == PollInv /\ PollTick => PollInv'
<1> SUFFICES ASSUME PollInv, PollTick PROVE PollInv'
  OBVIOUS
<1> USE PollBounds DEF believed, offered
<1>1. Age \in 0 .. RANGE - 1 /\ now' \in 0 .. RANGE - 1 /\ (Age + 1 < RANGE => Age' = Age + 1)
  BY AgeGrows DEF PollInv, PollTypeOK, PollTick
<1>2. UNCHANGED <<phase, state, started, connected, last_link_check, warning, has_link, has_ip,
                  detects>>
  BY DEF PollTick
<1>3. /\ lag \in 0 .. MaxLag /\ lag' \in 0 .. MaxLag
      /\ phase = "ready" => lag < MaxLag /\ lag' = lag + 1
  BY DEF PollTick, PollInv, PollTypeOK
<1>4. LinkSeen' = LinkSeen /\ Reaches' = Reaches
  BY <1>2 DEF LinkSeen, Reaches
<1>5. /\ gone \in Nat /\ gone' \in Nat /\ gone' <= gone + 1
      /\ Reaches => gone' = gone
  BY DEF PollTick, PollInv, PollTypeOK
<1>6. steady \in Nat /\ steady' \in Nat /\ steady' <= steady + 1
  BY DEF PollTick, PollInv, PollTypeOK
<1>7. PollTypeOK'
  BY <1>1, <1>2, <1>3, <1>5, <1>6 DEF PollInv, PollTypeOK
<1>8. phase = "ready" /\ OnTime => OnTime' /\ Age' = Age + 1
  BY <1>1, <1>3 DEF OnTime
<1>9. BelievesInv'
  BY <1>1, <1>2, <1>4, <1>5, <1>8 DEF PollInv, BelievesInv
<1>10. SteadyInv'
  <2>1. Told' = Told /\ Follows' = Follows BY <1>2, <1>4 DEF Told, Follows
  <2>2. Polled' = Polled /\ Polled \in Int BY DEF Polled
  <2> QED BY <1>1, <1>2, <1>3, <1>6, <1>8, <2>1, <2>2 DEF PollInv, SteadyInv
<1> QED BY <1>7, <1>9, <1>10 DEF PollInv

\* ... the calls, which change nothing that the interface says ...
LEMMA PollOthersStep ==
  PollInv /\ (SetupRp2 \/ PowerdownRp2 \/ EnableRp2 \/ DisableRp2 \/ UNCHANGED pollVars)
    => PollInv'
<1> SUFFICES ASSUME PollInv,
                    SetupRp2 \/ PowerdownRp2 \/ EnableRp2 \/ DisableRp2 \/ UNCHANGED pollVars
             PROVE  PollInv'
  OBVIOUS
<1>1. UNCHANGED <<state, last_link_check, warning, has_link, has_ip, detects, now, lag, gone>>
  BY DEF SetupRp2, PowerdownRp2, EnableRp2, DisableRp2, pollVars, believed, offered, clock
<1>2. \/ UNCHANGED <<started, connected, phase, steady>>
      \/ started' = FALSE /\ connected' = FALSE /\ steady' = 0 /\ phase' = phase
      \/ UNCHANGED <<started, connected>> /\ steady' = 0 /\ phase' \in {"ready", "failed"}
         /\ phase = "new"
  <2>1. CASE SetupRp2 BY <2>1 DEF SetupRp2, believed
  <2>2. CASE PowerdownRp2 BY <2>2 DEF PowerdownRp2
  <2>3. CASE EnableRp2 \/ DisableRp2 \/ UNCHANGED pollVars
    BY <2>3 DEF EnableRp2, DisableRp2, pollVars, believed, clock
  <2> QED BY <2>1, <2>2, <2>3
<1>4. Age' = Age /\ LinkSeen' = LinkSeen /\ Reaches' = Reaches /\ OnTime' = OnTime
  BY <1>1, AgeKept DEF LinkSeen, Reaches, OnTime, Age, Elapsed
<1>5. PollTypeOK'
  <2>1. phase' \in {"new", "ready", "failed"} /\ steady' \in Nat
    BY <1>2 DEF PollInv, PollTypeOK
  <2>2. started' \in BOOLEAN /\ connected' \in BOOLEAN
    BY <1>2 DEF PollInv, PollTypeOK
  <2> QED BY <1>1, <2>1, <2>2 DEF PollInv, PollTypeOK
<1>6. BelievesInv'
  BY <1>1, <1>2, <1>4 DEF PollInv, BelievesInv
<1>7. SteadyInv'
  <2>1. CASE steady' = 0
    <3>1. steady' <= lag' BY <1>1, <2>1, PollBounds DEF PollInv, PollTypeOK
    <3> QED BY <3>1 DEF SteadyInv
  <2>2. CASE UNCHANGED <<started, connected, phase, steady>>
    <3>1. Told' = Told /\ Follows' = Follows BY <1>1, <1>4, <2>2 DEF Told, Follows
    <3> QED BY <1>1, <1>4, <2>2, <3>1 DEF PollInv, SteadyInv, Polled
  <2> QED BY <1>2, <2>1, <2>2
<1> QED BY <1>5, <1>6, <1>7 DEF PollInv

\* ... and a change of the interface.
LEMMA InterfaceStep == PollInv /\ Interface => PollInv'
<1> SUFFICES ASSUME PollInv, Interface PROVE PollInv'
  OBVIOUS
<1> USE PollBounds
<1>1. UNCHANGED <<phase, state, started, connected, last_link_check, warning, detects, now,
                  lag>>
  BY DEF Interface, believed
<1>2. Age' = Age /\ OnTime' = OnTime /\ Age \in 0 .. RANGE - 1
  BY <1>1, AgeKept, AgeType DEF OnTime, PollInv, PollTypeOK
<1>3. gone' \in Nat /\ gone' <= gone /\ (Reaches' => gone' = 0)
  BY DEF Interface, PollInv, PollTypeOK
<1>4. steady' = 0 /\ has_link' \in BOOLEAN /\ has_ip' \in BOOLEAN
  BY DEF Interface
<1>5. PollTypeOK'
  BY <1>1, <1>3, <1>4 DEF PollInv, PollTypeOK
<1>6. BelievesInv'
  <2>1. gone \in Nat BY DEF PollInv, PollTypeOK
  <2> QED BY <1>1, <1>2, <1>3, <2>1 DEF PollInv, BelievesInv
<1>7. steady' <= lag' BY <1>1, <1>4 DEF PollInv, PollTypeOK
<1> QED BY <1>5, <1>6, <1>7 DEF PollInv, SteadyInv

\* It holds at first.
LEMMA PollBegins == PollInit => PollInv
<1> SUFFICES ASSUME PollInit PROVE PollInv
  OBVIOUS
<1>1. PollTypeOK
  <2>1. now \in 0 .. RANGE - 1 /\ last_link_check \in 0 .. RANGE - 1
        /\ lag \in 0 .. MaxLag /\ gone \in Nat /\ steady \in Nat
    BY PollBounds DEF PollInit
  <2> QED BY <2>1 DEF PollInit, PollTypeOK
<1>2. BelievesInv /\ SteadyInv
  BY DEF PollInit, BelievesInv, SteadyInv
<1> QED BY <1>1, <1>2 DEF PollInv

\* The invariant of the polled connection.
THEOREM PollInvariant == PollSpec => []PollInv
<1>1. PollInv /\ [PollNext]_pollVars => PollInv'
  BY PollLoopStep, PollTickStep, PollOthersStep, InterfaceStep DEF PollNext
<1> QED BY <1>1, PollBegins, PTL DEF PollSpec

\* The connection is not believed in for longer than a poll and a slow loop after it
\* is gone, for every length of the two, and wherever the time wraps.
THEOREM AnswersForLinkHolds == PollSpec => []AnswersForLink
<1>1. PollInv => AnswersForLink
  BY PollBounds, AgeType
  DEF PollInv, PollTypeOK, BelievesInv, OnTime, AnswersForLink, LongGone
<1> QED BY <1>1, PollInvariant, PTL

\* The component is where the interface is when nothing has changed for a poll and
\* three slow loops, for every length of them, and wherever the time wraps.
THEOREM FollowsInterfaceHolds == PollSpec => []FollowsInterface
<1>1. PollInv => FollowsInterface
  <2> SUFFICES ASSUME PollInv, phase = "ready", steady > LongSteady
               PROVE  CASE Reaches    -> state = "CONNECTED" /\ ~warning
                        [] ~LinkSeen  -> state = "STOPPED"
                        [] OTHER      -> state = "CONNECTING" /\ warning
    BY Zenon DEF FollowsInterface
  <2>1. Age \in Nat /\ lag \in 0 .. MaxLag /\ steady \in Nat
    BY AgeType, PollBounds DEF PollInv, PollTypeOK
  <2>2. Follows
    BY <2>1, PollBounds
    DEF PollInv, SteadyInv, OnTime, LongSteady, LongGone, Polled
  <2> QED BY <2>2 DEF PollInv, BelievesInv, Follows, Reaches
<1> QED BY <1>1, PollInvariant, PTL
=============================================================================
