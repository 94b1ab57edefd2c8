-------------------------------- MODULE EthPoll --------------------------------
(***************************************************************************)
(* The Ethernet connection of an RP2040 build:                             *)
(* components/ethernet/ethernet_component_rp2.cpp.                         *)
(*                                                                         *)
(* There are no events here.  The main loop asks the interface now and     *)
(* then for its link and its address, and a state machine answers          *)
(* is_connected() from what it was told last.  The time is the 32 bits of  *)
(* millis(), which wrap; a loop and what it calls take no time.            *)
(*                                                                         *)
(* The interface, arduino-pico's LwipIntfDev, is external: what it says of *)
(* its link and address changes at any time, also after end().             *)
(***************************************************************************)
EXTENDS Integers

CONSTANTS
  RANGE,               \* millis() wraps at this: 2^32 in the code
  LINK_CHECK_INTERVAL, \* between two polls
  CONNECT_TIMEOUT,     \* the 15000 ms of loop()
  MaxLag,              \* bound: two loops are not further apart
  MaxDowns             \* bound on calls of powerdown()

ASSUME PollAssumption ==
  /\ {LINK_CHECK_INTERVAL, MaxLag} \subseteq Nat \ {0}
  /\ CONNECT_TIMEOUT \in Nat /\ MaxDowns \in Nat
  /\ RANGE \in Nat
  /\ RANGE > LINK_CHECK_INTERVAL + MaxLag /\ RANGE > CONNECT_TIMEOUT + MaxLag

VARIABLES
  phase,                \* of the component: "new", "ready" (set up) or "failed"
  state, started, connected, disabled,
  last_link_check, connect_begin,
  warning,              \* status_set_warning()
  has_link, has_ip,     \* what the interface says
  detects,              \* the chip tells whether there is a link: it is no W5100
  now, lag,             \* the time, and how long ago the last loop was
  gone, steady,         \* history: how long link or address have been missing, and how
                        \* long nothing has changed but the time, each up to what
                        \* the properties ask about
  downs                 \* used up of the bound

believed == <<state, started, connected, last_link_check, connect_begin, warning>>
offered  == <<has_link, has_ip, detects>>
clock    == <<now, lag, gone, steady>>
pollVars == <<phase, believed, disabled, offered, clock, downs>>

PollInit ==
  /\ phase = "new" /\ state = "STOPPED"
  /\ started = FALSE /\ connected = FALSE /\ disabled = FALSE
  /\ last_link_check = 0 /\ connect_begin = 0 /\ warning = FALSE
  /\ has_link = FALSE /\ has_ip = FALSE /\ detects \in BOOLEAN
  /\ now \in 0 .. RANGE - 1 /\ lag = 0 /\ gone = 0 /\ steady = 0 /\ downs = 0

\* Mutated form: the time does not wrap.
Elapsed_Signed(since) == now - since

\* now - since, of two uint32_t
Elapsed(since) == (now - since) % RANGE

\* What loop() takes the link for.
LinkSeen == has_link \/ ~detects

\* A reply from here can reach its client.
Reaches == LinkSeen /\ has_ip

-----------------------------------------------------------------------------
(***************************************************************************)
(* The component.                                                          *)
(***************************************************************************)

\* begin() may fail, and then the component is not run.
SetupRp2 ==
  /\ phase = "new" /\ phase' \in {"ready", "failed"} /\ steady' = 0
  /\ UNCHANGED <<believed, disabled, offered, now, lag, gone, downs>>

PollDue == Elapsed(last_link_check) >= LINK_CHECK_INTERVAL

\* Mutated form: a lost link resets a connection only.
Ask_ConnectedOnly ==
  /\ last_link_check' = now
  /\ started' = IF LinkSeen THEN TRUE ELSE started /\ ~connected
  /\ connected' = Reaches

\* One poll.  A lost link takes the connection with it.
Ask ==
  /\ last_link_check' = now
  /\ started' = LinkSeen
  /\ connected' = Reaches

DontAsk == UNCHANGED <<last_link_check, started, connected>>

StartConnectRp2 == connect_begin' = now /\ warning' = TRUE

Stopped ==
  /\ state = "STOPPED"
  /\ IF started' THEN state' = "CONNECTING" /\ StartConnectRp2
                 ELSE UNCHANGED <<state, connect_begin, warning>>

Connecting ==
  /\ state = "CONNECTING"
  /\ \/ ~started' /\ state' = "STOPPED" /\ UNCHANGED <<connect_begin, warning>>
     \/ /\ started' /\ connected'
        /\ state' = "CONNECTED" /\ warning' = FALSE /\ UNCHANGED connect_begin
     \/ /\ started' /\ ~connected' /\ UNCHANGED state
        /\ IF Elapsed(connect_begin) > CONNECT_TIMEOUT
             THEN StartConnectRp2 ELSE UNCHANGED <<connect_begin, warning>>

Connected ==
  /\ state = "CONNECTED"
  /\ \/ ~started' /\ state' = "STOPPED" /\ UNCHANGED <<connect_begin, warning>>
     \/ started' /\ ~connected' /\ state' = "CONNECTING" /\ StartConnectRp2
     \/ started' /\ connected' /\ UNCHANGED <<state, connect_begin, warning>>

LoopRp2 ==
  /\ phase = "ready"
  /\ IF PollDue THEN Ask ELSE DontAsk
  /\ Stopped \/ Connecting \/ Connected
  /\ lag' = 0
  /\ UNCHANGED <<phase, disabled, offered, now, gone, steady, downs>>

\* powerdown(): the interface is ended, not forgotten, and polled again.
PowerdownRp2 ==
  /\ phase # "new" /\ downs < MaxDowns /\ downs' = downs + 1
  /\ connected' = FALSE /\ started' = FALSE /\ steady' = 0
  /\ UNCHANGED <<phase, state, last_link_check, connect_begin, warning, disabled, offered, now,
                 lag, gone>>

\* enable() and disable(): noted, and without effect.
EnableRp2  == disabled /\ disabled' = FALSE /\ UNCHANGED <<phase, believed, offered, clock, downs>>
DisableRp2 == ~disabled /\ disabled' = TRUE /\ UNCHANGED <<phase, believed, offered, clock, downs>>

-----------------------------------------------------------------------------
(***************************************************************************)
(* The interface and the time.                                             *)
(***************************************************************************)

Interface ==
  /\ has_link' \in BOOLEAN /\ has_ip' \in BOOLEAN
  /\ UNCHANGED <<phase, believed, disabled, detects, now, lag, downs>>
  /\ gone' = IF Reaches' THEN 0 ELSE gone
  /\ steady' = 0

\* A poll is due, and made by a slow loop.
LongGone   == LINK_CHECK_INTERVAL + MaxLag
\* The loop after it goes one state on; and the first loop of all may find that
\* the time has just wrapped, and that no poll is due.
LongSteady == LongGone + 2 * MaxLag

PollTick ==
  /\ phase = "ready" => lag < MaxLag
  /\ now' = (now + 1) % RANGE
  /\ lag' = IF phase = "ready" THEN lag + 1 ELSE 0
  /\ gone' = IF ~Reaches /\ gone < LongGone THEN gone + 1 ELSE gone
  /\ steady' = IF steady <= LongSteady THEN steady + 1 ELSE steady
  /\ UNCHANGED <<phase, believed, disabled, offered, downs>>

PollNext == SetupRp2 \/ LoopRp2 \/ PowerdownRp2 \/ EnableRp2 \/ DisableRp2 \/ Interface \/ PollTick

PollSpec == PollInit /\ [][PollNext]_pollVars

-----------------------------------------------------------------------------
(***************************************************************************)
(* Properties.                                                             *)
(***************************************************************************)

\* is_connected() does not go on saying so for longer than a poll and a slow loop
\* after the link or the address was lost, whenever the time wraps.
AnswersForLink == state = "CONNECTED" => gone < LongGone

\* When nothing has changed for a poll and three slow loops, the component is where
\* the interface is: connected, waiting for an address under a warning, or stopped,
\* whatever was lost before and even after a powerdown().
FollowsInterface ==
  phase = "ready" /\ steady > LongSteady =>
    CASE Reaches    -> state = "CONNECTED" /\ ~warning
      [] ~LinkSeen  -> state = "STOPPED"
      [] OTHER      -> state = "CONNECTING" /\ warning
=============================================================================
