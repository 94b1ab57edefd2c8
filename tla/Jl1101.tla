-------------------------------- MODULE Jl1101 --------------------------------
(***************************************************************************)
(* The JL1101 PHY driver: components/ethernet/esp_eth_phy_jl1101.c.        *)
(*                                                                         *)
(* ESP-IDF's Ethernet driver calls it from two tasks: the main task        *)
(* installs, starts and stops the driver, and a timer asks for the link    *)
(* while it runs.  What the driver knows of the link it knows from         *)
(* get_link() alone, which reports changes only: link_status is what was   *)
(* reported last.                                                          *)
(*                                                                         *)
(* Driver and chip are external.  The chip's status register latches a     *)
(* lost link until it is read.  Every access to a register may fail, and   *)
(* every report to the driver may be refused, before or after it is noted. *)
(* Speed, duplex and flow control of a link are one value, its mode.       *)
(***************************************************************************)
EXTENDS Naturals

CONSTANTS
  Mode,                 \* what a link may be negotiated to
  PowerTries,           \* reset_timeout_ms / 10
  ResetTries,           \* reset_timeout_ms / 50
  NegoTries,            \* autonego_timeout_ms / 100
  MaxBreaks, MaxStops, MaxErrors \* bounds: lost links, stops, failed accesses

Down == "down"

ASSUME PhyAssumption ==
  /\ Down \notin Mode
  /\ {PowerTries, ResetTries, NegoTries} \subseteq Nat \ {0}
  /\ {MaxBreaks, MaxStops, MaxErrors} \subseteq Nat

VARIABLES
  link_status,          \* what get_link() reported last: up?
  main, to,             \* where the main task is, and its tries
  poll,                 \* where get_link() is
  up, mode,             \* locals of get_link(): the status read, and the mode
  powered, reset, busy, \* the chip: power is on, reset, negotiation under way
  cable, wire,          \* the cable is in; the mode of the link, or Down
  lost,                 \* latched: the link was lost since the status was read
  running,              \* the driver: started, its timer runs
  mac, mac_mode,        \* the driver: the link as far as it knows
  forgot,               \* history: a change was read by a call that failed, or a stopped
                        \* driver was told of a link, and nothing has been reported since
  current,              \* history: the last call went through, or is about to, and what it
                        \* read is still so
  breaks, stops, errors \* used up of the bounds

chip     == <<powered, reset, busy, cable, wire, lost>>
device   == <<running, mac, mac_mode>>
caller   == <<main, to>>
asking   == <<poll, up, mode>>
phyUsed  == <<breaks, stops, errors>>
phyVars  == <<link_status, caller, asking, chip, device, forgot, current, phyUsed>>

PhyInit ==
  /\ link_status = FALSE /\ main = "power" /\ to = 0
  /\ poll = "idle" /\ up = FALSE /\ mode = Down
  /\ powered = FALSE /\ reset = FALSE /\ busy = FALSE
  /\ cable = TRUE /\ wire = Down /\ lost = FALSE
  /\ running = FALSE /\ mac = FALSE /\ mac_mode = Down
  /\ forgot = FALSE /\ current = FALSE /\ breaks = 0 /\ stops = 0 /\ errors = 0

\* A register access, or a report, that works or fails.
Ok   == UNCHANGED phyUsed
Fail == errors < MaxErrors /\ errors' = errors + 1 /\ UNCHANGED <<breaks, stops>>

-----------------------------------------------------------------------------
(***************************************************************************)
(* The chip.                                                               *)
(***************************************************************************)

\* The link is gone, and stays gone until it has been negotiated.
LoseLink == wire' = Down /\ lost' = TRUE /\ current' = FALSE

PowersUp ==
  main = "powering" /\ ~powered /\ powered' = TRUE /\ UNCHANGED <<reset, busy, wire, current>>
Resets == reset /\ reset' = FALSE /\ UNCHANGED <<powered, busy, wire, current>>

Negotiates ==
  /\ powered /\ ~reset /\ cable /\ wire = Down
  /\ wire' \in Mode /\ busy' = FALSE /\ current' = FALSE
  /\ UNCHANGED <<powered, reset>>

Unplugged ==
  /\ breaks < MaxBreaks /\ breaks' = breaks + 1
  /\ cable' = FALSE /\ LoseLink
  /\ UNCHANGED <<link_status, caller, asking, powered, reset, busy, device, forgot, stops, errors>>

Plugged ==
  /\ ~cable /\ cable' = TRUE
  /\ UNCHANGED <<link_status, caller, asking, powered, reset, busy, wire, lost, device, forgot,
                 current, phyUsed>>

Chip ==
  /\ PowersUp \/ Resets \/ Negotiates
  /\ UNCHANGED <<link_status, caller, asking, cable, lost, device, forgot, phyUsed>>

-----------------------------------------------------------------------------
(***************************************************************************)
(* The main task.                                                          *)
(***************************************************************************)

GoTo(m) == main' = m /\ to' = 0
\* A try is over and the condition it waits for is not there yet.
Again(tries, timeout) ==
  IF to + 1 < tries THEN to' = to + 1 /\ UNCHANGED main ELSE GoTo(timeout)

\* pwrctl(true), called by init(): the power-down bit is cleared ...
PowerUp ==
  /\ main = "power"
  /\ (Ok /\ GoTo("powering")) \/ (Fail /\ GoTo("failed"))
  /\ UNCHANGED <<link_status, asking, chip, device, forgot, current>>

\* ... and read until it is clear.
AwaitPower ==
  /\ main = "powering"
  /\ \/ Ok /\ powered /\ GoTo("reset")
     \/ Ok /\ ~powered /\ Again(PowerTries, "failed")
     \/ Fail /\ GoTo("failed")
  /\ UNCHANGED <<link_status, asking, chip, device, forgot, current>>

\* reset(), called by init()
Reset ==
  /\ main = "reset"
  /\ link_status' = FALSE
  /\ \/ Ok /\ GoTo("resetting") /\ reset' = TRUE /\ LoseLink
     \/ Fail /\ GoTo("failed") /\ UNCHANGED <<reset, wire, lost, current>>
  /\ UNCHANGED <<asking, powered, busy, cable, device, forgot>>

AwaitReset ==
  /\ main = "resetting"
  /\ \/ Ok /\ ~reset /\ GoTo("id")
     \/ Ok /\ reset /\ Again(ResetTries, "failed")
     \/ Fail /\ GoTo("failed")
  /\ UNCHANGED <<link_status, asking, chip, device, forgot, current>>

\* The rest of init(): the chip is what it should be.
CheckId ==
  /\ main = "id"
  /\ (Ok /\ GoTo("stopped")) \/ (Fail /\ GoTo("failed"))
  /\ UNCHANGED <<link_status, asking, chip, device, forgot, current>>

\* Mutated form: what was reported of the link before is kept.
Negotiate_KeepsLink ==
  /\ main = "stopped" /\ poll = "idle"
  /\ \/ Ok /\ GoTo("negotiating") /\ busy' = TRUE /\ LoseLink
     \/ Fail /\ UNCHANGED <<caller, busy, wire, lost, current>>
  /\ forgot' = mac
  /\ UNCHANGED <<link_status, asking, powered, reset, cable, device>>

\* negotiate(), called when the driver is started.  A call of get_link() that
\* was under way when it was stopped is over, and may have come after it.
Negotiate ==
  /\ main = "stopped" /\ poll = "idle"
  /\ link_status' = FALSE
  /\ \/ Ok /\ GoTo("negotiating") /\ busy' = TRUE /\ LoseLink
     \/ Fail /\ UNCHANGED <<caller, busy, wire, lost, current>>
  /\ forgot' = mac
  /\ UNCHANGED <<asking, powered, reset, cable, device>>

\* It waits for the negotiation, not for ever, reading the status; then the
\* driver runs, and its timer.
AwaitNegotiation ==
  /\ main = "negotiating"
  /\ \/ Ok /\ ~busy /\ GoTo("running")
     \/ Ok /\ busy /\ Again(NegoTries, "running")
     \/ Fail /\ GoTo("stopped")
  /\ lost' = (wire = Down /\ lost)
  /\ running' = (main' = "running")
  /\ UNCHANGED <<link_status, asking, powered, reset, busy, cable, wire, mac, mac_mode, forgot,
                 current>>

\* The driver is stopped.  It takes the link for lost without asking.
Stop ==
  /\ main = "running" /\ stops < MaxStops
  /\ stops' = stops + 1
  /\ GoTo("stopped") /\ running' = FALSE /\ mac' = FALSE /\ current' = FALSE
  /\ UNCHANGED <<link_status, asking, chip, mac_mode, forgot, breaks, errors>>

\* pwrctl(false), called by powerdown() and deinit(); the driver is not asked.
\* It reads the bit back: that it fails does not mean that nothing happened.
PowerDown ==
  /\ main \in {"stopped", "running"}
  /\ GoTo("off")
  /\ \/ Ok /\ powered' = FALSE /\ LoseLink
     \/ Fail /\ powered' = FALSE /\ LoseLink
     \/ Fail /\ UNCHANGED <<powered, wire, lost, current>>
  /\ UNCHANGED <<link_status, asking, reset, busy, cable, device, forgot>>

MainTask ==
  \/ PowerUp \/ AwaitPower \/ Reset \/ AwaitReset \/ CheckId \/ Negotiate
  \/ AwaitNegotiation

-----------------------------------------------------------------------------
(***************************************************************************)
(* get_link(): jl1101_update_link_duplex_speed(), by the driver's timer.   *)
(***************************************************************************)

\* A call that fails: what it has read is gone, a lost link too.
GiveUp ==
  /\ poll' = "idle" /\ up' = FALSE /\ mode' = Down /\ current' = FALSE
  /\ forgot' = (forgot \/ (poll # "idle" /\ up # link_status))

\* Page 0 is selected and the status read.
ReadStatus ==
  /\ poll = "idle" /\ running
  /\ \/ Ok /\ poll' = "peer" /\ up' = (wire # Down /\ ~lost) /\ lost' = FALSE
        /\ current' = ~lost /\ UNCHANGED <<mode, forgot>>
     \/ Fail /\ GiveUp /\ UNCHANGED lost
  /\ UNCHANGED <<link_status, caller, powered, reset, busy, cable, wire, device>>

\* Has the link changed?
ReadPeer ==
  /\ poll = "peer"
  /\ \/ Ok /\ up = link_status /\ poll' = "idle" /\ up' = FALSE /\ UNCHANGED <<mode, forgot, current>>
     \/ Ok /\ up # link_status /\ poll' = (IF up THEN "mode" ELSE "report")
        /\ UNCHANGED <<up, mode, forgot, current>>
     \/ Fail /\ GiveUp
  /\ UNCHANGED <<link_status, caller, chip, device>>

\* The mode that was negotiated, and the reports of it.  A link that is being
\* lost has any mode.
ReadMode ==
  /\ poll = "mode"
  /\ \/ Ok /\ mode' \in (IF wire = Down THEN Mode ELSE {wire}) /\ poll' = "report"
        /\ mac_mode' = mode' /\ UNCHANGED <<up, forgot, current>>
     \/ Fail /\ mac_mode' \in Mode \cup {mac_mode} /\ GiveUp
  /\ UNCHANGED <<link_status, caller, chip, running, mac>>

Report ==
  /\ poll = "report"
  /\ \/ Ok /\ mac' = up /\ link_status' = up
        /\ poll' = "idle" /\ up' = FALSE /\ mode' = Down /\ forgot' = FALSE /\ UNCHANGED current
     \/ Fail /\ mac' \in {up, mac} /\ GiveUp /\ UNCHANGED link_status
  /\ UNCHANGED <<caller, chip, running, mac_mode>>

GetLink == ReadStatus \/ ReadPeer \/ ReadMode \/ Report

PhyNext == MainTask \/ Stop \/ PowerDown \/ GetLink \/ Chip \/ Unplugged \/ Plugged

PhySpec == PhyInit /\ [][PhyNext]_phyVars

-----------------------------------------------------------------------------
(***************************************************************************)
(* Properties.                                                             *)
(***************************************************************************)

\* After one call that went through and read what still is, the driver knows the
\* link that is there and its mode, although get_link() tells it of changes only, is
\* stopped and started in between, and is refused at any access.
\* The exceptions: a call failed that had read a change, and the link changed back
\* before the next one, which finds nothing to report; or a call that was under way
\* when the driver was stopped reported a link that is gone when it starts again.
DriverKnowsLink ==
  running /\ poll = "idle" /\ current /\ ~forgot =>
    mac = (wire # Down) /\ (mac => mac_mode = wire)
=============================================================================
