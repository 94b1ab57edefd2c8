------------------------------- MODULE RxStamp -------------------------------
(***************************************************************************)
(* Where T2 comes from: the taps of the W5500's SPI reads and of its INTn  *)
(* pin (components/ethernet/w5500_custom_spi.cpp), the choice of a stamp   *)
(* in eth_input_hook_() (components/ntp_server/ntp_server.cpp) and the     *)
(* admission rule that vouches for it (rx_admission.h).                    *)
(*                                                                         *)
(* Four parties act on their own: the wire, the chip, the driver's receive *)
(* task, and whichever task is transmitting.  The chip holds INTn back for *)
(* INTLEVEL after it was cleared; the driver clears it once and then reads *)
(* frames until the buffer is empty, so one edge may stand for many frames *)
(* and an edge may come for a frame that is already read.                  *)
(*                                                                         *)
(* The corrections for the length of a frame and for the chip's latency    *)
(* move T2 by a constant of the frame and are left out.                    *)
(***************************************************************************)
EXTENDS Integers, Sequences

CONSTANTS
  BURST_GAP_US,       \* a longer pause between two reads starts a burst
  LEAD_MAX,           \* the burst start is T2 only if the size read is this near
  GAP_MAX,            \* ... and a stamp at all only if the hook is this near
  STRICT_US,          \* RX_EDGE_LEAD_STRICT_US
  STALL_MAX_US,       \* RX_STALL_MAX_US
  EDGE_MAX_AGE_US,    \* RX_STALL_EDGE_MAX_AGE_US
  FRESH_GAP_US,       \* RX_FRESH_BURST_MIN_GAP_US
  LEVEL_SHORT,        \* W5500_INT_LEVEL_SHORT, as a time
  LEVEL_DEFAULT,      \* W5500_INT_LEVEL_DEFAULT, as a time
  WAKE, IR_TO_SIZE, SIZE_TO_PAYLOAD, \* how long the driver's steps take
  PAYLOAD_TO_HOOK,    \* a set: the hook is reached sooner or later
  NEXT_SIZE,          \* from one frame to the size read of the next
  STALL, StallsAt,    \* what a stall of the driver's task adds, and where
  Switches,           \* settings of the switches, chosen at the start
  MaxFrames, MaxStalls, MaxSends, Horizon \* bounds

ASSUME RxAssumption ==
  /\ {BURST_GAP_US, LEAD_MAX, GAP_MAX, STRICT_US, STALL_MAX_US, EDGE_MAX_AGE_US,
      FRESH_GAP_US, LEVEL_SHORT, LEVEL_DEFAULT, WAKE, IR_TO_SIZE, SIZE_TO_PAYLOAD,
      NEXT_SIZE, STALL, MaxFrames, MaxStalls, MaxSends, Horizon} \subseteq Nat
  /\ LEAD_MAX > 0
  /\ PAYLOAD_TO_HOOK \subseteq Nat \ {0}
  /\ StallsAt \subseteq {"ir", "size", "payload", "hook"}
  /\ Switches \subseteq
       [strict : BOOLEAN, short_wait : BOOLEAN, int_edge_t2 : BOOLEAN]

VARIABLES
  now,                \* micros(), in ticks
  switch,             \* the switches' settings
  rxbuf,              \* frames in the chip's receive buffer: [ntp, at]
  ir,                 \* the chip's RECV interrupt bit
  intn,               \* the chip asserts INTn
  hold_until,         \* it may not assert INTn again before
  edge,               \* g_int_edge_us and g_int_edge_seq
  old_edge,           \* the pair before
  notified,           \* the pin's interrupt has notified the driver's task
  dpc,                \* where the driver's task is
  ready,              \* when it takes its next step
  frame,              \* the frame it has read
  rx_size_read_us, rx_payloads_since_size_read, rx_size_value,
  burst_start_us, last_txn_us,  \* the taps
  last_int_edge_seq_for_t2_,
  hook,               \* the HookInfo of the last request
  spent               \* frames, stalls and sends so far

wire   == <<rxbuf, ir, intn, hold_until, edge, old_edge, notified>>
driver == <<dpc, ready, frame>>
sizes  == <<rx_size_read_us, rx_payloads_since_size_read, rx_size_value>>
bursts == <<burst_start_us, last_txn_us>>
server == <<last_int_edge_seq_for_t2_, hook>>
rxvars == <<now, switch, wire, driver, sizes, bursts, server, spent>>

NoFrame == [ntp |-> FALSE, at |-> 0]
NoInfo == [t |-> 0, from |-> "none", at |-> 0, capture_armed |-> FALSE,
           edge_usable |-> FALSE, lead_us |-> 0, queued |-> -1, rx_gap_us |-> -1]

Start == BURST_GAP_US + 1

Init ==
  /\ now = Start
  /\ switch \in Switches
  /\ rxbuf = << >> /\ ir = FALSE /\ intn = FALSE /\ hold_until = 0
  /\ edge = [us |-> 0, seq |-> 0] /\ old_edge = edge /\ notified = FALSE
  /\ dpc = "wait" /\ ready = 0 /\ frame = NoFrame
  /\ rx_size_read_us = 0 /\ rx_payloads_since_size_read = 0 /\ rx_size_value = 0
  /\ burst_start_us = 0 /\ last_txn_us = 0
  /\ last_int_edge_seq_for_t2_ = 0 /\ hook = NoInfo
  /\ spent = [frames |-> 0, stalls |-> 0, sends |-> 0]

-----------------------------------------------------------------------------
(***************************************************************************)
(* The chip.                                                               *)
(***************************************************************************)

IntLevel == IF switch.short_wait THEN LEVEL_SHORT ELSE LEVEL_DEFAULT

\* A frame is complete in the chip's buffer: RECV is raised if it was not.
FrameArrives(ntp) ==
  /\ spent.frames < MaxFrames
  /\ spent' = [spent EXCEPT !.frames = @ + 1]
  /\ rxbuf' = Append(rxbuf, [ntp |-> ntp, at |-> now])
  /\ ir' = TRUE
  /\ UNCHANGED <<now, switch, intn, hold_until, edge, old_edge, notified,
                 driver, sizes, bursts, server>>

IntDue == ir /\ ~intn /\ now >= hold_until

\* INTn falls: int_capture_cb() stamps the edge and the pin's interrupt wakes
\* the driver.
IntEdge ==
  /\ IntDue
  /\ intn' = TRUE /\ notified' = TRUE
  /\ edge' = [us |-> now, seq |-> edge.seq + 1] /\ old_edge' = edge
  /\ UNCHANGED <<now, switch, rxbuf, ir, hold_until, driver, sizes, bursts,
                 server, spent>>

-----------------------------------------------------------------------------
(***************************************************************************)
(* SPI reads.                                                              *)
(***************************************************************************)

\* note_read_transaction(): a read after a pause starts a burst.
NoteRead ==
  /\ burst_start_us' =
       IF now - last_txn_us > BURST_GAP_US THEN now ELSE burst_start_us
  /\ last_txn_us' = now

\* Another task transmits a frame: it polls the free space, Sn_CR and Sn_IR,
\* and those reads pass the same tap.
SendPolls ==
  /\ spent.sends < MaxSends
  /\ spent' = [spent EXCEPT !.sends = @ + 1]
  /\ NoteRead
  /\ UNCHANGED <<now, switch, wire, driver, sizes, server>>

AtStep(pc) == dpc = pc /\ now >= ready
GoTo(pc, delay) == dpc' = pc /\ ready' = now + delay

\* The task waits for the pin's interrupt.
DriverWakes ==
  /\ dpc = "wait" /\ notified
  /\ notified' = FALSE
  /\ GoTo("ir", WAKE)
  /\ UNCHANGED <<now, switch, rxbuf, ir, intn, hold_until, edge, old_edge, frame,
                 sizes, bursts, server, spent>>

\* It reads Sn_IR and clears RECV, once for all the frames that are there.
ReadIr ==
  /\ AtStep("ir")
  /\ NoteRead
  /\ IF ir THEN /\ ir' = FALSE /\ intn' = FALSE
                /\ hold_until' = now + IntLevel
                /\ GoTo("size", IR_TO_SIZE)
           ELSE /\ UNCHANGED <<ir, intn, hold_until>>
                /\ GoTo("wait", 0)
  /\ UNCHANGED <<now, switch, rxbuf, edge, old_edge, notified, frame, sizes,
                 server, spent>>

\* Mutated form: payloads are counted from the start.
ReadSize_NoReset ==
  /\ AtStep("size")
  /\ NoteRead
  /\ rx_size_read_us' = now
  /\ rx_size_value' = Len(rxbuf)
  /\ IF rxbuf = << >> THEN GoTo("wait", 0) ELSE GoTo("payload", SIZE_TO_PAYLOAD)
  /\ UNCHANGED <<now, switch, wire, frame, server, spent, rx_payloads_since_size_read>>

\* It reads Sn_RX_RSR, and goes back to waiting when nothing is left.
ReadSize ==
  /\ AtStep("size")
  /\ NoteRead
  /\ rx_size_read_us' = now
  /\ rx_payloads_since_size_read' = 0
  /\ rx_size_value' = Len(rxbuf)
  /\ IF rxbuf = << >> THEN GoTo("wait", 0) ELSE GoTo("payload", SIZE_TO_PAYLOAD)
  /\ UNCHANGED <<now, switch, wire, frame, server, spent>>

\* It clocks one frame out and issues RECV.
ReadPayload ==
  /\ AtStep("payload")
  /\ NoteRead
  /\ rx_payloads_since_size_read' = rx_payloads_since_size_read + 1
  /\ frame' = Head(rxbuf) /\ rxbuf' = Tail(rxbuf)
  /\ \E d \in PAYLOAD_TO_HOOK : GoTo("hook", d)
  /\ UNCHANGED <<now, switch, ir, intn, hold_until, edge, old_edge, notified,
                 rx_size_read_us, rx_size_value, server, spent>>

-----------------------------------------------------------------------------
(***************************************************************************)
(* eth_input_hook_().                                                      *)
(***************************************************************************)

\* w5500_int_stamp() reads the time and then the sequence number of an edge.
\* The interrupt writes them in that order too, on either core, so at the
\* instant of an edge either may still be that of the edge before.
EdgeReads ==
  IF edge.us = now
    THEN [us : {edge.us, old_edge.us}, seq : {edge.seq, old_edge.seq}]
    ELSE {edge}

\* evaluate_rx_edge().
Lead(e) == burst_start_us - e.us

EdgeUsable(e) ==
  /\ e.seq # 0 /\ burst_start_us # 0
  /\ Lead(e) > 0 /\ Lead(e) < EDGE_MAX_AGE_US

StampIsOurs == rx_size_read_us # 0 /\ rx_payloads_since_size_read = 1

\* Mutated form: any burst start before the size read will do.
BurstNear_AnyLead ==
  burst_start_us # 0 /\ rx_size_read_us - burst_start_us > 0

\* The burst that the size read belongs to began a plausible time before it.
BurstNear ==
  /\ burst_start_us # 0
  /\ rx_size_read_us - burst_start_us > 0
  /\ rx_size_read_us - burst_start_us < LEAD_MAX

\* The stamp the taps give: the start of the burst, the size read, or the hook.
TapStamp ==
  LET tap == IF BurstNear THEN [t |-> burst_start_us, from |-> "burst"]
                          ELSE [t |-> rx_size_read_us, from |-> "size"]
  IN  IF StampIsOurs /\ now - tap.t > 0 /\ now - tap.t < GAP_MAX
        THEN tap ELSE [t |-> now, from |-> "hook"]

\* The interrupt edge is taken instead if it is near and was not taken before.
TakesEdge(e) ==
  /\ switch.int_edge_t2
  /\ EdgeUsable(e) /\ Lead(e) < STRICT_US
  /\ e.seq # last_int_edge_seq_for_t2_
  /\ now - e.us > 0 /\ now - e.us < EDGE_MAX_AGE_US

Stamp(e) == IF TakesEdge(e) THEN [t |-> e.us, from |-> "edge"] ELSE TapStamp

\* What the hook records of a request; `at' is when the frame really came.
HookInfo(e) ==
  [t |-> Stamp(e).t, from |-> Stamp(e).from, at |-> frame.at,
   capture_armed |-> e.seq # 0,
   edge_usable |-> EdgeUsable(e),
   lead_us |-> IF e.seq = 0 \/ burst_start_us = 0 THEN 0 ELSE Lead(e),
   queued |-> IF StampIsOurs THEN rx_size_value - 1 ELSE -1,
   rx_gap_us |-> IF TapStamp.from = "hook" THEN -1 ELSE now - TapStamp.t]

\* The driver hands the frame to the hook and asks for the next one.  Only an
\* NTP request looks at the stamps; whatever it is, it goes on to lwIP.
Hook ==
  /\ AtStep("hook")
  /\ IF frame.ntp
       THEN \E e \in EdgeReads :
              /\ hook' = HookInfo(e)
              /\ last_int_edge_seq_for_t2_' =
                   IF TakesEdge(e) THEN e.seq ELSE last_int_edge_seq_for_t2_
       ELSE UNCHANGED server
  /\ frame' = NoFrame
  /\ GoTo("size", NEXT_SIZE)
  /\ UNCHANGED <<now, switch, wire, sizes, bursts, spent>>

-----------------------------------------------------------------------------
(***************************************************************************)
(* recv_task_(): admission of the request.                                 *)
(***************************************************************************)

Threshold == IF switch.strict THEN STRICT_US ELSE STALL_MAX_US

\* Mutated form: an edge that is there is an edge that is good.
OldEdge_Never == FALSE

OldEdge == hook.edge_usable /\ hook.lead_us >= Threshold

\* No edge in spite of capture: only the short interrupt wait excuses it, if
\* nothing was queued behind the request and its burst was fresh.
NoEdge ==
  /\ switch.strict /\ hook.capture_armed /\ ~hook.edge_usable
  /\ \/ ~switch.short_wait
     \/ hook.queued < 0 \/ hook.queued >= 1
     \/ hook.rx_gap_us < FRESH_GAP_US

Accepted == hook # NoInfo /\ ~OldEdge /\ ~NoEdge

-----------------------------------------------------------------------------
(***************************************************************************)
(* Time.                                                                   *)
(***************************************************************************)

DriverDue == IF dpc = "wait" THEN notified ELSE now >= ready

\* The task's core is taken from it for a while.
DriverStalls ==
  /\ dpc \in StallsAt /\ spent.stalls < MaxStalls
  /\ spent' = [spent EXCEPT !.stalls = @ + 1]
  /\ ready' = now + STALL
  /\ UNCHANGED <<now, switch, wire, dpc, frame, sizes, bursts, server>>

\* Time runs from the first thing that happens.
Tick ==
  /\ ~IntDue /\ ~DriverDue
  /\ spent.frames + spent.sends > 0
  /\ now < Horizon
  /\ now' = now + 1
  /\ UNCHANGED <<switch, wire, driver, sizes, bursts, server, spent>>

Driver == DriverWakes \/ ReadIr \/ ReadSize \/ ReadPayload \/ Hook

Next ==
  \/ \E ntp \in BOOLEAN : FrameArrives(ntp)
  \/ IntEdge
  \/ Driver
  \/ SendPolls
  \/ DriverStalls
  \/ Tick

Spec == Init /\ [][Next]_rxvars

-----------------------------------------------------------------------------
(***************************************************************************)
(* Properties.                                                             *)
(***************************************************************************)

Frame == [ntp : BOOLEAN, at : Nat]

WireType ==
  /\ rxbuf \in Seq(Frame)
  /\ ir \in BOOLEAN /\ intn \in BOOLEAN /\ notified \in BOOLEAN
  /\ hold_until \in Nat
  /\ edge \in [us : Nat, seq : Nat] /\ old_edge \in [us : Nat, seq : Nat]

DriverType ==
  /\ dpc \in {"wait", "ir", "size", "payload", "hook"}
  /\ ready \in Nat
  /\ frame \in Frame

TapType ==
  /\ rx_size_read_us \in Nat /\ rx_size_value \in Nat
  /\ rx_payloads_since_size_read \in {0, 1}
  /\ burst_start_us \in Nat /\ last_txn_us \in Nat

ServerType ==
  /\ last_int_edge_seq_for_t2_ \in Nat
  /\ hook \in [t : Nat, from : {"none", "hook", "size", "burst", "edge"}, at : Nat,
                capture_armed : BOOLEAN, edge_usable : BOOLEAN, lead_us : Int,
                queued : Int, rx_gap_us : Int]

\* Types; and a size read is followed by one payload at most.
TypeOK ==
  /\ now \in Nat /\ switch \in Switches
  /\ spent \in [frames : Nat, stalls : Nat, sends : Nat]
  /\ WireType /\ DriverType /\ TapType /\ ServerType

\* A burst that began long before, or with another task's polls, cannot
\* back-date a stamp taken from the reads by an arbitrary amount: it is less
\* than LEAD_MAX before the frame came.
NotBackdated ==
  hook.from \in {"hook", "size", "burst"} => hook.at - hook.t < LEAD_MAX

\* A request that is accepted on the strength of an interrupt edge, and is
\* stamped by the edge or by the burst it opened, came no earlier before its
\* stamp than the chip may hold the edge back and the rule tolerates a lead.
EdgeVouches ==
  Accepted /\ hook.edge_usable /\ hook.from \in {"burst", "edge"} =>
    hook.t - hook.at < IntLevel + Threshold

\* "When the receive path stalls, the burst starts up to ~100 ms after the
\* edge, T2 is that late, and rx_admission() in recv_task_() refuses the
\* request": under the strict rule no accepted stamp is that late.
StallIsRefused ==
  switch.strict /\ Accepted /\ hook.from \in {"burst", "edge"} =>
    hook.t - hook.at < IntLevel + STRICT_US

=============================================================================
