---------------------------- MODULE RxStampProofs ----------------------------
(***************************************************************************)
(* For every timing of the driver and of the chip, every number of frames, *)
(* stalls and sends and every setting of the switches: a stamp that comes  *)
(* from the SPI reads is at most LEAD_MAX before the frame, and one that   *)
(* an interrupt edge vouches for is late by no more than the rule says.    *)
(* And for every number of tasks and bins, the network recorder counts a   *)
(* frame in the bin of its time.                                           *)
(*                                                                         *)
(* The first argument is about the frame in the driver's hands: it was in  *)
(* the chip's buffer when the size was read, so it came no later than that *)
(* read, and the burst start is taken only if it is near the same read.    *)
(***************************************************************************)
EXTENDS RxStamp, NetRecorder, TLAPS

\* The times are natural numbers, and a stall is one too.
LEMMA Times ==
  /\ LEAD_MAX \in Nat /\ LEAD_MAX > 0 /\ BURST_GAP_US \in Nat
  /\ WAKE \in Nat /\ IR_TO_SIZE \in Nat /\ SIZE_TO_PAYLOAD \in Nat
  /\ NEXT_SIZE \in Nat /\ STALL \in Nat
  /\ LEVEL_SHORT \in Nat /\ LEVEL_DEFAULT \in Nat
  /\ PAYLOAD_TO_HOOK \subseteq Nat
  /\ MaxFrames \in Nat /\ MaxStalls \in Nat /\ MaxSends \in Nat
BY RxAssumption DEF RxAssumption

USE Times

\* Nothing came, and nothing was read, later than now.
Past ==
  /\ \A i \in 1 .. Len(rxbuf) : rxbuf[i].at <= now
  /\ frame.at <= now
  /\ rx_size_read_us <= now

\* The frame that is or will be in the driver's hands came before the size read.
Held ==
  /\ dpc = "payload" =>
       /\ rxbuf # << >> /\ rxbuf[1].at <= rx_size_read_us
       /\ rx_payloads_since_size_read = 0
  /\ dpc = "hook" => frame.at <= rx_size_read_us

RxInv == TypeOK /\ Past /\ Held /\ NotBackdated

-----------------------------------------------------------------------------
(***************************************************************************)
(* The stamps a request may get.                                           *)
(***************************************************************************)

\* The taps give a time, from one of three sources.
LEMMA TapStampType ==
  ASSUME TypeOK
  PROVE  /\ TapStamp.t \in Nat
         /\ TapStamp.from \in {"hook", "size", "burst"}
BY DEF TapStamp, TypeOK, TapType

\* A tap's stamp is less than LEAD_MAX before a frame that came by the size read.
LEMMA TapStampNear ==
  ASSUME TypeOK, NEW at \in Nat, at <= rx_size_read_us, rx_size_read_us <= now
  PROVE  at - TapStamp.t < LEAD_MAX
<1>1. CASE TapStamp.t = now BY <1>1 DEF TypeOK, TapType
<1>2. CASE TapStamp.t = rx_size_read_us BY <1>2 DEF TypeOK, TapType
<1>3. CASE TapStamp.t = burst_start_us /\ BurstNear
  BY <1>3 DEF TypeOK, TapType, BurstNear
<1>4. \/ TapStamp.t = now
      \/ TapStamp.t = rx_size_read_us
      \/ TapStamp.t = burst_start_us /\ BurstNear
  BY DEF TapStamp
<1> QED BY <1>1, <1>2, <1>3, <1>4

\* What the hook reads of the last edge is a time and a number.
LEMMA EdgeReadsType ==
  ASSUME TypeOK, NEW e \in EdgeReads
  PROVE  e \in [us : Nat, seq : Nat]
BY DEF TypeOK, WireType, EdgeReads

\* What the hook records has its types.
LEMMA HookInfoType ==
  ASSUME TypeOK, NEW e \in EdgeReads
  PROVE  HookInfo(e) \in
           [t : Nat, from : {"none", "hook", "size", "burst", "edge"}, at : Nat,
            capture_armed : BOOLEAN, edge_usable : BOOLEAN, lead_us : Int,
            queued : Int, rx_gap_us : Int]
<1>1. e.us \in Nat /\ e.seq \in Nat BY EdgeReadsType
<1>2. TapStamp.t \in Nat /\ TapStamp.from \in {"hook", "size", "burst"}
  BY TapStampType
<1>3. Stamp(e).t \in Nat /\ Stamp(e).from \in {"hook", "size", "burst", "edge"}
  BY <1>1, <1>2 DEF Stamp
<1>4. Lead(e) \in Int BY <1>1 DEF Lead, TypeOK, TapType
<1>5. EdgeUsable(e) \in BOOLEAN BY DEF EdgeUsable
<1>6. (IF TapStamp.from = "hook" THEN -1 ELSE now - TapStamp.t) \in Int
  BY <1>2 DEF TypeOK
<1>7. (IF StampIsOurs THEN rx_size_value - 1 ELSE -1) \in Int BY DEF TypeOK, TapType
<1>8. frame.at \in Nat BY DEF TypeOK, DriverType, Frame
<1> QED BY <1>3, <1>4, <1>5, <1>6, <1>7, <1>8 DEF HookInfo

-----------------------------------------------------------------------------
(***************************************************************************)
(* The invariant.                                                          *)
(***************************************************************************)

\* It holds at the start.
LEMMA InitInv == Init => RxInv
<1> SUFFICES ASSUME Init PROVE RxInv
  OBVIOUS
<1>1. now \in Nat /\ switch \in Switches BY DEF Init, Start
<1>2. spent \in [frames : Nat, stalls : Nat, sends : Nat] BY DEF Init
<1>3. WireType
  <2>1. << >> \in Seq(Frame) OBVIOUS
  <2> QED BY <2>1 DEF Init, WireType
<1>4. DriverType BY DEF Init, DriverType, NoFrame, Frame
<1>5. TapType BY DEF Init, TapType
<1>6. ServerType BY DEF Init, ServerType, NoInfo
<1>7. Past BY <1>1 DEF Init, Past, NoFrame
<1>8. Held BY DEF Init, Held
<1>9. NotBackdated BY DEF Init, NotBackdated, NoInfo
<1> QED BY <1>1, <1>2, <1>3, <1>4, <1>5, <1>6, <1>7, <1>8, <1>9 DEF RxInv, TypeOK

\* A record of a request and what was recorded of it are not touched.
LEMMA HookKept ==
  ASSUME NotBackdated, UNCHANGED hook
  PROVE  NotBackdated'
BY DEF NotBackdated

\* The elements of a sequence over a set are in the set.
LEMMA ElementOf ==
  ASSUME NEW S, NEW s \in Seq(S), NEW i \in 1 .. Len(s)
  PROVE  s[i] \in S
OBVIOUS

\* What a step leaves alone keeps its type.
LEMMA WireKept == ASSUME WireType, UNCHANGED wire PROVE WireType'
BY DEF WireType, wire

LEMMA DriverKept == ASSUME DriverType, UNCHANGED driver PROVE DriverType'
BY DEF DriverType, driver

LEMMA TapsKept == ASSUME TapType, UNCHANGED <<sizes, bursts>> PROVE TapType'
BY DEF TapType, sizes, bursts

LEMMA ServerKept == ASSUME ServerType, UNCHANGED server PROVE ServerType'
BY DEF ServerType, server

\* A read leaves the size's taps typed.
LEMMA ReadKept ==
  ASSUME TypeOK, NoteRead, UNCHANGED sizes
  PROVE  TapType'
BY DEF TypeOK, TapType, NoteRead, sizes

\* It survives every step.
LEMMA StepInv == RxInv /\ [Next]_rxvars => RxInv'
<1> SUFFICES ASSUME RxInv, [Next]_rxvars PROVE RxInv'
  OBVIOUS
<1> USE DEF RxInv
<1>1. ASSUME NEW ntp \in BOOLEAN, FrameArrives(ntp) PROVE RxInv'
  <2> DEFINE f == [ntp |-> ntp, at |-> now]
  <2>1. f \in Frame BY DEF TypeOK, Frame
  <2>2. rxbuf \in Seq(Frame) BY DEF TypeOK, WireType
  <2>3. rxbuf' = Append(rxbuf, f) BY <1>1 DEF FrameArrives
  <2>4. /\ rxbuf' \in Seq(Frame)
        /\ Len(rxbuf') = Len(rxbuf) + 1
        /\ \A i \in 1 .. Len(rxbuf) : rxbuf'[i] = rxbuf[i]
        /\ rxbuf'[Len(rxbuf) + 1] = f
    <3> HIDE DEF f
    <3> QED BY <2>1, <2>2, <2>3
  <2>5. TypeOK'
    <3>1. WireType' BY <1>1, <2>4 DEF FrameArrives, TypeOK, WireType
    <3>2. spent' \in [frames : Nat, stalls : Nat, sends : Nat]
      <4>1. spent' = [spent EXCEPT !.frames = spent.frames + 1]
        BY <1>1 DEF FrameArrives
      <4> QED BY <4>1 DEF TypeOK
    <3>3. UNCHANGED <<now, switch, driver, sizes, bursts, server>> BY <1>1 DEF FrameArrives
    <3> QED BY <3>3, <3>1, <3>2, DriverKept, TapsKept, ServerKept DEF TypeOK
  <2>6. Past'
    <3>1. UNCHANGED <<now, frame, rx_size_read_us>>
      BY <1>1 DEF FrameArrives, driver, sizes
    <3>2. f.at = now OBVIOUS
    <3>3. \A i \in 1 .. Len(rxbuf') : rxbuf'[i].at <= now
      <4> SUFFICES ASSUME NEW i \in 1 .. Len(rxbuf') PROVE rxbuf'[i].at <= now
        OBVIOUS
      <4>1. CASE i = Len(rxbuf) + 1 BY <4>1, <2>4, <3>2 DEF TypeOK
      <4>2. CASE i # Len(rxbuf) + 1
        <5>1. i \in 1 .. Len(rxbuf) BY <4>2, <2>2, <2>4
        <5> QED BY <5>1, <2>4 DEF Past
      <4> QED BY <4>1, <4>2
    <3> QED BY <3>1, <3>3 DEF Past
  <2>7. Held'
    <3>1. UNCHANGED <<dpc, frame, rx_size_read_us, rx_payloads_since_size_read>>
      BY <1>1 DEF FrameArrives, driver, sizes
    <3>2. rxbuf # << >> => rxbuf' # << >> /\ rxbuf'[1] = rxbuf[1]
      BY <2>2, <2>4
    <3> QED BY <3>1, <3>2 DEF Held
  <2>8. NotBackdated' BY <1>1, HookKept DEF FrameArrives, server
  <2> QED BY <2>5, <2>6, <2>7, <2>8
<1>2. CASE IntEdge
  <2>1. TypeOK'
    <3>1. WireType' BY <1>2 DEF IntEdge, TypeOK, WireType
    <3>2. UNCHANGED <<now, switch, spent, driver, sizes, bursts, server>> BY <1>2 DEF IntEdge
    <3> QED BY <3>1, <3>2, DriverKept, TapsKept, ServerKept DEF TypeOK
  <2>2. Past' BY <1>2 DEF IntEdge, Past, driver, sizes
  <2>3. Held' BY <1>2 DEF IntEdge, Held, driver, sizes
  <2>4. NotBackdated' BY <1>2, HookKept DEF IntEdge, server
  <2> QED BY <2>1, <2>2, <2>3, <2>4
<1>3. CASE DriverWakes
  <2>1. TypeOK'
    <3>1. WireType' BY <1>3 DEF DriverWakes, TypeOK, WireType
    <3>2. DriverType' BY <1>3 DEF DriverWakes, TypeOK, DriverType, GoTo
    <3>3. UNCHANGED <<now, switch, spent, sizes, bursts, server>> BY <1>3 DEF DriverWakes
    <3> QED BY <3>1, <3>2, <3>3, TapsKept, ServerKept DEF TypeOK
  <2>2. Past' BY <1>3 DEF DriverWakes, Past, sizes
  <2>3. Held' BY <1>3 DEF DriverWakes, Held, GoTo
  <2>4. NotBackdated' BY <1>3, HookKept DEF DriverWakes, server
  <2> QED BY <2>1, <2>2, <2>3, <2>4
<1>4. CASE ReadIr
  <2>1. IntLevel \in Nat BY DEF IntLevel
  <2>2. TypeOK'
    <3>1. WireType'
      <4>1. hold_until' \in Nat BY <1>4, <2>1 DEF ReadIr, TypeOK, WireType
      <4> QED BY <1>4, <4>1 DEF ReadIr, TypeOK, WireType
    <3>2. DriverType' BY <1>4 DEF ReadIr, TypeOK, DriverType, GoTo
    <3>3. TapType' BY <1>4, ReadKept DEF ReadIr
    <3>4. UNCHANGED <<now, switch, spent, server>> BY <1>4 DEF ReadIr
    <3> QED BY <3>1, <3>2, <3>3, <3>4, ServerKept DEF TypeOK
  <2>3. Past' BY <1>4 DEF ReadIr, Past, sizes
  <2>4. Held' BY <1>4 DEF ReadIr, Held, GoTo
  <2>5. NotBackdated' BY <1>4, HookKept DEF ReadIr, server
  <2> QED BY <2>2, <2>3, <2>4, <2>5
<1>5. CASE ReadSize
  <2>1. Len(rxbuf) \in Nat BY DEF TypeOK, WireType
  <2>2. TypeOK'
    <3>1. DriverType' BY <1>5 DEF ReadSize, TypeOK, DriverType, GoTo
    <3>2. TapType' BY <1>5, <2>1 DEF ReadSize, NoteRead, TypeOK, TapType
    <3>3. UNCHANGED <<now, switch, spent, wire, server>> BY <1>5 DEF ReadSize
    <3> QED BY <3>1, <3>2, <3>3, WireKept, ServerKept DEF TypeOK
  <2>3. Past' BY <1>5 DEF ReadSize, Past, TypeOK, wire
  <2>4. Held'
    <3>1. CASE rxbuf = << >>
      BY <1>5, <3>1 DEF ReadSize, Held, GoTo
    <3>2. CASE rxbuf # << >>
      <4>1. rxbuf[1].at <= now BY <3>2 DEF TypeOK, WireType, Past
      <4> QED BY <1>5, <3>2, <4>1 DEF ReadSize, Held, GoTo, wire
    <3> QED BY <3>1, <3>2
  <2>5. NotBackdated' BY <1>5, HookKept DEF ReadSize, server
  <2> QED BY <2>2, <2>3, <2>4, <2>5
<1>6. CASE ReadPayload
  <2>1. dpc = "payload" BY <1>6 DEF ReadPayload, AtStep
  <2>2. /\ rxbuf # << >> /\ rxbuf[1].at <= rx_size_read_us
        /\ rx_payloads_since_size_read = 0
    BY <2>1 DEF Held
  <2>3. rxbuf \in Seq(Frame) BY DEF TypeOK, WireType
  <2>4. frame' = rxbuf[1] /\ rxbuf' = Tail(rxbuf) /\ dpc' = "hook"
    BY <1>6 DEF ReadPayload, GoTo
  <2>5. /\ Tail(rxbuf) \in Seq(Frame)
        /\ \A i \in 1 .. Len(Tail(rxbuf)) :
             i + 1 \in 1 .. Len(rxbuf) /\ Tail(rxbuf)[i] = rxbuf[i + 1]
        /\ rxbuf[1] \in Frame
    <3>1. Len(rxbuf) \in Nat /\ Len(rxbuf) > 0 BY <2>2, <2>3
    <3>2. Len(Tail(rxbuf)) = Len(rxbuf) - 1 BY <2>2, <2>3
    <3>3. \A i \in 1 .. Len(Tail(rxbuf)) : i + 1 \in 1 .. Len(rxbuf)
      BY <3>1, <3>2
    <3>4. \A i \in 1 .. Len(Tail(rxbuf)) : Tail(rxbuf)[i] = rxbuf[i + 1]
      BY <2>2, <2>3
    <3>5. Tail(rxbuf) \in Seq(Frame) BY <2>2, <2>3
    <3>6. rxbuf[1] \in Frame BY <2>3, <3>1, ElementOf
    <3> QED BY <3>3, <3>4, <3>5, <3>6
  <2>6. TypeOK'
    <3>1. WireType' BY <1>6, <2>4, <2>5 DEF ReadPayload, TypeOK, WireType
    <3>2. ready' \in Nat BY <1>6 DEF ReadPayload, GoTo, TypeOK
    <3>3. DriverType' BY <2>4, <2>5, <3>2 DEF DriverType
    <3>4. rx_payloads_since_size_read' = 1 BY <1>6, <2>2 DEF ReadPayload
    <3>5. TapType' BY <1>6, <3>4 DEF ReadPayload, NoteRead, TypeOK, TapType
    <3>6. UNCHANGED <<now, switch, spent, server>> BY <1>6 DEF ReadPayload
    <3> QED BY <3>1, <3>3, <3>5, <3>6, ServerKept DEF TypeOK
  <2>7. Past'
    <3>1. UNCHANGED <<now, rx_size_read_us>> BY <1>6 DEF ReadPayload
    <3>2. frame'.at <= now BY <2>2, <2>4, <2>5 DEF Past, TypeOK, TapType
    <3>3. \A i \in 1 .. Len(rxbuf') : rxbuf'[i].at <= now
      BY <2>4, <2>5 DEF Past
    <3> QED BY <3>1, <3>2, <3>3 DEF Past
  <2>8. Held' BY <1>6, <2>2, <2>4 DEF ReadPayload, Held
  <2>9. NotBackdated' BY <1>6, HookKept DEF ReadPayload, server
  <2> QED BY <2>6, <2>7, <2>8, <2>9
<1>7. CASE Hook
  <2>1. /\ UNCHANGED <<now, rxbuf, rx_size_read_us>>
        /\ frame' = NoFrame /\ dpc' = "size"
    BY <1>7 DEF Hook, GoTo, wire, sizes
  <2>2. Past' BY <2>1 DEF Past, NoFrame, TypeOK
  <2>3. Held' BY <2>1 DEF Held
  <2>6. DriverType'
    <3>1. NoFrame \in Frame BY DEF NoFrame, Frame
    <3> QED BY <1>7, <3>1 DEF Hook, TypeOK, DriverType, GoTo
  <2>7. UNCHANGED <<now, switch, spent, wire, sizes, bursts>> BY <1>7 DEF Hook
  <2>4. CASE frame.ntp
    <3>1. PICK e \in EdgeReads :
            /\ hook' = HookInfo(e)
            /\ last_int_edge_seq_for_t2_' =
                 IF TakesEdge(e) THEN e.seq ELSE last_int_edge_seq_for_t2_
      BY <1>7, <2>4 DEF Hook
    <3>2. e.seq \in Nat BY EdgeReadsType
    <3>3. TypeOK'
      <4>1. last_int_edge_seq_for_t2_' \in Nat BY <3>1, <3>2 DEF TypeOK, ServerType
      <4>2. ServerType' BY <3>1, <4>1, HookInfoType DEF ServerType
      <4> QED BY <2>6, <2>7, <4>2, WireKept, TapsKept DEF TypeOK
    <3>4. NotBackdated'
      <4>1. frame.at \in Nat /\ frame.at <= rx_size_read_us /\ rx_size_read_us <= now
        BY <1>7 DEF Hook, AtStep, Held, Past, TypeOK, DriverType, Frame
      <4>2. frame.at - TapStamp.t < LEAD_MAX BY <4>1, TapStampNear
      <4>3. /\ HookInfo(e).from = Stamp(e).from
            /\ HookInfo(e).t = Stamp(e).t /\ HookInfo(e).at = frame.at
        BY DEF HookInfo
      <4>4. Stamp(e).from # "edge" => Stamp(e) = TapStamp BY DEF Stamp
      <4> QED BY <3>1, <4>2, <4>3, <4>4 DEF NotBackdated
    <3> QED BY <2>2, <2>3, <3>3, <3>4
  <2>5. CASE ~frame.ntp
    <3>1. UNCHANGED server BY <1>7, <2>5 DEF Hook
    <3>2. TypeOK' BY <2>6, <2>7, <3>1, WireKept, TapsKept, ServerKept DEF TypeOK
    <3>3. NotBackdated' BY <3>1, HookKept DEF server
    <3> QED BY <2>2, <2>3, <3>2, <3>3
  <2> QED BY <2>4, <2>5
<1>8. CASE SendPolls
  <2>1. TypeOK'
    <3>1. TapType' BY <1>8, ReadKept DEF SendPolls
    <3>2. spent' \in [frames : Nat, stalls : Nat, sends : Nat] BY <1>8 DEF SendPolls, TypeOK
    <3>3. UNCHANGED <<now, switch, wire, driver, server>> BY <1>8 DEF SendPolls
    <3> QED BY <3>3, <3>1, <3>2, WireKept, DriverKept, ServerKept DEF TypeOK
  <2>2. Past' BY <1>8 DEF SendPolls, Past, wire, driver, sizes
  <2>3. Held' BY <1>8 DEF SendPolls, Held, wire, driver, sizes
  <2>4. NotBackdated' BY <1>8, HookKept DEF SendPolls, server
  <2> QED BY <2>1, <2>2, <2>3, <2>4
<1>9. CASE DriverStalls
  <2>1. TypeOK'
    <3>1. DriverType' BY <1>9 DEF DriverStalls, TypeOK, DriverType
    <3>2. spent' \in [frames : Nat, stalls : Nat, sends : Nat] BY <1>9 DEF DriverStalls, TypeOK
    <3>3. UNCHANGED <<now, switch, wire, sizes, bursts, server>> BY <1>9 DEF DriverStalls
    <3> QED BY <3>3, <3>1, <3>2, WireKept, TapsKept, ServerKept DEF TypeOK
  <2>2. Past' BY <1>9 DEF DriverStalls, Past, wire, sizes
  <2>3. Held' BY <1>9 DEF DriverStalls, Held, wire, sizes
  <2>4. NotBackdated' BY <1>9, HookKept DEF DriverStalls, server
  <2> QED BY <2>1, <2>2, <2>3, <2>4
<1>10. CASE Tick
  <2>1. TypeOK'
    <3>1. now' \in Nat BY <1>10 DEF Tick, TypeOK
    <3>2. UNCHANGED <<switch, spent, wire, driver, sizes, bursts, server>>
      BY <1>10 DEF Tick
    <3> QED BY <3>1, <3>2, WireKept, DriverKept, TapsKept, ServerKept DEF TypeOK
  <2>2. Past'
    <3>1. now' = now + 1 /\ UNCHANGED <<rxbuf, frame, rx_size_read_us>>
      BY <1>10 DEF Tick, wire, driver, sizes
    <3>2. \A i \in 1 .. Len(rxbuf) : rxbuf[i].at \in Nat
      <4>1. rxbuf \in Seq(Frame) BY DEF TypeOK, WireType
      <4>2. \A i \in 1 .. Len(rxbuf) : rxbuf[i] \in Frame BY <4>1, ElementOf
      <4> QED BY <4>2 DEF Frame
    <3>3. now \in Nat /\ rx_size_read_us \in Nat /\ frame.at \in Nat
      BY DEF TypeOK, TapType, DriverType, Frame
    <3>4. \A i \in 1 .. Len(rxbuf) : rxbuf[i].at <= now + 1
      BY <3>2, <3>3 DEF Past
    <3> QED BY <3>1, <3>3, <3>4 DEF Past
  <2>3. Held' BY <1>10 DEF Tick, Held, wire, driver, sizes
  <2>4. NotBackdated' BY <1>10, HookKept DEF Tick, server
  <2> QED BY <2>1, <2>2, <2>3, <2>4
<1>11. CASE UNCHANGED rxvars
  <2>1. TypeOK'
    BY <1>11, WireKept, DriverKept, TapsKept, ServerKept DEF rxvars, TypeOK
  <2>2. Past' /\ Held' BY <1>11 DEF rxvars, wire, driver, sizes, Past, Held
  <2>3. NotBackdated' BY <1>11, HookKept DEF rxvars, server
  <2> QED BY <2>1, <2>2, <2>3
<1> QED
  BY <1>1, <1>2, <1>3, <1>4, <1>5, <1>6, <1>7, <1>8, <1>9, <1>10, <1>11
     DEF Next, Driver

\* The invariant.
LEMMA Invariant == Spec => []RxInv
BY InitInv, StepInv, PTL DEF Spec

\* Every variable keeps its type, and no size read is followed by two payloads.
THEOREM RxTypeCorrect == Spec => []TypeOK
<1>1. RxInv => TypeOK BY DEF RxInv
<1> QED BY <1>1, Invariant, PTL

\* The lead rule of eth_input_hook_() does what its comment says: neither a
\* stale burst start nor one opened by the transmitter's polls back-dates T2
\* by an arbitrary amount.
THEOREM StampsAreNotBackdated == Spec => []NotBackdated
<1>1. RxInv => NotBackdated BY DEF RxInv
<1> QED BY <1>1, Invariant, PTL

-----------------------------------------------------------------------------
(***************************************************************************)
(* The edge that vouches for a request.  An edge tells of every frame that *)
(* came while RECV was raised, and no clear of RECV lies between the frame *)
(* and an edge the rule may use: such an edge is older than the burst, and *)
(* the burst of the frame's own reads began when RECV was cleared for it.  *)
(***************************************************************************)

\* The driver is held up before it reads Sn_IR only, and the reads that follow
\* are near enough to each other to be one burst.
SteadyDrain ==
  /\ StallsAt \subseteq {"ir"}
  /\ IR_TO_SIZE <= BURST_GAP_US /\ SIZE_TO_PAYLOAD <= BURST_GAP_US
  /\ \A d \in PAYLOAD_TO_HOOK : d + NEXT_SIZE <= BURST_GAP_US

\* The driver has cleared RECV and reads what is there.
Draining == dpc \in {"size", "payload", "hook"}

\* When RECV was last cleared.
Cleared == hold_until - IntLevel

\* An edge at `us' came no later after the frame than the chip may hold it back.
Near(us, f) == us - f.at <= IntLevel

\* The reads of a drain follow each other without a pause, and began at the clear.
OneBurst ==
  /\ burst_start_us <= now /\ last_txn_us <= now
  /\ Draining => now <= ready /\ burst_start_us <= Cleared
  /\ dpc \in {"size", "payload"} => ready - last_txn_us <= BURST_GAP_US
  /\ dpc = "hook" => ready + NEXT_SIZE - last_txn_us <= BURST_GAP_US

\* Edges come in order, and none between a clear and the end of the wait.
EdgesInOrder ==
  /\ Cleared <= now
  /\ old_edge.us <= edge.us /\ edge.us <= now

\* Between drains, what the buffer holds came after the clear, the present edge
\* is near to all of it, and if one is owed it comes as soon as it may.
Waiting ==
  ~Draining =>
    /\ rxbuf # << >> => ir
    /\ \A i \in 1 .. Len(rxbuf) :
         /\ Cleared <= rxbuf[i].at
         /\ Near(edge.us, rxbuf[i])
         /\ ir /\ ~intn /\ hold_until < now => rxbuf[i].at = now

\* In a drain, the edges from before the clear are near to all that is still to
\* be handed on.
Drained ==
  \A us \in {edge.us, old_edge.us} : us < Cleared =>
    /\ Draining => \A i \in 1 .. Len(rxbuf) : Near(us, rxbuf[i])
    /\ dpc = "hook" => Near(us, frame)

VouchInv == OneBurst /\ EdgesInOrder /\ Waiting /\ Drained /\ EdgeVouches

\* The types of what the invariant speaks of.
LEMMA VouchTypes ==
  ASSUME TypeOK
  PROVE  /\ now \in Nat /\ ready \in Nat /\ hold_until \in Nat /\ IntLevel \in Nat
         /\ edge.us \in Nat /\ old_edge.us \in Nat /\ frame.at \in Nat
         /\ burst_start_us \in Nat /\ last_txn_us \in Nat
         /\ ir \in BOOLEAN /\ intn \in BOOLEAN
         /\ Len(rxbuf) \in Nat /\ \A i \in 1 .. Len(rxbuf) : rxbuf[i].at \in Nat
<1>1. now \in Nat /\ ready \in Nat /\ hold_until \in Nat /\ IntLevel \in Nat
  BY DEF TypeOK, DriverType, WireType, IntLevel
<1>2. edge.us \in Nat /\ old_edge.us \in Nat /\ frame.at \in Nat
  BY DEF TypeOK, DriverType, WireType, Frame
<1>3. burst_start_us \in Nat /\ last_txn_us \in Nat /\ ir \in BOOLEAN /\ intn \in BOOLEAN
  BY DEF TypeOK, TapType, WireType
<1>4. rxbuf \in Seq(Frame) BY DEF TypeOK, WireType
<1>5. \A i \in 1 .. Len(rxbuf) : rxbuf[i] \in Frame BY <1>4, ElementOf
<1> QED BY <1>1, <1>2, <1>3, <1>4, <1>5 DEF Frame

\* It holds at the start.
LEMMA VouchInit == Init => VouchInv
<1> SUFFICES ASSUME Init PROVE VouchInv
  OBVIOUS
<1>1. RxInv /\ TypeOK BY InitInv DEF RxInv
<1>2. Len(rxbuf) = 0 /\ rxbuf = << >> /\ ~Draining BY DEF Init, Draining
<1>3. OneBurst BY <1>1, <1>2, VouchTypes DEF Init, OneBurst
<1>4. EdgesInOrder BY <1>1, VouchTypes DEF Init, EdgesInOrder, Cleared
<1>5. Waiting /\ Drained BY <1>2 DEF Init, Waiting, Drained
<1>6. EdgeVouches BY DEF Init, EdgeVouches, NoInfo
<1> QED BY <1>3, <1>4, <1>5, <1>6 DEF VouchInv

\* The record of a request is judged by itself.
LEMMA VouchKept ==
  ASSUME EdgeVouches, UNCHANGED <<hook, switch>>
  PROVE  EdgeVouches'
BY DEF EdgeVouches, Accepted, OldEdge, NoEdge, Threshold, IntLevel

\* A frame comes: no edge is of later.
LEMMA VouchArrives ==
  ASSUME TypeOK, VouchInv, NEW ntp \in BOOLEAN, FrameArrives(ntp)
  PROVE  VouchInv'
<1> DEFINE f == [ntp |-> ntp, at |-> now]
<1>1. /\ rxbuf' = Append(rxbuf, f) /\ ir' = TRUE
      /\ UNCHANGED <<now, switch, intn, hold_until, edge, old_edge, notified>>
      /\ UNCHANGED <<dpc, ready, frame, burst_start_us, last_txn_us, hook>>
  BY DEF FrameArrives, driver, bursts, server
<1>2. f \in Frame /\ f.at = now BY DEF Frame, TypeOK
<1>3. rxbuf \in Seq(Frame) BY DEF TypeOK, WireType
<1>4. /\ Len(rxbuf') = Len(rxbuf) + 1
      /\ \A i \in 1 .. Len(rxbuf) : rxbuf'[i] = rxbuf[i]
      /\ rxbuf'[Len(rxbuf) + 1] = f
  <2> HIDE DEF f
  <2> QED BY <1>1, <1>2, <1>3
<1> HIDE DEF f
<1>5. IntLevel' = IntLevel /\ Cleared' = Cleared /\ Draining' = Draining
  BY <1>1 DEF IntLevel, Cleared, Draining
<1>6. \A i \in 1 .. Len(rxbuf') : i \in 1 .. Len(rxbuf) \/ i = Len(rxbuf) + 1
  BY <1>4, VouchTypes
<1>7. \A i \in 1 .. Len(rxbuf') :
        (i \in 1 .. Len(rxbuf) /\ rxbuf'[i] = rxbuf[i]) \/ rxbuf'[i].at = now
  BY <1>2, <1>4, <1>6
<1>8. OneBurst' BY <1>1, <1>5 DEF VouchInv, OneBurst
<1>9. EdgesInOrder' BY <1>1, <1>5 DEF VouchInv, EdgesInOrder
<1>10. Waiting'
  <2> SUFFICES ASSUME ~Draining, NEW i \in 1 .. Len(rxbuf')
               PROVE  /\ Cleared <= rxbuf'[i].at
                      /\ edge.us - rxbuf'[i].at <= IntLevel
                      /\ ~intn /\ hold_until < now => rxbuf'[i].at = now
    BY <1>1, <1>5 DEF Waiting, Near
  <2>1. CASE rxbuf'[i].at = now
    BY <2>1, VouchTypes DEF VouchInv, EdgesInOrder
  <2>2. CASE i \in 1 .. Len(rxbuf) /\ rxbuf'[i] = rxbuf[i]
    <3>1. rxbuf # << >> BY <2>2
    <3> QED BY <2>2, <3>1 DEF VouchInv, Waiting, Near
  <2> QED BY <1>7, <2>1, <2>2
<1>11. Drained'
  <2> SUFFICES ASSUME NEW us \in {edge.us, old_edge.us}, us < Cleared
               PROVE  /\ Draining => \A i \in 1 .. Len(rxbuf') : us - rxbuf'[i].at <= IntLevel
                      /\ dpc = "hook" => us - frame.at <= IntLevel
    BY <1>1, <1>5 DEF Drained, Near
  <2>1. us <= now /\ us \in Nat BY VouchTypes DEF VouchInv, EdgesInOrder
  <2>2. ASSUME Draining, NEW i \in 1 .. Len(rxbuf') PROVE us - rxbuf'[i].at <= IntLevel
    <3>1. CASE rxbuf'[i].at = now BY <2>1, <3>1, VouchTypes
    <3>2. CASE i \in 1 .. Len(rxbuf) /\ rxbuf'[i] = rxbuf[i]
      BY <2>2, <3>2 DEF VouchInv, Drained, Near
    <3> QED BY <1>7, <3>1, <3>2
  <2> QED BY <2>2 DEF VouchInv, Drained, Near
<1> QED BY <1>1, <1>8, <1>9, <1>10, <1>11, VouchKept DEF VouchInv

\* The edge comes: no later than it is owed.
LEMMA VouchEdge ==
  ASSUME TypeOK, VouchInv, IntEdge
  PROVE  VouchInv'
<1>1. /\ ir /\ ~intn /\ hold_until <= now /\ intn' = TRUE
      /\ edge'.us = now /\ old_edge' = edge
      /\ UNCHANGED <<now, switch, rxbuf, ir, hold_until, dpc, ready, frame,
                     burst_start_us, last_txn_us, hook>>
  BY VouchTypes DEF IntEdge, IntDue, driver, bursts, server
<1>2. IntLevel' = IntLevel /\ Cleared' = Cleared /\ Draining' = Draining
  BY <1>1 DEF IntLevel, Cleared, Draining
<1>3. OneBurst' BY <1>1, <1>2 DEF VouchInv, OneBurst
<1>4. EdgesInOrder' BY <1>1, <1>2, VouchTypes DEF VouchInv, EdgesInOrder
<1>5. Waiting'
  <2> SUFFICES ASSUME ~Draining, NEW i \in 1 .. Len(rxbuf)
               PROVE  Cleared <= rxbuf[i].at /\ now - rxbuf[i].at <= IntLevel
    BY <1>1, <1>2 DEF Waiting, Near
  <2>1. Cleared <= rxbuf[i].at /\ (hold_until < now => rxbuf[i].at = now)
    BY <1>1 DEF VouchInv, Waiting
  <2>2. hold_until < now \/ hold_until = now BY <1>1, VouchTypes
  <2> QED BY <2>1, <2>2, VouchTypes DEF Cleared
<1>6. Drained'
  <2> SUFFICES ASSUME NEW us \in {now, edge.us}, us < Cleared
               PROVE  /\ Draining => \A i \in 1 .. Len(rxbuf) : Near(us, rxbuf[i])
                      /\ dpc = "hook" => Near(us, frame)
    BY <1>1, <1>2 DEF Drained, Near
  <2>1. us # now BY VouchTypes DEF VouchInv, EdgesInOrder, Cleared
  <2> QED BY <2>1 DEF VouchInv, Drained
<1> QED BY <1>1, <1>3, <1>4, <1>5, <1>6, VouchKept DEF VouchInv

\* The task that was notified will read Sn_IR.
LEMMA VouchWakes ==
  ASSUME TypeOK, VouchInv, DriverWakes
  PROVE  VouchInv'
<1>1. /\ dpc = "wait" /\ dpc' = "ir"
      /\ UNCHANGED <<now, switch, rxbuf, ir, intn, hold_until, edge, old_edge, frame,
                     burst_start_us, last_txn_us, hook>>
  BY DEF DriverWakes, GoTo, bursts, server
<1>2. IntLevel' = IntLevel /\ Cleared' = Cleared /\ ~Draining /\ ~Draining'
  BY <1>1 DEF IntLevel, Cleared, Draining
<1>3. OneBurst' BY <1>1, <1>2 DEF VouchInv, OneBurst
<1>4. EdgesInOrder' BY <1>1, <1>2 DEF VouchInv, EdgesInOrder
<1>5. Waiting' BY <1>1, <1>2 DEF VouchInv, Waiting, Near
<1>6. Drained' BY <1>1, <1>2 DEF Drained
<1> QED BY <1>1, <1>3, <1>4, <1>5, <1>6, VouchKept DEF VouchInv

\* A read starts a burst now or goes on with the one there was; a read that is
\* near to the last one goes on with it.
LEMMA BurstGoesOn ==
  ASSUME TypeOK, NoteRead
  PROVE  /\ burst_start_us' \in {burst_start_us, now} /\ last_txn_us' = now
         /\ now - last_txn_us <= BURST_GAP_US => burst_start_us' = burst_start_us
BY VouchTypes DEF NoteRead

\* RECV is cleared: a drain begins, and the edge that is there is near to all
\* that it will read.
LEMMA VouchIr ==
  ASSUME TypeOK, VouchInv, SteadyDrain, ReadIr
  PROVE  VouchInv'
<1>1. /\ dpc = "ir" /\ NoteRead
      /\ UNCHANGED <<now, switch, rxbuf, edge, old_edge, frame, hook>>
  BY DEF ReadIr, AtStep, server
<1>2. IntLevel' = IntLevel /\ ~Draining BY <1>1 DEF IntLevel, Draining
<1>3. EdgeVouches' BY <1>1, VouchKept DEF VouchInv
<1>4. burst_start_us' <= now /\ last_txn_us' = now
  BY <1>1, BurstGoesOn, VouchTypes DEF VouchInv, OneBurst
<1>5. \A us \in {edge.us, old_edge.us} : us \in Nat /\ us <= edge.us
  BY VouchTypes DEF VouchInv, EdgesInOrder
<1>6. CASE ir
  <2>1. /\ dpc' = "size" /\ ready' = now + IR_TO_SIZE
        /\ ir' = FALSE /\ intn' = FALSE /\ hold_until' = now + IntLevel
    BY <1>6 DEF ReadIr, GoTo
  <2>2. Cleared' = now /\ Draining'
    BY <1>2, <2>1, VouchTypes DEF Cleared, Draining
  <2>3. OneBurst' BY <1>1, <1>4, <2>1, <2>2, VouchTypes DEF OneBurst, SteadyDrain
  <2>4. EdgesInOrder' BY <1>1, <2>2, VouchTypes DEF VouchInv, EdgesInOrder
  <2>5. Waiting' BY <2>2 DEF Waiting
  <2>6. \A i \in 1 .. Len(rxbuf) : edge.us - rxbuf[i].at <= IntLevel
    BY <1>2 DEF VouchInv, Waiting, Near
  <2>7. Drained'
    <3>1. \A us \in {edge.us, old_edge.us} : \A i \in 1 .. Len(rxbuf) :
            us - rxbuf[i].at <= IntLevel
      BY <1>5, <2>6, VouchTypes
    <3> QED BY <1>1, <1>2, <2>1, <3>1 DEF Drained, Near
  <2> QED BY <1>3, <2>3, <2>4, <2>5, <2>7 DEF VouchInv
<1>7. CASE ~ir
  <2>1. dpc' = "wait" /\ UNCHANGED <<ir, intn, hold_until>> BY <1>7 DEF ReadIr, GoTo
  <2>2. Cleared' = Cleared /\ ~Draining' BY <1>2, <2>1 DEF Cleared, Draining
  <2>3. OneBurst' BY <1>1, <1>4, <2>1, <2>2, VouchTypes DEF OneBurst
  <2>4. EdgesInOrder' BY <1>1, <2>2 DEF VouchInv, EdgesInOrder
  <2>5. Waiting' BY <1>1, <1>2, <2>1, <2>2 DEF VouchInv, Waiting, Near
  <2>6. Drained' BY <2>1, <2>2 DEF Drained
  <2> QED BY <1>3, <2>3, <2>4, <2>5, <2>6 DEF VouchInv
<1> QED BY <1>6, <1>7

\* The size is read again: the drain goes on, or ends with nothing left.
LEMMA VouchSize ==
  ASSUME TypeOK, VouchInv, SteadyDrain, ReadSize
  PROVE  VouchInv'
<1>1. /\ dpc = "size" /\ ready <= now /\ NoteRead
      /\ UNCHANGED <<now, switch, rxbuf, ir, intn, hold_until, edge, old_edge, frame, hook>>
  BY VouchTypes DEF ReadSize, AtStep, wire, server
<1>2. IntLevel' = IntLevel /\ Cleared' = Cleared /\ Draining
  BY <1>1 DEF IntLevel, Cleared, Draining
<1>3. EdgeVouches' BY <1>1, VouchKept DEF VouchInv
<1>4. now = ready BY <1>1, <1>2, VouchTypes DEF VouchInv, OneBurst
<1>5. burst_start_us' = burst_start_us /\ last_txn_us' = now
  BY <1>1, <1>4, BurstGoesOn DEF VouchInv, OneBurst
<1>6. EdgesInOrder' BY <1>1, <1>2 DEF VouchInv, EdgesInOrder
<1>7. CASE rxbuf = << >>
  <2>1. dpc' = "wait" /\ Len(rxbuf) = 0 BY <1>7 DEF ReadSize, GoTo
  <2>2. ~Draining' BY <2>1 DEF Draining
  <2>3. OneBurst' BY <1>1, <1>5, <2>1, <2>2, VouchTypes DEF VouchInv, OneBurst
  <2>4. Waiting' BY <1>1, <1>7, <2>1 DEF Waiting
  <2>5. Drained' BY <2>1, <2>2 DEF Drained
  <2> QED BY <1>3, <1>6, <2>3, <2>4, <2>5 DEF VouchInv
<1>8. CASE rxbuf # << >>
  <2>1. dpc' = "payload" /\ ready' = now + SIZE_TO_PAYLOAD BY <1>8 DEF ReadSize, GoTo
  <2>2. Draining' BY <2>1 DEF Draining
  <2>3. OneBurst'
    BY <1>1, <1>2, <1>5, <2>1, <2>2, VouchTypes DEF VouchInv, OneBurst, SteadyDrain
  <2>4. Waiting' BY <2>2 DEF Waiting
  <2>5. Drained' BY <1>1, <1>2, <2>1 DEF VouchInv, Drained, Near
  <2> QED BY <1>3, <1>6, <2>3, <2>4, <2>5 DEF VouchInv
<1> QED BY <1>7, <1>8

\* A frame is clocked out: what was so of it in the buffer is so in hand.
LEMMA VouchPayload ==
  ASSUME RxInv, VouchInv, SteadyDrain, ReadPayload
  PROVE  VouchInv'
<1> USE DEF RxInv
<1>1. /\ dpc = "payload" /\ ready <= now /\ NoteRead /\ dpc' = "hook"
      /\ frame' = Head(rxbuf) /\ rxbuf' = Tail(rxbuf)
      /\ UNCHANGED <<now, switch, ir, intn, hold_until, edge, old_edge, hook>>
  BY VouchTypes DEF ReadPayload, AtStep, GoTo, server
<1>2. PICK d \in PAYLOAD_TO_HOOK : ready' = now + d BY DEF ReadPayload, GoTo
<1>3. d \in Nat /\ d + NEXT_SIZE <= BURST_GAP_US BY DEF SteadyDrain
<1>4. IntLevel' = IntLevel /\ Cleared' = Cleared /\ Draining /\ Draining'
  BY <1>1 DEF IntLevel, Cleared, Draining
<1>5. EdgeVouches' BY <1>1, VouchKept DEF VouchInv
<1>6. now = ready BY <1>1, <1>4, VouchTypes DEF VouchInv, OneBurst
<1>7. burst_start_us' = burst_start_us /\ last_txn_us' = now
  BY <1>1, <1>6, BurstGoesOn DEF VouchInv, OneBurst
<1>8. OneBurst' BY <1>1, <1>2, <1>3, <1>4, <1>7, VouchTypes DEF VouchInv, OneBurst
<1>9. EdgesInOrder' BY <1>1, <1>4 DEF VouchInv, EdgesInOrder
<1>10. Waiting' BY <1>4 DEF Waiting
<1>11. rxbuf \in Seq(Frame) /\ rxbuf # << >>
  BY <1>1 DEF TypeOK, WireType, Held
<1>12. /\ frame' = rxbuf[1] /\ 1 \in 1 .. Len(rxbuf)
       /\ \A i \in 1 .. Len(rxbuf') : i + 1 \in 1 .. Len(rxbuf) /\ rxbuf'[i] = rxbuf[i + 1]
  BY <1>1, <1>11
<1>13. Drained'
  <2> SUFFICES ASSUME NEW us \in {edge.us, old_edge.us}, us < Cleared
               PROVE  /\ \A i \in 1 .. Len(rxbuf') : us - rxbuf'[i].at <= IntLevel
                      /\ us - rxbuf[1].at <= IntLevel
    BY <1>1, <1>4, <1>12 DEF Drained, Near
  <2>1. \A i \in 1 .. Len(rxbuf) : us - rxbuf[i].at <= IntLevel
    BY <1>4 DEF VouchInv, Drained, Near
  <2> QED BY <1>12, <2>1
<1> QED BY <1>5, <1>8, <1>9, <1>10, <1>13 DEF VouchInv

\* What the hook records of an accepted request is near to its frame.
LEMMA HookVouches ==
  ASSUME TypeOK, VouchInv, dpc = "hook", NEW e \in EdgeReads,
         hook' = HookInfo(e), UNCHANGED switch
  PROVE  EdgeVouches'
<1> SUFFICES ASSUME Accepted', hook'.edge_usable, hook'.from \in {"burst", "edge"}
             PROVE  hook'.t - hook'.at < IntLevel + Threshold
  BY DEF EdgeVouches, IntLevel, Threshold
<1>1. e.us \in Nat /\ e.seq \in Nat BY EdgeReadsType
<1>2. EdgeUsable(e) BY DEF HookInfo
<1>3. Threshold \in Nat BY RxAssumption DEF RxAssumption, Threshold
<1>4. 0 < Lead(e) /\ Lead(e) < Threshold
  <2>1. 0 < Lead(e) /\ Lead(e) \in Int BY <1>1, <1>2, VouchTypes DEF EdgeUsable, Lead
  <2>2. hook'.lead_us = Lead(e) BY <1>2 DEF HookInfo, EdgeUsable
  <2>3. ~(hook'.lead_us >= Threshold) BY DEF Accepted, OldEdge, Threshold
  <2> QED BY <1>3, <2>1, <2>2, <2>3
<1>5. Draining BY DEF Draining
<1>6. burst_start_us <= now /\ burst_start_us <= Cleared /\ Cleared \in Int
  BY <1>5, VouchTypes DEF VouchInv, OneBurst, Cleared
<1>7. e.us < now /\ e.us < Cleared
  BY <1>1, <1>4, <1>6, VouchTypes DEF Lead
<1>8. e.us \in {edge.us, old_edge.us}
  BY DEF EdgeReads
<1>9. e.us - frame.at <= IntLevel BY <1>7, <1>8 DEF VouchInv, Drained, Near
<1>10. /\ hook'.t = Stamp(e).t /\ hook'.from = Stamp(e).from /\ hook'.at = frame.at
  BY DEF HookInfo
<1>11. CASE TakesEdge(e)
  <2>1. hook'.t = e.us BY <1>10, <1>11 DEF Stamp
  <2> QED BY <1>1, <1>3, <1>4, <1>9, <1>10, <2>1, VouchTypes DEF Lead
<1>12. CASE ~TakesEdge(e)
  <2>1. hook'.t = burst_start_us BY <1>10, <1>12 DEF Stamp, TapStamp
  <2> QED BY <1>1, <1>3, <1>4, <1>9, <1>10, <2>1, VouchTypes DEF Lead
<1> QED BY <1>11, <1>12

\* The frame is handed on.
LEMMA VouchHook ==
  ASSUME TypeOK, VouchInv, SteadyDrain, Hook
  PROVE  VouchInv'
<1>1. /\ dpc = "hook" /\ ready <= now /\ dpc' = "size" /\ ready' = now + NEXT_SIZE
      /\ UNCHANGED <<now, switch, rxbuf, ir, intn, hold_until, edge, old_edge,
                     burst_start_us, last_txn_us>>
  BY VouchTypes DEF Hook, AtStep, GoTo, wire, bursts
<1>2. IntLevel' = IntLevel /\ Cleared' = Cleared /\ Draining /\ Draining'
  BY <1>1 DEF IntLevel, Cleared, Draining
<1>3. now = ready BY <1>1, <1>2, VouchTypes DEF VouchInv, OneBurst
<1>4. OneBurst' BY <1>1, <1>2, <1>3, VouchTypes DEF VouchInv, OneBurst
<1>5. EdgesInOrder' BY <1>1, <1>2 DEF VouchInv, EdgesInOrder
<1>6. Waiting' BY <1>2 DEF Waiting
<1>7. Drained' BY <1>1, <1>2 DEF VouchInv, Drained, Near
<1>8. EdgeVouches'
  <2>1. CASE frame.ntp
    <3>1. PICK e \in EdgeReads : hook' = HookInfo(e) BY <2>1 DEF Hook
    <3> QED BY <1>1, <3>1, HookVouches
  <2>2. CASE ~frame.ntp BY <1>1, <2>2, VouchKept DEF Hook, server, VouchInv
  <2> QED BY <2>1, <2>2
<1> QED BY <1>4, <1>5, <1>6, <1>7, <1>8 DEF VouchInv

\* Another task's polls lengthen the burst of a drain, or start one between two.
LEMMA VouchPolls ==
  ASSUME TypeOK, VouchInv, SendPolls
  PROVE  VouchInv'
<1>1. /\ NoteRead
      /\ UNCHANGED <<now, switch, rxbuf, ir, intn, hold_until, edge, old_edge, dpc, ready,
                     frame, hook>>
  BY DEF SendPolls, wire, driver, server
<1>2. IntLevel' = IntLevel /\ Cleared' = Cleared /\ Draining' = Draining
  BY <1>1 DEF IntLevel, Cleared, Draining
<1>3. burst_start_us' <= now /\ last_txn_us' = now
  BY <1>1, BurstGoesOn, VouchTypes DEF VouchInv, OneBurst
<1>4. Draining => burst_start_us' = burst_start_us
  <2> SUFFICES ASSUME Draining PROVE now - last_txn_us <= BURST_GAP_US
    BY <1>1, BurstGoesOn
  <2>1. CASE dpc = "hook" BY <2>1, VouchTypes DEF VouchInv, OneBurst
  <2>2. CASE dpc \in {"size", "payload"} BY <2>2, VouchTypes DEF VouchInv, OneBurst
  <2> QED BY <2>1, <2>2 DEF Draining
<1>5. OneBurst'
  <2>1. last_txn_us <= now BY DEF VouchInv, OneBurst
  <2> QED BY <1>1, <1>2, <1>3, <1>4, <2>1, VouchTypes DEF VouchInv, OneBurst, Draining
<1>6. EdgesInOrder' BY <1>1, <1>2 DEF VouchInv, EdgesInOrder
<1>7. Waiting' BY <1>1, <1>2 DEF VouchInv, Waiting, Near
<1>8. Drained' BY <1>1, <1>2 DEF VouchInv, Drained, Near
<1> QED BY <1>1, <1>5, <1>6, <1>7, <1>8, VouchKept DEF VouchInv

\* The task is held up where no drain is under way.
LEMMA VouchStalls ==
  ASSUME TypeOK, VouchInv, SteadyDrain, DriverStalls
  PROVE  VouchInv'
<1>1. /\ dpc = "ir"
      /\ UNCHANGED <<now, switch, rxbuf, ir, intn, hold_until, edge, old_edge, dpc, frame,
                     burst_start_us, last_txn_us, hook>>
  BY DEF DriverStalls, SteadyDrain, wire, bursts, server
<1>2. IntLevel' = IntLevel /\ Cleared' = Cleared /\ ~Draining /\ ~Draining'
  BY <1>1 DEF IntLevel, Cleared, Draining
<1>3. OneBurst' BY <1>1, <1>2 DEF VouchInv, OneBurst
<1>4. EdgesInOrder' BY <1>1, <1>2 DEF VouchInv, EdgesInOrder
<1>5. Waiting' BY <1>1, <1>2 DEF VouchInv, Waiting, Near
<1>6. Drained' BY <1>1, <1>2 DEF Drained
<1> QED BY <1>1, <1>3, <1>4, <1>5, <1>6, VouchKept DEF VouchInv

\* Time goes on only when no edge and no read is due.
LEMMA VouchTick ==
  ASSUME TypeOK, VouchInv, Tick
  PROVE  VouchInv'
<1>1. /\ now' = now + 1
      /\ UNCHANGED <<switch, rxbuf, ir, intn, hold_until, edge, old_edge, dpc, ready, frame,
                     burst_start_us, last_txn_us, hook>>
  BY DEF Tick, wire, driver, bursts, server
<1>2. IntLevel' = IntLevel /\ Cleared' = Cleared /\ Draining' = Draining
  BY <1>1 DEF IntLevel, Cleared, Draining
<1>3. Draining => now + 1 <= ready
  BY VouchTypes DEF Tick, DriverDue, Draining
<1>4. ir /\ ~intn => now + 1 <= hold_until
  BY VouchTypes DEF Tick, IntDue
<1>5. OneBurst' BY <1>1, <1>2, <1>3, VouchTypes DEF VouchInv, OneBurst
<1>6. EdgesInOrder' BY <1>1, <1>2, VouchTypes DEF VouchInv, EdgesInOrder, Cleared
<1>7. Waiting'
  <2>1. ir /\ ~intn => ~(hold_until < now + 1) BY <1>4, VouchTypes
  <2> QED BY <1>1, <1>2, <2>1 DEF VouchInv, Waiting, Near
<1>8. Drained' BY <1>1, <1>2 DEF VouchInv, Drained, Near
<1> QED BY <1>1, <1>5, <1>6, <1>7, <1>8, VouchKept DEF VouchInv

\* Nothing happens.
LEMMA VouchStutter ==
  ASSUME VouchInv, UNCHANGED rxvars
  PROVE  VouchInv'
<1>1. UNCHANGED <<now, switch, rxbuf, ir, intn, hold_until, edge, old_edge, dpc, ready, frame,
                  burst_start_us, last_txn_us, hook>>
  BY DEF rxvars, wire, driver, bursts, server
<1>2. IntLevel' = IntLevel /\ Cleared' = Cleared /\ Draining' = Draining
  BY <1>1 DEF IntLevel, Cleared, Draining
<1>3. OneBurst' /\ EdgesInOrder' BY <1>1, <1>2 DEF VouchInv, OneBurst, EdgesInOrder
<1>4. Waiting' /\ Drained' BY <1>1, <1>2 DEF VouchInv, Waiting, Drained, Near
<1> QED BY <1>1, <1>3, <1>4, VouchKept DEF VouchInv

\* Every step keeps it.
LEMMA VouchStep ==
  ASSUME RxInv, VouchInv, SteadyDrain, [Next]_rxvars
  PROVE  VouchInv'
<1> USE DEF RxInv
<1>1. ASSUME NEW ntp \in BOOLEAN, FrameArrives(ntp) PROVE VouchInv' BY <1>1, VouchArrives
<1>2. CASE IntEdge BY <1>2, VouchEdge
<1>3. CASE DriverWakes BY <1>3, VouchWakes
<1>4. CASE ReadIr BY <1>4, VouchIr
<1>5. CASE ReadSize BY <1>5, VouchSize
<1>6. CASE ReadPayload BY <1>6, VouchPayload
<1>7. CASE Hook BY <1>7, VouchHook
<1>8. CASE SendPolls BY <1>8, VouchPolls
<1>9. CASE DriverStalls BY <1>9, VouchStalls
<1>10. CASE Tick BY <1>10, VouchTick
<1>11. CASE UNCHANGED rxvars BY <1>11, VouchStutter
<1> QED
  BY <1>1, <1>2, <1>3, <1>4, <1>5, <1>6, <1>7, <1>8, <1>9, <1>10, <1>11 DEF Next, Driver

\* An accepted request's edge is its own: whatever comes meanwhile and whoever
\* else reads, T2 is late by less than the interrupt wait and the tolerated lead,
\* while the driver drains the chip without a pause (EdgeVouches).
THEOREM AcceptedEdgesVouch ==
  ASSUME SteadyDrain
  PROVE  Spec => []EdgeVouches
<1>1. RxInv /\ VouchInv /\ [Next]_rxvars => VouchInv' BY VouchStep
<1>2. VouchInv => EdgeVouches BY DEF VouchInv
<1> QED BY <1>1, <1>2, VouchInit, Invariant, PTL DEF Spec

-----------------------------------------------------------------------------
(***************************************************************************)
(* The network recorder.  First the arithmetic of multiples and remainders.*)
(***************************************************************************)

\* Multiples add up.
LEMMA TimesAdd ==
  ASSUME NEW r \in Int, NEW j \in Int, NEW k \in Int
  PROVE  /\ j * r \in Int /\ k * r \in Int
         /\ (j + k) * r = j * r + k * r
         /\ (j - k) * r = j * r - k * r
         /\ (k + 1) * r = k * r + r
         /\ (k - 1) * r = k * r - r
OBVIOUS

\* Multiples are in the order of what is multiplied.
LEMMA TimesOrder ==
  ASSUME NEW r \in Nat \ {0}, NEW j \in Int, NEW k \in Int
  PROVE  j <= k <=> j * r <= k * r
<1>1. j <= k => j * r <= k * r OBVIOUS
<1>2. k < j => k * r < j * r OBVIOUS
<1>3. j * r \in Int /\ k * r \in Int OBVIOUS
<1> QED BY <1>1, <1>2, <1>3

\* Division leaves a remainder.
LEMMA Quotient ==
  ASSUME NEW a \in Int, NEW r \in Nat \ {0}
  PROVE  /\ a \div r \in Int /\ a % r \in 0 .. r - 1
         /\ a = (a \div r) * r + (a % r)
<1>1. a \div r \in Int /\ a % r \in 0 .. r - 1 OBVIOUS
<1>2. a = r * (a \div r) + (a % r) OBVIOUS
<1> DEFINE q == a \div r
<1>3. r * q = q * r
  <2>1. q \in Int BY <1>1
  <2> HIDE DEF q
  <2> QED BY <2>1
<1> QED BY <1>1, <1>2, <1>3

\* There is one remainder.
LEMMA OneRemainder ==
  ASSUME NEW a \in Int, NEW r \in Nat \ {0}, NEW q \in Int, NEW b \in 0 .. r - 1,
         a = q * r + b
  PROVE  a % r = b
<1> DEFINE p == a \div r
           c == a % r
<1>1. p \in Int /\ c \in 0 .. r - 1 /\ a = p * r + c BY Quotient
<1> HIDE DEF p, c
<1>2. /\ p * r \in Int /\ q * r \in Int
      /\ (p + 1) * r = p * r + r /\ (q + 1) * r = q * r + r
  BY <1>1, TimesAdd
<1>3. ~(p + 1 <= q)
  <2>1. p + 1 <= q <=> (p + 1) * r <= q * r BY <1>1, TimesOrder
  <2> QED BY <1>1, <1>2, <2>1
<1>4. ~(q + 1 <= p)
  <2>1. q + 1 <= p <=> (q + 1) * r <= p * r BY <1>1, TimesOrder
  <2> QED BY <1>1, <1>2, <2>1
<1>5. p = q BY <1>1, <1>3, <1>4
<1>6. c = b BY <1>1, <1>2, <1>5
<1> QED BY <1>6 DEF c

\* A remainder may be taken before something is added.
LEMMA RemainderAdd ==
  ASSUME NEW a \in Int, NEW b \in Int, NEW r \in Nat \ {0}
  PROVE  ((a % r) + b) % r = (a + b) % r
<1> DEFINE q == a \div r
           m == a % r
           p == (m + b) \div r
           n == (m + b) % r
<1>1. q \in Int /\ m \in 0 .. r - 1 /\ a = q * r + m BY Quotient
<1>2. m + b \in Int BY <1>1
<1>3. p \in Int /\ n \in 0 .. r - 1 /\ m + b = p * r + n BY <1>2, Quotient
<1> HIDE DEF q, m, p, n
<1>4. (q + p) * r = q * r + p * r /\ q * r \in Int /\ p * r \in Int BY <1>1, <1>3, TimesAdd
<1>5. a + b = (q + p) * r + n BY <1>1, <1>3, <1>4
<1>6. q + p \in Int /\ a + b \in Int BY <1>1, <1>3
<1>7. (a + b) % r = n BY <1>3, <1>5, <1>6, OneRemainder
<1> QED BY <1>7 DEF m, n

\* Up to one turn back and forth.
LEMMA SmallRemainder ==
  ASSUME NEW r \in Nat \ {0}, NEW a \in -r .. 2 * r - 1
  PROVE  a % r = IF a < 0 THEN a + r ELSE IF a < r THEN a ELSE a - r
<1>1. a \in Int OBVIOUS
<1>2. CASE a < 0
  <2>1. a + r \in 0 .. r - 1 /\ a = (-1) * r + (a + r) BY <1>2
  <2> QED BY <1>1, <1>2, <2>1, OneRemainder
<1>3. CASE 0 <= a /\ a < r
  <2>1. a \in 0 .. r - 1 /\ a = 0 * r + a BY <1>3
  <2> QED BY <1>1, <1>3, <2>1, OneRemainder
<1>4. CASE r <= a
  <2>1. a - r \in 0 .. r - 1 /\ a = 1 * r + (a - r) BY <1>4
  <2> QED BY <1>1, <1>4, <2>1, OneRemainder
<1> QED BY <1>1, <1>2, <1>3, <1>4

\* The constants are numbers; the wrapped time is one of micros().
LEMMA RecorderBounds ==
  /\ W5500_NET_BINS \in Nat \ {0} /\ W5500_NET_BIN_US \in Nat \ {0}
  /\ US_RANGE \in Nat \ {0} /\ MaxHeld \in Nat /\ MaxQuiet \in Nat
  /\ Span \in Nat /\ Span + MaxHeld < US_RANGE /\ MaxQuiet + MaxHeld < US_RANGE
  /\ Span = W5500_NET_BINS * W5500_NET_BIN_US
<1>1. W5500_NET_BINS \in Nat \ {0} /\ W5500_NET_BIN_US \in Nat \ {0}
  BY RecorderAssumption DEF RecorderAssumption
<1>2. Span \in Nat BY <1>1 DEF Span
<1>3. {US_RANGE, MaxHeld, MaxQuiet} \subseteq Nat /\ US_RANGE > Span + MaxHeld
      /\ US_RANGE > MaxQuiet + MaxHeld
  BY RecorderAssumption DEF RecorderAssumption
<1> QED BY <1>1, <1>2, <1>3 DEF Span

-----------------------------------------------------------------------------
(***************************************************************************)
(* The recorder's invariant: how many bins ago a slot was the current one  *)
(* says which times it counts.                                             *)
(***************************************************************************)

Bin == [start_us : Nat, counted : SUBSET Nat]

\* A task that is about to count does so soon; the recorder is not silent for
\* longer than the time takes to wrap.
RecorderTypeOK ==
  /\ time \in Nat \ {0}
  /\ held \in [Task -> Int]
  /\ \A w \in Task : held[w] # -1 =>
       held[w] \in Nat \ {0} /\ held[w] <= time /\ time <= held[w] + MaxHeld
  /\ cur_at \in Nat /\ cur_at <= time
  /\ cur_at # 0 => time <= cur_at + MaxQuiet + MaxHeld
  /\ recorded \subseteq Nat
  /\ g_net_bins \in [Index -> Bin] /\ g_net_cur \in Index
  /\ g_net_cur_start_us = Us(cur_at)

\* The bin of slot s is so many bins before the current one, and begins then.
BinsAgo(s) == (g_net_cur - s) % W5500_NET_BINS
BinFrom(s) == cur_at - BinsAgo(s) * W5500_NET_BIN_US

\* What should be in a bin that begins at `from'.
Within(from) == {u \in recorded : from <= u /\ u < from + W5500_NET_BIN_US}

\* Nothing counted is of later than the newest bin; each slot counts what is of
\* its time.
CountsInv ==
  g_net_cur_start_us # 0 =>
    /\ \A u \in recorded : u < cur_at + W5500_NET_BIN_US
    /\ \A s \in Index :
         /\ g_net_bins[s].counted = Within(BinFrom(s))
         /\ g_net_bins[s].counted # {} \/ s = g_net_cur => g_net_bins[s].start_us = Us(BinFrom(s))

RecorderInv == RecorderTypeOK /\ CountsInv

\* A wrapped time is a number below the range.
LEMMA UsType ==
  ASSUME NEW t \in Int
  PROVE  Us(t) \in Nat /\ Us(t) < US_RANGE
BY RecorderBounds, Quotient DEF Us

\* Slots and their ages.
LEMMA AgoType ==
  ASSUME NEW c \in Int, NEW s \in Int
  PROVE  (c - s) % W5500_NET_BINS \in 0 .. W5500_NET_BINS - 1
<1>1. c - s \in Int OBVIOUS
<1> QED BY <1>1, RecorderBounds, Quotient

\* A bin that is so many bins back begins no later than the last bin of the ring.
LEMMA BinTimes ==
  ASSUME NEW c \in Int, NEW a \in 0 .. W5500_NET_BINS - 1
  PROVE  /\ a * W5500_NET_BIN_US \in Nat
         /\ c - a * W5500_NET_BIN_US >= c + W5500_NET_BIN_US - Span
         /\ a = 0 => c - a * W5500_NET_BIN_US = c
         /\ a # 0 => c - a * W5500_NET_BIN_US + W5500_NET_BIN_US <= c
<1> DEFINE B == W5500_NET_BIN_US
           N == W5500_NET_BINS
<1>1. B \in Nat \ {0} /\ N \in Nat \ {0} /\ Span = N * B /\ Span \in Nat /\ a \in Int
  BY RecorderBounds
<1>2. (N - 1) * B = N * B - B /\ 0 * B = 0 /\ 1 * B = B /\ a * B \in Int
  BY <1>1, TimesAdd
<1> HIDE DEF B, N
<1>3. 0 <= a <=> 0 * B <= a * B BY <1>1, TimesOrder
<1>4. a <= N - 1 <=> a * B <= (N - 1) * B
  <2>1. N - 1 \in Int BY <1>1
  <2> QED BY <1>1, <2>1, TimesOrder
<1>5. 1 <= a <=> 1 * B <= a * B BY <1>1, TimesOrder
<1>6. a <= N - 1 BY DEF N
<1>7. a # 0 => 1 <= a OBVIOUS
<1>8. a * B <= Span - B /\ 0 <= a * B /\ (a # 0 => B <= a * B) /\ (a = 0 => a * B = 0)
  BY <1>1, <1>2, <1>3, <1>4, <1>5, <1>6, <1>7
<1>9. /\ a * B \in Nat /\ c - a * B >= c + B - Span
      /\ a = 0 => c - a * B = c
      /\ a # 0 => c - a * B + B <= c
  <2> DEFINE x == a * B
  <2>1. x \in Int BY <1>2
  <2> HIDE DEF x
  <2>2. x <= Span - B /\ 0 <= x /\ (a # 0 => B <= x) /\ (a = 0 => x = 0) BY <1>8 DEF x
  <2>3. /\ x \in Nat /\ c - x >= c + B - Span
        /\ a = 0 => c - x = c
        /\ a # 0 => c - x + B <= c
    BY <1>1, <2>1, <2>2
  <2> QED BY <2>3 DEF x
<1> QED BY <1>9 DEF B

-----------------------------------------------------------------------------
(***************************************************************************)
(* One frame is counted.                                                   *)
(***************************************************************************)

\* The unsigned difference of the wrapped times is that of the times, if the time
\* that is counted is not before the newest bin, and longer than the ring if it is.
LEMMA ElapsedIs ==
  ASSUME RecorderTypeOK, cur_at # 0, NEW t \in Nat, t <= time, time <= t + MaxHeld
  PROVE  Us(Us(t) - g_net_cur_start_us) = IF t < cur_at THEN t - cur_at + US_RANGE ELSE t - cur_at
<1>1. US_RANGE \in Nat \ {0} /\ MaxHeld \in Nat /\ MaxHeld < US_RANGE /\ MaxQuiet \in Nat
      /\ MaxQuiet + MaxHeld < US_RANGE
  BY RecorderBounds
<1>2. /\ time \in Nat /\ cur_at \in Nat /\ cur_at <= time
      /\ time <= cur_at + MaxQuiet + MaxHeld
      /\ g_net_cur_start_us = cur_at % US_RANGE
  BY DEF RecorderTypeOK, Us
<1> DEFINE x == cur_at % US_RANGE
           y == t % US_RANGE
           q == cur_at \div US_RANGE
<1>3. x \in Int /\ y \in Int /\ q \in Int /\ cur_at = q * US_RANGE + x
  BY <1>1, <1>2, Quotient
<1>4. (y + (-x)) % US_RANGE = (t + (-x)) % US_RANGE
  <2> DEFINE z == -x
  <2>1. z \in Int /\ t \in Int BY <1>3
  <2> HIDE DEF z
  <2>2. ((t % US_RANGE) + z) % US_RANGE = (t + z) % US_RANGE BY <1>1, <2>1, RemainderAdd
  <2> QED BY <2>2 DEF y, z
<1>5. (t - cur_at) % US_RANGE = (t - x) % US_RANGE
  <2> DEFINE d == t - cur_at
             p == d \div US_RANGE
             n == d % US_RANGE
  <2>1. d \in Int BY <1>2
  <2>2. p \in Int /\ n \in 0 .. US_RANGE - 1 /\ d = p * US_RANGE + n BY <1>1, <2>1, Quotient
  <2>3. (p + q) * US_RANGE = p * US_RANGE + q * US_RANGE
        /\ p * US_RANGE \in Int /\ q * US_RANGE \in Int
    <3>1. p \in Int /\ q \in Int /\ US_RANGE \in Int BY <1>1, <1>3, <2>2
    <3> HIDE DEF p, q
    <3> QED BY <3>1, TimesAdd
  <2>4. t - x = d + q * US_RANGE
    <3> HIDE DEF x, q, p, n
    <3> QED BY <1>2, <1>3, <2>3
  <2> HIDE DEF x, q, d, p
  <2>5. t - x = (p + q) * US_RANGE + n
    <3> HIDE DEF n
    <3> QED BY <2>1, <2>2, <2>3, <2>4
  <2>6. t - x \in Int /\ p + q \in Int BY <1>3, <2>2
  <2>7. (t - x) % US_RANGE = n
    <3> HIDE DEF n
    <3> QED BY <1>1, <2>2, <2>5, <2>6, OneRemainder
  <2> QED BY <2>7 DEF n, d
<1>6. y + (-x) = y - x /\ t + (-x) = t - x
  <2> HIDE DEF x, y
  <2> QED BY <1>3
<1>7. Us(Us(t) - g_net_cur_start_us) = (t - cur_at) % US_RANGE
  BY <1>2, <1>4, <1>5, <1>6 DEF Us
<1>8. t - cur_at \in -US_RANGE .. 2 * US_RANGE - 1 /\ t - cur_at < US_RANGE
  BY <1>1, <1>2
<1>9. (t - cur_at) % US_RANGE = IF t < cur_at THEN t - cur_at + US_RANGE ELSE t - cur_at
  <2> DEFINE d == t - cur_at
  <2>1. d \in Int /\ (d < 0 <=> t < cur_at) BY <1>2
  <2>2. d \in -US_RANGE .. 2 * US_RANGE - 1 /\ d < US_RANGE BY <1>8
  <2> HIDE DEF d
  <2>3. d % US_RANGE = IF d < 0 THEN d + US_RANGE ELSE IF d < US_RANGE THEN d ELSE d - US_RANGE
    BY <1>1, <2>2, SmallRemainder
  <2>4. d % US_RANGE = IF t < cur_at THEN d + US_RANGE ELSE d BY <2>1, <2>2, <2>3
  <2> QED BY <2>4 DEF d
<1> QED BY <1>7, <1>9

\* The ring starts over exactly when the history says that it forgets.
LEMMA ForgetsAll ==
  ASSUME RecorderTypeOK, NEW t \in Nat, t <= time, time <= t + MaxHeld
  PROVE  StartsOver(Us(t)) <=>
           g_net_cur_start_us = 0 \/ t < cur_at \/ t >= cur_at + Span
<1>1. CASE g_net_cur_start_us = 0 BY <1>1 DEF StartsOver
<1>2. CASE g_net_cur_start_us # 0
  <2>1. cur_at # 0
    <3>1. 0 % US_RANGE = 0 BY RecorderBounds, SmallRemainder
    <3> QED BY <1>2, <3>1 DEF RecorderTypeOK, Us
  <2>2. cur_at \in Nat /\ cur_at <= time /\ time \in Nat BY DEF RecorderTypeOK
  <2> DEFINE e == Us(Us(t) - g_net_cur_start_us)
  <2>3. e = IF t < cur_at THEN t - cur_at + US_RANGE ELSE t - cur_at BY <2>1, ElapsedIs
  <2>4. StartsOver(Us(t)) <=> e >= Span BY <1>2 DEF StartsOver
  <2> HIDE DEF e
  <2>5. e >= Span <=> t < cur_at \/ t >= cur_at + Span
    BY <2>2, <2>3, RecorderBounds
  <2> QED BY <1>2, <2>4, <2>5
<1> QED BY <1>1, <1>2

\* What a task that counts has read, and when.
LEMMA CountedTime ==
  ASSUME RecorderTypeOK, NEW w \in Task, held[w] # -1
  PROVE  held[w] \in Nat \ {0} /\ held[w] <= time /\ time <= held[w] + MaxHeld
BY DEF RecorderTypeOK

\* The ring started over: one slot is in use, and counts the one time.
LEMMA CountForgets ==
  ASSUME RecorderInv, NEW w \in Task, Record(w), StartsOver(Us(held[w]))
  PROVE  RecorderTypeOK' /\ CountsInv'
<1> DEFINE t == held[w]
           ring == NetBinNow(Us(t))
<1>1. RecorderTypeOK /\ held[w] # -1 BY DEF RecorderInv, Record
<1>2. t \in Nat \ {0} /\ t <= time /\ time <= t + MaxHeld BY <1>1, CountedTime
<1>3. cur_at' = t /\ recorded' = {t} /\ held' = [held EXCEPT ![w] = -1] /\ time' = time
  BY <1>1, <1>2, ForgetsAll DEF Record, Remember
<1>4. 0 \in Index BY RecorderBounds DEF Index
<1>5. Us(t) \in Nat BY <1>2, UsType
<1>6. /\ g_net_bins' = [i \in Index |->
                          IF i = 0 THEN [start_us |-> Us(t), counted |-> {t}] ELSE Unused]
      /\ g_net_cur' = 0 /\ g_net_cur_start_us' = Us(t)
  <2>1. /\ ring.bins = [i \in Index |->
                          IF i = 0 THEN [Unused EXCEPT !.start_us = Us(t)] ELSE Unused]
        /\ ring.cur = 0 /\ ring.start_us = Us(t)
    BY DEF NetBinNow
  <2>2. /\ g_net_bins' = [ring.bins EXCEPT ![ring.cur].counted = @ \cup {t}]
        /\ g_net_cur' = ring.cur /\ g_net_cur_start_us' = ring.start_us
    BY DEF Record
  <2> HIDE DEF ring, t
  <2>3. [Unused EXCEPT !.start_us = Us(t)] = [start_us |-> Us(t), counted |-> {}]
    BY DEF Unused
  <2>4. ring.bins[0] = [start_us |-> Us(t), counted |-> {}] BY <1>4, <2>1, <2>3
  <2>5. [ring.bins[0] EXCEPT !.counted = ring.bins[0].counted \cup {t}]
          = [start_us |-> Us(t), counted |-> {t}]
    BY <2>4
  <2>6. g_net_bins' = [ring.bins EXCEPT ![0] =
                         [ring.bins[0] EXCEPT !.counted = ring.bins[0].counted \cup {t}]]
    BY <2>1, <2>2
  <2> QED BY <1>4, <2>1, <2>2, <2>5, <2>6
<1> HIDE DEF t, ring
<1>7. RecorderTypeOK'
  <2>1. held' \in [Task -> Int] /\ \A v \in Task : held'[v] = IF v = w THEN -1 ELSE held[v]
    BY <1>1, <1>3 DEF RecorderTypeOK
  <2>2. \A v \in Task : held'[v] # -1 =>
          held'[v] \in Nat \ {0} /\ held'[v] <= time /\ time <= held'[v] + MaxHeld
    BY <1>1, <2>1 DEF RecorderTypeOK
  <2>3. /\ time \in Nat \ {0} /\ cur_at' \in Nat /\ cur_at' <= time
        /\ recorded' \subseteq Nat
    BY <1>1, <1>2, <1>3 DEF RecorderTypeOK
  <2>4. time <= cur_at' + MaxQuiet + MaxHeld
    BY <1>1, <1>2, <1>3, RecorderBounds DEF RecorderTypeOK
  <2>5. g_net_bins' \in [Index -> Bin]
    <3>1. [start_us |-> Us(t), counted |-> {t}] \in Bin BY <1>2, <1>5 DEF Bin
    <3>2. Unused \in Bin BY DEF Bin, Unused
    <3> QED BY <1>6, <3>1, <3>2
  <2>6. g_net_cur' \in Index /\ g_net_cur_start_us' = Us(cur_at') BY <1>3, <1>4, <1>6
  <2>7. Us(cur_at') = Us(cur_at)' BY DEF Us
  <2> QED BY <1>3, <2>1, <2>2, <2>3, <2>4, <2>5, <2>6, <2>7 DEF RecorderTypeOK
<1>8. CountsInv'
  <2>1. \A u \in recorded' : u < cur_at' + W5500_NET_BIN_US
    BY <1>2, <1>3, RecorderBounds
  <2>2. ASSUME NEW s \in Index
        PROVE  /\ g_net_bins'[s].counted = Within(BinFrom(s))'
               /\ g_net_bins'[s].counted # {} \/ s = g_net_cur' =>
                    g_net_bins'[s].start_us = Us(BinFrom(s))'
    <3> DEFINE a == (0 - s) % W5500_NET_BINS
               from == t - a * W5500_NET_BIN_US
    <3>1. s \in 0 .. W5500_NET_BINS - 1 /\ W5500_NET_BINS \in Nat \ {0}
      BY RecorderBounds DEF Index
    <3>2. a \in 0 .. W5500_NET_BINS - 1 BY <3>1, AgoType
    <3>3. a = IF s = 0 THEN 0 ELSE W5500_NET_BINS - s
      <4> DEFINE d == 0 - s
      <4>1. d \in -W5500_NET_BINS .. 2 * W5500_NET_BINS - 1 /\ (d < 0 <=> s # 0)
            /\ d < W5500_NET_BINS /\ d + W5500_NET_BINS = W5500_NET_BINS - s /\ (s = 0 => d = 0)
        BY <3>1
      <4> HIDE DEF d
      <4>2. d % W5500_NET_BINS = IF d < 0 THEN d + W5500_NET_BINS
                                 ELSE IF d < W5500_NET_BINS THEN d ELSE d - W5500_NET_BINS
        BY <3>1, <4>1, SmallRemainder
      <4>3. d % W5500_NET_BINS = IF s = 0 THEN 0 ELSE W5500_NET_BINS - s BY <4>1, <4>2
      <4> QED BY <4>3 DEF d
    <3>4. a = 0 <=> s = 0 BY <3>1, <3>3
    <3>5. BinFrom(s)' = from BY <1>3, <1>6 DEF BinFrom, BinsAgo
    <3>6. /\ a = 0 => from = t
          /\ a # 0 => from + W5500_NET_BIN_US <= t
      <4> HIDE DEF a
      <4> QED BY <1>2, <3>2, BinTimes
    <3>7. from \in Int
      <4> HIDE DEF a
      <4>1. a * W5500_NET_BIN_US \in Nat BY <1>2, <3>2, BinTimes
      <4> QED BY <1>2, <4>1
    <3> HIDE DEF a, from
    <3>8. Within(BinFrom(s))' = {u \in {t} : from <= u /\ u < from + W5500_NET_BIN_US}
      BY <1>3, <3>5 DEF Within
    <3>9. CASE s = 0
      <4>1. g_net_bins'[s] = [start_us |-> Us(t), counted |-> {t}] BY <1>6, <3>9
      <4>2. from = t BY <3>4, <3>6, <3>9
      <4>3. Within(BinFrom(s))' = {t} BY <1>2, <3>8, <4>2, RecorderBounds
      <4>4. Us(BinFrom(s))' = Us(t) BY <3>5, <4>2 DEF Us
      <4> QED BY <4>1, <4>3, <4>4
    <3>10. CASE s # 0
      <4>1. g_net_bins'[s] = Unused /\ s # g_net_cur' BY <1>6, <3>10
      <4>2. from + W5500_NET_BIN_US <= t BY <3>4, <3>6, <3>10
      <4>3. Within(BinFrom(s))' = {} BY <1>2, <3>7, <3>8, <4>2, RecorderBounds
      <4> QED BY <4>1, <4>3 DEF Unused
    <3> QED BY <3>9, <3>10
  <2> QED BY <2>1, <2>2 DEF CountsInv
<1> QED BY <1>7, <1>8

\* The bins by which the ring rolls on: the time is in the newest then.
LEMMA RollsTo ==
  ASSUME RecorderTypeOK, NEW t \in Nat, t <= time, time <= t + MaxHeld, ~StartsOver(Us(t))
  PROVE  LET n == (t - cur_at) \div W5500_NET_BIN_US
             at == cur_at + n * W5500_NET_BIN_US
         IN /\ Rolls(Us(t)) = n
            /\ n \in 0 .. W5500_NET_BINS - 1
            /\ at \in Nat /\ at <= t /\ t < at + W5500_NET_BIN_US
            /\ n * W5500_NET_BIN_US \in Nat
            /\ Us(g_net_cur_start_us + n * W5500_NET_BIN_US) = Us(at)
<1> DEFINE B == W5500_NET_BIN_US
           N == W5500_NET_BINS
           d == t - cur_at
           n == d \div B
           r == d % B
           at == cur_at + n * B
<1>1. g_net_cur_start_us # 0 /\ ~(t < cur_at) /\ ~(t >= cur_at + Span) BY ForgetsAll
<1>2. cur_at # 0
  <2>1. 0 % US_RANGE = 0 BY RecorderBounds, SmallRemainder
  <2> QED BY <1>1, <2>1 DEF RecorderTypeOK, Us
<1>3. cur_at \in Nat /\ B \in Nat \ {0} /\ N \in Nat \ {0} /\ Span = N * B /\ Span \in Nat
  BY RecorderBounds DEF RecorderTypeOK
<1>4. Rolls(Us(t)) = n
  <2>1. Us(Us(t) - g_net_cur_start_us) = d BY <1>1, <1>2, ElapsedIs
  <2> QED BY <2>1 DEF Rolls
<1>5. d \in Nat /\ d < N * B /\ t = cur_at + d BY <1>1, <1>3
<1>6. n \in Int /\ r \in 0 .. B - 1 /\ d = n * B + r BY <1>3, <1>5, Quotient
<1> HIDE DEF B, N, d, n, r
<1>7. n * B \in Int /\ (n + 1) * B = n * B + B /\ 0 * B = 0 /\ N * B \in Int
  <2>1. B \in Int /\ N \in Int BY <1>3
  <2> QED BY <1>6, <2>1, TimesAdd
<1>8. 0 <= n
  <2>1. n + 1 <= 0 <=> (n + 1) * B <= 0 * B
    <3>1. n + 1 \in Int BY <1>6
    <3> QED BY <1>3, <3>1, TimesOrder
  <2> QED BY <1>3, <1>5, <1>6, <1>7, <2>1
<1>9. n < N
  <2>1. N <= n <=> N * B <= n * B BY <1>3, <1>6, TimesOrder
  <2> QED BY <1>3, <1>5, <1>6, <1>7, <2>1
<1>10. n * B >= 0
  <2>1. 0 <= n <=> 0 * B <= n * B BY <1>3, <1>6, TimesOrder
  <2> QED BY <1>7, <1>8, <2>1
<1>11. n \in 0 .. N - 1 BY <1>3, <1>6, <1>8, <1>9
<1>12. at \in Nat /\ at <= t /\ t < at + B /\ n * B \in Nat
  <2> DEFINE x == n * B
  <2>1. x \in Int /\ x >= 0 /\ d = x + r BY <1>6, <1>7, <1>10
  <2>2. at = cur_at + x OBVIOUS
  <2> HIDE DEF x, at
  <2>3. x \in Nat BY <2>1
  <2>4. at \in Nat /\ at <= t /\ t < at + B BY <1>3, <1>5, <1>6, <2>1, <2>2
  <2> QED BY <2>3, <2>4 DEF x
<1>13. Us(g_net_cur_start_us + n * B) = Us(at)
  <2> DEFINE x == n * B
  <2>1. x \in Int BY <1>7
  <2> HIDE DEF x
  <2>2. US_RANGE \in Nat \ {0} /\ cur_at \in Int BY <1>3, RecorderBounds
  <2>3. ((cur_at % US_RANGE) + x) % US_RANGE = (cur_at + x) % US_RANGE
    BY <2>1, <2>2, RemainderAdd
  <2>4. g_net_cur_start_us = cur_at % US_RANGE BY DEF RecorderTypeOK, Us
  <2> QED BY <2>3, <2>4 DEF Us, x
<1> QED BY <1>4, <1>11, <1>12, <1>13 DEF B, N, d, n

\* How old the slots are after the ring rolled on by n bins: those that were come
\* to are younger than n, and the others have grown older by n.
LEMMA RolledAges ==
  ASSUME NEW c \in Index, NEW n \in 0 .. W5500_NET_BINS - 1, NEW s \in Index
  PROVE  LET a == (c + n - s) % W5500_NET_BINS
         IN /\ (((c + n) % W5500_NET_BINS) - s) % W5500_NET_BINS = a
            /\ a \in 0 .. W5500_NET_BINS - 1
            /\ a >= n => (c - s) % W5500_NET_BINS = a - n
            /\ a = 0 <=> s = (c + n) % W5500_NET_BINS
<1> DEFINE N == W5500_NET_BINS
           d == c + n - s
           e == c - s
           k == c + n
<1>1. N \in Nat \ {0} /\ c \in 0 .. N - 1 /\ s \in 0 .. N - 1 /\ n \in 0 .. N - 1
  BY RecorderBounds DEF Index
<1>2. /\ d \in -N .. 2 * N - 1 /\ e \in -N .. 2 * N - 1 /\ e < N /\ k \in -N .. 2 * N - 1
      /\ k >= 0 /\ d = e + n /\ d = k - s /\ e \in Int
  BY <1>1
<1>3. d % N = IF d < 0 THEN d + N ELSE IF d < N THEN d ELSE d - N
  <2> HIDE DEF d, N
  <2> QED BY <1>1, <1>2, SmallRemainder
<1>4. e % N = IF e < 0 THEN e + N ELSE e
  <2> HIDE DEF e, N
  <2>1. e % N = IF e < 0 THEN e + N ELSE IF e < N THEN e ELSE e - N
    BY <1>1, <1>2, SmallRemainder
  <2> QED BY <1>2, <2>1
<1>5. k % N = IF k < N THEN k ELSE k - N
  <2> HIDE DEF k, N
  <2>1. k % N = IF k < 0 THEN k + N ELSE IF k < N THEN k ELSE k - N
    BY <1>1, <1>2, SmallRemainder
  <2> QED BY <1>2, <2>1
<1>6. ((k % N) - s) % N = d % N
  <2> DEFINE z == -s
  <2>1. z \in Int /\ k \in Int /\ k + z = d BY <1>1, <1>2
  <2>2. (k % N) + z = (k % N) - s
    <3>1. k % N \in Int BY <1>1, <2>1, Quotient
    <3> HIDE DEF k, N
    <3> QED BY <1>1, <3>1
  <2> HIDE DEF z, k, d, N
  <2>3. ((k % N) + z) % N = (k + z) % N BY <1>1, <2>1, RemainderAdd
  <2> QED BY <2>1, <2>2, <2>3
<1>7. d % N \in 0 .. N - 1
  <2> HIDE DEF d, N
  <2> QED BY <1>1, <1>2, Quotient
<1> HIDE DEF d, e, k, N
<1>8. d % N >= n => e % N = (d % N) - n BY <1>1, <1>2, <1>3, <1>4
<1>9. d % N = 0 <=> s = k % N BY <1>1, <1>2, <1>3, <1>5
<1>10. /\ ((k % N) - s) % N = d % N
       /\ d % N \in 0 .. N - 1
       /\ d % N >= n => e % N = (d % N) - n
       /\ d % N = 0 <=> s = k % N
  BY <1>6, <1>7, <1>8, <1>9
<1> QED BY <1>10 DEF d, e, k, N

\* Where the bins begin after the roll.
LEMMA RolledFrom ==
  ASSUME NEW c \in Nat, NEW n \in Nat, NEW a \in Nat
  PROVE  LET from == (c + n * W5500_NET_BIN_US) - a * W5500_NET_BIN_US
         IN /\ from \in Int
            /\ from = c + (n - a) * W5500_NET_BIN_US
            /\ a >= n => from = c - (a - n) * W5500_NET_BIN_US
            /\ a < n => from >= c + W5500_NET_BIN_US
<1> DEFINE B == W5500_NET_BIN_US
           x == n * B
           y == a * B
           z == (n - a) * B
           v == (a - n) * B
<1>1. B \in Nat \ {0} BY RecorderBounds
<1>2. n \in Int /\ a \in Int /\ n - a \in Int /\ B \in Int BY <1>1
<1>3. x \in Int /\ y \in Int /\ z = x - y /\ v = y - x
  <2> HIDE DEF B
  <2> QED BY <1>2, TimesAdd
<1>4. a < n => z >= B
  <2>1. 1 <= n - a <=> 1 * B <= z
    <3> DEFINE k == n - a
    <3>1. k \in Int /\ 1 \in Int BY <1>2
    <3> HIDE DEF B, k
    <3>2. 1 <= k <=> 1 * B <= k * B BY <1>1, <3>1, TimesOrder
    <3> QED BY <3>2 DEF k
  <2>2. 1 * B = B BY <1>1
  <2> HIDE DEF B, z
  <2>3. z \in Int BY <1>3
  <2> QED BY <1>1, <2>1, <2>2, <2>3
<1>5. /\ (c + x) - y \in Int
      /\ (c + x) - y = c + z
      /\ a >= n => (c + x) - y = c - v
      /\ a < n => (c + x) - y >= c + B
  <2> HIDE DEF B, x, y, z, v
  <2> QED BY <1>1, <1>3, <1>4
<1> QED BY <1>5 DEF B, x, y, z, v

\* The ring rolls on: each slot counts what it did, or starts empty; the time goes
\* to the newest.
LEMMA CountRolls ==
  ASSUME RecorderInv, NEW w \in Task, Record(w), ~StartsOver(Us(held[w]))
  PROVE  RecorderTypeOK' /\ CountsInv'
<1> DEFINE t == held[w]
           ring == NetBinNow(Us(t))
           n == (t - cur_at) \div W5500_NET_BIN_US
           at == cur_at + n * W5500_NET_BIN_US
           to == (g_net_cur + n) % W5500_NET_BINS
           Age(s) == (g_net_cur + n - s) % W5500_NET_BINS
           From(s) == at - Age(s) * W5500_NET_BIN_US
           Rolled(s) == IF Age(s) < n THEN [start_us |-> Us(From(s)), counted |-> {}]
                                      ELSE g_net_bins[s]
<1>1. RecorderTypeOK /\ CountsInv /\ held[w] # -1 BY DEF RecorderInv, Record
<1>2. t \in Nat \ {0} /\ t <= time /\ time <= t + MaxHeld BY <1>1, CountedTime
<1>3. /\ Rolls(Us(t)) = n /\ n \in 0 .. W5500_NET_BINS - 1
      /\ at \in Nat /\ at <= t /\ t < at + W5500_NET_BIN_US
      /\ n * W5500_NET_BIN_US \in Nat
      /\ Us(g_net_cur_start_us + n * W5500_NET_BIN_US) = Us(at)
  BY <1>1, <1>2, RollsTo
<1>4. g_net_cur_start_us # 0 /\ ~(t < cur_at) /\ ~(t >= cur_at + Span)
  BY <1>1, <1>2, ForgetsAll
<1>5. /\ cur_at' = at /\ recorded' = {u \in recorded \cup {t} : u >= at + W5500_NET_BIN_US - Span}
      /\ held' = [held EXCEPT ![w] = -1] /\ time' = time
  BY <1>4 DEF Record, Remember
<1>6. /\ g_net_cur \in Index /\ cur_at \in Nat /\ recorded \subseteq Nat
      /\ g_net_bins \in [Index -> Bin] /\ g_net_cur_start_us = Us(cur_at)
  BY <1>1 DEF RecorderTypeOK
<1>7. \A s \in Index :
        /\ (to - s) % W5500_NET_BINS = Age(s)
        /\ Age(s) \in 0 .. W5500_NET_BINS - 1
        /\ Age(s) >= n => BinsAgo(s) = Age(s) - n
        /\ Age(s) = 0 <=> s = to
  BY <1>3, <1>6, RolledAges DEF BinsAgo
<1>8. to \in Index
  <2>1. g_net_cur + n \in Int /\ W5500_NET_BINS \in Nat \ {0}
    BY <1>3, <1>6, RecorderBounds DEF Index
  <2> QED BY <2>1, Quotient DEF Index
<1>9. \A s \in Index :
        /\ From(s) \in Int
        /\ From(s) = cur_at + (n - Age(s)) * W5500_NET_BIN_US
        /\ Age(s) >= n => From(s) = BinFrom(s)
        /\ Age(s) < n => From(s) >= cur_at + W5500_NET_BIN_US
  <2> SUFFICES ASSUME NEW s \in Index
               PROVE  /\ From(s) \in Int
                      /\ From(s) = cur_at + (n - Age(s)) * W5500_NET_BIN_US
                      /\ Age(s) >= n => From(s) = BinFrom(s)
                      /\ Age(s) < n => From(s) >= cur_at + W5500_NET_BIN_US
    OBVIOUS
  <2> DEFINE a == Age(s)
  <2>1. n \in Nat /\ a \in Nat /\ (a >= n => BinsAgo(s) = a - n) BY <1>3, <1>7
  <2>2. From(s) = (cur_at + n * W5500_NET_BIN_US) - a * W5500_NET_BIN_US OBVIOUS
  <2> HIDE DEF n, a
  <2>3. /\ (cur_at + n * W5500_NET_BIN_US) - a * W5500_NET_BIN_US \in Int
        /\ (cur_at + n * W5500_NET_BIN_US) - a * W5500_NET_BIN_US
             = cur_at + (n - a) * W5500_NET_BIN_US
        /\ a >= n => (cur_at + n * W5500_NET_BIN_US) - a * W5500_NET_BIN_US
                       = cur_at - (a - n) * W5500_NET_BIN_US
        /\ a < n => (cur_at + n * W5500_NET_BIN_US) - a * W5500_NET_BIN_US
                      >= cur_at + W5500_NET_BIN_US
    BY <1>6, <2>1, RolledFrom
  <2>4. a >= n => cur_at - (a - n) * W5500_NET_BIN_US = BinFrom(s)
    BY <2>1 DEF BinFrom
  <2> QED BY <2>2, <2>3, <2>4 DEF a
<1>10. \A s \in Index :
         /\ From(s) >= at + W5500_NET_BIN_US - Span
         /\ Age(s) = 0 => From(s) = at
         /\ Age(s) # 0 => From(s) + W5500_NET_BIN_US <= at
  <2> SUFFICES ASSUME NEW s \in Index
               PROVE  /\ From(s) >= at + W5500_NET_BIN_US - Span
                      /\ Age(s) = 0 => From(s) = at
                      /\ Age(s) # 0 => From(s) + W5500_NET_BIN_US <= at
    OBVIOUS
  <2> DEFINE a == Age(s)
  <2>1. a \in 0 .. W5500_NET_BINS - 1 /\ at \in Int BY <1>3, <1>7
  <2> HIDE DEF a, at
  <2>2. /\ at - a * W5500_NET_BIN_US >= at + W5500_NET_BIN_US - Span
        /\ a = 0 => at - a * W5500_NET_BIN_US = at
        /\ a # 0 => at - a * W5500_NET_BIN_US + W5500_NET_BIN_US <= at
    BY <2>1, BinTimes
  <2> QED BY <2>2 DEF a
<1>11. ring = [bins |-> RolledOn(n), cur |-> to,
               start_us |-> Us(g_net_cur_start_us + n * W5500_NET_BIN_US)]
  BY <1>3 DEF NetBinNow
<1>12. \A s \in Index : Us(g_net_cur_start_us + (n - Age(s)) * W5500_NET_BIN_US) = Us(From(s))
  <2> SUFFICES ASSUME NEW s \in Index
               PROVE  Us(g_net_cur_start_us + (n - Age(s)) * W5500_NET_BIN_US) = Us(From(s))
    OBVIOUS
  <2> DEFINE x == (n - Age(s)) * W5500_NET_BIN_US
  <2>1. x \in Int
    <3>1. n - Age(s) \in Int /\ W5500_NET_BIN_US \in Int BY <1>3, <1>7, RecorderBounds
    <3> HIDE DEF n, Age
    <3> QED BY <3>1, TimesAdd
  <2>2. From(s) = cur_at + x BY <1>9
  <2> HIDE DEF x, From
  <2>3. US_RANGE \in Nat \ {0} /\ cur_at \in Int BY <1>6, RecorderBounds
  <2>4. ((cur_at % US_RANGE) + x) % US_RANGE = (cur_at + x) % US_RANGE
    BY <2>1, <2>3, RemainderAdd
  <2>5. g_net_cur_start_us = cur_at % US_RANGE BY <1>6 DEF Us
  <2>6. Us(g_net_cur_start_us + x) = Us(From(s)) BY <2>2, <2>4, <2>5 DEF Us
  <2> QED BY <2>6 DEF x
<1>13. RolledOn(n) = [s \in Index |-> Rolled(s)] BY <1>12 DEF RolledOn
<1> HIDE DEF t, ring, n, at, to, Age, From
<1>14. \A s \in Index : Rolled(s) \in Bin
  <2>1. \A s \in Index : Us(From(s)) \in Nat BY <1>9, UsType
  <2> QED BY <1>6, <2>1 DEF Bin
<1>15. /\ g_net_cur' = to /\ g_net_cur_start_us' = Us(at)
       /\ g_net_bins' = [s \in Index |->
            IF s = to THEN [start_us |-> Rolled(s).start_us,
                            counted |-> Rolled(s).counted \cup {t}]
                      ELSE Rolled(s)]
  <2>1. /\ g_net_bins' = [ring.bins EXCEPT ![ring.cur].counted = @ \cup {t}]
        /\ g_net_cur' = ring.cur /\ g_net_cur_start_us' = ring.start_us
    BY DEF Record, ring, t
  <2>2. g_net_cur' = to /\ g_net_cur_start_us' = Us(at) BY <1>3, <1>11, <2>1
  <2> HIDE DEF Rolled
  <2>3. ring.bins = [s \in Index |-> Rolled(s)] /\ ring.cur = to BY <1>11, <1>13
  <2>4. [Rolled(to) EXCEPT !.counted = Rolled(to).counted \cup {t}]
          = [start_us |-> Rolled(to).start_us, counted |-> Rolled(to).counted \cup {t}]
    <3>1. Rolled(to) \in Bin BY <1>8, <1>14
    <3> DEFINE r == Rolled(to)
    <3> HIDE DEF r
    <3>2. r \in Bin BY <3>1 DEF r
    <3>3. [r EXCEPT !.counted = r.counted \cup {t}]
            = [start_us |-> r.start_us, counted |-> r.counted \cup {t}]
      BY <3>2 DEF Bin
    <3> QED BY <3>3 DEF r
  <2>5. g_net_bins' = [ring.bins EXCEPT ![to] =
                         [ring.bins[to] EXCEPT !.counted = ring.bins[to].counted \cup {t}]]
    BY <2>1, <2>3
  <2>6. ring.bins[to] = Rolled(to) BY <1>8, <2>3
  <2> QED BY <1>8, <2>2, <2>3, <2>4, <2>5, <2>6
<1>16. RecorderTypeOK'
  <2>1. held' \in [Task -> Int] /\ \A v \in Task : held'[v] = IF v = w THEN -1 ELSE held[v]
    BY <1>1, <1>5 DEF RecorderTypeOK
  <2>2. \A v \in Task : held'[v] # -1 =>
          held'[v] \in Nat \ {0} /\ held'[v] <= time /\ time <= held'[v] + MaxHeld
    BY <1>1, <2>1 DEF RecorderTypeOK
  <2>3. time \in Nat \ {0} /\ cur_at' \in Nat /\ cur_at' <= time
    BY <1>1, <1>2, <1>3, <1>5 DEF RecorderTypeOK
  <2>4. time <= cur_at' + MaxQuiet + MaxHeld
    <3>1. t < at + W5500_NET_BIN_US /\ cur_at <= at
      <4> DEFINE x == n * W5500_NET_BIN_US
      <4>1. x \in Nat /\ at = cur_at + x BY <1>3 DEF at
      <4> HIDE DEF x
      <4> QED BY <1>3, <1>6, <4>1
    <3>2. cur_at # 0
      <4>1. 0 % US_RANGE = 0 BY RecorderBounds, SmallRemainder
      <4> QED BY <1>4, <1>6, <4>1 DEF Us
    <3> QED BY <1>1, <1>3, <1>5, <3>1, <3>2, RecorderBounds DEF RecorderTypeOK
  <2>5. recorded' \subseteq Nat BY <1>2, <1>5, <1>6
  <2>6. g_net_bins' \in [Index -> Bin]
    <3> HIDE DEF Rolled
    <3>1. [start_us |-> Rolled(to).start_us, counted |-> Rolled(to).counted \cup {t}] \in Bin
      BY <1>2, <1>8, <1>14 DEF Bin
    <3> QED BY <1>14, <1>15, <3>1
  <2>7. Us(cur_at)' = Us(at) BY <1>5 DEF Us
  <2> QED BY <1>5, <1>8, <1>15, <2>1, <2>2, <2>3, <2>4, <2>5, <2>6, <2>7 DEF RecorderTypeOK
<1>17. CountsInv'
  <2>1. \A u \in recorded : u \in Nat /\ u < cur_at + W5500_NET_BIN_US
    BY <1>1, <1>4, <1>6 DEF CountsInv
  <2>2. cur_at <= at
    <3> DEFINE x == n * W5500_NET_BIN_US
    <3>1. x \in Nat /\ at = cur_at + x BY <1>3 DEF at
    <3> HIDE DEF x
    <3> QED BY <1>6, <3>1
  <2>3. \A u \in recorded' : u < cur_at' + W5500_NET_BIN_US
    BY <1>2, <1>3, <1>5, <1>6, <2>1, <2>2, RecorderBounds
  <2>4. ASSUME NEW s \in Index
        PROVE  /\ g_net_bins'[s].counted = Within(BinFrom(s))'
               /\ g_net_bins'[s].counted # {} \/ s = g_net_cur' =>
                    g_net_bins'[s].start_us = Us(BinFrom(s))'
    <3> DEFINE f == From(s)
               Old == {u \in recorded : f <= u /\ u < f + W5500_NET_BIN_US}
    <3>1. BinFrom(s)' = f
      <4>1. BinsAgo(s)' = Age(s) BY <1>7, <1>15 DEF BinsAgo
      <4> QED BY <1>5, <4>1 DEF BinFrom, From
    <3>2. Us(BinFrom(s))' = Us(f) BY <3>1 DEF Us
    <3>3. /\ f \in Int /\ f >= at + W5500_NET_BIN_US - Span
          /\ s = to => f = at
          /\ s # to => f + W5500_NET_BIN_US <= at
      BY <1>7, <1>9, <1>10
    <3>4. /\ Age(s) < n => f >= cur_at + W5500_NET_BIN_US
          /\ Age(s) >= n => f = BinFrom(s)
      BY <1>9
    <3> HIDE DEF f
    <3>5. Within(BinFrom(s))' = {u \in recorded' : f <= u /\ u < f + W5500_NET_BIN_US}
      BY <3>1 DEF Within
    <3>6. Within(BinFrom(s))' = IF s = to THEN Old \cup {t} ELSE Old
      <4>1. \A u \in Nat : u >= f => u >= at + W5500_NET_BIN_US - Span
        BY <1>3, <3>3, RecorderBounds
      <4>2. \A u \in recorded \cup {t} : u \in Nat BY <1>2, <2>1
      <4>3. {u \in recorded' : f <= u /\ u < f + W5500_NET_BIN_US}
              = {u \in recorded \cup {t} : f <= u /\ u < f + W5500_NET_BIN_US}
        BY <1>5, <3>3, <4>1, <4>2
      <4>4. CASE s = to
        <5>1. f <= t /\ t < f + W5500_NET_BIN_US BY <1>3, <3>3, <4>4
        <5> QED BY <3>5, <4>3, <4>4, <5>1
      <4>5. CASE s # to
        <5>1. ~(t < f + W5500_NET_BIN_US) BY <1>2, <1>3, <3>3, <4>5, RecorderBounds
        <5> QED BY <3>5, <4>3, <4>5, <5>1
      <4> QED BY <4>4, <4>5
    <3>7. Rolled(s).counted = Old
      <4>1. CASE Age(s) < n
        <5>1. \A u \in recorded : ~(f <= u) BY <1>6, <2>1, <3>3, <3>4, <4>1, RecorderBounds
        <5> QED BY <4>1, <5>1
      <4>2. CASE ~(Age(s) < n)
        <5>1. f = BinFrom(s) BY <1>3, <1>7, <3>4, <4>2
        <5>2. g_net_bins[s].counted = Within(BinFrom(s)) BY <1>1, <1>4 DEF CountsInv
        <5> QED BY <4>2, <5>1, <5>2 DEF Within
      <4> QED BY <4>1, <4>2
    <3>8. Rolled(s).counted # {} \/ s = to => Rolled(s).start_us = Us(f)
      <4>1. CASE Age(s) < n BY <4>1 DEF f
      <4>2. CASE ~(Age(s) < n)
        <5>1. f = BinFrom(s) BY <1>3, <1>7, <3>4, <4>2
        <5>2. g_net_bins[s].counted # {} \/ s = g_net_cur =>
                g_net_bins[s].start_us = Us(BinFrom(s))
          BY <1>1, <1>4 DEF CountsInv
        <5>3. s = to => s = g_net_cur
          <6>1. s = to => Age(s) = 0 /\ n = 0 BY <1>3, <1>7, <4>2
          <6>2. n = 0 => to = g_net_cur
            <7>1. /\ g_net_cur \in 0 .. W5500_NET_BINS - 1 /\ W5500_NET_BINS \in Nat \ {0}
              BY <1>6, RecorderBounds DEF Index
            <7>2. g_net_cur % W5500_NET_BINS = g_net_cur BY <7>1, SmallRemainder
            <7>3. n = 0 => g_net_cur + n = g_net_cur BY <7>1
            <7> QED BY <7>2, <7>3 DEF to
          <6> QED BY <6>1, <6>2
        <5> QED BY <4>2, <5>1, <5>2, <5>3
      <4> QED BY <4>1, <4>2
    <3> HIDE DEF Rolled, Old
    <3>9. CASE s = to BY <1>15, <3>2, <3>6, <3>7, <3>8, <3>9
    <3>10. CASE s # to BY <1>15, <3>2, <3>6, <3>7, <3>8, <3>10
    <3> QED BY <3>9, <3>10
  <2> QED BY <2>3, <2>4 DEF CountsInv
<1> QED BY <1>16, <1>17

-----------------------------------------------------------------------------
(***************************************************************************)
(* Every step.                                                             *)
(***************************************************************************)

\* It holds at the start, when no bin is used.
LEMMA RecorderInit == NetInit => RecorderInv
<1> SUFFICES ASSUME NetInit PROVE RecorderInv
  OBVIOUS
<1>1. 0 \in Index BY RecorderBounds DEF Index
<1>2. Us(cur_at) = 0
  <2>1. 0 % US_RANGE = 0 BY RecorderBounds, SmallRemainder
  <2> QED BY <2>1 DEF NetInit, Us
<1>3. Unused \in Bin BY DEF Unused, Bin
<1>4. g_net_bins \in [Index -> Bin] BY <1>3 DEF NetInit
<1>5. RecorderTypeOK BY <1>1, <1>2, <1>4 DEF NetInit, RecorderTypeOK
<1>6. CountsInv BY DEF NetInit, CountsInv
<1> QED BY <1>5, <1>6 DEF RecorderInv

\* What is counted depends on the ring and its history alone.
LEMMA CountsKept ==
  ASSUME CountsInv, UNCHANGED <<bins, history>>
  PROVE  CountsInv'
BY DEF CountsInv, bins, history, Within, BinFrom, BinsAgo, Us

\* The ring keeps its type when time goes on or a task reads it.
LEMMA RingTypeKept ==
  ASSUME RecorderTypeOK, UNCHANGED <<bins, history>>
  PROVE  /\ cur_at' \in Nat /\ recorded' \subseteq Nat
         /\ g_net_bins' \in [Index -> Bin] /\ g_net_cur' \in Index
         /\ g_net_cur_start_us' = Us(cur_at)' /\ cur_at' = cur_at
BY DEF RecorderTypeOK, bins, history, Us

\* Every step keeps it.
LEMMA RecorderStep == RecorderInv /\ [NetNext]_netVars => RecorderInv'
<1> SUFFICES ASSUME RecorderInv, [NetNext]_netVars PROVE RecorderInv'
  OBVIOUS
<1>1. RecorderTypeOK /\ CountsInv BY DEF RecorderInv
<1>2. CASE UNCHANGED <<bins, history, held, time>>
  <2>1. CountsInv' BY <1>1, <1>2, CountsKept
  <2>2. RecorderTypeOK'
    <3>1. held' = held /\ time' = time BY <1>2
    <3>2. UNCHANGED <<bins, history>> BY <1>2
    <3> QED BY <1>1, <3>1, <3>2, RingTypeKept DEF RecorderTypeOK
  <2> QED BY <2>1, <2>2 DEF RecorderInv
<1>3. CASE NetTick
  <2>1. /\ time' = time + 1 /\ UNCHANGED <<bins, history>> /\ held' = held
        /\ \A w \in Task : held[w] # -1 => time - held[w] < MaxHeld
        /\ cur_at # 0 => time - cur_at < MaxQuiet
    BY <1>3 DEF NetTick
  <2>2. CountsInv' BY <1>1, <2>1, CountsKept
  <2>3. \A w \in Task : held'[w] # -1 =>
          held'[w] \in Nat \ {0} /\ held'[w] <= time' /\ time' <= held'[w] + MaxHeld
    BY <1>1, <2>1, RecorderBounds DEF RecorderTypeOK
  <2>4. /\ time' \in Nat \ {0} /\ cur_at <= time'
        /\ cur_at # 0 => time' <= cur_at + MaxQuiet + MaxHeld
    BY <1>1, <2>1, RecorderBounds DEF RecorderTypeOK
  <2>5. held' \in [Task -> Int] BY <1>1, <2>1 DEF RecorderTypeOK
  <2>6. RecorderTypeOK' BY <1>1, <2>1, <2>3, <2>4, <2>5, RingTypeKept DEF RecorderTypeOK
  <2> QED BY <2>2, <2>6 DEF RecorderInv
<1>4. ASSUME NEW w \in Task, ReadTime(w) PROVE RecorderInv'
  <2>1. held' = [held EXCEPT ![w] = time] /\ time' = time /\ UNCHANGED <<bins, history>>
    BY <1>4 DEF ReadTime
  <2>2. CountsInv' BY <1>1, <2>1, CountsKept
  <2>3. held' \in [Task -> Int] /\ \A v \in Task : held'[v] = IF v = w THEN time ELSE held[v]
    BY <1>1, <2>1 DEF RecorderTypeOK
  <2>4. \A v \in Task : held'[v] # -1 =>
          held'[v] \in Nat \ {0} /\ held'[v] <= time /\ time <= held'[v] + MaxHeld
    BY <1>1, <2>3, RecorderBounds DEF RecorderTypeOK
  <2>5. RecorderTypeOK' BY <1>1, <2>1, <2>3, <2>4, RingTypeKept DEF RecorderTypeOK
  <2> QED BY <2>2, <2>5 DEF RecorderInv
<1>5. ASSUME NEW w \in Task, Record(w) PROVE RecorderInv'
  BY <1>5, CountForgets, CountRolls DEF RecorderInv
<1>6. SwitchOn \/ SwitchOff => UNCHANGED <<bins, history, held, time>>
  BY DEF SwitchOn, SwitchOff
<1>7. UNCHANGED netVars => UNCHANGED <<bins, history, held, time>>
  BY DEF netVars
<1> QED BY <1>2, <1>3, <1>4, <1>5, <1>6, <1>7 DEF NetNext

\* The bins as they are read out, oldest first, are the slots in order of age.
LEMMA HistogramFromCounts == RecorderInv => Histogram
<1> SUFFICES ASSUME RecorderInv, g_net_cur_start_us # 0, NEW i \in Index
             PROVE  LET from == cur_at - (W5500_NET_BINS - 1 - i) * W5500_NET_BIN_US
                    IN /\ NetBin(i).counted =
                            {t \in recorded : from <= t /\ t < from + W5500_NET_BIN_US}
                       /\ NetBin(i).counted # {} => NetBin(i).start_us = Us(from)
  BY DEF Histogram
<1> DEFINE N == W5500_NET_BINS
           k == g_net_cur + 1 + i
           s == k % N
           a == N - 1 - i
           d == g_net_cur - s
<1>1. N \in Nat \ {0} /\ i \in 0 .. N - 1 /\ g_net_cur \in 0 .. N - 1
  BY RecorderBounds DEF Index, RecorderInv, RecorderTypeOK
<1>2. k \in -N .. 2 * N - 1 /\ k >= 0 BY <1>1
<1>3. s = IF k < N THEN k ELSE k - N
  <2> HIDE DEF k, N
  <2>1. k % N = IF k < 0 THEN k + N ELSE IF k < N THEN k ELSE k - N
    BY <1>1, <1>2, SmallRemainder
  <2> QED BY <1>2, <2>1
<1> HIDE DEF s
<1>4. /\ s \in 0 .. N - 1 /\ d \in -N .. 2 * N - 1
      /\ (IF d < 0 THEN d + N ELSE IF d < N THEN d ELSE d - N) = a
  BY <1>1, <1>2, <1>3
<1>5. d % N = a
  <2> HIDE DEF d, N, a
  <2>1. d % N = IF d < 0 THEN d + N ELSE IF d < N THEN d ELSE d - N
    BY <1>1, <1>4, SmallRemainder
  <2> QED BY <1>4, <2>1
<1>6. s \in Index BY <1>4 DEF Index
<1>7. NetBin(i) = g_net_bins[s] BY DEF NetBin, s
<1>8. BinFrom(s) = cur_at - a * W5500_NET_BIN_US BY <1>5 DEF BinFrom, BinsAgo
<1>9. /\ g_net_bins[s].counted = Within(BinFrom(s))
      /\ g_net_bins[s].counted # {} => g_net_bins[s].start_us = Us(BinFrom(s))
  BY <1>6 DEF RecorderInv, CountsInv
<1> QED BY <1>7, <1>8, <1>9 DEF Within

\* Everything the ring can hold is in the bin of its time, whatever the tasks, the
\* bins and the pauses, and wherever micros() wraps (Histogram).
THEOREM FramesAreCounted == NetSpec => []Histogram
<1>1. RecorderInv /\ [NetNext]_netVars => RecorderInv' BY RecorderStep
<1> QED BY <1>1, RecorderInit, HistogramFromCounts, PTL DEF NetSpec

=============================================================================
