----------------------------- MODULE NtpServeProofs -----------------------------
(***************************************************************************)
(* What the serving path guarantees for any number of clients, any size of *)
(* ring and mailbox and any behaviour of clock, receiver and main loop:    *)
(* whose receive stamp a reply carries; and, under the faults that leave   *)
(* the clock true, that the times of a reply are true.                     *)
(***************************************************************************)
EXTENDS NtpServe, GpsPpsTimeProofs, WellFoundedInduction

USE ServeAssumption DEF ServeAssumption

-----------------------------------------------------------------------------
(***************************************************************************)
(* The newest of some records.                                             *)
(***************************************************************************)

\* A set of natural numbers has a least one.
LEMMA NatMin ==
  ASSUME NEW T \in SUBSET Nat, T # {}
  PROVE  \E x \in T : \A y \in T : x <= y
<1> DEFINE R == OpToRel(<, Nat)
<1>1. IsWellFoundedOn(R, Nat) BY NatLessThanWellFounded
<1> HIDE DEF R
<1>2. \E x \in T : \A y \in T : ~(<<y, x>> \in R) BY <1>1, WFMin
<1>3. \A x \in Nat, y \in Nat : <<y, x>> \notin R => x <= y BY DEF OpToRel, R
<1> QED BY <1>2, <1>3

HookRecord == [key : Client, t : Nat, verdict : Verdict]
Request == [key : Client, at : Nat]

\* lookup() returns a match, and none is newer, provided no record is younger
\* than the present.
LEMMA NewestIsNewest ==
  ASSUME hook_ring_ \in Seq(HookRecord), now \in Nat,
         \A i \in 1 .. Len(hook_ring_) : hook_ring_[i].t <= now,
         NEW c, Matches(c) # {}
  PROVE  /\ Newest(c) \in Matches(c)
         /\ \A g \in Matches(c) : g.t <= Newest(c).t
<1> DEFINE ages == {now - h.t : h \in Matches(c)}
<1>1. \A h \in Matches(c) : h \in HookRecord /\ h.t \in Nat /\ h.t <= now
  <2> TAKE h \in Matches(c)
  <2>1. PICK i \in 1 .. Len(hook_ring_) : h = hook_ring_[i] BY DEF Matches, Range
  <2>2. h \in HookRecord BY <2>1
  <2> QED BY <2>1, <2>2 DEF HookRecord
<1>2. ages \in SUBSET Nat /\ ages # {} BY <1>1
<1>3. \E x \in ages : \A y \in ages : x <= y
  <2> HIDE DEF ages
  <2> QED BY <1>2, NatMin
<1>4. PICK h \in Matches(c) : \A y \in ages : now - h.t <= y BY <1>3
<1>5. \A g \in Matches(c) : now - h.t <= now - g.t BY <1>4
<1>6. \A g \in Matches(c) : g.t <= h.t BY <1>1, <1>5
<1> QED BY <1>6 DEF Newest

-----------------------------------------------------------------------------
(***************************************************************************)
(* The inductive invariant.                                                *)
(***************************************************************************)

Answering == {"resolve", "header", "reference", "transmit", "sendto", "sending",
              "patch", "left"}

ServeTypeOK ==
  /\ now \in Nat
  /\ hook_ring_ \in Seq(HookRecord) /\ mailbox \in Seq(Request)
  /\ tpc \in {"recvfrom", "lookup", "check"} \cup Answering
  /\ request \in Request \cup {NoRequest}
  /\ hook \in HookRecord \cup {NoHook}

\* Records stand in the ring in the order of their time, and none is of the
\* future.
InOrder(ring) ==
  /\ \A i \in 1 .. Len(ring) : ring[i].t <= now
  /\ \A i, j \in 1 .. Len(ring) : i <= j => ring[i].t <= ring[j].t

\* A request that was seen by the hook: its own record is there, or only later
\* ones are.
Recalled(ring, r) ==
  /\ r.at <= now
  /\ \/ \E i \in 1 .. Len(ring) : ring[i].key = r.key /\ ring[i].t = r.at
     \/ \A i \in 1 .. Len(ring) : ring[i].t >= r.at

Belongs == hook.key = request.key /\ hook.t >= request.at

HookInv ==
  /\ InOrder(hook_ring_)
  /\ \A i \in 1 .. Len(mailbox) : Recalled(hook_ring_, mailbox[i])
  /\ tpc = "lookup" => request \in Request /\ Recalled(hook_ring_, request)
  /\ tpc \in {"recvfrom", "lookup"} => hook = NoHook
  /\ tpc = "check" => hook = NoHook \/ Belongs
  /\ tpc \in Answering => Belongs

ServeInv == ServeTypeOK /\ HookInv

-----------------------------------------------------------------------------
(***************************************************************************)
(* The ring.                                                               *)
(***************************************************************************)

\* A new record keeps the ring in order, and every request recalled; its own
\* request is.
LEMMA RecordedRecalls ==
  ASSUME now \in Nat, hook_ring_ \in Seq(HookRecord), InOrder(hook_ring_),
         NEW h \in HookRecord, h.t = now
  PROVE  /\ Recorded(h) \in Seq(HookRecord) /\ InOrder(Recorded(h))
         /\ Recalled(Recorded(h), [key |-> h.key, at |-> now])
         /\ \A r \in Request : Recalled(hook_ring_, r) => Recalled(Recorded(h), r)
<1> DEFINE ring == Append(hook_ring_, h)
           n == Len(hook_ring_)
<1>1. /\ ring \in Seq(HookRecord) /\ Len(ring) = n + 1 /\ n \in Nat
      /\ \A i \in 1 .. n : ring[i] = hook_ring_[i]
      /\ ring[n + 1] = h
  OBVIOUS
<1>2. \A i \in 1 .. n + 1 : ring[i] \in HookRecord /\ ring[i].t \in Nat
  <2> HIDE DEF ring, n
  <2>1. \A i \in 1 .. n + 1 : ring[i] \in HookRecord BY <1>1
  <2> QED BY <2>1 DEF HookRecord
<1>3. InOrder(ring)
  <2> HIDE DEF ring
  <2>1. \A i \in 1 .. n + 1 : ring[i].t <= now BY <1>1 DEF InOrder
  <2>2. \A i, j \in 1 .. n : i <= j => ring[i].t <= ring[j].t BY <1>1 DEF InOrder
  <2>3. ring[n + 1].t = now BY <1>1
  <2>4. \A i, j \in 1 .. n + 1 : i <= j => j = n + 1 \/ (i \in 1 .. n /\ j \in 1 .. n)
    BY <1>1
  <2>5. \A i, j \in 1 .. n + 1 : i <= j => ring[i].t <= ring[j].t
    BY <2>1, <2>2, <2>3, <2>4
  <2> HIDE DEF n
  <2> QED BY <1>1, <2>1, <2>5 DEF InOrder
<1>4. CASE n + 1 > RING_SIZE
  <2>1. Recorded(h) = Tail(ring) BY <1>1, <1>4 DEF Recorded
  <2>2. /\ Tail(ring) \in Seq(HookRecord) /\ Len(Tail(ring)) = n
        /\ \A i \in 1 .. n : Tail(ring)[i] = ring[i + 1]
    BY <1>1
  <2>3. n >= 1 BY <1>1, <1>4
  <2> DEFINE rest == Tail(ring)
  <2>4. rest \in Seq(HookRecord) /\ Len(rest) = n /\ \A i \in 1 .. n : rest[i] = ring[i + 1]
    BY <2>2
  <2> HIDE DEF ring, rest, n
  <2>5. InOrder(rest) BY <1>1, <1>2, <1>3, <2>4 DEF InOrder
  <2>6. rest[n] = h BY <1>1, <2>3, <2>4
  <2>7. Recalled(rest, [key |-> h.key, at |-> now]) BY <1>1, <2>3, <2>4, <2>6 DEF Recalled
  <2>8. ASSUME NEW r \in Request, Recalled(hook_ring_, r) PROVE Recalled(rest, r)
    <3>1. r.at \in Nat BY DEF Request
    <3>2. CASE \A i \in 1 .. n : hook_ring_[i].t >= r.at
      <4>1. \A i \in 1 .. n + 1 : ring[i].t >= r.at BY <1>1, <2>8, <3>1, <3>2 DEF Recalled
      <4> QED BY <1>1, <2>4, <2>8, <4>1 DEF Recalled
    <3>3. CASE \E i \in 1 .. n : hook_ring_[i].key = r.key /\ hook_ring_[i].t = r.at
      <4>1. PICK i \in 1 .. n : hook_ring_[i].key = r.key /\ hook_ring_[i].t = r.at BY <3>3
      <4>2. CASE i = 1
        <5>1. \A j \in 1 .. n + 1 : ring[j].t >= r.at
          BY <1>1, <1>2, <1>3, <3>1, <4>1, <4>2 DEF InOrder
        <5> QED BY <1>1, <2>4, <2>8, <5>1 DEF Recalled
      <4>3. CASE i > 1
        <5>1. i - 1 \in 1 .. n /\ rest[i - 1] = ring[i] BY <1>1, <2>4, <4>1, <4>3
        <5> QED BY <1>1, <2>4, <2>8, <4>1, <5>1 DEF Recalled
      <4> QED BY <1>1, <4>1, <4>2, <4>3
    <3> QED BY <2>8, <3>2, <3>3, n = Len(hook_ring_) DEF Recalled, n
  <2>9. Recorded(h) = rest BY <2>1 DEF rest
  <2> QED BY <2>4, <2>5, <2>7, <2>8, <2>9
<1>5. CASE ~(n + 1 > RING_SIZE)
  <2>1. Recorded(h) = ring BY <1>1, <1>5 DEF Recorded
  <2>2. n = Len(hook_ring_) OBVIOUS
  <2> HIDE DEF ring, n
  <2>3. Recalled(ring, [key |-> h.key, at |-> now]) BY <1>1 DEF Recalled
  <2>4. ASSUME NEW r \in Request, Recalled(hook_ring_, r) PROVE Recalled(ring, r)
    <3>1. r.at \in Nat BY DEF Request
    <3> QED BY <1>1, <2>2, <2>4, <3>1 DEF Recalled
  <2> QED BY <1>1, <1>3, <2>1, <2>3, <2>4
<1> QED BY <1>1, <1>4, <1>5

-----------------------------------------------------------------------------
(***************************************************************************)
(* Every step keeps the invariant.                                         *)
(***************************************************************************)

\* The clock discipline does not turn back the time.
LEMMA ClockGoesOn ==
  ASSUME now \in Nat, Environment \/ MainLoop
  PROVE  now' \in Nat /\ now <= now'
<1>1. now' = now \/ now' = now + 1
  BY DEF Environment, ReceiverEdge, MissedEdge, NoiseEdge, StartCoast, Relock, Stall, Resume,
         Tick, Slew, ClockPushed, MainLoop, LoopTake, ApplyPpsCorrection, Applying,
         PulseIgnored, PulseWithoutFix, PulseFirst, Counting, PulseSync, PulseDiverged,
         PulseHardSync, PulseDiscipline, NmeaWithoutTime, OnUpdate, OnGlitch, Hearing,
         NmeaCoarse, NmeaCheck, NmeaDiverged
<1> QED BY <1>1

\* As time goes on, the ring and what is recalled stay what they were.
LEMMA StillRecalled ==
  ASSUME now \in Nat, now' \in Nat, now <= now', UNCHANGED hook_ring_,
         hook_ring_ \in Seq(HookRecord), InOrder(hook_ring_)
  PROVE  /\ InOrder(hook_ring_)'
         /\ \A r \in Request : Recalled(hook_ring_, r) => Recalled(hook_ring_, r)'
<1>1. \A i \in 1 .. Len(hook_ring_) : hook_ring_[i] \in HookRecord OBVIOUS
<1>2. \A i \in 1 .. Len(hook_ring_) : hook_ring_[i].t \in Nat BY <1>1 DEF HookRecord
<1>3. InOrder(hook_ring_)' BY <1>2 DEF InOrder
<1>4. \A r \in Request : r.at \in Nat BY DEF Request
<1> QED BY <1>3, <1>4 DEF Recalled

\* The hook records a request, and lwIP queues it.
LEMMA ArriveStep ==
  ASSUME ServeInv, NEW c \in Client, NEW verdict \in Verdict, Arrive(c, verdict)
  PROVE  ServeInv'
<1> DEFINE h == [key |-> c, t |-> now, verdict |-> verdict]
           r == [key |-> c, at |-> now]
<1> USE DEF ServeInv, ServeTypeOK, HookInv
<1>1. h \in HookRecord /\ h.t = now /\ h.key = c BY DEF HookRecord
<1>2. r \in Request BY DEF Request
<1>3. /\ hook_ring_' = Recorded(h)
      /\ mailbox' = Append(mailbox, r) \/ mailbox' = mailbox
      /\ UNCHANGED <<now, tpc, request, hook>>
  BY DEF Arrive, vars, task
<1> HIDE DEF h, r
<1>4. /\ Recorded(h) \in Seq(HookRecord) /\ InOrder(Recorded(h))
      /\ Recalled(Recorded(h), r)
      /\ \A q \in Request : Recalled(hook_ring_, q) => Recalled(Recorded(h), q)
  BY <1>1, RecordedRecalls DEF r
<1>5. ServeTypeOK'
  <2>1. mailbox' \in Seq(Request) BY <1>2, <1>3
  <2> QED BY <1>3, <1>4, <2>1
<1>6. \A i \in 1 .. Len(mailbox') : Recalled(hook_ring_, mailbox[i])'
  <2>1. \A i \in 1 .. Len(mailbox) : mailbox[i] \in Request OBVIOUS
  <2>2. \A i \in 1 .. Len(mailbox) : Recalled(Recorded(h), mailbox[i]) BY <1>4, <2>1
  <2>3. \A i \in 1 .. Len(mailbox') :
          mailbox'[i] = r \/ (i \in 1 .. Len(mailbox) /\ mailbox'[i] = mailbox[i])
    BY <1>2, <1>3
  <2>4. \A i \in 1 .. Len(mailbox') : Recalled(Recorded(h), mailbox'[i])
    BY <1>4, <2>2, <2>3
  <2> QED BY <1>3, <2>4 DEF Recalled
<1>7. InOrder(hook_ring_)' BY <1>3, <1>4 DEF InOrder
<1>8. tpc' = "lookup" => request' \in Request /\ Recalled(hook_ring_, request)'
  BY <1>3, <1>4 DEF Recalled
<1>9. (Belongs => Belongs') BY <1>3 DEF Belongs
<1> QED BY <1>3, <1>5, <1>6, <1>7, <1>8, <1>9

\* lookup() returns a record of the request that waits, not an older one.
LEMMA LookupStep ==
  ASSUME ServeInv, Lookup
  PROVE  ServeInv'
<1> USE DEF ServeInv, ServeTypeOK, HookInv
<1>1. /\ tpc = "lookup" /\ tpc' = "check" /\ UNCHANGED <<now, hook_ring_, mailbox, request>>
      /\ request \in Request /\ Recalled(hook_ring_, request)
  BY DEF Lookup, ClockRuns, vars, net
<1>2. CASE Matches(request.key) = {}
  <2>1. hook' = NoHook BY <1>1, <1>2 DEF Lookup
  <2> QED BY <1>1, <2>1 DEF InOrder, Recalled, Answering
<1>3. CASE Matches(request.key) # {}
  <2>1. hook' = Newest(request.key) BY <1>3 DEF Lookup
  <2>2. hook' \in Matches(request.key) /\ \A g \in Matches(request.key) : g.t <= hook'.t
    BY <1>3, <2>1, NewestIsNewest DEF InOrder
  <2>3. PICK i \in 1 .. Len(hook_ring_) : hook' = hook_ring_[i]
    BY <2>2 DEF Matches, Range
  <2>4. hook' \in HookRecord /\ hook'.t \in Nat /\ hook'.key = request.key
        /\ now - hook'.t <= MAX_AGE
    <3>1. hook' \in HookRecord BY <2>3
    <3> QED BY <2>2, <3>1 DEF Matches, HookRecord
  <2>5. request.at \in Nat /\ request.at <= now BY <1>1 DEF Request, Recalled
  <2>6. hook'.t >= request.at
    <3>1. CASE \A j \in 1 .. Len(hook_ring_) : hook_ring_[j].t >= request.at
      BY <2>3, <3>1
    <3>2. CASE \E j \in 1 .. Len(hook_ring_) :
                 hook_ring_[j].key = request.key /\ hook_ring_[j].t = request.at
      <4>1. PICK j \in 1 .. Len(hook_ring_) :
              hook_ring_[j].key = request.key /\ hook_ring_[j].t = request.at
        BY <3>2
      <4>2. CASE now - request.at <= MAX_AGE
        <5>1. hook_ring_[j] \in Matches(request.key) BY <4>1, <4>2 DEF Matches, Range
        <5> QED BY <2>2, <4>1, <5>1
      <4>3. CASE ~(now - request.at <= MAX_AGE) BY <2>4, <2>5, <4>3
      <4> QED BY <4>2, <4>3
    <3> QED BY <1>1, <3>1, <3>2 DEF Recalled
  <2> QED BY <1>1, <2>4, <2>6 DEF InOrder, Recalled, Answering, Belongs
<1> QED BY <1>2, <1>3

\* The other steps of recv_task_() keep the record of the request, or drop both.
LEMMA TaskStep ==
  ASSUME ServeInv, RecvTask, ~Lookup
  PROVE  ServeInv'
<1> USE DEF ServeInv, ServeTypeOK, HookInv, Answering
<1>1. CASE RecvFrom
  <2>1. /\ tpc = "recvfrom" /\ mailbox # << >> /\ request' = Head(mailbox)
        /\ mailbox' = Tail(mailbox) /\ tpc' = "lookup" /\ UNCHANGED <<now, hook_ring_, hook>>
    BY <1>1 DEF RecvFrom, vars
  <2>2. /\ Len(mailbox) > 0 /\ request' = mailbox[1] /\ request' \in Request
        /\ mailbox' \in Seq(Request)
        /\ \A i \in 1 .. Len(mailbox') : i + 1 \in 1 .. Len(mailbox) /\ mailbox'[i] = mailbox[i + 1]
    BY <2>1
  <2>3. Recalled(hook_ring_, request') BY <2>2
  <2>4. \A i \in 1 .. Len(mailbox') : Recalled(hook_ring_, mailbox'[i]) BY <2>2
  <2> QED BY <2>1, <2>2, <2>3, <2>4 DEF InOrder, Recalled
<1>2. CASE UNCHANGED <<now, hook_ring_, mailbox>> /\ Drop
  <2>1. tpc' = "recvfrom" /\ hook' = NoHook /\ request' = NoRequest BY <1>2 DEF Drop
  <2> QED BY <1>2, <2>1 DEF InOrder, Recalled
<1>3. CASE /\ UNCHANGED <<now, hook_ring_, mailbox, request, hook>>
           /\ tpc \in Answering \cup {"check"} /\ tpc' \in Answering
           /\ tpc = "check" => hook # NoHook
  BY <1>3 DEF InOrder, Recalled, Belongs
<1>4. CASE Check BY <1>2, <1>3, <1>4 DEF Check, ClockRuns, vars, net, Admitted
<1>5. CASE Resolve BY <1>2, <1>3, <1>5 DEF Resolve, ClockRuns, vars, net
<1>6. CASE BuildHeader \/ BuildReference \/ BuildTransmit \/ SendTo \/ PatchAsked \/ PatchT3
  BY <1>3, <1>6 DEF BuildHeader, BuildReference, BuildTransmit, SendTo, PatchAsked, PatchT3,
                    ClockRuns, vars, net
<1>7. CASE Learn BY <1>2, <1>7 DEF Learn, ClockRuns, vars, net
<1> QED BY <1>1, <1>4, <1>5, <1>6, <1>7 DEF RecvTask

\* A step of the clock, whatever it does.
LEMMA ClockStepKeeps ==
  ASSUME ServeInv, ClockStep
  PROVE  ServeInv'
<1> USE DEF ServeInv, ServeTypeOK, HookInv
<1>1. UNCHANGED <<hook_ring_, mailbox, tpc, request, hook>> BY DEF ClockStep, net
<1>2. now' \in Nat /\ now <= now' BY ClockGoesOn DEF ClockStep
<1>3. /\ InOrder(hook_ring_)'
      /\ \A r \in Request : Recalled(hook_ring_, r) => Recalled(hook_ring_, r)'
  BY <1>1, <1>2, StillRecalled
<1>4. \A i \in 1 .. Len(mailbox) : mailbox[i] \in Request OBVIOUS
<1>5. \A i \in 1 .. Len(mailbox') : Recalled(hook_ring_, mailbox[i])'
  BY <1>1, <1>3, <1>4 DEF Recalled
<1>6. tpc' = "lookup" => request' \in Request /\ Recalled(hook_ring_, request)'
  BY <1>1, <1>3 DEF Recalled
<1>7. Belongs => Belongs' BY <1>1 DEF Belongs
<1> QED BY <1>1, <1>2, <1>3, <1>5, <1>6, <1>7

\* The receive stamp of a reply that claims to be synchronised is that of a frame
\* with this client's key, and of none that came before the request.
THEOREM StampsBelong == ServeSpec => []ReceiveStampBelongs
<1>1. ServeInit => ServeInv
  <2> SUFFICES ASSUME ServeInit PROVE ServeInv
    OBVIOUS
  <2>1. now \in Nat BY TypeInit DEF ServeInit, TypeOK
  <2> QED BY <2>1 DEF ServeInit, ServeInv, ServeTypeOK, HookInv, InOrder, Answering
<1>2. ServeInv /\ [ServeNext]_allvars => ServeInv'
  <2> SUFFICES ASSUME ServeInv, [ServeNext]_allvars PROVE ServeInv'
    OBVIOUS
  <2>1. CASE ClockStep BY <2>1, ClockStepKeeps
  <2>2. CASE RecvTask BY <2>2, LookupStep, TaskStep
  <2>3. ASSUME NEW c \in Client, NEW verdict \in Verdict, Arrive(c, verdict) PROVE ServeInv'
    BY <2>3, ArriveStep
  <2>4. CASE UNCHANGED allvars
    BY <2>4 DEF ServeInv, ServeTypeOK, HookInv, InOrder, Recalled, Belongs, allvars, vars,
                svars, task, net
  <2> QED BY <2>1, <2>2, <2>3, <2>4 DEF ServeNext, EndOfHorizon, allvars
<1>3. ServeInv => ReceiveStampBelongs
  BY DEF ServeInv, HookInv, Belongs, ReceiveStampBelongs, Claimed, Sending, Answering
<1> QED BY <1>1, <1>2, <1>3, PTL DEF ServeSpec

-----------------------------------------------------------------------------
(***************************************************************************)
(* The times of a reply.  What a reply rests on between the question for   *)
(* synchronisation and the read of the clock is that the system clock is   *)
(* right: it is while the discipline is synchronised (SyncedInv), and only *)
(* a sentence or a pulse moves it.                                         *)
(***************************************************************************)

RightClock == sys_off = 0 /\ adj = 0

\* The clock was found synchronised and is yet to be read, and no sentence set it.
Trusting ==
  /\ ~undercut
  /\ tpc = "patch" \/ (tpc \in {"reference", "transmit"} /\ reply.li = 0)

Reply == [li : {0, 3}, reftime : Int, xmt : Int, patched : BOOLEAN]

TimeInv ==
  /\ reply \in Reply
  /\ Undisturbed =>
       /\ Trusting => RightClock
       /\ reply.patched => tpc = "left"
       /\ reply.reftime <= now
       /\ ServesTrueTime /\ PatchedTimeIsTrue

\* What a reader takes to be synchronised is right, and so is the anchor.
LEMMA SyncedIsRight ==
  ASSUME TypeOK, ClockInv, Undisturbed
  PROVE  /\ pps_synced => RightClock
         /\ LastSyncEpoch * SEC \in Int /\ LastSyncEpoch * SEC <= now
         /\ RightClock => \A ts \in TimesOf(now) : ts = now
         /\ \A ts \in TimesOf(now) : ts \in Int
<1>1. GridInv /\ SyncedInv /\ AnchorTrue BY DEF ClockInv
<1>2. /\ now \in Nat /\ sys_off \in Int /\ last_gps_epoch \in Int /\ prev_pps_micros \in Nat
      /\ last_pps_micros \in Nat /\ last_edge \in Nat
      /\ anchor.epoch \in Int /\ anchor.micros \in Nat
  BY DEF TypeOK
<1>3. pps_synced => RightClock BY <1>1 DEF SyncedInv, RightClock
<1>4. LastSyncEpoch * SEC \in Int /\ LastSyncEpoch * SEC <= now
  <2>1. CASE pps_synced
    <3>1. last_gps_epoch * SEC = prev_pps_micros BY <1>1, <2>1 DEF SyncedInv
    <3>2. prev_pps_micros <= now BY <1>1, <1>2 DEF GridInv
    <3> QED BY <1>2, <2>1, <3>1, <3>2 DEF LastSyncEpoch
  <2>2. CASE ~pps_synced
    <3>1. LastSyncEpoch = 0 BY <2>2 DEF LastSyncEpoch
    <3> QED BY <1>2, <3>1, TimeAssumption DEF TimeAssumption
  <2> QED BY <2>1, <2>2
<1>5. FromSystem(now) \in Int /\ (RightClock => FromSystem(now) = now)
  BY <1>2 DEF FromSystem, RightClock
<1>6. AnchorUsable(now) => FromAnchor(now) = now
  <2>1. AnchorUsable(now) => anchor.epoch * SEC = anchor.micros
    BY <1>1 DEF AnchorUsable, AnchorTrue
  <2> QED BY <1>2, <2>1 DEF FromAnchor
<1> QED BY <1>2, <1>3, <1>4, <1>5, <1>6 DEF TimesOf

\* Only a sentence that sets the clock anew moves a clock that is right and is not
\* synchronised any more.
LEMMA ClockStaysRight ==
  ASSUME TypeOK, ClockInv', Undisturbed, RightClock, Environment \/ MainLoop, ~Restarted
  PROVE  RightClock'
<1>1. Next BY DEF Next
<1>2. Undisturbed' /\ \A g : ~ClockPushed(g)
  BY <1>1, UndisturbedStays DEF ClockPushed
<1>3. CASE pps_synced' BY <1>2, <1>3 DEF ClockInv, SyncedInv, RightClock
<1>4. CASE UNCHANGED clock BY <1>4 DEF clock, RightClock
<1>5. ASSUME NEW s \in Unread, NEW ts \in Int,
             NmeaCoarse(s, ts) \/ NmeaCheck(s, ts) \/ NmeaDiverged(s, ts), ~pps_synced'
      PROVE  RightClock'
  <2>1. adj' = 0 BY <1>5 DEF NmeaCoarse, NmeaCheck, NmeaDiverged, EpochSanity, RightClock
  <2>2. heard' # heard
    BY <1>5 DEF NmeaCoarse, NmeaCheck, NmeaDiverged, Hearing, Unread, TypeOK
  <2> QED BY <1>5, <2>1, <2>2 DEF Restarted, RightClock
<1>6. CASE Environment
  <2>1. ~Slew BY DEF Slew, RightClock
  <2> QED BY <1>2, <1>4, <1>6, <2>1
          DEF Environment, ReceiverEdge, MissedEdge, NoiseEdge, StartCoast, Relock, Stall, Resume,
              Tick, main
<1>7. CASE LoopTake BY <1>4, <1>7 DEF LoopTake
<1>8. CASE ApplyPpsCorrection
  BY <1>3, <1>4, <1>8
     DEF ApplyPpsCorrection, PulseIgnored, PulseWithoutFix, PulseFirst, PulseSync, PulseDiverged,
         PulseHardSync, PulseDiscipline, epochs
<1>9. ASSUME NEW s \in Unread, NmeaWithoutTime(s) PROVE RightClock'
  BY <1>4, <1>9 DEF NmeaWithoutTime
<1>10. ASSUME NEW s \in Unread, OnUpdate(s, s) PROVE RightClock'
  <2>1. s \in Int BY DEF Unread, TypeOK
  <2> QED BY <1>3, <1>5, <1>10, <2>1 DEF OnUpdate
<1>11. ASSUME NEW s \in Unread, NEW g \in Glitches, OnGlitch(s, s + g) PROVE RightClock'
  <2>1. s + g \in Int BY FaultAssumption DEF FaultAssumption, Unread, TypeOK
  <2> QED BY <1>3, <1>5, <1>11, <2>1 DEF OnGlitch
<1> QED BY <1>6, <1>7, <1>8, <1>9, <1>10, <1>11 DEF MainLoop

\* A step of the clock while the task is at work.
LEMMA ClockStepTimes ==
  ASSUME TypeOK, ClockInv', TimeInv, ClockStep
  PROVE  TimeInv'
<1>1. UNCHANGED <<tpc, reply>> /\ tpc \notin {"sendto", "left"} /\ (Environment \/ MainLoop)
  BY DEF ClockStep
<1>2. undercut' = (undercut \/ (tpc \in Reading /\ Restarted)) BY DEF ClockStep
<1>3. now' \in Nat /\ now <= now' BY <1>1, ClockGoesOn DEF TypeOK
<1>4. reply \in Reply BY DEF TimeInv
<1> SUFFICES ASSUME Undisturbed
             PROVE  /\ Trusting' => RightClock'
                    /\ reply'.patched => tpc' = "left"
                    /\ reply'.reftime <= now'
                    /\ ServesTrueTime' /\ PatchedTimeIsTrue'
  <2>1. Undisturbed' <=> Undisturbed BY <1>1, UndisturbedStays DEF Next
  <2> QED BY <1>1, <1>4, <2>1 DEF TimeInv
<1>5. Trusting' => RightClock'
  <2> SUFFICES ASSUME Trusting' PROVE RightClock'
    OBVIOUS
  <2>1. tpc \in Reading /\ ~undercut' BY <1>1 DEF Trusting, Reading
  <2>2. ~undercut /\ ~Restarted BY <1>2, <2>1
  <2>3. Trusting BY <1>1, <2>2 DEF Trusting
  <2> QED BY <1>1, <2>2, <2>3, ClockStaysRight DEF TimeInv
<1>6. reply.patched => tpc = "left" BY DEF TimeInv
<1>7. reply.reftime <= now /\ reply.reftime \in Int /\ now \in Nat
  BY <1>4 DEF TimeInv, Reply, TypeOK
<1> QED BY <1>1, <1>3, <1>5, <1>6, <1>7 DEF ServesTrueTime, PatchedTimeIsTrue, Claimed, Sending

\* A step of recv_task_().
LEMMA TaskTimes ==
  ASSUME TypeOK, ClockInv, TimeInv, RecvTask
  PROVE  TimeInv'
<1>1. UNCHANGED vars BY DEF RecvTask, RecvFrom, Lookup, Check, Resolve, BuildHeader,
                            BuildReference, BuildTransmit, SendTo, PatchAsked, PatchT3, Learn,
                            ClockRuns
<1>2. now' = now /\ (RightClock' <=> RightClock) /\ (Undisturbed' <=> Undisturbed)
  BY <1>1 DEF vars, main, clock, RightClock, Undisturbed
<1>3. reply \in Reply /\ now \in Nat BY DEF TimeInv, TypeOK
<1> USE DEF ServesTrueTime, PatchedTimeIsTrue, Claimed, Sending, Trusting
<1>4. CASE Drop
  <2>1. reply' = Blank /\ tpc' = "recvfrom" BY <1>4 DEF Drop
  <2> QED BY <1>2, <1>3, <2>1 DEF TimeInv, Reply, Blank
<1>5. CASE /\ UNCHANGED <<reply, undercut>>
           /\ tpc' \notin {"reference", "transmit", "sendto", "patch", "left"} /\ tpc # "left"
  BY <1>2, <1>3, <1>5 DEF TimeInv
<1>6. CASE RecvFrom \/ Lookup \/ SendTo BY <1>5, <1>6 DEF RecvFrom, Lookup, SendTo
<1>7. CASE Check \/ Resolve \/ Learn BY <1>4, <1>5, <1>7 DEF Check, Resolve, Learn
<1>8. CASE BuildHeader
  <2>1. /\ tpc = "header" /\ tpc' = "reference" /\ undercut' = undercut
        /\ reply' = [reply EXCEPT !.li = IF IsSynchronized THEN 0 ELSE 3]
    BY <1>8 DEF BuildHeader
  <2>2. /\ reply' \in Reply /\ reply'.li = (IF IsSynchronized THEN 0 ELSE 3)
        /\ reply'.patched = reply.patched /\ reply'.reftime = reply.reftime
    BY <1>3, <2>1 DEF Reply
  <2>3. Undisturbed /\ reply'.li = 0 => RightClock
    BY <2>2, SyncedIsRight DEF IsSynchronized
  <2> QED BY <1>2, <2>1, <2>2, <2>3 DEF TimeInv
<1>9. CASE BuildReference
  <2>1. /\ tpc = "reference" /\ tpc' = "transmit" /\ undercut' = undercut
        /\ reply' = [reply EXCEPT !.reftime = LastSyncEpoch * SEC]
    BY <1>9 DEF BuildReference
  <2>2. LastSyncEpoch * SEC \in Int
    <3>1. LastSyncEpoch \in Int BY DEF LastSyncEpoch, TypeOK
    <3> QED BY <3>1, TimeAssumption DEF TimeAssumption
  <2>3. /\ reply' \in Reply /\ reply'.li = reply.li
        /\ reply'.patched = reply.patched /\ reply'.reftime = LastSyncEpoch * SEC
    BY <1>3, <2>1, <2>2 DEF Reply
  <2>4. Undisturbed => reply'.reftime <= now BY <2>3, SyncedIsRight
  <2> QED BY <1>2, <2>1, <2>3, <2>4 DEF TimeInv
<1>10. ASSUME NEW ts \in TimesOf(now) PROVE ts \in Int
  BY <1>10 DEF TimesOf, FromSystem, FromAnchor, TypeOK
<1>11. CASE BuildTransmit
  <2>1. PICK ts \in TimesOf(now) : reply' = [reply EXCEPT !.xmt = ts] BY <1>11 DEF BuildTransmit
  <2>2. tpc = "transmit" /\ tpc' = "sendto" /\ undercut' = undercut BY <1>11 DEF BuildTransmit
  <2>3. /\ reply' \in Reply /\ reply'.li = reply.li /\ reply'.patched = reply.patched
        /\ reply'.reftime = reply.reftime /\ reply'.xmt = ts
    BY <1>3, <1>10, <2>1 DEF Reply
  <2>4. Undisturbed /\ reply.li = 0 /\ ~undercut => ts = now
    BY <2>2, SyncedIsRight DEF TimeInv
  <2> QED BY <1>2, <2>2, <2>3, <2>4 DEF TimeInv
<1>12. CASE PatchAsked
  <2>1. /\ tpc = "sending" /\ reply' = reply /\ tpc' \in {"left", "patch"}
        /\ tpc' = "patch" => IsSynchronized
    BY <1>12 DEF PatchAsked
  <2>2. Undisturbed /\ tpc' = "patch" => RightClock BY <2>1, SyncedIsRight DEF IsSynchronized
  <2> QED BY <1>2, <1>3, <2>1, <2>2 DEF TimeInv
<1>13. CASE PatchT3
  <2>1. PICK ts \in TimesOf(now) : reply' = [reply EXCEPT !.xmt = ts, !.patched = TRUE]
    BY <1>13 DEF PatchT3
  <2>2. tpc = "patch" /\ tpc' = "left" /\ undercut' = undercut BY <1>13 DEF PatchT3
  <2>3. /\ reply' \in Reply /\ reply'.reftime = reply.reftime /\ reply'.xmt = ts
    BY <1>3, <1>10, <2>1 DEF Reply
  <2>4. Undisturbed /\ ~undercut => ts = now BY <2>2, SyncedIsRight DEF TimeInv
  <2> QED BY <1>2, <2>2, <2>3, <2>4 DEF TimeInv
<1> QED BY <1>6, <1>7, <1>8, <1>9, <1>11, <1>12, <1>13 DEF RecvTask

\* The invariant of the serving path next to the clock discipline.
LEMMA TimeInvariant ==
  ASSUME QuickLoop
  PROVE  ServeSpec /\ []ShortStalls => []TimeInv
<1>1. ServeInit => Init /\ TimeInv
  <2> SUFFICES ASSUME ServeInit PROVE Init /\ TimeInv
    OBVIOUS
  <2>1. reply = Blank /\ tpc = "recvfrom" /\ Init /\ now \in Nat
    BY TypeInit DEF ServeInit, TypeOK
  <2> QED BY <2>1 DEF TimeInv, Reply, Blank, Trusting, ServesTrueTime, PatchedTimeIsTrue,
                      Claimed, Sending
<1>2. [ServeNext]_allvars => [Next]_vars
  BY DEF ServeNext, ClockStep, RecvTask, RecvFrom, Lookup, Check, Resolve, BuildHeader,
         BuildReference, BuildTransmit, SendTo, PatchAsked, PatchT3, Learn, ClockRuns, Arrive,
         Next, allvars
<1>3. TypeOK /\ ClockInv /\ ClockInv' /\ TimeInv /\ [ServeNext]_allvars => TimeInv'
  <2> SUFFICES ASSUME TypeOK, ClockInv, ClockInv', TimeInv, [ServeNext]_allvars
               PROVE  TimeInv'
    OBVIOUS
  <2>1. CASE ClockStep BY <2>1, ClockStepTimes
  <2>2. CASE RecvTask BY <2>2, TaskTimes
  <2>3. CASE UNCHANGED <<vars, task>>
    BY <2>3 DEF TimeInv, Trusting, RightClock, Undisturbed, ServesTrueTime, PatchedTimeIsTrue,
                Claimed, Sending, vars, main, clock, task
  <2> QED BY <2>1, <2>2, <2>3 DEF ServeNext, Arrive, EndOfHorizon, allvars, svars
<1> QED BY <1>1, <1>2, <1>3, TypeCorrect, ClockInvariant, PTL DEF ServeSpec, Spec

\* Late pulses, a blocked loop, wrong or lost sentences and a fix lost in the
\* middle of it do not make the server send a transmit time other than true time,
\* or one before its reference time (ServesTrueTime).
THEOREM ServesTrueTimeHolds ==
  ASSUME QuickLoop
  PROVE  ServeSpec /\ []ShortStalls => [](Undisturbed => ServesTrueTime)
<1>1. TimeInv => (Undisturbed => ServesTrueTime) BY DEF TimeInv
<1> QED BY <1>1, TimeInvariant, PTL

\* The same of a T3 that was patched after a wait of any length, as the reply
\* leaves (PatchedTimeIsTrue).
THEOREM PatchedTimeIsTrueHolds ==
  ASSUME QuickLoop
  PROVE  ServeSpec /\ []ShortStalls => [](Undisturbed => PatchedTimeIsTrue)
<1>1. TimeInv => (Undisturbed => PatchedTimeIsTrue) BY DEF TimeInv
<1> QED BY <1>1, TimeInvariant, PTL

=============================================================================
