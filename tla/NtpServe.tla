------------------------------- MODULE NtpServe -------------------------------
(***************************************************************************)
(* Serving time: recv_task_(), build_ntp_response_() and the reads of the  *)
(* clock they make (components/ntp_server/ntp_server.cpp), next to the     *)
(* clock discipline of GpsPpsTime.                                         *)
(*                                                                         *)
(* recv_task_() runs on core 1 while the main loop runs on core 0: between *)
(* any two of its reads the discipline may take any number of steps and    *)
(* time may pass.  A request passes the driver's input hook, which records *)
(* when it came, then waits in lwIP's mailbox for the task.                *)
(*                                                                         *)
(* The seqlock read of the anchor is one step here: AnchorSeqlock          *)
(* implements AtomicAnchor, which returns the pair in force or fails.      *)
(***************************************************************************)
EXTENDS GpsPpsTime, SequencesExt

CONSTANTS
  Client,       \* (transmit timestamp, address, port): what the hook keys on
  Nobody,       \* no client
  RING_SIZE,    \* 8 in the code
  MAX_AGE,      \* ticks a hook record stays good for
  ANCHOR_SPAN,  \* ticks an anchor may be extrapolated over
  Mailbox,      \* requests lwIP queues for the socket
  MaxRequests   \* bound on requests sent

ASSUME ServeAssumption ==
  /\ Nobody \notin Client
  /\ RING_SIZE \in Nat \ {0} /\ MAX_AGE \in Nat /\ ANCHOR_SPAN \in Nat
  /\ Mailbox \in Nat \ {0} /\ MaxRequests \in Nat

VARIABLES
  hook_ring_,   \* the last RING_SIZE hook records, oldest first
  mailbox,      \* requests waiting for recvfrom()
  requests,     \* requests sent so far
  tpc,          \* where recv_task_() is
  request,      \* the request it is serving
  hook,         \* the hook record of that request, if it has one
  receive_ts,   \* T2
  reply,        \* the fields of the response written so far
  undercut      \* history: a sentence restarted the clock between the question
                \* whether it is synchronised and the read of it that followed

task  == <<tpc, request, hook, receive_ts, reply, undercut>>
net   == <<hook_ring_, mailbox, requests>>
svars == <<task, net>>
allvars == <<vars, svars>>

Verdict == {"ACCEPT", "REFUSE"}
NoRequest == [key |-> Nobody, at |-> 0]
NoHook == [key |-> Nobody, t |-> 0, verdict |-> "ACCEPT"]
Blank == [li |-> 3, reftime |-> 0, xmt |-> 0, patched |-> FALSE]

ServeInit ==
  /\ Init
  /\ hook_ring_ = << >> /\ mailbox = << >> /\ requests = 0
  /\ tpc = "recvfrom"
  /\ request = NoRequest /\ hook = NoHook
  /\ receive_ts = 0 /\ reply = Blank /\ undercut = FALSE

-----------------------------------------------------------------------------
(***************************************************************************)
(* Reading the clock.                                                      *)
(***************************************************************************)

\* anchor_epoch_us_() succeeds: an instant before the anchor wraps to a huge
\* span, one too long after it means that the pulses have stopped.
AnchorUsable(at) ==
  anchor.epoch # 0 /\ at >= anchor.micros /\ at - anchor.micros <= ANCHOR_SPAN

FromAnchor(at) == anchor.epoch * SEC + (at - anchor.micros)
FromSystem(at) == at + sys_off

\* What get_ntp_timestamp_() and hook_to_ntp_timestamp_() may return for the
\* instant at: the anchor, or the system clock if there is no usable anchor or
\* the seqlock read failed because a pair was just being published.
TimesOf(at) ==
  {FromSystem(at)} \cup (IF AnchorUsable(at) THEN {FromAnchor(at)} ELSE {})

-----------------------------------------------------------------------------
(***************************************************************************)
(* The network side: eth_input_hook_() and lwIP.                           *)
(***************************************************************************)

\* HookRing::record(): the oldest record makes room.
Recorded(h) ==
  LET ring == Append(hook_ring_, h) IN IF Len(ring) > RING_SIZE THEN Tail(ring) ELSE ring

\* The input hook records the frame, and it goes on to lwIP, which drops it if
\* the socket's mailbox is full.  Whether the interrupt edge vouches for the
\* stamp is decided by what the wire did, not by the code modelled here.
Arrive(c, verdict) ==
  /\ requests < MaxRequests
  /\ requests' = requests + 1
  /\ hook_ring_' = Recorded([key |-> c, t |-> now, verdict |-> verdict])
  /\ mailbox' = IF Len(mailbox) < Mailbox
                  THEN Append(mailbox, [key |-> c, at |-> now]) ELSE mailbox
  /\ UNCHANGED <<vars, task>>

\* Mutated form: the transmit timestamp alone is the key.
Matches_AnyClient(c) == {h \in Range(hook_ring_) : now - h.t <= MAX_AGE}

\* The records lookup() takes for a match, and the one it returns.
Matches(c) == {h \in Range(hook_ring_) : h.key = c /\ now - h.t <= MAX_AGE}
Newest(c) == CHOOSE h \in Matches(c) : \A g \in Matches(c) : g.t <= h.t

-----------------------------------------------------------------------------
(***************************************************************************)
(* recv_task_().                                                           *)
(***************************************************************************)

ClockRuns == UNCHANGED <<vars, net>>

\* The task gives up on the request and waits for the next one.
Drop ==
  /\ tpc' = "recvfrom"
  /\ request' = NoRequest /\ hook' = NoHook /\ receive_ts' = 0 /\ reply' = Blank
  /\ undercut' = FALSE

\* recvfrom() returns; T2 is the time it does, for want of a better one.
RecvFrom ==
  /\ tpc = "recvfrom" /\ mailbox # << >>
  /\ request' = Head(mailbox)
  /\ mailbox' = Tail(mailbox)
  /\ \E ts \in TimesOf(now) : receive_ts' = ts
  /\ tpc' = "lookup"
  /\ UNCHANGED <<vars, hook_ring_, requests, hook, reply, undercut>>

\* A hook record replaces T2 with the instant the driver saw the frame.
Lookup ==
  /\ tpc = "lookup"
  /\ IF Matches(request.key) = {}
       THEN UNCHANGED <<hook, receive_ts>>
       ELSE /\ hook' = Newest(request.key)
            /\ \E ts \in TimesOf(hook'.t) : receive_ts' = ts
  /\ tpc' = "check"
  /\ ClockRuns /\ UNCHANGED <<request, reply, undercut>>

\* Unsynchronised: drop.  No record although the hook is installed (eth_netif_ is set,
\* as it is wherever the hook records; without it the server has no T2 of the driver's
\* to check, and this module does not speak of it), or a stamp the interrupt edge does
\* not vouch for: refuse.
Admitted == IsSynchronized /\ hook # NoHook /\ hook.verdict = "ACCEPT"

Check ==
  /\ tpc = "check"
  /\ ClockRuns
  /\ IF Admitted
       THEN tpc' = "resolve" /\ UNCHANGED <<request, hook, receive_ts, reply, undercut>>
       ELSE Drop

\* wait_for_arp(): the next hop's address is known, comes in time, or does not.
Resolve ==
  /\ tpc = "resolve"
  /\ ClockRuns
  /\ \/ tpc' = "header" /\ UNCHANGED <<request, hook, receive_ts, reply, undercut>>
     \/ Drop

\* Mutated form: the check before the ARP wait is taken to be enough.
BuildHeader_NotAgain ==
  /\ tpc = "header"
  /\ reply' = [reply EXCEPT !.li = 0]
  /\ tpc' = "reference"
  /\ ClockRuns /\ UNCHANGED <<request, hook, receive_ts, undercut>>

\* build_ntp_response_() asks for synchronisation again ...
BuildHeader ==
  /\ tpc = "header"
  /\ reply' = [reply EXCEPT !.li = IF IsSynchronized THEN 0 ELSE 3]
  /\ tpc' = "reference"
  /\ ClockRuns /\ UNCHANGED <<request, hook, receive_ts, undercut>>

\* ... then for the epoch of the last correction ...
BuildReference ==
  /\ tpc = "reference"
  /\ reply' = [reply EXCEPT !.reftime = LastSyncEpoch * SEC]
  /\ tpc' = "transmit"
  /\ ClockRuns /\ UNCHANGED <<request, hook, receive_ts, undercut>>

\* ... and last for the time.  T3 names this instant: what the send will take is
\* estimated (Estimators), and less than a tick.
BuildTransmit ==
  /\ tpc = "transmit"
  /\ \E ts \in TimesOf(now) : reply' = [reply EXCEPT !.xmt = ts]
  /\ tpc' = "sendto"
  /\ ClockRuns /\ UNCHANGED <<request, hook, receive_ts, undercut>>

\* The reply waits for the core lock and for the device, perhaps for long.
SendTo ==
  /\ tpc = "sendto"
  /\ tpc' = "sending"
  /\ ClockRuns /\ UNCHANGED <<request, hook, receive_ts, reply, undercut>>

\* The bytes are in the chip.  If T3 is to be patched, build_patch_t3_() asks for
\* synchronisation; without it T3 stays as it was built.
PatchAsked ==
  /\ tpc = "sending"
  /\ tpc' \in IF IsSynchronized THEN {"left", "patch"} ELSE {"left"}
  /\ undercut' = FALSE
  /\ ClockRuns /\ UNCHANGED <<request, hook, receive_ts, reply>>

\* Mutated form: the patch takes the time the frame was built with.
PatchT3_AsBuilt ==
  /\ tpc = "patch"
  /\ reply' = [reply EXCEPT !.patched = TRUE]
  /\ tpc' = "left"
  /\ ClockRuns /\ UNCHANGED <<request, hook, receive_ts, undercut>>

\* Then it reads the clock, for the instant the chip is told to transmit.
PatchT3 ==
  /\ tpc = "patch"
  /\ \E ts \in TimesOf(now) : reply' = [reply EXCEPT !.xmt = ts, !.patched = TRUE]
  /\ tpc' = "left"
  /\ ClockRuns /\ UNCHANGED <<request, hook, receive_ts, undercut>>

\* The reply has left, and the iteration ends.  (What is learned from it is in SendPath
\* and Estimators.)
Learn ==
  /\ tpc = "left"
  /\ ClockRuns
  /\ Drop

RecvTask ==
  \/ RecvFrom \/ Lookup \/ Check \/ Resolve
  \/ BuildHeader \/ BuildReference \/ BuildTransmit \/ SendTo
  \/ PatchAsked \/ PatchT3 \/ Learn

\* Between the question and the read of the clock that follows it.
Reading == {"reference", "transmit", "patch"}

\* A sentence sets the clock of an unsynchronised node anew: it was more than two
\* seconds from the epoch counter (NmeaDiverged), or it is the first one since a
\* pulse without a fix dropped the counter.  It may have been waiting in the
\* UART's buffer for seconds, and it is handled some time after its second began.
Restarted == heard' # heard /\ ~pps_synced' /\ sys_off' # sys_off

\* The clock goes on.  Building a reply takes far less than a tick, but the
\* other core is not stopped by it; sendto() directly follows the read of T3, and
\* the patch takes far less than a tick, too.
ClockStep ==
  /\ Environment \/ MainLoop
  /\ tpc \notin {"sendto", "left"}
  /\ tpc \in {"header", "reference", "transmit", "patch"} => now' = now
  /\ undercut' = (undercut \/ (tpc \in Reading /\ Restarted))
  /\ UNCHANGED <<tpc, request, hook, receive_ts, reply, net>>

ServeNext ==
  \/ ClockStep
  \/ RecvTask
  \/ \E c \in Client, verdict \in Verdict : Arrive(c, verdict)
  \/ EndOfHorizon /\ UNCHANGED svars

ServeSpec == ServeInit /\ [][ServeNext]_allvars

-----------------------------------------------------------------------------
(***************************************************************************)
(* Properties.  A reply is judged as it is handed to sendto(), and its     *)
(* patched T3 as it leaves.                                                *)
(***************************************************************************)

Sending == tpc = "sendto"
Claimed == Sending /\ reply.li = 0

\* Neither a pulse handled late, nor a blocked main loop, nor a lost fix that
\* withdraws the anchor in the middle of a reply makes the server send a
\* transmit time other than true time, or one before its reference time.  One
\* thing does: after a loop that was blocked, a sentence that sets the clock anew
\* in the very moment between the question and the read.
ServesTrueTime ==
  Claimed /\ ~undercut => reply.xmt = now /\ reply.reftime <= reply.xmt

\* However long the reply waited in sendto(), and whatever became of the clock in
\* the meantime, a T3 that was patched is true as the reply leaves, and after its
\* reference time.  The exception is the same.
PatchedTimeIsTrue ==
  tpc = "left" /\ reply.li = 0 /\ reply.patched /\ ~undercut =>
    reply.xmt = now /\ reply.reftime <= reply.xmt

\* The receive stamp is of a frame with this client's key, and of none that
\* came before the request: a repeated transmit timestamp gets no old stamp.
ReceiveStampBelongs ==
  Claimed => hook.key = request.key /\ hook.t >= request.at

\* The reply's three timestamps are in order, even if T2 is right.
TimestampsInOrder ==
  Claimed /\ receive_ts = hook.t =>
    reply.reftime <= receive_ts /\ receive_ts <= reply.xmt

=============================================================================
