------------------------------ MODULE SendPath ------------------------------
(***************************************************************************)
(* The way of a reply out: the taps of the W5500's SPI writes and the      *)
(* rewriting of T3 in the chip's buffer just before SEND                   *)
(* (components/ethernet/w5500_custom_spi.cpp, ntp_tx_patch.h), and what    *)
(* recv_task_() learns from the stamps of that SEND                        *)
(* (components/ntp_server/ntp_server.cpp).                                 *)
(*                                                                         *)
(* lwIP's core lock lets one task transmit at a time, so a transmission is *)
(* a sequence of steps of one actor, `tx'.  Beside it run recv_task_(),    *)
(* which reads the stamps without that lock, and the main task, which      *)
(* turns the rewriting on and off.  A reply that sendto() could only queue *)
(* behind an ARP exchange is transmitted by lwIP's thread when the answer  *)
(* comes.                                                                  *)
(*                                                                         *)
(* A frame may reach the end of the chip's ring, and the driver then       *)
(* writes it in two parts.  Where the ring ends decides what the taps see, *)
(* because they take a part shorter than 14 bytes for something else.      *)
(***************************************************************************)
EXTENDS Integers, Sequences

CONSTANTS
  Cuts,        \* where the end of the ring may fall: a subset of CutPlaces
  FailAt,      \* SPI transfers that may fail: a subset of FailPlaces
  MaxReplies, MaxOthers, MaxFails, MaxToggles \* bounds

\* Nowhere in the frame; in its first 14 bytes; elsewhere before its last 14;
\* in the checksum; in the last 14 bytes, where T3 is.
CutPlaces == {"none", "head", "middle", "checksum", "tail"}
FailPlaces == {"payload", "patch", "send"}

ASSUME SendAssumption ==
  /\ Cuts \subseteq CutPlaces /\ FailAt \subseteq FailPlaces
  /\ {MaxReplies, MaxOthers, MaxFails, MaxToggles} \subseteq Nat

VARIABLES
  patch_fn,         \* g_tx_patch_fn and g_tx_patch_ctx are set
  patch_ctx,
  toggling,         \* where the main task is in w5500_set_tx_patch()
  started,          \* g_tx_patch_frame_started
  hdr,              \* g_tx_patch_hdr: the parts it was put together from
  last_tx_class,    \* g_last_tx_class
  stamp,            \* the stamps of the last SEND
  tpc,              \* where the transmission is
  out,              \* the frame being transmitted
  mem,              \* that frame's T3 and checksum in the chip's buffer
  patch,            \* the patch being made: what for and what came of it
  rpc, mine,        \* where recv_task_() is, and the reply it handed over last
  before,           \* the number of the last SEND before sendto()
  after,            \* the stamps it has read since
  learned,          \* what it learned from for the last reply
  queued,           \* replies that lwIP holds behind an ARP exchange
  overlapped,       \* history: one of those was on its way since `before' was read
  on_wire,          \* the last frame that left
  count             \* replies, other frames, failures, toggles so far

switching == <<patch_fn, patch_ctx, toggling>>
track  == <<started, hdr, last_tx_class>>
send   == <<stamp, tpc, out, mem, patch, on_wire>>
recv   == <<rpc, mine, before, after, learned>>
arp    == <<queued, overlapped>>
spvars == <<switching, track, send, recv, arp, count>>

NoOut == [id |-> 0, class |-> "OTHER", cut |-> "none"]
NoStamp == [us |-> 0, seq |-> 0, class |-> "OTHER", patch_us |-> 0, patched |-> FALSE]
NoPatch == [ok |-> FALSE, of |-> 0, patched |-> FALSE]
NotLearned == [send |-> 0, patch_us |-> 0, patch_send |-> 0]

\* T3 and checksum: as built for the frame with this id, or rewritten.
Built(f) == [t3 |-> "built", csum |-> "built", class |-> f.class]

PathInit ==
  /\ patch_fn \in BOOLEAN /\ patch_ctx = patch_fn /\ toggling = "no"
  /\ started = FALSE /\ hdr = << >> /\ last_tx_class = "OTHER"
  /\ stamp = NoStamp /\ tpc = "idle" /\ out = NoOut /\ mem = Built(NoOut)
  /\ patch = NoPatch /\ on_wire = Built(NoOut)
  /\ rpc = "before" /\ mine = 0 /\ before = 0 /\ after = NoStamp /\ learned = NotLearned
  /\ queued = {} /\ overlapped = FALSE
  /\ count = [replies |-> 0, others |-> 0, fails |-> 0, toggles |-> 0]

-----------------------------------------------------------------------------
(***************************************************************************)
(* w5500_set_tx_patch(): off, reset, and on again if so asked.             *)
(***************************************************************************)

ToggleBegins ==
  /\ toggling = "no" /\ count.toggles < MaxToggles
  /\ count' = [count EXCEPT !.toggles = @ + 1]
  /\ \E to \in {"on", "off"} : toggling' = to
  /\ patch_fn' = FALSE
  /\ UNCHANGED <<patch_ctx, track, send, recv, arp>>

\* It resets the tracking, whoever is in the middle of a frame.
ToggleResets ==
  /\ toggling \in {"on", "off"}
  /\ started' = FALSE /\ hdr' = << >>
  /\ patch_ctx' = (toggling = "on")
  /\ toggling' = IF toggling = "on" THEN "arm" ELSE "no"
  /\ UNCHANGED <<patch_fn, last_tx_class, send, recv, arp, count>>

ToggleArms ==
  /\ toggling = "arm"
  /\ patch_fn' = TRUE /\ toggling' = "no"
  /\ UNCHANGED <<patch_ctx, track, send, recv, arp, count>>

MainTask == ToggleBegins \/ ToggleResets \/ ToggleArms

-----------------------------------------------------------------------------
(***************************************************************************)
(* A transmission.                                                         *)
(***************************************************************************)

May(place) == place \in FailAt /\ count.fails < MaxFails
OneMore(what) == [count EXCEPT ![what] = @ + 1]

\* The driver gives up: the frame is dropped, its place in the ring is used
\* again, and nothing of the taps is undone.
Aborts ==
  /\ tpc' = "idle" /\ out' = NoOut /\ mem' = Built(NoOut)
  /\ patch' = NoPatch
  /\ count' = OneMore("fails")

\* The number of the next frame that is handed over.
NextId == count.replies + count.others + 1

\* A task takes the core lock to transmit this frame.
Takes(id, class) ==
  /\ tpc = "idle"
  /\ \E cut \in Cuts : out' = [id |-> id, class |-> class, cut |-> cut]
  /\ mem' = Built(out')
  /\ patch' = NoPatch
  /\ tpc' = "first"

\* Another task transmits a frame that is not a reply.
OtherSends ==
  /\ count.others < MaxOthers
  /\ Takes(NextId, "OTHER")
  /\ count' = OneMore("others")
  /\ UNCHANGED <<switching, track, stamp, on_wire, recv, arp>>

\* The ARP answer has come: lwIP's thread transmits a reply that waited for it,
\* whatever recv_task_() is doing by then.  To the taps it is a reply like any.
QueuedLeaves ==
  /\ \E id \in queued : Takes(id, "NTP") /\ queued' = queued \ {id}
  /\ overlapped' = TRUE
  /\ UNCHANGED <<switching, track, stamp, on_wire, recv, count>>

\* What a part of 14 bytes or more looks like to the taps: only the beginning
\* of a frame has its headers.
Part(at) == [id |-> out.id, class |-> out.class, at |-> at, whole |-> out.cut = "none"]
LooksLike(p) == IF p.at = "begin" THEN p.class ELSE "OTHER"

\* The frame's first write says where it is; later ones are appended as long
\* as there is room, which there is for one more.
Tracked(p) == IF started THEN Append(hdr, p) ELSE <<p>>

\* w5500_custom_spi_write() of a part that is long enough.
TapWrite(p) ==
  /\ last_tx_class' = LooksLike(p)
  /\ IF patch_fn THEN started' = TRUE /\ hdr' = Tracked(p)
                 ELSE UNCHANGED <<started, hdr>>

\* The whole frame, or the part up to the end of the ring.
WriteFirst ==
  /\ tpc = "first"
  /\ IF out.cut = "head" THEN UNCHANGED track ELSE TapWrite(Part("begin"))
  /\ \/ /\ tpc' = IF out.cut = "none" THEN "SEND" ELSE "second"
        /\ UNCHANGED <<out, mem, patch, count>>
     \/ May("payload") /\ Aborts
  /\ UNCHANGED <<switching, stamp, on_wire, recv, arp>>

\* The rest, at the beginning of the ring.
WriteSecond ==
  /\ tpc = "second"
  /\ IF out.cut = "tail" THEN UNCHANGED track ELSE TapWrite(Part("rest"))
  /\ \/ tpc' = "SEND" /\ UNCHANGED <<out, mem, patch, count>>
     \/ May("payload") /\ Aborts
  /\ UNCHANGED <<switching, stamp, on_wire, recv, arp>>

\* plan_ntp_tx_patch(): the header begins with that of an NTP reply and
\* reaches the end of T3.  A frame that was cut takes the next part for that,
\* whatever frame it belongs to.
PlanOk(h) ==
  /\ h # << >> /\ h[1].at = "begin" /\ h[1].class = "NTP"
  /\ h[1].whole \/ Len(h) > 1

\* The write of Sn_CR = SEND begins by asking whether there is a patch to make.
PlanPatch ==
  /\ tpc = "SEND"
  /\ IF patch_fn /\ started /\ PlanOk(hdr)
       THEN /\ tpc' = "callback"
            /\ patch' = [ok |-> TRUE, of |-> hdr[1].id, patched |-> FALSE]
       ELSE tpc' = "untrack" /\ patch' = NoPatch
  /\ UNCHANGED <<switching, track, stamp, out, mem, on_wire, recv, arp, count>>

\* build_patch_t3_() gives the new T3, or declines: the clock is not
\* synchronised.  It is called with the context of this instant, which is a
\* null pointer if the patch has been turned off since.
Callback ==
  /\ tpc = "callback"
  /\ tpc' \in IF patch_ctx THEN {"t3", "untrack"} ELSE {"crashed"}
  /\ UNCHANGED <<switching, track, stamp, out, mem, patch, on_wire, recv, arp, count>>

\* Where the patch goes is where the tracked frame was.  It meets a frame that
\* took its place in the ring, if that one is not a reply of the same layout,
\* in bytes that are neither T3 nor checksum.
Rewritten(field, to) ==
  IF out.class = "NTP" THEN [mem EXCEPT ![field] = to]
                       ELSE [mem EXCEPT ![field] = "overwritten"]

\* The checksum is updated from that of the tracked frame: it is right for the
\* frame in the buffer only if that is the same one.
NewChecksum == IF patch.of = out.id THEN "new" ELSE "wrong"

WriteT3 ==
  /\ tpc = "t3"
  /\ \/ mem' = Rewritten("t3", "new") /\ tpc' = "csum" /\ UNCHANGED count
     \/ May("patch") /\ tpc' = "untrack" /\ count' = OneMore("fails") /\ UNCHANGED mem
  /\ UNCHANGED <<switching, track, stamp, out, patch, on_wire, recv, arp>>

\* A checksum that straddles the end of the ring takes two writes, of which
\* one alone may fail.
WriteChecksum ==
  /\ tpc = "csum"
  /\ \/ /\ mem' = Rewritten("csum", NewChecksum)
        /\ patch' = [patch EXCEPT !.patched = TRUE]
        /\ tpc' = "untrack" /\ UNCHANGED count
     \/ /\ May("patch")
        /\ mem' \in {mem} \cup
             IF out.cut = "checksum" THEN {Rewritten("csum", "half")} ELSE {}
        /\ tpc' = "restore" /\ count' = OneMore("fails") /\ UNCHANGED patch
  /\ UNCHANGED <<switching, track, stamp, out, on_wire, recv, arp>>

\* Mutated form: the new T3 stays.
Restore_Not ==
  /\ tpc = "restore"
  /\ tpc' = "untrack" /\ UNCHANGED <<mem, count>>
  /\ UNCHANGED <<switching, track, stamp, out, patch, on_wire, recv, arp>>

\* The T3 of the tracked frame is put back, if that write does not fail too.
Restore ==
  /\ tpc = "restore"
  /\ \/ mem' = Rewritten("t3", IF patch.of = out.id THEN "built" ELSE "wrong") /\ UNCHANGED count
     \/ May("patch") /\ count' = OneMore("fails") /\ UNCHANGED mem
  /\ tpc' = "untrack"
  /\ UNCHANGED <<switching, track, stamp, out, patch, on_wire, recv, arp>>

\* The next write starts a fresh frame.
Untrack ==
  /\ tpc = "untrack"
  /\ started' = FALSE /\ hdr' = << >>
  /\ tpc' = "class"
  /\ UNCHANGED <<switching, last_tx_class, stamp, out, mem, patch, on_wire, recv, arp, count>>

\* The stamps are published one by one; the number comes last.
Publish(pc, next, s) ==
  /\ tpc = pc /\ tpc' = next
  /\ stamp' = s
  /\ UNCHANGED <<switching, track, out, mem, patch, on_wire, recv, arp, count>>

PublishClass   == Publish("class", "patch_us", [stamp EXCEPT !.class = last_tx_class])
PublishPatchUs == Publish("patch_us", "patched",
                    [stamp EXCEPT !.patch_us = IF patch.ok THEN out.id ELSE 0])
PublishPatched == Publish("patched", "us", [stamp EXCEPT !.patched = patch.patched])
PublishUs      == Publish("us", "seq", [stamp EXCEPT !.us = out.id])
PublishSeq     == Publish("seq", "transfer", [stamp EXCEPT !.seq = @ + 1])

\* The command goes out, and with it the frame.
Transfer ==
  /\ tpc = "transfer"
  /\ \/ /\ on_wire' = mem
        /\ tpc' = "idle" /\ out' = NoOut /\ mem' = Built(NoOut) /\ patch' = NoPatch
        /\ UNCHANGED count
     \/ May("send") /\ Aborts /\ UNCHANGED on_wire
  /\ UNCHANGED <<switching, track, stamp, recv, arp>>

Transmission ==
  \/ WriteFirst \/ WriteSecond
  \/ PlanPatch \/ Callback \/ WriteT3 \/ WriteChecksum \/ Restore \/ Untrack
  \/ PublishClass \/ PublishPatchUs \/ PublishPatched \/ PublishUs \/ PublishSeq
  \/ Transfer

-----------------------------------------------------------------------------
(***************************************************************************)
(* recv_task_().                                                           *)
(***************************************************************************)

ReadBefore ==
  /\ rpc = "before" /\ count.replies < MaxReplies
  /\ before' = stamp.seq /\ learned' = NotLearned
  /\ overlapped' = (out.class = "NTP")
  /\ rpc' = "sendto"
  /\ UNCHANGED <<switching, track, send, mine, after, queued, count>>

\* sendto() takes the core lock and transmits ...
SendReply ==
  /\ rpc = "sendto"
  /\ Takes(NextId, "NTP")
  /\ mine' = NextId
  /\ count' = OneMore("replies")
  /\ rpc' = "sending"
  /\ UNCHANGED <<switching, track, stamp, on_wire, before, after, learned, arp>>

\* ... or returns without having transmitted the reply, which lwIP has queued behind
\* an ARP exchange.  (One that it drops is one whose answer never comes.)
SendNothing ==
  /\ rpc = "sendto" /\ tpc = "idle"
  /\ count' = OneMore("replies")
  /\ mine' = NextId
  /\ queued' = queued \cup {NextId}
  /\ rpc' = "us"
  /\ UNCHANGED <<switching, track, send, before, after, learned, overlapped>>

\* sendto() returns when the driver is done with the frame.
SendReturns ==
  /\ rpc = "sending" /\ out.id # mine
  /\ rpc' = "us"
  /\ UNCHANGED <<switching, track, send, mine, before, after, learned, arp, count>>

\* w5500_send_stamp() reads the stamps one by one, in this order.
ReadStamp(pc, next, field) ==
  /\ rpc = pc /\ rpc' = next
  /\ after' = [after EXCEPT ![field] = stamp[field]]
  /\ UNCHANGED <<switching, track, send, mine, before, learned, arp, count>>

ReadUs      == ReadStamp("us", "seq", "us")
ReadSeq     == ReadStamp("seq", "class", "seq")
ReadClass   == ReadStamp("class", "patch_us", "class")
ReadPatchUs == ReadStamp("patch_us", "patched", "patch_us")
ReadPatched == ReadStamp("patched", "learn", "patched")

\* Mutated form: any SEND since is taken for the reply's.
FromOurSend_Any == after.seq # before

FromOurSend == after.seq # before /\ after.class = "NTP"

\* Mutated form: the time of the patch is not looked at.
PatchMade_Anytime == after.patched

PatchMade == after.patched /\ after.patch_us # 0 /\ after.patch_us <= after.us

\* Learning: which SEND the estimate takes its delay from, and the two ends of
\* the interval the patch delay is learned from; 0 when nothing is learned.  The two
\* stamps it compared end with the iteration.
Learn ==
  /\ rpc = "learn"
  /\ learned' =
       [send |-> IF FromOurSend THEN after.us ELSE 0,
        patch_us |-> IF FromOurSend /\ PatchMade THEN after.patch_us ELSE 0,
        patch_send |-> IF FromOurSend /\ PatchMade THEN after.us ELSE 0]
  /\ before' = 0 /\ after' = NoStamp
  /\ rpc' = "before"
  /\ UNCHANGED <<switching, track, send, mine, arp, count>>

RecvTask ==
  \/ ReadBefore \/ SendReply \/ SendNothing \/ SendReturns
  \/ ReadUs \/ ReadSeq \/ ReadClass \/ ReadPatchUs \/ ReadPatched
  \/ Learn

PathNext == MainTask \/ OtherSends \/ QueuedLeaves \/ Transmission \/ RecvTask

PathSpec == PathInit /\ [][PathNext]_spvars

-----------------------------------------------------------------------------
(***************************************************************************)
(* Properties.                                                             *)
(***************************************************************************)

\* The send estimate learns only from the SEND of the reply that recv_task_() has
\* just handed over, though other frames leave before and after it and the stamps
\* are read while another task writes them; unless a reply that had waited behind an
\* ARP exchange was on its way since `before' was read.  That one has a reply's
\* class, too, and the class is all that the code asks for: the estimate may then
\* take another reply's SEND, or the stamps of two, for its own.
LearnsOwnSend == rpc = "before" => learned.send \in {0, mine} \/ overlapped

\* The patch delay is learned from the two ends of one SEND, this reply's, with the
\* same exception.
PatchDelayIsOwn ==
  rpc = "before" =>
    \/ learned.patch_us = learned.patch_send /\ learned.patch_send \in {0, mine}
    \/ overlapped

\* No frame is damaged by the rewriting: a reply leaves with the T3 and the
\* checksum it was built with or with both new, and any other frame as it was
\* handed over.  The code puts the old T3 back "rather than transmit a
\* mismatched pair", and drops the tracking at every SEND so that the next
\* write "must start a fresh frame".
FramesIntact ==
  <<on_wire.t3, on_wire.csum>> \in
    {<<"built", "built">>} \cup IF on_wire.class = "NTP" THEN {<<"new", "new">>} ELSE {}

=============================================================================
