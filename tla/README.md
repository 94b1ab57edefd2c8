# A formal model of the GPS/PPS NTP server

The repository is the firmware of a stratum 1 NTP server: a GPS receiver gives
UTC over NMEA and one pulse per second, three ESPHome components turn that into
a disciplined clock (`gps_pps_time`), NTP replies (`ntp_server`) and frames on
the wire (`ethernet`).  This directory holds TLA+ modules of the parts in which
tasks, interrupts and the chip act side by side, TLC configurations that check
them on small instances, and TLAPS proofs of the properties that matter most.

Line numbers are those of the sources in `src/components/`.

## 1. Inventory

| Component | State | Operations | Acts with |
|---|---|---|---|
| Clock discipline, `gps_pps_time.{h,cpp}` | the interrupt's stamps and flag, epoch counter, validity flags, pulse count, period gate, sentence streak, system clock | `pps_isr`, `loop`, `apply_pps_correction_`, `on_update`, `is_synchronized` | interrupt against main loop; receiver; `adjtime` |
| PPS anchor, `gps_pps_time.h:57-79, 207-215` | sequence number and three words | `publish_pps_anchor_`, `get_pps_anchor` | main loop (core 0) against NTP task and transmit callback (core 1) |
| NTP serving path, `ntp_server.cpp` | the request in hand, the response | `recv_task_`, `build_ntp_response_`, `get_ntp_timestamp_`, `hook_to_ntp_timestamp_`, `anchor_epoch_us_` | reads the clock while the main loop changes it |
| Hook ring, `hook_ring.h` | 8 slots, each a seqlock | `record`, `lookup` | driver task writes, NTP task reads |
| Receive stamp and admission, `ntp_server.cpp:641-817`, `rx_admission.h` | the taps' stamps, the last edge spent, `HookInfo` | `eth_input_hook_`, `evaluate_rx_edge`, `rx_admission` | chip, interrupt, driver task, transmitting task |
| Transmit patch, `w5500_custom_spi.cpp:331-449`, `ntp_tx_patch.h` | the tracked header, the stamps of the last SEND, the patch function | `w5500_custom_spi_write`, `plan_ntp_tx_patch`, `build_patch_t3_`, `w5500_set_tx_patch` | transmitting task, NTP task, main task |
| Send and patch delay estimators, `send_estimator.h`, `ntp_tx_patch.h:159-181` | EWMA, run of rejects | `learn`, `learn_fallback` | fed by `recv_task_` |
| ARP wait and ARP clients, `arp_wait.h`, `ntp_server.cpp` | table of recent clients | `wait_for_arp`, refresh | lwIP's thread |
| INTLEVEL policy, `deadman.h`, `ntp_server.cpp` | wanted, effective and dead-man settings | boot enable, recheck, revert | the chip may be re-initialised underneath |
| Diagnostics ring, `ntp_server.cpp:912-1130` | ring of 1024 records, each a seqlock | `diag_record_`, dump | NTP task writes, main loop reads |
| Network recorder, `w5500_custom_spi.cpp:150-260, 596-636` | ring of bins of 100 ms | count a frame, roll on, dump | every task that moves a frame; wrapping time |
| Ethernet connection, `ethernet_component_esp32.cpp` | stopped, connecting, connected | `loop`, event handlers | event task against main loop |
| The same on an RP2040, `ethernet_component_rp2.cpp` | the same states, time of the last poll | `loop` | an interface that is polled; wrapping time |
| JL1101 PHY driver, `esp_eth_phy_jl1101.c` | the link as reported last | `init`, `negotiate`, `get_link`, `pwrctl` | main task and the driver's timer; the chip |
| Code generation | - | - | not modelled: build time only |

What is hard about it:

- **Interleaving.**  `pps_isr` may fire between clearing the flag and reading
  the stamp; `recv_task_` reads the clock four times per reply while the other
  core moves it; the stamps of a SEND are read while another SEND writes them;
  the two words of an interrupt stamp are read beside the interrupt.
- **Order.**  A sentence names the second of the *last* pulse and may be handled
  after the next one; one interrupt edge stands for several frames; frames of a
  burst and polls of a transmission pass the same tap.
- **Loss and lateness.**  Pulses missed, spurious or off period; sentences lost,
  wrong or late; a main loop blocked by other components; a receive task held up.
- **Partial failure.**  A failing SPI transfer in the middle of the patch or of
  a frame; one reset written out in three places.
- **Limits.**  The ring of eight, the mailbox, the end of the chip's ring,
  saturating streaks, unsigned differences of times that wrap (or were read
  before a lock was taken).

What makes each part correct, in one line: the epoch counter and the published
anchor name true seconds, and a wrong counter repairs itself; the anchor is read
atomically; a reply that claims to be synchronised carries true time in the
right order; T2 is neither back-dated nor late by a stall; a frame leaves whole
and only one's own SEND is learned from, unless a queued reply comes between; a stall does not move the send estimate,
and a wrong one comes right; the rings return whole records and the newest one; a
reply does not wait behind an ARP exchange; the connection follows link and
address; the driver knows of every change of the link.

`PROJECT.json` lists the hazards line by line, each with the properties that
would show it, or a note why none does.

## 2. Modules

| Module | Models | Extends |
|---|---|---|
| `GpsPpsTime` | the clock discipline | |
| `GpsRepair` | the clock discipline with a history variable: right sentences that left a wrong counter | `GpsPpsTime` |
| `MCGpsPpsTime`, `MCGpsRepair` | TLC instances of the two | `GpsPpsTime`, `GpsRepair` |
| `GpsPpsTimeProofs` | proofs | `GpsRepair` |
| `AtomicAnchor` | abstract: an atomic read of the anchor, which may fail only as the header promises | |
| `AnchorSeqlock` | the seqlock, word by word; implements `AtomicAnchor` | |
| `AnchorSeqlockProofs` | proofs, the refinement among them | `AnchorSeqlock` |
| `AtomicRing` | abstract: what a scan of a ring may return while records are made | |
| `SlotRing` | hook ring and diagnostics ring, slot by slot and word by word; implements `AtomicRing` | |
| `SlotRingProofs` | proofs, the refinement among them | `SlotRing` |
| `MCSeqlocks` | TLC instance of the anchor and the rings | `AnchorSeqlock`, `SlotRing` |
| `NtpServe` | the serving path, composed with the clock discipline | `GpsPpsTime` |
| `NtpServeProofs` | proofs | `NtpServe`, `GpsPpsTimeProofs` |
| `MCNtpServe` | values for TLC | `NtpServe` |
| `Estimators` | the estimates T3 is predicted with | |
| `MCReply` | TLC instance of the serving path and the estimators | `MCNtpServe`, `Estimators` |
| `RxStamp` | chip, interrupt, driver task, hook and admission | |
| `MCRxStamp` | TLC instance | `RxStamp` |
| `RxStampProofs` | proofs | `RxStamp`, `NetRecorder` |
| `SendPath` | write taps, T3 patch, stamps of a SEND, what is learned from them | |
| `SendPathProofs` | proofs | `SendPath`, `Estimators` |
| `NetRecorder` | the network recorder: times that race a rolling ring | |
| `MCW5500` | TLC instance of the three parts of the W5500 wrapper | `MCRxStamp`, `SendPath`, `NetRecorder` |
| `MCNetRace` | the recorder with what a race costs | `NetRecorder` |
| `EthLink` | the Ethernet connection of an ESP32: main loop against event task | |
| `EthLinkProofs` | proofs | `EthLink`, `Jl1101`, `EthPoll` |
| `Jl1101` | the PHY driver against ESP-IDF's driver and the chip | |
| `EthPoll` | the Ethernet connection of an RP2040, which polls | |
| `MCEthLink` | TLC instance of the three parts of the Ethernet component | `EthLink`, `Jl1101`, `EthPoll` |
| `IntLevel` | the short interrupt wait: switch, deferred enabling, recheck, access by access | |
| `IntLevelProofs` | proofs | `IntLevel`, `ArpSend` |
| `ArpSend` | ARP in front of a reply: the wait, the table of clients, its refresh, lwIP's cache | |
| `MCIntLevel` | TLC instance of the two kinds of upkeep in `NTPServer::loop()` | `IntLevel`, `ArpSend` |

`MCSeqlocks`, `MCReply`, `MCW5500`, `MCEthLink` and `MCIntLevel` put modules that
share no state side by side: a variable `part` chooses one of them at the
beginning, and it runs alone.  Nothing is composed by that; it makes one run of
several.

Mutated forms (`X_Something`) stand before the definition `X` they deform.
They are used by no specification; each shows what a plausible slip in that
code would do, and each property is violated by the one listed with it in
`PROJECT.json`.

### GpsPpsTime

Time is in ticks, `SEC` of them per second; `now` is GPS time and the reading of
the free-running counters.  The variables are the class's members; the
environment keeps `last_edge`, `rx_sec`, `heard` (what the receiver does) and
`stalled`.  `PpsIsr` is the interrupt.  `LoopTake` clears `pps_flag_`; one of the
seven `Pulse...` actions, the exits of `apply_pps_correction_`, follows, and the
interrupt may come in between.  `NmeaCoarse`, `NmeaCheck` and `NmeaDiverged` are
the exits of `on_update()`, each with the sentence check it makes on the way.
The anchor's seqlock is one step here.

Left out: drift statistics and sensors, the interrupt latency and capture
diagnostics, the crash context, the branch for platforms without `adjtime()`,
and the anchor's drift word (it corrects by parts per million, below a tick).

### AtomicAnchor, AnchorSeqlock

A word is represented by the number of the publication that wrote it, so that
a torn copy shows as two numbers.  The writer may stop anywhere; words are
written and copied in any order, as the compiler may choose.  The accesses are
modelled in program order with respect to the sequence number.  The code asks
for less: a release increment lets the writes after it move up, and an acquire
load lets the reads before it move down.  On the in-order cores of the ESP32,
with the barriers the compiler puts around atomics, neither happens; a build for
which it does is not modelled.  The refinement
mapping reads the current pair as `published`, and a publication as under way
while `anchor_seq` is odd.

### AtomicRing, SlotRing

The hook ring and the ring of request diagnostics are the same seqlock of slots,
read in two ways; `kind` says which.  Records are numbered, and a word carries
the number of the record it belongs to.  The writer marks a slot
(`BeginRecord`), writes its words in any order and marks it again (`EndRecord`);
the reader goes from slot to slot (`LoadSeq`, `CopyField`, `CheckSeq`).  A record
is made by one task at a time and scanned by one other, as in the code.  The
fences stand between the sequence number and the words there, so program order
with respect to it is what the code has.

`AtomicRing` is weaker than a ring read in one step, for no scan without a lock
is: it may miss what was overwritten, or what was completed, while it went on.
It may not miss what was there all the while, return an older match than that, or
return anything twice or by halves.  `next_` is one step with the first store:
only the beginning of a dump reads it from another task.

### NtpServe

`recv_task_()` is a sequence of steps (`tpc`) from `recvfrom` to the return of
`sendto()`; at each of them the discipline may go on.  Within `sendto()` the reply
waits for lwIP's lock and for the device (`sending`), for as long as it takes; then
`build_patch_t3_()` may ask for synchronisation (`PatchAsked`) and write T3 anew
(`PatchT3`), for an instant less than a tick away.  `TimesOf` is the set of what a read of
the clock may return: the anchor, or the system clock when the seqlock read
fails.  The hook ring is atomic (`SlotRing` shows what that takes), the
admission verdict an input, and `wait_for_arp()` either succeeds or gives up
(`ArpSend`).

`undercut` is history.  A sentence sets the clock to its own second in two cases
(`Restarted`, `gps_pps_time.cpp:673-704`): `on_update()` finds an old one in the
UART's buffer after the loop was blocked for three seconds or more, it is more than
two seconds from the counter, and the reset that follows sets the clock; or a pulse
found no fix and dropped `has_gps_time_`, and the sentence is the first one since,
which a loop that catches up may handle directly after the pulse.  If that falls
between the question for synchronisation and the read of the clock it was asked for,
T3 is wrong under leap indicator 0, by seconds in the one case and by the sentence's
delay in the other.  `ServesTrueTime` and `PatchedTimeIsTrue` except exactly this
race, which the code has.  (The second case came to light in the proof; it takes two
faults.)

### Estimators

`LearnSend`, `LearnFallback` and `LearnPatch` are the three functions, with the
arithmetic of the code: an EWMA that rounds down, a guard against outliers, a run
of rejects that agree and re-seeds the estimate if it lasts.  The environment is a
send path with a normal duration, which changes now and then, and stalls that end
before `RESEED_MIN_SPAN_US`, whose samples are at least two steps from normal
ones.  An estimate is near the path (`Near`) when there is one, and it is less than
a step away.  A sample is that of the reply's own SEND, or of none: `SendPath` shows
with which exception, a queued reply, whose sample is not among these.

### ArpSend

`Request`, `Look`, `AskHop`, `SleepAndLook` and `SendTo` are `recv_task_()` from
`note_arp_client_()` to `sendto()`; `RefreshBegins` and `RefreshSlot` are
`refresh_arp_entries_()`, slot by slot, since the core lock is not held between
them.  lwIP's cache and the hosts are external: an entry is resolved by an
answer, expires, or is recycled for another host at any time, also between the
wait and `sendto()`.  `gone`, `late` and `cold` are history.  A sleep may take
longer than asked for; the clock of the refresh is coarser than that of the wait.
The main loop is prompt here: a refresh begins in the tick in which it is due and
is over within it, and an answer comes within a tick.  `ColdNotLong` rests on both:
with a loop that is blocked an entry stays away for as long as that lasts.

### RxStamp

The chip raises `ir` for a frame and lowers INTn no sooner than INTLEVEL after
it was cleared; `IntEdge` is `int_capture_cb()`.  The driver task (`dpc`) wakes,
reads and clears the interrupt register, and reads frames until the size read
gives none.  Every read passes `NoteRead`, and so do the polls of a transmission
(`SendPolls`).  `Hook` chooses the stamp and fills `HookInfo`; `Accepted` is the
verdict `recv_task_()` derives from it, under the switches of the moment.  The
switches do not change between hook and verdict.  The chip and ESP-IDF's driver
are not in the repository: they are modelled from how the taps and their
comments describe them, and marked external.

### SendPath

One transmission at a time (lwIP's core lock) is a sequence of steps `tpc`:
the payload in one or two writes, the plan, the callback, T3, the checksum, the
end of the tracking, the stamps one by one, the transfer.  `Cuts` says where the
end of the chip's ring may fall, which decides what the taps take for a frame.
T3 itself never straddles the end of the ring in a tracked frame: the rest would
be shorter than 14 bytes, is not tracked, and the plan then lacks T3.
`recv_task_` reads the stamps without the lock; the main task may switch the
patch at any step.  A stamp is represented by the number of its frame, so that
stamps of two frames can be told apart.

A reply that `sendto()` could not transmit (`SendNothing`) is `queued` by lwIP behind
an ARP exchange and leaves when the answer comes, from lwIP's thread and beside
whatever `recv_task_()` is doing by then (`QueuedLeaves`).  The taps class it as any
reply, and the class is all that `recv_task_()` asks for (`ntp_server.cpp:580`), so
the comment "provably OUR reply" (line 568) goes too far: if a queued reply is on its
way between the read of `before` and the last read of the stamps, the estimate may
take its SEND for the present reply's, and the patch delay a mixture of two SENDs'
stamps.  `LearnsOwnSend` and `PatchDelayIsOwn` except exactly these iterations
(`overlapped`, a history variable); without the exception TLC finds either false
within two replies.  What is left is what the class check and the order of the stamps
are for: ARP requests and other frames before, after and between the reads.
`ProvablyOursUnlessQueued` proves the comment for a server none of whose replies is
ever queued, which is the purpose of `wait_for_arp()`; `ArpSend` shows when one is.

### NetRecorder

A task reads the time (`ReadTime`) and counts its frame when it has the spinlock
(`Record`); in between another task may do both.  The ring, its arithmetic and
the wrap of `micros()` are those of the code; what a bin counts is the set of the
times of its frames.  `w5500_set_net_recorder()` is `SwitchOn` and `SwitchOff`.
`Remember` says, without the ring's arithmetic, what the ring should hold.
`Histogram` excepts what the code does not have: a frame overtaken at a roll
clears the ring (run `net_race`), and so does the next frame if the newest bin
happens to begin at time 0, which the code takes for "never used".

### EthLink

The ESP32 variant of the connection.  `setup()`, `enable()`, `disable()` and
`powerdown()` are one action per exit.  `loop()` is a sequence of steps (`pc`):
the read of `started_`, the read of `connected_`, and then either
`finish_connect_()` with `disable_loop()` or the three parts of
`start_connect_()`; the event task may come in at each.  A handler sets the
flags (`On...`) and then asks for the loop (`AskForLoop`).  Events wait in a
queue, so that what a handler is told may be out of date.  The driver, the
interface with its DHCP client and ESPHome's scheduler are modelled as far as
the component uses them, and marked external.  The options of a build (enabled
at boot, static address, `min_ipv6_addr_count`) are `config`; for a build
without IPv6, `min_ipv6` is 0 and no IPv6 address is announced.

DHCP answers and IPv6 announcements (`Lease`, `Announce6`) are lwIP's, in a thread of
its own: they ask for an interface that is up, which it is until the event task has
handled the end of the link, and not for a link.  So may a static address be announced
by `start_connect_()`.  Such an event waits behind DISCONNECTED or STOP, the handlers of
addresses do not look at the link (`ethernet_component_esp32.cpp:691-697`), and the
connection they set stays until the next link is lost.  `belated` is the history of it,
and the exception of `ConnectionHasLink`; without it TLC finds a connection over no link,
with DHCP and with a static address.

Each handler's writes are one step: another task that reads `started_` between
the two writes of the STOP handler sees what it would see after both, and
`ipv6_count_ += 1` is atomic, although the compiler may let `start_connect_()`
clear the count in the middle of it.

Left out: the listeners and triggers that are told of changes, the getters.

### Jl1101

`main` is the main task in `init()` (power, reset, identifier), `negotiate()` and
`pwrctl()`; `poll` is the driver's timer in `get_link()`, register by register.
Every access and every report to the driver may fail, a report before or after
the driver has noted it.  The chip latches a lost link until its status is read.
ESP-IDF's driver and the chip are external.  `forgot` and `current` are history
and name the cases in which a change is lost for good: a lost link that was read
by a call that failed, or a link reported by a call under way when the driver was
stopped.  Left out: the hardware reset pin, the address, the pause ability that
is advertised.

### EthPoll

`loop()` of the RP2040 build is one action, `LoopRp2`: a poll if it is due, then the
state machine.  `now` is the wrapping `millis()`.  The interface is external and
may change its mind about link and address at any time; `detects` is false for a
W5100, whose link is taken for granted.  `powerdown()` keeps the interface, so
polling goes on and the component connects again if link and address are still
there.

### IntLevel

Each access to the register is a step of its own (`pc`), for it waits for the
SPI lock and the driver may re-initialise the chip in between (`DriverResets`).
`WriteLevel` and `ReadLevel` are `set_short_int_wait()`; `LoopEnables`,
`LoopRechecks`, `Check`, `Rewrite` and `Reread` the two blocks of `loop()`.
`millis` wraps at `RANGE`, and `Passed` is the signed comparison of the code.
The flag `short_wait_effective_` is the switch `short_wait` of `RxStamp`: there
it does not change between hook and verdict; here it is shown how long it may
be wrong.  `wrong`, `booting`, `by_hand` and `turned_on` are history variables.
`DeadmanTimer` is left out: nothing uses it any more.

## 3. Runs

The passing runs explore the whole state space of their instance, in a minute or
two at most.

| Run | Question | Instance |
|---|---|---|
| `gps` | Are the epoch counter and the anchor true, once synchronised (`EpochStaysTrue`, `AnchorStaysTrue`)?  Is a wrong counter repaired within three sentences (`WrongEpochIsRepaired`), does the anchor keep its distance to it (`AnchorKeepsDistance`), is every reset complete (`ResetIsComplete`), and was a clock on offer set by a recent pulse (`ServesWhilePulsing`)? | 42 ticks (8.5 seconds after boot), under one of three plans of faults |
| `gps_coast` | Is a coasting receiver refused in time, and does no other single fault bring what is served as far out? (`CoastIsRefused`) | 11 seconds of 10 ticks; a period one tick long, or any one other fault |
| `anchor` | Is the seqlock an atomic read, and does it return (`WholeRead`, `AtomicSpec`, `ReadReturns`)?  Does a scan of the rings return whole records, and those it must (`WholeRecord`, `AtomicRingSpec`)? | one reader, three words, four attempts, three publications; two slots of two words, two keys, four records |
| `serve` | Does a reply carry true time and its own stamp (`ServesTrueTime`, `ReceiveStampBelongs`), and its patched T3 after any wait (`PatchedTimeIsTrue`)?  Do stalled sends leave the estimate alone (`StallsMoveNothing`), and is a wrong one repaired (`WrongEstimateIsRepaired`)? | two clients, two requests, a ring of one, a lost fix while synchronised, or two faults, lost fixes and blocked loops; six seconds of three ticks; two paths, two stalls, one send of nothing, eight ticks |
| `w5500` | Can a stamp be back-dated, or an accepted edge be late (`NotBackdated`, `EdgeVouches`)?  Does every frame leave whole, and is only one's own SEND learned from, unless a queued reply comes between (`FramesIntact`, `LearnsOwnSend`, `PatchDelayIsOwn`)?  Is every frame counted in the bin of its time (`Histogram`)? | three frames, one stall before the interrupt is read, one transmission, the switches as shipped and with each of them off; two replies, which may wait behind ARP, one other frame, one failing transfer, one switch; two tasks, three bins of two ticks, a clock that wraps at 12 |
| `eth` | Is the loop off only while it has nothing to do (`SleepsOnlyWhenSettled`), has a connection a link under it, unless an address was announced after the loss (`ConnectionHasLink`), and does the state machine end up where link and driver are (`Settles`, `StopIsNoticed`)?  Does the driver know the link after a call that went through (`DriverKnowsLink`)?  Does an RP2040 follow its interface (`AnswersForLink`, `FollowsInterface`)? | every pair of options, two events waiting, one lost link, two calls of `enable()` or `disable()`, one failing call, two IPv6 addresses; two lost links, two stops, three failing accesses; a clock of 4 ticks and a loop that may be two late, one `powerdown()` |
| `int_level` | How long may the flag be wrong (`FlagOutlivesLittle`), has every boot its window (`BootWindow`), does off stay off (`OffStaysOff`) and on end up on (`ShortAgain`)?  How long is a recent client unresolved (`ColdNotLong`), when does a reply wait for ARP (`LeavesAtOnce`), and does every request end (`RequestEnds`)? | a clock of 12 ticks that wraps for ever, two turns of the switch, two resets, two failing accesses; a local client, two remote ones behind one gateway, two slots |

Five further runs show where the code does not do what its comments say; each
checks one property and finds it violated.

| Run | What it shows |
|---|---|
| `gps_startup_stall` | A loop blocked across the second pulse after boot leaves a *synchronised* counter one second behind (`EpochTrue`), against `gps_pps_time.cpp:317`.  `WrongEpochIsRepaired` of `gps` shows that three sentences repair it. |
| `serve_order` | A pulse handled between T2 and the build gives a reference time after T2 (`TimestampsInOrder`), against `ntp_server.cpp:1239`; the unsigned difference of line 1257 then wraps. |
| `rx_stalled` | A stalled request whose burst is overtaken by the edge of a later frame is excused by the short interrupt wait and admitted late (`StallIsRefused`), against `ntp_server.cpp:688`. |
| `send_aborted` | After a reply's payload write failed, the next frame's bytes are rewritten at its SEND (`FramesIntact`), against `w5500_custom_spi.cpp:377`. |
| `net_race` | A frame whose time was read just before another task rolled the ring on clears the whole ring when it is counted (`RacingFrameLandsNearby`), against `w5500_custom_spi.h:126`. |

### Bounds, and why they are enough

- **Seconds and ticks.**  Four ticks per second tell early, on time and late
  apart around the code's 100 ms, 900 ms and 2 s limits; a sentence takes one
  tick.  Horizons are long enough to synchronise (two pulses), to go through a
  fault, and to see three further sentences; `gps_coast` uses ten ticks so that
  a period one tick long is within the 100 ms of the code.
- **Streaks** are 3 (as in the code) for sentences and 2 to 4 for the period
  gate, instead of its larger numbers: the gate only counts.
- **Faults** are limited in number, not in time or order.  A plan of faults says
  which kinds may occur, how many, and whether only after synchronisation;
  `gps` starts with any of three.  "Only after synchronisation" also means: none in the
  way back from a reset, until the clock is synchronised again, for that is the same
  start once more.  Two of the usual ones (missed pulse, lost or
  wrong sentence, blocked loop, lost fix) after synchronisation: then the counter
  is true; before it, `EpochTrue` is false (`gps_startup_stall`).  Three of them at
  any time: then a wrong counter is repaired.  Four of missed pulses, spurious
  edges and another time source: then the clock is still of a recent pulse.  The
  properties say under which plans they hold: a blocked loop makes an old pulse
  count as recent, since it is stamped when it is applied; a spurious edge rounds
  two intervals instead of one, which `AnchorMatchesCounter` does not survive.
- **serve.**  A ring of one makes two clients overwrite each other's record,
  which the eight slots of the code need nine requests for.  The blocked loop
  comes after synchronisation: before the first anchor the server serves a
  system clock that is off by the loop's delay.  The horizon has room for a loop
  blocked for three seconds, which the restarted clock of `undercut` needs; under
  such a plan one request comes instead of two, and not before both faults have begun
  (`RequestBound`).  The values satisfy what the theorems assume (`QuickLoop`).
- **w5500, stamps.**  The constants keep the order of the code's: burst gap < lead limit <
  hook limit, strict < legacy threshold < edge age, short INTLEVEL < burst gap <
  default INTLEVEL.  The stall is longer than the strict threshold, since it
  would not matter otherwise.  Three frames are one to raise an edge, one
  queued behind it, and one whose edge comes after.  With a stall *between* the
  interrupt register and the size read `EdgeVouches` is false of the code too;
  it is listed as a hazard.
- **w5500, transmissions.**  Two replies and one other frame: the other frame may come
  before, between or after, and so may the first reply if it had to wait behind ARP.
  `Cuts` leaves out the two bytes of the checksum, of which one alone may
  be rewritten, and `MaxFails` a second failure, of the write that restores T3:
  either puts a mismatched pair on the wire, and both are listed as hazards.
  A failing payload write is the run `send_aborted`.
- **w5500, recorder.**  Three bins are a current one, one before it, and one that is
  rolled away; two tasks make a race.  The clock wraps once, and the longest
  quiet time is longer than the ring's span.
- **anchor, rings.**  Two slots and four records write each slot twice, before and
  during a scan, the first slot of which is either.  Two words make a torn copy.
- **serve, estimators.**  Stalled samples lie apart from the normal ones and partly
  agree with each other, as the two paths do; the limits of a sample are hit on both
  sides.  The horizon has room for a wrong estimate and the samples that repair it.
- **eth.**  One lost link and two calls are enough for a link to go and come back
  while its events wait, and for a driver to be stopped and started again.
  `COUNT_MOD` is 2, so that the IPv6 counter wraps.  Both the announcement of an
  address before the loop has begun to connect and a failing `esp_eth_stop()`
  are among the behaviours.  The 15 s of the reconnect may pass at any time.
  The PHY's link is lost twice and three accesses fail, so that a loss, a
  failure and a stop meet; the tries of its waits are two.  The RP2040's clock
  starts anywhere and wraps for ever.  Of the ESP32's options four configurations
  run, in which every two options meet in every way.
- **int_level.**  The clock has room for the longest recheck interval twice, and a
  few ticks more, so that a deadline may lie in the wrong half of the range.  In so
  short a range a loop lag of two ticks would be longer than what is left of a
  deadline's half, which it is not of 2^32 ms; `MaxLag` is therefore 1.
- **int_level, ARP.**  Three clients in two slots evict one another; the remote ones
  share the gateway's entry.  An entry may be lost at any time, and as often as one
  likes.
- `CHECK_DEADLOCK FALSE` stands only in `w5500`, `eth` and the violated runs of
  their modules: the bounded environment of a stamp, a transmission or the
  recorder runs out of frames or of time, and the patch callback with a null context
  is an end of the program; a settled connection, a node that was powered down, or a
  PHY whose initialisation failed has nothing left to do.

### Fairness

Four modules assert liveness; in a run of several parts each assumption is of its
own part only.

- `AnchorSeqlock`: weak fairness of a reader's steps inside `get_pps_anchor()`;
  the scheduler runs a task that neither blocks nor waits.  It asks nothing of
  the writer, which may be preempted in the middle of a publication for good; a
  call returns because attempts are counted.
- `EthLink`: the main loop goes on (`EnablePendingLoop`, `Loop`; ESPHome calls the
  loops of all components in turn), the event task is scheduled (`EventTask`; it
  has the higher priority), and a DHCP server answers a client that keeps asking
  over a link that lasts (`link /\ Lease`).  `Settles` is about such a network; without a
  server no connection comes about.  Nothing is asked of link, driver or calls.
- `ArpSend`: `recv_task_()` is scheduled.  Nothing is asked of the network: a request
  ends though nobody answers.
- `IntLevel`: the main task goes on and time passes.  That accesses do not fail for
  ever is a bound (`MaxFails`), not fairness.

That the clock makes progress in `GpsPpsTime` is not a matter of fairness: `Tick`
waits until an unblocked loop has handled what is due, so the bounds on how late
it may be are part of the model.

## 4. Proofs

| Theorem | Module | Says |
|---|---|---|
| `TypeCorrect` | `GpsPpsTimeProofs` | `Spec => []TypeOK` |
| `ResetsAreComplete` | `GpsPpsTimeProofs` | `Spec => []ResetIsComplete` |
| `ServesOnlyWhilePulsing` | `GpsPpsTimeProofs` | `Spec => []ServesWhilePulsing` |
| `AnchorStaysWithCounter` | `GpsPpsTimeProofs` | `Spec => []AnchorKeepsDistance` |
| `EpochStaysTrueHolds` | `GpsPpsTimeProofs` | `QuickLoop => (Spec /\ []ShortStalls => []EpochStaysTrue)` |
| `AnchorStaysTrueHolds` | `GpsPpsTimeProofs` | `QuickLoop => (Spec /\ []ShortStalls => []AnchorStaysTrue)` |
| `WrongEpochIsRepairedHolds` | `GpsPpsTimeProofs` | `PromptSentences => (RepairSpec /\ []AfterEpoch => []WrongEpochIsRepaired)` |
| `CoastIsRefusedHolds` | `GpsPpsTimeProofs` | `QuickLoop /\ PromptSentences /\ GateCatchesSlip /\ LostOnce => (Spec /\ []ShortStalls /\ []AfterEpoch => [](Undisturbed \/ OnlyCoasts => CoastIsRefused))` |
| `ServesTrueTimeHolds` | `NtpServeProofs` | `QuickLoop => (ServeSpec /\ []ShortStalls => [](Undisturbed => ServesTrueTime))` |
| `PatchedTimeIsTrueHolds` | `NtpServeProofs` | the same of `PatchedTimeIsTrue` |
| `StampsBelong` | `NtpServeProofs` | `ServeSpec => []ReceiveStampBelongs` |
| `ReadsAreWhole` | `AnchorSeqlockProofs` | `Spec => []WholeRead` |
| `SeqlockIsAtomic` | `AnchorSeqlockProofs` | `Spec => AtomicSpec` |
| `RingInvariance` | `SlotRingProofs` | `RingSpec => []RingInv`, the inductive invariant |
| `WholeRecords` | `SlotRingProofs` | `RingSpec => []WholeRecord` |
| `RingImplementsAtomicRing` | `SlotRingProofs` | `RingSpec => AtomicRingSpec` |
| `RxTypeCorrect` | `RxStampProofs` | `Spec => []TypeOK` |
| `StampsAreNotBackdated` | `RxStampProofs` | `Spec => []NotBackdated` |
| `LearnsFromItsOwn` | `SendPathProofs` | `PathSpec => []LearnInv`, the inductive invariant, with the types; it speaks of iterations that no queued reply came into |
| `LearnsOwnSendHolds` | `SendPathProofs` | `PathSpec => []LearnsOwnSend` |
| `PatchDelayIsOwnHolds` | `SendPathProofs` | `PathSpec => []PatchDelayIsOwn` |
| `ProvablyOursUnlessQueued` | `SendPathProofs` | `PathSpec /\ [](queued = {}) => [](rpc = "before" => learned.send \in {0, mine})` |
| `FramesIntactHolds` | `SendPathProofs` | `PathSpec => []FramesIntact`, for the failures named below |
| `WrongEstimateIsRepairedHolds` | `SendPathProofs` | `EstSpec => []WrongEstimateIsRepaired` |
| `StallsMoveNothingHolds` | `SendPathProofs` | `EstSpec => StallsMoveNothing` |
| `AcceptedEdgesVouch` | `RxStampProofs` | under `SteadyDrain`, `Spec => []EdgeVouches` |
| `FramesAreCounted` | `RxStampProofs` | `NetSpec => []Histogram` |
| `LinkTypeCorrect` | `EthLinkProofs` | `Spec => []TypeOK` |
| `NeverSleepsThrough` | `EthLinkProofs` | `Spec => []SleepsOnlyWhenSettled` |
| `ConnectionsHaveLinks` | `EthLinkProofs` | `Spec => []ConnectionHasLink` |
| `PhyKnowsLink` | `EthLinkProofs` | `PhySpec => []DriverKnowsLink` |
| `PollInvariant` | `EthLinkProofs` | `PollSpec => []PollInv`, the inductive invariant |
| `AnswersForLinkHolds` | `EthLinkProofs` | `PollSpec => []AnswersForLink` |
| `FollowsInterfaceHolds` | `EthLinkProofs` | `PollSpec => []FollowsInterface` |
| `LevelTypeCorrect` | `IntLevelProofs` | `Spec => []TypeOK` |
| `OffIsOff` | `IntLevelProofs` | `Spec => OffStaysOff` |
| `BootsHaveWindow` | `IntLevelProofs` | `Spec => []BootWindow` |
| `FlagIsRechecked` | `IntLevelProofs` | `Spec => []FlagOutlivesLittle` |
| `RepliesLeaveAtOnce` | `IntLevelProofs` | `ArpSpec => []LeavesAtOnce` |
| `ClientsNotColdForLong` | `IntLevelProofs` | `ArpSpec => []ColdNotLong` |

They hold for all values of the constants that satisfy the modules' named
assumptions (positive `SEC` and streak limits, `EpochWord \in Word`, natural
bounds, a hook that is reached after the payload read, and so on); the
assumptions are evaluated in every run.

- **Clock discipline.**  Types are inductive as they stand; the streaks stay
  within their limits because `Saturate` stops at them and the sentence streak
  is reset at the step.  `ResetIsComplete` is not inductive: the second pulse
  turns serving on when an epoch is known, and nothing in the property says that
  the coarse clock was set as well.  `ResetInv` adds it:
  `gps_time_valid => has_gps_time`, which every reset keeps because the two that
  clear `has_gps_time` clear `gps_time_valid` first.

  `RecentInv`: while nothing blocks the loop, a pulse does not wait longer than
  `LoopDelay`, so the instant at which the last one was applied is not much later
  than the pulse.  `DistanceInv`: without spurious edges every accepted pulse begins
  a second, so the rounding of the interval is exact (`EpochGoesWithPulses`), and
  each exit of a pulse moves the counter by as many seconds as its pulse is later.

- **The counter stays true.**  `ClockInv` has five parts.  `GridInv`: edges and
  accepted pulses are on the grid of true seconds, the interrupt drops none of
  them, and a pulse that comes while another is being applied is of this instant.
  `SyncedInv`: a synchronised clock is right, and its counter names the second of
  the pulse applied last; so a drift is never seen, neither of the two drift
  branches is taken, and a pulse brings the counter to its own second however many
  were missed before.  `StartInv` is the way there, from boot and from each reset:
  the sentence after the first pulse names its second, and the second pulse adds
  one.  `StreakInv` is the hard part: no plan brings `EPOCH_FIX_STREAK` sentences in
  a row to name the same error.  A wrong sentence costs a fault.  A blocked loop
  costs one, too, and leaves up to two late sentences behind: the oldest of the UART's
  buffer and the present one.  `Clear` says that none of those that wait will make
  the streak longer; until then one more sentence may.  The two cannot name the same
  error (`OldSentence`), for they are less than 256 seconds apart and the error has
  eight bits.

  `QuickLoop` is what it takes: an unblocked loop notices a pulse in the tick in
  which it comes (before its sentence), a sentence is handled in the first half of
  its second, and a plan has fewer faults than a streak has sentences.  Each is
  needed: with a sentence later than that, with as many faults as the streak is long,
  or with a pulse noticed after its own sentence, TLC finds the counter false.
  So is `ShortStalls`, that the loop is not blocked for more than 256 seconds: after
  such a stall the two late sentences name the same error in eight bits.  (A watchdog
  resets the ESP32 long before.)

  `WrongEpochIsRepaired` starts from any error, so none of these invariants helps.
  `AlignedInv` holds of every synchronised clock, right or wrong, under every fault
  but a second time source: at the last pulse the system clock is less than a tenth of a
  second ahead of the counter, and as far behind it at most, or by the delay with which
  the pulse was handled.  What is still to be slewed is exactly that rest.  A right
  sentence therefore names the counter's error (`NamesError`), and if that is too large
  for eight bits, the sentence and the counter are far enough apart for a reset.
  `WrongInv` follows the streak: from one right sentence to the next comes one pulse of
  one second (`WrongEdge`, `WrongPulse`), which leaves the error what it was.
  `PromptSentences` is what it takes: a sentence is handled in the first four tenths of
  its second (the code's comment measures 73 ms) and a coasting receiver's period rounds
  to a second.  With `NmeaDelay` at half a second TLC finds a counter that is one second
  behind and is never named: the clock is then less than half a second behind the
  sentence, and the error rounds to none.  `AfterEpoch` says that a synchronised counter does not stand at
  1970, which the model's small numbers allow and `on_update()`, which takes no year before
  2025, does not.
- **A coasting receiver.**  `CoastIsRefused` bounds the published pair, but nothing bounds
  the counter: a receiver that coasts for long enough is any number of seconds out when lock is
  back, and then pulses are good again.  `CoastInv` therefore has two halves.  While the
  gate is open (`OpenInv`) the counter is late by at most one slip for each bad period in a
  row (`Lead`), less than half a second, so that the first true second puts it right
  (`CoastSecond`) and every sentence agrees with the clock (`CoastAgrees`).  While it is
  closed (`ClosedInv`) the counter may be wrong, but then each good pulse is followed by a
  right sentence, and the two streaks grow together: `good_streak <= err_streak`, with
  one more between a pulse and its sentence.  `on_update()` steps the counter, or starts over,
  before there are good pulses enough; the pulse that opens the gate belongs to a right
  counter.  `Following` says that before and during the loss the counter goes with the
  receiver, so that nothing resets and the gate is not closed for another reason.

  `GateCatchesSlip` is what it takes of the constants, and the code's satisfy it: the slip
  (54 ms were measured, line 344) is above the tolerance of 20 ms, three slips are
  less than four tenths of a second, and `PPS_PERIOD_GOOD_STREAK` (10) is more than
  `EPOCH_FIX_STREAK` (3).  The last is nowhere said in the code, and is needed: with both at 3 TLC
  finds a gate that opens on a counter whole seconds out, one sentence before the step.
  So is `LostOnce`: when lock comes back and is lost again before the next pulse, that pulse
  follows the late one by exactly a second, the bad streak starts anew, and the slips of
  the second loss add to that of the first.  The theorem says
  nothing of the plan with a spurious edge or a second time source in `gps_coast`, which
  is left to TLC.
- **Serving.**  `ServeInv`: the ring is in the order in which it was filled, and every
  request that waits or is being looked up is `Recalled`: its record is still in the
  ring, or all that is there was made later.  The newest match is therefore not of an
  earlier request, and from the check on the record in hand `Belongs`.

  `TimeInv` carries the truth of the clock over to the reply.  A synchronised clock is
  right (`SyncedInv`), and so is an anchor; between the question and the read
  (`Trusting`) synchronisation may go, but a clock that is right and is being slewed
  by nothing is moved only by a sentence that sets it anew (`ClockStaysRight`).  The
  proof found a second way to that race: `undercut` had known of `NmeaDiverged` only,
  and TLC confirmed the other one under two faults.
- **Seqlock.**  `Inv` consists of `WriterInv` (the sequence number is twice the
  finished publications, odd exactly while one is under way, and each word is of
  the present or the next one), `CopyInv` (while the number a reader loaded is
  still the present one, the words it has copied are of the publication in
  force) and `DisturbedInv` (a reader whose loaded number is out of date, or that
  has used an attempt, met a publication).  From it every step of the seqlock
  is a step of `AtomicAnchor` or a stutter: a reader that leaves with a pair has
  the current one, and one that leaves without has met a writer or an
  invalidated pair.
- **Rings.**  `RingInv` has four parts beside the types.  `SlotsInv`: the slot being
  written has an odd sequence number, and every word of every other slot is of the
  last record whose turn the slot was (`Held`).  `CopyInv`: while the slot's number
  is the one the copy began with, so are the words copied so far; if it is not, the
  slot's record is younger than the scan.  `Genuine(hits)`: what counts so far was in
  the ring at some time since the scan began.  `Covered(hits, visited)`: of the records
  that have been there since, those in slots already visited are among the hits or (in
  a lookup) older than the hit.  At the end of a scan the last two are what
  `AtomicRing` asks for.  The proof holds for every number of slots, words, keys and
  records.
- **Receive stamps.**  `RxInv` adds to types and property that no stamp lies in
  the future (`Past`) and that a frame the driver holds was there at its last
  size read (`Held`).  The stamp of a burst is less than `LEAD_MAX` before that
  size read, and the frame had come by then.

  `EdgeVouches` is about a frame the edge may not be of.  `VouchInv`: `OneBurst`, the
  reads since RECV was cleared for this drain are one burst, so the burst began no
  later than the clear; `EdgesInOrder`; `Waiting`, what lies in the buffer between
  drains came after the clear, and the present edge is late for none of it; `Drained`,
  an edge from before the clear is near every frame still to be handed on.  An edge
  the rule accepts is older than the burst, therefore from before the clear.
  The hypothesis `SteadyDrain` says that the driver is held up before its read of
  Sn_IR only and that its other reads follow each other within `BURST_GAP_US`.  Each
  part of it is needed: with a stall before the size read (see section 3), or any of
  the three pauses longer than `BURST_GAP_US`, TLC finds `EdgeVouches` violated.
- **Network recorder.**  `RecorderInv`: a slot that is `BinsAgo` places behind the
  current one begins `BinsAgo` bins earlier and holds the counted frames of that time
  (`CountsInv`); no frame counted is later than the newest bin; and a time waits no
  longer than `MaxHeld`, a silence lasts no longer than `MaxQuiet`, so the signed and
  the wrapped differences are the true ones.  A roll moves each slot's age by the
  same number (`RolledAges`) and empties those that begin anew.

- **Ethernet connection.**  `SleepsOnlyWhenSettled` says nothing of a loop that is
  just about to switch itself off.  `SleepInv` adds `LookInv`: what the loop has read
  of the flags is still so, or a request to look again is on its way, because every
  handler that lowers a flag asks for the loop after it did; and `LoopInv`: a loop
  that runs is on, and in `finish_connect_()` the state is CONNECTED.
  `ConnectionHasLink` speaks of an empty queue only; `EndInv` says of any queue
  that, without a link and without an address announced since it was lost (`Bare`),
  whatever says connected (the flag, or an address waiting in the queue) has the end of
  the connection waiting behind it, for queues of any length.  Every action either leaves the queue alone, takes its first event, or
  posts at its end, and there is a lemma for each.
- **Send path.**  `LearnInv` follows each word of a SEND's stamps: which frame wrote
  it, that all are of the same frame while nobody is between two of them, and that
  what `recv_task_()` has copied is of its own frame or of one it will refuse, unless a
  queued reply is, or was, on its way (`overlapped`), of which the stamps cannot be told
  from one's own.
  `FramesIntact` needs in addition what the tracked header says of the frame in the
  chip (`LeaveInv`).  The theorem excludes by name what the run excludes: a failing
  payload write (`"payload" \in FailAt`, the run `send_aborted`), a checksum cut in two
  by the ring's end, and a second failure.
- **Estimators.**  The samples are a history, and an invariant of the whole history
  would be long; `EstInv` keeps of it what the code keeps.  `RunInv`: the run of
  rejects is of samples, and its limits are theirs.  `StallInv`: in a stall the run
  is of normal samples, or began with the stall and is too young to re-seed.
  `GoodInv` and `RepairInv` count: a wrong estimate has rejected every normal sample
  since, they agree, and after `RESEED_AFTER` of them it is theirs.  The proof found
  that a stalled sample may agree with normal ones if it is only one step away; the
  assumption on stalls is two steps (a stall is milliseconds).
- **PHY.**  `PhyInv` has four parts beside the types.  `TurnsInv`: where one task is in
  its calls says what the other may be doing.  `CurrentInv`: what a call that is
  `current` has read is so, and no loss waits to be read.  `ModeInv`: a link read as
  up or reported up is there, with the mode told to the MAC, unless a loss is latched.
  And while the driver runs and has not forgotten (`forgot`), the MAC was told what
  the driver believes.
- **RP2040.**  `PollInv` relates the age of the last poll to the wrapping clock
  (`Age`, which `PollBounds` keeps below `RANGE`), what is believed of the interface to
  how long it has been so, and each state to how long ago it was entered.  The proof
  found `FollowsInterface` false for loops that are two ticks late or more with the
  bound it had; the bound is now a poll and three slow loops, for a loop right after
  the start may find that the time has just wrapped.
- **Interrupt wait.**  `OffInv`: the policy is what the switch was turned to, an
  access under way carries it, and a policy that is off neither keeps the flag nor
  rewrites.  `BootInv`: without a chip every access fails, and during the boot delay
  none is under way once the chip is there.  `RecheckInv`: while the flag is wrong the
  deadline lies ahead, no further than `RECHECK`, or is overdue by the loop's lag,
  and the signed comparison of `millis()` tells the two apart if
  `RECHECK + MaxLag < RANGE \div 2`.
- **ARP.**  `AtOnceInv`: a reply past the wait has a resolved next hop or one that was
  lost since.  `ColdInv`: a host that is resolved or not tracked is not cold; of a
  refresh under way, the hosts in the slots it has come by are fresh or about to be
  asked for, unless a slot still to come names the same host.

The proofs about counts and ages use no induction over numbers: where an argument
needs one, it takes a smallest counterexample (`NatMin`), since the library's
induction theorems have an operator as a parameter.

Every safety property of the runs that pass is a theorem, `CoastIsRefused` for the loss of
lock and the usual faults.  Model-checked only: liveness (`ReadReturns`, `Settles`,
`StopIsNoticed`, `ShortAgain`, `RequestEnds`), which is outside what TLAPS proves here, as
are `ENABLED`, induction over data, and recursive operators, of which the modules have
none.

## 5. Not modelled, and the plan

Not modelled:

- the **interrupt latency and capture diagnostics** of the clock (`PulseCapture`, the
  sentence counters, drift statistics): they are reported and decide nothing;
- the **Arduino variant** of the server, `NTPServer::loop()` without `recv_task_()`
  (`ntp_server.cpp:1190-1207`): one task, no stamps of driver or chip, no check before it
  answers; and an ESP-IDF server **without the input hook** (`eth_netif_` is null,
  line 200), which takes T2 from the return of `recvfrom()` and waits for no ARP answer;
- the **talker table** and the **command statistics** of the W5500 wrapper, and the
  counters that `loop()` publishes: likewise;
- the **sockets and texts** of the diagnostics dumps, `dump_config()`, the getters;
- **listeners and triggers** of the Ethernet component: calls out of the state
  machine that change none of its state;
- the **configuration schemas** (Python): they run at build time;
- **memory models** weaker than program order with respect to a sequence number.

To do, in order of importance:

1. `CoastIsRefused` for one spurious edge and for a second time source as a theorem, too.
2. How far a queued reply's sample moves the send estimate (`SendPath` and `Estimators`
   composed): its delay is counted from another reply's `t0`, and the estimator's guard
   against outliers decides.
