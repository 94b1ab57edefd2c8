------------------------------ MODULE NetRecorder ------------------------------
(***************************************************************************)
(* The network recorder of components/ethernet/w5500_custom_spi.cpp: a     *)
(* ring of bins of 100 ms, in which every task that moves a frame through  *)
(* the W5500 counts it.                                                    *)
(*                                                                         *)
(* A task reads the time and then waits for the spinlock; whoever comes    *)
(* first with a later time rolls the ring on.  The time is the 32 bits of  *)
(* micros(), which wrap, and 0 also stands for "never used".  What a bin   *)
(* counts is one set here, of the times of what it has counted: frames of  *)
(* each class and their bytes, waits for the device, commands retried.     *)
(***************************************************************************)
EXTENDS Integers

CONSTANTS
  Task,                              \* the tasks that move frames
  W5500_NET_BINS, W5500_NET_BIN_US,
  US_RANGE,                          \* micros() wraps at this: 2^32 in the code
  MaxHeld,                           \* bound: how long a task waits for the spinlock
  MaxQuiet,                          \* bound: how long nothing is counted
  MaxTime                            \* bound

Span == W5500_NET_BINS * W5500_NET_BIN_US
Index == 0 .. W5500_NET_BINS - 1
Unused == [start_us |-> 0, counted |-> {}]

ASSUME RecorderAssumption ==
  /\ {W5500_NET_BINS, W5500_NET_BIN_US} \subseteq Nat \ {0}
  /\ {US_RANGE, MaxHeld, MaxQuiet, MaxTime} \subseteq Nat
  /\ US_RANGE > Span + MaxHeld /\ US_RANGE > MaxQuiet + MaxHeld

VARIABLES
  g_net_enabled,
  allocated,                         \* g_net_bins is not null
  g_net_bins, g_net_cur, g_net_cur_start_us,
  held,                              \* per task: the time it read, -1 when it counts nothing
  time,                              \* micros(), before it wraps
  cur_at, recorded                   \* history: the time the newest bin begins; the times
                                     \* counted that the ring can hold

bins    == <<g_net_bins, g_net_cur, g_net_cur_start_us>>
history == <<cur_at, recorded>>
netVars == <<g_net_enabled, allocated, bins, held, time, history>>

Us(t) == t % US_RANGE

NetInit ==
  /\ g_net_enabled = FALSE /\ allocated = FALSE
  /\ g_net_bins = [i \in Index |-> Unused] /\ g_net_cur = 0 /\ g_net_cur_start_us = 0
  /\ held = [w \in Task |-> -1]
  /\ time = 1 /\ cur_at = 0 /\ recorded = {}

-----------------------------------------------------------------------------
(***************************************************************************)
(* w5500_set_net_recorder(), by the main loop.  The bins are allocated     *)
(* once, and not cleared when the recorder is switched on again.           *)
(***************************************************************************)

SwitchOn ==
  /\ ~g_net_enabled
  /\ allocated' \in {allocated, TRUE} /\ g_net_enabled' = allocated'
  /\ UNCHANGED <<bins, held, time, history>>

SwitchOff ==
  /\ g_net_enabled /\ g_net_enabled' = FALSE
  /\ UNCHANGED <<allocated, bins, held, time, history>>

-----------------------------------------------------------------------------
(***************************************************************************)
(* net_record_frame(), net_record_lock_wait() and net_record_cr_retry().   *)
(***************************************************************************)

ReadTime(w) ==
  /\ held[w] = -1 /\ g_net_enabled
  /\ held' = [held EXCEPT ![w] = time]
  /\ UNCHANGED <<g_net_enabled, allocated, bins, time, history>>

\* The ring starts over: it has not begun, its span has passed, or, the difference
\* being unsigned, the time is before the newest bin.
StartsOver(now_us) ==
  \/ g_net_cur_start_us = 0
  \/ Us(now_us - g_net_cur_start_us) >= Span

\* Mutated form: a bin lasts one microsecond longer.
Rolls_OneLonger(now_us) ==
  LET elapsed == Us(now_us - g_net_cur_start_us)
  IN IF elapsed = 0 THEN 0 ELSE (elapsed - 1) \div W5500_NET_BIN_US

\* How many bins have elapsed.
Rolls(now_us) == Us(now_us - g_net_cur_start_us) \div W5500_NET_BIN_US

\* The ring n bins on, each cleared as it is come to: the last was bin
\* g_net_cur + n, and bin i was ago bins before it.
RolledOn(n) ==
  [i \in Index |->
     LET ago == (g_net_cur + n - i) % W5500_NET_BINS
     IN IF ago < n
          THEN [start_us |-> Us(g_net_cur_start_us + (n - ago) * W5500_NET_BIN_US), counted |-> {}]
          ELSE g_net_bins[i]]

\* net_bin_now(): the ring with a bin for now_us, and that bin.
NetBinNow(now_us) ==
  LET n == Rolls(now_us)
  IN IF StartsOver(now_us)
       THEN [bins |-> [i \in Index |-> IF i = 0 THEN [Unused EXCEPT !.start_us = now_us] ELSE Unused],
             cur |-> 0, start_us |-> now_us]
       ELSE [bins |-> RolledOn(n), cur |-> (g_net_cur + n) % W5500_NET_BINS,
             start_us |-> Us(g_net_cur_start_us + n * W5500_NET_BIN_US)]

\* History: the newest bin, and what the ring still holds.  It holds nothing else
\* when the newest bin began at 0, or begins after the time that is counted.
Remember(t) ==
  IF g_net_cur_start_us = 0 \/ t < cur_at \/ t >= cur_at + Span
    THEN cur_at' = t /\ recorded' = {t}
    ELSE LET n == (t - cur_at) \div W5500_NET_BIN_US
         IN /\ cur_at' = cur_at + n * W5500_NET_BIN_US
            /\ recorded' = {u \in recorded \cup {t} : u >= cur_at' + W5500_NET_BIN_US - Span}

Record(w) ==
  /\ held[w] # -1
  /\ LET ring == NetBinNow(Us(held[w]))
     IN /\ g_net_bins' = [ring.bins EXCEPT ![ring.cur].counted = @ \cup {held[w]}]
        /\ g_net_cur' = ring.cur /\ g_net_cur_start_us' = ring.start_us
  /\ Remember(held[w])
  /\ held' = [held EXCEPT ![w] = -1]
  /\ UNCHANGED <<g_net_enabled, allocated, time>>

NetTick ==
  /\ time < MaxTime /\ time' = time + 1
  /\ \A w \in Task : held[w] # -1 => time - held[w] < MaxHeld
  /\ cur_at # 0 => time - cur_at < MaxQuiet
  /\ UNCHANGED <<g_net_enabled, allocated, bins, held, history>>

NetNext ==
  \/ SwitchOn \/ SwitchOff \/ NetTick
  \/ \E w \in Task : ReadTime(w) \/ Record(w)

NetSpec == NetInit /\ [][NetNext]_netVars

-----------------------------------------------------------------------------
(***************************************************************************)
(* Properties.                                                             *)
(***************************************************************************)

\* w5500_net_bin(i), oldest first
NetBin(i) == g_net_bins[(g_net_cur + 1 + i) % W5500_NET_BINS]

\* Everything counted within the span of the ring is in the bin of its time, once,
\* and nothing else is in any: across rolls, pauses longer than the ring, a wrapping
\* time and a recorder switched off and on again.
\* The exceptions, in which the ring forgets all it holds: its newest bin begins at
\* 0, or the time counted was read before the newest bin began and another task got
\* there first.
Histogram ==
  g_net_cur_start_us # 0 =>
    \A i \in Index :
      LET from == cur_at - (W5500_NET_BINS - 1 - i) * W5500_NET_BIN_US
      IN /\ NetBin(i).counted = {t \in recorded : from <= t /\ t < from + W5500_NET_BIN_US}
         /\ NetBin(i).counted # {} => NetBin(i).start_us = Us(from)
=============================================================================
