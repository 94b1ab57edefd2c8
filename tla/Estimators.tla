------------------------------ MODULE Estimators ------------------------------
(***************************************************************************)
(* The two estimates T3 is predicted with: how long after t0 the chip is   *)
(* told to transmit (SendEstimator, components/ntp_server/send_estimator.h)*)
(* and how long after the patch callback (PatchDelayEstimator,             *)
(* ntp_tx_patch.h).                                                        *)
(*                                                                         *)
(* The environment is the send path: it takes `path' and up to Jitter      *)
(* longer, changes for good now and then, and stalls for less than         *)
(* RESEED_MIN_SPAN_US; a stall is over when a send went normally again.    *)
(* Which SEND a sample comes from is the subject of SendPath; here the     *)
(* samples are the reply's own.                                            *)
(***************************************************************************)
EXTENDS Integers, FiniteSetsExt

CONSTANTS
  US_MIN, US_MAX,       \* limits of a sample
  STEP_MAX_US,
  WEIGHT,               \* 2^EWMA_SHIFT
  RESEED_AFTER, RESEED_MIN_SPAN_US,
  RUN_MAX,              \* UINT8_MAX: where the count of rejects stops
  PATCH_MIN, PATCH_MAX, PATCH_INITIAL, \* limits and first value of the patch delay
  Paths, Jitter,        \* what a normal send takes
  Stalls,               \* what a stalled one takes
  NoSends,              \* how long sendto() takes when it sends nothing
  PatchDelays,          \* what the patch delay is measured as
  MaxChanges, MaxStalls, MaxNoSends, MaxNow \* bounds

ASSUME EstTypeAssumption ==
  /\ {US_MIN, US_MAX, STEP_MAX_US, RESEED_MIN_SPAN_US, Jitter} \subseteq Nat
  /\ {WEIGHT, RESEED_AFTER} \subseteq Nat \ {0} /\ RUN_MAX \in Nat
  /\ Paths \subseteq Nat /\ Stalls \subseteq Nat /\ NoSends \subseteq Nat

Good(p) == p .. p + Jitter

\* What a normal send takes is within the limits and varies by less than a step;
\* it is a step from what another path takes.  A stalled send is out by
\* milliseconds (send_estimator.h), that is by several steps.
ASSUME EstimatorAssumption ==
  /\ Jitter < STEP_MAX_US /\ RESEED_AFTER <= RUN_MAX
  /\ \A p \in Paths : \A v \in Good(p) : v > US_MIN /\ v < US_MAX
  /\ \A p \in Paths, q \in Paths : p # q =>
       \A v \in Good(p), w \in Good(q) : w - v \notin 1 - STEP_MAX_US .. STEP_MAX_US - 1
  /\ \A p \in Paths, s \in Stalls :
       \A v \in Good(p) : s - v \notin 1 - 2 * STEP_MAX_US .. 2 * STEP_MAX_US - 1

VARIABLES
  estimate_us,          \* of SendEstimator; 0: none yet
  reject_run, reject_min, reject_max, reject_first_us,
  patch_us,             \* of PatchDelayEstimator
  path, stalled_since,  \* the environment: what a send takes; stalled since (0: not)
  now_us,
  good, good_since,     \* history: normal samples in a row (as far as they matter), since when
  moved,                \* history: what the last sample was
  tried                 \* path changes, stalls, sends of nothing

rejects == <<reject_run, reject_min, reject_max, reject_first_us>>
history == <<good, good_since, moved>>
estVars == <<estimate_us, rejects, patch_us, path, stalled_since, now_us, history, tried>>

EstInit ==
  /\ estimate_us = 0
  /\ reject_run = 0 /\ reject_min = 0 /\ reject_max = 0 /\ reject_first_us = 0
  /\ patch_us = PATCH_INITIAL
  /\ path \in Paths /\ stalled_since = 0
  /\ now_us = 1
  /\ good = 0 /\ good_since = 0 /\ moved = "nothing"
  /\ tried = [changes |-> 0, stalls |-> 0, nosends |-> 0]

-----------------------------------------------------------------------------
(***************************************************************************)
(* The estimators.                                                         *)
(***************************************************************************)

\* An arithmetic shift to the right rounds down, as \div does.
Smoothed(old, sample) == old + (sample - old) \div WEIGHT

InRange(v) == v > US_MIN /\ v < US_MAX
Normal(v) == v - estimate_us \in 1 - STEP_MAX_US .. STEP_MAX_US - 1

\* Mutated form: how far the rejected samples lie apart is not asked.
StartsNewRun_Never(v) == reject_run = 0

\* A reject that widens the run's spread too far starts a new run.
StartsNewRun(v) ==
  \/ reject_run = 0
  \/ Max({reject_max, v}) - Min({reject_min, v}) >= STEP_MAX_US

\* The run of rejects with this sample.
Run(v) ==
  IF StartsNewRun(v) THEN [n |-> 1, min |-> v, max |-> v, first |-> now_us]
  ELSE [n |-> Min({reject_run + 1, RUN_MAX}), min |-> Min({reject_min, v}),
        max |-> Max({reject_max, v}), first |-> reject_first_us]

\* Mutated form: how long the run has lasted is not asked.
Reseeds_AtOnce(r) == r.n >= RESEED_AFTER

Reseeds(r) == r.n >= RESEED_AFTER /\ now_us - r.first >= RESEED_MIN_SPAN_US

\* The members of an empty run are not read: 0 stands for what is left of them.
NoRun == reject_run' = 0 /\ reject_min' = 0 /\ reject_max' = 0 /\ reject_first_us' = 0

Reject(v) ==
  LET r == Run(v) IN
  \/ Reseeds(r) /\ estimate_us' = r.min + (r.max - r.min) \div 2 /\ NoRun
  \/ /\ ~Reseeds(r)
     /\ reject_run' = r.n /\ reject_min' = r.min /\ reject_max' = r.max
     /\ reject_first_us' = r.first
     /\ UNCHANGED estimate_us

\* SendEstimator::learn()
LearnSend(v) ==
  \/ ~InRange(v) /\ UNCHANGED <<estimate_us, rejects>>
  \/ /\ InRange(v) /\ (estimate_us = 0 \/ Normal(v))
     /\ estimate_us' = IF estimate_us = 0 THEN v ELSE Smoothed(estimate_us, v)
     /\ NoRun
  \/ InRange(v) /\ estimate_us # 0 /\ ~Normal(v) /\ Reject(v)

\* learn_fallback(): neither seeds nor rejects.
LearnFallback(dur) ==
  /\ estimate_us' = IF InRange(dur) THEN Smoothed(estimate_us, dur) ELSE estimate_us
  /\ UNCHANGED rejects

\* PatchDelayEstimator::learn()
LearnPatch(v) ==
  patch_us' = IF v < PATCH_MIN \/ v > PATCH_MAX THEN patch_us ELSE Smoothed(patch_us, v)

-----------------------------------------------------------------------------
(***************************************************************************)
(* recv_task_() after each reply.                                          *)
(***************************************************************************)

Wait(t) == now_us + t <= MaxNow /\ now_us' = now_us + t

\* A reply was measured, and perhaps its patch delay too.
Measured(v) ==
  /\ LearnSend(v)
  /\ UNCHANGED patch_us \/ \E d \in PatchDelays : LearnPatch(d)
  /\ UNCHANGED <<path, tried>>

NormalSend ==
  /\ stalled_since = 0
  /\ \E v \in Good(path) : Measured(v)
  /\ good' = Min({good + 1, RESEED_AFTER}) /\ good_since' = IF good = 0 THEN now_us ELSE good_since
  /\ moved' = "normal"
  /\ \E t \in 0 .. 1 : Wait(t)
  /\ UNCHANGED stalled_since

StalledSend ==
  /\ stalled_since # 0 /\ now_us - stalled_since < RESEED_MIN_SPAN_US
  /\ \E v \in Stalls : Measured(v)
  /\ good' = 0 /\ good_since' = 0
  /\ moved' = "stalled"
  /\ \E t \in 0 .. 1 : Wait(t)
  /\ UNCHANGED stalled_since

\* sendto() returned without a SEND.
NoSend ==
  /\ tried.nosends < MaxNoSends
  /\ \E dur \in NoSends : LearnFallback(dur)
  /\ tried' = [tried EXCEPT !.nosends = @ + 1]
  /\ good' = 0 /\ good_since' = 0
  /\ moved' = "fallback"
  /\ UNCHANGED <<patch_us, path, stalled_since, now_us>>

(***************************************************************************)
(* The send path.                                                          *)
(***************************************************************************)

PathChanges ==
  /\ tried.changes < MaxChanges
  /\ path' \in Paths \ {path}
  /\ tried' = [tried EXCEPT !.changes = @ + 1]
  /\ good' = 0 /\ good_since' = 0
  /\ moved' = "nothing"
  /\ UNCHANGED <<estimate_us, rejects, patch_us, stalled_since, now_us>>

\* A stall begins when a send went normally since the one before.
StallBegins ==
  /\ tried.stalls < MaxStalls
  /\ stalled_since = 0 /\ good > 0
  /\ stalled_since' = now_us
  /\ tried' = [tried EXCEPT !.stalls = @ + 1]
  /\ moved' = "nothing"
  /\ UNCHANGED <<estimate_us, rejects, patch_us, path, now_us, good, good_since>>

StallEnds ==
  /\ stalled_since # 0
  /\ stalled_since' = 0
  /\ good' = 0 /\ good_since' = 0
  /\ moved' = "nothing"
  /\ UNCHANGED <<estimate_us, rejects, patch_us, path, now_us, tried>>

EstNext == NormalSend \/ StalledSend \/ NoSend \/ PathChanges \/ StallBegins \/ StallEnds

EstSpec == EstInit /\ [][EstNext]_estVars

-----------------------------------------------------------------------------
(***************************************************************************)
(* Properties.                                                             *)
(***************************************************************************)

\* There is an estimate, and it is right.
Near ==
  estimate_us # 0 /\ estimate_us \in path - STEP_MAX_US .. path + Jitter + STEP_MAX_US

\* Stalled sends, however many and however much they agree, do not move an
\* estimate that is right: "four stalled sends in a row used to re-seed the
\* estimate milliseconds high" (send_estimator.h).
StallsMoveNothing == [][moved' = "stalled" /\ Near => estimate_us' = estimate_us]_estVars

\* However the estimate came to be wrong (the path changed, the first sample was
\* a stalled one, a fallback moved it), RESEED_AFTER normal samples over
\* RESEED_MIN_SPAN_US make it right again.
WrongEstimateIsRepaired ==
  good >= RESEED_AFTER /\ moved = "normal" /\ now_us - good_since > RESEED_MIN_SPAN_US => Near
=============================================================================
