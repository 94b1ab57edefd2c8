------------------------------- MODULE SlotRing -------------------------------
(***************************************************************************)
(* The two lock-free rings of records: the ring between the input hook and *)
(* recv_task_() (components/ntp_server/hook_ring.h) and the ring of the    *)
(* request diagnostics (diag_record_() and the REQ dump of diag_serve_(),  *)
(* components/ntp_server/ntp_server.cpp).                                  *)
(*                                                                         *)
(* Each slot is a seqlock of its own.  There is one writer (the driver     *)
(* task; recv_task_()) and one reader (recv_task_(); the main loop), which *)
(* visits the slots one after the other.  Records are numbered; a word of  *)
(* a slot is represented by the number of the record that wrote it, so a   *)
(* copy is whole when all its words carry one number.  The time of a       *)
(* record is its number too, since the driver task makes them in order;    *)
(* "no older than MAX_AGE_US" is then a least number, `oldest'.            *)
(*                                                                         *)
(* The two readers differ: a lookup tries a slot once, from slot 0, and    *)
(* keeps the newest match; a dump tries three times, from the slot to be   *)
(* written next, and takes every record.                                   *)
(***************************************************************************)
EXTENDS Integers

CONSTANTS
  SIZE,         \* slots
  Key,          \* what requests are told apart by
  Field,        \* the words of a slot
  KeyField,     \* among them: the key, and the time
  TimeField,
  DumpAttempts, \* 3 in the code
  MaxRecords    \* bound on records

ASSUME SizeAssumption == SIZE \in Nat \ {0}
ASSUME FieldAssumption == KeyField \in Field /\ TimeField \in Field
ASSUME DumpAssumption == DumpAttempts \in Nat \ {0}
ASSUME KeyAssumption == Key # {}
ASSUME RecordsAssumption == MaxRecords \in Nat

VARIABLES
  kind,       \* which of the two rings: "hook" or "dump"
  seq, slots, \* of each slot: the sequence number, the words
  next,       \* next_
  keys,       \* the key of each record made so far
  begun,      \* records begun, and complete
  complete,
  unset,      \* words the record under way has still to write
  scan,       \* the reader: idle, seq (the sequence number next), copy
  wanted,     \* what it looks for
  first, visited, \* the first slot of the scan, and how many are behind it
  tries,      \* attempts at this slot
  s1, copied, \* sequence number before the copy; the copy
  missing,    \* words still to copy
  hits,       \* the copies that count so far
  seen,       \* history: records complete when the scan began
  result      \* what the last scan returned

ringWriter == <<seq, slots, next, keys, begun, complete, unset>>
ringReader == <<scan, wanted, first, visited, tries, s1, copied, missing, hits, seen, result>>
ringVars   == <<kind, ringWriter, ringReader>>

Slot == 0 .. SIZE - 1
Succ(i) == IF i + 1 = SIZE THEN 0 ELSE i + 1
Pred(i) == IF i = 0 THEN SIZE - 1 ELSE i - 1

Recording == begun # complete
Current == Pred(next)    \* the slot being written, or written last
Tries == IF kind = "hook" THEN 1 ELSE DumpAttempts

Nothing == [f \in Field |-> 0]

RingInit ==
  /\ kind \in {"hook", "dump"}
  /\ seq = [i \in Slot |-> 0] /\ slots = [i \in Slot |-> Nothing]
  /\ next = 0 /\ keys = [m \in 1 .. 0 |-> 0]
  /\ begun = 0 /\ complete = 0 /\ unset = {}
  /\ scan = "idle" /\ wanted \in [key : Key, oldest : {0}]
  /\ first = 0 /\ visited = 0 /\ tries = 0
  /\ s1 = 0 /\ copied = Nothing /\ missing = {}
  /\ hits = {} /\ seen = 0 /\ result = {}

-----------------------------------------------------------------------------
(***************************************************************************)
(* record() and diag_record_().  Nobody else reads next_ but the beginning *)
(* of a dump, so its step is one with the first store.                     *)
(***************************************************************************)

\* Mutated form: the slot is not marked before it is written.
BeginRecord_Silent(k) ==
  /\ ~Recording /\ begun < MaxRecords
  /\ begun' = begun + 1
  /\ keys' = [m \in 1 .. begun + 1 |-> IF m = begun + 1 THEN k ELSE keys[m]]
  /\ next' = Succ(next)
  /\ unset' = Field
  /\ UNCHANGED <<kind, seq, slots, complete, ringReader>>

BeginRecord(k) ==
  /\ ~Recording /\ begun < MaxRecords
  /\ begun' = begun + 1
  /\ keys' = [m \in 1 .. begun + 1 |-> IF m = begun + 1 THEN k ELSE keys[m]]
  /\ seq' = [seq EXCEPT ![next] = @ + 1]
  /\ next' = Succ(next)
  /\ unset' = Field
  /\ UNCHANGED <<kind, slots, complete, ringReader>>

WriteField(f) ==
  /\ f \in unset
  /\ slots' = [slots EXCEPT ![Current][f] = begun]
  /\ unset' = unset \ {f}
  /\ UNCHANGED <<kind, seq, next, keys, begun, complete, ringReader>>

EndRecord ==
  /\ Recording /\ unset = {}
  /\ seq' = [seq EXCEPT ![Current] = @ + 1]
  /\ complete' = begun
  /\ UNCHANGED <<kind, slots, next, keys, begun, unset, ringReader>>

-----------------------------------------------------------------------------
(***************************************************************************)
(* lookup() and the REQ dump.                                              *)
(***************************************************************************)

Here == IF first + visited < SIZE THEN first + visited ELSE first + visited - SIZE

BeginScan(k, oldest) ==
  /\ scan = "idle"
  /\ scan' = "seq"
  /\ IF kind = "hook" THEN wanted' = [key |-> k, oldest |-> oldest] /\ first' = 0
                      ELSE first' = next /\ UNCHANGED wanted
  /\ visited' = 0 /\ tries' = 0 /\ hits' = {}
  /\ seen' = complete
  /\ UNCHANGED <<kind, ringWriter, s1, copied, missing, result>>

\* Done with this slot: the next one, or the end.
NextSlot(h) ==
  /\ tries' = 0
  /\ IF visited + 1 < SIZE
       THEN scan' = "seq" /\ visited' = visited + 1 /\ hits' = h /\ UNCHANGED result
       ELSE scan' = "idle" /\ visited' = 0 /\ hits' = {} /\ result' = h

\* The slot was being written, or has been since.
Skip ==
  IF tries + 1 < Tries
    THEN tries' = tries + 1 /\ scan' = "seq" /\ UNCHANGED <<visited, hits, result>>
    ELSE NextSlot(hits)

LoadSeq ==
  /\ scan = "seq"
  /\ IF seq[Here] % 2 = 1
       THEN Skip /\ UNCHANGED <<s1, missing>>
       ELSE /\ scan' = "copy" /\ s1' = seq[Here] /\ missing' = Field
            /\ UNCHANGED <<visited, tries, hits, result>>
  /\ UNCHANGED <<kind, ringWriter, wanted, first, copied, seen>>

CopyField(f) ==
  /\ scan = "copy" /\ f \in missing
  /\ copied' = [copied EXCEPT ![f] = slots[Here][f]]
  /\ missing' = missing \ {f}
  /\ UNCHANGED <<kind, ringWriter, scan, wanted, first, visited, tries, s1, hits, seen, result>>

\* An empty slot has the number 0: neither a client's key nor a recent time.
Matches(c) ==
  /\ c[KeyField] > 0 /\ keys[c[KeyField]] = wanted.key
  /\ c[TimeField] >= wanted.oldest

\* Mutated form: the first match is taken.
Counting_First(c) ==
  IF kind = "hook"
    THEN IF Matches(c) /\ hits = {} THEN {c} ELSE hits
    ELSE IF c[TimeField] # 0 THEN hits \cup {c} ELSE hits

Counting(c) ==
  IF kind = "hook"
    THEN IF Matches(c) /\ \A b \in hits : c[TimeField] > b[TimeField] THEN {c} ELSE hits
    ELSE IF c[TimeField] # 0 THEN hits \cup {c} ELSE hits

CheckSeq ==
  /\ scan = "copy" /\ missing = {}
  /\ IF seq[Here] = s1 THEN NextSlot(Counting(copied)) ELSE Skip
  /\ s1' = 0 /\ copied' = Nothing    \* locals of one attempt
  /\ UNCHANGED <<kind, ringWriter, wanted, first, missing, seen>>

-----------------------------------------------------------------------------
RecordStep == EndRecord \/ (\E k \in Key : BeginRecord(k)) \/ \E f \in Field : WriteField(f)
ScanStep == LoadSeq \/ CheckSeq \/ \E f \in Field : CopyField(f)

\* A lookup may ask for any age; the oldest record it accepts may be one that
\* is still to come.
RingNext ==
  \/ RecordStep \/ ScanStep
  \/ \E k \in Key, oldest \in 0 .. begun + 1 : BeginScan(k, oldest)

RingSpec == RingInit /\ [][RingNext]_ringVars

-----------------------------------------------------------------------------
(***************************************************************************)
(* Properties.                                                             *)
(***************************************************************************)

\* A copy that is about to be accepted is whole, and it is the record the slot
\* holds: words copied while the writer was in the slot are never used.
WholeRecord ==
  scan = "copy" /\ missing = {} /\ seq[Here] = s1 =>
    \A f, g \in Field : copied[f] = slots[Here][g]

\* Although the writer goes on during a scan, it returns what an atomic ring
\* would: a request's own record is found unless SIZE newer ones were begun, and
\* no match older than one that was there all the while is returned.
Ring == INSTANCE AtomicRing WITH
          scanning <- scan # "idle",
          result <- {c[TimeField] : c \in result}
AtomicRingSpec == Ring!Spec
=============================================================================
