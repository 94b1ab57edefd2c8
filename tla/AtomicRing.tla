------------------------------ MODULE AtomicRing ------------------------------
(***************************************************************************)
(* What the two lock-free rings promise: the newest SIZE records are there *)
(* to be read, whole, and a scan never waits.  A scan is not instantaneous *)
(* and the writer does not wait for it: what it may return depends on what *)
(* was complete when it began and on what has been overwritten since.      *)
(*                                                                         *)
(* lookup() "returns the NEWEST match no older than MAX_AGE_US; older      *)
(* matches are treated as a miss" (hook_ring.h); the dump of the           *)
(* diagnostics returns every record it can.                                *)
(***************************************************************************)
EXTENDS Naturals

CONSTANTS SIZE, Key, MaxRecords

VARIABLES
  kind,       \* "hook" or "dump": which of the two rings this is
  keys,       \* the key of each record, in the order they were made
  begun,      \* records begun and records complete
  complete,
  scanning,
  wanted,     \* what the lookup under way, or the last one, asked for
  seen,       \* records complete when it began
  result      \* the records it returned

vars == <<kind, keys, begun, complete, scanning, wanted, seen, result>>

Wanted(m) == kind = "hook" => keys[m] = wanted.key /\ m >= wanted.oldest

\* There from the beginning of the scan until now ...
Kept == {m \in 1 .. seen : m + SIZE > begun /\ Wanted(m)}
\* ... and there at some time since it began.
Offered == {m \in 1 .. complete : m + SIZE > seen /\ Wanted(m)}

Init ==
  /\ kind \in {"hook", "dump"}
  /\ keys = [m \in 1 .. 0 |-> 0]
  /\ begun = 0 /\ complete = 0
  /\ scanning = FALSE /\ seen = 0 /\ result = {}
  /\ wanted \in [key : Key, oldest : {0}]

BeginRecord(k) ==
  /\ begun = complete /\ begun < MaxRecords
  /\ begun' = begun + 1
  /\ keys' = [m \in 1 .. begun + 1 |-> IF m = begun + 1 THEN k ELSE keys[m]]
  /\ UNCHANGED <<kind, complete, scanning, wanted, seen, result>>

EndRecord ==
  /\ begun # complete
  /\ complete' = begun
  /\ UNCHANGED <<kind, keys, begun, scanning, wanted, seen, result>>

BeginScan(k, oldest) ==
  /\ ~scanning
  /\ scanning' = TRUE
  /\ seen' = complete
  /\ wanted' = IF kind = "hook" THEN [key |-> k, oldest |-> oldest] ELSE wanted
  /\ UNCHANGED <<kind, keys, begun, complete, result>>

\* A lookup returns one match, none older than the newest that was there all
\* the while; it misses only if none was.
EndLookup ==
  /\ kind = "hook"
  /\ \/ Kept = {} /\ result' = {}
     \/ \E m \in Offered : result' = {m} /\ \A k \in Kept : k <= m

\* A dump leaves out only what was overwritten while it went on.
EndDump ==
  /\ kind = "dump"
  /\ result' \in SUBSET Offered /\ Kept \subseteq result'

EndScan ==
  /\ scanning
  /\ scanning' = FALSE
  /\ EndLookup \/ EndDump
  /\ UNCHANGED <<kind, keys, begun, complete, wanted, seen>>

Next ==
  \/ \E k \in Key : BeginRecord(k)
  \/ EndRecord
  \/ \E k \in Key, oldest \in 0 .. begun + 1 : BeginScan(k, oldest)
  \/ EndScan

Spec == Init /\ [][Next]_vars
=============================================================================
