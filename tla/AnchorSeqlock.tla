---------------------------- MODULE AnchorSeqlock ----------------------------
(***************************************************************************)
(* The seqlock around the PPS anchor: publish_pps_anchor_() and            *)
(* get_pps_anchor() in components/gps_pps_time/gps_pps_time.h.             *)
(*                                                                         *)
(* The one writer is the main loop.  Readers are the NTP task and the      *)
(* Ethernet driver task on the other core.  The anchor is an ordinary      *)
(* struct: both sides copy it word by word, in whatever order the compiler *)
(* chose, while the other side may be anywhere.  A word is represented by  *)
(* the number of the publication that wrote it, so a copy is whole when    *)
(* all its words carry one number.  The sequence number is not wrapped: a  *)
(* reader would have to sleep through 2^31 publications, one per second.   *)
(***************************************************************************)
EXTENDS Naturals

CONSTANTS
  Reader,
  Word,         \* the words of struct PpsAnchor
  EpochWord,    \* the one that holds epoch
  Attempts,     \* 4 in the code
  MaxPublish    \* bound on publications

ASSUME WordAssumption == EpochWord \in Word
ASSUME AttemptsAssumption == Attempts \in Nat \ {0}
ASSUME PublishAssumption == MaxPublish \in Nat

VARIABLES
  anchor_seq,
  anchor_,
  unwritten,    \* words the publication under way has still to write
  published,    \* publications finished
  invalid,      \* numbers of the publications of (0, 0, 0)
  pc,           \* per reader: idle, load (anchor_seq_ next), copy
  attempt,
  before,
  out,
  uncopied,     \* words this attempt has still to copy
  disturbed,    \* history: readers whose call met a publication
  answer        \* what each reader's last call returned

writer  == <<anchor_seq, anchor_, unwritten, published, invalid>>
readers == <<pc, attempt, before, out, uncopied, answer>>
vars    == <<writer, readers, disturbed>>

Odd(n) == n % 2 = 1
Publishing == Odd(anchor_seq)
Reading == {r \in Reader : pc[r] # "idle"}

Failed == [ok |-> FALSE, pair |-> 0]
Got(n) == [ok |-> TRUE, pair |-> n]

Init ==
  /\ anchor_seq = 0
  /\ anchor_ = [w \in Word |-> 0]
  /\ unwritten = {}
  /\ published = 0 /\ invalid = {0}
  /\ pc = [r \in Reader |-> "idle"]
  /\ attempt = [r \in Reader |-> 0]
  /\ before = [r \in Reader |-> 0]
  /\ out = [r \in Reader |-> [w \in Word |-> 0]]
  /\ uncopied = [r \in Reader |-> {}]
  /\ disturbed = {}
  /\ answer = [r \in Reader |-> Failed]

-----------------------------------------------------------------------------
(***************************************************************************)
(* publish_pps_anchor_(): the first increment, the assignment, the second. *)
(***************************************************************************)

\* Mutated form: nothing tells the readers that a write has begun.
BeginPublish_Silent ==
  /\ unwritten = {} /\ published < MaxPublish
  /\ unwritten' = Word
  /\ \/ UNCHANGED invalid
     \/ invalid' = invalid \cup {published + 1}
  /\ disturbed' = Reading
  /\ UNCHANGED <<anchor_seq, anchor_, published, readers>>

\* An anchor proper, or the (0, 0, 0) of a reset.
BeginPublish ==
  /\ ~Publishing /\ published < MaxPublish
  /\ anchor_seq' = anchor_seq + 1
  /\ unwritten' = Word
  /\ \/ UNCHANGED invalid
     \/ invalid' = invalid \cup {published + 1}
  /\ disturbed' = Reading
  /\ UNCHANGED <<anchor_, published, readers>>

WriteWord(w) ==
  /\ w \in unwritten
  /\ anchor_' = [anchor_ EXCEPT ![w] = published + 1]
  /\ unwritten' = unwritten \ {w}
  /\ UNCHANGED <<anchor_seq, published, invalid, readers, disturbed>>

EndPublish ==
  /\ Publishing /\ unwritten = {}
  /\ anchor_seq' = anchor_seq + 1
  /\ published' = published + 1
  /\ UNCHANGED <<anchor_, unwritten, invalid, readers, disturbed>>

-----------------------------------------------------------------------------
(***************************************************************************)
(* get_pps_anchor(), one call of reader r.                                 *)
(***************************************************************************)

BeginRead(r) ==
  /\ pc[r] = "idle"
  /\ pc' = [pc EXCEPT ![r] = "load"]
  /\ attempt' = [attempt EXCEPT ![r] = 0]
  /\ disturbed' = IF Publishing THEN disturbed \cup {r} ELSE disturbed
  /\ UNCHANGED <<writer, before, out, uncopied, answer>>

\* The call returns.
Return(r, result) ==
  /\ pc' = [pc EXCEPT ![r] = "idle"]
  /\ answer' = [answer EXCEPT ![r] = result]
  /\ disturbed' = disturbed \ {r}
  /\ UNCHANGED attempt

\* Mutated form: waiting for a writer costs no attempt.
NextAttempt_Free(r) ==
  /\ pc' = [pc EXCEPT ![r] = "load"]
  /\ UNCHANGED <<attempt, answer, disturbed>>

\* The attempt did not work out: the next one, or false after the last.
NextAttempt(r) ==
  IF attempt[r] + 1 < Attempts
    THEN /\ attempt' = [attempt EXCEPT ![r] = @ + 1]
         /\ pc' = [pc EXCEPT ![r] = "load"]
         /\ UNCHANGED <<answer, disturbed>>
    ELSE Return(r, Failed)

LoadBefore(r) ==
  /\ pc[r] = "load"
  /\ before' = [before EXCEPT ![r] = anchor_seq]
  /\ IF Odd(anchor_seq)
       THEN NextAttempt(r) /\ UNCHANGED uncopied
       ELSE /\ pc' = [pc EXCEPT ![r] = "copy"]
            /\ uncopied' = [uncopied EXCEPT ![r] = Word]
            /\ UNCHANGED <<attempt, answer, disturbed>>
  /\ UNCHANGED <<writer, out>>

CopyWord(r, w) ==
  /\ pc[r] = "copy" /\ w \in uncopied[r]
  /\ out' = [out EXCEPT ![r][w] = anchor_[w]]
  /\ uncopied' = [uncopied EXCEPT ![r] = @ \ {w}]
  /\ UNCHANGED <<writer, pc, attempt, before, answer, disturbed>>

\* Mutated form: an unchanged sequence number is not asked for.
LoadAfter_NoCheck(r) ==
  /\ pc[r] = "copy" /\ uncopied[r] = {}
  /\ Return(r, IF out[r][EpochWord] \in invalid THEN Failed ELSE Got(out[r][EpochWord]))
  /\ UNCHANGED <<writer, before, out, uncopied>>

LoadAfter(r) ==
  /\ pc[r] = "copy" /\ uncopied[r] = {}
  /\ IF anchor_seq = before[r]
       THEN Return(r, IF out[r][EpochWord] \in invalid THEN Failed
                      ELSE Got(out[r][EpochWord]))
       ELSE NextAttempt(r)
  /\ UNCHANGED <<writer, before, out, uncopied>>

Read(r) ==
  \/ LoadBefore(r)
  \/ \E w \in Word : CopyWord(r, w)
  \/ LoadAfter(r)

-----------------------------------------------------------------------------
Publish == BeginPublish \/ EndPublish \/ \E w \in Word : WriteWord(w)

Next == Publish \/ \E r \in Reader : BeginRead(r) \/ Read(r)

Spec == Init /\ [][Next]_vars

\* A reader that is inside a call goes on.  Nothing is asked of the writer: the
\* main loop may be preempted in the middle of a publication.
Fairness == \A r \in Reader : WF_vars(Read(r))
FairSpec == Spec /\ Fairness

-----------------------------------------------------------------------------
(***************************************************************************)
(* Properties.                                                             *)
(***************************************************************************)

\* Types of all variables.
TypeOK ==
  /\ anchor_seq \in Nat /\ published \in Nat
  /\ anchor_ \in [Word -> Nat]
  /\ unwritten \subseteq Word
  /\ invalid \subseteq Nat
  /\ pc \in [Reader -> {"idle", "load", "copy"}]
  /\ attempt \in [Reader -> 0 .. Attempts - 1]
  /\ before \in [Reader -> Nat]
  /\ out \in [Reader -> [Word -> Nat]]
  /\ uncopied \in [Reader -> SUBSET Word]
  /\ disturbed \subseteq Reader
  /\ answer \in [Reader -> [ok : BOOLEAN, pair : Nat]]

\* The copy about to be accepted: every word is of the publication in force.
WholeRead ==
  \A r \in Reader :
    pc[r] = "copy" /\ uncopied[r] = {} /\ before[r] = anchor_seq =>
      \A w \in Word : out[r][w] = published

\* A call returns, whether or not the writer ever finishes its publication.
ReadReturns == \A r \in Reader : pc[r] # "idle" ~> pc[r] = "idle"

\* get_pps_anchor() is an atomic read of the anchor in force.
Atomic == INSTANCE AtomicAnchor WITH
            current <- published, publishing <- Publishing,
            reading <- Reading
AtomicSpec == Atomic!Spec
=============================================================================
