---------------------------- MODULE SlotRingProofs ----------------------------
(***************************************************************************)
(* A ring of seqlocks, read slot by slot while its writer goes on, is the  *)
(* atomic ring, for any number of slots, words, keys and attempts.         *)
(***************************************************************************)
EXTENDS SlotRing, TLAPS

USE SizeAssumption, FieldAssumption, DumpAssumption, RecordsAssumption

RingTypeOK ==
  /\ kind \in {"hook", "dump"}
  /\ seq \in [Slot -> Nat] /\ slots \in [Slot -> [Field -> Nat]]
  /\ next \in Slot
  /\ begun \in Nat /\ complete \in Nat /\ unset \subseteq Field
  /\ scan \in {"idle", "seq", "copy"}
  /\ wanted.oldest \in Nat
  /\ first \in Slot /\ visited \in Slot /\ tries \in Nat
  /\ s1 \in Nat /\ copied \in [Field -> Nat] /\ missing \subseteq Field
  /\ hits \subseteq [Field -> Nat] /\ seen \in Nat

\* How many records ago the slot was begun, and the number of its record.
Ago(i) == IF i < next THEN next - 1 - i ELSE next - 1 - i + SIZE
Held(i) == IF begun > Ago(i) THEN begun - Ago(i) ELSE 0

\* The slot being written is marked, and every other one is whole.
SlotsInv ==
  /\ complete <= begun /\ begun <= complete + 1
  /\ ~Recording => unset = {}
  /\ \A i \in Slot : seq[i] % 2 = IF Recording /\ i = Current THEN 1 ELSE 0
  /\ \A i \in Slot : \A f \in Field :
       (i = Current /\ f \in unset) \/ slots[i][f] = Held(i)

\* As long as the slot's number is the one the copy began with, so are its
\* words; if it is not, the slot's record is younger than the scan.
CopyInv ==
  /\ seen <= complete
  /\ scan = "copy" =>
       /\ s1 % 2 = 0 /\ s1 <= seq[Here]
       /\ seq[Here] = s1 => \A f \in Field \ missing : copied[f] = slots[Here][f]
       /\ seq[Here] # s1 => Held(Here) > seen

\* The place of a slot in the scan.
Place(i) == IF i < first THEN i - first + SIZE ELSE i - first

\* A copy that counts is a whole record that was there during the scan.
Genuine(h) ==
  /\ h \subseteq [Field -> Nat]
  /\ \A c \in h : c[TimeField] \in Ring!Offered
  /\ kind = "hook" => \A b, c \in h : b = c

Covers(h, m) ==
  \E c \in h : IF kind = "hook" THEN m <= c[TimeField] ELSE m = c[TimeField]

\* None of the first n slots of the scan holds a record that is missed.
Covered(h, n) ==
  \A i \in Slot : Place(i) < n /\ Held(i) \in Ring!Kept => Covers(h, Held(i))

RingInv == RingTypeOK /\ SlotsInv /\ CopyInv /\ Genuine(hits) /\ Covered(hits, visited)

-----------------------------------------------------------------------------
(***************************************************************************)
(* The geometry of the ring.                                               *)
(***************************************************************************)

LEMMA Parity ==
  ASSUME NEW n \in Nat
  PROVE  /\ n % 2 \in {0, 1}
         /\ n % 2 = 0 => (n + 1) % 2 = 1
         /\ n % 2 = 1 => (n + 1) % 2 = 0
  BY SMT

\* The slot begun last is the current one, and the slots behind it were begun
\* one after the other.
LEMMA Writing ==
  ASSUME RingTypeOK
  PROVE  /\ Current \in Slot /\ Succ(next) \in Slot /\ Pred(Succ(next)) = next
         /\ \A i \in Slot : /\ Ago(i) \in 0 .. SIZE - 1
                            /\ Ago(i) = 0 <=> i = Current
                            /\ Held(i) \in Nat /\ Held(i) <= begun
                            /\ Held(i) > 0 => Held(i) + SIZE > begun
         /\ begun > 0 => Held(Current) = begun
  BY SMT DEF RingTypeOK, Slot, Current, Pred, Succ, Ago, Held

\* Every record of the last SIZE is in some slot.
LEMMA HeldSomewhere ==
  ASSUME RingTypeOK, NEW m \in 1 .. begun, m + SIZE > begun
  PROVE  \E i \in Slot : Held(i) = m
<1> DEFINE ago == begun - m
           i == IF ago <= next - 1 THEN next - 1 - ago ELSE next - 1 - ago + SIZE
<1>1. ago \in 0 .. SIZE - 1 /\ next \in 0 .. SIZE - 1 /\ begun \in Nat
  BY SMT DEF RingTypeOK, Slot
<1>2. i \in Slot BY <1>1, SMT DEF Slot
<1>3. Held(i) = m BY <1>1, <1>2, SMT DEF Held, Ago, Slot
<1> QED BY <1>2, <1>3

\* A scan comes by every slot once.
LEMMA Scanning ==
  ASSUME RingTypeOK
  PROVE  /\ Here \in Slot /\ Place(Here) = visited
         /\ \A i \in Slot : /\ Place(i) \in 0 .. SIZE - 1
                            /\ Place(i) < visited + 1 => Place(i) < visited \/ i = Here
  BY SMT DEF RingTypeOK, Slot, Here, Place

LEMMA PlaceRange ==
  ASSUME NEW f \in 0 .. SIZE - 1, NEW i \in 0 .. SIZE - 1
  PROVE  (IF i < f THEN i - f + SIZE ELSE i - f) \in 0 .. SIZE - 1
  BY SMT

\* What the slots hold changes when a record is begun: the oldest one is gone.
LEMMA HeldAfter ==
  ASSUME RingTypeOK, NEW k \in Key, BeginRecord(k)
  PROVE  \A i \in Slot : Held(i)' = IF i = next THEN begun + 1 ELSE Held(i)
<1>1. next' = Succ(next) /\ begun' = begun + 1 BY DEF BeginRecord
<1>2. next \in 0 .. SIZE - 1 /\ begun \in Nat /\ SIZE \in Nat BY DEF RingTypeOK, Slot
<1>3. ASSUME NEW i \in 0 .. SIZE - 1
      PROVE  Ago(i)' = IF i = next THEN 0 ELSE Ago(i) + 1
  BY <1>1, <1>2, SMT DEF Succ, Ago
<1>4. ASSUME NEW i \in 0 .. SIZE - 1
      PROVE  Held(i)' = IF i = next THEN begun + 1 ELSE Held(i)
  <2>1. Ago(i) \in 0 .. SIZE - 1 /\ Ago(i)' = IF i = next THEN 0 ELSE Ago(i) + 1
    BY <1>2, <1>3, SMT DEF Ago
  <2> QED BY <1>1, <1>2, <2>1, SMT DEF Held
<1> QED BY <1>4 DEF Slot

-----------------------------------------------------------------------------
(***************************************************************************)
(* Types.                                                                  *)
(***************************************************************************)

\* What Counting makes of the hits.
LEMMA CountingType ==
  ASSUME hits \subseteq [Field -> Nat], NEW c \in [Field -> Nat]
  PROVE  Counting(c) \subseteq [Field -> Nat]
  BY DEF Counting

LEMMA NextSlotType ==
  ASSUME RingTypeOK, NEW h \in SUBSET [Field -> Nat], NextSlot(h)
  PROVE  /\ scan' \in {"idle", "seq", "copy"} /\ visited' \in Slot /\ tries' \in Nat
         /\ hits' \subseteq [Field -> Nat]
<1>1. visited \in 0 .. SIZE - 1 BY DEF RingTypeOK, Slot
<1>2. 0 \in Slot BY SMT DEF Slot
<1>3. visited + 1 < SIZE => visited + 1 \in Slot BY <1>1, SMT DEF Slot
<1> QED BY <1>2, <1>3 DEF NextSlot

LEMMA SkipType ==
  ASSUME RingTypeOK, Skip
  PROVE  /\ scan' \in {"idle", "seq", "copy"} /\ visited' \in Slot /\ tries' \in Nat
         /\ hits' \subseteq [Field -> Nat]
<1>1. hits \in SUBSET [Field -> Nat] BY DEF RingTypeOK
<1>2. CASE tries + 1 < Tries BY <1>2 DEF Skip, RingTypeOK
<1>3. CASE ~(tries + 1 < Tries) BY <1>1, <1>3, NextSlotType DEF Skip
<1> QED BY <1>2, <1>3

LEMMA TypeStep == RingTypeOK /\ [RingNext]_ringVars => RingTypeOK'
<1> SUFFICES ASSUME RingTypeOK, [RingNext]_ringVars PROVE RingTypeOK'
  OBVIOUS
<1> USE DEF RingTypeOK, ringWriter, ringReader, ringVars
<1>1. Current \in Slot /\ Succ(next) \in Slot /\ Here \in Slot BY Writing, Scanning
<1>2. CASE EndRecord BY <1>1, <1>2 DEF EndRecord
<1>3. ASSUME NEW k \in Key, BeginRecord(k) PROVE RingTypeOK'
  <2>1. seq[next] + 1 \in Nat /\ begun + 1 \in Nat OBVIOUS
  <2>2. seq' \in [Slot -> Nat] /\ begun' \in Nat /\ next' \in Slot /\ unset' \subseteq Field
    BY <1>1, <1>3, <2>1 DEF BeginRecord
  <2>3. UNCHANGED <<kind, slots, complete, ringReader>> BY <1>3 DEF BeginRecord
  <2> QED BY <2>2, <2>3
<1>4. ASSUME NEW f \in Field, WriteField(f) PROVE RingTypeOK'
  BY <1>1, <1>4 DEF WriteField
<1>5. CASE LoadSeq
  <2>1. CASE seq[Here] % 2 = 1 BY <1>1, <1>5, <2>1, SkipType DEF LoadSeq
  <2>2. CASE seq[Here] % 2 # 1 BY <1>1, <1>5, <2>2 DEF LoadSeq
  <2> QED BY <2>1, <2>2
<1>6. ASSUME NEW f \in Field, CopyField(f) PROVE RingTypeOK'
  BY <1>1, <1>6 DEF CopyField
<1>7. CASE CheckSeq
  <2>1. Counting(copied) \in SUBSET [Field -> Nat] BY CountingType
  <2>2. Nothing \in [Field -> Nat] BY DEF Nothing
  <2>3. CASE seq[Here] = s1 BY <1>7, <2>1, <2>2, <2>3, NextSlotType DEF CheckSeq
  <2>4. CASE seq[Here] # s1 BY <1>7, <2>2, <2>4, SkipType DEF CheckSeq
  <2> QED BY <2>3, <2>4
<1>8. ASSUME NEW k \in Key, NEW oldest \in 0 .. begun + 1, BeginScan(k, oldest)
      PROVE  RingTypeOK'
  <2>1. 0 \in Slot BY SMT DEF Slot
  <2> QED BY <1>8, <2>1 DEF BeginScan
<1>9. CASE UNCHANGED ringVars BY <1>9
<1> QED BY <1>2, <1>3, <1>4, <1>5, <1>6, <1>7, <1>8, <1>9 DEF RingNext, RecordStep, ScanStep

-----------------------------------------------------------------------------
(***************************************************************************)
(* The writer and the slots.                                               *)
(***************************************************************************)

\* Reading does not touch what is read.
LEMMA ReaderOnlyReads ==
  ASSUME \/ ScanStep
         \/ \E k \in Key, oldest \in 0 .. begun + 1 : BeginScan(k, oldest)
         \/ UNCHANGED ringVars
  PROVE  UNCHANGED <<kind, ringWriter>>
  BY DEF ScanStep, LoadSeq, CopyField, CheckSeq, BeginScan, ringVars

LEMMA SlotsStep == RingTypeOK /\ SlotsInv /\ [RingNext]_ringVars => SlotsInv'
<1> SUFFICES ASSUME RingTypeOK, SlotsInv, [RingNext]_ringVars PROVE SlotsInv'
  OBVIOUS
<1> USE DEF ringWriter
<1>1. begun \in Nat /\ complete \in Nat /\ unset \subseteq Field /\ next \in Slot
      /\ seq \in [Slot -> Nat] /\ slots \in [Slot -> [Field -> Nat]]
  BY DEF RingTypeOK
<1>2. complete <= begun /\ begun <= complete + 1 BY DEF SlotsInv
<1>3. ASSUME NEW k \in Key, BeginRecord(k) PROVE SlotsInv'
  <2>1. begun = complete /\ unset = {} BY <1>3 DEF BeginRecord, Recording, SlotsInv
  <2>2. begun' = begun + 1 /\ complete' = complete /\ slots' = slots
        /\ seq' = [seq EXCEPT ![next] = @ + 1] /\ Current' = next /\ unset' = Field
    BY <1>3, Writing DEF BeginRecord, Current
  <2>3. Recording' BY <1>1, <2>1, <2>2, SMT DEF Recording
  <2>4. ASSUME NEW i \in Slot PROVE (seq[i] % 2)' = IF i = next THEN 1 ELSE 0
    <3>1. seq[i] % 2 = 0 /\ seq[i] \in Nat BY <1>1, <2>1 DEF SlotsInv, Recording
    <3> QED BY <1>1, <2>2, <3>1, Parity
  <2>5. ASSUME NEW i \in Slot, NEW f \in Field, i # next PROVE slots[i][f] = Held(i)'
    <3>1. Held(i)' = Held(i) BY <1>3, <2>5, HeldAfter
    <3> QED BY <2>1, <3>1 DEF SlotsInv
  <2> QED BY <1>1, <2>1, <2>2, <2>3, <2>4, <2>5 DEF SlotsInv
<1>4. ASSUME NEW f \in Field, WriteField(f) PROVE SlotsInv'
  <2>1. slots' = [slots EXCEPT ![Current][f] = begun] /\ unset' = unset \ {f} /\ f \in unset
        /\ UNCHANGED <<seq, next, begun, complete>>
    BY <1>4 DEF WriteField
  <2>2. Recording BY <2>1 DEF SlotsInv
  <2>3. Held(Current) = begun BY <1>1, <1>2, <2>2, Writing, SMT DEF Recording
  <2>4. UNCHANGED <<Recording, Current>> /\ \A i \in Slot : Held(i)' = Held(i)
    BY <2>1 DEF Recording, Current, Held, Ago
  <2>5. ASSUME NEW i \in Slot, NEW g \in Field, ~(i = Current /\ g \in unset')
        PROVE  slots'[i][g] = Held(i)
    <3>1. CASE i = Current /\ g = f BY <1>1, <2>1, <2>3, <3>1
    <3>2. CASE ~(i = Current /\ g = f)
      <4>1. slots'[i][g] = slots[i][g] BY <1>1, <2>1, <3>2
      <4>2. ~(i = Current /\ g \in unset) BY <2>1, <2>5, <3>2
      <4> QED BY <4>1, <4>2 DEF SlotsInv
    <3> QED BY <3>1, <3>2
  <2> QED BY <2>1, <2>2, <2>4, <2>5 DEF SlotsInv
<1>5. CASE EndRecord
  <2>1. seq' = [seq EXCEPT ![Current] = @ + 1] /\ complete' = begun /\ unset = {}
        /\ Recording /\ UNCHANGED <<slots, next, begun, unset>>
    BY <1>5 DEF EndRecord
  <2>2. ~Recording' /\ Current' = Current /\ \A i \in Slot : Held(i)' = Held(i)
    BY <2>1 DEF Recording, Current, Held, Ago
  <2>3. ASSUME NEW i \in Slot PROVE (seq[i] % 2)' = 0
    <3>1. seq[i] % 2 = (IF i = Current THEN 1 ELSE 0) /\ seq[i] \in Nat
      BY <1>1, <2>1 DEF SlotsInv
    <3> QED BY <1>1, <2>1, <3>1, Parity
  <2> QED BY <1>1, <2>1, <2>2, <2>3 DEF SlotsInv
<1>6. CASE UNCHANGED <<kind, ringWriter>>
  BY <1>6 DEF SlotsInv, Recording, Current, Held, Ago
<1> QED BY <1>3, <1>4, <1>5, <1>6, ReaderOnlyReads DEF RingNext, RecordStep

-----------------------------------------------------------------------------
(***************************************************************************)
(* The copy.                                                               *)
(***************************************************************************)

\* A slot that is marked is being written, and its record is not complete.
LEMMA Marked ==
  ASSUME RingTypeOK, SlotsInv, NEW i \in Slot, seq[i] % 2 = 1
  PROVE  i = Current /\ Recording /\ Held(i) = begun /\ begun = complete + 1
<1>1. i = Current /\ Recording BY SMT DEF SlotsInv
<1>2. begun = complete + 1 BY <1>1, SMT DEF SlotsInv, Recording, RingTypeOK
<1>3. begun > 0 BY <1>2, SMT DEF RingTypeOK
<1> QED BY <1>1, <1>2, <1>3, Writing

LEMMA CopyWriter ==
  ASSUME RingTypeOK, SlotsInv, CopyInv, RecordStep
  PROVE  CopyInv'
<1>1. UNCHANGED ringReader /\ Here' = Here /\ Here \in Slot
  BY Scanning DEF RecordStep, EndRecord, BeginRecord, WriteField, ringReader, Here
<1>2. begun \in Nat /\ complete \in Nat /\ seen \in Nat /\ s1 \in Nat
      /\ seq \in [Slot -> Nat] /\ slots \in [Slot -> [Field -> Nat]]
      /\ seen <= complete /\ complete <= begun
  BY DEF RingTypeOK, CopyInv, SlotsInv
<1>3. seq[Here] \in Nat /\ (scan = "copy" => s1 <= seq[Here])
  BY <1>1, <1>2 DEF CopyInv
<1>4. ASSUME NEW k \in Key, BeginRecord(k) PROVE CopyInv'
  <2>1. seq' = [seq EXCEPT ![next] = @ + 1] /\ slots' = slots /\ complete' = complete
    BY <1>4 DEF BeginRecord
  <2>2. CASE Here = next
    <3>1. seq'[Here] = seq[Here] + 1 BY <1>1, <1>2, <2>1, <2>2
    <3>2. Held(Here)' = begun + 1 BY <1>1, <1>4, <2>2, HeldAfter
    <3>3. scan = "copy" => s1 # seq'[Here] /\ s1 <= seq'[Here]
      BY <1>3, <1>2, <3>1, SMT
    <3>4. Held(Here)' > seen BY <1>2, <3>2, SMT
    <3> QED BY <1>1, <1>2, <2>1, <3>3, <3>4 DEF CopyInv, ringReader
  <2>3. CASE Here # next
    <3>1. seq'[Here] = seq[Here] BY <1>1, <1>2, <2>1, <2>3
    <3>2. Held(Here)' = Held(Here) BY <1>1, <1>4, <2>3, HeldAfter
    <3> QED BY <1>1, <2>1, <3>1, <3>2 DEF CopyInv, ringReader
  <2> QED BY <2>2, <2>3
<1>5. ASSUME NEW f \in Field, WriteField(f) PROVE CopyInv'
  <2>1. slots' = [slots EXCEPT ![Current][f] = begun] /\ f \in unset
        /\ UNCHANGED <<seq, next, begun, complete>>
    BY <1>5 DEF WriteField
  <2>2. Held(Here)' = Held(Here) BY <1>1, <2>1 DEF Held, Ago
  <2>3. scan = "copy" /\ seq[Here] = s1 => slots'[Here] = slots[Here]
    <3>1. Recording BY <2>1 DEF SlotsInv
    <3>2. seq[Current] % 2 = 1 BY <3>1, Writing DEF SlotsInv
    <3>3. scan = "copy" /\ seq[Here] = s1 => Here # Current BY <3>2, SMT DEF CopyInv
    <3> QED BY <1>1, <1>2, <2>1, <3>3
  <2> QED BY <1>1, <2>1, <2>2, <2>3 DEF CopyInv, ringReader
<1>6. CASE EndRecord
  <2>1. seq' = [seq EXCEPT ![Current] = @ + 1] /\ complete' = begun /\ Recording
        /\ UNCHANGED <<slots, next, begun>>
    BY <1>6 DEF EndRecord
  <2>2. Held(Here)' = Held(Here) BY <1>1, <2>1 DEF Held, Ago
  <2>3. CASE Here = Current
    <3>1. seq[Here] % 2 = 1 BY <1>1, <2>1, <2>3 DEF SlotsInv
    <3>2. Held(Here) > seen BY <1>1, <1>2, <3>1, Marked, SMT
    <3>3. seq'[Here] = seq[Here] + 1 BY <1>1, <1>2, <2>1, <2>3
    <3>4. scan = "copy" => s1 # seq'[Here] /\ s1 <= seq'[Here]
      BY <1>3, <1>2, <3>3, SMT
    <3>5. seen' <= complete' BY <1>1, <1>2, <2>1, SMT DEF ringReader
    <3> QED BY <1>1, <2>1, <2>2, <3>2, <3>4, <3>5 DEF CopyInv, ringReader
  <2>4. CASE Here # Current
    <3>1. seq'[Here] = seq[Here] BY <1>1, <1>2, <2>1, <2>4
    <3>2. seen' <= complete' BY <1>1, <1>2, <2>1, SMT DEF ringReader
    <3> QED BY <1>1, <2>1, <2>2, <3>1, <3>2 DEF CopyInv, ringReader
  <2> QED BY <2>3, <2>4
<1> QED BY <1>4, <1>5, <1>6 DEF RecordStep

LEMMA CopyStep == RingTypeOK /\ SlotsInv /\ CopyInv /\ [RingNext]_ringVars => CopyInv'
<1> SUFFICES ASSUME RingTypeOK, SlotsInv, CopyInv, [RingNext]_ringVars PROVE CopyInv'
  OBVIOUS
<1>1. CASE LoadSeq
  <2>1. UNCHANGED <<kind, ringWriter, first, seen>> BY <1>1 DEF LoadSeq
  <2>2. CASE seq[Here] % 2 = 1
    <3>1. scan' # "copy" BY <1>1, <2>2 DEF LoadSeq, Skip, NextSlot
    <3> QED BY <2>1, <3>1 DEF CopyInv, ringWriter
  <2>3. CASE seq[Here] % 2 # 1
    <3>1. Here \in Slot BY Scanning
    <3>2. seq[Here] \in Nat BY <3>1 DEF RingTypeOK
    <3>3. seq[Here] % 2 = 0 BY <2>3, <3>2, Parity
    <3>4. s1' = seq[Here] /\ missing' = Field /\ Here' = Here
      BY <1>1, <2>1, <2>3 DEF LoadSeq, Here
    <3> QED BY <2>1, <3>2, <3>3, <3>4 DEF CopyInv, ringWriter
  <2> QED BY <2>2, <2>3
<1>2. ASSUME NEW f \in Field, CopyField(f) PROVE CopyInv'
  <2>1. UNCHANGED <<kind, ringWriter, scan, first, visited, s1, seen>> /\ Here' = Here
        /\ copied' = [copied EXCEPT ![f] = slots[Here][f]] /\ missing' = missing \ {f}
    BY <1>2 DEF CopyField, Here
  <2>2. copied \in [Field -> Nat] BY DEF RingTypeOK
  <2>3. ASSUME NEW g \in Field \ missing', scan = "copy", seq[Here] = s1
        PROVE  copied'[g] = slots[Here][g]
    BY <2>1, <2>2, <2>3 DEF CopyInv
  <2> QED BY <2>1, <2>3 DEF CopyInv, ringWriter, Held, Ago
<1>3. CASE CheckSeq
  <2>1. scan' # "copy" BY <1>3 DEF CheckSeq, Skip, NextSlot
  <2>2. UNCHANGED <<complete, seen>> BY <1>3 DEF CheckSeq, ringWriter
  <2> QED BY <2>1, <2>2 DEF CopyInv
<1>4. ASSUME NEW k \in Key, NEW oldest \in 0 .. begun + 1, BeginScan(k, oldest)
      PROVE  CopyInv'
  <2>1. scan' = "seq" /\ seen' = complete /\ complete' = complete
    BY <1>4 DEF BeginScan, ringWriter
  <2> QED BY <2>1 DEF CopyInv, RingTypeOK
<1>5. CASE UNCHANGED ringVars
  BY <1>5 DEF CopyInv, Here, Held, Ago, ringVars, ringWriter, ringReader
<1> QED BY <1>1, <1>2, <1>3, <1>4, <1>5, CopyWriter DEF RingNext, ScanStep

-----------------------------------------------------------------------------
(***************************************************************************)
(* The hits.                                                               *)
(***************************************************************************)

\* An accepted copy is the record of its slot, which is complete.
LEMMA WholeCopy ==
  ASSUME RingTypeOK, SlotsInv, CopyInv, scan = "copy", missing = {}, seq[Here] = s1
  PROVE  /\ \A f \in Field : copied[f] = slots[Here][f] /\ slots[Here][f] = Held(Here)
         /\ Held(Here) \in Nat /\ Held(Here) <= complete
         /\ Held(Here) > 0 => Held(Here) + SIZE > seen
<1>1. Here \in Slot BY Scanning
<1>2. ~(Recording /\ Here = Current) BY <1>1, SMT DEF SlotsInv, CopyInv
<1>3. \A f \in Field : copied[f] = slots[Here][f] /\ slots[Here][f] = Held(Here)
  BY <1>1, <1>2 DEF SlotsInv, CopyInv
<1>4. Held(Here) \in Nat /\ Held(Here) <= begun /\ Ago(Here) \in 0 .. SIZE - 1
      /\ (Ago(Here) = 0 <=> Here = Current)
      /\ (Held(Here) > 0 => Held(Here) + SIZE > begun)
  BY <1>1, Writing
<1>5. begun \in Nat /\ complete \in Nat /\ seen \in Nat /\ seen <= complete
      /\ complete <= begun /\ begun <= complete + 1
  BY DEF RingTypeOK, SlotsInv, CopyInv
<1>6. Held(Here) <= complete
  <2>1. CASE begun = complete BY <1>4, <2>1
  <2>2. CASE begun # complete
    <3>1. Ago(Here) > 0 BY <1>2, <1>4, <2>2, SMT DEF Recording
    <3>2. Held(Here) = (IF begun > Ago(Here) THEN begun - Ago(Here) ELSE 0) BY DEF Held
    <3> QED BY <1>4, <1>5, <3>1, <3>2, SMT
  <2> QED BY <2>1, <2>2
<1>7. Held(Here) > 0 => Held(Here) + SIZE > seen BY <1>4, <1>5, SMT
<1> QED BY <1>3, <1>4, <1>6, <1>7

\* A copy that counts is one of the records offered.
LEMMA CountingGenuine ==
  ASSUME RingTypeOK, SlotsInv, CopyInv, Genuine(hits),
         scan = "copy", missing = {}, seq[Here] = s1
  PROVE  Genuine(Counting(copied))
<1> DEFINE m == Held(Here)
<1>1. copied \in [Field -> Nat] /\ hits \subseteq [Field -> Nat] BY DEF RingTypeOK
<1>2. copied[KeyField] = m /\ copied[TimeField] = m /\ m \in Nat /\ m <= complete
      /\ (m > 0 => m + SIZE > seen)
  BY WholeCopy
<1>3. complete \in Nat BY DEF RingTypeOK
<1>4. CASE kind = "hook"
  <2>1. ASSUME Matches(copied) PROVE m \in Ring!Offered
    <3>1. m > 0 /\ keys[m] = wanted.key /\ m >= wanted.oldest BY <1>2, <2>1 DEF Matches
    <3>2. m \in 1 .. complete BY <1>2, <1>3, <3>1, SMT
    <3> QED BY <1>2, <3>1, <3>2 DEF Ring!Offered, Ring!Wanted
  <2>2. Counting(copied) = hits \/ (Counting(copied) = {copied} /\ Matches(copied))
    BY <1>4 DEF Counting
  <2> QED BY <1>1, <1>2, <2>1, <2>2 DEF Genuine
<1>5. CASE kind # "hook"
  <2>1. ASSUME m # 0 PROVE m \in Ring!Offered
    <3>1. m \in 1 .. complete BY <1>2, <1>3, <2>1, SMT
    <3> QED BY <1>2, <1>5, <3>1, SMT DEF Ring!Offered, Ring!Wanted
  <2>2. Counting(copied) = hits \/ (Counting(copied) = hits \cup {copied} /\ m # 0)
    BY <1>2, <1>5 DEF Counting
  <2> QED BY <1>1, <1>2, <1>5, <2>1, <2>2 DEF Genuine
<1> QED BY <1>4, <1>5

\* The slot it is a copy of need not be visited again.
LEMMA CountingCovers ==
  ASSUME RingTypeOK, SlotsInv, CopyInv, Genuine(hits), Covered(hits, visited),
         scan = "copy", missing = {}, seq[Here] = s1
  PROVE  Covered(Counting(copied), visited + 1)
<1> DEFINE m == Held(Here)
<1>1. copied \in [Field -> Nat] /\ hits \subseteq [Field -> Nat] BY DEF RingTypeOK
<1>2. copied[KeyField] = m /\ copied[TimeField] = m /\ m \in Nat BY WholeCopy
<1>3. \A i \in Slot : /\ Place(i) < visited + 1 => Place(i) < visited \/ i = Here
                      /\ Held(i) \in Nat
  BY Scanning, Writing
<1>4. ASSUME NEW n \in Nat, Covers(hits, n) PROVE Covers(Counting(copied), n)
  <2>1. PICK b \in hits : IF kind = "hook" THEN n <= b[TimeField] ELSE n = b[TimeField]
    BY <1>4 DEF Covers
  <2>2. b[TimeField] \in Nat BY <1>1
  <2>3. CASE b \in Counting(copied) BY <2>1, <2>3 DEF Covers
  <2>4. CASE b \notin Counting(copied)
    <3>1. kind = "hook" /\ Counting(copied) = {copied} /\ copied[TimeField] > b[TimeField]
      BY <2>1, <2>4 DEF Counting
    <3>2. n <= copied[TimeField] BY <1>2, <2>1, <2>2, <3>1, SMT
    <3> QED BY <3>1, <3>2 DEF Covers
  <2> QED BY <2>3, <2>4
<1>5. ASSUME m \in Ring!Kept PROVE Covers(Counting(copied), m)
  <2>1. m # 0 /\ Ring!Wanted(m) BY <1>5, SMT DEF Ring!Kept
  <2>2. CASE kind = "hook"
    <3>1. Matches(copied) BY <1>2, <2>1, <2>2, SMT DEF Ring!Wanted, Matches
    <3>2. CASE \A b \in hits : copied[TimeField] > b[TimeField]
      <4>1. Counting(copied) = {copied} BY <2>2, <3>1, <3>2 DEF Counting
      <4> QED BY <1>2, <4>1 DEF Covers
    <3>3. CASE ~\A b \in hits : copied[TimeField] > b[TimeField]
      <4>1. Counting(copied) = hits BY <2>2, <3>3 DEF Counting
      <4>2. PICK b \in hits : ~(copied[TimeField] > b[TimeField]) BY <3>3
      <4>3. m <= b[TimeField] BY <1>1, <1>2, <4>2, SMT
      <4> QED BY <2>2, <4>1, <4>3 DEF Covers
    <3> QED BY <3>2, <3>3
  <2>3. CASE kind # "hook"
    <3>1. Counting(copied) = hits \cup {copied} BY <1>2, <2>1, <2>3 DEF Counting
    <3> QED BY <1>2, <2>3, <3>1 DEF Covers
  <2> QED BY <2>2, <2>3
<1> QED BY <1>3, <1>4, <1>5 DEF Covered

\* Nor need a slot that was overwritten since the scan began.
LEMMA SkipCovers ==
  ASSUME RingTypeOK, Covered(hits, visited), Held(Here) > seen
  PROVE  Covered(hits, visited + 1)
<1>1. \A i \in Slot : Place(i) < visited + 1 => Place(i) < visited \/ i = Here BY Scanning
<1>2. seen \in Nat BY DEF RingTypeOK
<1>3. Held(Here) \notin Ring!Kept BY <1>2, SMT DEF Ring!Kept
<1> QED BY <1>1, <1>3 DEF Covered

\* What was offered stays offered; what is overwritten need not be found.
LEMMA HitsWriter ==
  ASSUME RingTypeOK, SlotsInv, CopyInv, Genuine(hits), Covered(hits, visited), RecordStep
  PROVE  Genuine(hits)' /\ Covered(hits, visited)'
<1>1. UNCHANGED <<kind, ringReader>>
  BY DEF RecordStep, EndRecord, BeginRecord, WriteField
<1>2. begun \in Nat /\ complete \in Nat /\ seen \in Nat /\ seen <= complete /\ complete <= begun
  BY DEF RingTypeOK, CopyInv, SlotsInv
<1>3. /\ complete' \in Nat /\ complete <= complete'
      /\ begun' \in Nat /\ begun <= begun'
      /\ \A m \in 1 .. begun : keys'[m] = keys[m]
      /\ \A i \in Slot : Held(i)' = Held(i) \/ Held(i)' > seen
  <2>1. ASSUME NEW k \in Key, BeginRecord(k) PROVE <1>3!:
    <3>1. begun' = begun + 1 /\ complete' = complete
          /\ keys' = [m \in 1 .. begun + 1 |-> IF m = begun + 1 THEN k ELSE keys[m]]
      BY <2>1 DEF BeginRecord
    <3>2. \A i \in Slot : Held(i)' = IF i = next THEN begun + 1 ELSE Held(i)
      BY <2>1, HeldAfter
    <3>3. begun + 1 > seen BY <1>2, SMT
    <3> QED BY <1>2, <3>1, <3>2, <3>3
  <2>2. ASSUME NEW f \in Field, WriteField(f) PROVE <1>3!:
    BY <1>2, <2>2 DEF WriteField, Held, Ago
  <2>3. CASE EndRecord BY <1>2, <2>3 DEF EndRecord, Held, Ago
  <2> QED BY <2>1, <2>2, <2>3 DEF RecordStep
<1>4. ASSUME NEW m \in Ring!Offered PROVE m \in Ring!Offered'
  <2>1. m \in 1 .. complete /\ m \in 1 .. complete' /\ m \in 1 .. begun /\ m + SIZE > seen
        /\ Ring!Wanted(m)
    BY <1>2, <1>3, SMT DEF Ring!Offered
  <2> QED BY <1>1, <1>3, <2>1 DEF Ring!Offered, Ring!Wanted, ringReader
<1>5. ASSUME NEW m \in Ring!Kept' PROVE m \in Ring!Kept
  <2>1. m \in 1 .. seen /\ m + SIZE > begun /\ m \in 1 .. begun
    BY <1>1, <1>2, <1>3, SMT DEF Ring!Kept, ringReader
  <2> QED BY <1>1, <1>3, <2>1 DEF Ring!Kept, Ring!Wanted, ringReader
<1>6. Genuine(hits)' BY <1>1, <1>4 DEF Genuine, ringReader
<1>7. ASSUME NEW i \in Slot, (Place(i) < visited)', Held(i)' \in Ring!Kept'
      PROVE  Covers(hits, Held(i))'
  <2>1. Held(i)' \in Ring!Kept BY <1>5, <1>7
  <2>2. Held(i)' = Held(i) BY <1>2, <1>3, <2>1, SMT DEF Ring!Kept
  <2>3. Covers(hits, Held(i)) BY <1>1, <1>7, <2>1, <2>2 DEF Covered, Place, ringReader
  <2> QED BY <1>1, <2>2, <2>3 DEF Covers, ringReader
<1> QED BY <1>6, <1>7 DEF Covered

\* Only the reader's own variables change.
LEMMA SameOffers ==
  ASSUME UNCHANGED <<kind, ringWriter, wanted, first, seen>>
  PROVE  /\ Ring!Offered' = Ring!Offered /\ Ring!Kept' = Ring!Kept
         /\ \A i \in Slot : Held(i)' = Held(i) /\ Place(i)' = Place(i)
  BY DEF Ring!Offered, Ring!Kept, Ring!Wanted, Held, Ago, Place, ringWriter

\* The scan goes on behind a slot that is dealt with.
LEMMA HitsNext ==
  ASSUME RingTypeOK, NEW h, Genuine(h), Covered(h, visited + 1), NextSlot(h),
         UNCHANGED <<kind, ringWriter, wanted, first, seen>>
  PROVE  Genuine(hits)' /\ Covered(hits, visited)'
<1>1. Ring!Offered' = Ring!Offered /\ Ring!Kept' = Ring!Kept
      /\ \A i \in Slot : Held(i)' = Held(i) /\ Place(i)' = Place(i) /\ Place(i) >= 0
  BY SameOffers, Scanning
<1>2. CASE hits' = h /\ visited' = visited + 1
  BY <1>1, <1>2 DEF Genuine, Covered, Covers
<1>3. CASE hits' = {} /\ visited' = 0
  BY <1>1, <1>3, Scanning DEF Genuine, Covered
<1> QED BY <1>2, <1>3 DEF NextSlot

LEMMA HitsSkip ==
  ASSUME RingTypeOK, Genuine(hits), Covered(hits, visited), Held(Here) > seen, Skip,
         UNCHANGED <<kind, ringWriter, wanted, first, seen>>
  PROVE  Genuine(hits)' /\ Covered(hits, visited)'
<1>1. CASE tries + 1 < Tries
  <2>1. UNCHANGED <<hits, visited>> BY <1>1 DEF Skip
  <2> QED BY <2>1, SameOffers DEF Genuine, Covered, Covers
<1>2. CASE ~(tries + 1 < Tries)
  BY <1>2, SkipCovers, HitsNext DEF Skip
<1> QED BY <1>1, <1>2

LEMMA HitsStep == RingInv /\ [RingNext]_ringVars => Genuine(hits)' /\ Covered(hits, visited)'
<1> SUFFICES ASSUME RingInv, [RingNext]_ringVars
             PROVE  Genuine(hits)' /\ Covered(hits, visited)'
  OBVIOUS
<1> USE DEF RingInv
<1>1. CASE RecordStep BY <1>1, HitsWriter
<1>2. CASE LoadSeq
  <2>1. UNCHANGED <<kind, ringWriter, wanted, first, seen>> BY <1>2 DEF LoadSeq
  <2>2. CASE seq[Here] % 2 = 1
    <3>1. Held(Here) = begun /\ begun = complete + 1 BY <2>2, Scanning, Marked
    <3>2. Held(Here) > seen BY <3>1, SMT DEF RingTypeOK, CopyInv
    <3> QED BY <1>2, <2>1, <2>2, <3>2, HitsSkip DEF LoadSeq
  <2>3. CASE seq[Here] % 2 # 1
    <3>1. UNCHANGED <<hits, visited>> BY <1>2, <2>3 DEF LoadSeq
    <3> QED BY <2>1, <3>1, SameOffers DEF Genuine, Covered, Covers
  <2> QED BY <2>2, <2>3
<1>3. ASSUME NEW f \in Field, CopyField(f)
      PROVE  Genuine(hits)' /\ Covered(hits, visited)'
  <2>1. UNCHANGED <<kind, ringWriter, wanted, first, seen, hits, visited>>
    BY <1>3 DEF CopyField
  <2> QED BY <2>1, SameOffers DEF Genuine, Covered, Covers
<1>4. CASE CheckSeq
  <2>1. UNCHANGED <<kind, ringWriter, wanted, first, seen>> /\ scan = "copy" /\ missing = {}
    BY <1>4 DEF CheckSeq
  <2>2. CASE seq[Here] = s1
    <3>1. Genuine(Counting(copied)) BY <2>1, <2>2, CountingGenuine
    <3>2. Covered(Counting(copied), visited + 1) BY <2>1, <2>2, CountingCovers
    <3> QED BY <1>4, <2>1, <2>2, <3>1, <3>2, HitsNext DEF CheckSeq
  <2>3. CASE seq[Here] # s1
    <3>1. Held(Here) > seen BY <2>1, <2>3 DEF CopyInv
    <3> QED BY <1>4, <2>1, <2>3, <3>1, HitsSkip DEF CheckSeq
  <2> QED BY <2>2, <2>3
<1>5. ASSUME NEW k \in Key, NEW oldest \in 0 .. begun + 1, BeginScan(k, oldest)
      PROVE  Genuine(hits)' /\ Covered(hits, visited)'
  <2>1. hits' = {} /\ visited' = 0 BY <1>5 DEF BeginScan
  <2>2. RingTypeOK' BY TypeStep
  <2>3. \A i \in Slot : Place(i)' \in 0 .. SIZE - 1
    <3>1. first' \in 0 .. SIZE - 1 BY <2>2 DEF RingTypeOK, Slot
    <3> QED BY <3>1, PlaceRange DEF Slot, Place
  <2> QED BY <2>1, <2>3 DEF Genuine, Covered
<1>6. CASE UNCHANGED ringVars
  <2>1. UNCHANGED <<kind, ringWriter, wanted, first, seen, hits, visited>>
    BY <1>6 DEF ringVars, ringReader
  <2> QED BY <2>1, SameOffers DEF Genuine, Covered, Covers
<1> QED BY <1>1, <1>2, <1>3, <1>4, <1>5, <1>6 DEF RingNext, ScanStep

-----------------------------------------------------------------------------
(***************************************************************************)
(* The theorems.                                                           *)
(***************************************************************************)

LEMMA RingInvInit == RingInit => RingInv
<1> SUFFICES ASSUME RingInit PROVE RingInv
  OBVIOUS
<1>1. 0 \in Slot BY SMT DEF Slot
<1>2. Nothing \in [Field -> Nat] /\ \A f \in Field : Nothing[f] = 0 BY DEF Nothing
<1>3. RingTypeOK BY <1>1, <1>2 DEF RingInit, RingTypeOK
<1>4. \A i \in Slot : Held(i) = 0
  BY <1>3, Writing DEF RingInit
<1>5. SlotsInv BY <1>2, <1>4, Parity DEF RingInit, SlotsInv, Recording
<1>6. CopyInv BY DEF RingInit, CopyInv
<1>7. Genuine(hits) BY DEF RingInit, Genuine
<1>8. Covered(hits, visited) BY <1>3, Scanning DEF RingInit, Covered
<1> QED BY <1>3, <1>5, <1>6, <1>7, <1>8 DEF RingInv

\* The inductive invariant of the rings of seqlocks.
THEOREM RingInvariance == RingSpec => []RingInv
<1>1. RingInv /\ [RingNext]_ringVars => RingInv'
  BY TypeStep, SlotsStep, CopyStep, HitsStep DEF RingInv
<1> QED BY <1>1, RingInvInit, PTL DEF RingSpec

\* No torn or mixed copy is ever used, by the lookup of recv_task_() or by the
\* dump, whatever the driver task or recv_task_() records meanwhile.
THEOREM WholeRecords == RingSpec => []WholeRecord
<1>1. RingInv => WholeRecord BY WholeCopy DEF RingInv, WholeRecord
<1> QED BY <1>1, RingInvariance, PTL

\* The end of a scan is one step of the atomic ring, which returns no match
\* older than one that was there all the while.
LEMMA ScanEnds ==
  ASSUME RingInv, NEW h, Genuine(h), Covered(h, SIZE), scan # "idle",
         scan' = "idle", result' = h, UNCHANGED <<kind, ringWriter, wanted, first, seen>>
  PROVE  Ring!EndScan
<1> USE DEF RingInv
<1> DEFINE times == {c[TimeField] : c \in h}
<1>1. UNCHANGED <<kind, keys, begun, complete, wanted, seen>> BY DEF ringWriter
<1>2. ASSUME NEW k \in Ring!Kept PROVE Covers(h, k)
  <2>1. k \in 1 .. seen /\ k + SIZE > begun BY DEF Ring!Kept
  <2>2. k \in 1 .. begun BY <2>1, SMT DEF RingTypeOK, SlotsInv, CopyInv
  <2>3. PICK i \in Slot : Held(i) = k BY <2>1, <2>2, HeldSomewhere
  <2>4. Place(i) < SIZE BY Scanning, SMT
  <2> QED BY <1>2, <2>3, <2>4 DEF Covered
<1>3. {c[TimeField] : c \in result}' = times OBVIOUS
<1>4. \A t \in times : t \in Ring!Offered BY DEF Genuine
<1>5. CASE kind = "hook"
  <2>1. CASE h = {}
    <3>1. Ring!Kept = {} BY <1>2, <2>1 DEF Covers
    <3> QED BY <1>1, <1>3, <1>5, <2>1, <3>1 DEF Ring!EndScan, Ring!EndLookup
  <2>2. ASSUME NEW c \in h PROVE Ring!EndScan
    <3>1. h = {c} /\ times = {c[TimeField]} BY <1>5 DEF Genuine
    <3>2. \A k \in Ring!Kept : k <= c[TimeField] BY <1>2, <1>5, <3>1 DEF Covers
    <3>3. c[TimeField] \in Ring!Offered BY <1>4
    <3> QED BY <1>1, <1>3, <1>5, <3>1, <3>2, <3>3 DEF Ring!EndScan, Ring!EndLookup
  <2> QED BY <2>1, <2>2
<1>6. CASE kind = "dump"
  <2>1. Ring!Kept \subseteq times BY <1>2, <1>6 DEF Covers
  <2>2. times \in SUBSET Ring!Offered BY <1>4
  <2> QED BY <1>1, <1>3, <1>6, <2>1, <2>2 DEF Ring!EndScan, Ring!EndDump
<1> QED BY <1>5, <1>6 DEF RingTypeOK

\* A scan ends behind the last slot; otherwise it goes on and nothing is seen.
LEMMA NextSlotImplements ==
  ASSUME RingInv, NEW h, Genuine(h), Covered(h, visited + 1), NextSlot(h), scan # "idle",
         UNCHANGED <<kind, ringWriter, wanted, first, seen>>
  PROVE  [Ring!Next]_(Ring!vars)
<1> USE DEF RingInv
<1>1. CASE visited + 1 < SIZE
  <2>1. scan' = "seq" /\ result' = result BY <1>1 DEF NextSlot
  <2> QED BY <2>1 DEF Ring!vars, ringWriter
<1>2. CASE ~(visited + 1 < SIZE)
  <2>1. visited + 1 = SIZE BY <1>2, SMT DEF RingTypeOK, Slot
  <2>2. scan' = "idle" /\ result' = h BY <1>2 DEF NextSlot
  <2>3. Ring!EndScan BY <2>1, <2>2, ScanEnds
  <2> QED BY <2>3 DEF Ring!Next
<1> QED BY <1>1, <1>2

LEMMA SkipImplements ==
  ASSUME RingInv, Genuine(hits), Covered(hits, visited), Held(Here) > seen, Skip,
         scan # "idle", UNCHANGED <<kind, ringWriter, wanted, first, seen>>
  PROVE  [Ring!Next]_(Ring!vars)
<1> USE DEF RingInv
<1>1. CASE tries + 1 < Tries
  <2>1. scan' = "seq" /\ result' = result BY <1>1 DEF Skip
  <2> QED BY <2>1 DEF Ring!vars, ringWriter
<1>2. CASE ~(tries + 1 < Tries)
  BY <1>2, SkipCovers, NextSlotImplements DEF Skip
<1> QED BY <1>1, <1>2

LEMMA StepImplements == RingInv /\ [RingNext]_ringVars => [Ring!Next]_(Ring!vars)
<1> SUFFICES ASSUME RingInv, [RingNext]_ringVars PROVE [Ring!Next]_(Ring!vars)
  OBVIOUS
<1> USE DEF RingInv
<1>1. ASSUME NEW k \in Key, BeginRecord(k) PROVE [Ring!Next]_(Ring!vars)
  <2>1. begun = complete BY <1>1 DEF BeginRecord, Recording
  <2>2. Ring!BeginRecord(k) BY <1>1, <2>1 DEF BeginRecord, Ring!BeginRecord, ringReader
  <2> QED BY <2>2 DEF Ring!Next
<1>2. ASSUME NEW f \in Field, WriteField(f) PROVE [Ring!Next]_(Ring!vars)
  BY <1>2 DEF WriteField, Ring!vars, ringReader
<1>3. CASE EndRecord
  <2>1. Ring!EndRecord BY <1>3 DEF EndRecord, Recording, Ring!EndRecord, ringReader
  <2> QED BY <2>1 DEF Ring!Next
<1>4. CASE LoadSeq
  <2>1. UNCHANGED <<kind, ringWriter, wanted, first, seen>> /\ scan # "idle"
    BY <1>4 DEF LoadSeq
  <2>2. CASE seq[Here] % 2 = 1
    <3>1. Held(Here) = begun /\ begun = complete + 1 BY <2>2, Scanning, Marked
    <3>2. Held(Here) > seen BY <3>1, SMT DEF RingTypeOK, CopyInv
    <3> QED BY <1>4, <2>1, <2>2, <3>2, SkipImplements DEF LoadSeq
  <2>3. CASE seq[Here] % 2 # 1
    <3>1. result' = result /\ scan' = "copy" BY <1>4, <2>3 DEF LoadSeq
    <3> QED BY <2>1, <3>1 DEF Ring!vars, ringWriter
  <2> QED BY <2>2, <2>3
<1>5. ASSUME NEW f \in Field, CopyField(f) PROVE [Ring!Next]_(Ring!vars)
  BY <1>5 DEF CopyField, Ring!vars, ringWriter
<1>6. CASE CheckSeq
  <2>1. UNCHANGED <<kind, ringWriter, wanted, first, seen>> /\ scan = "copy" /\ missing = {}
    BY <1>6 DEF CheckSeq
  <2>2. CASE seq[Here] = s1
    <3>1. Genuine(Counting(copied)) BY <2>1, <2>2, CountingGenuine
    <3>2. Covered(Counting(copied), visited + 1) BY <2>1, <2>2, CountingCovers
    <3> QED BY <1>6, <2>1, <2>2, <3>1, <3>2, NextSlotImplements DEF CheckSeq
  <2>3. CASE seq[Here] # s1
    <3>1. Held(Here) > seen BY <2>1, <2>3 DEF CopyInv
    <3> QED BY <1>6, <2>1, <2>3, <3>1, SkipImplements DEF CheckSeq
  <2> QED BY <2>2, <2>3
<1>7. ASSUME NEW k \in Key, NEW oldest \in 0 .. begun + 1, BeginScan(k, oldest)
      PROVE  [Ring!Next]_(Ring!vars)
  <2>1. Ring!BeginScan(k, oldest)
    BY <1>7 DEF BeginScan, Ring!BeginScan, ringWriter
  <2> QED BY <2>1 DEF Ring!Next
<1>8. CASE UNCHANGED ringVars
  BY <1>8 DEF ringVars, ringWriter, ringReader, Ring!vars
<1> QED BY <1>1, <1>2, <1>3, <1>4, <1>5, <1>6, <1>7, <1>8 DEF RingNext, RecordStep, ScanStep

\* The rings of seqlocks are the atomic ring: a request's own record is found
\* although the driver task goes on recording, until it is overwritten.
THEOREM RingImplementsAtomicRing == RingSpec => AtomicRingSpec
<1>1. RingInit => Ring!Init
  BY DEF RingInit, Ring!Init
<1> QED BY <1>1, StepImplements, RingInvariance, PTL DEF RingSpec, AtomicRingSpec, Ring!Spec
=============================================================================
