------------------------- MODULE AnchorSeqlockProofs -------------------------
(***************************************************************************)
(* The seqlock is an atomic register with failing reads, for any number of *)
(* readers, any layout of the anchor and any number of attempts.           *)
(***************************************************************************)
EXTENDS AnchorSeqlock, TLAPS

USE WordAssumption, AttemptsAssumption, PublishAssumption

\* The sequence number counts the halves of the publications, and between two
\* of them the anchor is the last one.
WriterInv ==
  /\ anchor_seq \in {2 * published, 2 * published + 1}
  /\ anchor_seq = 2 * published =>
       unwritten = {} /\ \A w \in Word : anchor_[w] = published
  /\ \A w \in Word \ unwritten : anchor_[w] = anchor_seq - published

\* What a reader has copied is of the publication in force, as long as the
\* sequence number is the one it started from.
CopyInv ==
  \A r \in Reader : pc[r] = "copy" =>
    /\ before[r] <= anchor_seq
    /\ ~Odd(before[r])
    /\ before[r] = anchor_seq =>
         \A w \in Word \ uncopied[r] : out[r][w] = published

\* A reader that met no publication has nothing to complain of.
DisturbedInv ==
  /\ disturbed \subseteq Reading
  /\ Publishing => Reading \subseteq disturbed
  /\ \A r \in Reader : pc[r] = "copy" /\ before[r] # anchor_seq => r \in disturbed

Inv == TypeOK /\ WriterInv /\ CopyInv /\ DisturbedInv

-----------------------------------------------------------------------------
\* An even number is not odd and the next one is.
LEMMA Parity == \A n \in Nat : ~Odd(2 * n) /\ Odd(2 * n + 1)
  BY SMT DEF Odd

\* A publication is under way exactly between the two increments.
LEMMA PublishingIsOdd ==
  ASSUME TypeOK, WriterInv
  PROVE  Publishing <=> anchor_seq = 2 * published + 1
<1>1. published \in Nat BY DEF TypeOK
<1>2. 2 * published # 2 * published + 1 BY <1>1
<1>3. ~Odd(2 * published) /\ Odd(2 * published + 1) BY <1>1, Parity
<1> QED BY <1>2, <1>3 DEF WriterInv, Publishing

-----------------------------------------------------------------------------
(***************************************************************************)
(* Type correctness.                                                       *)
(***************************************************************************)

\* A call that returns, or goes on, keeps the types.
LEMMA ReturnType ==
  ASSUME TypeOK, NEW r \in Reader, NEW result \in [ok : BOOLEAN, pair : Nat],
         Return(r, result)
  PROVE  /\ pc' \in [Reader -> {"idle", "load", "copy"}]
         /\ attempt' \in [Reader -> 0 .. Attempts - 1]
         /\ disturbed' \subseteq Reader
         /\ answer' \in [Reader -> [ok : BOOLEAN, pair : Nat]]
  BY DEF TypeOK, Return

LEMMA NextAttemptType ==
  ASSUME TypeOK, NEW r \in Reader, NextAttempt(r)
  PROVE  /\ pc' \in [Reader -> {"idle", "load", "copy"}]
         /\ attempt' \in [Reader -> 0 .. Attempts - 1]
         /\ disturbed' \subseteq Reader
         /\ answer' \in [Reader -> [ok : BOOLEAN, pair : Nat]]
<1>1. CASE attempt[r] + 1 < Attempts
  <2>1. attempt[r] \in 0 .. Attempts - 1 BY DEF TypeOK
  <2>2. attempt[r] + 1 \in 0 .. Attempts - 1 BY <1>1, <2>1
  <2> QED BY <1>1, <2>2 DEF TypeOK, NextAttempt
<1>2. CASE ~(attempt[r] + 1 < Attempts)
  <2>1. Failed \in [ok : BOOLEAN, pair : Nat] BY DEF Failed
  <2> QED BY <1>2, <2>1, ReturnType DEF NextAttempt
<1> QED BY <1>1, <1>2

LEMMA TypeStep == TypeOK /\ [Next]_vars => TypeOK'
<1> SUFFICES ASSUME TypeOK, [Next]_vars PROVE TypeOK'
  OBVIOUS
<1> USE DEF writer, readers, vars
<1>1. CASE BeginPublish
  <2>1. invalid' \subseteq Nat
    <3>1. published + 1 \in Nat /\ invalid \subseteq Nat BY DEF TypeOK
    <3>2. invalid' \in {invalid, invalid \cup {published + 1}} BY <1>1 DEF BeginPublish
    <3> QED BY <3>1, <3>2
  <2>2. disturbed' \subseteq Reader BY <1>1 DEF BeginPublish, Reading
  <2> QED BY <1>1, <2>1, <2>2 DEF TypeOK, BeginPublish
<1>2. CASE EndPublish
  BY <1>2 DEF TypeOK, EndPublish
<1>3. ASSUME NEW w \in Word, WriteWord(w) PROVE TypeOK'
  BY <1>3 DEF TypeOK, WriteWord
<1>4. ASSUME NEW r \in Reader, BeginRead(r) PROVE TypeOK'
  BY <1>4 DEF TypeOK, BeginRead
<1>5. ASSUME NEW r \in Reader, LoadBefore(r) PROVE TypeOK'
  <2>1. CASE Odd(anchor_seq)
    BY <1>5, <2>1, NextAttemptType DEF TypeOK, LoadBefore
  <2>2. CASE ~Odd(anchor_seq)
    BY <1>5, <2>2 DEF TypeOK, LoadBefore
  <2> QED BY <2>1, <2>2
<1>6. ASSUME NEW r \in Reader, NEW w \in Word, CopyWord(r, w) PROVE TypeOK'
  BY <1>6 DEF TypeOK, CopyWord
<1>7. ASSUME NEW r \in Reader, LoadAfter(r) PROVE TypeOK'
  <2>1. out[r][EpochWord] \in Nat BY DEF TypeOK
  <2>2. Failed \in [ok : BOOLEAN, pair : Nat] /\ Got(out[r][EpochWord]) \in [ok : BOOLEAN, pair : Nat]
    BY <2>1 DEF Failed, Got
  <2>3. CASE anchor_seq = before[r]
    BY <1>7, <2>2, <2>3, ReturnType DEF TypeOK, LoadAfter
  <2>4. CASE anchor_seq # before[r]
    BY <1>7, <2>4, NextAttemptType DEF TypeOK, LoadAfter
  <2> QED BY <2>3, <2>4
<1>8. CASE UNCHANGED vars
  BY <1>8 DEF TypeOK
<1> QED BY <1>1, <1>2, <1>3, <1>4, <1>5, <1>6, <1>7, <1>8 DEF Next, Publish, Read

LEMMA InvInit == Init => Inv
<1> SUFFICES ASSUME Init PROVE Inv
  OBVIOUS
<1>1. TypeOK
  <2>1. Failed \in [ok : BOOLEAN, pair : Nat] BY DEF Failed
  <2>2. 0 \in 0 .. Attempts - 1 OBVIOUS
  <2> QED BY <2>1, <2>2 DEF Init, TypeOK
<1>2. WriterInv BY DEF Init, WriterInv
<1>3. CopyInv BY DEF Init, CopyInv
<1>4. DisturbedInv
  <2>1. ~Publishing BY SMT DEF Init, Publishing, Odd
  <2> QED BY <2>1 DEF Init, DisturbedInv, Reading
<1> QED BY <1>1, <1>2, <1>3, <1>4 DEF Inv

-----------------------------------------------------------------------------
(***************************************************************************)
(* Each part of the invariant is kept.                                     *)
(***************************************************************************)

\* Only the writer's steps matter to the writer's part.
LEMMA WriterStep == TypeOK /\ WriterInv /\ [Next]_vars => WriterInv'
<1> SUFFICES ASSUME TypeOK, WriterInv, [Next]_vars PROVE WriterInv'
  OBVIOUS
<1> USE DEF writer, readers, vars
<1>1. CASE BeginPublish
  <2>1. anchor_seq = 2 * published
    BY <1>1, PublishingIsOdd DEF WriterInv, BeginPublish
  <2> QED BY <1>1, <2>1 DEF TypeOK, WriterInv, BeginPublish
<1>2. CASE EndPublish
  <2>1. anchor_seq = 2 * published + 1 BY <1>2, PublishingIsOdd DEF EndPublish
  <2>2. anchor_seq' = 2 * published' /\ published' = published + 1
    BY <1>2, <2>1 DEF TypeOK, EndPublish
  <2>3. \A w \in Word : anchor_[w] = published + 1
    BY <1>2, <2>1 DEF TypeOK, WriterInv, EndPublish
  <2>4. anchor_seq' - published' = published + 1 BY <2>2 DEF TypeOK
  <2>5. anchor_' = anchor_ /\ unwritten' = {} BY <1>2 DEF EndPublish
  <2> QED BY <2>2, <2>3, <2>4, <2>5 DEF WriterInv
<1>3. ASSUME NEW w \in Word, WriteWord(w) PROVE WriterInv'
  <2>1. anchor_seq # 2 * published BY <1>3 DEF WriterInv, WriteWord
  <2>2. anchor_seq - published = published + 1 BY <2>1 DEF TypeOK, WriterInv
  <2>3. anchor_' = [anchor_ EXCEPT ![w] = published + 1] /\ unwritten' = unwritten \ {w}
    BY <1>3 DEF WriteWord
  <2>4. \A v \in Word \ unwritten' : anchor_'[v] = anchor_seq - published
    BY <2>2, <2>3 DEF TypeOK, WriterInv
  <2> QED BY <1>3, <2>1, <2>4 DEF WriterInv, WriteWord
<1>4. CASE UNCHANGED writer
  BY <1>4 DEF WriterInv
<1> QED
  BY <1>1, <1>2, <1>3, <1>4
  DEF Next, Publish, Read, BeginRead, LoadBefore, CopyWord, LoadAfter

\* What CopyInv says of one reader.
CopyOK(r) ==
  pc[r] = "copy" =>
    /\ before[r] <= anchor_seq
    /\ ~Odd(before[r])
    /\ before[r] = anchor_seq => \A w \in Word \ uncopied[r] : out[r][w] = published

\* A reader that does not move: the sequence number only grows, and while it
\* stands still so does the publication in force.
LEMMA CopyOther ==
  ASSUME TypeOK, WriterInv, Publish, NEW r \in Reader, CopyOK(r)
  PROVE  CopyOK(r)'
<1> USE DEF writer, readers
<1>1. UNCHANGED readers
  BY DEF Publish, BeginPublish, EndPublish, WriteWord
<1>2. before[r] \in Nat /\ anchor_seq \in Nat /\ published \in Nat BY DEF TypeOK
<1>3. CASE anchor_seq' = anchor_seq + 1
  BY <1>1, <1>2, <1>3 DEF CopyOK
<1>4. CASE UNCHANGED <<anchor_seq, published>>
  BY <1>1, <1>4 DEF CopyOK
<1> QED BY <1>3, <1>4 DEF Publish, BeginPublish, EndPublish, WriteWord

\* A reader that moves.
LEMMA CopySelf ==
  ASSUME TypeOK, WriterInv, NEW r \in Reader, CopyOK(r), BeginRead(r) \/ Read(r)
  PROVE  CopyOK(r)'
<1> USE DEF writer, CopyOK
<1>1. CASE BeginRead(r)
  BY <1>1 DEF TypeOK, BeginRead
<1>2. ASSUME NextAttempt(r) PROVE pc'[r] # "copy"
  BY <1>2 DEF TypeOK, NextAttempt, Return
<1>3. CASE LoadBefore(r)
  <2>1. CASE Odd(anchor_seq)
    BY <1>2, <1>3, <2>1 DEF LoadBefore
  <2>2. CASE ~Odd(anchor_seq)
    <3>1. before'[r] = anchor_seq /\ anchor_seq' = anchor_seq /\ uncopied'[r] = Word
      BY <1>3, <2>2 DEF TypeOK, LoadBefore
    <3> QED BY <2>2, <3>1 DEF TypeOK
  <2> QED BY <2>1, <2>2
<1>4. ASSUME NEW w \in Word, CopyWord(r, w) PROVE CopyOK(r)'
  <2>1. /\ out'[r] = [out[r] EXCEPT ![w] = anchor_[w]]
        /\ uncopied'[r] = uncopied[r] \ {w}
        /\ UNCHANGED <<anchor_seq, published, before>>
        /\ pc[r] = "copy"
    BY <1>4 DEF TypeOK, CopyWord
  <2>2. ASSUME before[r] = anchor_seq PROVE anchor_[w] = published
    <3>1. ~Odd(anchor_seq) BY <2>1, <2>2
    <3>2. anchor_seq = 2 * published
      BY <3>1, PublishingIsOdd DEF WriterInv, Publishing
    <3> QED BY <3>2 DEF WriterInv
  <2>3. ASSUME before[r] = anchor_seq, NEW v \in Word \ uncopied'[r]
        PROVE  out'[r][v] = published
    <3>1. out[r] \in [Word -> Nat] BY DEF TypeOK
    <3>2. CASE v = w BY <2>1, <2>2, <2>3, <3>1, <3>2
    <3>3. CASE v # w BY <2>1, <2>3, <3>1, <3>3
    <3> QED BY <3>2, <3>3
  <2> QED BY <2>1, <2>3
<1>5. CASE LoadAfter(r)
  <2>1. pc'[r] # "copy"
    <3>1. CASE anchor_seq = before[r] BY <1>5, <3>1 DEF TypeOK, LoadAfter, Return
    <3>2. CASE anchor_seq # before[r] BY <1>2, <1>5, <3>2 DEF LoadAfter
    <3> QED BY <3>1, <3>2
  <2> QED BY <2>1
<1> QED BY <1>1, <1>3, <1>4, <1>5 DEF Read

\* A reader's step changes nothing of another reader.
LEMMA ReaderFrame ==
  ASSUME TypeOK, NEW r \in Reader, BeginRead(r) \/ Read(r), NEW q \in Reader, q # r
  PROVE  /\ UNCHANGED writer
         /\ pc'[q] = pc[q] /\ before'[q] = before[q] /\ uncopied'[q] = uncopied[q]
         /\ out'[q] = out[q]
         /\ (q \in disturbed => q \in disturbed')
<1> USE DEF TypeOK
<1>1. ASSUME NextAttempt(r)
      PROVE  pc'[q] = pc[q] /\ (q \in disturbed => q \in disturbed')
  BY <1>1 DEF NextAttempt, Return
<1>2. CASE BeginRead(r) BY <1>2 DEF BeginRead
<1>3. CASE LoadBefore(r) BY <1>1, <1>3 DEF LoadBefore
<1>4. ASSUME NEW w \in Word, CopyWord(r, w)
      PROVE  /\ UNCHANGED writer
             /\ pc'[q] = pc[q] /\ before'[q] = before[q] /\ uncopied'[q] = uncopied[q]
             /\ out'[q] = out[q]
             /\ (q \in disturbed => q \in disturbed')
  BY <1>4 DEF CopyWord
<1>5. CASE LoadAfter(r) BY <1>1, <1>5 DEF LoadAfter, Return
<1> QED BY <1>2, <1>3, <1>4, <1>5 DEF Read

LEMMA CopyStep == TypeOK /\ WriterInv /\ CopyInv /\ [Next]_vars => CopyInv'
<1> SUFFICES ASSUME TypeOK, WriterInv, CopyInv, [Next]_vars, NEW q \in Reader
             PROVE  CopyOK(q)'
  BY DEF CopyInv, CopyOK
<1>1. CopyOK(q) BY DEF CopyInv, CopyOK
<1>2. CASE Publish BY <1>1, <1>2, CopyOther
<1>3. ASSUME NEW r \in Reader, BeginRead(r) \/ Read(r) PROVE CopyOK(q)'
  <2>1. CASE q = r BY <1>1, <1>3, <2>1, CopySelf
  <2>2. CASE q # r
    <3>1. /\ UNCHANGED writer /\ pc'[q] = pc[q] /\ before'[q] = before[q]
          /\ uncopied'[q] = uncopied[q] /\ out'[q] = out[q]
      BY <1>3, <2>2, ReaderFrame
    <3> QED BY <1>1, <3>1 DEF CopyOK, writer
  <2> QED BY <2>1, <2>2
<1>4. CASE UNCHANGED vars
  BY <1>1, <1>4 DEF vars, writer, readers, CopyOK
<1> QED BY <1>2, <1>3, <1>4 DEF Next

\* What DisturbedInv says of one reader.
DisturbedOK(r) ==
  /\ r \in disturbed => pc[r] # "idle"
  /\ Publishing /\ pc[r] # "idle" => r \in disturbed
  /\ pc[r] = "copy" /\ before[r] # anchor_seq => r \in disturbed

LEMMA DisturbedByReader ==
  DisturbedInv <=> disturbed \subseteq Reader /\ \A r \in Reader : DisturbedOK(r)
  BY DEF DisturbedInv, DisturbedOK, Reading

LEMMA DisturbedSelf ==
  ASSUME TypeOK, NEW r \in Reader, DisturbedOK(r), BeginRead(r) \/ Read(r)
  PROVE  DisturbedOK(r)'
<1> USE DEF TypeOK, writer
<1>1. anchor_seq' = anchor_seq /\ (Publishing <=> Publishing')
  BY DEF Read, BeginRead, LoadBefore, CopyWord, LoadAfter, Publishing
<1>2. ASSUME NEW result, Return(r, result)
      PROVE  pc'[r] = "idle" /\ r \notin disturbed'
  BY <1>2 DEF Return
<1>3. ASSUME NextAttempt(r)
      PROVE  \/ pc'[r] = "load" /\ disturbed' = disturbed
             \/ pc'[r] = "idle" /\ r \notin disturbed'
  BY <1>2, <1>3 DEF NextAttempt
<1>4. CASE BeginRead(r)
  BY <1>1, <1>4 DEF BeginRead, DisturbedOK
<1>5. CASE LoadBefore(r)
  <2>1. CASE Odd(anchor_seq)
    BY <1>1, <1>3, <1>5, <2>1 DEF LoadBefore, DisturbedOK, Publishing
  <2>2. CASE ~Odd(anchor_seq)
    BY <1>1, <1>5, <2>2 DEF LoadBefore, DisturbedOK, Publishing
  <2> QED BY <2>1, <2>2
<1>6. ASSUME NEW w \in Word, CopyWord(r, w) PROVE DisturbedOK(r)'
  BY <1>1, <1>6 DEF CopyWord, DisturbedOK
<1>7. CASE LoadAfter(r)
  <2>1. CASE anchor_seq = before[r]
    BY <1>1, <1>2, <1>7, <2>1 DEF LoadAfter, DisturbedOK
  <2>2. CASE anchor_seq # before[r]
    <3>1. pc[r] = "copy" /\ NextAttempt(r) BY <1>7, <2>2 DEF LoadAfter
    <3>2. r \in disturbed BY <2>2, <3>1 DEF DisturbedOK
    <3> QED BY <1>1, <1>3, <3>1, <3>2 DEF DisturbedOK
  <2> QED BY <2>1, <2>2
<1> QED BY <1>4, <1>5, <1>6, <1>7 DEF Read

\* The readers that met a publication are marked, and no others go.
LEMMA DisturbedStep == TypeOK /\ WriterInv /\ DisturbedInv /\ [Next]_vars => DisturbedInv'
<1> SUFFICES ASSUME TypeOK, WriterInv, DisturbedInv, [Next]_vars PROVE DisturbedInv'
  OBVIOUS
<1> USE DEF writer, readers
<1>1. TypeOK' BY TypeStep
<1>2. CASE BeginPublish
  <2>1. disturbed' = Reading /\ UNCHANGED readers BY <1>2 DEF BeginPublish
  <2>2. Reading' = Reading BY <2>1 DEF Reading
  <2>3. \A r \in Reader : pc'[r] = "copy" => r \in Reading' BY DEF Reading
  <2> QED BY <2>1, <2>2, <2>3 DEF DisturbedInv
<1>3. CASE EndPublish
  <2>1. Reading' = Reading /\ disturbed' = disturbed /\ pc' = pc
    BY <1>3 DEF EndPublish, Reading
  <2>2. Reading \subseteq disturbed BY <1>3 DEF EndPublish, DisturbedInv
  <2>3. \A r \in Reader : pc'[r] = "copy" => r \in Reading' BY DEF Reading
  <2> QED BY <2>1, <2>2, <2>3 DEF DisturbedInv
<1>4. ASSUME UNCHANGED <<anchor_seq, readers, disturbed>> PROVE DisturbedInv'
  BY <1>4 DEF DisturbedInv, Reading, Publishing
<1>5. ASSUME NEW w \in Word, WriteWord(w) PROVE DisturbedInv'
  BY <1>4, <1>5 DEF WriteWord
<1>6. ASSUME NEW r \in Reader, BeginRead(r) \/ Read(r) PROVE DisturbedInv'
  <2>1. anchor_seq' = anchor_seq /\ (Publishing <=> Publishing')
    BY <1>6 DEF Read, BeginRead, LoadBefore, CopyWord, LoadAfter, Publishing
  <2>2. ASSUME NEW q \in Reader PROVE DisturbedOK(q)'
    <3>1. DisturbedOK(q) BY DisturbedByReader
    <3>2. CASE q = r BY <1>6, <3>1, <3>2, DisturbedSelf
    <3>3. CASE q # r
      <4>1. /\ pc'[q] = pc[q] /\ before'[q] = before[q]
            /\ (q \in disturbed => q \in disturbed')
        BY <1>6, <3>3, ReaderFrame
      <4>2. q \in disturbed' => q \in disturbed
        BY <1>6, <3>3 DEF Read, BeginRead, LoadBefore, CopyWord, LoadAfter, NextAttempt, Return
      <4> QED BY <2>1, <3>1, <4>1, <4>2 DEF DisturbedOK
    <3> QED BY <3>2, <3>3
  <2>3. disturbed' \subseteq Reader BY <1>1 DEF TypeOK
  <2>4. DisturbedInv' <=> disturbed' \subseteq Reader /\ \A q \in Reader : DisturbedOK(q)'
    BY DEF DisturbedInv, DisturbedOK, Reading
  <2> QED BY <2>2, <2>3, <2>4
<1>7. CASE UNCHANGED vars BY <1>4, <1>7 DEF vars
<1> QED BY <1>2, <1>3, <1>5, <1>6, <1>7 DEF Next, Publish

-----------------------------------------------------------------------------
(***************************************************************************)
(* The theorems.                                                           *)
(***************************************************************************)

\* The invariant holds of every behaviour.
LEMMA InvHolds == Spec => []Inv
<1>1. Init => Inv BY InvInit
<1>2. Inv /\ [Next]_vars => Inv'
  BY TypeStep, WriterStep, CopyStep, DisturbedStep DEF Inv
<1> QED BY <1>1, <1>2, PTL DEF Spec

\* A copy that get_pps_anchor() accepts is never torn and never stale, however
\* many tasks read and wherever the main loop is in publishing the next pair.
THEOREM ReadsAreWhole == Spec => []WholeRead
<1>1. Inv => WholeRead BY DEF Inv, CopyInv, WholeRead
<1> QED BY <1>1, InvHolds, PTL

\* A failed call either found the pair withdrawn or met a publication.
LEMMA ReturnsAtomically ==
  ASSUME Inv, NEW r \in Reader, LoadAfter(r), anchor_seq = before[r]
  PROVE  /\ ~Publishing
         /\ out[r][EpochWord] = published
<1>1. pc[r] = "copy" /\ uncopied[r] = {} BY DEF LoadAfter
<1>2. ~Odd(anchor_seq) BY <1>1 DEF Inv, CopyInv
<1>3. out[r][EpochWord] = published BY <1>1 DEF Inv, CopyInv
<1> QED BY <1>2, <1>3 DEF Publishing

LEMMA AtomicStep == Inv /\ [Next]_vars => [Atomic!Next]_(Atomic!vars)
<1> SUFFICES ASSUME Inv, [Next]_vars PROVE [Atomic!Next]_(Atomic!vars)
  OBVIOUS
<1> USE DEF writer, readers, vars
<1> DEFINE Stutter == UNCHANGED <<published, invalid, Publishing, Reading, disturbed, answer>>
<1>1. Stutter => [Atomic!Next]_(Atomic!vars) BY DEF Atomic!vars
<1>2. TypeOK BY DEF Inv
<1> HIDE DEF Stutter
<1>3. CASE BeginPublish
  <2>1. Atomic!BeginPublish
    <3>1. ~Publishing /\ published < MaxPublish BY <1>3 DEF BeginPublish
    <3>2. Publishing'
      <4>1. anchor_seq = 2 * published
        BY <1>2, <3>1, PublishingIsOdd DEF Inv, WriterInv
      <4>2. anchor_seq' = 2 * published + 1 BY <1>3, <4>1 DEF BeginPublish
      <4> QED BY <1>2, <4>2, Parity DEF TypeOK, Publishing
    <3>3. Reading' = Reading BY <1>3 DEF BeginPublish, Reading
    <3> QED BY <1>3, <3>1, <3>2, <3>3 DEF Atomic!BeginPublish, BeginPublish
  <2> QED BY <2>1 DEF Atomic!Next
<1>4. CASE EndPublish
  <2>1. Atomic!EndPublish
    <3>1. ~Publishing'
      <4>1. anchor_seq = 2 * published + 1
        BY <1>2, <1>4, PublishingIsOdd DEF Inv, EndPublish
      <4>2. anchor_seq' = 2 * published' /\ published' \in Nat
        BY <1>2, <1>4, <4>1 DEF TypeOK, EndPublish
      <4> QED BY <4>2, Parity DEF Publishing
    <3>2. Reading' = Reading BY <1>4 DEF EndPublish, Reading
    <3> QED BY <1>4, <3>1, <3>2 DEF Atomic!EndPublish, EndPublish
  <2> QED BY <2>1 DEF Atomic!Next
<1>5. ASSUME NEW w \in Word, WriteWord(w) PROVE Stutter
  BY <1>5 DEF WriteWord, Publishing, Reading, Stutter
<1>6. ASSUME NEW r \in Reader, BeginRead(r) PROVE Atomic!BeginRead(r)
  <2>1. r \notin Reading /\ Reading' = Reading \cup {r}
    BY <1>2, <1>6 DEF TypeOK, BeginRead, Reading
  <2> QED BY <1>6, <2>1 DEF BeginRead, Atomic!BeginRead, Publishing
<1>7. ASSUME NEW r \in Reader, r \in Reading, Return(r, Failed), UNCHANGED writer,
             \/ r \in disturbed
             \/ ~Publishing /\ published \in invalid
      PROVE  Atomic!EndRead(r)
  <2>1. Reading' = Reading \ {r} BY <1>2, <1>7 DEF TypeOK, Return, Reading
  <2>2. Publishing' = Publishing BY <1>7 DEF Publishing
  <2>3. Failed = Atomic!Failed BY DEF Failed, Atomic!Failed
  <2> QED BY <1>7, <2>1, <2>2, <2>3 DEF Return, Atomic!EndRead
<1>8. ASSUME NEW r \in Reader, r \in Reading, r \in disturbed, NextAttempt(r), UNCHANGED writer
      PROVE  Stutter \/ Atomic!EndRead(r)
  <2>1. CASE attempt[r] + 1 < Attempts
    <3>1. pc' = [pc EXCEPT ![r] = "load"] /\ UNCHANGED <<answer, disturbed>>
      BY <1>8, <2>1 DEF NextAttempt
    <3>2. Reading' = Reading BY <1>2, <1>8, <3>1 DEF TypeOK, Reading
    <3> QED BY <1>8, <3>1, <3>2 DEF Stutter, Publishing
  <2>2. CASE ~(attempt[r] + 1 < Attempts)
    BY <1>7, <1>8, <2>2 DEF NextAttempt
  <2> QED BY <2>1, <2>2
<1>9. ASSUME NEW r \in Reader, LoadBefore(r) PROVE Stutter \/ Atomic!EndRead(r)
  <2>1. r \in Reading /\ UNCHANGED writer BY <1>9 DEF LoadBefore, Reading
  <2>2. CASE Odd(anchor_seq)
    <3>1. r \in disturbed BY <2>1, <2>2 DEF Inv, DisturbedInv, Publishing
    <3> QED BY <1>8, <1>9, <2>1, <2>2, <3>1 DEF LoadBefore
  <2>3. CASE ~Odd(anchor_seq)
    <3>1. pc' = [pc EXCEPT ![r] = "copy"] /\ UNCHANGED <<answer, disturbed>>
      BY <1>9, <2>3 DEF LoadBefore
    <3>2. Reading' = Reading BY <1>2, <2>1, <3>1 DEF TypeOK, Reading
    <3> QED BY <2>1, <3>1, <3>2 DEF Stutter, Publishing
  <2> QED BY <2>2, <2>3
<1>10. ASSUME NEW r \in Reader, NEW w \in Word, CopyWord(r, w) PROVE Stutter
  BY <1>10 DEF CopyWord, Publishing, Reading, Stutter
<1>11. ASSUME NEW r \in Reader, LoadAfter(r) PROVE Stutter \/ Atomic!EndRead(r)
  <2>1. r \in Reading /\ UNCHANGED writer BY <1>11 DEF LoadAfter, Reading
  <2>2. CASE anchor_seq = before[r]
    <3>1. ~Publishing /\ out[r][EpochWord] = published BY <1>11, <2>2, ReturnsAtomically
    <3>2. CASE published \in invalid
      <4>1. Return(r, Failed) BY <1>11, <2>2, <3>1, <3>2 DEF LoadAfter
      <4> QED BY <1>7, <2>1, <3>1, <3>2, <4>1
    <3>3. CASE published \notin invalid
      <4>1. Return(r, Got(published)) BY <1>11, <2>2, <3>1, <3>3 DEF LoadAfter
      <4>2. Reading' = Reading \ {r} BY <1>2, <4>1 DEF TypeOK, Return, Reading
      <4>3. Publishing' = Publishing BY <2>1 DEF Publishing
      <4>4. Got(published) = Atomic!Got(published) BY DEF Got, Atomic!Got
      <4> QED BY <2>1, <3>1, <3>3, <4>1, <4>2, <4>3, <4>4 DEF Return, Atomic!EndRead
    <3> QED BY <3>2, <3>3
  <2>3. CASE anchor_seq # before[r]
    <3>1. r \in disturbed BY <1>11, <2>3 DEF Inv, DisturbedInv, LoadAfter
    <3> QED BY <1>8, <1>11, <2>1, <2>3, <3>1 DEF LoadAfter
  <2> QED BY <2>2, <2>3
<1>12. CASE UNCHANGED vars
  BY <1>1, <1>12 DEF Stutter, Publishing, Reading
<1> QED
  BY <1>1, <1>3, <1>4, <1>5, <1>6, <1>9, <1>10, <1>11, <1>12
  DEF Next, Publish, Read, Atomic!Next

\* The seqlock implements the atomic anchor: a call returns the pair in force,
\* or fails because there is none or because it met a publication.
THEOREM SeqlockIsAtomic == Spec => AtomicSpec
<1>1. Init => Atomic!Init
  <2> SUFFICES ASSUME Init PROVE Atomic!Init
    OBVIOUS
  <2>1. ~Publishing BY SMT DEF Init, Publishing, Odd
  <2>2. Reading = {} BY DEF Init, Reading
  <2> QED BY <2>1, <2>2 DEF Init, Atomic!Init, Failed, Atomic!Failed
<1>2. Inv /\ [Next]_vars => [Atomic!Next]_(Atomic!vars) BY AtomicStep
<1> QED BY <1>1, <1>2, InvHolds, PTL DEF Spec, AtomicSpec, Atomic!Spec
=============================================================================
