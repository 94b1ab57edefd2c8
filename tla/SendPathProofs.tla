---------------------------- MODULE SendPathProofs ----------------------------
(***************************************************************************)
(* The way of a reply out, for any number of replies, other frames,        *)
(* failures and toggles, and wherever the ring ends.                       *)
(*                                                                         *)
(* What is learned: recv_task_() reads the stamps while another task may   *)
(* be writing them.  The argument is about order: the class is written     *)
(* first and the number last, the time is read first and the class after   *)
(* the number; so a stamp that looks like a reply's and is newer than      *)
(* `before' was the reply's own when its time was read.  It holds as long  *)
(* as lwIP's thread does not transmit a queued reply at the same time,     *)
(* which looks like a reply's, too.                                        *)
(*                                                                         *)
(* What leaves: the tracked header is that of the frame being transmitted  *)
(* or empty, because every SEND drops it.                                  *)
(*                                                                         *)
(* What the estimate makes of the samples, for every weight, step and span *)
(* and any number of paths: a run of rejects is of one kind of sends.      *)
(***************************************************************************)
EXTENDS SendPath, Estimators, TLAPS

USE SendAssumption DEF SendAssumption

Class == {"NTP", "OTHER"}

\* The steps of a transmission, in groups.
Writing    == {"first", "second"}
Patching   == {"SEND", "callback", "crashed", "t3", "csum", "restore", "untrack"}
Publishing == {"class", "patch_us", "patched", "us", "seq", "transfer"}
Busy == tpc \in Writing \cup Patching \cup Publishing

\* The steps of recv_task_() after sendto().
Reading == {"us", "seq", "class", "patch_us", "patched", "learn"}

StampType ==
  [us : Nat, seq : Nat, class : Class, patch_us : Nat, patched : BOOLEAN]

\* How many frames have been begun, at least: the number of the last one.
Begun == count.replies + count.others

PathTypeOK ==
  /\ tpc \in {"idle"} \cup Writing \cup Patching \cup Publishing
  /\ out \in [id : Nat, class : Class, cut : CutPlaces]
  /\ patch \in [ok : BOOLEAN, of : Nat, patched : BOOLEAN]
  /\ last_tx_class \in Class
  /\ stamp \in StampType /\ after \in StampType
  /\ rpc \in {"before", "sendto", "sending"} \cup Reading
  /\ mine \in Nat /\ before \in Nat
  /\ learned \in [send : Nat, patch_us : Nat, patch_send : Nat]
  /\ queued \subseteq Nat /\ overlapped \in BOOLEAN
  /\ count \in [replies : Nat, others : Nat, fails : Nat, toggles : Nat]

-----------------------------------------------------------------------------
(***************************************************************************)
(* What is learned.                                                        *)
(***************************************************************************)

\* Frames are numbered as they are handed over.  A reply on its way is the one that
\* recv_task_() is sending, or one that was queued.
Numbered ==
  /\ mine <= Begun /\ out.id <= Begun
  /\ \A id \in queued : id > 0 /\ id <= Begun
  /\ Busy => out.id > 0
  /\ Busy /\ rpc = "sending" /\ ~overlapped => out.id >= mine
  /\ Busy /\ rpc \in Reading /\ ~overlapped => out.id > mine
  /\ Busy /\ out.class = "NTP" =>
       rpc = "before" \/ overlapped \/ (rpc = "sending" /\ out.id = mine)

\* The class that is published is the frame's: the last part that the taps saw
\* was one of its own.
Classified ==
  /\ tpc = "second" /\ out.cut # "head" => last_tx_class = out.class
  /\ tpc \in Patching \cup {"class"} => (last_tx_class = "NTP" => out.class = "NTP")

\* How far the publication has come.
Published ==
  /\ tpc \in Publishing \ {"class"} => (stamp.class = "NTP" => out.class = "NTP")
  /\ tpc \in Publishing \ {"class", "patch_us"} => stamp.patch_us \in {0, out.id}
  /\ tpc \in {"seq", "transfer"} => stamp.us = out.id

\* A stamp that looks like that of the reply just sent.
LooksOurs == stamp.class = "NTP" /\ stamp.seq # before

\* It is: before sendto() there is none; then it is the reply's, or about to be.
StampOurs ==
  /\ rpc # "before" => stamp.seq >= before
  /\ rpc = "sendto" /\ ~overlapped => ~LooksOurs
  /\ (rpc = "sending" \/ rpc \in Reading) /\ ~overlapped =>
       (LooksOurs =>
          \/ mine # 0 /\ stamp.us = mine /\ stamp.patch_us \in {0, mine}
          \/ rpc = "sending" /\ out.class = "NTP" /\ tpc \in {"patch_us", "patched", "us"})

\* What recv_task_() has read, as far as it has come.
ReadOurs ==
  /\ rpc \in {"seq", "class"} /\ ~overlapped => (LooksOurs => after.us = mine)
  /\ rpc \in Reading \ {"us", "seq"} => after.seq >= before /\ stamp.seq >= after.seq
  /\ rpc \in {"patch_us", "patched", "learn"} /\ ~overlapped =>
       (FromOurSend => after.us = mine)
  /\ rpc = "patch_us" /\ ~overlapped =>
       (FromOurSend => stamp.patch_us \in {0, mine} \/ stamp.patch_us > mine)
  /\ rpc \in {"patched", "learn"} /\ ~overlapped =>
       (FromOurSend => after.patch_us \in {0, mine} \/ after.patch_us > mine)

LearnInv ==
  /\ PathTypeOK /\ Numbered /\ Classified /\ Published /\ StampOurs /\ ReadOurs
  /\ LearnsOwnSend /\ PatchDelayIsOwn

-----------------------------------------------------------------------------
(***************************************************************************)
(* What leaves.                                                            *)
(***************************************************************************)

PartType == [id : Nat, class : Class, at : {"begin", "rest"}, whole : BOOLEAN]

\* The tracked header consists of parts of frames.
HdrTypeOK == hdr \in Seq(PartType) /\ started \in BOOLEAN

\* The tracked header is the current frame's, and between a SEND and the next
\* write there is none.
Tracking ==
  /\ hdr # << >> => hdr[1].id = out.id /\ hdr[1].class = out.class
  /\ tpc \in {"idle", "first"} \cup Publishing => hdr = << >> /\ ~started

AsBuilt == mem.t3 = "built" /\ mem.csum = "built"
AsPatched == out.class = "NTP" /\ mem.t3 = "new" /\ mem.csum = "new"
HalfPatched == mem.t3 = "new" /\ mem.csum = "built"

\* The frame in the chip's buffer at every step.
Buffered ==
  /\ mem \in [t3 : {"built", "new", "overwritten", "wrong"},
              csum : {"built", "new", "overwritten", "wrong", "half"}, class : Class]
  /\ mem.class = out.class
  /\ tpc \in {"callback", "t3", "csum", "restore"} => patch.of = out.id /\ out.class = "NTP"
  /\ tpc \in {"idle", "SEND", "callback", "t3"} \cup Writing => AsBuilt
  /\ tpc \in {"csum", "restore"} => HalfPatched
  /\ tpc = "restore" => count.fails >= 1
  /\ tpc \in {"untrack"} \cup Publishing => AsBuilt \/ AsPatched

\* Where the frame is cut is somewhere the ring may end.
Cut == out.cut \in Cuts \cup {"none"}

LeaveInv == PathTypeOK /\ HdrTypeOK /\ Cut /\ Tracking /\ Buffered /\ FramesIntact

-----------------------------------------------------------------------------
(***************************************************************************)
(* Types.                                                                  *)
(***************************************************************************)

\* A count goes up by one.
LEMMA OneMoreType ==
  ASSUME PathTypeOK, NEW what \in {"replies", "others", "fails", "toggles"}
  PROVE  /\ OneMore(what) \in [replies : Nat, others : Nat, fails : Nat, toggles : Nat]
         /\ OneMore(what)[what] = count[what] + 1
         /\ \A w \in {"replies", "others", "fails", "toggles"} \ {what} :
              OneMore(what)[w] = count[w]
  BY DEF PathTypeOK, OneMore

\* A frame that is given up leaves the types alone.
LEMMA AbortsType ==
  ASSUME PathTypeOK, Aborts
  PROVE  /\ tpc' = "idle" /\ out' = NoOut /\ patch' = NoPatch
         /\ out' \in [id : Nat, class : Class, cut : CutPlaces]
         /\ patch' \in [ok : BOOLEAN, of : Nat, patched : BOOLEAN]
         /\ count' \in [replies : Nat, others : Nat, fails : Nat, toggles : Nat]
         /\ count'.replies = count.replies /\ count'.others = count.others
         /\ count'.fails = count.fails + 1
  BY OneMoreType DEF Aborts, NoOut, NoPatch, Class, CutPlaces

\* The header's first part, if it is to be patched, is one of a frame.
LEMMA PlannedType ==
  ASSUME hdr \in Seq(PartType), PlanOk(hdr)
  PROVE  hdr[1] \in PartType /\ hdr[1].id \in Nat /\ hdr[1].class = "NTP"
<1>1. Len(hdr) > 0 BY DEF PlanOk
<1>2. hdr[1] \in PartType BY <1>1
<1> QED BY <1>2 DEF PlanOk, PartType

\* A tap keeps the types.
LEMMA TapType ==
  ASSUME PathTypeOK, HdrTypeOK, NEW at \in {"begin", "rest"}, TapWrite(Part(at))
  PROVE  HdrTypeOK' /\ last_tx_class' \in Class
<1>1. Part(at) \in PartType BY DEF Part, PartType, PathTypeOK
<1>2. <<Part(at)>> \in Seq(PartType) /\ Append(hdr, Part(at)) \in Seq(PartType)
  BY <1>1 DEF HdrTypeOK
<1>3. HdrTypeOK' BY <1>2 DEF HdrTypeOK, TapWrite, Tracked
<1>4. last_tx_class' \in Class
  BY <1>1 DEF TapWrite, LooksLike, PartType, Class
<1> QED BY <1>3, <1>4

\* Only the taps, the end of a SEND and the main task touch the tracking.
LEMMA HdrTypeStep == PathTypeOK /\ HdrTypeOK /\ [PathNext]_spvars => HdrTypeOK'
<1> SUFFICES ASSUME PathTypeOK, HdrTypeOK, [PathNext]_spvars PROVE HdrTypeOK'
  OBVIOUS
<1>1. CASE UNCHANGED <<started, hdr>> BY <1>1 DEF HdrTypeOK
<1>2. CASE ToggleResets \/ Untrack
  <2>1. hdr' = << >> /\ started' = FALSE BY <1>2 DEF ToggleResets, Untrack
  <2>2. << >> \in Seq(PartType) OBVIOUS
  <2> QED BY <2>1, <2>2 DEF HdrTypeOK
<1>3. CASE WriteFirst BY <1>1, <1>3, TapType DEF WriteFirst, track
<1>4. CASE WriteSecond BY <1>1, <1>4, TapType DEF WriteSecond, track
<1>5. UNCHANGED <<started, hdr>> \/ ToggleResets \/ Untrack \/ WriteFirst \/ WriteSecond
  BY DEF PathNext, MainTask, Transmission, RecvTask, ToggleBegins, ToggleArms, OtherSends,
         QueuedLeaves, PlanPatch, Callback, WriteT3, WriteChecksum, Restore, Publish, PublishClass,
         PublishPatchUs, PublishPatched, PublishUs, PublishSeq, Transfer, ReadBefore,
         SendReply, SendNothing, SendReturns, ReadStamp, ReadUs, ReadSeq, ReadClass,
         ReadPatchUs, ReadPatched, Learn, spvars, track
<1> QED BY <1>1, <1>2, <1>3, <1>4, <1>5

\* Every step keeps the types.
LEMMA TypeStep == PathTypeOK /\ HdrTypeOK /\ [PathNext]_spvars => PathTypeOK'
<1> SUFFICES ASSUME PathTypeOK, HdrTypeOK, [PathNext]_spvars PROVE PathTypeOK'
  OBVIOUS
<1> USE DEF PathTypeOK, Class, StampType, Writing, Patching, Publishing, Reading, switching,
            track, send, recv, arp, NextId, Publish, ReadStamp, Takes, CutPlaces, NoOut,
            NoPatch, NoStamp, NotLearned
<1>1. CASE ToggleBegins BY <1>1, OneMoreType DEF ToggleBegins
<1>2. CASE ToggleResets BY <1>2 DEF ToggleResets
<1>3. CASE ToggleArms BY <1>3 DEF ToggleArms
<1>4. CASE OtherSends BY <1>4, OneMoreType DEF OtherSends
<1>30. CASE QueuedLeaves BY <1>30 DEF QueuedLeaves
<1>5. CASE WriteFirst
  <2>1. last_tx_class' \in Class BY <1>5, TapType DEF WriteFirst
  <2> QED BY <1>5, <2>1, AbortsType DEF WriteFirst
<1>6. CASE WriteSecond
  <2>1. last_tx_class' \in Class BY <1>6, TapType DEF WriteSecond
  <2> QED BY <1>6, <2>1, AbortsType DEF WriteSecond
<1>7. CASE PlanPatch
  <2> DEFINE OK == /\ patch' \in [ok : BOOLEAN, of : Nat, patched : BOOLEAN]
                   /\ tpc' \in {"callback", "untrack"}
  <2>1. ASSUME patch_fn /\ started /\ PlanOk(hdr) PROVE OK
    <3>1. /\ tpc' = "callback" /\ patch' = [ok |-> TRUE, of |-> hdr[1].id, patched |-> FALSE]
      BY <1>7, <2>1 DEF PlanPatch
    <3>2. hdr[1].id \in Nat BY <2>1, PlannedType DEF HdrTypeOK
    <3> QED BY <3>1, <3>2
  <2>2. ASSUME ~(patch_fn /\ started /\ PlanOk(hdr)) PROVE OK
    <3>1. tpc' = "untrack" /\ patch' = NoPatch BY <1>7, <2>2 DEF PlanPatch
    <3> QED BY <3>1
  <2>3. UNCHANGED <<switching, track, stamp, out, mem, on_wire, recv, arp, count>>
    BY <1>7 DEF PlanPatch
  <2> QED BY <2>1, <2>2, <2>3
<1>8. CASE Callback BY <1>8 DEF Callback
<1>9. CASE WriteT3 BY <1>9, OneMoreType DEF WriteT3
<1>10. CASE WriteChecksum
  <2>1. /\ tpc' \in {"untrack", "restore"}
        /\ UNCHANGED <<switching, track, stamp, out, on_wire, recv, arp>>
    BY <1>10 DEF WriteChecksum
  <2>2. count' \in [replies : Nat, others : Nat, fails : Nat, toggles : Nat]
    BY <1>10, OneMoreType DEF WriteChecksum
  <2>3. patch' \in [ok : BOOLEAN, of : Nat, patched : BOOLEAN]
    BY <1>10 DEF WriteChecksum
  <2> QED BY <2>1, <2>2, <2>3
<1>11. CASE Restore BY <1>11, OneMoreType DEF Restore
<1>12. CASE Untrack BY <1>12 DEF Untrack
<1>13. CASE PublishClass BY <1>13 DEF PublishClass
<1>14. CASE PublishPatchUs BY <1>14 DEF PublishPatchUs
<1>15. CASE PublishPatched BY <1>15 DEF PublishPatched
<1>16. CASE PublishUs BY <1>16 DEF PublishUs
<1>17. CASE PublishSeq BY <1>17 DEF PublishSeq
<1>18. CASE Transfer
  <2>1. /\ tpc' = "idle" /\ out' = NoOut /\ patch' = NoPatch
        /\ UNCHANGED <<switching, track, stamp, recv, arp>>
    BY <1>18 DEF Transfer, Aborts
  <2>2. count' \in [replies : Nat, others : Nat, fails : Nat, toggles : Nat]
    BY <1>18, AbortsType DEF Transfer
  <2> QED BY <2>1, <2>2
<1>19. CASE ReadBefore BY <1>19 DEF ReadBefore
<1>20. CASE SendReply BY <1>20, OneMoreType DEF SendReply
<1>21. CASE SendNothing
  <2>1. NextId \in Nat OBVIOUS
  <2>2. queued' \subseteq Nat BY <1>21, <2>1 DEF SendNothing
  <2>3. /\ mine' \in Nat /\ rpc' = "us"
        /\ UNCHANGED <<switching, track, send, before, after, learned, overlapped>>
    BY <1>21, <2>1 DEF SendNothing
  <2>4. count' \in [replies : Nat, others : Nat, fails : Nat, toggles : Nat]
    BY <1>21, OneMoreType DEF SendNothing
  <2> QED BY <2>2, <2>3, <2>4
<1>22. CASE SendReturns BY <1>22 DEF SendReturns
<1>23. CASE ReadUs BY <1>23 DEF ReadUs
<1>24. CASE ReadSeq BY <1>24 DEF ReadSeq
<1>25. CASE ReadClass BY <1>25 DEF ReadClass
<1>26. CASE ReadPatchUs BY <1>26 DEF ReadPatchUs
<1>27. CASE ReadPatched BY <1>27 DEF ReadPatched
<1>28. CASE Learn BY <1>28 DEF Learn
<1>29. CASE UNCHANGED spvars BY <1>29 DEF spvars
<1> QED
  BY <1>1, <1>2, <1>3, <1>4, <1>30, <1>5, <1>6, <1>7, <1>8, <1>9, <1>10,
     <1>11, <1>12, <1>13, <1>14, <1>15, <1>16, <1>17, <1>18, <1>19, <1>20,
     <1>21, <1>22, <1>23, <1>24, <1>25, <1>26, <1>27, <1>28, <1>29
  DEF PathNext, MainTask, Transmission, RecvTask

-----------------------------------------------------------------------------
(***************************************************************************)
(* What is learned.                                                        *)
(***************************************************************************)

\* Every step keeps what the learning rests on.
LEMMA LearnStep == LearnInv /\ HdrTypeOK /\ [PathNext]_spvars => LearnInv'
<1> SUFFICES ASSUME LearnInv, HdrTypeOK, [PathNext]_spvars PROVE LearnInv'
  OBVIOUS
<1>0. PathTypeOK' BY TypeStep DEF LearnInv
<1> SUFFICES (Numbered /\ Classified /\ Published /\ StampOurs /\ ReadOurs
              /\ LearnsOwnSend /\ PatchDelayIsOwn)'
  BY <1>0 DEF LearnInv
<1> USE DEF LearnInv, PathTypeOK, Class, Writing, Patching, Publishing, Reading, Busy,
            StampType, Begun, Numbered, Classified, Published, LooksOurs, StampOurs, ReadOurs,
            FromOurSend, LearnsOwnSend, PatchDelayIsOwn, switching, track, send, recv, arp, NextId,
            OneMore, Aborts, Takes, May, NoOut, NoPatch, NoStamp, NotLearned, Publish,
            ReadStamp, Part, LooksLike, TapWrite
<1>1. CASE ToggleBegins BY <1>1 DEF ToggleBegins
<1>2. CASE ToggleResets BY <1>2 DEF ToggleResets
<1>3. CASE ToggleArms BY <1>3 DEF ToggleArms
<1>4. CASE OtherSends BY <1>4 DEF OtherSends
<1>30. CASE QueuedLeaves
  <2>1. PICK id \in queued : Takes(id, "NTP") /\ queued' = queued \ {id}
    BY <1>30 DEF QueuedLeaves
  <2>2. out'.id = id /\ tpc = "idle" /\ tpc' = "first" BY <2>1
  <2>3. overlapped' /\ UNCHANGED <<switching, track, stamp, on_wire, recv, count>>
    BY <1>30 DEF QueuedLeaves
  <2>4. Numbered' BY <2>1, <2>2, <2>3
  <2>5. Classified' /\ Published' BY <2>2
  <2>6. StampOurs' /\ ReadOurs' BY <2>2, <2>3
  <2>7. (LearnsOwnSend /\ PatchDelayIsOwn)' BY <2>3
  <2> QED BY <2>4, <2>5, <2>6, <2>7
<1>5. CASE WriteFirst
  <2>1. Numbered' BY <1>5 DEF WriteFirst
  <2>2. Classified' BY <1>5 DEF WriteFirst
  <2>3. Published' BY <1>5 DEF WriteFirst
  <2>4. StampOurs' BY <1>5 DEF WriteFirst
  <2>5. ReadOurs' BY <1>5 DEF WriteFirst
  <2>6. (LearnsOwnSend /\ PatchDelayIsOwn)' BY <1>5 DEF WriteFirst
  <2> QED BY <2>1, <2>2, <2>3, <2>4, <2>5, <2>6
<1>6. CASE WriteSecond
  <2>1. Numbered' BY <1>6 DEF WriteSecond
  <2>2. Classified' BY <1>6 DEF WriteSecond
  <2>3. Published' BY <1>6 DEF WriteSecond
  <2>4. StampOurs' BY <1>6 DEF WriteSecond
  <2>5. ReadOurs' BY <1>6 DEF WriteSecond
  <2>6. (LearnsOwnSend /\ PatchDelayIsOwn)' BY <1>6 DEF WriteSecond
  <2> QED BY <2>1, <2>2, <2>3, <2>4, <2>5, <2>6
<1>7. CASE PlanPatch
  <2>1. Numbered' BY <1>7 DEF PlanPatch
  <2>2. Classified' BY <1>7 DEF PlanPatch
  <2>3. Published' BY <1>7 DEF PlanPatch
  <2>4. StampOurs' BY <1>7 DEF PlanPatch
  <2>5. ReadOurs' BY <1>7 DEF PlanPatch
  <2>6. (LearnsOwnSend /\ PatchDelayIsOwn)' BY <1>7 DEF PlanPatch
  <2> QED BY <2>1, <2>2, <2>3, <2>4, <2>5, <2>6
<1>8. CASE Callback BY <1>8 DEF Callback
<1>9. CASE WriteT3 BY <1>9 DEF WriteT3
<1>10. CASE WriteChecksum
  <2>1. Numbered' BY <1>10 DEF WriteChecksum
  <2>2. Classified' BY <1>10 DEF WriteChecksum
  <2>3. Published' BY <1>10 DEF WriteChecksum
  <2>4. StampOurs' BY <1>10 DEF WriteChecksum
  <2>5. ReadOurs' BY <1>10 DEF WriteChecksum
  <2>6. (LearnsOwnSend /\ PatchDelayIsOwn)' BY <1>10 DEF WriteChecksum
  <2> QED BY <2>1, <2>2, <2>3, <2>4, <2>5, <2>6
<1>11. CASE Restore BY <1>11 DEF Restore
<1>12. CASE Untrack BY <1>12 DEF Untrack
<1>13. CASE PublishClass BY <1>13 DEF PublishClass
<1>14. CASE PublishPatchUs BY <1>14 DEF PublishPatchUs
<1>15. CASE PublishPatched BY <1>15 DEF PublishPatched
<1>16. CASE PublishUs BY <1>16 DEF PublishUs
<1>17. CASE PublishSeq BY <1>17 DEF PublishSeq
<1>18. CASE Transfer
  <2>1. Numbered' BY <1>18 DEF Transfer
  <2>2. Classified' BY <1>18 DEF Transfer
  <2>3. Published' BY <1>18 DEF Transfer
  <2>4. StampOurs' BY <1>18 DEF Transfer
  <2>5. ReadOurs' BY <1>18 DEF Transfer
  <2>6. (LearnsOwnSend /\ PatchDelayIsOwn)' BY <1>18 DEF Transfer
  <2> QED BY <2>1, <2>2, <2>3, <2>4, <2>5, <2>6
<1>19. CASE ReadBefore
  <2>1. /\ before' = stamp.seq /\ overlapped' = (out.class = "NTP")
        /\ rpc' = "sendto" /\ UNCHANGED <<switching, track, send, mine, after, queued, count>>
    BY <1>19 DEF ReadBefore
  <2>2. Numbered' BY <2>1
  <2>3. Classified' /\ Published' BY <2>1
  <2>4. StampOurs' /\ ReadOurs' BY <2>1
  <2>5. (LearnsOwnSend /\ PatchDelayIsOwn)' BY <2>1
  <2> QED BY <2>2, <2>3, <2>4, <2>5
<1>20. CASE SendReply BY <1>20 DEF SendReply
<1>21. CASE SendNothing BY <1>21 DEF SendNothing
<1>22. CASE SendReturns BY <1>22 DEF SendReturns
<1>23. CASE ReadUs BY <1>23 DEF ReadUs
<1>24. CASE ReadSeq BY <1>24 DEF ReadSeq
<1>25. CASE ReadClass BY <1>25 DEF ReadClass
<1>26. CASE ReadPatchUs BY <1>26 DEF ReadPatchUs
<1>27. CASE ReadPatched BY <1>27 DEF ReadPatched
<1>28. CASE Learn BY <1>28 DEF Learn, PatchMade
<1>29. CASE UNCHANGED spvars BY <1>29 DEF spvars
<1> QED
  BY <1>1, <1>2, <1>3, <1>4, <1>30, <1>5, <1>6, <1>7, <1>8, <1>9, <1>10,
     <1>11, <1>12, <1>13, <1>14, <1>15, <1>16, <1>17, <1>18, <1>19, <1>20,
     <1>21, <1>22, <1>23, <1>24, <1>25, <1>26, <1>27, <1>28, <1>29
  DEF PathNext, MainTask, Transmission, RecvTask

-----------------------------------------------------------------------------
(***************************************************************************)
(* What leaves.                                                            *)
(***************************************************************************)

\* What a tap leaves in the tracked header: the frame's own part first.
LEMMA TapTracks ==
  ASSUME HdrTypeOK, Tracking, NEW at \in {"begin", "rest"}, TapWrite(Part(at)),
         out.id \in Nat, out.class \in Class, UNCHANGED out,
         tpc = "first" \/ tpc = "second"
  PROVE  hdr' # << >> => hdr'[1].id = out'.id /\ hdr'[1].class = out'.class
<1>1. Part(at) \in PartType /\ Part(at).id = out.id /\ Part(at).class = out.class
  BY DEF Part, PartType
<1>2. CASE patch_fn /\ started /\ hdr # << >>
  <2>1. hdr' = Append(hdr, Part(at)) BY <1>2 DEF TapWrite, Tracked
  <2>2. Len(hdr) > 0 BY <1>2 DEF HdrTypeOK
  <2>3. hdr'[1] = hdr[1] BY <1>1, <2>1, <2>2 DEF HdrTypeOK
  <2> QED BY <1>2, <2>3 DEF Tracking
<1>3. CASE patch_fn /\ started /\ hdr = << >>
  <2>1. hdr' = Append(<< >>, Part(at)) BY <1>3 DEF TapWrite, Tracked
  <2>2. hdr'[1] = Part(at) BY <1>1, <2>1
  <2> QED BY <1>1, <2>2
<1>4. CASE patch_fn /\ ~started
  <2>1. hdr' = <<Part(at)>> BY <1>4 DEF TapWrite, Tracked
  <2> QED BY <1>1, <2>1
<1>5. CASE ~patch_fn BY <1>5 DEF TapWrite, Tracking
<1> QED BY <1>2, <1>3, <1>4, <1>5 DEF HdrTypeOK

\* Every step keeps the tracking with its frame.  A frame that the driver gives
\* up half written would leave its header tracked.
LEMMA TrackingStep ==
  ASSUME "payload" \notin FailAt, PathTypeOK, HdrTypeOK, Tracking, [PathNext]_spvars
  PROVE  Tracking'
<1> DEFINE quiet == {"idle", "first"} \cup Publishing
<1>1. CASE UNCHANGED <<out, hdr, started>> /\ (tpc' \in quiet => tpc \in quiet)
  BY <1>1 DEF Tracking
<1>2. CASE hdr' = << >> /\ started' = FALSE
  BY <1>2 DEF Tracking
<1>3. CASE tpc \in quiet /\ UNCHANGED <<hdr, started>>
  BY <1>2, <1>3 DEF Tracking
<1>4. CASE WriteFirst
  <2>1. UNCHANGED out /\ tpc' \in {"SEND", "second"} /\ tpc = "first"
    BY <1>4 DEF WriteFirst, May
  <2>2. CASE out.cut = "head"
    BY <1>4, <2>1, <2>2 DEF WriteFirst, track, Tracking, Publishing
  <2>3. CASE out.cut # "head"
    <3>1. TapWrite(Part("begin")) BY <1>4, <2>3 DEF WriteFirst
    <3>2. hdr' # << >> => hdr'[1].id = out'.id /\ hdr'[1].class = out'.class
      BY <2>1, <3>1, TapTracks DEF PathTypeOK
    <3> QED BY <2>1, <3>2 DEF Tracking, Publishing
  <2> QED BY <2>2, <2>3
<1>5. CASE WriteSecond
  <2>1. UNCHANGED out /\ tpc' = "SEND" /\ tpc = "second"
    BY <1>5 DEF WriteSecond, May
  <2>2. CASE out.cut = "tail"
    BY <1>5, <2>1, <2>2 DEF WriteSecond, track, Tracking, Publishing
  <2>3. CASE out.cut # "tail"
    <3>1. TapWrite(Part("rest")) BY <1>5, <2>3 DEF WriteSecond
    <3>2. hdr' # << >> => hdr'[1].id = out'.id /\ hdr'[1].class = out'.class
      BY <2>1, <3>1, TapTracks DEF PathTypeOK
    <3> QED BY <2>1, <3>2 DEF Tracking, Publishing
  <2> QED BY <2>2, <2>3
<1>6. CASE ToggleResets \/ Untrack BY <1>2, <1>6 DEF ToggleResets, Untrack
<1>7. CASE OtherSends \/ QueuedLeaves \/ SendReply \/ Transfer
  BY <1>3, <1>7 DEF OtherSends, QueuedLeaves, SendReply, Transfer, Takes, track, Publishing
<1>8. CASE ToggleBegins \/ ToggleArms
  BY <1>1, <1>8 DEF ToggleBegins, ToggleArms, track, send
<1>9. CASE PlanPatch \/ Callback \/ WriteT3 \/ WriteChecksum \/ Restore
  BY <1>1, <1>9 DEF PlanPatch, Callback, WriteT3, WriteChecksum, Restore, track, Publishing
<1>10. CASE PublishClass \/ PublishPatchUs \/ PublishPatched \/ PublishUs \/ PublishSeq
  BY <1>3, <1>10 DEF PublishClass, PublishPatchUs, PublishPatched, PublishUs, PublishSeq,
                     Publish, track, Publishing
<1>11. CASE (RecvTask /\ ~SendReply) \/ UNCHANGED spvars
  <2>1. UNCHANGED <<track, send>>
    BY <1>11 DEF RecvTask, ReadBefore, SendNothing, SendReturns, ReadUs, ReadSeq, ReadClass,
                 ReadPatchUs, ReadPatched, ReadStamp, Learn, spvars
  <2> QED BY <1>1, <2>1 DEF track, send
<1> QED
  BY <1>4, <1>5, <1>6, <1>7, <1>8, <1>9, <1>10, <1>11
  DEF PathNext, MainTask, Transmission, RecvTask

\* Every step keeps the frame in the buffer whole: as it was handed over, or
\* with both fields rewritten by the time it is told to leave.
LEMMA LeaveStep ==
  ASSUME "payload" \notin FailAt, "checksum" \notin Cuts, MaxFails <= 1,
         LeaveInv, [PathNext]_spvars
  PROVE  LeaveInv'
<1>1. PathTypeOK' /\ HdrTypeOK' BY TypeStep, HdrTypeStep DEF LeaveInv
<1>2. Tracking' BY TrackingStep DEF LeaveInv
<1>3. Cut'
  BY DEF LeaveInv, Cut, PathNext, MainTask, Transmission, RecvTask, ToggleBegins, ToggleResets,
         ToggleArms, OtherSends, QueuedLeaves, WriteFirst, WriteSecond, PlanPatch, Callback,
         WriteT3, WriteChecksum, Restore, Untrack, Publish, PublishClass, PublishPatchUs,
         PublishPatched, PublishUs, PublishSeq, Transfer, Aborts, Takes, NoOut, ReadBefore, SendReply,
         SendNothing, SendReturns, ReadStamp, ReadUs, ReadSeq, ReadClass, ReadPatchUs,
         ReadPatched, Learn, spvars, send
<1> SUFFICES (Buffered /\ FramesIntact)' BY <1>1, <1>2, <1>3 DEF LeaveInv
<1> USE DEF LeaveInv, Cut, Buffered, FramesIntact, AsBuilt, AsPatched, HalfPatched, Class,
            Writing, Patching, Publishing, Built, NoOut, switching, track, send, recv, arp
<1>4. CASE UNCHANGED <<tpc, out, mem, patch, on_wire, count>>
  BY <1>4
<1>5. CASE OtherSends \/ QueuedLeaves \/ SendReply
  <2>1. /\ tpc' = "first" /\ out'.class \in Class /\ mem' = Built(out')
        /\ UNCHANGED on_wire
    BY <1>5 DEF OtherSends, QueuedLeaves, SendReply, Takes
  <2> QED BY <2>1
<1>6. CASE WriteFirst \/ WriteSecond
  BY <1>6 DEF WriteFirst, WriteSecond, May
<1>7. CASE PlanPatch
  <2>1. CASE patch_fn /\ started /\ PlanOk(hdr)
    <3>1. tpc' = "callback" /\ patch'.of = hdr[1].id /\ UNCHANGED <<out, mem, on_wire, count>>
      BY <1>7, <2>1 DEF PlanPatch
    <3>2. hdr[1].id = out.id /\ out.class = "NTP" BY <2>1 DEF Tracking, PlanOk
    <3> QED BY <1>7, <3>1, <3>2 DEF PlanPatch
  <2>2. CASE ~(patch_fn /\ started /\ PlanOk(hdr))
    <3>1. tpc = "SEND" /\ tpc' = "untrack" /\ UNCHANGED <<out, mem, on_wire, count>>
      BY <1>7, <2>2 DEF PlanPatch
    <3> QED BY <3>1
  <2> QED BY <2>1, <2>2
<1>8. CASE Callback BY <1>8 DEF Callback
<1>9. CASE WriteT3
  BY <1>9, OneMoreType DEF WriteT3, Rewritten
<1>10. CASE WriteChecksum
  BY <1>10, OneMoreType DEF WriteChecksum, Rewritten, NewChecksum, PathTypeOK, May
<1>11. CASE Restore
  BY <1>11 DEF Restore, Rewritten, May, PathTypeOK
<1>12. CASE Untrack BY <1>12 DEF Untrack
<1>13. CASE PublishClass \/ PublishPatchUs \/ PublishPatched \/ PublishUs \/ PublishSeq
  BY <1>13 DEF PublishClass, PublishPatchUs, PublishPatched, PublishUs, PublishSeq, Publish
<1>14. CASE Transfer BY <1>14 DEF Transfer, Aborts
<1>15. CASE ToggleBegins \/ SendNothing
  <2>1. UNCHANGED <<tpc, out, mem, patch, on_wire>> /\ count'.fails = count.fails
    BY <1>15 DEF ToggleBegins, SendNothing, OneMore, PathTypeOK
  <2> QED BY <2>1
<1>16. CASE ToggleResets \/ ToggleArms \/ UNCHANGED spvars
  BY <1>4, <1>16 DEF ToggleResets, ToggleArms, spvars
<1>17. CASE RecvTask /\ ~SendReply /\ ~SendNothing
  BY <1>4, <1>17 DEF RecvTask, ReadBefore, SendReturns, ReadUs, ReadSeq, ReadClass,
                     ReadPatchUs, ReadPatched, ReadStamp, Learn
<1> QED
  BY <1>5, <1>6, <1>7, <1>8, <1>9, <1>10, <1>11, <1>12, <1>13, <1>14, <1>15, <1>16, <1>17
  DEF PathNext, MainTask, Transmission, RecvTask

-----------------------------------------------------------------------------
(***************************************************************************)
(* The theorems.                                                           *)
(***************************************************************************)

\* Nothing has been sent.
LEMMA PathInitInv == PathInit => LearnInv /\ LeaveInv
<1> SUFFICES ASSUME PathInit PROVE LearnInv /\ LeaveInv
  OBVIOUS
<1> USE DEF PathInit, NoStamp, NoOut, NoPatch, NotLearned, Built
<1>1. PathTypeOK BY DEF PathTypeOK, Class, StampType, CutPlaces, Reading
<1>2. HdrTypeOK
  <2>1. << >> \in Seq(PartType) OBVIOUS
  <2> QED BY <2>1 DEF HdrTypeOK
<1>3. Numbered /\ Classified /\ Published
  BY DEF Numbered, Classified, Published, Busy, Begun, Writing, Patching, Publishing
<1>4. StampOurs /\ ReadOurs /\ LearnsOwnSend /\ PatchDelayIsOwn
  BY DEF StampOurs, ReadOurs, LearnsOwnSend, PatchDelayIsOwn, Reading
<1>5. Tracking BY DEF Tracking
<1>6. Cut /\ Buffered /\ FramesIntact
  BY DEF Cut, Buffered, FramesIntact, AsBuilt, Class, Publishing, Writing
<1> QED BY <1>1, <1>2, <1>3, <1>4, <1>5, <1>6 DEF LearnInv, LeaveInv

\* Every variable has its type, and recv_task_() learns from no SEND but that of its
\* own last reply, unless a queued reply was on its way meanwhile: by the order in
\* which the stamps are written and read, without a lock.
THEOREM LearnsFromItsOwn == PathSpec => [](LearnInv /\ HdrTypeOK)
<1>1. PathInit => LearnInv /\ HdrTypeOK BY PathInitInv DEF LeaveInv
<1>2. LearnInv /\ HdrTypeOK /\ [PathNext]_spvars => (LearnInv /\ HdrTypeOK)'
  BY LearnStep, HdrTypeStep DEF LearnInv
<1> QED BY <1>1, <1>2, PTL DEF PathSpec

\* The send estimate of ntp_server.cpp learns only from the SEND of the reply
\* recv_task_() has just handed over, unless a queued reply was on its way meanwhile.
THEOREM LearnsOwnSendHolds == PathSpec => []LearnsOwnSend
<1>1. LearnInv => LearnsOwnSend BY DEF LearnInv
<1> QED BY <1>1, LearnsFromItsOwn, PTL

\* The patch delay is learned from the two ends of that one SEND, with the same
\* exception.
THEOREM PatchDelayIsOwnHolds == PathSpec => []PatchDelayIsOwn
<1>1. LearnInv => PatchDelayIsOwn BY DEF LearnInv
<1> QED BY <1>1, LearnsFromItsOwn, PTL

\* The only reply on its way is the one that recv_task_() is sending.
NoneQueued == ~overlapped /\ (out.class = "NTP" => rpc = "sending" /\ out.id = mine)

LEMMA NoneQueuedStep ==
  ASSUME NoneQueued, queued = {}, [PathNext]_spvars
  PROVE  NoneQueued'
<1> USE DEF NoneQueued, send, recv, arp
<1>1. CASE UNCHANGED <<out, rpc, mine, overlapped>> BY <1>1
<1>2. CASE OtherSends BY <1>2 DEF OtherSends, Takes
<1>3. CASE QueuedLeaves BY <1>3 DEF QueuedLeaves
<1>4. CASE WriteFirst \/ WriteSecond \/ Transfer
  BY <1>4 DEF WriteFirst, WriteSecond, Transfer, Aborts, NoOut
<1>5. CASE ReadBefore BY <1>5 DEF ReadBefore
<1>6. CASE SendReply BY <1>6 DEF SendReply, Takes
<1>7. CASE SendNothing \/ SendReturns BY <1>7 DEF SendNothing, SendReturns
<1>8. CASE ReadUs \/ ReadSeq \/ ReadClass \/ ReadPatchUs \/ ReadPatched \/ Learn
  BY <1>8 DEF ReadUs, ReadSeq, ReadClass, ReadPatchUs, ReadPatched, ReadStamp, Learn
<1>9. \/ UNCHANGED <<out, rpc, mine, overlapped>>
      \/ OtherSends \/ QueuedLeaves \/ WriteFirst \/ WriteSecond \/ Transfer \/ RecvTask
  BY DEF PathNext, MainTask, Transmission, ToggleBegins, ToggleResets, ToggleArms,
         PlanPatch, Callback, WriteT3, WriteChecksum, Restore, Untrack, Publish,
         PublishClass, PublishPatchUs, PublishPatched, PublishUs, PublishSeq, spvars
<1> QED BY <1>1, <1>2, <1>3, <1>4, <1>5, <1>6, <1>7, <1>8, <1>9 DEF RecvTask

\* What is learned is "provably OUR reply" (ntp_server.cpp:568) without exception, if
\* no reply is ever queued behind an ARP exchange.
THEOREM ProvablyOursUnlessQueued ==
  PathSpec /\ [](queued = {}) => [](rpc = "before" => learned.send \in {0, mine})
<1>1. PathInit => NoneQueued BY DEF PathInit, NoneQueued, NoOut
<1>2. NoneQueued /\ queued = {} /\ [PathNext]_spvars => NoneQueued' BY NoneQueuedStep
<1>3. NoneQueued /\ LearnsOwnSend => (rpc = "before" => learned.send \in {0, mine})
  BY DEF NoneQueued, LearnsOwnSend
<1> QED BY <1>1, <1>2, <1>3, LearnsOwnSendHolds, PTL DEF PathSpec

\* No frame is damaged by the rewriting of T3 in w5500_custom_spi_write(),
\* whatever is switched when, as long as no payload write fails, the ring never
\* ends inside a checksum and at most one write of the patch fails.
THEOREM FramesIntactHolds ==
  ASSUME "payload" \notin FailAt, "checksum" \notin Cuts, MaxFails <= 1
  PROVE  PathSpec => []FramesIntact
<1>1. PathInit => LeaveInv BY PathInitInv
<1>2. LeaveInv /\ [PathNext]_spvars => LeaveInv' BY LeaveStep
<1>3. LeaveInv => FramesIntact BY DEF LeaveInv
<1> QED BY <1>1, <1>2, <1>3, PTL DEF PathSpec


-----------------------------------------------------------------------------
(***************************************************************************)
(* What is learned: the estimate of a send.                                *)
(***************************************************************************)

\* The larger and the smaller of two numbers.
LEMMA PairMax ==
  ASSUME NEW a \in Int, NEW b \in Int
  PROVE  Max({a, b}) = IF a >= b THEN a ELSE b
BY DEF Max

LEMMA PairMin ==
  ASSUME NEW a \in Int, NEW b \in Int
  PROVE  Min({a, b}) = IF a <= b THEN a ELSE b
BY DEF Min

\* Whatever the weight, a smoothed estimate lies between the old one and the sample.
LEMMA SmoothedLiesBetween ==
  ASSUME NEW old \in Nat, NEW v \in Nat
  PROVE  /\ Smoothed(old, v) \in Nat
         /\ old <= v => old <= Smoothed(old, v) /\ Smoothed(old, v) <= v
         /\ v <= old => v <= Smoothed(old, v) /\ Smoothed(old, v) <= old
<1> DEFINE d == v - old
           q == d \div WEIGHT
<1>1. WEIGHT \in Nat \ {0} BY EstTypeAssumption
<1>2. d \in Int /\ q \in Int /\ WEIGHT * q <= d /\ d < WEIGHT * (q + 1)
  BY <1>1
<1>3. d >= 0 => 0 <= q /\ q <= d
  <2> HIDE DEF d, q
  <2> QED BY <1>1, <1>2
<1>4. d <= 0 => d <= q /\ q <= 0
  <2> HIDE DEF d, q
  <2> QED BY <1>1, <1>2
<1> QED BY <1>2, <1>3, <1>4 DEF Smoothed

-----------------------------------------------------------------------------
\* What a sample may be, and whose samples a run of rejects holds.
Samples == Stalls \cup UNION {Good(p) : p \in Paths}
RunOf(S) == reject_min \in S /\ reject_max \in S

EstTypeOK ==
  /\ estimate_us \in Nat
  /\ reject_run \in Nat /\ reject_min \in Nat /\ reject_max \in Nat
  /\ reject_first_us \in Nat
  /\ path \in Paths /\ stalled_since \in Nat /\ now_us \in Nat
  /\ good \in 0 .. RESEED_AFTER /\ good_since \in Nat

\* A run is of samples, and has begun.
RunInv ==
  reject_run > 0 =>
    RunOf(Samples) /\ reject_min <= reject_max /\ reject_first_us <= now_us

\* During a stall the run is one of normal samples, which no stalled one joins,
\* or has begun with the stall.
StallInv ==
  stalled_since # 0 =>
    /\ stalled_since <= now_us
    /\ reject_run > 0 =>
         (\E p \in Paths : RunOf(Good(p))) \/ reject_first_us >= stalled_since

\* While the samples are normal, a run is of such samples only; and the estimate
\* is right, or all of these samples are in the run.
GoodInv ==
  good > 0 =>
    /\ good_since <= now_us
    /\ reject_run > 0 => RunOf(Good(path))
    /\ Near \/ (reject_run >= good /\ reject_first_us <= good_since)

\* A run of enough samples lasts until it has lasted long enough, and not longer.
RepairInv ==
  moved = "normal" /\ good >= RESEED_AFTER /\ ~Near =>
    now_us - good_since <= RESEED_MIN_SPAN_US

EstInv == EstTypeOK /\ RunInv /\ StallInv /\ GoodInv /\ RepairInv

\* An interval that begins no later and ends a tick later.
LEMMA TickLater ==
  ASSUME NEW a \in Nat, NEW b \in Nat, NEW c \in Nat, NEW d \in Nat, NEW e \in Nat,
         a <= b + 1, c <= d, b - c < e
  PROVE  a - d <= e
OBVIOUS

\* Normal samples are natural numbers within the limits; they are of one path, and
\* far from those of another and from stalled ones.
LEMMA GoodIsGood ==
  ASSUME NEW p \in Paths, NEW v \in Good(p)
  PROVE  v \in Nat /\ p \in Nat /\ p <= v /\ v <= p + Jitter /\ InRange(v) /\ v > 0
<1>1. p \in Nat /\ Jitter \in Nat /\ US_MIN \in Nat BY EstTypeAssumption
<1>2. v \in p .. p + Jitter BY DEF Good
<1>3. v > US_MIN /\ v < US_MAX BY EstimatorAssumption
<1> QED BY <1>1, <1>2, <1>3 DEF InRange

LEMMA StallIsFar ==
  ASSUME NEW p \in Paths, NEW v \in Good(p), NEW s \in Stalls
  PROVE  s \in Nat /\ s - v \notin 1 - 2 * STEP_MAX_US .. 2 * STEP_MAX_US - 1
BY EstTypeAssumption, EstimatorAssumption

LEMMA SamplesAreNat == Samples \subseteq Nat
BY GoodIsGood, EstTypeAssumption DEF Samples

LEMMA NearGoodIsGood ==
  ASSUME NEW p \in Paths, NEW v \in Good(p), NEW x \in Samples,
         v - x \in 1 - STEP_MAX_US .. STEP_MAX_US - 1
  PROVE  x \in Good(p)
<1>1. STEP_MAX_US \in Nat /\ v \in Nat /\ x \in Nat
  BY GoodIsGood, SamplesAreNat, EstTypeAssumption
<1>2. x \notin Stalls
  <2> SUFFICES ASSUME x \in Stalls PROVE FALSE OBVIOUS
  <2>1. x - v \notin 1 - 2 * STEP_MAX_US .. 2 * STEP_MAX_US - 1 BY StallIsFar
  <2> QED BY <1>1, <2>1
<1>3. PICK q \in Paths : x \in Good(q) BY <1>2 DEF Samples
<1>4. CASE q = p BY <1>3, <1>4
<1>5. CASE q # p
  <2>1. v - x \notin 1 - STEP_MAX_US .. STEP_MAX_US - 1
    BY <1>3, <1>5, EstimatorAssumption
  <2> QED BY <2>1
<1> QED BY <1>4, <1>5

\* The run with one more sample.
LEMMA RunIs ==
  ASSUME EstTypeOK, RunInv, NEW v \in Nat
  PROVE  /\ Run(v).n \in Nat \ {0} /\ Run(v).min \in Nat /\ Run(v).max \in Nat
         /\ Run(v).first \in Nat /\ Run(v).min <= Run(v).max /\ Run(v).first <= now_us
         /\ StartsNewRun(v) =>
              Run(v).n = 1 /\ Run(v).min = v /\ Run(v).max = v /\ Run(v).first = now_us
         /\ ~StartsNewRun(v) =>
              /\ reject_run > 0 /\ Run(v).first = reject_first_us
              /\ Run(v).n = IF reject_run + 1 <= RUN_MAX THEN reject_run + 1 ELSE RUN_MAX
              /\ Run(v).min \in {reject_min, v} /\ Run(v).max \in {reject_max, v}
              /\ v - reject_min \in 1 - STEP_MAX_US .. STEP_MAX_US - 1
              /\ v - reject_max \in 1 - STEP_MAX_US .. STEP_MAX_US - 1
<1>1. /\ RUN_MAX \in Nat \ {0} /\ STEP_MAX_US \in Nat
      /\ reject_run \in Nat /\ reject_min \in Nat /\ reject_max \in Nat
      /\ reject_first_us \in Nat /\ now_us \in Nat
  BY EstTypeAssumption, EstimatorAssumption DEF EstTypeOK
<1>2. /\ Max({reject_max, v}) = IF reject_max >= v THEN reject_max ELSE v
      /\ Min({reject_min, v}) = IF reject_min <= v THEN reject_min ELSE v
      /\ Min({reject_run + 1, RUN_MAX}) =
           IF reject_run + 1 <= RUN_MAX THEN reject_run + 1 ELSE RUN_MAX
  BY <1>1, PairMax, PairMin
<1>3. CASE StartsNewRun(v) BY <1>1, <1>3 DEF Run
<1>4. CASE ~StartsNewRun(v)
  <2>1. /\ reject_run > 0 /\ reject_min <= reject_max /\ reject_first_us <= now_us
        /\ Max({reject_max, v}) - Min({reject_min, v}) < STEP_MAX_US
    BY <1>1, <1>2, <1>4 DEF StartsNewRun, RunInv
  <2>2. /\ v - reject_min \in 1 - STEP_MAX_US .. STEP_MAX_US - 1
        /\ v - reject_max \in 1 - STEP_MAX_US .. STEP_MAX_US - 1
    BY <1>1, <1>2, <2>1
  <2> QED BY <1>1, <1>2, <1>4, <2>1, <2>2 DEF Run
<1> QED BY <1>3, <1>4

-----------------------------------------------------------------------------
\* A sample that goes normally.
LEMMA NormalSendKeeps ==
  ASSUME EstInv, NormalSend
  PROVE  EstInv'
<1>1. PICK v \in Good(path) : Measured(v) BY DEF NormalSend
<1>2. /\ path \in Paths /\ path \in Nat /\ v \in Nat /\ v > 0 /\ InRange(v)
      /\ path <= v /\ v <= path + Jitter
  BY GoodIsGood DEF EstInv, EstTypeOK
<1>3. /\ STEP_MAX_US \in Nat /\ Jitter \in Nat /\ Jitter < STEP_MAX_US
      /\ RESEED_AFTER \in Nat \ {0} /\ RUN_MAX \in Nat /\ RESEED_AFTER <= RUN_MAX
      /\ RESEED_MIN_SPAN_US \in Nat
  BY EstTypeAssumption, EstimatorAssumption
<1>4. /\ EstTypeOK /\ RunInv /\ GoodInv
      /\ estimate_us \in Nat /\ now_us \in Nat /\ good \in 0 .. RESEED_AFTER
      /\ good_since \in Nat /\ reject_run \in Nat /\ reject_first_us \in Nat
      /\ reject_min \in Nat /\ reject_max \in Nat
  BY DEF EstInv, EstTypeOK
<1>5. /\ path' = path /\ stalled_since = 0 /\ stalled_since' = 0 /\ moved' = "normal"
      /\ good_since' = IF good = 0 THEN now_us ELSE good_since
      /\ now_us' \in now_us .. now_us + 1
  BY <1>1, <1>4 DEF NormalSend, Measured, Wait
<1>6. /\ good' = IF good + 1 <= RESEED_AFTER THEN good + 1 ELSE RESEED_AFTER
  <2>1. Min({good + 1, RESEED_AFTER}) =
          IF good + 1 <= RESEED_AFTER THEN good + 1 ELSE RESEED_AFTER
    BY <1>3, <1>4, PairMin
  <2> QED BY <2>1 DEF NormalSend
<1>7. LearnSend(v) BY <1>1 DEF Measured
\* The sample is accepted: the estimate is right now, and no run is left.
<1>8. CASE estimate_us = 0 \/ Normal(v)
  <2>1. estimate_us' = IF estimate_us = 0 THEN v ELSE Smoothed(estimate_us, v)
    BY <1>2, <1>7, <1>8 DEF LearnSend
  <2>2. reject_run' = 0 /\ reject_min' = 0 /\ reject_max' = 0 /\ reject_first_us' = 0
    BY <1>2, <1>7, <1>8 DEF LearnSend, NoRun
  <2>3. estimate_us' \in Nat /\ Near'
    <3>1. CASE estimate_us = 0 BY <1>2, <1>3, <1>5, <2>1, <3>1 DEF Near
    <3>2. CASE estimate_us # 0
      <4>1. v - estimate_us \in 1 - STEP_MAX_US .. STEP_MAX_US - 1
        BY <1>8, <3>2 DEF Normal
      <4>2. /\ estimate_us' \in Nat
            /\ estimate_us <= v => estimate_us <= estimate_us' /\ estimate_us' <= v
            /\ v <= estimate_us => v <= estimate_us' /\ estimate_us' <= estimate_us
        BY <1>2, <1>4, <2>1, <3>2, SmoothedLiesBetween
      <4> QED BY <1>2, <1>3, <1>4, <1>5, <3>2, <4>1, <4>2 DEF Near
    <3> QED BY <3>1, <3>2
  <2>4. EstTypeOK' BY <1>2, <1>3, <1>4, <1>5, <1>6, <2>2, <2>3 DEF EstTypeOK
  <2>5. RunInv' /\ StallInv' BY <1>5, <2>2 DEF RunInv, StallInv
  <2>6. GoodInv' BY <1>4, <1>5, <2>2, <2>3 DEF GoodInv
  <2>7. RepairInv' BY <2>3 DEF RepairInv
  <2> QED BY <2>4, <2>5, <2>6, <2>7 DEF EstInv
\* It is rejected: the run is of normal samples now.
<1>9. CASE ~(estimate_us = 0 \/ Normal(v))
  <2> DEFINE r == Run(v)
  <2>1. Reject(v) BY <1>2, <1>7, <1>9 DEF LearnSend
  <2>2. /\ r.n \in Nat \ {0} /\ r.min \in Nat /\ r.max \in Nat /\ r.first \in Nat
        /\ r.min <= r.max /\ r.first <= now_us
    BY <1>2, <1>4, RunIs
  <2>3. r.min \in Good(path) /\ r.max \in Good(path)
    <3>1. CASE StartsNewRun(v) BY <1>2, <1>4, <3>1, RunIs
    <3>2. CASE ~StartsNewRun(v)
      <4>1. /\ r.min \in {reject_min, v} /\ r.max \in {reject_max, v} /\ reject_run > 0
            /\ v - reject_min \in 1 - STEP_MAX_US .. STEP_MAX_US - 1
            /\ v - reject_max \in 1 - STEP_MAX_US .. STEP_MAX_US - 1
        BY <1>2, <1>4, <3>2, RunIs
      <4>2. reject_min \in Samples /\ reject_max \in Samples
        BY <1>4, <4>1 DEF RunInv, RunOf
      <4>3. reject_min \in Good(path) /\ reject_max \in Good(path)
        BY <1>2, <4>1, <4>2, NearGoodIsGood
      <4> QED BY <4>1, <4>3
    <3> QED BY <3>1, <3>2
  <2>4. /\ path <= r.min /\ r.min <= path + Jitter /\ r.min > 0
        /\ path <= r.max /\ r.max <= path + Jitter
    BY <1>2, <2>3, GoodIsGood
  \* Unless the estimate is right, the normal samples are all in the run.
  <2>5. Near \/ (r.n >= good' /\ r.first <= good_since')
    <3>1. CASE good = 0 BY <1>3, <1>5, <1>6, <2>2, <3>1
    <3>2. CASE good > 0 /\ ~Near
      <4>1. reject_run >= good /\ reject_first_us <= good_since /\ reject_run > 0
        BY <1>4, <3>2 DEF GoodInv
      <4>2. RunOf(Good(path)) BY <1>4, <3>2, <4>1 DEF GoodInv
      <4>3. /\ path <= reject_min /\ reject_min <= path + Jitter
            /\ path <= reject_max /\ reject_max <= path + Jitter
        BY <1>2, <4>2, GoodIsGood DEF RunOf
      <4>4. /\ Max({reject_max, v}) = IF reject_max >= v THEN reject_max ELSE v
            /\ Min({reject_min, v}) = IF reject_min <= v THEN reject_min ELSE v
        BY <1>2, <1>4, PairMax, PairMin
      <4>5. ~StartsNewRun(v)
        BY <1>2, <1>3, <1>4, <4>1, <4>3, <4>4 DEF StartsNewRun
      <4>6. /\ r.first = reject_first_us
            /\ r.n = IF reject_run + 1 <= RUN_MAX THEN reject_run + 1 ELSE RUN_MAX
        BY <1>2, <1>4, <4>5, RunIs
      <4> QED BY <1>3, <1>4, <1>5, <1>6, <3>2, <4>1, <4>6
    <3> QED BY <1>4, <3>1, <3>2
  <2>6. CASE Reseeds(r)
    <3>1. /\ estimate_us' = r.min + (r.max - r.min) \div 2
          /\ reject_run' = 0 /\ reject_min' = 0 /\ reject_max' = 0 /\ reject_first_us' = 0
      BY <2>1, <2>6 DEF Reject, NoRun
    <3>2. estimate_us' \in Nat /\ Near'
      <4> HIDE DEF r
      <4> QED BY <1>2, <1>3, <1>5, <2>2, <2>4, <3>1 DEF Near
    <3>3. EstTypeOK' BY <1>2, <1>3, <1>4, <1>5, <1>6, <3>1, <3>2 DEF EstTypeOK
    <3>4. RunInv' /\ StallInv' BY <1>5, <3>1 DEF RunInv, StallInv
    <3>5. GoodInv' BY <1>4, <1>5, <3>1, <3>2 DEF GoodInv
    <3>6. RepairInv' BY <3>2 DEF RepairInv
    <3> QED BY <3>3, <3>4, <3>5, <3>6 DEF EstInv
  <2>7. CASE ~Reseeds(r)
    <3>1. /\ reject_run' = r.n /\ reject_min' = r.min /\ reject_max' = r.max
          /\ reject_first_us' = r.first /\ estimate_us' = estimate_us
      BY <2>1, <2>7 DEF Reject
    <3> HIDE DEF r
    <3>2. EstTypeOK'
      BY <1>2, <1>3, <1>4, <1>5, <1>6, <2>2, <3>1 DEF EstTypeOK
    <3>3. Good(path)' = Good(path) /\ Samples' = Samples /\ Good(path) \subseteq Samples
      BY <1>2, <1>5 DEF Good, Samples
    <3>4. RunInv'
      BY <1>4, <1>5, <2>2, <2>3, <3>1, <3>3 DEF RunInv, RunOf
    <3>5. StallInv' BY <1>5 DEF StallInv
    <3>6. Near' <=> Near BY <1>5, <3>1 DEF Near
    <3>7. GoodInv'
      <4>1. good_since' <= now_us' BY <1>4, <1>5 DEF GoodInv
      <4>2. RunOf(Good(path))' BY <2>3, <3>1, <3>3 DEF RunOf
      <4> QED BY <2>5, <3>1, <3>6, <4>1, <4>2 DEF GoodInv
    <3>8. RepairInv'
      <4> SUFFICES ASSUME good' >= RESEED_AFTER, ~Near
                   PROVE  now_us' - good_since' <= RESEED_MIN_SPAN_US
        BY <3>6 DEF RepairInv
      <4>1. r.n >= good' /\ r.first <= good_since' BY <2>5
      <4>2. now_us - r.first < RESEED_MIN_SPAN_US
        BY <1>3, <1>4, <1>6, <2>2, <2>7, <4>1 DEF Reseeds
      <4>3. good_since' \in Nat BY <1>4, <1>5
      <4>4. now_us' <= now_us + 1 /\ now_us' \in Nat BY <1>4, <1>5
      <4>5. r.first \in Nat BY <2>2
      <4> QED BY <1>3, <1>4, <4>1, <4>2, <4>3, <4>4, <4>5, TickLater
    <3> QED BY <3>2, <3>4, <3>5, <3>7, <3>8 DEF EstInv
  <2> QED BY <2>6, <2>7
<1> QED BY <1>8, <1>9

\* A sample of a stalled send is not accepted in place of the right ones, and its run
\* does not last long enough to replace the estimate.
LEMMA StalledRun ==
  ASSUME EstInv, StalledSend, NEW s \in Stalls, Reject(s)
  PROVE  /\ ~Reseeds(Run(s))
         /\ (\E p \in Paths : RunOf(Good(p))) => StartsNewRun(s)
         /\ Run(s).first >= stalled_since
<1>1. /\ s \in Nat /\ STEP_MAX_US \in Nat /\ RESEED_MIN_SPAN_US \in Nat
  BY EstTypeAssumption
<1>2. /\ EstTypeOK /\ RunInv /\ StallInv
      /\ now_us \in Nat /\ stalled_since \in Nat /\ stalled_since # 0
      /\ now_us - stalled_since < RESEED_MIN_SPAN_US
      /\ stalled_since <= now_us
  BY DEF EstInv, EstTypeOK, StallInv, StalledSend
<1>3. (\E p \in Paths : RunOf(Good(p))) => StartsNewRun(s)
  <2> SUFFICES ASSUME NEW p \in Paths, RunOf(Good(p)), ~StartsNewRun(s) PROVE FALSE
    OBVIOUS
  <2>1. s - reject_min \in 1 - STEP_MAX_US .. STEP_MAX_US - 1 BY <1>1, <1>2, RunIs
  <2>2. s - reject_min \notin 1 - 2 * STEP_MAX_US .. 2 * STEP_MAX_US - 1
    BY StallIsFar DEF RunOf
  <2> QED BY <1>1, <2>1, <2>2, GoodIsGood DEF RunOf
<1>4. Run(s).first >= stalled_since
  <2>1. CASE StartsNewRun(s) BY <1>1, <1>2, <2>1, RunIs
  <2>2. CASE ~StartsNewRun(s)
    <3>1. reject_run > 0 /\ Run(s).first = reject_first_us BY <1>1, <1>2, <2>2, RunIs
    <3> QED BY <1>2, <1>3, <2>2, <3>1 DEF StallInv
  <2> QED BY <2>1, <2>2
<1>5. Run(s).first \in Nat BY <1>1, <1>2, RunIs
<1>6. now_us - Run(s).first < RESEED_MIN_SPAN_US BY <1>1, <1>2, <1>4, <1>5
<1>7. ~Reseeds(Run(s)) BY <1>1, <1>2, <1>5, <1>6 DEF Reseeds
<1> QED BY <1>3, <1>4, <1>7

LEMMA StalledSendKeeps ==
  ASSUME EstInv, StalledSend
  PROVE  EstInv'
<1>1. PICK s \in Stalls : Measured(s) BY DEF StalledSend
<1>2. /\ s \in Nat /\ RESEED_AFTER \in Nat /\ Stalls' = Stalls /\ s \in Samples
  BY EstTypeAssumption DEF Samples
<1>3. /\ EstTypeOK /\ RunInv /\ StallInv /\ Samples' = Samples
      /\ estimate_us \in Nat /\ now_us \in Nat /\ stalled_since \in Nat
      /\ reject_run \in Nat /\ reject_first_us \in Nat /\ path \in Paths
      /\ reject_min \in Nat /\ reject_max \in Nat
  BY DEF EstInv, EstTypeOK, Samples
<1>4. /\ path' = path /\ stalled_since # 0 /\ stalled_since' = stalled_since
      /\ moved' = "stalled" /\ good' = 0 /\ good_since' = 0
      /\ now_us' \in now_us .. now_us + 1
  BY <1>1, <1>3 DEF StalledSend, Measured, Wait
<1>5. /\ now_us' \in Nat /\ now_us <= now_us' BY <1>3, <1>4
<1>6. GoodInv' /\ RepairInv' BY <1>2, <1>4 DEF GoodInv, RepairInv
<1>7. LearnSend(s) BY <1>1 DEF Measured
<1>8. CASE ~InRange(s)
  <2>1. /\ estimate_us' = estimate_us /\ reject_run' = reject_run
        /\ reject_min' = reject_min /\ reject_max' = reject_max
        /\ reject_first_us' = reject_first_us
    BY <1>7, <1>8 DEF LearnSend, rejects
  <2>2. EstTypeOK' BY <1>2, <1>3, <1>4, <1>5, <2>1 DEF EstTypeOK
  <2>3. RunInv' BY <1>3, <1>5, <2>1 DEF RunInv, RunOf
  <2>4. StallInv' BY <1>3, <1>4, <1>5, <2>1 DEF StallInv, RunOf, Good
  <2> QED BY <1>6, <2>2, <2>3, <2>4 DEF EstInv
<1>9. CASE InRange(s) /\ (estimate_us = 0 \/ Normal(s))
  <2>1. /\ estimate_us' = IF estimate_us = 0 THEN s ELSE Smoothed(estimate_us, s)
        /\ reject_run' = 0 /\ reject_min' = 0 /\ reject_max' = 0 /\ reject_first_us' = 0
    BY <1>7, <1>9 DEF LearnSend, NoRun
  <2>2. estimate_us' \in Nat BY <1>2, <1>3, <2>1, SmoothedLiesBetween
  <2>3. EstTypeOK' BY <1>2, <1>3, <1>4, <1>5, <2>1, <2>2 DEF EstTypeOK
  <2>4. RunInv' BY <2>1 DEF RunInv
  <2>5. StallInv' BY <1>3, <1>4, <1>5, <2>1 DEF StallInv
  <2> QED BY <1>6, <2>3, <2>4, <2>5 DEF EstInv
<1>10. CASE InRange(s) /\ ~(estimate_us = 0 \/ Normal(s))
  <2> DEFINE r == Run(s)
  <2>1. Reject(s) BY <1>7, <1>10 DEF LearnSend
  <2>2. ~Reseeds(r) /\ r.first >= stalled_since BY <2>1, StalledRun
  <2>3. /\ reject_run' = r.n /\ reject_min' = r.min /\ reject_max' = r.max
        /\ reject_first_us' = r.first /\ estimate_us' = estimate_us
    BY <2>1, <2>2 DEF Reject
  <2>4. /\ r.n \in Nat \ {0} /\ r.min \in Nat /\ r.max \in Nat /\ r.first \in Nat
        /\ r.min <= r.max /\ r.first <= now_us
    BY <1>2, <1>3, RunIs
  <2>5. r.min \in Samples /\ r.max \in Samples
    <3>1. CASE StartsNewRun(s) BY <1>2, <1>3, <3>1, RunIs
    <3>2. CASE ~StartsNewRun(s)
      <4>1. r.min \in {reject_min, s} /\ r.max \in {reject_max, s} /\ reject_run > 0
        BY <1>2, <1>3, <3>2, RunIs
      <4> QED BY <1>2, <1>3, <4>1 DEF RunInv, RunOf
    <3> QED BY <3>1, <3>2
  <2> HIDE DEF r
  <2>6. EstTypeOK' BY <1>2, <1>3, <1>4, <1>5, <2>3, <2>4 DEF EstTypeOK
  <2>7. RunInv' BY <1>3, <1>5, <2>3, <2>4, <2>5 DEF RunInv, RunOf
  <2>8. StallInv' BY <1>3, <1>4, <1>5, <2>2, <2>3 DEF StallInv
  <2> QED BY <1>6, <2>6, <2>7, <2>8 DEF EstInv
<1> QED BY <1>8, <1>9, <1>10

\* No sample: an estimate that may move, a path that changes, a stall that begins
\* or ends.
LEMMA OthersKeep ==
  ASSUME EstInv, NoSend \/ PathChanges \/ StallBegins \/ StallEnds
  PROVE  EstInv'
<1>1. /\ EstTypeOK /\ RunInv /\ StallInv /\ GoodInv /\ RepairInv /\ Samples' = Samples
      /\ estimate_us \in Nat /\ now_us \in Nat /\ stalled_since \in Nat
      /\ reject_run \in Nat /\ reject_first_us \in Nat /\ path \in Paths
      /\ reject_min \in Nat /\ reject_max \in Nat
      /\ good \in 0 .. RESEED_AFTER /\ good_since \in Nat
      /\ RESEED_AFTER \in Nat \ {0}
  BY EstTypeAssumption DEF EstInv, EstTypeOK, Samples
<1>2. /\ reject_run' = reject_run /\ reject_min' = reject_min
      /\ reject_max' = reject_max /\ reject_first_us' = reject_first_us
      /\ now_us' = now_us /\ path' \in Paths
      /\ moved' # "normal"
  BY <1>1 DEF NoSend, LearnFallback, PathChanges, StallBegins, StallEnds, rejects
<1>3. RunInv' BY <1>1, <1>2 DEF RunInv, RunOf
<1>4. RepairInv' BY <1>2 DEF RepairInv
<1>5. CASE NoSend
  <2>1. /\ stalled_since' = stalled_since /\ path' = path /\ good' = 0 /\ good_since' = 0
    BY <1>5 DEF NoSend
  <2>2. estimate_us' \in Nat
    <3>1. PICK dur \in NoSends : LearnFallback(dur) BY <1>5 DEF NoSend
    <3>2. dur \in Nat BY EstTypeAssumption
    <3> QED BY <1>1, <3>1, <3>2, SmoothedLiesBetween DEF LearnFallback
  <2>3. EstTypeOK' BY <1>1, <1>2, <2>1, <2>2 DEF EstTypeOK
  <2>4. StallInv' BY <1>1, <1>2, <2>1 DEF StallInv, RunOf, Good
  <2>5. GoodInv' BY <2>1 DEF GoodInv
  <2> QED BY <1>3, <1>4, <2>3, <2>4, <2>5 DEF EstInv
<1>6. CASE PathChanges
  <2>1. /\ stalled_since' = stalled_since /\ estimate_us' = estimate_us
        /\ good' = 0 /\ good_since' = 0
    BY <1>6 DEF PathChanges
  <2>3. EstTypeOK' BY <1>1, <1>2, <2>1 DEF EstTypeOK
  <2>4. StallInv' BY <1>1, <1>2, <2>1 DEF StallInv, RunOf, Good
  <2>5. GoodInv' BY <2>1 DEF GoodInv
  <2> QED BY <1>3, <1>4, <2>3, <2>4, <2>5 DEF EstInv
<1>7. CASE StallBegins
  <2>1. /\ stalled_since' = now_us /\ estimate_us' = estimate_us /\ path' = path
        /\ good' = good /\ good_since' = good_since /\ good > 0
    BY <1>7 DEF StallBegins
  <2>3. EstTypeOK' BY <1>1, <1>2, <2>1 DEF EstTypeOK
  <2>4. StallInv' BY <1>1, <1>2, <2>1 DEF StallInv, GoodInv, RunOf, Good
  <2>5. GoodInv' BY <1>1, <1>2, <2>1 DEF GoodInv, Near, RunOf, Good
  <2> QED BY <1>3, <1>4, <2>3, <2>4, <2>5 DEF EstInv
<1>8. CASE StallEnds
  <2>1. /\ stalled_since' = 0 /\ estimate_us' = estimate_us /\ path' = path
        /\ good' = 0 /\ good_since' = 0
    BY <1>8 DEF StallEnds
  <2>3. EstTypeOK' BY <1>1, <1>2, <2>1 DEF EstTypeOK
  <2>4. StallInv' BY <2>1 DEF StallInv
  <2>5. GoodInv' BY <2>1 DEF GoodInv
  <2> QED BY <1>3, <1>4, <2>3, <2>4, <2>5 DEF EstInv
<1> QED BY <1>5, <1>6, <1>7, <1>8

LEMMA EstInvariant == EstSpec => []EstInv
<1>1. EstInit => EstInv
  <2> SUFFICES ASSUME EstInit PROVE EstInv OBVIOUS
  <2>1. EstTypeOK BY EstTypeAssumption DEF EstInit, EstTypeOK
  <2>2. good = 0 /\ reject_run = 0 /\ stalled_since = 0 /\ moved = "nothing" BY DEF EstInit
  <2> QED BY <2>1, <2>2 DEF EstInv, RunInv, StallInv, GoodInv, RepairInv
<1>2. EstInv /\ [EstNext]_estVars => EstInv'
  <2> SUFFICES ASSUME EstInv, [EstNext]_estVars PROVE EstInv' OBVIOUS
  <2>1. CASE NormalSend BY <2>1, NormalSendKeeps
  <2>2. CASE StalledSend BY <2>2, StalledSendKeeps
  <2>3. CASE NoSend \/ PathChanges \/ StallBegins \/ StallEnds BY <2>3, OthersKeep
  <2>4. CASE UNCHANGED estVars
    BY <2>4 DEF estVars, rejects, history, EstInv, EstTypeOK, RunInv, StallInv, GoodInv,
                RepairInv, RunOf, Good, Samples, Near
  <2> QED BY <2>1, <2>2, <2>3, <2>4 DEF EstNext
<1> QED BY <1>1, <1>2, PTL DEF EstSpec

\* A wrong estimate is right again after RESEED_AFTER normal sends over the span,
\* for every weight, step and number of paths (WrongEstimateIsRepaired).
THEOREM WrongEstimateIsRepairedHolds == EstSpec => []WrongEstimateIsRepaired
<1>1. EstInv => WrongEstimateIsRepaired
  <2> SUFFICES ASSUME EstInv, good >= RESEED_AFTER, moved = "normal", ~Near
               PROVE  ~(now_us - good_since > RESEED_MIN_SPAN_US)
    BY DEF WrongEstimateIsRepaired
  <2>1. now_us - good_since <= RESEED_MIN_SPAN_US BY DEF EstInv, RepairInv
  <2>2. now_us \in Nat /\ good_since \in Nat /\ RESEED_MIN_SPAN_US \in Nat
    BY EstTypeAssumption DEF EstInv, EstTypeOK
  <2> QED BY <2>1, <2>2
<1> QED BY <1>1, EstInvariant, PTL

\* Stalled sends, however many and however long their run, leave an estimate alone
\* that is right (StallsMoveNothing).
THEOREM StallsMoveNothingHolds == EstSpec => StallsMoveNothing
<1>1. EstInv /\ [EstNext]_estVars =>
        [moved' = "stalled" /\ Near => estimate_us' = estimate_us]_estVars
  <2> SUFFICES ASSUME EstInv, EstNext, moved' = "stalled", Near
               PROVE  estimate_us' = estimate_us
    BY DEF EstNext
  <2>1. StalledSend
    BY DEF EstNext, NormalSend, NoSend, PathChanges, StallBegins, StallEnds
  <2>2. PICK s \in Stalls : Measured(s) BY <2>1 DEF StalledSend
  <2>3. LearnSend(s) BY <2>2 DEF Measured
  <2>4. path \in Paths /\ path \in Nat /\ estimate_us \in Nat /\ Jitter \in Nat
        /\ STEP_MAX_US \in Nat /\ s \in Nat /\ Jitter < STEP_MAX_US
    BY EstTypeAssumption, EstimatorAssumption DEF EstInv, EstTypeOK
  <2>5. ~Normal(s)
    <3>1. path \in Good(path) /\ path + Jitter \in Good(path) BY <2>4 DEF Good
    <3>2. /\ s - path \notin 1 - 2 * STEP_MAX_US .. 2 * STEP_MAX_US - 1
          /\ s - (path + Jitter) \notin 1 - 2 * STEP_MAX_US .. 2 * STEP_MAX_US - 1
      BY <2>4, <3>1, StallIsFar
    <3> QED BY <2>4, <3>2 DEF Near, Normal
  <2>6. estimate_us # 0 BY DEF Near
  <2>7. CASE ~InRange(s) BY <2>3, <2>7 DEF LearnSend
  <2>8. CASE Reject(s)
    <3>1. ~Reseeds(Run(s)) BY <2>1, <2>8, StalledRun
    <3> QED BY <2>8, <3>1 DEF Reject
  <2> QED BY <2>3, <2>5, <2>6, <2>7, <2>8 DEF LearnSend
<1> QED BY <1>1, EstInvariant, PTL DEF EstSpec, StallsMoveNothing

=============================================================================
