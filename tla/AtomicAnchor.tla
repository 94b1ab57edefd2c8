----------------------------- MODULE AtomicAnchor -----------------------------
(***************************************************************************)
(* What get_pps_anchor() promises to the tasks that serve time: the pair   *)
(* is one that was published, and it is the current one.  A call may fail  *)
(* only "if no anchor has been published yet, or if a writer kept          *)
(* interrupting" (gps_pps_time.h).                                         *)
(***************************************************************************)
EXTENDS Naturals

CONSTANTS Reader, MaxPublish

VARIABLES
  current,     \* number of the pair in force; 0: none yet
  invalid,     \* numbers of the publications that withdrew the pair
  publishing,  \* a publication is under way
  reading,     \* readers inside a call
  disturbed,   \* those of them that met a publication
  answer       \* what each reader's last call returned

vars == <<current, invalid, publishing, reading, disturbed, answer>>

Failed == [ok |-> FALSE, pair |-> 0]
Got(n) == [ok |-> TRUE, pair |-> n]

Init ==
  /\ current = 0 /\ invalid = {0}
  /\ publishing = FALSE
  /\ reading = {} /\ disturbed = {}
  /\ answer = [r \in Reader |-> Failed]

BeginPublish ==
  /\ ~publishing /\ current < MaxPublish
  /\ publishing' = TRUE
  /\ disturbed' = reading
  /\ \/ UNCHANGED invalid
     \/ invalid' = invalid \cup {current + 1}
  /\ UNCHANGED <<current, reading, answer>>

EndPublish ==
  /\ publishing
  /\ publishing' = FALSE
  /\ current' = current + 1
  /\ UNCHANGED <<invalid, reading, disturbed, answer>>

BeginRead(r) ==
  /\ r \notin reading
  /\ reading' = reading \cup {r}
  /\ disturbed' = IF publishing THEN disturbed \cup {r} ELSE disturbed
  /\ UNCHANGED <<current, invalid, publishing, answer>>

EndRead(r) ==
  /\ r \in reading
  /\ reading' = reading \ {r}
  /\ disturbed' = disturbed \ {r}
  /\ \/ ~publishing /\ current \notin invalid /\ answer' = [answer EXCEPT ![r] = Got(current)]
     \/ ~publishing /\ current \in invalid /\ answer' = [answer EXCEPT ![r] = Failed]
     \/ r \in disturbed /\ answer' = [answer EXCEPT ![r] = Failed]
  /\ UNCHANGED <<current, invalid, publishing>>

Next ==
  \/ BeginPublish \/ EndPublish
  \/ \E r \in Reader : BeginRead(r) \/ EndRead(r)

Spec == Init /\ [][Next]_vars
=============================================================================
