----------------------- MODULE DeviceSyncQueueProofs -----------------------
(***************************************************************************)
(* What TLAPS proves of DeviceSyncQueue for any number of jobs, dedupe     *)
(* keys, targets, processes, loops, requesters and attempts, and for any   *)
(* faults: type correctness and the safety of the job table.               *)
(*                                                                         *)
(* Every action performs at most one statement on the table, so the        *)
(* invariants of the table are proved once per statement (TableStep).      *)
(***************************************************************************)
EXTENDS DeviceSyncQueue, TLAPS

\* The statements of the code, with the arguments they can be given.
TableStep ==
  \/ \E j \in Job, k \in Key, v \in Nat : InsertJob(j, k, v)
  \/ \E j \in Job, v \in Nat : UpdateQueuedJobPayload(j, v)
  \/ \E S \in SUBSET Job : CancelQueuedJobs(S)
  \/ \E S \in SUBSET {j \in Job : job[j].st \in Ended} : DeleteJobs(S)
  \/ \E j \in Job : RequestCancelRunningJob(j) \/ LeaseExpires(j)
  \/ \E p \in Proc, j \in Job : ClaimNextJob(p, j) \/ HeartbeatJob(p, j)
  \/ \E p \in Proc, j \in Job : \/ FinishJob(p, j, "done", "none")
                                \/ FinishJob(p, j, "failed", "error")
                                \/ FinishJob(p, j, "canceled", "canceled")
  \/ RecoverRunningJobs(StaleRunning, FALSE)
  \/ \E p \in Proc : RecoverRunningJobs(RunningOf(p), TRUE)
  \/ UNCHANGED tableVars

TableTypeOK == job \in [Job -> Row] /\ claims \in Nat

\* A running row has been claimed, and never more often than allowed.
RunningWithinAttempts ==
  \A j \in Job : job[j].st = "running" => job[j].attempts \in 1..MaxAttempts

\* Live rows carry a real dedupe key.
LiveHasKey == \A j \in Job : job[j].st # "none" => job[j].key \in Key

TableInv ==
  /\ LiveHasKey
  /\ OneQueuedPerDedupe
  /\ OneRunningPerTarget
  /\ RunningWithinAttempts
  /\ QueuedIsRunnable

-----------------------------------------------------------------------------
(* Types of the table. *)

\* The row a statement writes over a row is a row.
LEMMA RowUpdates ==
  ASSUME NEW row \in Row
  PROVE  /\ \A n \in Nat : [row EXCEPT !.ver = n] \in Row
         /\ [row EXCEPT !.cancel = TRUE] \in Row
         /\ [row EXCEPT !.fresh = FALSE] \in Row
         /\ [row EXCEPT !.fresh = TRUE] \in Row
         /\ [row EXCEPT !.st = "canceled", !.err = "canceled"] \in Row
         /\ [row EXCEPT !.st = "gone", !.cancel = FALSE] \in Row
<1> USE DEF Row, Status, Live, Ended, ErrorText
<1>1. \A n \in Nat : [row EXCEPT !.ver = n] \in Row
  OBVIOUS
<1>2. /\ [row EXCEPT !.cancel = TRUE] \in Row
      /\ [row EXCEPT !.fresh = FALSE] \in Row
      /\ [row EXCEPT !.fresh = TRUE] \in Row
  OBVIOUS
<1>3. [row EXCEPT !.st = "canceled", !.err = "canceled"] \in Row
  OBVIOUS
<1>4. [row EXCEPT !.st = "gone", !.cancel = FALSE] \in Row
  OBVIOUS
<1>5. QED
  BY <1>1, <1>2, <1>3, <1>4

\* So is a claimed row.
LEMMA RowClaimed ==
  ASSUME NEW row \in Row, NEW p \in Proc, NEW n \in Nat
  PROVE  [row EXCEPT !.st = "running", !.by = p, !.fresh = TRUE,
                     !.attempts = @ + 1, !.started = n] \in Row
<1>1. row.attempts + 1 \in Nat
  BY DEF Row
<1>2. QED
  BY <1>1 DEF Row, Status, Live

\* Every row in the scope of a recovery has one of the four fates.
LEMMA FateType ==
  ASSUME NEW S, NEW j, NEW graceful \in BOOLEAN
  PROVE  Fate(S, j, graceful) \in Fates
  BY DEF Fate, Fates

\* A recovered row is a row again.
LEMMA RecoveredType ==
  ASSUME NEW row \in Row, NEW fate \in Fates, NEW graceful \in BOOLEAN
  PROVE  Recovered(row, fate, graceful) \in Row
<1>1. CASE fate = "requeue"
  <2>1. Recovered(row, fate, graceful)
          = [row EXCEPT !.by = None, !.fresh = FALSE, !.st = "queued",
                        !.attempts = IF graceful /\ @ > 0 THEN @ - 1 ELSE @]
    BY <1>1 DEF Recovered, Row
  <2>2. (IF graceful /\ row.attempts > 0 THEN row.attempts - 1 ELSE row.attempts) \in Nat
    BY DEF Row
  <2>3. QED
    BY <2>1, <2>2 DEF Row, Status, Live
<1>2. CASE fate = "canceled"
  BY <1>2 DEF Recovered, Row, Status, Ended, ErrorText
<1>3. CASE fate = "superseded"
  BY <1>3 DEF Recovered, Row, Status, Ended, ErrorText
<1>4. CASE fate = "exhausted"
  BY <1>4 DEF Recovered, Row, Status, Ended, ErrorText
<1>5. QED
  BY <1>1, <1>2, <1>3, <1>4 DEF Fates

\* Every statement of the queue leaves a table of rows.
LEMMA TableTypeStep == TableTypeOK /\ TableStep => TableTypeOK'
<1> SUFFICES ASSUME TableTypeOK, TableStep PROVE TableTypeOK'
  OBVIOUS
<1> USE JobsAssumption DEF TableTypeOK
<1>0. \A j \in Job : job[j] \in Row
  OBVIOUS
<1>1. ASSUME NEW j \in Job, NEW k \in Key, NEW v \in Nat, InsertJob(j, k, v)
      PROVE  TableTypeOK'
  BY <1>1 DEF InsertJob, Row, NoRow, Status, Live, Ended, ErrorText
<1>2. ASSUME NEW j \in Job, NEW v \in Nat, UpdateQueuedJobPayload(j, v)
      PROVE  TableTypeOK'
  BY <1>0, <1>2, RowUpdates DEF UpdateQueuedJobPayload
<1>3. ASSUME NEW S \in SUBSET Job, CancelQueuedJobs(S) \/ DeleteJobs(S)
      PROVE  TableTypeOK'
  <2>1. \A j \in Job : /\ [job[j] EXCEPT !.st = "canceled", !.err = "canceled"] \in Row
                       /\ [job[j] EXCEPT !.st = "gone", !.cancel = FALSE] \in Row
    BY <1>0, RowUpdates
  <2>2. CASE CancelQueuedJobs(S)
    BY <2>1, <2>2 DEF CancelQueuedJobs
  <2>3. CASE DeleteJobs(S)
    BY <2>1, <2>3 DEF DeleteJobs
  <2>4. QED
    BY <1>3, <2>2, <2>3
<1>4. ASSUME NEW j \in Job, RequestCancelRunningJob(j) \/ LeaseExpires(j)
      PROVE  TableTypeOK'
  <2>1. /\ [job[j] EXCEPT !.cancel = TRUE] \in Row
        /\ [job[j] EXCEPT !.fresh = FALSE] \in Row
    BY <1>0 DEF Row
  <2>2. QED
    BY <1>4, <2>1 DEF RequestCancelRunningJob, LeaseExpires
<1>5. ASSUME NEW p \in Proc, NEW j \in Job, ClaimNextJob(p, j) \/ HeartbeatJob(p, j)
      PROVE  TableTypeOK'
  <2>1. [job[j] EXCEPT !.fresh = TRUE] \in Row
    BY <1>0 DEF Row
  <2> DEFINE n == IF job[j].started = 0 THEN claims + 1 ELSE job[j].started
             claimed == [job[j] EXCEPT !.st = "running", !.by = p, !.fresh = TRUE,
                                       !.attempts = @ + 1, !.started = n]
  <2>2. n \in Nat
    BY <1>0 DEF Row
  <2>3. claimed \in Row
    <3> HIDE DEF n
    <3> QED
      BY <1>0, <2>2, RowClaimed
  <2>4. CASE ClaimNextJob(p, j)
    <3>1. job' = [job EXCEPT ![j] = claimed] /\ claims' \in Nat
      BY <2>4 DEF ClaimNextJob
    <3> HIDE DEF claimed
    <3> QED
      BY <2>3, <3>1
  <2>5. CASE HeartbeatJob(p, j)
    BY <2>1, <2>5 DEF HeartbeatJob
  <2>6. QED
    BY <1>5, <2>4, <2>5
<1>6. ASSUME NEW p \in Proc, NEW j \in Job, NEW status \in Ended, NEW error \in ErrorText,
             FinishJob(p, j, status, error)
      PROVE  TableTypeOK'
  <2>1. [job[j] EXCEPT !.st = status, !.err = error, !.by = None, !.fresh = FALSE] \in Row
    BY <1>0 DEF Row, Status
  <2>2. QED
    BY <1>6, <2>1 DEF FinishJob
<1>7. ASSUME NEW S, NEW graceful \in BOOLEAN, RecoverRunningJobs(S, graceful)
      PROVE  TableTypeOK'
  BY <1>7, RecoveredType, FateType DEF RecoverRunningJobs
<1>8. CASE UNCHANGED tableVars
  BY <1>8 DEF tableVars
<1>9. {j \in Job : job[j].st \in Ended} \subseteq Job
  OBVIOUS
<1>10. QED
  BY <1>1, <1>2, <1>3, <1>4, <1>5, <1>6, <1>7, <1>8, <1>9 DEF TableStep, Ended, ErrorText

-----------------------------------------------------------------------------
(* Safety of the table. *)

\* A statement that changes one row, keeps its key and makes it neither queued
\* nor running keeps the invariants of the table; so does one that changes
\* neither its status nor what a queued row must satisfy.
LEMMA OneRowInv ==
  ASSUME TableTypeOK, TableInv, NEW j \in Job,
         job' \in [Job -> Row],
         \A i \in Job \ {j} : job'[i] = job[i],
         job'[j].key = job[j].key, job[j].st # "none",
         \/ job'[j].st \notin Live
         \/ /\ job'[j].st = job[j].st
            /\ job'[j].attempts = job[j].attempts
            /\ job[j].st = "queued" => job'[j].by = job[j].by /\ job'[j].cancel = job[j].cancel
  PROVE  TableInv'
<1> USE JobsAssumption
    DEF TableInv, LiveHasKey, OneQueuedPerDedupe, OneRunningPerTarget, RunningWithinAttempts,
        QueuedIsRunnable, TableTypeOK, Live, TargetOfJob
<1>1. LiveHasKey'
  OBVIOUS
<1>2. OneQueuedPerDedupe'
  OBVIOUS
<1>3. OneRunningPerTarget'
  OBVIOUS
<1>4. RunningWithinAttempts'
  OBVIOUS
<1>5. QueuedIsRunnable'
  OBVIOUS
<1>6. QED
  BY <1>1, <1>2, <1>3, <1>4, <1>5

\* Insert: the unique index keeps the queued keys apart.
LEMMA InsertInv ==
  ASSUME TableTypeOK, TableInv, TableTypeOK',
         NEW j \in Job, NEW k \in Key, NEW v \in Nat, InsertJob(j, k, v)
  PROVE  TableInv'
<1> USE JobsAssumption
<1>1. /\ job'[j].st = "queued" /\ job'[j].key = k /\ job'[j].by = None
      /\ job'[j].cancel = FALSE /\ job'[j].attempts = 0
      /\ \A i \in Job \ {j} : job'[i] = job[i]
  BY DEF InsertJob, NoRow, TableTypeOK
<1>2. \A i \in Job : job[i].st = "queued" => job[i].key # k
  BY DEF InsertJob, QueuedTwins
<1>3. LiveHasKey'
  BY <1>1 DEF TableInv, LiveHasKey
<1>4. OneQueuedPerDedupe'
  BY <1>1, <1>2 DEF TableInv, OneQueuedPerDedupe
<1>5. OneRunningPerTarget'
  BY <1>1 DEF TableInv, OneRunningPerTarget, TargetOfJob
<1>6. RunningWithinAttempts'
  BY <1>1 DEF TableInv, RunningWithinAttempts
<1>7. QueuedIsRunnable'
  <2> SUFFICES ASSUME NEW i \in Job, job'[i].st = "queued"
               PROVE  job'[i].by = None /\ ~job'[i].cancel /\ job'[i].attempts < MaxAttempts
    BY DEF QueuedIsRunnable
  <2>1. CASE i = j
    BY <1>1, <2>1
  <2>2. CASE i # j
    <3>1. job'[i] = job[i] /\ job[i].st = "queued"
      BY <1>1, <2>2
    <3>2. job[i].by = None /\ ~job[i].cancel /\ job[i].attempts < MaxAttempts
      BY <3>1 DEF TableInv, QueuedIsRunnable
    <3>3. QED
      BY <3>1, <3>2
  <2>3. QED
    BY <2>1, <2>2
<1>8. QED
  BY <1>3, <1>4, <1>5, <1>6, <1>7 DEF TableInv

\* Claim: its NOT EXISTS keeps the running targets apart, and a queued row has
\* an attempt left.
LEMMA ClaimInv ==
  ASSUME TableTypeOK, TableInv, TableTypeOK',
         NEW p \in Proc, NEW j \in Job, ClaimNextJob(p, j)
  PROVE  TableInv'
<1> USE JobsAssumption
<1>0. job[j] \in Row /\ job[j].attempts \in Nat
  BY DEF TableTypeOK, Row
<1>1. /\ job'[j].st = "running" /\ job'[j].key = job[j].key
      /\ job'[j].attempts = job[j].attempts + 1
      /\ \A i \in Job \ {j} : job'[i] = job[i]
  BY <1>0 DEF ClaimNextJob, TableTypeOK, Row
<1>2. job[j].st = "queued" /\ job[j].key \in Key /\ job[j].attempts < MaxAttempts
  BY DEF ClaimNextJob, Claimable, TableInv, LiveHasKey, QueuedIsRunnable
<1>3. \A i \in Job \ {j} : job[i].st = "running" => TargetOfJob(i) # TargetOfJob(j)
  BY DEF ClaimNextJob, Claimable, Live
<1>4. LiveHasKey'
  BY <1>1, <1>2 DEF TableInv, LiveHasKey
<1>5. OneQueuedPerDedupe'
  BY <1>1 DEF TableInv, OneQueuedPerDedupe
<1>6. OneRunningPerTarget'
  BY <1>1, <1>3 DEF TableInv, OneRunningPerTarget, TargetOfJob
<1>7. RunningWithinAttempts'
  BY <1>0, <1>1, <1>2 DEF TableInv, RunningWithinAttempts
<1>8. QueuedIsRunnable'
  BY <1>1 DEF TableInv, QueuedIsRunnable
<1>9. QED
  BY <1>4, <1>5, <1>6, <1>7, <1>8 DEF TableInv

\* What recovery makes of a running row: it keeps its key and is not running;
\* it is queued only as a runnable row whose key nobody waits under.
LEMMA RecoveredRow ==
  ASSUME TableTypeOK, TableInv, NEW S \in SUBSET Job, NEW graceful \in BOOLEAN,
         NEW j \in S, job[j].st = "running",
         NEW new, new = Recovered(job[j], Fate(S, j, graceful), graceful)
  PROVE  /\ new.key = job[j].key
         /\ new.st # "running"
         /\ new.st = "queued" => /\ QueuedTwins(job[j].key) = {}
                                 /\ new.by = None /\ ~new.cancel
                                 /\ new.attempts < MaxAttempts
<1> USE JobsAssumption
<1>0. /\ job[j] \in Row /\ job[j].attempts \in 1..MaxAttempts
      /\ job[j].attempts \in Nat /\ MaxAttempts \in Nat
  BY DEF TableTypeOK, TableInv, RunningWithinAttempts, Row
<1> DEFINE fate == Fate(S, j, graceful)
<1>1. CASE fate = "requeue"
  <2>1. new = [job[j] EXCEPT !.by = None, !.fresh = FALSE, !.st = "queued",
                  !.attempts = IF graceful /\ @ > 0 THEN @ - 1 ELSE @]
    BY <1>1, <1>0 DEF Recovered, Row
  <2>2. /\ ~job[j].cancel /\ QueuedTwins(job[j].key) = {}
        /\ graceful \/ job[j].attempts < MaxAttempts
    BY <1>0, <1>1 DEF Fate
  <2>3. new.key = job[j].key /\ new.st = "queued" /\ new.by = None /\ new.cancel = job[j].cancel
    BY <1>0, <2>1 DEF Row
  <2>4. new.attempts = IF graceful /\ job[j].attempts > 0 THEN job[j].attempts - 1 ELSE job[j].attempts
    BY <1>0, <2>1 DEF Row
  <2>5. new.attempts < MaxAttempts
    BY <1>0, <2>2, <2>4
  <2>6. QED
    BY <2>2, <2>3, <2>5
<1>2. CASE fate = "canceled"
  BY <1>0, <1>2 DEF Recovered, Row
<1>3. CASE fate = "superseded"
  BY <1>0, <1>3 DEF Recovered, Row
<1>4. CASE fate = "exhausted"
  BY <1>0, <1>4 DEF Recovered, Row
<1>5. fate \in Fates
  BY FateType
<1>6. QED
  BY <1>1, <1>2, <1>3, <1>4, <1>5 DEF Fates

\* Recovery of a set of running rows.
LEMMA RecoverInv ==
  ASSUME TableTypeOK, TableInv, TableTypeOK',
         NEW S \in SUBSET Job, NEW graceful \in BOOLEAN,
         \A j \in S : job[j].st = "running", RecoverRunningJobs(S, graceful)
  PROVE  TableInv'
<1> USE JobsAssumption
<1>1. \A j \in S : /\ job'[j].key = job[j].key
                   /\ job'[j].st # "running"
                   /\ job'[j].st = "queued" => /\ QueuedTwins(job[j].key) = {}
                                               /\ job'[j].by = None /\ ~job'[j].cancel
                                               /\ job'[j].attempts < MaxAttempts
  <2> TAKE j \in S
  <2>1. job'[j] = Recovered(job[j], Fate(S, j, graceful), graceful)
    BY DEF RecoverRunningJobs
  <2>2. QED
    BY <2>1, RecoveredRow
<1>2. \A j \in Job \ S : job'[j] = job[j]
  BY DEF RecoverRunningJobs
<1>3. LiveHasKey'
  BY <1>1, <1>2 DEF TableInv, LiveHasKey
<1>4. OneQueuedPerDedupe'
  <2> SUFFICES ASSUME NEW i \in Job, NEW j \in Job,
                      job'[i].st = "queued", job'[j].st = "queued", job'[i].key = job'[j].key
               PROVE  i = j
    BY DEF OneQueuedPerDedupe
  <2>1. CASE i \in S /\ j \in S      \* both ran: they had the same target
    BY <1>1, <2>1 DEF TableInv, OneRunningPerTarget, TargetOfJob
  <2>2. CASE i \in S /\ j \notin S   \* j waited under the key: i is superseded
    <3>1. j \in QueuedTwins(job[i].key)
      BY <1>1, <1>2, <2>2 DEF QueuedTwins
    <3>2. QueuedTwins(job[i].key) = {}
      BY <1>1, <2>2
    <3>3. QED
      BY <3>1, <3>2
  <2>3. CASE i \notin S /\ j \in S
    <3>1. i \in QueuedTwins(job[j].key)
      BY <1>1, <1>2, <2>3 DEF QueuedTwins
    <3>2. QueuedTwins(job[j].key) = {}
      BY <1>1, <2>3
    <3>3. QED
      BY <3>1, <3>2
  <2>4. CASE i \notin S /\ j \notin S
    BY <1>2, <2>4 DEF TableInv, OneQueuedPerDedupe
  <2>5. QED
    BY <2>1, <2>2, <2>3, <2>4
<1>5. OneRunningPerTarget'
  BY <1>1, <1>2 DEF TableInv, OneRunningPerTarget, TargetOfJob
<1>6. RunningWithinAttempts'
  BY <1>1, <1>2 DEF TableInv, RunningWithinAttempts
<1>7. QueuedIsRunnable'
  <2> SUFFICES ASSUME NEW i \in Job, job'[i].st = "queued"
               PROVE  job'[i].by = None /\ ~job'[i].cancel /\ job'[i].attempts < MaxAttempts
    BY DEF QueuedIsRunnable
  <2>1. CASE i \in S
    BY <1>1, <2>1
  <2>2. CASE i \notin S
    <3>1. job'[i] = job[i] /\ job[i].st = "queued"
      BY <1>2, <2>2
    <3>2. job[i].by = None /\ ~job[i].cancel /\ job[i].attempts < MaxAttempts
      BY <3>1 DEF TableInv, QueuedIsRunnable
    <3>3. QED
      BY <3>1, <3>2
  <2>3. QED
    BY <2>1, <2>2
<1>8. QED
  BY <1>3, <1>4, <1>5, <1>6, <1>7 DEF TableInv

\* Statements that end or delete a set of rows.
LEMMA EndRowsInv ==
  ASSUME TableTypeOK, TableInv, TableTypeOK', NEW S \in SUBSET Job,
         \A j \in Job \ S : job'[j] = job[j],
         \A j \in S : /\ job[j].st # "none" /\ job'[j].key = job[j].key
                      /\ job'[j].st \notin Live
  PROVE  TableInv'
<1>1. \A j \in Job : job'[j].st \in Live => job'[j] = job[j]
  OBVIOUS
<1>2. LiveHasKey'
  BY DEF TableInv, LiveHasKey
<1>3. OneQueuedPerDedupe'
  BY <1>1 DEF TableInv, OneQueuedPerDedupe, Live
<1>4. OneRunningPerTarget'
  BY <1>1 DEF TableInv, OneRunningPerTarget, TargetOfJob, Live
<1>5. RunningWithinAttempts'
  BY <1>1 DEF TableInv, RunningWithinAttempts, Live
<1>6. QueuedIsRunnable'
  BY <1>1 DEF TableInv, QueuedIsRunnable, Live
<1>7. QED
  BY <1>2, <1>3, <1>4, <1>5, <1>6 DEF TableInv

\* Every statement keeps the invariants of the table.
LEMMA TableInvStep == TableTypeOK /\ TableInv /\ TableStep => TableInv'
<1> SUFFICES ASSUME TableTypeOK, TableInv, TableStep PROVE TableInv'
  OBVIOUS
<1>0. TableTypeOK' /\ \A j \in Job : job[j] \in Row
  BY TableTypeStep DEF TableTypeOK
<1>1. ASSUME NEW j \in Job, NEW k \in Key, NEW v \in Nat, InsertJob(j, k, v)
      PROVE  TableInv'
  BY <1>0, <1>1, InsertInv
<1>2. ASSUME NEW j \in Job, NEW v \in Nat, UpdateQueuedJobPayload(j, v)
      PROVE  TableInv'
  <2>1. /\ job' \in [Job -> Row] /\ job[j].st = "queued"
        /\ \A i \in Job \ {j} : job'[i] = job[i]
        /\ job'[j] = [job[j] EXCEPT !.ver = v]
    BY <1>0, <1>2 DEF UpdateQueuedJobPayload, TableTypeOK
  <2>2. /\ job'[j].st = job[j].st /\ job'[j].key = job[j].key /\ job'[j].by = job[j].by
        /\ job'[j].attempts = job[j].attempts /\ job'[j].cancel = job[j].cancel
    BY <1>0, <2>1 DEF Row
  <2>3. QED
    BY <2>1, <2>2, OneRowInv
<1>3. ASSUME NEW S \in SUBSET Job, CancelQueuedJobs(S)
      PROVE  TableInv'
  <2> DEFINE Q == {j \in S : job[j].st = "queued"}
  <2>1. \A j \in Q : job'[j] = [job[j] EXCEPT !.st = "canceled", !.err = "canceled"]
    BY <1>3 DEF CancelQueuedJobs
  <2>2. \A j \in Q : job'[j].st = "canceled" /\ job'[j].key = job[j].key
    <3> TAKE j \in Q
    <3>1. job[j] \in Row
      BY <1>0
    <3>2. QED
      BY <2>1, <3>1 DEF Row
  <2>3. \A j \in Job \ Q : job'[j] = job[j]
    BY <1>3 DEF CancelQueuedJobs
  <2>4. Q \in SUBSET Job /\ \A j \in Q : /\ job[j].st # "none" /\ job'[j].key = job[j].key
                                        /\ job'[j].st \notin Live
    BY <2>2 DEF Live
  <2> HIDE DEF Q
  <2>5. QED
    BY <1>0, <2>3, <2>4, EndRowsInv
<1>4. ASSUME NEW S \in SUBSET {j \in Job : job[j].st \in Ended}, DeleteJobs(S)
      PROVE  TableInv'
  <2>1. \A j \in S : job'[j] = [job[j] EXCEPT !.st = "gone", !.cancel = FALSE]
    BY <1>4 DEF DeleteJobs
  <2>2. \A j \in S : job'[j].st = "gone" /\ job'[j].key = job[j].key
    BY <1>0, <2>1 DEF Row
  <2>3. \A j \in Job \ S : job'[j] = job[j]
    BY <1>4 DEF DeleteJobs
  <2>4. S \in SUBSET Job /\ \A j \in S : /\ job[j].st # "none" /\ job'[j].key = job[j].key
                                        /\ job'[j].st \notin Live
    BY <2>2 DEF Live, Ended
  <2>5. QED
    BY <1>0, <2>3, <2>4, EndRowsInv
<1>5. ASSUME NEW j \in Job, RequestCancelRunningJob(j) \/ LeaseExpires(j)
      PROVE  TableInv'
  <2>1. /\ job' \in [Job -> Row] /\ job[j].st = "running"
        /\ \A i \in Job \ {j} : job'[i] = job[i]
        /\ job'[j] \in {[job[j] EXCEPT !.cancel = TRUE], [job[j] EXCEPT !.fresh = FALSE]}
    BY <1>0, <1>5 DEF RequestCancelRunningJob, LeaseExpires, TableTypeOK
  <2>2. /\ job'[j].st = job[j].st /\ job'[j].key = job[j].key
        /\ job'[j].attempts = job[j].attempts
    BY <1>0, <2>1 DEF Row
  <2>3. QED
    BY <2>1, <2>2, OneRowInv
<1>6. ASSUME NEW p \in Proc, NEW j \in Job, ClaimNextJob(p, j)
      PROVE  TableInv'
  BY <1>0, <1>6, ClaimInv
<1>7. ASSUME NEW p \in Proc, NEW j \in Job, HeartbeatJob(p, j)
      PROVE  TableInv'
  <2>1. /\ job' \in [Job -> Row] /\ job[j].st = "running"
        /\ \A i \in Job \ {j} : job'[i] = job[i]
        /\ job'[j] = [job[j] EXCEPT !.fresh = TRUE]
    BY <1>0, <1>7 DEF HeartbeatJob, Owned, TableTypeOK
  <2>2. /\ job'[j].st = job[j].st /\ job'[j].key = job[j].key
        /\ job'[j].attempts = job[j].attempts
    BY <1>0, <2>1 DEF Row
  <2>3. QED
    BY <2>1, <2>2, OneRowInv
<1>8. ASSUME NEW p \in Proc, NEW j \in Job, NEW status \in Ended, NEW error,
             FinishJob(p, j, status, error)
      PROVE  TableInv'
  <2>1. /\ job' \in [Job -> Row] /\ job[j].st = "running"
        /\ \A i \in Job \ {j} : job'[i] = job[i]
        /\ job'[j] = [job[j] EXCEPT !.st = status, !.err = error, !.by = None, !.fresh = FALSE]
    BY <1>0, <1>8 DEF FinishJob, Owned, TableTypeOK
  <2>2. job'[j].st = status /\ job'[j].key = job[j].key
    BY <1>0, <2>1 DEF Row
  <2>3. QED
    BY <2>1, <2>2, OneRowInv DEF Live, Ended
<1>9. CASE RecoverRunningJobs(StaleRunning, FALSE)
  <2>1. StaleRunning \in SUBSET Job /\ \A j \in StaleRunning : job[j].st = "running"
    BY DEF StaleRunning
  <2>2. QED
    BY <1>0, <1>9, <2>1, RecoverInv
<1>10. ASSUME NEW p \in Proc, RecoverRunningJobs(RunningOf(p), TRUE)
       PROVE  TableInv'
  <2>1. RunningOf(p) \in SUBSET Job /\ \A j \in RunningOf(p) : job[j].st = "running"
    BY DEF RunningOf, Owned
  <2>2. QED
    BY <1>0, <1>10, <2>1, RecoverInv
<1>11. CASE UNCHANGED tableVars
  BY <1>11 DEF tableVars, TableInv, LiveHasKey, OneQueuedPerDedupe, OneRunningPerTarget,
               RunningWithinAttempts, QueuedIsRunnable, TargetOfJob
<1>12. QED
  BY <1>1, <1>2, <1>3, <1>4, <1>5, <1>6, <1>7, <1>8, <1>9, <1>10, <1>11 DEF TableStep, Ended

-----------------------------------------------------------------------------
(* Every action is one statement on the table, and keeps the types. *)

\* What an action leaves of the local state, when it touches no person.
PersonTypeOK ==
  /\ wanted \in [Target -> Nat]
  /\ entity \in [Target -> {"none", "pending_sync", "synced", "sync_failed"}]
  /\ eligible \in [Target -> BOOLEAN]
  /\ device \in [Target -> Nat]

WorkerTypeOK ==
  /\ worker \in [Worker -> WorkerState]
  /\ \A w \in Worker :
       /\ worker[w].pc \in Busy => worker[w].job \in Job
       /\ worker[w].pc = "persist" => worker[w].out \in {"synced", "sync_failed"}

ProcTypeOK ==
  /\ proc \in [Proc -> Alive \cup {"down"}]
  /\ abandoned \in [Proc -> SUBSET Job]

RequestTypeOK ==
  /\ req \in [Requester -> RequestState]
  /\ \A r \in Requester : /\ req[r].pc # "idle" => req[r].key \in Key
                          /\ req[r].pc \in {"merge", "remerge"} => req[r].job \in Job

AdminTypeOK ==
  /\ admin \in AdminState
  /\ admin.pc \in {"queued", "running"} => admin.job \in Job

LEMMA TypeParts ==
  TypeOK <=> TableTypeOK /\ ProcTypeOK /\ WorkerTypeOK /\ RequestTypeOK /\ AdminTypeOK /\ PersonTypeOK
BY DEF TypeOK, TableTypeOK, ProcTypeOK, WorkerTypeOK, RequestTypeOK, AdminTypeOK, PersonTypeOK

LEMMA TypePartsNext ==
  TypeOK' <=> /\ TableTypeOK' /\ ProcTypeOK' /\ WorkerTypeOK' /\ RequestTypeOK'
              /\ AdminTypeOK' /\ PersonTypeOK'
BY DEF TypeOK, TableTypeOK, ProcTypeOK, WorkerTypeOK, RequestTypeOK, AdminTypeOK, PersonTypeOK

\* The calls that enqueue.
LEMMA RequestsStep ==
  ASSUME TypeOK, LiveHasKey, Requests
  PROVE  /\ TableStep
         /\ ProcTypeOK' /\ WorkerTypeOK' /\ RequestTypeOK' /\ AdminTypeOK' /\ PersonTypeOK'
<1> USE JobsAssumption DEF procVars, personVars
<1>0. TableTypeOK /\ ProcTypeOK /\ WorkerTypeOK /\ RequestTypeOK /\ AdminTypeOK /\ PersonTypeOK
  BY TypeParts
<1> DEFINE Good == /\ TableStep
                   /\ ProcTypeOK' /\ WorkerTypeOK' /\ RequestTypeOK' /\ AdminTypeOK' /\ PersonTypeOK'
<1>1. ASSUME UNCHANGED procVars PROVE ProcTypeOK' /\ WorkerTypeOK'
  BY <1>0, <1>1 DEF ProcTypeOK, WorkerTypeOK
<1>2. ASSUME UNCHANGED admin PROVE AdminTypeOK'
  BY <1>0, <1>2 DEF AdminTypeOK
<1>3. ASSUME UNCHANGED personVars PROVE PersonTypeOK'
  BY <1>0, <1>3 DEF PersonTypeOK
<1>4. ASSUME NEW r \in Requester, NEW q \in RequestState, req' = [req EXCEPT ![r] = q],
             q.pc # "idle" => q.key \in Key,
             q.pc \in {"merge", "remerge"} => q.job \in Job
      PROVE  RequestTypeOK'
  BY <1>0, <1>4 DEF RequestTypeOK
<1>5. NoRequest \in RequestState /\ NoRequest.pc = "idle"
  BY DEF NoRequest, RequestState, RequestPc
<1>6. ASSUME NEW r \in Requester, NEW k \in Key, Ask(r, k)
      PROVE  Good
  <2> DEFINE q == [pc |-> "find", key |-> k, ver |-> wanted[TargetOf[k]] + 1, job |-> None]
  <2>1. TargetOf[k] \in Target /\ wanted[TargetOf[k]] + 1 \in Nat
    BY <1>0 DEF PersonTypeOK
  <2>2. q \in RequestState /\ q.pc = "find" /\ q.key \in Key
    BY <2>1 DEF RequestState, RequestPc
  <2>3. req' = [req EXCEPT ![r] = q]
    BY <1>6 DEF Ask
  <2>4. PersonTypeOK'
    BY <1>0, <1>6, <2>1 DEF Ask, PersonTypeOK, PersistPerson
  <2>5. UNCHANGED tableVars /\ UNCHANGED procVars /\ UNCHANGED admin
    BY <1>6 DEF Ask
  <2> HIDE DEF q
  <2>6. RequestTypeOK'
    BY <1>4, <2>2, <2>3
  <2>7. QED
    BY <1>1, <1>2, <2>4, <2>5, <2>6 DEF TableStep
<1>7. ASSUME NEW r \in Requester, NEW j \in Job, Retry(r, j)
      PROVE  Good
  <2> DEFINE q == [pc |-> "find", key |-> job[j].key, ver |-> job[j].ver, job |-> None]
  <2>1. job[j].key \in Key /\ job[j].ver \in Nat
    BY <1>0, <1>7 DEF Retry, LiveHasKey, TableTypeOK, Row
  <2>2. q \in RequestState /\ q.pc = "find" /\ q.key \in Key
    BY <2>1 DEF RequestState, RequestPc
  <2>3. req' = [req EXCEPT ![r] = q]
    BY <1>7 DEF Retry
  <2>4. UNCHANGED tableVars /\ UNCHANGED procVars /\ UNCHANGED admin /\ UNCHANGED personVars
    BY <1>7 DEF Retry
  <2> HIDE DEF q
  <2>5. RequestTypeOK'
    BY <1>4, <2>2, <2>3
  <2>6. QED
    BY <1>1, <1>2, <1>3, <2>4, <2>5 DEF TableStep
<1>8. ASSUME NEW r \in Requester, FindActive(r) \/ DropRequest(r)
      PROVE  Good
  <2>1. UNCHANGED tableVars /\ UNCHANGED procVars /\ UNCHANGED admin /\ UNCHANGED personVars
    BY <1>8 DEF FindActive, DropRequest
  <2>2. RequestTypeOK'
    BY <1>0, <1>4, <1>5, <1>8
       DEF FindActive, DropRequest, RequestTypeOK, RequestState, RequestPc, QueuedTwins
  <2>3. QED
    BY <1>1, <1>2, <1>3, <2>1, <2>2 DEF TableStep
<1>9. ASSUME NEW r \in Requester, MergeQueued(r) \/ MergeRaced(r)
      PROVE  Good
  <2>1. UNCHANGED procVars /\ UNCHANGED admin /\ UNCHANGED personVars
    BY <1>9 DEF MergeQueued, MergeRaced
  <2>2. req[r].ver \in Nat /\ req[r].job \in Job
    BY <1>0, <1>9 DEF MergeQueued, MergeRaced, RequestTypeOK, RequestState
  <2>3. TableStep
    BY <1>9, <2>2 DEF MergeQueued, MergeRaced, TableStep
  <2>4. RequestTypeOK'
    BY <1>0, <1>4, <1>5, <1>9 DEF MergeQueued, MergeRaced, RequestTypeOK, RequestState, RequestPc
  <2>5. QED
    BY <1>1, <1>2, <1>3, <2>1, <2>3, <2>4
<1>10. ASSUME NEW r \in Requester, InsertOrCatch(r)
       PROVE  Good
  <2>1. UNCHANGED procVars /\ UNCHANGED admin /\ UNCHANGED personVars
    BY <1>10 DEF InsertOrCatch
  <2>2. req[r].ver \in Nat /\ req[r].key \in Key
    BY <1>0, <1>10 DEF InsertOrCatch, RequestTypeOK, RequestState
  <2>3. TableStep
    BY <1>10, <2>2 DEF InsertOrCatch, TableStep
  <2>4. RequestTypeOK'
    BY <1>0, <1>4, <1>5, <1>10 DEF InsertOrCatch, RequestTypeOK, RequestState, RequestPc
  <2>5. QED
    BY <1>1, <1>2, <1>3, <2>1, <2>3, <2>4
<1>11. ASSUME NEW r \in Requester, FindRaced(r)
       PROVE  Good
  <2>1. UNCHANGED tableVars /\ UNCHANGED procVars /\ UNCHANGED admin
    BY <1>11 DEF FindRaced
  <2>2. PersonTypeOK'
    BY <1>0, <1>11 DEF FindRaced, PersonTypeOK, PersistPerson
  <2>3. RequestTypeOK'
    BY <1>0, <1>4, <1>5, <1>11
       DEF FindRaced, RequestTypeOK, RequestState, RequestPc, QueuedTwins
  <2>4. QED
    BY <1>1, <1>2, <2>1, <2>2, <2>3 DEF TableStep
<1>12. ASSUME NEW r \in Requester, NEW k \in Key, ReconcileReads(r, k)
       PROVE  Good
  <2> DEFINE q == [NoRequest EXCEPT !.pc = "listed", !.key = k]
  <2>1. q \in RequestState /\ q.pc = "listed" /\ q.key \in Key
    BY DEF NoRequest, RequestState, RequestPc
  <2>2. /\ req' = [req EXCEPT ![r] = q]
        /\ UNCHANGED tableVars /\ UNCHANGED procVars /\ UNCHANGED admin /\ UNCHANGED personVars
    BY <1>12 DEF ReconcileReads
  <2> HIDE DEF q
  <2>3. RequestTypeOK'
    BY <1>4, <2>1, <2>2
  <2>4. QED
    BY <1>1, <1>2, <1>3, <2>2, <2>3 DEF TableStep
<1>13. ASSUME NEW r \in Requester, ReconcileAsks(r)
       PROVE  Good
  <2> DEFINE t == TargetOf[req[r].key]
             q == [req[r] EXCEPT !.pc = "find", !.ver = wanted[t]]
  <2>1. /\ UNCHANGED tableVars /\ UNCHANGED procVars /\ UNCHANGED admin
        /\ UNCHANGED <<wanted, eligible, device>>
        /\ req[r] \in RequestState /\ req[r].key \in Key /\ t \in Target
    BY <1>0, <1>13 DEF ReconcileAsks, RequestTypeOK
  <2>2. wanted[t] \in Nat
    BY <1>0, <2>1 DEF PersonTypeOK
  <2>3. q \in RequestState /\ q.pc = "find" /\ q.key \in Key
    BY <2>1, <2>2 DEF RequestState, RequestPc
  <2>4. req' = [req EXCEPT ![r] = q] \/ req' = [req EXCEPT ![r] = NoRequest]
    BY <1>0, <1>13 DEF ReconcileAsks, RequestTypeOK
  <2> HIDE DEF q
  <2>5. RequestTypeOK'
    BY <1>4, <1>5, <2>3, <2>4
  <2>6. PersonTypeOK'
    BY <1>0, <1>13, <2>1 DEF ReconcileAsks, PersonTypeOK, PersistPerson
  <2>7. QED
    BY <1>1, <1>2, <2>1, <2>5, <2>6 DEF TableStep
<1>14. QED
  BY <1>6, <1>7, <1>8, <1>9, <1>10, <1>11, <1>12, <1>13 DEF Requests, Request

\* A step of a loop inside its job keeps the job.
LEMMA GoToType ==
  ASSUME WorkerTypeOK, NEW w \in Worker, NEW pc \in Busy, NEW out \in Outcome,
         pc = "persist" => out \in {"synced", "sync_failed"},
         worker[w].pc \in Busy, GoTo(w, pc, out)
  PROVE  WorkerTypeOK'
<1> DEFINE next == [worker[w] EXCEPT !.pc = pc, !.out = out]
<1>1. worker[w] \in WorkerState /\ worker[w].job \in Job
  BY DEF WorkerTypeOK
<1>2. /\ next \in WorkerState /\ next.job \in Job
      /\ next.pc = "persist" => next.out \in {"synced", "sync_failed"}
  BY <1>1 DEF WorkerState, Busy
<1>3. worker' = [worker EXCEPT ![w] = next]
  BY DEF GoTo
<1> HIDE DEF next
<1>4. QED
  BY <1>2, <1>3 DEF WorkerTypeOK

\* A loop that rests holds nothing.
LEMMA RestingType ==
  ASSUME WorkerTypeOK, NEW w \in Worker, NEW pc \in {"idle", "polling", "exited"},
         worker' = [worker EXCEPT ![w] = Resting(pc)]
  PROVE  WorkerTypeOK'
<1>1. Resting(pc) \in WorkerState /\ Resting(pc).pc \notin Busy \cup {"persist"}
  BY DEF Resting, WorkerState, WorkerPc, Busy, Outcome
<1>2. QED
  BY <1>1 DEF WorkerTypeOK

\* The loops of the worker.
LEMMA WorkersStep ==
  ASSUME TypeOK, Workers
  PROVE  /\ TableStep
         /\ ProcTypeOK' /\ WorkerTypeOK' /\ RequestTypeOK' /\ AdminTypeOK' /\ PersonTypeOK'
<1> USE JobsAssumption, QueueAssumption DEF personVars
<1>0. TableTypeOK /\ ProcTypeOK /\ WorkerTypeOK /\ RequestTypeOK /\ AdminTypeOK /\ PersonTypeOK
  BY TypeParts
<1> DEFINE Good == /\ TableStep
                   /\ ProcTypeOK' /\ WorkerTypeOK' /\ RequestTypeOK' /\ AdminTypeOK' /\ PersonTypeOK'
<1>1. ASSUME UNCHANGED <<proc, abandoned, req, admin>>
      PROVE  ProcTypeOK' /\ RequestTypeOK' /\ AdminTypeOK'
  BY <1>0, <1>1 DEF ProcTypeOK, RequestTypeOK, AdminTypeOK
<1>2. ASSUME UNCHANGED personVars PROVE PersonTypeOK'
  BY <1>0, <1>2 DEF PersonTypeOK
<1>3. ASSUME NEW t, NEW status \in {"synced", "sync_failed"}, PersistPerson(t, status),
             UNCHANGED <<wanted, eligible, device>>
      PROVE  PersonTypeOK'
  BY <1>0, <1>3 DEF PersonTypeOK, PersistPerson
<1>4. \A w \in Worker : AfterJob(w) \in {Resting("idle"), Resting("exited")}
  BY DEF AfterJob
<1>5. ASSUME NEW w \in Worker, worker' = [worker EXCEPT ![w] = AfterJob(w)]
      PROVE  WorkerTypeOK'
  <2>1. \/ worker' = [worker EXCEPT ![w] = Resting("idle")]
        \/ worker' = [worker EXCEPT ![w] = Resting("exited")]
    BY <1>4, <1>5
  <2>2. QED
    BY <1>0, <2>1, RestingType
<1>6. \A w \in Worker : ProcOf[w] \in Proc /\ worker[w] \in WorkerState
  BY <1>0 DEF WorkerTypeOK
<1>7. {"begin", "run", "again", "persist", "check", "finish", "end", "settle"} \subseteq Busy
  BY DEF Busy, WorkerPc
<1>8. \A w \in Worker : worker[w].out \in Outcome /\ worker[w].ver \in Nat
  BY <1>6 DEF WorkerState
<1>9. {"none", "synced", "sync_failed", "canceled"} = Outcome
  BY DEF Outcome
<1>10. ASSUME NEW w \in Worker, Claim(w) PROVE Good
  <2>1. PICK j \in Job : /\ ClaimNextJob(ProcOf[w], j)
                         /\ worker' = [worker EXCEPT ![w] = [pc |-> "begin", job |-> j,
                                                            ver |-> job[j].ver, out |-> "none"]]
    BY <1>10 DEF Claim
  <2>2. UNCHANGED <<proc, abandoned, req, admin>> /\ UNCHANGED personVars
    BY <1>10 DEF Claim
  <2> DEFINE q == [pc |-> "begin", job |-> j, ver |-> job[j].ver, out |-> "none"]
  <2>3. q \in WorkerState /\ q.job \in Job /\ q.pc # "persist"
    BY <1>0 DEF WorkerState, WorkerPc, Outcome, TableTypeOK, Row
  <2>4. worker' = [worker EXCEPT ![w] = q]
    BY <2>1
  <2> HIDE DEF q
  <2>5. WorkerTypeOK'
    BY <1>0, <2>3, <2>4 DEF WorkerTypeOK
  <2>6. TableStep
    BY <1>6, <2>1 DEF TableStep
  <2>7. QED
    BY <1>1, <1>2, <2>2, <2>5, <2>6
<1>11. ASSUME NEW w \in Worker, PollNothing(w) PROVE Good
  BY <1>0, <1>1, <1>2, <1>11, RestingType DEF PollNothing, TableStep
<1>12. ASSUME NEW w \in Worker, Beat(w) PROVE Good
  <2>1. HeartbeatJob(ProcOf[w], worker[w].job) /\ worker[w].job \in Job
    BY <1>0, <1>12 DEF Beat, WorkerTypeOK
  <2>2. UNCHANGED <<proc, abandoned, req, admin>> /\ UNCHANGED personVars /\ UNCHANGED worker
    BY <1>12 DEF Beat, procVars
  <2>3. WorkerTypeOK'
    BY <1>0, <2>2 DEF WorkerTypeOK
  <2>4. TableStep
    BY <1>6, <2>1 DEF TableStep
  <2>5. QED
    BY <1>1, <1>2, <2>2, <2>3, <2>4
<1>13. ASSUME NEW w \in Worker, NEW pc \in {"begin", "check"}, NEW next \in {"run", "finish"},
              Checkpoint(w, pc, next)
       PROVE  Good
  <2>1. UNCHANGED <<proc, abandoned, req, admin>> /\ UNCHANGED personVars /\ UNCHANGED tableVars
    BY <1>13 DEF Checkpoint
  <2>2. /\ worker[w].pc \in Busy
        /\ GoTo(w, "end", "canceled") \/ GoTo(w, next, worker[w].out)
    BY <1>7, <1>13 DEF Checkpoint, At
  <2>3. WorkerTypeOK'
    BY <1>0, <1>7, <1>8, <1>9, <2>2, GoToType
  <2>4. QED
    BY <1>1, <1>2, <2>1, <2>3 DEF TableStep
<1>14. ASSUME NEW w \in Worker, NEW pc \in {"run", "again"}, RunPass(w, pc) PROVE Good
  <2>1. UNCHANGED <<proc, abandoned, req, admin>> /\ UNCHANGED tableVars
    BY <1>14 DEF RunPass
  <2>2. /\ worker[w].pc \in Busy
        /\ \/ GoTo(w, "check", "none") \/ GoTo(w, "end", "sync_failed")
           \/ GoTo(w, "persist", "synced") \/ GoTo(w, "again", "none")
           \/ GoTo(w, "persist", "sync_failed")
    BY <1>7, <1>14 DEF RunPass, At
  <2>3. WorkerTypeOK'
    BY <1>0, <1>7, <1>9, <2>2, GoToType
  <2>4. PersonTypeOK'
    BY <1>0, <1>8, <1>14 DEF RunPass, PersonTypeOK
  <2>5. QED
    BY <1>1, <2>1, <2>3, <2>4 DEF TableStep
<1>15. ASSUME NEW w \in Worker, Persist(w) PROVE Good
  <2>1. UNCHANGED <<proc, abandoned, req, admin>> /\ UNCHANGED tableVars
        /\ UNCHANGED <<wanted, eligible, device>>
    BY <1>15 DEF Persist
  <2>2. /\ worker[w].pc \in Busy
        /\ GoTo(w, "check", worker[w].out) \/ GoTo(w, "end", "sync_failed")
    BY <1>7, <1>15 DEF Persist, At
  <2>3. WorkerTypeOK'
    BY <1>0, <1>7, <1>8, <1>9, <2>2, GoToType
  <2>4. PersonTypeOK'
    <3>1. CASE UNCHANGED entity
      BY <1>2, <2>1, <3>1
    <3>2. CASE PersistPerson(TargetOfJob(worker[w].job), worker[w].out)
      BY <1>0, <1>3, <1>15, <2>1, <3>2 DEF Persist, At, WorkerTypeOK
    <3>3. QED
      BY <1>15, <3>1, <3>2 DEF Persist
  <2>5. QED
    BY <1>1, <2>1, <2>3, <2>4 DEF TableStep
<1>16. ASSUME NEW w \in Worker, Finish(w) \/ FinishFailed(w) PROVE Good
  <2>1. /\ UNCHANGED <<proc, abandoned, req, admin>> /\ UNCHANGED personVars
        /\ worker[w].pc \in Busy /\ worker[w].job \in Job
    BY <1>0, <1>7, <1>16 DEF Finish, FinishFailed, At, WorkerTypeOK
  <2>2. TableStep
    BY <1>6, <1>16, <2>1 DEF Finish, FinishFailed, TableStep
  <2>3. WorkerTypeOK'
    BY <1>0, <1>5, <1>7, <1>8, <1>9, <1>16, <2>1, GoToType DEF Finish, FinishFailed
  <2>4. QED
    BY <1>1, <1>2, <2>1, <2>2, <2>3
<1>17. ASSUME NEW w \in Worker, Settle(w) PROVE Good
  <2>1. UNCHANGED <<proc, abandoned, req, admin>> /\ UNCHANGED tableVars
    BY <1>17 DEF Settle
  <2>2. WorkerTypeOK'
    BY <1>5, <1>17 DEF Settle
  <2>3. PersonTypeOK'
    BY <1>2, <1>3, <1>17 DEF Settle
  <2>4. QED
    BY <1>1, <2>1, <2>2, <2>3 DEF TableStep
<1>18. QED
  BY <1>10, <1>11, <1>12, <1>13, <1>14, <1>15, <1>16, <1>17 DEF Workers, RunJob

\* Time, the reaper, shutdown and crash.
LEMMA ProcessesStep ==
  ASSUME TypeOK, Processes
  PROVE  /\ TableStep
         /\ ProcTypeOK' /\ WorkerTypeOK' /\ RequestTypeOK' /\ AdminTypeOK' /\ PersonTypeOK'
<1> USE JobsAssumption, QueueAssumption DEF personVars
<1>0. TableTypeOK /\ ProcTypeOK /\ WorkerTypeOK /\ RequestTypeOK /\ AdminTypeOK /\ PersonTypeOK
  BY TypeParts
<1> DEFINE Good == /\ TableStep
                   /\ ProcTypeOK' /\ WorkerTypeOK' /\ RequestTypeOK' /\ AdminTypeOK' /\ PersonTypeOK'
<1>1. ASSUME UNCHANGED <<req, admin>> PROVE RequestTypeOK' /\ AdminTypeOK'
  BY <1>0, <1>1 DEF RequestTypeOK, AdminTypeOK
<1>2. ASSUME UNCHANGED personVars PROVE PersonTypeOK'
  BY <1>0, <1>2 DEF PersonTypeOK
<1>3. ASSUME UNCHANGED worker PROVE WorkerTypeOK'
  BY <1>0, <1>3 DEF WorkerTypeOK
<1>4. ASSUME UNCHANGED <<proc, abandoned>> PROVE ProcTypeOK'
  BY <1>0, <1>4 DEF ProcTypeOK
<1>5. \A pc \in {"polling", "exited"} : Resting(pc) \in WorkerState
                                      /\ Resting(pc).pc \notin Busy \cup {"persist"}
  BY DEF Resting, WorkerState, WorkerPc, Busy, Outcome
<1>6. ASSUME NEW p \in Proc, Vanish(p)
      PROVE  ProcTypeOK' /\ WorkerTypeOK' /\ UNCHANGED tableVars /\ UNCHANGED <<req, admin>>
             /\ UNCHANGED personVars
  <2>1. ProcTypeOK'
    BY <1>0, <1>6 DEF Vanish, ProcTypeOK
  <2>2. WorkerTypeOK'
    BY <1>0, <1>5, <1>6 DEF Vanish, WorkerTypeOK
  <2>3. QED
    BY <1>6, <2>1, <2>2 DEF Vanish
<1>7. ASSUME NEW j \in Job, Expire(j) \/ Stall(j) PROVE Good
  BY <1>1, <1>2, <1>3, <1>4, <1>7 DEF Expire, Stall, procVars, TableStep
<1>8. ASSUME NEW p \in Proc, Reap(p) PROVE Good
  <2>1. ProcTypeOK'
    BY <1>0, <1>8 DEF Reap, ProcTypeOK, StaleRunning
  <2>2. QED
    BY <1>1, <1>2, <1>3, <1>8, <2>1 DEF Reap, TableStep
<1>9. ASSUME NEW p \in Proc, Stop(p) PROVE Good
  <2>1. ProcTypeOK'
    BY <1>0, <1>9 DEF Stop, ProcTypeOK, Alive
  <2>2. WorkerTypeOK'
    <3>1. PICK polling \in SUBSET {w \in WorkersOf(p) : worker[w].pc = "idle"} :
            worker' = [w \in Worker |->
                         IF w \in polling THEN Resting("polling")
                         ELSE IF w \in WorkersOf(p) /\ worker[w].pc = "idle"
                         THEN Resting("exited") ELSE worker[w]]
      BY <1>9 DEF Stop
    <3>2. QED
      BY <1>0, <1>5, <3>1 DEF WorkerTypeOK
  <2>3. QED
    BY <1>1, <1>2, <1>9, <2>1, <2>2 DEF Stop, TableStep
<1>10. ASSUME NEW p \in Proc, Drained(p) \/ Exit(p) \/ Crash(p) PROVE Good
  <2>1. Vanish(p)
    BY <1>10 DEF Drained, Exit, Crash
  <2>2. QED
    BY <1>1, <1>2, <1>6, <2>1 DEF TableStep
<1>11. ASSUME NEW p \in Proc, GraceOver(p) PROVE Good
  <2>1. ProcTypeOK'
    BY <1>0, <1>11 DEF GraceOver, ProcTypeOK, Alive
  <2>2. QED
    BY <1>1, <1>2, <1>3, <1>11, <2>1 DEF GraceOver, TableStep
<1>12. ASSUME NEW p \in Proc, NEW j \in Job, PersistAbandoned(p, j) PROVE Good
  <2>1. ProcTypeOK'
    BY <1>0, <1>12 DEF PersistAbandoned, ProcTypeOK
  <2>2. PersonTypeOK'
    BY <1>0, <1>12 DEF PersistAbandoned, PersonTypeOK, PersistPerson
  <2>3. QED
    BY <1>1, <1>3, <1>12, <2>1, <2>2 DEF PersistAbandoned, TableStep
<1>13. QED
  BY <1>7, <1>8, <1>9, <1>10, <1>11, <1>12 DEF Processes

\* The administrator, retention and the people who leave.
LEMMA AdministrationStep ==
  ASSUME TypeOK, Administration
  PROVE  /\ TableStep
         /\ ProcTypeOK' /\ WorkerTypeOK' /\ RequestTypeOK' /\ AdminTypeOK' /\ PersonTypeOK'
<1> USE JobsAssumption DEF procVars, personVars
<1>0. TableTypeOK /\ ProcTypeOK /\ WorkerTypeOK /\ RequestTypeOK /\ AdminTypeOK /\ PersonTypeOK
  BY TypeParts
<1> DEFINE Good == /\ TableStep
                   /\ ProcTypeOK' /\ WorkerTypeOK' /\ RequestTypeOK' /\ AdminTypeOK' /\ PersonTypeOK'
<1>1. ASSUME UNCHANGED procVars PROVE ProcTypeOK' /\ WorkerTypeOK'
  BY <1>0, <1>1 DEF ProcTypeOK, WorkerTypeOK
<1>2. ASSUME UNCHANGED req PROVE RequestTypeOK'
  BY <1>0, <1>2 DEF RequestTypeOK
<1>3. ASSUME UNCHANGED personVars PROVE PersonTypeOK'
  BY <1>0, <1>3 DEF PersonTypeOK
<1>4. ASSUME UNCHANGED admin PROVE AdminTypeOK'
  BY <1>0, <1>4 DEF AdminTypeOK
<1>5. NoAdmin \in AdminState /\ NoAdmin.pc = "idle"
  BY DEF NoAdmin, AdminState
<1>6. ASSUME NEW j \in Job, CancelRead(j) PROVE Good
  <2>1. AdminTypeOK'
    BY <1>0, <1>6 DEF CancelRead, AdminTypeOK, AdminState, NoAdmin
  <2>2. QED
    BY <1>1, <1>2, <1>3, <1>6, <2>1 DEF CancelRead, TableStep
<1>7. CASE CancelOne
  <2>1. admin.job \in Job
    BY <1>0, <1>7 DEF CancelOne, AdminTypeOK
  <2>2. AdminTypeOK'
    BY <1>0, <1>7, <2>1 DEF CancelOne, AdminTypeOK, AdminState
  <2>3. TableStep
    <3>1. {admin.job} \in SUBSET Job
      BY <2>1
    <3>2. QED
      BY <1>7, <3>1 DEF CancelOne, TableStep
  <2>4. QED
    BY <1>1, <1>2, <1>3, <1>7, <2>2, <2>3 DEF CancelOne
<1>8. CASE CancelRunning
  <2>1. admin.job \in Job
    BY <1>0, <1>8 DEF CancelRunning, AdminTypeOK
  <2>2. AdminTypeOK'
    BY <1>0, <1>5, <1>8 DEF CancelRunning, AdminTypeOK, AdminState
  <2>3. QED
    BY <1>1, <1>2, <1>3, <1>8, <2>1, <2>2 DEF CancelRunning, TableStep
<1>9. CASE CancelQueued
  <2> DEFINE queued == {j \in Job : job[j].st = "queued"}
  <2>1. /\ CancelQueuedJobs(queued) /\ queued \in SUBSET Job
        /\ admin' = [NoAdmin EXCEPT !.pc = "persist", !.todo = queued]
    BY <1>9 DEF CancelQueued
  <2> HIDE DEF queued
  <2>2. AdminTypeOK'
    BY <2>1 DEF AdminTypeOK, AdminState, NoAdmin
  <2>3. TableStep
    BY <2>1 DEF TableStep
  <2>4. QED
    BY <1>1, <1>2, <1>3, <1>9, <2>2, <2>3 DEF CancelQueued
<1>10. ASSUME NEW j \in Job, PersistCanceled(j) PROVE Good
  <2>1. AdminTypeOK'
    BY <1>0, <1>5, <1>10 DEF PersistCanceled, AdminTypeOK, AdminState
  <2>2. PersonTypeOK'
    BY <1>0, <1>10 DEF PersistCanceled, PersonTypeOK, PersistPerson
  <2>3. QED
    BY <1>1, <1>2, <1>10, <2>1, <2>2 DEF PersistCanceled, TableStep
<1>11. CASE DropAdmin
  <2>1. AdminTypeOK'
    BY <1>5, <1>11 DEF DropAdmin, AdminTypeOK
  <2>2. QED
    BY <1>1, <1>2, <1>3, <1>11, <2>1 DEF DropAdmin, TableStep
<1>12. ASSUME ClearFailed \/ \E j \in Job : Purge(j) PROVE Good
  <2>1. PICK S \in SUBSET {j \in Job : job[j].st \in Ended} : DeleteJobs(S)
    <3>1. {j \in Job : job[j].st = "failed"} \subseteq {j \in Job : job[j].st \in Ended}
      BY DEF Ended
    <3>2. \A j \in Job : job[j].st \in Ended => {j} \subseteq {i \in Job : job[i].st \in Ended}
      OBVIOUS
    <3>3. QED
      BY <1>12, <3>1, <3>2 DEF ClearFailed, Purge
  <2>2. TableStep
    BY <2>1 DEF TableStep
  <2>3. QED
    BY <1>1, <1>2, <1>3, <1>4, <1>12, <2>2 DEF ClearFailed, Purge
<1>13. ASSUME NEW t \in Target, Withdraw(t) PROVE Good
  <2>1. PersonTypeOK'
    BY <1>0, <1>13 DEF Withdraw, PersonTypeOK
  <2>2. QED
    BY <1>1, <1>2, <1>4, <1>13, <2>1 DEF Withdraw, TableStep
<1>14. QED
  BY <1>6, <1>7, <1>8, <1>9, <1>10, <1>11, <1>12, <1>13 DEF Administration

-----------------------------------------------------------------------------
(* The inductive invariant: types, and the table's invariants together.  They *)
(* need each other: the recovery keeps the queued keys apart only because two *)
(* rows of a key never run at once, the claim keeps within the attempts only  *)
(* because what waits has one left, and a retry has a key only because a row  *)
(* that was ever inserted has one.                                            *)

IInv == TypeOK /\ TableInv

LEMMA InitIInv == Init => IInv
<1> SUFFICES ASSUME Init PROVE IInv
  OBVIOUS
<1> USE JobsAssumption, QueueAssumption DEF Init, TableInit
<1>1. NoRow \in Row /\ NoRow.st = "none"
  BY DEF NoRow, Row, Status, Live, Ended, ErrorText
<1>2. TableTypeOK
  BY <1>1 DEF TableTypeOK
<1>3. ProcTypeOK
  BY DEF ProcTypeOK, Alive
<1>4. WorkerTypeOK
  BY DEF WorkerTypeOK, Resting, WorkerState, WorkerPc, Busy, Outcome
<1>5. RequestTypeOK
  BY DEF RequestTypeOK, NoRequest, RequestState, RequestPc
<1>6. AdminTypeOK
  BY DEF AdminTypeOK, NoAdmin, AdminState
<1>7. PersonTypeOK
  BY DEF PersonTypeOK
<1>8. TableInv
  BY <1>1 DEF TableInv, LiveHasKey, OneQueuedPerDedupe, OneRunningPerTarget,
              RunningWithinAttempts, QueuedIsRunnable
<1>9. QED
  BY <1>2, <1>3, <1>4, <1>5, <1>6, <1>7, <1>8, TypeParts DEF IInv

\* Every step of the system is one statement on the table.
LEMMA StepIsTableStep == IInv /\ [Next]_vars => TableStep
<1> SUFFICES ASSUME IInv, [Next]_vars PROVE TableStep
  OBVIOUS
<1>1. CASE UNCHANGED vars
  BY <1>1 DEF vars, TableStep
<1>2. QED
  BY <1>1, RequestsStep, WorkersStep, ProcessesStep, AdministrationStep DEF Next, IInv, TableInv

LEMMA StepIInv == IInv /\ [Next]_vars => IInv'
<1> SUFFICES ASSUME IInv, [Next]_vars PROVE IInv'
  OBVIOUS
<1>1. TableTypeOK /\ ProcTypeOK /\ WorkerTypeOK /\ RequestTypeOK /\ AdminTypeOK /\ PersonTypeOK
  BY TypeParts DEF IInv
<1>2. TableTypeOK' /\ TableInv'
  BY <1>1, StepIsTableStep, TableTypeStep, TableInvStep DEF IInv
<1>3. ProcTypeOK' /\ WorkerTypeOK' /\ RequestTypeOK' /\ AdminTypeOK' /\ PersonTypeOK'
  <2>1. CASE UNCHANGED vars
    BY <1>1, <2>1 DEF vars, procVars, personVars, ProcTypeOK, WorkerTypeOK, RequestTypeOK,
                      AdminTypeOK, PersonTypeOK
  <2>2. QED
    BY <2>1, RequestsStep, WorkersStep, ProcessesStep, AdministrationStep DEF Next, IInv, TableInv
<1>4. QED
  BY <1>2, <1>3, TypePartsNext DEF IInv

\* The inductive invariant holds in every reachable state of every instance: any
\* number of processes, loops, concurrent calls, dedupe keys, targets and jobs,
\* and any faults.
THEOREM Inductive == Spec => []IInv
BY InitIInv, StepIInv, PTL DEF Spec

\* Local states and rows keep their types: a loop in a job holds a job, a call
\* in the middle of an enqueue holds a key and the row it is about to merge.
THEOREM TypeCorrect == Spec => []TypeOK
<1>1. IInv => TypeOK
  BY DEF IInv
<1>2. QED
  BY Inductive, <1>1, PTL

\* Recovery and enqueue never leave two queued rows of one dedupe key, so no
\* statement of recoverRunningJobs ever meets the unique index.
THEOREM QueuedKeysAreUnique == Spec => []OneQueuedPerDedupe
<1>1. IInv => OneQueuedPerDedupe
  BY DEF IInv, TableInv
<1>2. QED
  BY Inductive, <1>1, PTL

\* Claims of any number of loops and processes keep one running row per target.
THEOREM TargetsRunAlone == Spec => []OneRunningPerTarget
<1>1. IInv => OneRunningPerTarget
  BY DEF IInv, TableInv
<1>2. QED
  BY Inductive, <1>1, PTL

\* Nothing waits in the queue with a lease, a cancel request or no attempt left.
THEOREM QueueIsRunnable == Spec => []QueuedIsRunnable
<1>1. IInv => QueuedIsRunnable
  BY DEF IInv, TableInv
<1>2. QED
  BY Inductive, <1>1, PTL

-----------------------------------------------------------------------------
(* What a step may never do to a row. *)

\* A statement that changes the status of an ended row deletes it.
LEMMA EndedStep ==
  TableTypeOK /\ TableStep => \A j \in Job : job[j].st \in Ended => job'[j].st \in {job[j].st, "gone"}
<1> SUFFICES ASSUME TableTypeOK, TableStep, NEW j \in Job, job[j].st \in Ended
             PROVE  job'[j].st \in {job[j].st, "gone"}
  OBVIOUS
<1> USE DEF TableTypeOK, Row
<1>1. job[j].st \notin Live \cup {"none"}
  BY DEF Ended, Live
<1>2. ASSUME NEW i \in Job, i # j => job'[j] = job[j], i = j => job[i].st \in Live \cup {"none"}
      PROVE  job'[j].st \in {job[j].st, "gone"}
  BY <1>1, <1>2
<1>3. ASSUME NEW i \in Job, NEW k \in Key, NEW v \in Nat, InsertJob(i, k, v)
      PROVE  job'[j].st \in {job[j].st, "gone"}
  BY <1>2, <1>3 DEF InsertJob, NextId
<1>4. ASSUME NEW i \in Job, NEW v \in Nat, UpdateQueuedJobPayload(i, v)
      PROVE  job'[j].st \in {job[j].st, "gone"}
  BY <1>2, <1>4 DEF UpdateQueuedJobPayload, Live
<1>5. ASSUME NEW S \in SUBSET Job, CancelQueuedJobs(S)
      PROVE  job'[j].st \in {job[j].st, "gone"}
  BY <1>1, <1>5 DEF CancelQueuedJobs, Live
<1>6. ASSUME NEW S \in SUBSET {i \in Job : job[i].st \in Ended}, DeleteJobs(S)
      PROVE  job'[j].st \in {job[j].st, "gone"}
  BY <1>6 DEF DeleteJobs
<1>7. ASSUME NEW i \in Job, RequestCancelRunningJob(i) \/ LeaseExpires(i)
      PROVE  job'[j].st \in {job[j].st, "gone"}
  BY <1>2, <1>7 DEF RequestCancelRunningJob, LeaseExpires, Live
<1>8. ASSUME NEW p \in Proc, NEW i \in Job, ClaimNextJob(p, i) \/ HeartbeatJob(p, i)
      PROVE  job'[j].st \in {job[j].st, "gone"}
  BY <1>2, <1>8 DEF ClaimNextJob, Claimable, HeartbeatJob, Owned, Live
<1>9. ASSUME NEW p \in Proc, NEW i \in Job, NEW status, NEW error, FinishJob(p, i, status, error)
      PROVE  job'[j].st \in {job[j].st, "gone"}
  BY <1>2, <1>9 DEF FinishJob, Owned, Live
<1>10. ASSUME NEW S, NEW graceful, j \notin S, RecoverRunningJobs(S, graceful)
       PROVE  job'[j].st \in {job[j].st, "gone"}
  BY <1>10 DEF RecoverRunningJobs
<1>11. j \notin StaleRunning /\ \A p \in Proc : j \notin RunningOf(p)
  BY <1>1 DEF StaleRunning, RunningOf, Owned, Live
<1>12. CASE UNCHANGED tableVars
  BY <1>12 DEF tableVars
<1>13. QED
  BY <1>3, <1>4, <1>5, <1>6, <1>7, <1>8, <1>9, <1>10, <1>11, <1>12 DEF TableStep

\* No late finish, late cancel, merge or reaper revives a row that has ended.
THEOREM EndedRowsStay == Spec => EndedIsFinal
<1>1. IInv /\ [Next]_vars => [\A j \in Job : job[j].st \in Ended
                                => job'[j].st \in {job[j].st, "gone"}]_vars
  BY StepIsTableStep, EndedStep, TypeParts DEF IInv
<1>2. QED
  BY Inductive, <1>1, PTL DEF Spec, EndedIsFinal

\* Of a set of running rows, only one whose key waits in the queue is ended as
\* superseded: two rows of a key never run together.
LEMMA SupersededStep ==
  ASSUME TableTypeOK, TableInv, NEW S \in SUBSET Job, NEW graceful \in BOOLEAN,
         \A j \in S : job[j].st = "running", RecoverRunningJobs(S, graceful),
         NEW j \in Job, job'[j].err = "superseded", job[j].err # "superseded"
  PROVE  \E i \in Job : job'[i].st = "queued" /\ job'[i].key = job[j].key
<1>1. j \in S /\ job'[j] = Recovered(job[j], Fate(S, j, graceful), graceful)
  BY DEF RecoverRunningJobs
<1>2. job[j] \in Row
  BY DEF TableTypeOK
<1>3. Fate(S, j, graceful) = "superseded"
  <2>1. Fate(S, j, graceful) \in Fates
    BY FateType
  <2>2. Fate(S, j, graceful) # "superseded" => job'[j].err \in {job[j].err, "canceled", "error"}
    BY <1>1, <1>2, <2>1 DEF Recovered, Fates, Row
  <2>3. QED
    BY <2>2
<1>4. \A i \in S \ {j} : job[i].key # job[j].key
  BY <1>1 DEF TableInv, OneRunningPerTarget, TargetOfJob
<1>5. QueuedTwins(job[j].key) # {}
  BY <1>3, <1>4 DEF Fate
<1>6. PICK i \in Job : job[i].st = "queued" /\ job[i].key = job[j].key
  BY <1>5 DEF QueuedTwins
<1>7. i \notin S
  BY <1>6
<1>8. job'[i] = job[i]
  BY <1>7 DEF RecoverRunningJobs
<1>9. QED
  BY <1>6, <1>8

\* The other statements never write that a row was superseded.
LEMMA SupersededByRecovery ==
  ASSUME TableTypeOK, TableStep, NEW j \in Job,
         job'[j].err = "superseded", job[j].err # "superseded"
  PROVE  \/ RecoverRunningJobs(StaleRunning, FALSE)
         \/ \E p \in Proc : RecoverRunningJobs(RunningOf(p), TRUE)
<1> USE DEF TableTypeOK, Row
<1>1. ASSUME NEW i \in Job, NEW k \in Key, NEW v \in Nat, InsertJob(i, k, v) PROVE FALSE
  BY <1>1 DEF InsertJob, NoRow
<1>2. ASSUME NEW i \in Job, NEW v \in Nat, UpdateQueuedJobPayload(i, v) PROVE FALSE
  BY <1>2 DEF UpdateQueuedJobPayload
<1>3. ASSUME NEW S, CancelQueuedJobs(S) \/ DeleteJobs(S) PROVE FALSE
  <2>1. job[j] \in Row
    OBVIOUS
  <2>2. job'[j] \in {job[j], [job[j] EXCEPT !.st = "canceled", !.err = "canceled"],
                     [job[j] EXCEPT !.st = "gone", !.cancel = FALSE]}
    BY <1>3 DEF CancelQueuedJobs, DeleteJobs
  <2>3. QED
    BY <2>1, <2>2
<1>4. ASSUME NEW i \in Job, RequestCancelRunningJob(i) \/ LeaseExpires(i) PROVE FALSE
  BY <1>4 DEF RequestCancelRunningJob, LeaseExpires
<1>5. ASSUME NEW p \in Proc, NEW i \in Job, ClaimNextJob(p, i) \/ HeartbeatJob(p, i) PROVE FALSE
  <2>1. \A q \in Row : \A n \in Nat : [q EXCEPT !.st = "running", !.by = p, !.fresh = TRUE,
                                      !.attempts = @ + 1, !.started = n].err = q.err
    OBVIOUS
  <2>2. CASE HeartbeatJob(p, i)
    BY <2>2 DEF HeartbeatJob
  <2>3. CASE ClaimNextJob(p, i)
    <3> DEFINE n == IF job[i].started = 0 THEN claims + 1 ELSE job[i].started
    <3>1. job[i] \in Row /\ n \in Nat
      OBVIOUS
    <3>2. job' = [job EXCEPT ![i] = [job[i] EXCEPT !.st = "running", !.by = p, !.fresh = TRUE,
                                     !.attempts = @ + 1, !.started = n]]
      BY <2>3 DEF ClaimNextJob
    <3> HIDE DEF n
    <3>3. QED
      BY <2>1, <3>1, <3>2
  <2>4. QED
    BY <1>5, <2>2, <2>3
<1>6. ASSUME NEW p \in Proc, NEW i \in Job, NEW status,
             NEW error \in {"none", "error", "canceled"}, FinishJob(p, i, status, error)
      PROVE  FALSE
  BY <1>6 DEF FinishJob
<1>7. ~UNCHANGED tableVars
  BY DEF tableVars
<1>8. QED
  BY <1>1, <1>2, <1>3, <1>4, <1>5, <1>6, <1>7 DEF TableStep

\* A person is never left pending by a row that ended silently for a successor
\* that is not there.
THEOREM SuccessorsWait == Spec => SupersededHasSuccessor
<1>1. IInv /\ [Next]_vars => [\A j \in Job : job'[j].err = "superseded" /\ job[j].err # "superseded"
        => \E i \in Job : job'[i].st = "queued" /\ job'[i].key = job[j].key]_vars
  <2> SUFFICES ASSUME IInv, [Next]_vars, NEW j \in Job,
                      job'[j].err = "superseded", job[j].err # "superseded"
               PROVE  \E i \in Job : job'[i].st = "queued" /\ job'[i].key = job[j].key
    OBVIOUS
  <2>1. TableTypeOK /\ TableInv /\ TableStep
    BY StepIsTableStep, TypeParts DEF IInv
  <2>2. \A S \in {StaleRunning} \cup {RunningOf(p) : p \in Proc} :
          S \in SUBSET Job /\ \A i \in S : job[i].st = "running"
    BY DEF StaleRunning, RunningOf, Owned
  <2>3. CASE RecoverRunningJobs(StaleRunning, FALSE)
    BY <2>1, <2>2, <2>3, SupersededStep
  <2>4. ASSUME NEW p \in Proc, RecoverRunningJobs(RunningOf(p), TRUE)
        PROVE  \E i \in Job : job'[i].st = "queued" /\ job'[i].key = job[j].key
    BY <2>1, <2>2, <2>4, SupersededStep
  <2>5. QED
    BY <2>1, <2>3, <2>4, SupersededByRecovery
<1>2. QED
  BY Inductive, <1>1, PTL DEF Spec, SupersededHasSuccessor
=============================================================================
