--------------------------- MODULE DeviceSyncJobs ---------------------------
(***************************************************************************)
(* The Postgres table `device_sync_jobs` and the SQL statements that touch *)
(* it.  Every statement is one atomic action on the table: the code runs   *)
(* each of them alone, outside any transaction, so all the interleavings   *)
(* are between statements.                                                 *)
(*                                                                         *)
(* Job ids are numbered in the order of `created_at`.  `started` orders    *)
(* the first claims (`started_at`).  `fresh` says whether the last         *)
(* heartbeat is younger than STALE_AFTER_SEC.  `ver` stands for the        *)
(* payload: the number of the request whose state of the person it holds.  *)
(***************************************************************************)
EXTENDS Naturals

CONSTANTS
  Job,          \* ids of job rows
  Key,          \* dedupe keys
  Target,       \* pairs of a job kind and a target id
  TargetOf,     \* the target a dedupe key is about
  Proc,         \* worker ids: one per incarnation of a server process
  MaxAttempts,  \* MAX_ATTEMPTS of the worker
  None          \* NULL

ASSUME JobsAssumption ==
  /\ Job \subseteq Nat
  /\ TargetOf \in [Key -> Target]
  /\ MaxAttempts \in Nat \ {0}
  /\ None \notin Job /\ None \notin Key /\ None \notin Proc

VARIABLES
  job,          \* the table
  claims        \* how many rows have been claimed for the first time

tableVars == <<job, claims>>

Live      == {"queued", "running"}
Ended     == {"done", "failed", "canceled"}
Status    == {"none", "gone"} \cup Live \cup Ended
ErrorText == {"none", "error", "superseded", "canceled"}

Row == [st : Status, key : Key \cup {None}, ver : Nat, by : Proc \cup {None},
        fresh : BOOLEAN, attempts : Nat, cancel : BOOLEAN, started : Nat,
        err : ErrorText]

NoRow == [st |-> "none", key |-> None, ver |-> 0, by |-> None,
          fresh |-> FALSE, attempts |-> 0, cancel |-> FALSE, started |-> 0,
          err |-> "none"]

TableInit ==
  /\ job = [j \in Job |-> NoRow]
  /\ claims = 0

-----------------------------------------------------------------------------
(* What the statements read. *)

QueuedTwins(k) == {j \in Job : job[j].st = "queued" /\ job[j].key = k}
RunningTwins(k) == {j \in Job : job[j].st = "running" /\ job[j].key = k}

TargetOfJob(j) == TargetOf[job[j].key]

\* Ids are taken in order, so that a later insert is a later created_at.
NextId(j) == job[j].st = "none" /\ \A i \in Job : job[i].st = "none" => j <= i

\* Mutant: the claim looks for older rows that wait and forgets those that run.
ClaimableBesideRunning(j) ==
  /\ job[j].st = "queued"
  /\ \A r \in Job \ {j} :
       job[r].st = "queued" /\ TargetOfJob(r) = TargetOfJob(j) => j < r

\* No other job of the same kind and target runs, and no older one waits.
Claimable(j) ==
  /\ job[j].st = "queued"
  /\ \A r \in Job \ {j} :
       job[r].st \in Live /\ TargetOfJob(r) = TargetOfJob(j)
         => job[r].st = "queued" /\ j < r

\* The row is running under this worker id: the WHERE of heartbeat and finish.
Owned(p, j) == job[j].st = "running" /\ job[j].by = p

-----------------------------------------------------------------------------
(* Writers of the queue: enqueue and administration. *)

InsertJob(j, k, v) ==
  /\ NextId(j)
  /\ QueuedTwins(k) = {}            \* the unique index on queued dedupe keys
  /\ job' = [job EXCEPT ![j] = [NoRow EXCEPT !.st = "queued", !.key = k, !.ver = v]]
  /\ UNCHANGED claims

UpdateQueuedJobPayload(j, v) ==
  /\ job[j].st = "queued"
  /\ job' = [job EXCEPT ![j] = [@ EXCEPT !.ver = v]]
  /\ UNCHANGED claims

CancelQueuedJobs(S) ==
  /\ job' = [j \in Job |-> IF j \in S /\ job[j].st = "queued"
                           THEN [job[j] EXCEPT !.st = "canceled", !.err = "canceled"]
                           ELSE job[j]]
  /\ UNCHANGED claims

RequestCancelRunningJob(j) ==
  /\ job[j].st = "running"
  /\ job' = [job EXCEPT ![j] = [@ EXCEPT !.cancel = TRUE]]
  /\ UNCHANGED claims

\* A deleted row keeps only what those who read it before still remember.
DeleteJobs(S) ==
  /\ job' = [j \in Job |-> IF j \in S
                           THEN [job[j] EXCEPT !.st = "gone", !.cancel = FALSE]
                           ELSE job[j]]
  /\ UNCHANGED claims

-----------------------------------------------------------------------------
(* The lease: claim, heartbeat, finish, expiry and recovery. *)

\* The oldest claimable row becomes a running row of worker id p.
ClaimNextJob(p, j) ==
  /\ Claimable(j)
  /\ \A i \in Job : Claimable(i) => j <= i
  /\ LET first == job[j].started = 0
     IN  /\ job' = [job EXCEPT ![j] =
                     [@ EXCEPT !.st = "running", !.by = p, !.fresh = TRUE,
                               !.attempts = job[j].attempts + 1,
                               !.started = IF first THEN claims + 1 ELSE job[j].started]]
         /\ claims' = IF first THEN claims + 1 ELSE claims

HeartbeatJob(p, j) ==
  /\ Owned(p, j)
  /\ job' = [job EXCEPT ![j] = [@ EXCEPT !.fresh = TRUE]]
  /\ UNCHANGED claims

\* Mutant: the final state is written by id alone.
FinishJobUnfenced(p, j, status, error) ==
  /\ job' = [job EXCEPT ![j] = [@ EXCEPT !.st = status, !.err = error,
                                          !.by = None, !.fresh = FALSE]]
  /\ UNCHANGED claims

FinishJob(p, j, status, error) ==
  /\ Owned(p, j)
  /\ job' = [job EXCEPT ![j] = [@ EXCEPT !.st = status, !.err = error,
                                          !.by = None, !.fresh = FALSE]]
  /\ UNCHANGED claims

\* STALE_AFTER_SEC go by without a heartbeat.
LeaseExpires(j) ==
  /\ job[j].st = "running" /\ job[j].fresh
  /\ job' = [job EXCEPT ![j] = [@ EXCEPT !.fresh = FALSE]]
  /\ UNCHANGED claims

\* Mutant: the reaper leaves alone the rows that used up their attempts.
StaleWithAttemptsLeft ==
  {j \in Job : job[j].st = "running" /\ ~job[j].fresh /\ job[j].attempts < MaxAttempts}

StaleRunning == {j \in Job : job[j].st = "running" /\ ~job[j].fresh}
RunningOf(p) == {j \in Job : Owned(p, j)}

\* Within the scope, another row of the same dedupe key started later (rn > 1).
StartedLater(i, j) ==
  \/ job[i].started > job[j].started
  \/ job[i].started = job[j].started /\ i > j

\* Mutants: no look at the queued twin; any row of the key counts as a successor,
\* the abandoned one itself included.
FateWithoutTwin(S, j, graceful) ==
  CASE job[j].cancel -> "canceled"
    [] OTHER -> IF ~graceful /\ job[j].attempts >= MaxAttempts
                THEN "exhausted" ELSE "requeue"

FateOfAnyTwin(S, j, graceful) ==
  CASE job[j].cancel -> "canceled"
    [] ~job[j].cancel /\ QueuedTwins(job[j].key) \cup RunningTwins(job[j].key) # {}
                       -> "superseded"
    [] OTHER -> "requeue"

Fate(S, j, graceful) ==
  CASE job[j].cancel                                   -> "canceled"
    [] /\ ~job[j].cancel
       /\ \/ QueuedTwins(job[j].key) # {}
          \/ \E i \in S \ {j} : job[i].key = job[j].key /\ StartedLater(i, j)
                                                       -> "superseded"
    [] OTHER -> IF ~graceful /\ job[j].attempts >= MaxAttempts
                THEN "exhausted" ELSE "requeue"

\* Mutant: the name of the fate is written as the status.
RecoveredVerbatim(row, fate, graceful) ==
  [row EXCEPT !.st = fate, !.by = None, !.fresh = FALSE]

\* Mutant: a shutdown gives the row back and keeps the attempt it has counted.
RecoveredWithoutRefund(row, fate, graceful) ==
  LET freed == [row EXCEPT !.by = None, !.fresh = FALSE] IN
  IF fate = "requeue" THEN [freed EXCEPT !.st = "queued"]
  ELSE [freed EXCEPT !.st = IF fate = "canceled" THEN "canceled" ELSE "failed"]

Fates == {"canceled", "superseded", "exhausted", "requeue"}

Recovered(row, fate, graceful) ==
  LET freed == [row EXCEPT !.by = None, !.fresh = FALSE] IN
  CASE fate = "requeue"    -> [freed EXCEPT !.st = "queued",
                                            !.attempts = IF graceful /\ @ > 0 THEN @ - 1 ELSE @]
    [] fate = "canceled"   -> [freed EXCEPT !.st = "canceled", !.err = "canceled"]
    [] fate = "superseded" -> [freed EXCEPT !.st = "failed", !.err = "superseded"]
    [] fate = "exhausted"  -> [freed EXCEPT !.st = "failed", !.err = "error"]

\* One UPDATE: every running row of the scope S meets its fate.
RecoverRunningJobs(S, graceful) ==
  /\ job' = [j \in Job |-> IF j \in S
                           THEN Recovered(job[j], Fate(S, j, graceful), graceful)
                           ELSE job[j]]
  /\ UNCHANGED claims
=============================================================================
