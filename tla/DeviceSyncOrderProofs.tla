------------------------ MODULE DeviceSyncOrderProofs ------------------------
(***************************************************************************)
(* What TLAPS proves of the order in which the states of a person reach    *)
(* the reader: the runs of a target follow each other in the order of the  *)
(* requests, and when nothing is left to do the reader holds the last one. *)
(***************************************************************************)
EXTENDS DeviceSyncQueueProofs

\* A target is enqueued under one dedupe key: with two (the plain and the force
\* key) a row that waits longer may hold the newer payload.
OneKeyPerTarget == \A k, l \in Key : TargetOf[k] = TargetOf[l] => k = l

\* The calls that enqueue one target follow each other: of two at once, the one
\* that captured the older state may be the last to write the payload.  A pass of
\* the timer counts as a call from where it reads the person.
OneCallPerTarget ==
  \A r, s \in Requester :
    /\ req[r].pc \notin {"idle", "listed"} /\ req[s].pc \notin {"idle", "listed"}
    /\ TargetOf[req[r].key] = TargetOf[req[s].key]
    => r = s

Mine(w) == TargetOfJob(worker[w].job)

\* A loop that may still write the reader; one that may still end its row.
Pass   == {"begin", "run", "again"}
Owning == Busy \ {"settle"}

\* The process of the loop has not given its rows back.
Sure(w) == LifeOf(w) \in {"up", "draining"}

-----------------------------------------------------------------------------
(* The invariants. *)

\* A loop holds a row that was inserted; if its process lives, the row is under
\* its lease, and no other loop of a living process executes it.
OwnInv ==
  /\ \A w \in Worker : worker[w].pc \in Busy => job[worker[w].job].st # "none"
  /\ \A w \in Worker : worker[w].pc \in Owning /\ Sure(w)
       => Owned(ProcOf[w], worker[w].job) /\ job[worker[w].job].fresh
  /\ \A v, w \in Worker : /\ worker[v].pc \in Owning /\ Sure(v)
                          /\ worker[w].pc \in Owning /\ Sure(w)
                          /\ worker[v].job = worker[w].job
                          => v = w

\* A call holds the last request of its target, and the row it found is of its
\* key.
AskInv ==
  \A r \in Requester :
    /\ req[r].pc \notin {"idle", "listed"} => req[r].ver = wanted[TargetOf[req[r].key]]
    /\ req[r].pc \in {"merge", "remerge"}
         => job[req[r].job].st # "none" /\ job[req[r].job].key = req[r].key

\* Nothing is newer than the last request: not the reader, a row or a loop.
KnownInv ==
  /\ \A t \in Target : device[t] <= wanted[t]
  /\ \A j \in Job : job[j].st # "none" => job[j].ver <= wanted[TargetOfJob(j)]
  /\ \A w \in Worker : worker[w].pc \in Busy => worker[w].ver <= wanted[Mine(w)]

\* What is still to run is not older than what ran: the reader and the loops that
\* may write it are behind the live rows, and the loop that owns the row of a
\* target is ahead of the reader and of every loop left from before.
OrderInv ==
  /\ \A j \in Job : job[j].st \in Live => device[TargetOfJob(j)] <= job[j].ver
  /\ \A w \in Worker, j \in Job :
       worker[w].pc \in Pass /\ job[j].st \in Live /\ TargetOfJob(j) = Mine(w)
         => worker[w].ver <= job[j].ver
  /\ \A w \in Worker : worker[w].pc \in Pass /\ Sure(w) => device[Mine(w)] <= worker[w].ver
  /\ \A v, w \in Worker :
       /\ worker[w].pc \in Pass /\ Sure(w)
       /\ worker[v].pc \in Pass /\ Mine(v) = Mine(w)
       => worker[v].ver <= worker[w].ver

RaceInv == IInv /\ OwnInv /\ AskInv /\ KnownInv /\ OrderInv

-----------------------------------------------------------------------------
(* What steps keep. *)

\* Rows stay, with their key.
RowsKept ==
  \A j \in Job : job[j].st # "none" => job'[j].st # "none" /\ job'[j].key = job[j].key

\* A row holds the payload it held, and is live only if it was; or it was written
\* with the last request of its target.
VersionsKept ==
  \A j \in Job : job'[j].st # "none" =>
    \/ /\ job[j].st # "none"
       /\ job'[j].ver = job[j].ver
       /\ job'[j].st \in Live => job[j].st \in Live
    \/ job'[j].ver = wanted[TargetOf[job'[j].key]]

\* No loop takes up a job, and no process comes back to life.
LoopsShrink ==
  \A w \in Worker :
    /\ worker'[w].pc \in Busy => /\ worker[w].pc \in Busy
                                 /\ worker'[w].job = worker[w].job
                                 /\ worker'[w].ver = worker[w].ver
    /\ worker'[w].pc \in Owning => worker[w].pc \in Owning
    /\ worker'[w].pc \in Pass => worker[w].pc \in Pass
    /\ Sure(w)' => Sure(w)

\* A loop that goes on keeps its lease.
LeasesKept ==
  \A w \in Worker : /\ worker'[w].pc \in Owning /\ Sure(w)'
                    /\ Owned(ProcOf[w], worker[w].job) /\ job[worker[w].job].fresh
                    => Owned(ProcOf[w], worker[w].job)' /\ job'[worker[w].job].fresh

\* The statements that are not the enqueue's.
OtherStep ==
  \/ \E S \in SUBSET Job : CancelQueuedJobs(S)
  \/ \E S \in SUBSET {j \in Job : job[j].st \in Ended} : DeleteJobs(S)
  \/ \E j \in Job : RequestCancelRunningJob(j) \/ LeaseExpires(j)
  \/ \E p \in Proc, j \in Job : ClaimNextJob(p, j) \/ HeartbeatJob(p, j)
  \/ \E p \in Proc, j \in Job, status \in Ended, error \in ErrorText :
       FinishJob(p, j, status, error)
  \/ \E S \in SUBSET {j \in Job : job[j].st = "running"}, graceful \in BOOLEAN :
       RecoverRunningJobs(S, graceful)
  \/ UNCHANGED tableVars

\* A statement that writes one used row keeps the others.
LEMMA OneRowKept ==
  ASSUME TableTypeOK, NEW j \in Job, job[j].st # "none", job' \in [Job -> Row],
         \A i \in Job \ {j} : job'[i] = job[i],
         job'[j].key = job[j].key, job'[j].ver = job[j].ver, job'[j].st # "none",
         job'[j].st \in Live => job[j].st \in Live
  PROVE  RowsKept /\ VersionsKept
BY DEF RowsKept, VersionsKept

\* Whatever its fate, a recovered row keeps its key and its payload.
LEMMA RecoveredKeeps ==
  ASSUME NEW row \in Row, NEW fate \in Fates, NEW graceful \in BOOLEAN
  PROVE  LET new == Recovered(row, fate, graceful) IN
           new.key = row.key /\ new.ver = row.ver /\ new.st # "none"
<1> DEFINE freed == [row EXCEPT !.by = None, !.fresh = FALSE]
           new == Recovered(row, fate, graceful)
<1>2. /\ DOMAIN freed = DOMAIN row
      /\ DOMAIN row = {"st", "key", "ver", "by", "fresh", "attempts", "cancel", "started", "err"}
      /\ freed.key = row.key /\ freed.ver = row.ver
  BY DEF Row
<1>3. CASE fate = "requeue"
  <2>1. new = [freed EXCEPT !.st = "queued",
                            !.attempts = IF graceful /\ @ > 0 THEN @ - 1 ELSE @]
    BY <1>3 DEF Recovered
  <2> HIDE DEF new, freed
  <2>2. new.key = row.key /\ new.ver = row.ver /\ new.st = "queued"
    BY <1>2, <2>1
  <2> QED
    BY <2>2 DEF new
<1>4. ASSUME fate # "requeue"
      PROVE  new.key = row.key /\ new.ver = row.ver /\ new.st # "none"
  <2>1. \E st \in {"canceled", "failed"}, err \in {"canceled", "superseded", "error"} :
          new = [freed EXCEPT !.st = st, !.err = err]
    <3>1. CASE fate = "canceled"
      <4>1. new = [freed EXCEPT !.st = "canceled", !.err = "canceled"]
        BY <3>1 DEF Recovered
      <4> QED
        BY <4>1
    <3>2. CASE fate = "superseded"
      <4>1. new = [freed EXCEPT !.st = "failed", !.err = "superseded"]
        BY <3>2 DEF Recovered
      <4> QED
        BY <4>1
    <3>3. CASE fate = "exhausted"
      <4>1. new = [freed EXCEPT !.st = "failed", !.err = "error"]
        BY <3>3 DEF Recovered
      <4> QED
        BY <4>1
    <3> QED
      BY <1>4, <3>1, <3>2, <3>3 DEF Fates
  <2> HIDE DEF new, freed
  <2>2. PICK st \in {"canceled", "failed"}, err \in {"canceled", "superseded", "error"} :
          new = [freed EXCEPT !.st = st, !.err = err]
    BY <2>1
  <2>3. new.key = row.key /\ new.ver = row.ver /\ new.st = st
    BY <1>2, <2>2
  <2> QED
    BY <2>3
<1> QED
  BY <1>3, <1>4

\* The payloads change by an enqueue only, and no row comes back to life.
LEMMA OtherKeeps ==
  ASSUME TableTypeOK, TableInv, TableTypeOK', OtherStep
  PROVE  RowsKept /\ VersionsKept
<1> USE JobsAssumption
<1>0. \A j \in Job : job[j] \in Row
  BY DEF TableTypeOK
<1>1. ASSUME NEW S \in SUBSET Job, CancelQueuedJobs(S)
      PROVE  RowsKept /\ VersionsKept
  <2>1. \A j \in Job : \/ job'[j] = job[j]
                       \/ /\ job[j].st = "queued"
                          /\ job'[j] = [job[j] EXCEPT !.st = "canceled", !.err = "canceled"]
    BY <1>1 DEF CancelQueuedJobs
  <2>2. \A j \in Job : \/ job'[j] = job[j]
                       \/ /\ job[j].st = "queued" /\ job'[j].st = "canceled"
                          /\ job'[j].key = job[j].key /\ job'[j].ver = job[j].ver
    <3> TAKE j \in Job
    <3>1. job[j] \in Row
      BY <1>0
    <3>2. CASE /\ job[j].st = "queued"
               /\ job'[j] = [job[j] EXCEPT !.st = "canceled", !.err = "canceled"]
      BY <3>1, <3>2 DEF Row
    <3> QED
      BY <2>1, <3>2
  <2>3. QED
    BY <2>2 DEF RowsKept, VersionsKept, Live
<1>2. ASSUME NEW S \in SUBSET {j \in Job : job[j].st \in Ended}, DeleteJobs(S)
      PROVE  RowsKept /\ VersionsKept
  <2>1. \A j \in Job : \/ job'[j] = job[j]
                       \/ /\ job[j].st \in Ended
                          /\ job'[j] = [job[j] EXCEPT !.st = "gone", !.cancel = FALSE]
    BY <1>2 DEF DeleteJobs
  <2>2. \A j \in Job : \/ job'[j] = job[j]
                       \/ /\ job[j].st \in Ended /\ job'[j].st = "gone"
                          /\ job'[j].key = job[j].key /\ job'[j].ver = job[j].ver
    <3> TAKE j \in Job
    <3> QED
      BY <1>0, <2>1 DEF Row
  <2>3. QED
    BY <2>2 DEF RowsKept, VersionsKept, Live, Ended
<1>3. ASSUME NEW j \in Job, RequestCancelRunningJob(j) \/ LeaseExpires(j)
      PROVE  RowsKept /\ VersionsKept
  <2>1. /\ job' \in [Job -> Row] /\ job[j].st = "running"
        /\ \A i \in Job \ {j} : job'[i] = job[i]
        /\ job'[j] \in {[job[j] EXCEPT !.cancel = TRUE], [job[j] EXCEPT !.fresh = FALSE]}
    BY <1>3 DEF RequestCancelRunningJob, LeaseExpires, TableTypeOK
  <2>2. job'[j].st = job[j].st /\ job'[j].key = job[j].key /\ job'[j].ver = job[j].ver
    BY <1>0, <2>1 DEF Row
  <2>3. QED
    BY <2>1, <2>2, OneRowKept
<1>4. ASSUME NEW p \in Proc, NEW j \in Job, ClaimNextJob(p, j)
      PROVE  RowsKept /\ VersionsKept
  <2> DEFINE n == IF job[j].started = 0 THEN claims + 1 ELSE job[j].started
  <2>1. /\ job' \in [Job -> Row] /\ job[j].st = "queued"
        /\ \A i \in Job \ {j} : job'[i] = job[i]
        /\ job'[j] = [job[j] EXCEPT !.st = "running", !.by = p, !.fresh = TRUE,
                                    !.attempts = job[j].attempts + 1, !.started = n]
    BY <1>4 DEF ClaimNextJob, Claimable, TableTypeOK
  <2> HIDE DEF n
  <2>2. job'[j].st = "running" /\ job'[j].key = job[j].key /\ job'[j].ver = job[j].ver
    BY <1>0, <2>1 DEF Row
  <2>3. QED
    BY <2>1, <2>2, OneRowKept DEF Live
<1>5. ASSUME NEW p \in Proc, NEW j \in Job, HeartbeatJob(p, j)
      PROVE  RowsKept /\ VersionsKept
  <2>1. /\ job' \in [Job -> Row] /\ job[j].st = "running"
        /\ \A i \in Job \ {j} : job'[i] = job[i]
        /\ job'[j] = [job[j] EXCEPT !.fresh = TRUE]
    BY <1>5 DEF HeartbeatJob, Owned, TableTypeOK
  <2>2. job'[j].st = job[j].st /\ job'[j].key = job[j].key /\ job'[j].ver = job[j].ver
    BY <1>0, <2>1 DEF Row
  <2>3. QED
    BY <2>1, <2>2, OneRowKept
<1>6. ASSUME NEW p \in Proc, NEW j \in Job, NEW status \in Ended, NEW error \in ErrorText,
             FinishJob(p, j, status, error)
      PROVE  RowsKept /\ VersionsKept
  <2>1. /\ job' \in [Job -> Row] /\ job[j].st = "running"
        /\ \A i \in Job \ {j} : job'[i] = job[i]
        /\ job'[j] = [job[j] EXCEPT !.st = status, !.err = error, !.by = None, !.fresh = FALSE]
    BY <1>6 DEF FinishJob, Owned, TableTypeOK
  <2>2. job'[j].st = status /\ job'[j].key = job[j].key /\ job'[j].ver = job[j].ver
    BY <1>0, <2>1 DEF Row
  <2>3. QED
    BY <2>1, <2>2, OneRowKept DEF Live, Ended
<1>7. ASSUME NEW S \in SUBSET {j \in Job : job[j].st = "running"}, NEW graceful \in BOOLEAN,
             RecoverRunningJobs(S, graceful)
      PROVE  RowsKept /\ VersionsKept
  <2>1. \A j \in S : job'[j].key = job[j].key /\ job'[j].ver = job[j].ver /\ job'[j].st # "none"
    <3> TAKE j \in S
    <3>1. job'[j] = Recovered(job[j], Fate(S, j, graceful), graceful) /\ job[j] \in Row
      BY <1>0, <1>7 DEF RecoverRunningJobs
    <3>2. Fate(S, j, graceful) \in Fates
      BY FateType
    <3> QED
      BY <3>1, <3>2, RecoveredKeeps
  <2>2. \A j \in Job \ S : job'[j] = job[j]
    BY <1>7 DEF RecoverRunningJobs
  <2>3. \A j \in S : job[j].st = "running"
    OBVIOUS
  <2>4. QED
    BY <2>1, <2>2, <2>3 DEF RowsKept, VersionsKept, Live
<1>8. CASE UNCHANGED tableVars
  BY <1>8 DEF tableVars, RowsKept, VersionsKept
<1>9. QED
  BY <1>1, <1>2, <1>3, <1>4, <1>5, <1>6, <1>7, <1>8 DEF OtherStep

\* So do the statements of the enqueue, when they write the last request.
LEMMA EnqueueKeeps ==
  ASSUME TableTypeOK, TableTypeOK', NEW j \in Job, NEW k \in Key, NEW v \in Nat,
         v = wanted[TargetOf[k]],
         InsertJob(j, k, v) \/ (UpdateQueuedJobPayload(j, v) /\ job[j].key = k)
  PROVE  RowsKept /\ VersionsKept
<1>1. job[j] \in Row
  BY DEF TableTypeOK
<1>2. \A i \in Job \ {j} : job'[i] = job[i]
  BY DEF InsertJob, UpdateQueuedJobPayload, TableTypeOK
<1>3. job'[j].key = k /\ job'[j].ver = v /\ job'[j].st = "queued"
  <2>1. CASE InsertJob(j, k, v)
    BY <2>1 DEF InsertJob, NoRow, TableTypeOK
  <2>2. CASE UpdateQueuedJobPayload(j, v) /\ job[j].key = k
    <3>1. job'[j] = [job[j] EXCEPT !.ver = v] /\ job[j].st = "queued"
      BY <2>2 DEF UpdateQueuedJobPayload, TableTypeOK
    <3>2. QED
      BY <1>1, <2>2, <3>1 DEF Row
  <2>3. QED
    BY <2>1, <2>2
<1>4. job[j].st = "none" \/ job[j].key = k
  BY DEF InsertJob, NextId
<1>5. QED
  BY <1>2, <1>3, <1>4 DEF RowsKept, VersionsKept

-----------------------------------------------------------------------------
(* What a step that takes up no job keeps. *)

\* A loop goes on with the target it had.
LEMMA MineKept ==
  ASSUME WorkerTypeOK, OwnInv, RowsKept, LoopsShrink,
         NEW w \in Worker, worker'[w].pc \in Busy
  PROVE  /\ worker[w].pc \in Busy /\ worker[w].job \in Job
         /\ worker'[w].job = worker[w].job /\ worker'[w].ver = worker[w].ver
         /\ Mine(w)' = Mine(w)
<1>1. /\ worker[w].pc \in Busy
      /\ worker'[w].job = worker[w].job /\ worker'[w].ver = worker[w].ver
  BY DEF LoopsShrink
<1>2. worker[w].job \in Job /\ job[worker[w].job].st # "none"
  BY <1>1 DEF WorkerTypeOK, OwnInv
<1>3. job'[worker[w].job].key = job[worker[w].job].key
  BY <1>2 DEF RowsKept
<1>4. QED
  BY <1>1, <1>2, <1>3 DEF Mine, TargetOfJob

LEMMA OwnFrame ==
  ASSUME WorkerTypeOK, OwnInv, RowsKept, LoopsShrink, LeasesKept
  PROVE  OwnInv'
<1>1. Owning \subseteq Busy
  BY DEF Owning
<1>2. ASSUME NEW w \in Worker, worker'[w].pc \in Busy
      PROVE  job'[worker'[w].job].st # "none"
  BY <1>2, MineKept DEF OwnInv, RowsKept
<1>3. ASSUME NEW w \in Worker, worker'[w].pc \in Owning, Sure(w)'
      PROVE  /\ worker[w].pc \in Owning /\ Sure(w) /\ worker'[w].job = worker[w].job
             /\ Owned(ProcOf[w], worker[w].job)' /\ job'[worker'[w].job].fresh
  <2>1. worker[w].pc \in Owning /\ Sure(w) /\ worker'[w].job = worker[w].job
    BY <1>1, <1>3 DEF LoopsShrink
  <2>2. Owned(ProcOf[w], worker[w].job) /\ job[worker[w].job].fresh
    BY <2>1 DEF OwnInv
  <2>3. Owned(ProcOf[w], worker[w].job)' /\ job'[worker[w].job].fresh
    BY <1>3, <2>2 DEF LeasesKept
  <2>4. QED
    BY <2>1, <2>3 DEF Owned
<1>4. ASSUME NEW v \in Worker, NEW w \in Worker,
             worker'[v].pc \in Owning, Sure(v)', worker'[w].pc \in Owning, Sure(w)',
             worker'[v].job = worker'[w].job
      PROVE  v = w
  BY <1>3, <1>4 DEF OwnInv
<1>5. QED
  BY <1>2, <1>3, <1>4 DEF OwnInv

LEMMA KnownFrame ==
  ASSUME IInv, IInv', OwnInv, KnownInv, RowsKept, VersionsKept, LoopsShrink,
         \A t \in Target : wanted[t] <= wanted'[t] /\ device'[t] <= wanted[t]
  PROVE  KnownInv'
<1> USE JobsAssumption DEF KnownInv
<1>0. /\ TableTypeOK /\ WorkerTypeOK /\ PersonTypeOK
      /\ TableTypeOK' /\ WorkerTypeOK' /\ PersonTypeOK' /\ LiveHasKey /\ LiveHasKey'
  BY TypeParts, TypePartsNext DEF IInv, TableInv
<1>1. ASSUME NEW t \in Target PROVE device'[t] <= wanted'[t]
  BY <1>0 DEF PersonTypeOK
<1>2. ASSUME NEW j \in Job, job'[j].st # "none"
      PROVE  job'[j].ver <= wanted'[TargetOfJob(j)']
  <2> DEFINE t == TargetOf[job'[j].key]
  <2>1. t \in Target /\ wanted[t] \in Nat /\ wanted'[t] \in Nat
    BY <1>0, <1>2 DEF LiveHasKey, PersonTypeOK
  <2>2. CASE job[j].st # "none" /\ job'[j].ver = job[j].ver
    <3>1. job[j].ver <= wanted[t] /\ job[j].ver \in Nat
      BY <1>0, <2>2 DEF RowsKept, TargetOfJob, TableTypeOK, Row
    <3>2. QED
      BY <2>1, <2>2, <3>1 DEF TargetOfJob
  <2>3. CASE job'[j].ver = wanted[t]
    BY <2>1, <2>3 DEF TargetOfJob
  <2>4. QED
    BY <1>2, <2>2, <2>3 DEF VersionsKept
<1>3. ASSUME NEW w \in Worker, worker'[w].pc \in Busy
      PROVE  worker'[w].ver <= wanted'[Mine(w)']
  <2>1. /\ worker[w].pc \in Busy /\ worker[w].job \in Job
        /\ worker'[w].ver = worker[w].ver /\ Mine(w)' = Mine(w)
    BY <1>0, <1>3, MineKept
  <2>2. Mine(w) \in Target
    BY <1>0, <2>1 DEF Mine, TargetOfJob, OwnInv, LiveHasKey
  <2>3. worker[w].ver <= wanted[Mine(w)] /\ worker[w].ver \in Nat
    BY <1>0, <2>1 DEF WorkerTypeOK, WorkerState
  <2>4. wanted[Mine(w)] \in Nat /\ wanted'[Mine(w)] \in Nat
    BY <1>0, <2>2 DEF PersonTypeOK
  <2>5. QED
    BY <2>1, <2>2, <2>3, <2>4
<1>4. QED
  BY <1>1, <1>2, <1>3

\* A live row after the step was live, or holds the last request of its target.
LEMMA LiveKept ==
  ASSUME IInv, IInv', KnownInv, RowsKept, VersionsKept, NEW j \in Job, job'[j].st \in Live
  PROVE  /\ TargetOfJob(j)' \in Target
         /\ \/ /\ job[j].st \in Live /\ TargetOfJob(j)' = TargetOfJob(j)
               /\ job'[j].ver = job[j].ver
            \/ job'[j].ver = wanted[TargetOfJob(j)']
<1>1. LiveHasKey'
  BY DEF IInv, TableInv
<1>2. job'[j].st # "none"
  BY DEF Live
<1>3. QED
  BY <1>1, <1>2, JobsAssumption DEF LiveHasKey, RowsKept, VersionsKept, TargetOfJob

LEMMA OrderFrame ==
  ASSUME IInv, IInv', OwnInv, KnownInv, OrderInv, RowsKept, VersionsKept, LoopsShrink,
         UNCHANGED device
  PROVE  OrderInv'
<1> USE JobsAssumption
<1>0. WorkerTypeOK /\ PersonTypeOK /\ Pass \subseteq Busy
  BY TypeParts DEF IInv, Pass, Busy, WorkerPc
<1>1. ASSUME NEW j \in Job, job'[j].st \in Live
      PROVE  device'[TargetOfJob(j)'] <= job'[j].ver
  <2>1. CASE job[j].st \in Live /\ TargetOfJob(j)' = TargetOfJob(j) /\ job'[j].ver = job[j].ver
    BY <2>1 DEF OrderInv
  <2>2. CASE job'[j].ver = wanted[TargetOfJob(j)']
    BY <1>1, <2>2, LiveKept DEF KnownInv
  <2>3. QED
    BY <1>1, <2>1, <2>2, LiveKept
<1>2. ASSUME NEW w \in Worker, worker'[w].pc \in Pass
      PROVE  /\ worker[w].pc \in Pass /\ worker'[w].ver = worker[w].ver /\ Mine(w)' = Mine(w)
             /\ worker[w].ver <= wanted[Mine(w)] /\ (Sure(w)' => Sure(w))
  <2>1. worker[w].pc \in Pass /\ worker'[w].ver = worker[w].ver /\ (Sure(w)' => Sure(w))
    BY <1>0, <1>2 DEF LoopsShrink
  <2>2. Mine(w)' = Mine(w)
    BY <1>0, <1>2, MineKept
  <2>3. QED
    BY <1>0, <2>1, <2>2 DEF KnownInv
<1>3. ASSUME NEW w \in Worker, NEW j \in Job,
             worker'[w].pc \in Pass, job'[j].st \in Live, TargetOfJob(j)' = Mine(w)'
      PROVE  worker'[w].ver <= job'[j].ver
  <2>1. CASE job[j].st \in Live /\ TargetOfJob(j)' = TargetOfJob(j) /\ job'[j].ver = job[j].ver
    BY <1>2, <1>3, <2>1 DEF OrderInv
  <2>2. CASE job'[j].ver = wanted[TargetOfJob(j)']
    BY <1>2, <1>3, <2>2
  <2>3. QED
    BY <1>3, <2>1, <2>2, LiveKept
<1>4. ASSUME NEW w \in Worker, worker'[w].pc \in Pass, Sure(w)'
      PROVE  /\ device'[Mine(w)'] <= worker'[w].ver
             /\ \A v \in Worker : worker'[v].pc \in Pass /\ Mine(v)' = Mine(w)'
                                    => worker'[v].ver <= worker'[w].ver
  BY <1>2, <1>4 DEF OrderInv
<1>5. QED
  BY <1>1, <1>3, <1>4 DEF OrderInv

-----------------------------------------------------------------------------
(* The calls that enqueue. *)

\* A call that changes its own state keeps the invariant of the calls.
LEMMA AskFrame ==
  ASSUME RequestTypeOK, AskInv, RowsKept, UNCHANGED wanted,
         NEW r \in Requester, NEW q, req' = [req EXCEPT ![r] = q],
         q.pc \notin {"idle", "listed"} => q.ver = wanted[TargetOf[q.key]],
         q.pc \in {"merge", "remerge"}
           => q.job \in Job /\ job[q.job].st # "none" /\ job[q.job].key = q.key
  PROVE  AskInv'
<1> SUFFICES ASSUME NEW s \in Requester
             PROVE  /\ req'[s].pc \notin {"idle", "listed"}
                         => req'[s].ver = wanted[TargetOf[req'[s].key]]
                    /\ req'[s].pc \in {"merge", "remerge"}
                         => job'[req'[s].job].st # "none" /\ job'[req'[s].job].key = req'[s].key
  BY DEF AskInv
<1>1. req'[s] = q \/ req'[s] = req[s]
  BY DEF RequestTypeOK
<1>2. CASE req'[s] = q
  BY <1>2 DEF RowsKept
<1>3. CASE req'[s] = req[s]
  BY <1>3 DEF AskInv, RowsKept, RequestTypeOK
<1>4. QED
  BY <1>1, <1>2, <1>3

LEMMA AskStays ==
  ASSUME RequestTypeOK, AskInv, RowsKept, UNCHANGED <<req, wanted>>
  PROVE  AskInv'
BY DEF AskInv, RowsKept, RequestTypeOK

LEMMA LoopsStay == UNCHANGED <<proc, worker>> => LoopsShrink
BY DEF LoopsShrink, Sure, LifeOf

LEMMA TableStays == UNCHANGED job => RowsKept /\ VersionsKept
BY DEF RowsKept, VersionsKept

LEMMA LeasesStay == UNCHANGED job /\ LoopsShrink => LeasesKept
BY DEF LeasesKept, LoopsShrink, Owned, Owning

\* What a step that neither takes up a job nor writes the reader keeps.
Frame ==
  /\ RowsKept /\ VersionsKept /\ LoopsShrink /\ LeasesKept /\ AskInv'
  /\ UNCHANGED device
  /\ \A t \in Target : wanted[t] <= wanted'[t]

LEMMA FrameInv == RaceInv /\ IInv' /\ Frame => RaceInv'
<1> SUFFICES ASSUME RaceInv, IInv', Frame PROVE RaceInv'
  OBVIOUS
<1>1. WorkerTypeOK
  BY TypeParts DEF IInv, RaceInv
<1>2. \A t \in Target : device'[t] <= wanted[t]
  BY DEF RaceInv, KnownInv, Frame
<1>3. OwnInv'
  BY <1>1, OwnFrame DEF RaceInv, Frame
<1>4. KnownInv'
  BY <1>2, KnownFrame DEF RaceInv, Frame
<1>5. OrderInv'
  BY OrderFrame DEF RaceInv, Frame
<1>6. QED
  BY <1>3, <1>4, <1>5 DEF RaceInv, Frame

\* An enqueue writes the payload of the last request of its target.
LEMMA RequestsFrame ==
  ASSUME RaceInv, IInv', OneCallPerTarget', "retry" \notin Faults, Requests
  PROVE  Frame
<1> USE JobsAssumption DEF procVars, personVars
<1>0. /\ TableTypeOK /\ WorkerTypeOK /\ RequestTypeOK /\ PersonTypeOK
      /\ TableTypeOK' /\ AskInv /\ OwnInv /\ PersonTypeOK' /\ RequestTypeOK'
  BY TypeParts, TypePartsNext DEF IInv, RaceInv
<1>1. ASSUME UNCHANGED wanted PROVE \A t \in Target : wanted[t] <= wanted'[t]
  BY <1>0, <1>1 DEF PersonTypeOK
<1>2. UNCHANGED <<proc, worker, device>>
  BY DEF Requests, Request, Ask, ReconcileReads, ReconcileAsks, Retry, FindActive,
         MergeQueued, InsertOrCatch, FindRaced,
         MergeRaced, DropRequest
<1>3. LoopsShrink
  BY <1>2, LoopsStay
<1>4. NoRequest.pc = "idle"
  BY DEF NoRequest
<1>5. ASSUME NEW r \in Requester, NEW k \in Key, Ask(r, k)
      PROVE  Frame
  <2> DEFINE t == TargetOf[k]
             q == [pc |-> "find", key |-> k, ver |-> wanted[t] + 1, job |-> None]
  <2>1. /\ UNCHANGED job /\ wanted' = [wanted EXCEPT ![t] = @ + 1]
        /\ req' = [req EXCEPT ![r] = q] /\ t \in Target
    BY <1>5 DEF Ask, tableVars
  <2>2. RowsKept /\ VersionsKept /\ LeasesKept
    BY <1>3, <2>1, TableStays, LeasesStay
  <2>3. \A u \in Target : wanted[u] <= wanted'[u]
    BY <1>0, <2>1 DEF PersonTypeOK
  <2>4. q.pc = "find" /\ q.key = k /\ q.ver = wanted'[t] /\ req'[r] = q
    BY <1>0, <2>1 DEF PersonTypeOK, RequestTypeOK
  <2> HIDE DEF q
  <2>5. ASSUME NEW s \in Requester
        PROVE  /\ req'[s].pc \notin {"idle", "listed"}
                    => req'[s].ver = wanted'[TargetOf[req'[s].key]]
               /\ req'[s].pc \in {"merge", "remerge"}
                    => job'[req'[s].job].st # "none" /\ job'[req'[s].job].key = req'[s].key
    <3>1. CASE s = r
      BY <2>4, <3>1
    <3>2. CASE s # r /\ req'[s].pc \notin {"idle", "listed"}
      <4>1. req'[s] = req[s]
        BY <1>0, <2>1, <3>2 DEF RequestTypeOK
      <4>2. TargetOf[req[s].key] # t
        BY <2>4, <3>2, <4>1 DEF OneCallPerTarget
      <4>3. TargetOf[req[s].key] \in Target
        BY <1>0, <3>2, <4>1 DEF RequestTypeOK
      <4>4. wanted'[TargetOf[req[s].key]] = wanted[TargetOf[req[s].key]]
        BY <1>0, <2>1, <4>2, <4>3 DEF PersonTypeOK
      <4>5. QED
        BY <1>0, <2>1, <3>2, <4>1, <4>4 DEF AskInv
    <3>3. CASE s # r /\ req'[s].pc = "idle"
      BY <3>3
    <3>4. QED
      BY <3>1, <3>2, <3>3
  <2>6. AskInv'
    BY <2>5 DEF AskInv
  <2>7. QED
    BY <1>2, <1>3, <2>2, <2>3, <2>6 DEF Frame
<1>6. ASSUME NEW r \in Requester, FindActive(r) \/ FindRaced(r) \/ DropRequest(r)
      PROVE  Frame
  <2>1. UNCHANGED job /\ UNCHANGED wanted
    BY <1>6 DEF FindActive, FindRaced, DropRequest, tableVars
  <2>2. RowsKept /\ VersionsKept /\ LeasesKept
    BY <1>3, <2>1, TableStays, LeasesStay
  <2>3. PICK q : /\ req' = [req EXCEPT ![r] = q]
                 /\ \/ q = NoRequest
                    \/ \E j \in QueuedTwins(req[r].key) :
                         q \in {[req[r] EXCEPT !.pc = "merge", !.job = j],
                                [req[r] EXCEPT !.pc = "remerge", !.job = j]}
                    \/ q = [req[r] EXCEPT !.pc = "insert"]
                 /\ q # NoRequest => req[r].pc \notin {"idle", "listed"}
    <3>1. CASE FindActive(r)
      BY <1>0, <3>1 DEF FindActive, RequestTypeOK
    <3>2. CASE FindRaced(r)
      BY <1>0, <3>2 DEF FindRaced, RequestTypeOK
    <3>3. CASE DropRequest(r)
      BY <3>3 DEF DropRequest
    <3>4. QED
      BY <1>6, <3>1, <3>2, <3>3
  <2>4. req[r] \in RequestState
    BY <1>0 DEF RequestTypeOK
  <2>5. q # NoRequest => q.ver = req[r].ver /\ q.key = req[r].key
    BY <2>3, <2>4 DEF RequestState
  <2>6. q.pc \in {"merge", "remerge"} => q.job \in QueuedTwins(req[r].key)
    BY <1>4, <2>3, <2>4 DEF RequestState
  <2>7. q.pc \in {"merge", "remerge"}
          => q.job \in Job /\ job[q.job].st # "none" /\ job[q.job].key = q.key
    BY <1>4, <2>5, <2>6 DEF QueuedTwins
  <2>8. q.pc \notin {"idle", "listed"} => q.ver = wanted[TargetOf[q.key]]
    BY <1>0, <1>4, <2>3, <2>5 DEF AskInv
  <2>9. AskInv'
    BY <1>0, <2>1, <2>2, <2>3, <2>7, <2>8, AskFrame
  <2>10. QED
    BY <1>1, <1>2, <1>3, <2>1, <2>2, <2>9 DEF Frame
<1>7. ASSUME NEW r \in Requester, MergeQueued(r) \/ InsertOrCatch(r) \/ MergeRaced(r)
      PROVE  Frame
  <2>1. /\ UNCHANGED wanted /\ req[r].pc \in {"merge", "insert", "remerge"}
        /\ req[r] \in RequestState /\ req[r].key \in Key
        /\ req[r].pc \in {"merge", "remerge"} => req[r].job \in Job
    BY <1>0, <1>7 DEF MergeQueued, InsertOrCatch, MergeRaced, RequestTypeOK
  <2>2. req[r].ver = wanted[TargetOf[req[r].key]] /\ req[r].ver \in Nat
    BY <1>0, <2>1 DEF AskInv, RequestState
  <2>3. \/ UNCHANGED job
        \/ \E j \in Job : \/ InsertJob(j, req[r].key, req[r].ver)
                          \/ /\ UpdateQueuedJobPayload(j, req[r].ver)
                             /\ job[j].key = req[r].key
    BY <1>0, <1>7, <2>1 DEF MergeQueued, InsertOrCatch, MergeRaced, AskInv, tableVars
  <2>4. RowsKept /\ VersionsKept
    BY <1>0, <2>1, <2>2, <2>3, EnqueueKeeps, TableStays
  <2>5. \A j \in Job : job[j].st = "running" => job'[j] = job[j]
    BY <1>0, <2>3 DEF InsertJob, NextId, UpdateQueuedJobPayload, TableTypeOK
  <2>6. LeasesKept
    <3> SUFFICES ASSUME NEW w \in Worker, worker'[w].pc \in Owning,
                        Owned(ProcOf[w], worker[w].job), job[worker[w].job].fresh
                 PROVE  Owned(ProcOf[w], worker[w].job)' /\ job'[worker[w].job].fresh
      BY DEF LeasesKept
    <3>1. worker'[w] = worker[w] /\ worker[w].job \in Job
      BY <1>0, <1>2 DEF WorkerTypeOK, Owning
    <3>2. QED
      BY <2>5, <3>1 DEF Owned
  <2>7. \/ req' = [req EXCEPT ![r] = NoRequest]
        \/ req' = [req EXCEPT ![r] = [@ EXCEPT !.pc = "insert", !.job = None]]
        \/ req' = [req EXCEPT ![r] = [@ EXCEPT !.pc = "refind"]]
    BY <1>0, <1>7 DEF MergeQueued, InsertOrCatch, MergeRaced, RequestTypeOK
  <2>8. PICK q : /\ req' = [req EXCEPT ![r] = q]
                 /\ q.pc \notin {"idle", "listed"} => q.ver = req[r].ver /\ q.key = req[r].key
                 /\ q.pc \notin {"merge", "remerge"}
    <3>1. CASE req' = [req EXCEPT ![r] = NoRequest]
      BY <1>4, <3>1
    <3>2. CASE req' = [req EXCEPT ![r] = [@ EXCEPT !.pc = "insert", !.job = None]]
      BY <1>0, <2>1, <3>2 DEF RequestState, RequestTypeOK
    <3>3. CASE req' = [req EXCEPT ![r] = [@ EXCEPT !.pc = "refind"]]
      <4> DEFINE q == [req[r] EXCEPT !.pc = "refind"]
      <4>1. req' = [req EXCEPT ![r] = q] /\ q.ver = req[r].ver /\ q.key = req[r].key
            /\ q.pc = "refind"
        BY <1>0, <2>1, <3>3 DEF RequestState, RequestTypeOK
      <4> HIDE DEF q
      <4>2. QED
        BY <4>1
    <3>4. QED
      BY <2>7, <3>1, <3>2, <3>3
  <2>9. AskInv'
    BY <1>0, <2>1, <2>2, <2>4, <2>8, AskFrame
  <2>10. QED
    BY <1>1, <1>2, <1>3, <2>1, <2>4, <2>6, <2>9 DEF Frame
<1>8. \A r \in Requester, j \in Job : ~Retry(r, j)
  BY DEF Retry
<1>9. ASSUME NEW r \in Requester, NEW k \in Key, ReconcileReads(r, k)
      PROVE  Frame
  <2> DEFINE q == [NoRequest EXCEPT !.pc = "listed", !.key = k]
  <2>1. UNCHANGED <<job, wanted>> /\ req' = [req EXCEPT ![r] = q]
    BY <1>9 DEF ReconcileReads, tableVars
  <2>2. q.pc = "listed"
    BY DEF NoRequest
  <2> HIDE DEF q
  <2>3. RowsKept /\ VersionsKept /\ LeasesKept
    BY <1>3, <2>1, TableStays, LeasesStay
  <2>4. AskInv'
    BY <1>0, <2>1, <2>2, <2>3, AskFrame
  <2>5. QED
    BY <1>1, <1>2, <1>3, <2>1, <2>3, <2>4 DEF Frame
<1>10. ASSUME NEW r \in Requester, ReconcileAsks(r)
       PROVE  Frame
  <2> DEFINE t == TargetOf[req[r].key]
  <2>1. UNCHANGED <<job, wanted>> /\ req[r].pc = "listed" /\ req[r] \in RequestState
    BY <1>0, <1>10 DEF ReconcileAsks, tableVars, RequestTypeOK
  <2>2. PICK q : /\ req' = [req EXCEPT ![r] = q]
                 /\ q \in {NoRequest, [req[r] EXCEPT !.pc = "find", !.ver = wanted[t]]}
    <3>1. \/ req' = [req EXCEPT ![r] = NoRequest]
          \/ req' = [req EXCEPT ![r] = [req[r] EXCEPT !.pc = "find", !.ver = wanted[t]]]
      BY <1>0, <1>10 DEF ReconcileAsks, RequestTypeOK
    <3>2. QED
      BY <3>1
  <2>3. /\ q.pc \notin {"idle", "listed"} => q.ver = wanted[TargetOf[q.key]]
        /\ q.pc \notin {"merge", "remerge"}
    <3>1. CASE q = NoRequest
      BY <1>4, <3>1
    <3>2. CASE q = [req[r] EXCEPT !.pc = "find", !.ver = wanted[t]]
      BY <2>1, <3>2 DEF RequestState
    <3>3. QED
      BY <2>2, <3>1, <3>2
  <2>4. RowsKept /\ VersionsKept /\ LeasesKept
    BY <1>3, <2>1, TableStays, LeasesStay
  <2>5. AskInv'
    BY <1>0, <2>1, <2>2, <2>3, <2>4, AskFrame
  <2>6. QED
    BY <1>1, <1>2, <1>3, <2>1, <2>4, <2>5 DEF Frame
<1>11. QED
  BY <1>5, <1>6, <1>7, <1>8, <1>9, <1>10 DEF Requests, Request

-----------------------------------------------------------------------------
(* Time, the reaper, shutdown and crash; the administration. *)

\* What is left to show of a step that leaves the calls and the reader alone.
LEMMA OtherFrame ==
  ASSUME RaceInv, IInv', OtherStep, LoopsShrink, LeasesKept, UNCHANGED <<req, wanted, device>>
  PROVE  Frame
<1>1. TableTypeOK /\ TableInv /\ TableTypeOK' /\ RequestTypeOK /\ PersonTypeOK
  BY TypeParts, TypePartsNext DEF IInv, RaceInv
<1>2. RowsKept /\ VersionsKept
  BY <1>1, OtherKeeps
<1>3. AskInv'
  BY <1>1, <1>2, AskStays DEF RaceInv
<1>4. \A t \in Target : wanted[t] <= wanted'[t]
  BY <1>1 DEF PersonTypeOK
<1>5. QED
  BY <1>2, <1>3, <1>4 DEF Frame

\* A lease ends when its loop is dead, its process gave it back, or it finished.
LEMMA ProcessesFrame ==
  ASSUME RaceInv, IInv', "stall" \notin Faults, Processes
  PROVE  Frame
<1> USE JobsAssumption, QueueAssumption DEF procVars, personVars
<1>0. TableTypeOK /\ WorkerTypeOK /\ ProcTypeOK /\ OwnInv /\ ProcTypeOK'
  BY TypeParts, TypePartsNext DEF IInv, RaceInv
<1>1. UNCHANGED <<req, wanted, device>>
  BY DEF Processes, Expire, Stall, Reap, Stop, Drained, GraceOver, Exit, Crash, Vanish,
         PersistAbandoned
<1>2. Owning \subseteq Busy
  BY DEF Owning
<1>3. ASSUME NEW j \in Job, Expire(j)
      PROVE  Frame
  <2>1. OtherStep
    BY <1>3 DEF Expire, OtherStep
  <2>2. LoopsShrink /\ UNCHANGED worker
    BY <1>3, LoopsStay DEF Expire
  <2>3. LeasesKept
    <3> SUFFICES ASSUME NEW w \in Worker, worker[w].pc \in Owning, Sure(w)',
                        Owned(ProcOf[w], worker[w].job), job[worker[w].job].fresh
                 PROVE  Owned(ProcOf[w], worker[w].job)' /\ job'[worker[w].job].fresh
      BY <2>2 DEF LeasesKept
    <3>1. Sure(w)
      BY <2>2 DEF LoopsShrink
    <3>2. worker[w].job # j
      BY <1>2, <1>3, <3>1 DEF Expire, Beating, Sure, Alive
    <3>3. job'[worker[w].job] = job[worker[w].job]
      BY <1>0, <1>2, <1>3, <3>2 DEF Expire, LeaseExpires, TableTypeOK, WorkerTypeOK
    <3>4. QED
      BY <2>2, <3>3 DEF Owned
  <2>4. QED
    BY <1>1, <2>1, <2>2, <2>3, OtherFrame
<1>4. ASSUME NEW p \in Proc, Reap(p)
      PROVE  Frame
  <2>1. StaleRunning \in SUBSET {j \in Job : job[j].st = "running"}
    BY DEF StaleRunning
  <2>2. OtherStep
    BY <1>4, <2>1 DEF Reap, OtherStep
  <2>3. LoopsShrink /\ UNCHANGED worker
    BY <1>4, LoopsStay DEF Reap
  <2>4. LeasesKept
    <3> SUFFICES ASSUME NEW w \in Worker, worker[w].pc \in Owning,
                        Owned(ProcOf[w], worker[w].job), job[worker[w].job].fresh
                 PROVE  Owned(ProcOf[w], worker[w].job)' /\ job'[worker[w].job].fresh
      BY <2>3 DEF LeasesKept
    <3>1. worker[w].job \in Job \ StaleRunning
      BY <1>0, <1>2 DEF WorkerTypeOK, StaleRunning
    <3>2. job'[worker[w].job] = job[worker[w].job]
      BY <1>4, <3>1 DEF Reap, RecoverRunningJobs
    <3>3. QED
      BY <2>3, <3>2 DEF Owned
  <2>5. QED
    BY <1>1, <2>2, <2>3, <2>4, OtherFrame
<1>5. ASSUME NEW p \in Proc, GraceOver(p)
      PROVE  Frame
  <2>1. RunningOf(p) \in SUBSET {j \in Job : job[j].st = "running"}
    BY DEF RunningOf, Owned
  <2>2. OtherStep
    BY <1>5, <2>1 DEF GraceOver, OtherStep
  <2>3. UNCHANGED worker /\ proc' = [proc EXCEPT ![p] = "released"]
    BY <1>5 DEF GraceOver
  <2>4. \A w \in Worker : Sure(w)' => Sure(w) /\ ProcOf[w] # p
    BY <1>0, <2>3 DEF Sure, LifeOf, ProcTypeOK
  <2>5. LoopsShrink
    BY <2>3, <2>4 DEF LoopsShrink
  <2>6. LeasesKept
    <3> SUFFICES ASSUME NEW w \in Worker, worker[w].pc \in Owning, Sure(w)',
                        Owned(ProcOf[w], worker[w].job), job[worker[w].job].fresh
                 PROVE  Owned(ProcOf[w], worker[w].job)' /\ job'[worker[w].job].fresh
      BY <2>3 DEF LeasesKept
    <3>1. worker[w].job \in Job \ RunningOf(p)
      BY <1>0, <1>2, <2>4 DEF WorkerTypeOK, RunningOf, Owned
    <3>2. job'[worker[w].job] = job[worker[w].job]
      BY <1>5, <3>1 DEF GraceOver, RecoverRunningJobs
    <3>3. QED
      BY <2>3, <3>2 DEF Owned
  <2>7. QED
    BY <1>1, <2>2, <2>5, <2>6, OtherFrame
<1>6. ASSUME UNCHANGED tableVars, LoopsShrink
      PROVE  Frame
  BY <1>1, <1>6, LeasesStay, OtherFrame DEF OtherStep, tableVars
<1>7. ASSUME NEW p \in Proc, Stop(p)
      PROVE  Frame
  <2>1. \A w \in Worker : \/ worker'[w] = worker[w]
                          \/ worker'[w].pc \in {"polling", "exited"}
    BY <1>7 DEF Stop, Resting
  <2>2. UNCHANGED tableVars /\ proc' = [proc EXCEPT ![p] = "draining"] /\ proc[p] = "up"
    BY <1>7 DEF Stop
  <2>3. \A w \in Worker : Sure(w)' => Sure(w)
    BY <1>0, <2>2 DEF Sure, LifeOf, ProcTypeOK
  <2>4. LoopsShrink
    BY <2>1, <2>3 DEF LoopsShrink, Busy, Owning, Pass
  <2>5. QED
    BY <1>6, <2>2, <2>4
<1>8. ASSUME NEW p \in Proc, Drained(p) \/ Exit(p) \/ Crash(p)
      PROVE  Frame
  <2>1. Vanish(p)
    BY <1>8 DEF Drained, Exit, Crash
  <2>2. \A w \in Worker : worker'[w] = worker[w] \/ worker'[w].pc = "exited"
    BY <2>1 DEF Vanish, Resting
  <2>3. UNCHANGED tableVars /\ proc' = [proc EXCEPT ![p] = "down"]
    BY <2>1 DEF Vanish
  <2>4. \A w \in Worker : Sure(w)' => Sure(w)
    BY <1>0, <2>3 DEF Sure, LifeOf, ProcTypeOK
  <2>5. LoopsShrink
    BY <2>2, <2>4 DEF LoopsShrink, Busy, Owning, Pass
  <2>6. QED
    BY <1>6, <2>3, <2>5
<1>9. ASSUME NEW p \in Proc, NEW j \in Job, PersistAbandoned(p, j)
      PROVE  Frame
  BY <1>6, <1>9, LoopsStay DEF PersistAbandoned
<1>10. \A j \in Job : ~Stall(j)
  BY DEF Stall
<1>11. QED
  BY <1>3, <1>4, <1>5, <1>7, <1>8, <1>9, <1>10 DEF Processes

LEMMA AdministrationFrame ==
  ASSUME RaceInv, IInv', Administration
  PROVE  Frame
<1> USE JobsAssumption DEF procVars, personVars
<1>0. TableTypeOK /\ WorkerTypeOK /\ AdminTypeOK
  BY TypeParts DEF IInv, RaceInv
<1>1. UNCHANGED <<req, wanted, device, worker, proc>>
  BY DEF Administration, CancelRead, PersistCanceled, Purge, CancelOne, CancelRunning,
         CancelQueued, DropAdmin, ClearFailed, Withdraw
<1>2. LoopsShrink
  BY <1>1, LoopsStay
<1>3. \/ \E S \in SUBSET Job : CancelQueuedJobs(S)
      \/ \E S \in SUBSET {j \in Job : job[j].st \in Ended} : DeleteJobs(S)
      \/ \E j \in Job : RequestCancelRunningJob(j)
      \/ UNCHANGED tableVars
  <2>1. CASE CancelOne
    <3>1. {admin.job} \in SUBSET Job
      BY <1>0, <2>1 DEF CancelOne, AdminTypeOK
    <3>2. QED
      BY <2>1, <3>1 DEF CancelOne
  <2>2. CASE CancelRunning
    BY <1>0, <2>2 DEF CancelRunning, AdminTypeOK
  <2>3. CASE CancelQueued
    <3>1. {j \in Job : job[j].st = "queued"} \in SUBSET Job
      OBVIOUS
    <3>2. QED
      BY <2>3, <3>1 DEF CancelQueued
  <2>4. CASE ClearFailed \/ \E j \in Job : Purge(j)
    <3>1. {j \in Job : job[j].st = "failed"} \subseteq {j \in Job : job[j].st \in Ended}
      BY DEF Ended
    <3>2. \A j \in Job : job[j].st \in Ended => {j} \subseteq {i \in Job : job[i].st \in Ended}
      OBVIOUS
    <3>3. QED
      BY <2>4, <3>1, <3>2 DEF ClearFailed, Purge
  <2>5. CASE \/ \E j \in Job : CancelRead(j) \/ PersistCanceled(j)
             \/ DropAdmin \/ \E t \in Target : Withdraw(t)
    BY <2>5 DEF CancelRead, PersistCanceled, DropAdmin, Withdraw
  <2>6. QED
    BY <2>1, <2>2, <2>3, <2>4, <2>5 DEF Administration
<1>4. OtherStep
  BY <1>3 DEF OtherStep
<1>5. \A j \in Job : job[j].st = "running"
        => job'[j].st = "running" /\ job'[j].by = job[j].by /\ job'[j].fresh = job[j].fresh
  <2> SUFFICES ASSUME NEW j \in Job, job[j].st = "running"
               PROVE  job'[j].st = "running" /\ job'[j].by = job[j].by
                      /\ job'[j].fresh = job[j].fresh
    OBVIOUS
  <2>1. job[j] \in Row /\ job \in [Job -> Row]
    BY <1>0 DEF TableTypeOK
  <2>2. job'[j] = job[j] \/ job'[j] = [job[j] EXCEPT !.cancel = TRUE]
    BY <1>3, <2>1 DEF CancelQueuedJobs, DeleteJobs, RequestCancelRunningJob, Ended, tableVars
  <2>3. QED
    BY <2>1, <2>2 DEF Row
<1>6. LeasesKept
  <2> SUFFICES ASSUME NEW w \in Worker, worker[w].pc \in Owning,
                      Owned(ProcOf[w], worker[w].job), job[worker[w].job].fresh
               PROVE  Owned(ProcOf[w], worker[w].job)' /\ job'[worker[w].job].fresh
    BY <1>1 DEF LeasesKept
  <2>1. worker[w].job \in Job
    BY <1>0 DEF WorkerTypeOK, Owning
  <2>2. QED
    BY <1>1, <1>5, <2>1 DEF Owned
<1>7. QED
  BY <1>1, <1>2, <1>4, <1>6, OtherFrame

-----------------------------------------------------------------------------
(* The loops of the worker. *)

\* A loop inside its job, apart from the passes over the reader.
LEMMA LoopFrame ==
  ASSUME RaceInv, IInv', NEW w \in Worker,
         \/ PollNothing(w) \/ Beat(w) \/ Persist(w) \/ Finish(w) \/ FinishFailed(w) \/ Settle(w)
         \/ Checkpoint(w, "begin", "run") \/ Checkpoint(w, "check", "finish")
  PROVE  Frame
<1> USE JobsAssumption, QueueAssumption DEF procVars, personVars
<1>0. TableTypeOK /\ WorkerTypeOK /\ OwnInv /\ ProcOf[w] \in Proc
  BY TypeParts DEF IInv, RaceInv
<1>1. UNCHANGED <<req, wanted, device, proc>>
  BY DEF PollNothing, Beat, Persist, Finish, FinishFailed, Settle, Checkpoint
<1>2. \A v \in Worker : Sure(v)' <=> Sure(v)
  BY <1>1 DEF Sure, LifeOf
<1>3. AfterJob(w).pc \in {"idle", "exited"}
  BY DEF AfterJob, Resting
<1>4. \A v \in Worker \ {w} : worker'[v] = worker[v]
  BY <1>0 DEF PollNothing, Beat, Persist, Finish, FinishFailed, Settle, Checkpoint, GoTo,
              WorkerTypeOK
<1>5. ASSUME UNCHANGED tableVars, LoopsShrink
      PROVE  Frame
  BY <1>1, <1>5, LeasesStay, OtherFrame DEF OtherStep, tableVars
<1>6. ASSUME worker'[w].pc \notin Busy \/ (/\ worker[w].pc \in Busy
                                           /\ worker'[w].job = worker[w].job
                                           /\ worker'[w].ver = worker[w].ver),
             worker'[w].pc \in Owning => worker[w].pc \in Owning,
             worker'[w].pc \in Pass => worker[w].pc \in Pass
      PROVE  LoopsShrink
  BY <1>2, <1>4, <1>6 DEF LoopsShrink
<1>7. ASSUME NEW pc, NEW out, GoTo(w, pc, out), worker[w].pc \in Busy,
             pc \in Owning => worker[w].pc \in Owning, pc \in Pass => worker[w].pc \in Pass
      PROVE  LoopsShrink
  <2>1. /\ worker'[w].job = worker[w].job /\ worker'[w].ver = worker[w].ver
        /\ worker'[w].pc = pc
    BY <1>0, <1>7 DEF GoTo, WorkerTypeOK, WorkerState
  <2>2. QED
    BY <1>6, <1>7, <2>1
<1>8. ASSUME NEW pc, pc \notin Busy, worker'[w].pc = pc
      PROVE  LoopsShrink
  BY <1>6, <1>8 DEF Owning, Pass, Busy, WorkerPc
<1>9. CASE PollNothing(w)
  <2>1. worker'[w].pc = "exited"
    BY <1>0, <1>9 DEF PollNothing, WorkerTypeOK, Resting
  <2>2. LoopsShrink
    BY <1>8, <2>1 DEF Busy
  <2>3. QED
    BY <1>5, <1>9, <2>2 DEF PollNothing
<1>10. CASE Beat(w)
  <2>1. UNCHANGED worker /\ HeartbeatJob(ProcOf[w], worker[w].job) /\ worker[w].job \in Job
    BY <1>0, <1>10 DEF Beat, WorkerTypeOK
  <2>2. OtherStep /\ LoopsShrink
    BY <1>0, <1>1, <2>1, LoopsStay DEF OtherStep
  <2>3. \A j \in Job : job[j].st = "running" /\ job[j].fresh
          => job'[j].st = "running" /\ job'[j].by = job[j].by /\ job'[j].fresh
    BY <1>0, <2>1 DEF HeartbeatJob, TableTypeOK, Row
  <2>4. LeasesKept
    BY <1>0, <2>1, <2>3 DEF LeasesKept, Owned, Owning, WorkerTypeOK
  <2>5. QED
    BY <1>1, <2>2, <2>4, OtherFrame
<1>11. CASE Checkpoint(w, "begin", "run") \/ Checkpoint(w, "check", "finish")
  <2>1. LoopsShrink
    <3>1. CASE Checkpoint(w, "begin", "run")
      BY <1>7, <3>1 DEF Checkpoint, At, Busy, WorkerPc, Owning, Pass
    <3>2. CASE Checkpoint(w, "check", "finish")
      BY <1>7, <3>2 DEF Checkpoint, At, Busy, WorkerPc, Owning, Pass
    <3>3. QED
      BY <1>11, <3>1, <3>2
  <2>2. QED
    BY <1>5, <1>11, <2>1 DEF Checkpoint
<1>12. CASE Persist(w)
  <2>1. LoopsShrink
    BY <1>7, <1>12 DEF Persist, At, Busy, WorkerPc, Owning, Pass
  <2>2. QED
    BY <1>5, <1>12, <2>1 DEF Persist
<1>13. CASE Settle(w)
  <2>1. worker'[w].pc \in {"idle", "exited"}
    BY <1>0, <1>3, <1>13 DEF Settle, WorkerTypeOK
  <2>2. LoopsShrink
    BY <1>8, <2>1 DEF Busy
  <2>3. QED
    BY <1>5, <1>13, <2>2 DEF Settle
<1>14. CASE Finish(w) \/ FinishFailed(w)
  <2>1. worker[w].pc \in {"finish", "end"} /\ worker[w].job \in Job
    BY <1>0, <1>14 DEF Finish, FinishFailed, At, WorkerTypeOK, Busy, WorkerPc
  <2>2. LoopsShrink
    <3>1. CASE worker' = [worker EXCEPT ![w] = AfterJob(w)]
      <4>1. worker'[w].pc \in {"idle", "exited"}
        BY <1>0, <1>3, <3>1 DEF WorkerTypeOK
      <4>2. QED
        BY <1>8, <4>1 DEF Busy
    <3>2. CASE GoTo(w, "end", "sync_failed") \/ GoTo(w, "settle", worker[w].out)
      BY <1>7, <2>1, <3>2 DEF Busy, WorkerPc, Owning, Pass
    <3>3. QED
      BY <1>14, <3>1, <3>2 DEF Finish, FinishFailed
  <2>3. CASE UNCHANGED tableVars
    BY <1>5, <2>2, <2>3
  <2>4. CASE /\ \E status \in Ended, error \in ErrorText :
                  FinishJob(ProcOf[w], worker[w].job, status, error)
             /\ worker'[w].pc \notin Owning
    <3>1. OtherStep
      BY <1>0, <2>1, <2>4 DEF OtherStep
    <3>2. Owned(ProcOf[w], worker[w].job)
          /\ \A j \in Job \ {worker[w].job} : job'[j] = job[j]
      BY <1>0, <2>1, <2>4 DEF FinishJob, TableTypeOK
    <3>3. LeasesKept
      <4> SUFFICES ASSUME NEW v \in Worker, worker'[v].pc \in Owning, Sure(v)',
                          Owned(ProcOf[v], worker[v].job), job[worker[v].job].fresh
                   PROVE  Owned(ProcOf[v], worker[v].job)' /\ job'[worker[v].job].fresh
        BY DEF LeasesKept
      <4>1. v # w /\ worker'[v] = worker[v] /\ worker[v].job \in Job
        BY <1>0, <1>4, <2>4 DEF WorkerTypeOK, Owning
      <4>2. CASE worker[v].job = worker[w].job     \* one process, one row: one loop
        <5>1. ProcOf[v] = ProcOf[w]
          BY <3>2, <4>2 DEF Owned
        <5>2. Sure(w) /\ Sure(v)
          BY <1>2, <5>1 DEF Sure, LifeOf
        <5>3. QED
          BY <1>0, <2>1, <4>1, <4>2, <5>2 DEF OwnInv, Owning, Busy, WorkerPc
      <4>3. CASE worker[v].job # worker[w].job
        BY <3>2, <4>1, <4>3 DEF Owned
      <4>4. QED
        BY <4>2, <4>3
    <3>4. QED
      BY <1>1, <2>2, <3>1, <3>3, OtherFrame
  <2>5. QED
    <3>1. CASE Finish(w)
      <4>1. worker' = [worker EXCEPT ![w] = AfterJob(w)] => worker'[w].pc \notin Owning
        BY <1>0, <1>3 DEF WorkerTypeOK, Owning, Busy
      <4>2. QED
        BY <2>3, <2>4, <3>1, <4>1 DEF Finish, Ended, ErrorText
    <3>2. CASE FinishFailed(w)
      <4>1. GoTo(w, "settle", worker[w].out) => worker'[w].pc \notin Owning
        BY <1>0 DEF WorkerTypeOK, GoTo, Owning, WorkerState
      <4>2. QED
        BY <2>3, <2>4, <3>2, <4>1 DEF FinishFailed, Ended, ErrorText
    <3>3. QED
      BY <1>14, <3>1, <3>2
<1>15. QED
  BY <1>9, <1>10, <1>11, <1>12, <1>13, <1>14

\* A pass that writes the reader: no loop and no live row of the target is older
\* than what it writes, unless its process gave the row back.
LEMMA PassStep ==
  ASSUME RaceInv, IInv', NEW w \in Worker, NEW pc \in {"run", "again"}, RunPass(w, pc)
  PROVE  /\ RaceInv'
         /\ Sure(w) => \A t \in Target : device[t] <= device'[t]
<1> USE JobsAssumption, QueueAssumption
<1>0. /\ TableTypeOK /\ TableInv /\ WorkerTypeOK /\ RequestTypeOK /\ PersonTypeOK
      /\ OwnInv /\ AskInv /\ KnownInv /\ OrderInv
  BY TypeParts DEF IInv, RaceInv
<1> DEFINE t == Mine(w)
<1>1. /\ worker[w].pc = pc /\ UNCHANGED <<job, claims, proc, req, wanted>>
      /\ UNCHANGED device \/ device' = [device EXCEPT ![t] = worker[w].ver]
      /\ \E next, out : GoTo(w, next, out) /\ next \in {"check", "end", "persist", "again"}
  BY DEF RunPass, At, tableVars, Mine
<1>2. /\ \A v \in Worker : worker'[v].job = worker[v].job /\ worker'[v].ver = worker[v].ver
      /\ \A v \in Worker : /\ worker'[v].pc \in Pass => worker[v].pc \in Pass
                           /\ worker'[v].pc \in Owning => worker[v].pc \in Owning
                           /\ worker'[v].pc \in Busy => worker[v].pc \in Busy
  <2>1. PICK next, out : next \in {"check", "end", "persist", "again"} /\ GoTo(w, next, out)
    BY <1>1
  <2>2. \A v \in Worker : worker[v] \in WorkerState
    BY <1>0 DEF WorkerTypeOK
  <2>3. /\ worker'[w].job = worker[w].job /\ worker'[w].ver = worker[w].ver
        /\ worker'[w].pc = next /\ \A v \in Worker \ {w} : worker'[v] = worker[v]
    BY <1>0, <2>1, <2>2 DEF GoTo, WorkerTypeOK, WorkerState
  <2>4. worker[w].pc \in Pass /\ worker[w].pc \in Owning /\ worker[w].pc \in Busy
    BY <1>1 DEF Pass, Owning, Busy, WorkerPc
  <2>5. QED
    BY <2>3, <2>4
<1>3. LoopsShrink
  BY <1>1, <1>2 DEF LoopsShrink, Sure, LifeOf
<1>4. RowsKept /\ VersionsKept /\ LeasesKept
  BY <1>1, <1>3, TableStays, LeasesStay
<1>5. /\ worker[w].pc \in Pass /\ worker[w].pc \in Busy /\ worker[w].job \in Job
      /\ worker[w].ver \in Nat
  BY <1>0, <1>1 DEF Pass, Busy, WorkerPc, WorkerTypeOK, WorkerState
<1>6. t \in Target
  BY <1>0, <1>5 DEF Mine, TargetOfJob, OwnInv, TableInv, LiveHasKey
<1> HIDE DEF t
<1>7. \A u \in Target : device'[u] = device[u] \/ (u = t /\ device'[u] = worker[w].ver)
  BY <1>0, <1>1, <1>6 DEF PersonTypeOK
<1>8. \A u \in Target : wanted[u] <= wanted'[u] /\ device'[u] <= wanted[u]
  BY <1>0, <1>1, <1>5, <1>7 DEF PersonTypeOK, KnownInv, t
<1>9. OwnInv'
  BY <1>0, <1>3, <1>4, OwnFrame
<1>10. AskInv'
  BY <1>0, <1>1, <1>4, AskStays
<1>11. KnownInv'
  BY <1>0, <1>3, <1>4, <1>8, KnownFrame DEF RaceInv
<1>12. \A v \in Worker : Mine(v)' = Mine(v) /\ (Sure(v)' <=> Sure(v))
  BY <1>1, <1>2 DEF Mine, TargetOfJob, Sure, LifeOf
<1>13. OrderInv'
  <2>1. ASSUME NEW j \in Job, job[j].st \in Live
        PROVE  device'[TargetOfJob(j)] <= job[j].ver
    <3>1. TargetOfJob(j) \in Target
      BY <1>0, <2>1 DEF TargetOfJob, TableInv, LiveHasKey, Live
    <3>2. QED
      BY <1>0, <1>5, <1>7, <2>1, <3>1 DEF OrderInv, t
  <2>2. ASSUME NEW v \in Worker, worker[v].pc \in Pass, Sure(v)
        PROVE  device'[Mine(v)] <= worker[v].ver
    <3>1. Mine(v) \in Target
      BY <1>0, <2>2 DEF Mine, TargetOfJob, OwnInv, TableInv, LiveHasKey, WorkerTypeOK, Pass,
                        Busy, WorkerPc
    <3>2. QED
      BY <1>0, <1>5, <1>7, <2>2, <3>1 DEF OrderInv, t
  <2>3. \A j \in Job : TargetOfJob(j)' = TargetOfJob(j)
    BY <1>1 DEF TargetOfJob
  <2>4. \A j \in Job : job'[j].st \in Live => device'[TargetOfJob(j)'] <= job'[j].ver
    BY <1>1, <2>1, <2>3
  <2>5. \A v \in Worker, j \in Job :
          worker'[v].pc \in Pass /\ job'[j].st \in Live /\ TargetOfJob(j)' = Mine(v)'
            => worker'[v].ver <= job'[j].ver
    BY <1>0, <1>1, <1>2, <1>12, <2>3 DEF OrderInv
  <2>6. \A v \in Worker : worker'[v].pc \in Pass /\ Sure(v)' => device'[Mine(v)'] <= worker'[v].ver
    BY <1>2, <1>12, <2>2
  <2>7. \A u, v \in Worker :
          /\ worker'[v].pc \in Pass /\ Sure(v)'
          /\ worker'[u].pc \in Pass /\ Mine(u)' = Mine(v)'
          => worker'[u].ver <= worker'[v].ver
    BY <1>0, <1>2, <1>12 DEF OrderInv
  <2>8. QED
    BY <2>4, <2>5, <2>6, <2>7 DEF OrderInv
<1>14. Sure(w) => \A u \in Target : device[u] <= device'[u]
  BY <1>0, <1>5, <1>7 DEF OrderInv, PersonTypeOK, t
<1>15. QED
  BY <1>9, <1>10, <1>11, <1>13, <1>14 DEF RaceInv

\* A claimed row is the only live row of its target, so whatever is left of
\* earlier runs is behind it.
LEMMA ClaimStep ==
  ASSUME RaceInv, IInv', OneKeyPerTarget, NEW w \in Worker, Claim(w)
  PROVE  RaceInv'
<1> USE JobsAssumption, QueueAssumption
<1>0. /\ TableTypeOK /\ TableInv /\ WorkerTypeOK /\ RequestTypeOK /\ PersonTypeOK
      /\ OwnInv /\ AskInv /\ KnownInv /\ OrderInv
      /\ TableTypeOK' /\ ProcOf[w] \in Proc /\ LiveHasKey /\ OneQueuedPerDedupe
  BY TypeParts, TypePartsNext DEF IInv, RaceInv, TableInv
<1>1. PICK j \in Job : /\ ClaimNextJob(ProcOf[w], j)
                       /\ worker' = [worker EXCEPT ![w] = [pc |-> "begin", job |-> j,
                                                          ver |-> job[j].ver, out |-> "none"]]
  BY DEF Claim
<1>2. UNCHANGED <<proc, req, wanted, device>>
  BY DEF Claim, personVars
<1>3. RowsKept /\ VersionsKept
  <2>1. OtherStep
    BY <1>0, <1>1 DEF OtherStep
  <2>2. QED
    BY <1>0, <2>1, OtherKeeps
<1> DEFINE t == TargetOfJob(j)
<1>4. /\ job[j].st = "queued" /\ job[j].key \in Key /\ t \in Target
      /\ \A i \in Job \ {j} : job[i].st \in Live /\ TargetOfJob(i) = t => job[i].st = "queued"
  BY <1>0, <1>1 DEF ClaimNextJob, Claimable, LiveHasKey, TargetOfJob
<1>5. \A i \in Job \ {j} : job[i].st \in Live => TargetOfJob(i) # t
  <2> SUFFICES ASSUME NEW i \in Job \ {j}, job[i].st \in Live, TargetOfJob(i) = t PROVE FALSE
    OBVIOUS
  <2>1. job[i].st = "queued" /\ job[i].key \in Key
    BY <1>0, <1>4 DEF LiveHasKey
  <2>2. job[i].key = job[j].key
    BY <1>4, <2>1 DEF OneKeyPerTarget, TargetOfJob
  <2>3. QED
    BY <1>0, <1>4, <2>1, <2>2 DEF OneQueuedPerDedupe
<1>6. /\ job'[j].st = "running" /\ job'[j].by = ProcOf[w] /\ job'[j].fresh
      /\ job'[j].key = job[j].key /\ job'[j].ver = job[j].ver
      /\ \A i \in Job \ {j} : job'[i] = job[i]
  <2> DEFINE n == IF job[j].started = 0 THEN claims + 1 ELSE job[j].started
  <2>1. /\ job[j] \in Row /\ \A i \in Job \ {j} : job'[i] = job[i]
        /\ job'[j] = [job[j] EXCEPT !.st = "running", !.by = ProcOf[w], !.fresh = TRUE,
                                    !.attempts = job[j].attempts + 1, !.started = n]
    BY <1>0, <1>1 DEF ClaimNextJob, TableTypeOK
  <2> HIDE DEF n
  <2>2. QED
    BY <2>1 DEF Row
<1>7. /\ worker'[w].pc = "begin" /\ worker'[w].job = j /\ worker'[w].ver = job[j].ver
      /\ \A v \in Worker \ {w} : worker'[v] = worker[v]
  BY <1>0, <1>1 DEF WorkerTypeOK
<1>8. \A v \in Worker : Sure(v)' <=> Sure(v)
  BY <1>2 DEF Sure, LifeOf
<1>9. Owning \subseteq Busy /\ Pass \subseteq Owning
  BY DEF Owning, Pass, Busy, WorkerPc
<1>10. \A i \in Job : job[i].st # "none" => TargetOfJob(i)' = TargetOfJob(i)
  BY <1>3 DEF RowsKept, TargetOfJob
<1>11. ASSUME NEW v \in Worker \ {w}, worker[v].pc \in Busy
       PROVE  /\ worker[v].job \in Job /\ job[worker[v].job].st # "none"
              /\ Mine(v)' = Mine(v) /\ worker'[v] = worker[v] /\ worker[v].ver \in Nat
  <2>1. worker[v].job \in Job /\ job[worker[v].job].st # "none" /\ worker[v].ver \in Nat
    BY <1>0, <1>11 DEF WorkerTypeOK, WorkerState, OwnInv
  <2>2. job'[worker[v].job].key = job[worker[v].job].key
    BY <1>3, <2>1 DEF RowsKept
  <2>3. QED
    BY <1>7, <1>11, <2>1, <2>2 DEF Mine, TargetOfJob
<1>12. Mine(w)' = t
  BY <1>6, <1>7 DEF Mine, TargetOfJob
<1>13. ASSUME NEW v \in Worker \ {w}, worker[v].pc \in Owning, Sure(v)
       PROVE  /\ worker[v].job # j /\ job[worker[v].job].st = "running"
              /\ Mine(v) # t /\ job'[worker[v].job] = job[worker[v].job]
  <2>1. /\ worker[v].job \in Job /\ job[worker[v].job].st = "running"
        /\ worker[v].job # j
    BY <1>0, <1>4, <1>9, <1>11, <1>13 DEF OwnInv, Owned
  <2>2. TargetOfJob(worker[v].job) # t
    BY <1>5, <2>1 DEF Live
  <2>3. job'[worker[v].job] = job[worker[v].job]
    BY <1>6, <2>1
  <2>4. Mine(v) # t
    BY <2>2 DEF Mine
  <2>5. QED
    BY <2>1, <2>3, <2>4
<1> HIDE DEF t
<1>14. OwnInv'
  <2>1. ASSUME NEW v \in Worker, worker'[v].pc \in Busy
        PROVE  job'[worker'[v].job].st # "none"
    <3>1. CASE v = w
      BY <1>6, <1>7, <3>1
    <3>2. CASE v # w
      <4>1. worker'[v] = worker[v] /\ worker[v].pc \in Busy
        BY <1>7, <2>1, <3>2
      <4>2. QED
        BY <1>3, <1>11, <3>2, <4>1 DEF RowsKept
    <3>3. QED
      BY <3>1, <3>2
  <2>2. ASSUME NEW v \in Worker, worker'[v].pc \in Owning, Sure(v)'
        PROVE  Owned(ProcOf[v], worker[v].job)' /\ job'[worker'[v].job].fresh
    <3>1. CASE v = w
      BY <1>6, <1>7, <3>1 DEF Owned
    <3>2. CASE v # w
      <4>1. worker'[v] = worker[v] /\ Sure(v) /\ worker[v].pc \in Owning
        BY <1>7, <1>8, <2>2, <3>2
      <4>2. QED
        BY <1>0, <1>13, <3>2, <4>1 DEF OwnInv, Owned
    <3>3. QED
      BY <3>1, <3>2
  <2>3. \A u, v \in Worker : /\ worker'[u].pc \in Owning /\ Sure(u)'
                             /\ worker'[v].pc \in Owning /\ Sure(v)'
                             /\ worker'[u].job = worker'[v].job
                             => u = v
    BY <1>0, <1>7, <1>8, <1>13 DEF OwnInv
  <2>4. QED
    BY <2>1, <2>2, <2>3 DEF OwnInv
<1>15. AskInv'
  BY <1>0, <1>2, <1>3, AskStays
<1>16. KnownInv'
  <2>1. \A u \in Target : device'[u] <= wanted'[u]
    BY <1>0, <1>2 DEF KnownInv
  <2>2. \A i \in Job : job'[i].st # "none" => job'[i].ver <= wanted'[TargetOfJob(i)']
    BY <1>0, <1>2, <1>4, <1>6, <1>10 DEF KnownInv
  <2>3. \A v \in Worker : worker'[v].pc \in Busy => worker'[v].ver <= wanted'[Mine(v)']
    BY <1>0, <1>2, <1>4, <1>7, <1>11, <1>12 DEF KnownInv, t
  <2>4. QED
    BY <2>1, <2>2, <2>3 DEF KnownInv
<1>17. OrderInv'
  <2>1. ASSUME NEW i \in Job, job'[i].st \in Live
        PROVE  /\ job[i].st \in Live /\ TargetOfJob(i)' = TargetOfJob(i)
               /\ job'[i].ver = job[i].ver
    BY <1>4, <1>6, <1>10, <2>1 DEF Live
  <2>2. \A i \in Job : job'[i].st \in Live => device'[TargetOfJob(i)'] <= job'[i].ver
    BY <1>0, <1>2, <2>1 DEF OrderInv
  <2>3. device[t] <= job[j].ver /\ job[j].ver \in Nat /\ job[j].st \in Live
    BY <1>0, <1>4 DEF OrderInv, Live, TableTypeOK, Row, t
  <2>4. ASSUME NEW v \in Worker, NEW i \in Job,
               worker'[v].pc \in Pass, job'[i].st \in Live, TargetOfJob(i)' = Mine(v)'
        PROVE  worker'[v].ver <= job'[i].ver
    <3>1. CASE v = w
      <4>1. i = j
        BY <1>5, <1>12, <2>1, <2>4, <3>1 DEF t
      <4>2. QED
        BY <1>6, <1>7, <2>3, <3>1, <4>1
    <3>2. CASE v # w
      BY <1>0, <1>7, <1>9, <1>11, <2>1, <2>4, <3>2 DEF OrderInv
    <3>3. QED
      BY <3>1, <3>2
  <2>5. ASSUME NEW v \in Worker, worker'[v].pc \in Pass, Sure(v)'
        PROVE  device'[Mine(v)'] <= worker'[v].ver
    <3>1. CASE v = w
      BY <1>2, <1>7, <1>12, <2>3, <3>1
    <3>2. CASE v # w
      BY <1>0, <1>2, <1>7, <1>8, <1>9, <1>11, <2>5, <3>2 DEF OrderInv
    <3>3. QED
      BY <3>1, <3>2
  <2>6. ASSUME NEW u \in Worker, NEW v \in Worker, worker'[v].pc \in Pass, Sure(v)',
               worker'[u].pc \in Pass, Mine(u)' = Mine(v)'
        PROVE  worker'[u].ver <= worker'[v].ver
    <3>1. CASE u = w /\ v = w
      BY <1>7, <2>3, <3>1
    <3>2. CASE u # w /\ v = w
      <4>1. worker[u].pc \in Pass /\ Mine(u) = t
        BY <1>7, <1>9, <1>11, <1>12, <2>6, <3>2
      <4>2. QED
        BY <1>0, <1>7, <2>3, <3>2, <4>1 DEF OrderInv, t
    <3>3. CASE v # w
      <4>1. worker[v].pc \in Pass /\ worker[v].pc \in Busy /\ Sure(v) /\ Mine(v) # t
            /\ Mine(v)' = Mine(v)
        BY <1>7, <1>8, <1>9, <1>11, <1>13, <2>6, <3>3
      <4>2. u # w
        BY <1>12, <2>6, <4>1
      <4>3. QED
        BY <1>0, <1>7, <1>9, <1>11, <2>6, <3>3, <4>1, <4>2 DEF OrderInv
    <3>4. QED
      BY <3>1, <3>2, <3>3
  <2>7. QED
    BY <2>2, <2>4, <2>5, <2>6 DEF OrderInv
<1>18. QED
  BY <1>14, <1>15, <1>16, <1>17 DEF RaceInv

-----------------------------------------------------------------------------
(* The reader never goes back. *)

LEMMA InitRace == Init => RaceInv
<1> SUFFICES ASSUME Init PROVE RaceInv
  OBVIOUS
<1>1. IInv
  BY InitIInv
<1>2. \A w \in Worker : worker[w].pc = "idle"
  BY DEF Init, Resting
<1>3. \A j \in Job : job[j].st = "none"
  BY DEF Init, TableInit, NoRow
<1>4. \A r \in Requester : req[r].pc = "idle"
  BY DEF Init, NoRequest
<1>5. \A t \in Target : device[t] <= wanted[t]
  BY DEF Init
<1>6. QED
  BY <1>1, <1>2, <1>3, <1>4, <1>5
     DEF RaceInv, OwnInv, AskInv, KnownInv, OrderInv, Busy, Owning, Pass, Live

LEMMA RaceStep ==
  ASSUME OneKeyPerTarget, Faults \cap {"stall", "retry"} = {},
         RaceInv, OneCallPerTarget', [Next]_vars
  PROVE  /\ RaceInv'
         /\ (\A p \in Proc : proc[p] # "released") => \A t \in Target : device'[t] >= device[t]
<1>0. IInv' /\ PersonTypeOK /\ WorkerTypeOK /\ ProcTypeOK
  BY StepIInv, TypeParts DEF RaceInv, IInv
<1>1. "stall" \notin Faults /\ "retry" \notin Faults
  OBVIOUS
<1>2. ASSUME UNCHANGED device PROVE \A t \in Target : device'[t] >= device[t]
  BY <1>0, <1>2 DEF PersonTypeOK
<1>3. ASSUME Frame
      PROVE  RaceInv' /\ \A t \in Target : device'[t] >= device[t]
  BY <1>0, <1>2, <1>3, FrameInv DEF Frame
<1>4. CASE Requests
  BY <1>0, <1>1, <1>3, <1>4, RequestsFrame
<1>5. CASE Processes
  BY <1>0, <1>1, <1>3, <1>5, ProcessesFrame
<1>6. CASE Administration
  BY <1>0, <1>3, <1>6, AdministrationFrame
<1>7. ASSUME NEW w \in Worker, Claim(w)
      PROVE  RaceInv' /\ \A t \in Target : device'[t] >= device[t]
  <2>1. UNCHANGED device
    BY <1>7 DEF Claim, personVars
  <2>2. QED
    BY <1>0, <1>2, <1>7, <2>1, ClaimStep
<1>8. ASSUME NEW w \in Worker, NEW pc \in {"run", "again"}, RunPass(w, pc)
      PROVE  /\ RaceInv'
             /\ (\A p \in Proc : proc[p] # "released") => \A t \in Target : device'[t] >= device[t]
  <2>1. (\A p \in Proc : proc[p] # "released") => Sure(w)
    BY <1>8, QueueAssumption DEF RunPass, At, Alive, Sure, LifeOf
  <2>2. RaceInv' /\ (Sure(w) => \A t \in Target : device[t] <= device'[t])
    BY <1>0, <1>8, PassStep
  <2>3. PersonTypeOK'
    BY <1>0, TypePartsNext DEF IInv
  <2>4. QED
    BY <1>0, <2>1, <2>2, <2>3 DEF PersonTypeOK
<1>9. ASSUME NEW w \in Worker, PollNothing(w) \/ Beat(w) \/ RunJob(w),
             \A pc \in {"run", "again"} : ~RunPass(w, pc)
      PROVE  RaceInv' /\ \A t \in Target : device'[t] >= device[t]
  BY <1>0, <1>3, <1>9, LoopFrame DEF RunJob
<1>10. CASE Workers
  BY <1>7, <1>8, <1>9, <1>10 DEF Workers
<1>11. CASE UNCHANGED vars
  <2>1. UNCHANGED <<job, proc, worker, req, wanted, device>> /\ UNCHANGED tableVars
    BY <1>11 DEF vars, tableVars, procVars, personVars
  <2>2. OtherStep /\ LoopsShrink /\ LeasesKept
    BY <2>1, LoopsStay, LeasesStay DEF OtherStep
  <2>3. Frame
    BY <1>0, <2>1, <2>2, OtherFrame
  <2>4. QED
    BY <1>3, <2>3
<1>12. QED
  BY <1>4, <1>5, <1>6, <1>10, <1>11 DEF Next

\* The runs of a target reach the reader in the order of its requests, through
\* crashes, shutdowns, recoveries, cancels, deletions, lost calls and lost writes.
THEOREM ReaderNeverGoesBack ==
  ASSUME OneKeyPerTarget, Faults \cap {"stall", "retry"} = {}
  PROVE  Spec /\ []OneCallPerTarget => DeviceNeverGoesBack
<1>1. RaceInv /\ OneCallPerTarget' /\ [Next]_vars => RaceInv'
  BY RaceStep
<1>2. RaceInv /\ OneCallPerTarget' /\ [Next]_vars =>
        [(\A p \in Proc : proc[p] # "released") => \A t \in Target : device'[t] >= device[t]]_vars
  BY RaceStep
<1>3. QED
  BY <1>1, <1>2, InitRace, PTL DEF Spec, DeviceNeverGoesBack

-----------------------------------------------------------------------------
(* What is shown is in the reader.  While no process is lost the rows of a     *)
(* target are used one after the other, the newest holds the last request, and *)
(* what a loop found in the reader is still there when its row is done.        *)

\* Rows are taken in order; of a target, only the newest can wait, and nothing
\* older than a row that runs or is done is left to run.
RowInv ==
  /\ \A j \in Job : job[j].st = "none" => job[j].key = None
  /\ \A i, j \in Job : job[i].st # "none" /\ job[j].st = "none" => i < j
  /\ \A i, j \in Job :
       job[i].st # "none" /\ job[j].st # "none" /\ TargetOfJob(i) = TargetOfJob(j) =>
         /\ job[j].st = "queued" => i <= j
         /\ job[j].st \in {"running", "done"} /\ i < j => job[i].st \notin Live

\* Every running row is executed, with the payload it holds.
LoopInv ==
  /\ \A j \in Job : job[j].st = "running" => \E w \in Worker : /\ worker[w].pc \in Owning
                                                               /\ worker[w].job = j
  /\ \A w \in Worker : worker[w].pc \in Owning => worker[w].ver = job[worker[w].job].ver

\* Nobody else enqueues the key of a call: what it found is what is there.
CallInv ==
  \A r \in Requester :
    /\ req[r].pc \notin {"refind", "remerge"}
    /\ req[r].pc = "insert" => QueuedTwins(req[r].key) = {}
    /\ req[r].pc = "merge" => QueuedTwins(req[r].key) \subseteq {req[r].job}

\* Unless a call is on its way, the newest row of a target holds its last request.
LastInv ==
  \A t \in Target : \A j \in NewestOf(t) :
    (\A r \in Requester : req[r].pc \notin {"idle", "listed"} => TargetOf[req[r].key] # t)
      => job[j].ver = wanted[t]

\* A loop that is about to show its person as synced, or to end the row of one
\* that is, left its payload in the reader; so did the newest row that is done.
LoopShows ==
  \A w \in Worker :
    /\ worker[w].pc = "persist" /\ worker[w].out = "synced" => device[Mine(w)] = worker[w].ver
    /\ worker[w].pc \in {"check", "finish"} /\ entity[Mine(w)] = "synced"
         => device[Mine(w)] = worker[w].ver
RowShows ==
  \A t \in Target : \A j \in NewestOf(t) :
    job[j].st = "done" /\ entity[t] = "synced" => device[t] = job[j].ver

Tidy == /\ \A t \in Target : eligible[t]
        /\ RowInv /\ LoopInv /\ CallInv /\ LastInv /\ LoopShows /\ RowShows

-----------------------------------------------------------------------------
(* While no process is lost. *)

\* Every loop inside its job holds the lease, alone on its target.
LEMMA LoopsOwn ==
  ASSUME RaceInv, NoProcessLost, NEW w \in Worker, worker[w].pc \in Owning
  PROVE  /\ worker[w].job \in Job /\ worker[w].ver \in Nat /\ Mine(w) \in Target
         /\ job[worker[w].job].st = "running" /\ Owned(ProcOf[w], worker[w].job)
         /\ job[worker[w].job].fresh
         /\ \A v \in Worker : worker[v].pc \in Owning /\ Mine(v) = Mine(w) => v = w
<1> USE JobsAssumption, QueueAssumption
<1>0. WorkerTypeOK /\ OwnInv /\ LiveHasKey /\ OneRunningPerTarget
  BY TypeParts DEF RaceInv, IInv, TableInv
<1>1. \A v \in Worker : Sure(v)
  BY DEF NoProcessLost, Sure, LifeOf
<1>2. \A v \in Worker : worker[v].pc \in Owning =>
        /\ worker[v].job \in Job /\ job[worker[v].job].st = "running"
        /\ Owned(ProcOf[v], worker[v].job) /\ job[worker[v].job].fresh
  BY <1>0, <1>1 DEF OwnInv, Owned, WorkerTypeOK, Owning
<1>3. \A v \in Worker : worker[v].pc \in Owning /\ Mine(v) = Mine(w) => v = w
  BY <1>0, <1>1, <1>2 DEF OwnInv, OneRunningPerTarget, Mine
<1>4. worker[w].ver \in Nat /\ Mine(w) \in Target
  BY <1>0, <1>2 DEF WorkerTypeOK, WorkerState, LiveHasKey, Mine, TargetOfJob
<1>5. QED
  BY <1>2, <1>3, <1>4

\* No newest row of its target is done.
LEMMA NotDoneYet ==
  ASSUME RaceInv, NoProcessLost, Tidy, NEW w \in Worker, worker[w].pc \in Owning,
         NEW j \in NewestOf(Mine(w))
  PROVE  job[j].st # "done"
<1> USE JobsAssumption
<1>1. /\ worker[w].job \in Job /\ job[worker[w].job].st = "running"
      /\ job[worker[w].job].key \in Key /\ j \in Job
  BY LoopsOwn DEF RaceInv, IInv, TableInv, LiveHasKey, NewestOf
<1>2. worker[w].job <= j /\ TargetOfJob(j) = TargetOfJob(worker[w].job) /\ job[j].key # None
  BY <1>1 DEF NewestOf, Mine
<1>3. SUFFICES ASSUME job[j].st = "done" PROVE FALSE
  OBVIOUS
<1>4. worker[w].job < j
  <2>1. worker[w].job # j
    BY <1>1, <1>3
  <2>2. worker[w].job \in Nat /\ j \in Nat
    BY <1>1
  <2>3. QED
    BY <1>2, <2>1, <2>2
<1>5. QED
  BY <1>1, <1>2, <1>3, <1>4 DEF Tidy, RowInv, Live

\* Processes that are there were there before, and neither stop nor end.
LEMMA NobodyLost ==
  ASSUME ProcTypeOK, NoProcessLost', [Next]_vars
  PROVE  /\ NoProcessLost /\ UNCHANGED proc
         /\ Processes => \/ \E j \in Job : Expire(j) \/ Stall(j)
                         \/ \E p \in Proc : Reap(p) \/ \E j \in Job : PersistAbandoned(p, j)
<1>1. ASSUME NEW p \in Proc, Stop(p) \/ Drained(p) \/ GraceOver(p) \/ Exit(p) \/ Crash(p)
      PROVE  FALSE
  <2>1. \E life \in {"draining", "released", "down"} : proc' = [proc EXCEPT ![p] = life]
    BY <1>1 DEF Stop, Drained, GraceOver, Exit, Crash, Vanish
  <2>2. QED
    BY <2>1 DEF NoProcessLost, ProcTypeOK
<1>2. Processes => \/ \E j \in Job : Expire(j) \/ Stall(j)
                   \/ \E p \in Proc : Reap(p) \/ \E j \in Job : PersistAbandoned(p, j)
  BY <1>1 DEF Processes
<1>3. UNCHANGED proc
  <2>1. CASE Requests
    BY <2>1 DEF Requests, Request, Ask, ReconcileReads, ReconcileAsks, Retry, FindActive,
         MergeQueued, InsertOrCatch, FindRaced,
         MergeRaced, DropRequest, procVars
  <2>2. CASE Workers
    BY <2>2 DEF Workers, Claim, PollNothing, Beat, RunJob, Checkpoint, RunPass, Persist, Finish,
         FinishFailed, Settle, procVars
  <2>3. CASE Processes
    BY <1>2, <2>3 DEF Expire, Stall, Reap, PersistAbandoned, procVars
  <2>4. CASE Administration
    BY <2>4 DEF Administration, CancelRead, PersistCanceled, Purge, CancelOne, CancelRunning,
         CancelQueued, DropAdmin, ClearFailed, Withdraw, procVars
  <2>5. CASE UNCHANGED vars
    BY <2>5 DEF vars, procVars
  <2>6. QED
    BY <2>1, <2>2, <2>3, <2>4, <2>5 DEF Next
<1>4. QED
  BY <1>2, <1>3 DEF NoProcessLost

\* Rows end or are deleted, and are otherwise left as they are.
RowsFall ==
  \A j \in Job :
    /\ job'[j].st = "none" <=> job[j].st = "none"
    /\ job'[j].key = job[j].key /\ job'[j].ver = job[j].ver
    /\ \/ job'[j].st = job[j].st
       \/ job'[j].st \in {"failed", "canceled", "gone"}
       \/ job[j].st = "running" /\ job'[j].st = "done"

\* The newest row of a target stays the newest while the keys stay.
LEMMA NewestStays ==
  ASSUME \A j \in Job : job'[j].key = job[j].key, NEW t \in Target
  PROVE  NewestOf(t)' = NewestOf(t)
<1>1. \A j \in Job : TargetOfJob(j)' = TargetOfJob(j)
  BY DEF TargetOfJob
<1>2. QED
  BY <1>1 DEF NewestOf

LEMMA RowsFallFrame ==
  ASSUME Tidy, RowsFall, UNCHANGED <<req, wanted, eligible>>
  PROVE  (\A t \in Target : eligible'[t]) /\ RowInv' /\ CallInv' /\ LastInv'
<1>1. \A j \in Job : TargetOfJob(j)' = TargetOfJob(j)
  BY DEF RowsFall, TargetOfJob
<1>2. RowInv'
  <2>1. \A j \in Job : job'[j].st = "none" => job'[j].key = None
    BY DEF RowsFall, Tidy, RowInv
  <2>2. \A i, j \in Job : job'[i].st # "none" /\ job'[j].st = "none" => i < j
    BY DEF RowsFall, Tidy, RowInv
  <2>3. ASSUME NEW i \in Job, NEW j \in Job, job'[i].st # "none", job'[j].st # "none",
               TargetOfJob(i)' = TargetOfJob(j)'
        PROVE  /\ job'[j].st = "queued" => i <= j
               /\ job'[j].st \in {"running", "done"} /\ i < j => job'[i].st \notin Live
    <3>1. job[i].st # "none" /\ job[j].st # "none" /\ TargetOfJob(i) = TargetOfJob(j)
      BY <1>1, <2>3 DEF RowsFall
    <3>2. /\ job'[j].st = "queued" => job[j].st = "queued"
          /\ job'[j].st \in {"running", "done"} => job[j].st \in {"running", "done"}
          /\ job'[i].st \in Live => job[i].st \in Live
      BY DEF RowsFall, Live
    <3>3. QED
      BY <3>1, <3>2 DEF Tidy, RowInv
  <2>4. QED
    BY <2>1, <2>2, <2>3 DEF RowInv
<1>3. CallInv'
  <2>1. \A k : QueuedTwins(k)' \subseteq QueuedTwins(k)
    BY DEF QueuedTwins, RowsFall
  <2>2. QED
    BY <2>1 DEF Tidy, CallInv
<1>4. LastInv'
  <2>1. \A t \in Target : NewestOf(t)' = NewestOf(t)
    BY NewestStays DEF RowsFall
  <2>2. \A t \in Target : \A j \in NewestOf(t) : j \in Job
    BY DEF NewestOf
  <2>3. QED
    BY <2>1, <2>2 DEF Tidy, LastInv, RowsFall
<1>5. QED
  BY <1>2, <1>3, <1>4 DEF Tidy

\* A loop in its job is about the same target before and after.
LEMMA MineStays ==
  ASSUME RaceInv, \A j \in Job : job'[j].key = job[j].key,
         NEW w \in Worker, worker[w].pc \in Busy, worker'[w].job = worker[w].job
  PROVE  Mine(w)' = Mine(w)
<1>1. worker[w].job \in Job
  BY TypeParts DEF RaceInv, IInv, WorkerTypeOK
<1>2. QED
  BY <1>1 DEF Mine, TargetOfJob

\* The loops and the reader stay as they are, and nobody is shown as synced.
LEMMA StillFrame ==
  ASSUME RaceInv, NoProcessLost, Tidy, RowsFall,
         UNCHANGED <<worker, req, wanted, eligible, device>>,
         \A j \in Job : job'[j].st = "running" <=> job[j].st = "running",
         \A t \in Target : entity'[t] = "synced" => entity[t] = "synced"
  PROVE  Tidy'
<1>1. (\A t \in Target : eligible'[t]) /\ RowInv' /\ CallInv' /\ LastInv'
  BY RowsFallFrame
<1>2. Owning \subseteq Busy /\ {"persist", "check", "finish"} \subseteq Owning
  BY DEF Owning, Busy, WorkerPc
<1>3. \A w \in Worker : worker[w].pc \in Owning =>
        worker[w].job \in Job /\ Mine(w) \in Target /\ Mine(w)' = Mine(w)
  <2> TAKE w \in Worker
  <2> HAVE worker[w].pc \in Owning
  <2>1. Mine(w)' = Mine(w)
    BY <1>2, MineStays DEF RowsFall
  <2>2. QED
    BY <2>1, LoopsOwn
<1>4. LoopInv'
  BY <1>3 DEF Tidy, LoopInv, RowsFall
<1>5. LoopShows'
  BY <1>2, <1>3 DEF Tidy, LoopShows
<1>6. RowShows'
  <2>1. \A t \in Target : NewestOf(t)' = NewestOf(t) /\ NewestOf(t) \subseteq Job
    BY NewestStays DEF RowsFall, NewestOf
  <2>2. \A j \in Job : job'[j].st = "done" => job[j].st = "done" /\ job'[j].ver = job[j].ver
    BY DEF RowsFall
  <2>3. QED
    BY <2>1, <2>2 DEF Tidy, RowShows
<1>7. QED
  BY <1>1, <1>4, <1>5, <1>6 DEF Tidy

-----------------------------------------------------------------------------
(* The administrator and the reaper. *)

\* Statements of the administration end rows that wait and delete ended ones.
LEMMA AdministrationTidy ==
  ASSUME RaceInv, NoProcessLost, Tidy, "withdraw" \notin Faults, Administration
  PROVE  Tidy'
<1> USE JobsAssumption DEF procVars, personVars
<1>0. TableTypeOK /\ AdminTypeOK /\ PersonTypeOK
  BY TypeParts DEF IInv, RaceInv
<1>1. ASSUME NEW t \in Target, Withdraw(t) PROVE FALSE
  BY <1>1 DEF Withdraw
<1>2. UNCHANGED <<worker, req, wanted, eligible, device>>
  BY <1>1 DEF Administration, CancelRead, PersistCanceled, Purge, CancelOne, CancelRunning,
         CancelQueued, DropAdmin, ClearFailed
<1>3. \A t \in Target : entity'[t] = "synced" => entity[t] = "synced"
  <2>1. UNCHANGED entity \/ \E t : PersistPerson(t, "sync_failed")
    BY <1>1 DEF Administration, CancelRead, PersistCanceled, Purge, CancelOne, CancelRunning,
           CancelQueued, DropAdmin, ClearFailed
  <2>2. QED
    BY <1>0, <2>1 DEF PersistPerson, PersonTypeOK
<1>4. \/ \E S \in SUBSET Job : CancelQueuedJobs(S)
      \/ \E S \in SUBSET {j \in Job : job[j].st \in Ended} : DeleteJobs(S)
      \/ \E j \in Job : RequestCancelRunningJob(j)
      \/ UNCHANGED tableVars
  <2>1. CASE CancelOne
    <3>1. {admin.job} \in SUBSET Job
      BY <1>0, <2>1 DEF CancelOne, AdminTypeOK
    <3>2. QED
      BY <2>1, <3>1 DEF CancelOne
  <2>2. CASE CancelRunning
    BY <1>0, <2>2 DEF CancelRunning, AdminTypeOK
  <2>3. CASE CancelQueued
    <3>1. {j \in Job : job[j].st = "queued"} \in SUBSET Job
      OBVIOUS
    <3>2. QED
      BY <2>3, <3>1 DEF CancelQueued
  <2>4. CASE ClearFailed \/ \E j \in Job : Purge(j)
    <3>1. {j \in Job : job[j].st = "failed"} \subseteq {j \in Job : job[j].st \in Ended}
      BY DEF Ended
    <3>2. \A j \in Job : job[j].st \in Ended => {j} \subseteq {i \in Job : job[i].st \in Ended}
      OBVIOUS
    <3>3. QED
      BY <2>4, <3>1, <3>2 DEF ClearFailed, Purge
  <2>5. CASE DropAdmin \/ \E j \in Job : CancelRead(j) \/ PersistCanceled(j)
    BY <2>5 DEF CancelRead, PersistCanceled, DropAdmin
  <2>6. QED
    BY <1>1, <2>1, <2>2, <2>3, <2>4, <2>5 DEF Administration
<1>5. \A j \in Job : \/ job'[j] = job[j]
                     \/ job'[j] = [job[j] EXCEPT !.cancel = TRUE]
                     \/ /\ job[j].st = "queued"
                        /\ job'[j] = [job[j] EXCEPT !.st = "canceled", !.err = "canceled"]
                     \/ /\ job[j].st \in Ended
                        /\ job'[j] = [job[j] EXCEPT !.st = "gone", !.cancel = FALSE]
  BY <1>0, <1>4 DEF CancelQueuedJobs, DeleteJobs, RequestCancelRunningJob, tableVars, TableTypeOK
<1>6. \A j \in Job : /\ job'[j].key = job[j].key /\ job'[j].ver = job[j].ver
                     /\ \/ job'[j].st = job[j].st
                        \/ job[j].st = "queued" /\ job'[j].st = "canceled"
                        \/ job[j].st \in Ended /\ job'[j].st = "gone"
  <2> TAKE j \in Job
  <2>1. job[j] \in Row
    BY <1>0 DEF TableTypeOK
  <2>2. QED
    BY <1>5, <2>1 DEF Row
<1>7. RowsFall /\ \A j \in Job : job'[j].st = "running" <=> job[j].st = "running"
  BY <1>6 DEF RowsFall, Ended
<1>8. QED
  BY <1>2, <1>3, <1>7, StillFrame

\* Every running row is executed by a loop that beats: nothing expires, and the
\* reaper finds nothing stale.
LEMMA ProcessesTidy ==
  ASSUME RaceInv, NoProcessLost, Tidy, "stall" \notin Faults,
         \/ \E j \in Job : Expire(j) \/ Stall(j)
         \/ \E p \in Proc : Reap(p) \/ \E j \in Job : PersistAbandoned(p, j)
  PROVE  Tidy'
<1> USE JobsAssumption, QueueAssumption DEF procVars, personVars
<1>0. TableTypeOK /\ PersonTypeOK
  BY TypeParts DEF IInv, RaceInv
<1>1. \A j \in Job : job[j].st = "running" => job[j].fresh /\ Beating(j)
  <2> SUFFICES ASSUME NEW j \in Job, job[j].st = "running" PROVE job[j].fresh /\ Beating(j)
    OBVIOUS
  <2>1. PICK w \in Worker : worker[w].pc \in Owning /\ worker[w].job = j
    BY DEF Tidy, LoopInv
  <2>2. Owned(ProcOf[w], j) /\ job[j].fresh
    BY <2>1, LoopsOwn
  <2>3. LifeOf(w) \in Alive
    BY DEF NoProcessLost, LifeOf, Alive
  <2>4. QED
    BY <2>1, <2>2, <2>3 DEF Beating, Owning
<1>2. \A j \in Job : ~Expire(j) /\ ~Stall(j)
  BY <1>1 DEF Expire, Stall, LeaseExpires
<1>3. StaleRunning = {}
  BY <1>1 DEF StaleRunning
<1>4. \A j \in Job : job'[j] = job[j]
  BY <1>2, <1>3 DEF Reap, RecoverRunningJobs, PersistAbandoned, tableVars
<1>5. UNCHANGED <<worker, req, wanted, eligible, device>>
  BY <1>2 DEF Reap, PersistAbandoned
<1>6. \A t \in Target : entity'[t] = "synced" => entity[t] = "synced"
  <2>1. UNCHANGED entity \/ \E t : PersistPerson(t, "sync_failed")
    BY <1>2 DEF Reap, PersistAbandoned
  <2>2. QED
    BY <1>0, <2>1 DEF PersistPerson, PersonTypeOK
<1>7. RowsFall /\ \A j \in Job : job'[j].st = "running" <=> job[j].st = "running"
  BY <1>4 DEF RowsFall
<1>8. QED
  BY <1>5, <1>6, <1>7, StillFrame

-----------------------------------------------------------------------------
(* The calls that enqueue. *)

\* A call that writes no row: no loop and no row changes.
LEMMA CallFrame ==
  ASSUME RaceInv, NoProcessLost, Tidy, UNCHANGED <<job, worker, eligible, device>>,
         \A t \in Target : entity'[t] = "synced" => entity[t] = "synced",
         CallInv', LastInv'
  PROVE  Tidy'
<1>1. RowInv'
  BY DEF Tidy, RowInv, TargetOfJob
<1>2. LoopInv'
  BY DEF Tidy, LoopInv
<1>3. \A w \in Worker : Mine(w)' = Mine(w)
  BY DEF Mine, TargetOfJob
<1>4. \A w \in Worker : worker[w].pc \in {"check", "finish"} => Mine(w) \in Target
  BY LoopsOwn DEF Owning, Busy, WorkerPc
<1>5. LoopShows'
  BY <1>3, <1>4 DEF Tidy, LoopShows
<1>6. RowShows'
  <2>1. \A t \in Target : NewestOf(t)' = NewestOf(t)
    BY NewestStays
  <2>2. QED
    BY <2>1 DEF Tidy, RowShows
<1>7. QED
  BY <1>1, <1>2, <1>5, <1>6 DEF Tidy

\* Ask: from here on a call is on its way for the target.
LEMMA AskTidy ==
  ASSUME RaceInv, NoProcessLost, Tidy, NEW r \in Requester, NEW k \in Key, Ask(r, k)
  PROVE  Tidy'
<1> USE JobsAssumption
<1>0. PersonTypeOK /\ RequestTypeOK
  BY TypeParts DEF IInv, RaceInv
<1> DEFINE t == TargetOf[k]
           q == [pc |-> "find", key |-> k, ver |-> wanted[t] + 1, job |-> None]
<1>1. /\ UNCHANGED <<job, worker, eligible, device>> /\ t \in Target
      /\ req' = [req EXCEPT ![r] = q] /\ req[r].pc = "idle"
      /\ wanted' = [wanted EXCEPT ![t] = @ + 1] /\ entity' = [entity EXCEPT ![t] = "pending_sync"]
  BY DEF Ask, PersistPerson, tableVars, procVars
<1>2. q.pc = "find" /\ q.key = k
  OBVIOUS
<1> HIDE DEF q, t
<1>3. req'[r] = q /\ \A s \in Requester \ {r} : req'[s] = req[s]
  BY <1>0, <1>1 DEF RequestTypeOK
<1>4. \A u \in Target : entity'[u] = "synced" => entity[u] = "synced"
  BY <1>0, <1>1 DEF PersonTypeOK
<1>5. CallInv'
  <2>1. \A n : QueuedTwins(n)' = QueuedTwins(n)
    BY <1>1 DEF QueuedTwins
  <2>2. QED
    BY <1>2, <1>3, <2>1 DEF Tidy, CallInv
<1>6. LastInv'
  <2> SUFFICES ASSUME NEW u \in Target, NEW j \in NewestOf(u)',
                      \A s \in Requester : req'[s].pc \notin {"idle", "listed"}
                        => TargetOf[req'[s].key] # u
               PROVE  job'[j].ver = wanted'[u]
    BY DEF LastInv
  <2>1. u # t
    BY <1>2, <1>3 DEF t
  <2>2. wanted'[u] = wanted[u]
    BY <1>0, <1>1, <2>1 DEF PersonTypeOK
  <2>3. j \in NewestOf(u)
    BY <1>1, NewestStays
  <2>4. \A s \in Requester : req[s].pc \notin {"idle", "listed"} => TargetOf[req[s].key] # u
    BY <1>1, <1>3
  <2>5. QED
    BY <1>1, <2>2, <2>3, <2>4 DEF Tidy, LastInv
<1>7. QED
  BY <1>1, <1>4, <1>5, <1>6, CallFrame

\* The timer: a registration on its list is no call yet.
LEMMA ListTidy ==
  ASSUME RaceInv, NoProcessLost, Tidy, NEW r \in Requester, NEW k \in Key, ReconcileReads(r, k)
  PROVE  Tidy'
<1>0. RequestTypeOK
  BY TypeParts DEF IInv, RaceInv
<1>1. /\ UNCHANGED <<job, worker, eligible, device, wanted, entity>> /\ req[r].pc = "idle"
      /\ req'[r].pc = "listed" /\ \A s \in Requester \ {r} : req'[s] = req[s]
  BY <1>0 DEF ReconcileReads, NoRequest, tableVars, procVars, personVars, RequestTypeOK
<1>2. CallInv'
  <2>1. \A n : QueuedTwins(n)' = QueuedTwins(n)
    BY <1>1 DEF QueuedTwins
  <2>2. QED
    BY <1>1, <2>1 DEF Tidy, CallInv
<1>3. LastInv'
  <2> SUFFICES ASSUME NEW u \in Target, NEW j \in NewestOf(u)',
                      \A s \in Requester : req'[s].pc \notin {"idle", "listed"}
                                             => TargetOf[req'[s].key] # u
               PROVE  job'[j].ver = wanted'[u]
    BY DEF LastInv
  <2>1. j \in NewestOf(u)
    BY <1>1, NewestStays
  <2>2. \A s \in Requester : req[s].pc \notin {"idle", "listed"} => TargetOf[req[s].key] # u
    BY <1>1
  <2>3. QED
    BY <1>1, <2>1, <2>2 DEF Tidy, LastInv
<1>4. QED
  BY <1>1, <1>2, <1>3, CallFrame

\* When its turn comes it is a call that holds the last request.
LEMMA ListedAskTidy ==
  ASSUME RaceInv, NoProcessLost, Tidy, NEW r \in Requester, ReconcileAsks(r)
  PROVE  Tidy'
<1> USE JobsAssumption
<1>0. PersonTypeOK /\ RequestTypeOK
  BY TypeParts DEF IInv, RaceInv
<1> DEFINE t == TargetOf[req[r].key]
<1>1. /\ UNCHANGED <<job, worker, eligible, device, wanted>>
      /\ req[r].pc = "listed" /\ req[r] \in RequestState /\ req[r].key \in Key /\ t \in Target
  BY <1>0 DEF ReconcileAsks, tableVars, procVars, RequestTypeOK
<1>2. /\ req' = [req EXCEPT ![r].pc = "find", ![r].ver = wanted[t]]
      /\ entity' = [entity EXCEPT ![t] = "pending_sync"]
  BY <1>1 DEF ReconcileAsks, PersistPerson, Tidy
<1>3. /\ req'[r].pc = "find" /\ req'[r].key = req[r].key
      /\ \A s \in Requester \ {r} : req'[s] = req[s]
  BY <1>0, <1>1, <1>2 DEF RequestTypeOK, RequestState
<1>4. \A u \in Target : entity'[u] = "synced" => entity[u] = "synced"
  BY <1>0, <1>2 DEF PersonTypeOK
<1>5. CallInv'
  <2>1. \A n : QueuedTwins(n)' = QueuedTwins(n)
    BY <1>1 DEF QueuedTwins
  <2>2. QED
    BY <1>3, <2>1 DEF Tidy, CallInv
<1>6. LastInv'
  <2> SUFFICES ASSUME NEW u \in Target, NEW j \in NewestOf(u)',
                      \A s \in Requester : req'[s].pc \notin {"idle", "listed"}
                                             => TargetOf[req'[s].key] # u
               PROVE  job'[j].ver = wanted'[u]
    BY DEF LastInv
  <2>1. j \in NewestOf(u)
    BY <1>1, NewestStays
  <2>2. \A s \in Requester : req[s].pc \notin {"idle", "listed"} => TargetOf[req[s].key] # u
    BY <1>1, <1>3
  <2>3. QED
    BY <1>1, <2>1, <2>2 DEF Tidy, LastInv
<1>7. QED
  BY <1>1, <1>4, <1>5, <1>6, CallFrame

\* FindActive: no other queued row has the key of the one it found.
LEMMA FindTidy ==
  ASSUME RaceInv, NoProcessLost, Tidy, NEW r \in Requester, FindActive(r)
  PROVE  Tidy'
<1> USE JobsAssumption
<1>0. RequestTypeOK /\ OneQueuedPerDedupe
  BY TypeParts DEF IInv, RaceInv, TableInv
<1>1. /\ UNCHANGED <<job, worker, eligible, device, wanted, entity>> /\ req[r].pc = "find"
      /\ req[r] \in RequestState /\ \A s \in Requester \ {r} : req'[s] = req[s]
  BY <1>0 DEF FindActive, tableVars, procVars, personVars, RequestTypeOK
<1>2. \/ /\ req'[r] = [req[r] EXCEPT !.pc = "insert"]
         /\ QueuedTwins(req[r].key) = {}
      \/ \E j \in QueuedTwins(req[r].key) : req'[r] = [req[r] EXCEPT !.pc = "merge", !.job = j]
  BY <1>0 DEF FindActive, RequestTypeOK
<1>3. /\ req'[r].key = req[r].key /\ req'[r].pc \in {"insert", "merge"}
      /\ req'[r].pc = "insert" => QueuedTwins(req[r].key) = {}
      /\ req'[r].pc = "merge" => req'[r].job \in QueuedTwins(req[r].key)
  <2>1. CASE req'[r] = [req[r] EXCEPT !.pc = "insert"] /\ QueuedTwins(req[r].key) = {}
    BY <1>1, <2>1 DEF RequestState
  <2>2. ASSUME NEW j \in QueuedTwins(req[r].key),
               req'[r] = [req[r] EXCEPT !.pc = "merge", !.job = j]
        PROVE  req'[r].key = req[r].key /\ req'[r].pc = "merge" /\ req'[r].job = j
    BY <1>1, <2>2 DEF RequestState
  <2>3. QED
    BY <1>2, <2>1, <2>2
<1>4. \A n : QueuedTwins(n)' = QueuedTwins(n)
  BY <1>1 DEF QueuedTwins
<1>5. \A n : \A i, j \in QueuedTwins(n) : i = j
  BY <1>0 DEF QueuedTwins, OneQueuedPerDedupe
<1>6. CallInv'
  <2>1. /\ req'[r].pc \notin {"refind", "remerge"}
        /\ req'[r].pc = "insert" => QueuedTwins(req[r].key) = {}
        /\ req'[r].pc = "merge" => QueuedTwins(req[r].key) \subseteq {req'[r].job}
    BY <1>3, <1>5
  <2>2. \A s \in Requester :
          /\ req'[s].pc \notin {"refind", "remerge"}
          /\ req'[s].pc = "insert"
               => {j \in Job : job[j].st = "queued" /\ job[j].key = req'[s].key} = {}
          /\ req'[s].pc = "merge"
               => {j \in Job : job[j].st = "queued" /\ job[j].key = req'[s].key}
                    \subseteq {req'[s].job}
    BY <1>1, <1>3, <2>1 DEF Tidy, CallInv, QueuedTwins
  <2>3. QED
    BY <1>1, <2>2 DEF CallInv, QueuedTwins
<1>7. LastInv'
  <2> SUFFICES ASSUME NEW u \in Target, NEW j \in NewestOf(u)',
                      \A s \in Requester : req'[s].pc \notin {"idle", "listed"}
                        => TargetOf[req'[s].key] # u
               PROVE  job'[j].ver = wanted'[u]
    BY DEF LastInv
  <2>1. j \in NewestOf(u)
    BY <1>1, NewestStays
  <2>2. \A s \in Requester : req[s].pc \notin {"idle", "listed"} => TargetOf[req[s].key] # u
    BY <1>1, <1>3
  <2>3. QED
    BY <1>1, <2>1, <2>2 DEF Tidy, LastInv
<1>8. QED
  BY <1>1, <1>6, <1>7, CallFrame

\* MergeQueued: the row found still waits, so it is the newest of its target; or
\* it does not, and nothing waits under the key.
LEMMA MergeTidy ==
  ASSUME RaceInv, OneCallPerTarget, NoProcessLost, Tidy, NEW r \in Requester, MergeQueued(r)
  PROVE  Tidy'
<1> USE JobsAssumption
<1>0. /\ TableTypeOK /\ RequestTypeOK /\ AskInv /\ LiveHasKey /\ OneQueuedPerDedupe
      /\ PersonTypeOK
  BY TypeParts DEF IInv, RaceInv, TableInv
<1> DEFINE i == req[r].job
           k == req[r].key
<1>1. /\ UNCHANGED <<worker, eligible, device, wanted, entity>> /\ req[r].pc = "merge"
      /\ req[r] \in RequestState /\ i \in Job /\ k \in Key
      /\ job[i].st # "none" /\ job[i].key = k /\ req[r].ver = wanted[TargetOf[k]]
      /\ \A s \in Requester \ {r} : req'[s] = req[s]
  BY <1>0 DEF MergeQueued, AskInv, procVars, personVars, RequestTypeOK
<1>2. NoRequest.pc = "idle"
  BY DEF NoRequest
<1>3. \A s \in Requester \ {r} : req[s].pc \notin {"idle", "listed"} => req[s].key # k
  BY <1>1 DEF OneCallPerTarget
<1>4. QueuedTwins(k) \subseteq {i}
  BY <1>1 DEF Tidy, CallInv
<1>5. CASE /\ job[i].st # "queued" /\ UNCHANGED tableVars
           /\ req' = [req EXCEPT ![r].pc = "insert", ![r].job = None]
  <2>1. UNCHANGED job /\ req'[r].pc = "insert" /\ req'[r].key = k
    BY <1>0, <1>1, <1>5 DEF tableVars, RequestTypeOK, RequestState
  <2>2. QueuedTwins(k) = {} /\ \A n : QueuedTwins(n)' = QueuedTwins(n)
    BY <1>4, <1>5, <2>1 DEF QueuedTwins
  <2>3. CallInv'
    <3>1. \A s \in Requester :
            /\ req'[s].pc \notin {"refind", "remerge"}
            /\ req'[s].pc = "insert"
                 => {j \in Job : job[j].st = "queued" /\ job[j].key = req'[s].key} = {}
            /\ req'[s].pc = "merge"
                 => {j \in Job : job[j].st = "queued" /\ job[j].key = req'[s].key}
                      \subseteq {req'[s].job}
      BY <1>1, <2>1, <2>2 DEF Tidy, CallInv, QueuedTwins
    <3>2. QED
      BY <2>1, <3>1 DEF CallInv, QueuedTwins
  <2>4. LastInv'
    <3> SUFFICES ASSUME NEW u \in Target, NEW j \in NewestOf(u)',
                        \A s \in Requester : req'[s].pc \notin {"idle", "listed"}
                          => TargetOf[req'[s].key] # u
                 PROVE  job'[j].ver = wanted'[u]
      BY DEF LastInv
    <3>1. j \in NewestOf(u)
      BY <2>1, NewestStays
    <3>2. \A s \in Requester : req[s].pc \notin {"idle", "listed"} => TargetOf[req[s].key] # u
      BY <1>1, <2>1
    <3>3. QED
      BY <1>1, <2>1, <3>1, <3>2 DEF Tidy, LastInv
  <2>5. QED
    BY <1>1, <2>1, <2>3, <2>4, CallFrame
<1>6. CASE UpdateQueuedJobPayload(i, req[r].ver) /\ req' = [req EXCEPT ![r] = NoRequest]
  <2> HIDE DEF i, k
  <2>1. /\ job[i].st = "queued" /\ job'[i].st = "queued" /\ job'[i].key = job[i].key
        /\ job'[i].ver = wanted[TargetOf[k]]
        /\ \A j \in Job \ {i} : job'[j] = job[j]
    <3>1. job[i] \in Row /\ job \in [Job -> Row]
      BY <1>0, <1>1 DEF TableTypeOK
    <3>2. QED
      BY <1>1, <1>6, <3>1 DEF UpdateQueuedJobPayload, Row
  <2>2. req'[r].pc = "idle"
    BY <1>0, <1>2, <1>6 DEF RequestTypeOK
  <2>3. \A j \in Job : /\ job'[j].st = job[j].st /\ job'[j].key = job[j].key
                       /\ TargetOfJob(j)' = TargetOfJob(j)
    BY <2>1 DEF TargetOfJob
  <2>4. RowInv'
    BY <2>3 DEF Tidy, RowInv
  <2>5. LoopInv'
    <3>1. \A w \in Worker : worker[w].pc \in Owning => worker[w].job \in Job \ {i}
      BY <2>1, LoopsOwn
    <3>2. \A w \in Worker : worker[w].pc \in Owning
            => worker[w].ver = job'[worker[w].job].ver
      BY <2>1, <3>1 DEF Tidy, LoopInv
    <3>3. \A j \in Job : job'[j].st = "running"
            => \E w \in Worker : worker[w].pc \in Owning /\ worker[w].job = j
      BY <2>3 DEF Tidy, LoopInv
    <3>4. QED
      BY <1>1, <3>2, <3>3 DEF LoopInv
  <2>6. CallInv'
    <3>1. \A n : QueuedTwins(n)' = QueuedTwins(n)
      BY <2>3 DEF QueuedTwins
    <3>2. QED
      BY <1>1, <2>2, <3>1 DEF Tidy, CallInv
  <2>7. \A u \in Target : NewestOf(u)' = NewestOf(u) /\ NewestOf(u) \subseteq Job
    BY <2>3, NewestStays DEF NewestOf
  <2>8. LastInv'
    <3> SUFFICES ASSUME NEW u \in Target, NEW j \in NewestOf(u),
                        \A s \in Requester : req'[s].pc \notin {"idle", "listed"}
                          => TargetOf[req'[s].key] # u
                 PROVE  job'[j].ver = wanted[u]
      BY <1>1, <2>7 DEF LastInv
    <3>1. CASE u = TargetOf[k]
      <4>1. i <= j /\ j \in Job /\ TargetOfJob(j) = u /\ job[j].key # None
        BY <1>1, <3>1 DEF NewestOf, TargetOfJob
      <4>2. j <= i
        <5>1. job[j].st # "none" /\ TargetOfJob(i) = u
          BY <1>1, <3>1, <4>1 DEF Tidy, RowInv, TargetOfJob
        <5>2. i \in Job /\ job[i].st = "queued" /\ RowInv
          BY <1>1, <2>1 DEF Tidy
        <5>3. QED
          BY <4>1, <5>1, <5>2 DEF RowInv
      <4>3. i = j
        <5>1. i \in Nat /\ j \in Nat
          BY <1>1, <4>1
        <5>2. QED
          BY <4>1, <4>2, <5>1
      <4>4. job'[i].ver = wanted[u]
        BY <2>1, <3>1
      <4>5. QED
        BY <4>3, <4>4
    <3>2. CASE u # TargetOf[k]
      <4>1. j \in Job \ {i}
        BY <1>1, <2>7, <3>2 DEF NewestOf, TargetOfJob
      <4>2. \A s \in Requester : req[s].pc \notin {"idle", "listed"} => TargetOf[req[s].key] # u
        BY <1>1, <3>2 DEF k
      <4>3. QED
        BY <2>1, <4>1, <4>2 DEF Tidy, LastInv
    <3>3. QED
      BY <3>1, <3>2
  <2>9. LoopShows'
    <3>1. \A w \in Worker : worker[w].pc \in Busy => Mine(w)' = Mine(w)
      BY <1>1, <2>3, MineStays
    <3>2. {"persist", "check", "finish"} \subseteq Busy
      BY DEF Busy, WorkerPc
    <3>3. LoopShows /\ UNCHANGED <<worker, device, entity>>
      BY <1>1 DEF Tidy
    <3>4. QED
      BY <3>1, <3>2, <3>3 DEF LoopShows
  <2>10. RowShows'
    <3>1. \A j \in Job : job'[j].st = "done" => job[j].st = "done" /\ job'[j] = job[j]
      BY <2>1
    <3>2. \A u \in Target : \A j \in NewestOf(u) :
            job'[j].st = "done" /\ entity[u] = "synced" => device[u] = job'[j].ver
      <4>1. RowShows
        BY DEF Tidy
      <4> TAKE u \in Target
      <4> TAKE j \in NewestOf(u)
      <4>2. j \in Job
        BY <2>7
      <4> QED
        BY <3>1, <4>1, <4>2 DEF RowShows
    <3>3. QED
      BY <1>1, <2>7, <3>2 DEF RowShows
  <2>11. QED
    BY <1>1, <2>4, <2>5, <2>6, <2>8, <2>9, <2>10 DEF Tidy
<1>7. QED
  BY <1>5, <1>6 DEF MergeQueued

\* InsertOrCatch: nothing waits under the key, so the insert succeeds and its row
\* is the newest of the target.
LEMMA InsertTidy ==
  ASSUME RaceInv, OneKeyPerTarget, OneCallPerTarget, NoProcessLost, Tidy,
         "db" \notin Faults, NEW r \in Requester, InsertOrCatch(r)
  PROVE  Tidy'
<1> USE JobsAssumption
<1>0. /\ TableTypeOK /\ RequestTypeOK /\ AskInv /\ LiveHasKey /\ RowInv /\ CallInv
  BY TypeParts DEF IInv, RaceInv, TableInv, Tidy
<1> DEFINE k == req[r].key
           t == TargetOf[k]
<1>1. /\ UNCHANGED <<worker, eligible, device, wanted, entity>> /\ req[r].pc = "insert"
      /\ k \in Key /\ t \in Target /\ req[r].ver = wanted[t] /\ QueuedTwins(k) = {}
  BY <1>0 DEF InsertOrCatch, AskInv, procVars, personVars, RequestTypeOK, CallInv
<1>2. PICK n \in Job : InsertJob(n, k, req[r].ver) /\ req' = [req EXCEPT ![r] = NoRequest]
  BY <1>1 DEF InsertOrCatch
<1>3. \A s \in Requester \ {r} : req[s].pc \notin {"idle", "listed"} => TargetOf[req[s].key] # t
  BY <1>1 DEF OneCallPerTarget
<1>4. req'[r].pc = "idle" /\ \A s \in Requester \ {r} : req'[s] = req[s]
  BY <1>0, <1>2 DEF RequestTypeOK, NoRequest
<1> HIDE DEF k, t
<1>5. /\ job[n].st = "none" /\ job[n].key = None
      /\ job'[n].st = "queued" /\ job'[n].key = k /\ job'[n].ver = wanted[t]
      /\ \A j \in Job \ {n} : job'[j] = job[j] /\ TargetOfJob(j)' = TargetOfJob(j)
      /\ \A j \in Job : job[j].st = "none" => n <= j
  BY <1>0, <1>1, <1>2 DEF InsertJob, NextId, NoRow, TableTypeOK, RowInv, TargetOfJob
<1>6. TargetOfJob(n)' = t
  BY <1>5 DEF TargetOfJob, t
<1>7. \A j \in Job : job[j].st # "none" => j < n
  BY <1>0, <1>5 DEF RowInv
<1>8. \A j \in Job : job[j].st = "queued" => TargetOfJob(j) # t
  <2> SUFFICES ASSUME NEW j \in Job, job[j].st = "queued", TargetOfJob(j) = t PROVE FALSE
    OBVIOUS
  <2>1. job[j].key = k
    BY <1>0, <1>1 DEF LiveHasKey, OneKeyPerTarget, TargetOfJob, t
  <2>2. QED
    BY <1>1, <2>1 DEF QueuedTwins
<1>9. RowInv'
  <2>1. \A j \in Job : job'[j].st = "none" => job'[j].key = None
    BY <1>0, <1>5 DEF RowInv
  <2>2. ASSUME NEW i \in Job, NEW j \in Job, job'[i].st # "none", job'[j].st = "none"
        PROVE  i < j
    <3>1. j # n /\ job[j].st = "none" /\ n <= j
      BY <1>5, <2>2
    <3>2. CASE i = n
      <4>1. n \in Nat /\ j \in Nat
        OBVIOUS
      <4>2. QED
        BY <3>1, <3>2, <4>1
    <3>3. CASE i # n
      BY <1>0, <1>5, <2>2, <3>1, <3>3 DEF RowInv
    <3>4. QED
      BY <3>2, <3>3
  <2>3. ASSUME NEW i \in Job, NEW j \in Job, job'[i].st # "none", job'[j].st # "none",
               TargetOfJob(i)' = TargetOfJob(j)'
        PROVE  /\ job'[j].st = "queued" => i <= j
               /\ job'[j].st \in {"running", "done"} /\ i < j => job'[i].st \notin Live
    <3>1. CASE j = n
      <4>1. i = n \/ i < n
        BY <1>5, <1>7, <2>3
      <4>2. i \in Nat /\ n \in Nat
        OBVIOUS
      <4>3. i <= n
        BY <4>1, <4>2
      <4>4. QED
        BY <1>5, <3>1, <4>3
    <3>2. CASE i = n /\ j # n
      <4>1. j < n /\ j \in Nat /\ n \in Nat /\ job'[j].st # "queued"
        BY <1>5, <1>6, <1>7, <1>8, <2>3, <3>2
      <4>2. ~(i < j)
        BY <3>2, <4>1
      <4>3. QED
        BY <4>1, <4>2
    <3>3. CASE i # n /\ j # n
      BY <1>0, <1>5, <2>3, <3>3 DEF RowInv
    <3>4. QED
      BY <3>1, <3>2, <3>3
  <2>4. QED
    BY <2>1, <2>2, <2>3 DEF RowInv
<1>10. \A w \in Worker : worker[w].pc \in Owning => worker[w].job \in Job \ {n}
  BY <1>5, LoopsOwn
<1>11. LoopInv'
  <2>1. \A w \in Worker : worker[w].pc \in Owning => worker[w].ver = job'[worker[w].job].ver
    BY <1>5, <1>10 DEF Tidy, LoopInv
  <2>2. \A j \in Job : job'[j].st = "running"
          => \E w \in Worker : worker[w].pc \in Owning /\ worker[w].job = j
    BY <1>5 DEF Tidy, LoopInv
  <2>3. QED
    BY <1>1, <2>1, <2>2 DEF LoopInv
<1>12. CallInv'
  <2>1. ASSUME NEW s \in Requester \ {r}, req[s].pc \notin {"idle", "listed"}
        PROVE  {j \in Job : job'[j].st = "queued" /\ job'[j].key = req[s].key}
            = QueuedTwins(req[s].key)
    <3>1. req[s].key # k
      BY <1>3, <2>1 DEF t
    <3>2. QED
      BY <1>5, <3>1 DEF QueuedTwins
  <2>2. \A s \in Requester :
          /\ req'[s].pc \notin {"refind", "remerge"}
          /\ req'[s].pc = "insert"
               => {j \in Job : job'[j].st = "queued" /\ job'[j].key = req'[s].key} = {}
          /\ req'[s].pc = "merge"
               => {j \in Job : job'[j].st = "queued" /\ job'[j].key = req'[s].key}
                    \subseteq {req'[s].job}
    BY <1>0, <1>4, <2>1 DEF CallInv
  <2>3. QED
    BY <2>2 DEF CallInv, QueuedTwins
<1>13. \A u \in Target : u # t => NewestOf(u)' = NewestOf(u) /\ NewestOf(u) \subseteq Job \ {n}
  BY <1>5, <1>6 DEF NewestOf
<1>14. \A u \in Target : u = t => NewestOf(u)' \subseteq {n}
  <2> SUFFICES ASSUME NEW u \in Target, u = t, NEW j \in NewestOf(u)' PROVE j = n
    OBVIOUS
  <2>1. j \in Job /\ n <= j /\ job'[j].key # None
    BY <1>1, <1>5, <1>6 DEF NewestOf
  <2>2. j # n => j < n
    <3>1. j # n => job[j].st # "none"
      BY <1>0, <1>5, <2>1 DEF RowInv
    <3>2. QED
      BY <1>7, <2>1, <3>1
  <2>3. j \in Nat /\ n \in Nat
    BY <2>1
  <2>4. QED
    BY <2>1, <2>2, <2>3
<1>15. LastInv'
  <2> SUFFICES ASSUME NEW u \in Target, NEW j \in NewestOf(u)',
                      \A s \in Requester : req'[s].pc \notin {"idle", "listed"}
                        => TargetOf[req'[s].key] # u
               PROVE  job'[j].ver = wanted[u]
    BY <1>1 DEF LastInv
  <2>1. CASE u = t
    BY <1>5, <1>14, <2>1
  <2>2. CASE u # t
    <3>1. \A s \in Requester : req[s].pc \notin {"idle", "listed"} => TargetOf[req[s].key] # u
      BY <1>4, <2>2 DEF t, k
    <3>2. j \in NewestOf(u) /\ job'[j] = job[j]
      BY <1>5, <1>13, <2>2
    <3>3. QED
      BY <3>1, <3>2 DEF Tidy, LastInv
  <2>3. QED
    BY <2>1, <2>2
<1>16. LoopShows'
  <2>1. \A w \in Worker : worker[w].pc \in Owning => Mine(w)' = Mine(w)
    BY <1>1, <1>5, <1>10 DEF Mine
  <2>2. {"persist", "check", "finish"} \subseteq Owning
    BY DEF Owning, Busy, WorkerPc
  <2>3. QED
    BY <1>1, <2>1, <2>2 DEF Tidy, LoopShows
<1>17. RowShows'
  <2> SUFFICES ASSUME NEW u \in Target, NEW j \in NewestOf(u)',
                      job'[j].st = "done", entity[u] = "synced"
               PROVE  device[u] = job'[j].ver
    BY <1>1 DEF RowShows
  <2>1. u # t
    BY <1>5, <1>14
  <2>2. j \in NewestOf(u) /\ job'[j] = job[j]
    BY <1>5, <1>13, <2>1
  <2>3. QED
    BY <2>2 DEF Tidy, RowShows
<1>18. QED
  BY <1>1, <1>9, <1>11, <1>12, <1>15, <1>16, <1>17 DEF Tidy

\* The calls, all together.
LEMMA RequestsTidy ==
  ASSUME RaceInv, OneKeyPerTarget, OneCallPerTarget, NoProcessLost, Tidy,
         Faults \cap {"retry", "db", "drop"} = {}, Requests
  PROVE  Tidy'
<1>1. "retry" \notin Faults /\ "db" \notin Faults /\ "drop" \notin Faults
  OBVIOUS
<1>2. \A r \in Requester : /\ \A j \in Job : ~Retry(r, j)
                           /\ ~DropRequest(r) /\ ~FindRaced(r) /\ ~MergeRaced(r)
  BY <1>1 DEF Retry, DropRequest, FindRaced, MergeRaced, Tidy, CallInv
<1>3. QED
  BY <1>1, <1>2, AskTidy, ListTidy, ListedAskTidy, FindTidy, MergeTidy, InsertTidy
     DEF Requests, Request

-----------------------------------------------------------------------------
(* The loops. *)

\* A loop that writes no row may write the reader and the person of its own
\* target only, where nobody else is at work and no newest row is done.
LEMMA LoopTidy ==
  ASSUME RaceInv, NoProcessLost, Tidy, NEW w \in Worker,
         UNCHANGED <<job, req, wanted, eligible>>,
         \A v \in Worker \ {w} : worker'[v] = worker[v],
         worker'[w].pc \in Owning => worker[w].pc \in Owning,
         worker[w].pc \in Owning => /\ worker'[w].pc \in Owning
                                    /\ worker'[w].job = worker[w].job
                                    /\ worker'[w].ver = worker[w].ver,
         \A t \in Target : \/ /\ device'[t] = device[t]
                              /\ entity'[t] = "synced" => entity[t] = "synced"
                           \/ worker[w].pc \in Owning /\ t = Mine(w),
         worker'[w].pc = "persist" /\ worker'[w].out = "synced"
           => device'[Mine(w)] = worker[w].ver,
         worker'[w].pc \in {"check", "finish"} /\ entity'[Mine(w)] = "synced"
           => device'[Mine(w)] = worker[w].ver
  PROVE  Tidy'
<1>1. (\A t \in Target : eligible'[t]) /\ RowInv' /\ CallInv' /\ LastInv'
  BY RowsFallFrame DEF RowsFall
<1>2. {"persist", "check", "finish"} \subseteq Owning
  BY DEF Owning, Busy, WorkerPc
<1>3. LoopInv'
  <2>1. \A v \in Worker : worker'[v].pc \in Owning => worker'[v].ver = job[worker'[v].job].ver
    BY DEF Tidy, LoopInv
  <2>2. ASSUME NEW j \in Job, job[j].st = "running"
        PROVE  \E v \in Worker : worker'[v].pc \in Owning /\ worker'[v].job = j
    <3>1. PICK v \in Worker : worker[v].pc \in Owning /\ worker[v].job = j
      BY <2>2 DEF Tidy, LoopInv
    <3>2. worker'[v].pc \in Owning /\ worker'[v].job = j
      BY <3>1
    <3>3. QED
      BY <3>2
  <2>3. QED
    BY <2>1, <2>2 DEF LoopInv
<1>4. LoopShows'
  <2> SUFFICES ASSUME NEW v \in Worker
               PROVE  /\ worker'[v].pc = "persist" /\ worker'[v].out = "synced"
                           => device'[Mine(v)'] = worker'[v].ver
                      /\ worker'[v].pc \in {"check", "finish"} /\ entity'[Mine(v)'] = "synced"
                           => device'[Mine(v)'] = worker'[v].ver
    BY DEF LoopShows
  <2>1. CASE v = w
    <3>1. worker[w].pc \in Owning => Mine(w)' = Mine(w)
      BY DEF Mine, TargetOfJob
    <3>2. QED
      BY <1>2, <2>1, <3>1
  <2>2. CASE v # w /\ worker'[v].pc \in Owning
    <3>1. worker'[v] = worker[v] /\ Mine(v)' = Mine(v) /\ worker[v].pc \in Owning
      BY <2>2 DEF Mine, TargetOfJob
    <3>2. Mine(v) \in Target /\ ~(worker[w].pc \in Owning /\ Mine(v) = Mine(w))
      BY <2>2, <3>1, LoopsOwn
    <3>3. device'[Mine(v)] = device[Mine(v)]
          /\ (entity'[Mine(v)] = "synced" => entity[Mine(v)] = "synced")
      BY <3>2
    <3>4. QED
      BY <3>1, <3>3 DEF Tidy, LoopShows
  <2>3. QED
    BY <1>2, <2>1, <2>2
<1>5. RowShows'
  <2> SUFFICES ASSUME NEW t \in Target, NEW j \in NewestOf(t),
                      job[j].st = "done", entity'[t] = "synced"
               PROVE  device'[t] = job[j].ver
    BY NewestStays DEF RowShows
  <2>1. ~(worker[w].pc \in Owning /\ t = Mine(w))
    BY NotDoneYet
  <2>2. device'[t] = device[t] /\ entity[t] = "synced"
    BY <2>1
  <2>3. QED
    BY <2>2 DEF Tidy, RowShows
<1>6. QED
  BY <1>1, <1>3, <1>4, <1>5 DEF Tidy

\* A pass: what it reports as synced it wrote.
LEMMA PassTidy ==
  ASSUME RaceInv, NoProcessLost, Tidy, NEW w \in Worker, NEW pc \in {"run", "again"},
         RunPass(w, pc)
  PROVE  Tidy'
<1>0. WorkerTypeOK /\ PersonTypeOK
  BY TypeParts DEF IInv, RaceInv
<1>1. /\ UNCHANGED <<job, req, wanted, eligible, entity>> /\ worker[w].pc = pc
      /\ worker[w].pc \in Owning
  BY DEF RunPass, At, tableVars, Owning, Busy, WorkerPc
<1>2. eligible[Mine(w)] /\ Mine(w) \in Target
  BY <1>1, LoopsOwn DEF Tidy
<1>3. PICK next \in {"end", "persist", "again"}, out \in Outcome :
        /\ GoTo(w, next, out)
        /\ UNCHANGED device \/ device' = [device EXCEPT ![Mine(w)] = worker[w].ver]
        /\ next = "persist" /\ out = "synced"
             => device' = [device EXCEPT ![Mine(w)] = worker[w].ver]
  BY <1>2 DEF RunPass, Mine, Outcome
<1>4. /\ worker'[w].pc = next /\ worker'[w].out = out
      /\ worker'[w].job = worker[w].job /\ worker'[w].ver = worker[w].ver
      /\ \A v \in Worker \ {w} : worker'[v] = worker[v]
  <2>1. worker[w] \in WorkerState /\ worker \in [Worker -> WorkerState]
    BY <1>0 DEF WorkerTypeOK
  <2>2. QED
    BY <1>3, <2>1 DEF GoTo, WorkerState
<1>5. next \in Owning
  BY DEF Owning, Busy, WorkerPc
<1>6. \A t \in Target : device'[t] = device[t] \/ t = Mine(w)
  BY <1>0, <1>3 DEF PersonTypeOK
<1>7. next = "persist" /\ out = "synced" => device'[Mine(w)] = worker[w].ver
  BY <1>0, <1>2, <1>3 DEF PersonTypeOK
<1>8. next \notin {"check", "finish"}
  OBVIOUS
<1>9. QED
  BY <1>1, <1>4, <1>5, <1>6, <1>7, <1>8, LoopTidy

\* The steps of a loop between its passes and the end of its row.
LEMMA BetweenTidy ==
  ASSUME RaceInv, NoProcessLost, Tidy, "db" \notin Faults, NEW w \in Worker,
         \/ PollNothing(w) \/ Persist(w) \/ Settle(w)
         \/ Checkpoint(w, "begin", "run") \/ Checkpoint(w, "check", "finish")
  PROVE  Tidy'
<1>0. WorkerTypeOK /\ PersonTypeOK /\ worker[w] \in WorkerState
      /\ worker \in [Worker -> WorkerState]
  BY TypeParts DEF IInv, RaceInv, WorkerTypeOK
<1>1. /\ UNCHANGED <<job, req, wanted, eligible, device>>
      /\ \A v \in Worker \ {w} : worker'[v] = worker[v]
  BY <1>0 DEF PollNothing, Persist, Settle, Checkpoint, GoTo, tableVars, personVars
<1>2. \A t \in Target : device'[t] = device[t]
  BY <1>1
<1>3. ASSUME NEW pc, NEW out, GoTo(w, pc, out)
      PROVE  /\ worker'[w].pc = pc /\ worker'[w].out = out
             /\ worker'[w].job = worker[w].job /\ worker'[w].ver = worker[w].ver
  BY <1>0, <1>3 DEF GoTo, WorkerState
<1>4. CASE PollNothing(w) \/ Settle(w)
  <2>1. /\ worker'[w].pc \in {"idle", "exited"} /\ worker[w].pc \in {"polling", "settle"}
    BY <1>0, <1>4 DEF PollNothing, Settle, At, AfterJob, Resting
  <2>2. worker'[w].pc \notin Owning /\ worker[w].pc \notin Owning
        /\ worker'[w].pc \notin {"persist", "check", "finish"}
    BY <2>1 DEF Owning, Busy
  <2>3. UNCHANGED entity \/ \E t : PersistPerson(t, "sync_failed")
    BY <1>4 DEF PollNothing, Settle, personVars
  <2>4. \A t \in Target : entity'[t] = "synced" => entity[t] = "synced"
    BY <1>0, <2>3 DEF PersistPerson, PersonTypeOK
  <2>5. QED
    BY <1>1, <1>2, <2>2, <2>4, LoopTidy
<1>5. CASE Checkpoint(w, "begin", "run")
  <2>1. /\ UNCHANGED entity /\ worker[w].pc = "begin" /\ worker'[w].pc \in {"run", "end"}
        /\ worker'[w].job = worker[w].job /\ worker'[w].ver = worker[w].ver
    BY <1>3, <1>5 DEF Checkpoint, At, personVars
  <2>2. worker[w].pc \in Owning /\ worker'[w].pc \in Owning
        /\ worker'[w].pc \notin {"persist", "check", "finish"}
    BY <2>1 DEF Owning, Busy, WorkerPc
  <2>3. QED
    BY <1>1, <1>2, <2>1, <2>2, LoopTidy
<1>6. CASE Checkpoint(w, "check", "finish")
  <2>1. /\ UNCHANGED entity /\ worker[w].pc = "check" /\ worker'[w].pc \in {"finish", "end"}
        /\ worker'[w].job = worker[w].job /\ worker'[w].ver = worker[w].ver
    BY <1>3, <1>6 DEF Checkpoint, At, personVars
  <2>2. worker[w].pc \in Owning /\ worker'[w].pc \in Owning /\ worker'[w].pc # "persist"
    BY <2>1 DEF Owning, Busy, WorkerPc
  <2>3. entity'[Mine(w)] = "synced" => device'[Mine(w)] = worker[w].ver
    BY <1>1, <2>1 DEF Tidy, LoopShows
  <2>4. QED
    BY <1>1, <1>2, <2>1, <2>2, <2>3, LoopTidy
<1>7. CASE Persist(w)
  <2>1. /\ worker[w].pc = "persist" /\ worker'[w].pc = "check"
        /\ worker'[w].job = worker[w].job /\ worker'[w].ver = worker[w].ver
        /\ entity' = [entity EXCEPT ![Mine(w)] = worker[w].out]
    BY <1>3, <1>7 DEF Persist, At, PersistPerson, Mine
  <2>2. worker[w].pc \in Owning /\ worker'[w].pc \in Owning
        /\ worker'[w].pc # "persist"
    BY <2>1 DEF Owning, Busy, WorkerPc
  <2>3. Mine(w) \in Target
    BY <2>2, LoopsOwn
  <2>4. entity'[Mine(w)] = worker[w].out
    BY <1>0, <2>1, <2>3 DEF PersonTypeOK
  <2>5. entity'[Mine(w)] = "synced" => device'[Mine(w)] = worker[w].ver
    BY <1>1, <2>1, <2>4 DEF Tidy, LoopShows
  <2>6. \A t \in Target : t # Mine(w) => entity'[t] = entity[t]
    BY <1>0, <2>1 DEF PersonTypeOK
  <2>7. QED
    BY <1>1, <1>2, <2>1, <2>2, <2>5, <2>6, LoopTidy
<1>8. QED
  BY <1>4, <1>5, <1>6, <1>7

\* The end of a row: when it is done and its person shown as synced, the reader
\* holds its payload.
LEMMA EndTidy ==
  ASSUME RaceInv, NoProcessLost, Tidy, "db" \notin Faults, NEW w \in Worker,
         Finish(w) \/ FinishFailed(w)
  PROVE  Tidy'
<1> USE JobsAssumption, QueueAssumption
<1>0. TableTypeOK /\ WorkerTypeOK /\ worker \in [Worker -> WorkerState]
  BY TypeParts DEF IInv, RaceInv, WorkerTypeOK
<1> DEFINE i == worker[w].job
<1>1. worker[w].pc \in {"finish", "end"} /\ worker[w].pc \in Owning
  BY DEF Finish, FinishFailed, At, Owning, Busy, WorkerPc
<1>2. i \in Job /\ job[i].st = "running" /\ Owned(ProcOf[w], i)
  BY <1>1, LoopsOwn
<1>3. /\ UNCHANGED <<req, wanted, eligible, entity, device>>
      /\ \A v \in Worker \ {w} : worker'[v] = worker[v]
  BY <1>0 DEF Finish, FinishFailed, GoTo, personVars
<1>4. PICK status \in Ended, error \in ErrorText :
        /\ FinishJob(ProcOf[w], i, status, error)
        /\ status = "done" => worker[w].pc = "finish"
  BY <1>2 DEF Finish, FinishFailed, Ended, ErrorText, At
<1>5. worker'[w].pc \in {"idle", "exited", "settle"}
  BY <1>0, <1>2 DEF Finish, FinishFailed, AfterJob, Resting, GoTo, WorkerState
<1>6. worker'[w].pc \notin Owning /\ worker'[w].pc \notin {"persist", "check", "finish"}
  BY <1>5 DEF Owning, Busy
<1> HIDE DEF i
<1>7. /\ job'[i].st = status /\ job'[i].key = job[i].key /\ job'[i].ver = job[i].ver
      /\ \A j \in Job \ {i} : job'[j] = job[j]
  <2>1. job[i] \in Row /\ job \in [Job -> Row]
    BY <1>0, <1>2 DEF TableTypeOK
  <2>2. QED
    BY <1>2, <1>4, <2>1 DEF FinishJob, Row
<1>8. RowsFall
  BY <1>2, <1>7 DEF RowsFall, Ended
<1>9. (\A t \in Target : eligible'[t]) /\ RowInv' /\ CallInv' /\ LastInv'
  BY <1>3, <1>8, RowsFallFrame
<1>10. ASSUME NEW v \in Worker, worker'[v].pc \in Owning
       PROVE  /\ v # w /\ worker'[v] = worker[v] /\ worker[v].job \in Job \ {i}
              /\ Mine(v) \in Target /\ Mine(v)' = Mine(v)
  <2>1. v # w /\ worker'[v] = worker[v]
    BY <1>3, <1>6, <1>10
  <2>2. worker[v].job \in Job /\ Mine(v) \in Target /\ Mine(v) # Mine(w)
    BY <1>1, <1>10, <2>1, LoopsOwn
  <2>3. worker[v].job # i
    BY <2>2 DEF Mine, i
  <2>4. Mine(v)' = Mine(v)
    BY <1>7, <2>1, <2>2, <2>3 DEF Mine, TargetOfJob
  <2>5. QED
    BY <2>1, <2>2, <2>3, <2>4
<1>11. LoopInv'
  <2>1. ASSUME NEW v \in Worker, worker'[v].pc \in Owning
        PROVE  worker'[v].ver = job'[worker'[v].job].ver
    <3>1. worker'[v] = worker[v] /\ worker[v].job \in Job \ {i}
      BY <1>10, <2>1
    <3>2. worker[v].ver = job[worker[v].job].ver
      BY <2>1, <3>1 DEF Tidy, LoopInv
    <3>3. job'[worker[v].job] = job[worker[v].job]
      BY <1>7, <3>1
    <3>4. QED
      BY <3>1, <3>2, <3>3
  <2>2. ASSUME NEW j \in Job, job'[j].st = "running"
        PROVE  \E v \in Worker : worker'[v].pc \in Owning /\ worker'[v].job = j
    <3>1. j # i /\ job[j].st = "running"
      BY <1>7, <2>2 DEF Ended
    <3>2. PICK v \in Worker : worker[v].pc \in Owning /\ worker[v].job = j
      BY <3>1 DEF Tidy, LoopInv
    <3>3. worker'[v] = worker[v]
      BY <1>3, <3>1, <3>2 DEF i
    <3>4. QED
      BY <3>2, <3>3
  <2>3. QED
    BY <2>1, <2>2 DEF LoopInv
<1>12. LoopShows'
  <2>1. {"persist", "check", "finish"} \subseteq Owning
    BY DEF Owning, Busy, WorkerPc
  <2>2. LoopShows /\ UNCHANGED <<device, entity>>
    BY <1>3 DEF Tidy
  <2>3. ASSUME NEW v \in Worker, worker'[v].pc \in {"persist", "check", "finish"}
        PROVE  worker'[v] = worker[v] /\ Mine(v)' = Mine(v)
    BY <1>3, <1>10, <2>1, <2>3
  <2>4. QED
    BY <2>2, <2>3 DEF LoopShows
<1>13. RowShows'
  <2> SUFFICES ASSUME NEW t \in Target, NEW j \in NewestOf(t),
                      job'[j].st = "done", entity[t] = "synced"
               PROVE  device[t] = job'[j].ver
    BY <1>3, <1>8, NewestStays DEF RowShows, RowsFall
  <2>1. j \in Job /\ TargetOfJob(j) = t
    BY DEF NewestOf
  <2>2. CASE j = i
    <3>1. worker[w].pc = "finish" /\ Mine(w) = t
      BY <1>4, <1>7, <2>1, <2>2 DEF Mine, i
    <3>2. device[t] = worker[w].ver /\ worker[w].ver = job[i].ver
      BY <1>1, <3>1 DEF Tidy, LoopShows, LoopInv, i
    <3>3. QED
      BY <1>7, <2>2, <3>2
  <2>3. CASE j # i
    <3>1. job'[j] = job[j]
      BY <1>7, <2>1, <2>3
    <3>2. RowShows
      BY DEF Tidy
    <3>3. QED
      BY <3>1, <3>2 DEF RowShows
  <2>4. QED
    BY <2>2, <2>3
<1>14. QED
  BY <1>9, <1>11, <1>12, <1>13 DEF Tidy

\* A claim: the row was the only live one of its target.
LEMMA ClaimTidy ==
  ASSUME RaceInv, OneKeyPerTarget, NoProcessLost, Tidy, NEW w \in Worker, Claim(w)
  PROVE  Tidy'
<1> USE JobsAssumption, QueueAssumption
<1>0. /\ TableTypeOK /\ WorkerTypeOK /\ LiveHasKey /\ OneQueuedPerDedupe /\ RowInv
  BY TypeParts DEF IInv, RaceInv, TableInv, Tidy
<1>1. PICK n \in Job : /\ ClaimNextJob(ProcOf[w], n)
                       /\ worker' = [worker EXCEPT ![w] = [pc |-> "begin", job |-> n,
                                                          ver |-> job[n].ver, out |-> "none"]]
  BY DEF Claim
<1>2. UNCHANGED <<req, wanted, eligible, entity, device>> /\ worker[w].pc \in {"idle", "polling"}
  BY DEF Claim, personVars
<1>3. /\ job[n].st = "queued" /\ job[n].key \in Key
      /\ \A j \in Job \ {n} : job[j].st \in Live /\ TargetOfJob(j) = TargetOfJob(n)
                                => job[j].st = "queued"
  BY <1>0, <1>1 DEF ClaimNextJob, Claimable, LiveHasKey
<1>4. \A j \in Job \ {n} : job[j].st \in Live => TargetOfJob(j) # TargetOfJob(n)
  <2> SUFFICES ASSUME NEW j \in Job \ {n}, job[j].st \in Live, TargetOfJob(j) = TargetOfJob(n)
               PROVE  FALSE
    OBVIOUS
  <2>1. job[j].st = "queued" /\ job[j].key \in Key
    BY <1>0, <1>3 DEF LiveHasKey
  <2>2. job[j].key = job[n].key
    BY <1>3, <2>1 DEF OneKeyPerTarget, TargetOfJob
  <2>3. QED
    BY <1>0, <1>3, <2>1, <2>2 DEF OneQueuedPerDedupe
<1>5. /\ job'[n].st = "running" /\ job'[n].key = job[n].key /\ job'[n].ver = job[n].ver
      /\ \A j \in Job \ {n} : job'[j] = job[j]
  <2> DEFINE m == IF job[n].started = 0 THEN claims + 1 ELSE job[n].started
  <2>1. /\ job[n] \in Row /\ \A j \in Job \ {n} : job'[j] = job[j]
        /\ job'[n] = [job[n] EXCEPT !.st = "running", !.by = ProcOf[w], !.fresh = TRUE,
                                    !.attempts = job[n].attempts + 1, !.started = m]
    BY <1>0, <1>1 DEF ClaimNextJob, TableTypeOK
  <2> HIDE DEF m
  <2>2. QED
    BY <2>1 DEF Row
<1>6. /\ worker'[w].pc = "begin" /\ worker'[w].job = n /\ worker'[w].ver = job[n].ver
      /\ \A v \in Worker \ {w} : worker'[v] = worker[v]
  BY <1>0, <1>1 DEF WorkerTypeOK
<1>7. \A j \in Job : TargetOfJob(j)' = TargetOfJob(j) /\ job'[j].key = job[j].key
                     /\ job'[j].ver = job[j].ver
  BY <1>5 DEF TargetOfJob
<1>8. RowInv'
  <2>1. \A j \in Job : job'[j].st = "none" => job'[j].key = None
    BY <1>0, <1>5, <1>7 DEF RowInv
  <2>2. \A i, j \in Job : job'[i].st # "none" /\ job'[j].st = "none" => i < j
    BY <1>0, <1>3, <1>5 DEF RowInv
  <2>3. ASSUME NEW i \in Job, NEW j \in Job, job'[i].st # "none", job'[j].st # "none",
               TargetOfJob(i)' = TargetOfJob(j)'
        PROVE  /\ job'[j].st = "queued" => i <= j
               /\ job'[j].st \in {"running", "done"} /\ i < j => job'[i].st \notin Live
    <3>1. job[i].st # "none" /\ job[j].st # "none" /\ TargetOfJob(i) = TargetOfJob(j)
      BY <1>3, <1>5, <1>7, <2>3
    <3>2. job'[j].st = "queued" => i <= j
      BY <1>0, <1>5, <3>1 DEF RowInv
    <3>3. ASSUME job'[j].st \in {"running", "done"}, i < j
          PROVE  job'[i].st \notin Live
      <4>1. CASE j = n
        <5>1. i # n
          <6>1. n \in Nat
            OBVIOUS
          <6>2. QED
            BY <3>3, <4>1, <6>1
        <5>2. QED
          BY <1>4, <1>5, <3>1, <4>1, <5>1
      <4>2. CASE j # n
        <5>1. job[i].st \notin Live
          BY <1>0, <1>5, <3>1, <3>3, <4>2 DEF RowInv
        <5>2. QED
          BY <1>3, <1>5, <5>1 DEF Live
      <4>3. QED
        BY <4>1, <4>2
    <3>4. QED
      BY <3>2, <3>3
  <2>4. QED
    BY <2>1, <2>2, <2>3 DEF RowInv
<1>9. CallInv'
  <2>1. \A k : QueuedTwins(k)' \subseteq QueuedTwins(k)
    BY <1>5 DEF QueuedTwins
  <2>2. QED
    BY <1>2, <2>1 DEF Tidy, CallInv
<1>10. \A t \in Target : NewestOf(t)' = NewestOf(t) /\ NewestOf(t) \subseteq Job
  BY <1>7, NewestStays DEF NewestOf
<1>11. LastInv'
  BY <1>2, <1>7, <1>10 DEF Tidy, LastInv
<1>12. \A v \in Worker \ {w} : worker[v].pc \in Owning => /\ worker[v].job \in Job \ {n}
                                                          /\ Mine(v)' = Mine(v)
  <2> TAKE v \in Worker \ {w}
  <2> HAVE worker[v].pc \in Owning
  <2>1. worker[v].job \in Job \ {n}
    BY <1>3, LoopsOwn
  <2>2. QED
    BY <1>6, <1>7, <2>1 DEF Mine
<1>13. LoopInv'
  <2>1. ASSUME NEW v \in Worker, worker'[v].pc \in Owning
        PROVE  worker'[v].ver = job'[worker'[v].job].ver
    <3>1. CASE v = w
      BY <1>5, <1>6, <3>1
    <3>2. CASE v # w
      <4>1. worker'[v] = worker[v] /\ worker[v].pc \in Owning
        BY <1>6, <2>1, <3>2
      <4>2. worker[v].job \in Job /\ worker[v].ver = job[worker[v].job].ver
        BY <1>12, <3>2, <4>1 DEF Tidy, LoopInv
      <4>3. QED
        BY <1>7, <4>1, <4>2
    <3>3. QED
      BY <3>1, <3>2
  <2>2. ASSUME NEW j \in Job, job'[j].st = "running"
        PROVE  \E v \in Worker : worker'[v].pc \in Owning /\ worker'[v].job = j
    <3>1. CASE j = n
      BY <1>6, <3>1 DEF Owning, Busy, WorkerPc
    <3>2. CASE j # n
      <4>1. PICK v \in Worker : worker[v].pc \in Owning /\ worker[v].job = j
        BY <1>5, <2>2, <3>2 DEF Tidy, LoopInv
      <4>2. v # w
        BY <1>2, <4>1 DEF Owning, Busy
      <4>3. QED
        BY <1>6, <4>1, <4>2
    <3>3. QED
      BY <3>1, <3>2
  <2>3. QED
    BY <2>1, <2>2 DEF LoopInv
<1>14. LoopShows'
  <2>1. {"persist", "check", "finish"} \subseteq Owning
    BY DEF Owning, Busy, WorkerPc
  <2>2. LoopShows /\ UNCHANGED <<device, entity>>
    BY <1>2 DEF Tidy
  <2>3. ASSUME NEW v \in Worker, worker'[v].pc \in {"persist", "check", "finish"}
        PROVE  worker'[v] = worker[v] /\ Mine(v)' = Mine(v)
    BY <1>6, <1>12, <2>1, <2>3
  <2>4. QED
    BY <2>2, <2>3 DEF LoopShows
<1>15. RowShows'
  <2>1. \A j \in Job : job'[j].st = "done" => job[j].st = "done"
    BY <1>5
  <2>2. \A t \in Target : \A j \in NewestOf(t) :
          job'[j].st = "done" /\ entity[t] = "synced" => device[t] = job'[j].ver
    <3>1. RowShows
      BY DEF Tidy
    <3> TAKE t \in Target
    <3> TAKE j \in NewestOf(t)
    <3>2. j \in Job
      BY <1>10
    <3>3. job'[j].ver = job[j].ver
      BY <1>7, <3>2
    <3> QED
      BY <2>1, <3>1, <3>2, <3>3 DEF RowShows
  <2>3. QED
    BY <1>2, <1>10, <2>2 DEF RowShows
<1>16. QED
  BY <1>2, <1>8, <1>9, <1>11, <1>13, <1>14, <1>15 DEF Tidy

\* A heartbeat changes nothing that is shown.
LEMMA BeatTidy ==
  ASSUME RaceInv, NoProcessLost, Tidy, NEW w \in Worker, Beat(w)
  PROVE  Tidy'
<1>0. TableTypeOK
  BY TypeParts DEF IInv, RaceInv
<1>1. \A j \in Job : job'[j] = job[j] \/ job'[j] = [job[j] EXCEPT !.fresh = TRUE]
  BY <1>0 DEF Beat, HeartbeatJob, TableTypeOK
<1>2. \A j \in Job : job'[j].st = job[j].st /\ job'[j].key = job[j].key /\ job'[j].ver = job[j].ver
  <2> TAKE j \in Job
  <2>1. job[j] \in Row
    BY <1>0 DEF TableTypeOK
  <2>2. QED
    BY <1>1, <2>1 DEF Row
<1>3. UNCHANGED <<worker, req, wanted, eligible, device, entity>>
  BY DEF Beat, procVars, personVars
<1>4. RowsFall
  BY <1>2 DEF RowsFall
<1>5. QED
  BY <1>2, <1>3, <1>4, StillFrame

-----------------------------------------------------------------------------
(* The person and the reader agree. *)

LEMMA InitTidy == Init => Tidy
<1> SUFFICES ASSUME Init PROVE Tidy
  OBVIOUS
<1>1. \A w \in Worker : worker[w].pc = "idle"
  BY DEF Init, Resting
<1>2. \A j \in Job : job[j].st = "none" /\ job[j].key = None
  BY DEF Init, TableInit, NoRow
<1>3. \A r \in Requester : req[r].pc = "idle"
  BY DEF Init, NoRequest
<1>4. \A t \in Target : eligible[t] /\ NewestOf(t) = {}
  BY <1>2 DEF Init, NewestOf
<1>5. RowInv
  BY <1>2 DEF RowInv
<1>6. LoopInv /\ LoopShows
  BY <1>1, <1>2 DEF LoopInv, LoopShows, Owning, Busy
<1>7. CallInv /\ LastInv /\ RowShows
  BY <1>3, <1>4 DEF CallInv, LastInv, RowShows
<1>8. QED
  BY <1>4, <1>5, <1>6, <1>7 DEF Tidy

LEMMA TidyStep ==
  ASSUME OneKeyPerTarget,
         Faults \cap {"stall", "retry", "db", "drop", "withdraw"} = {},
         RaceInv, OneCallPerTarget, NoProcessLost => Tidy, [Next]_vars
  PROVE  (NoProcessLost => Tidy)'
<1> SUFFICES ASSUME NoProcessLost' PROVE Tidy'
  OBVIOUS
<1>0. ProcTypeOK
  BY TypeParts DEF RaceInv, IInv
<1>1. /\ NoProcessLost /\ Tidy
      /\ Processes => \/ \E j \in Job : Expire(j) \/ Stall(j)
                      \/ \E p \in Proc : Reap(p) \/ \E j \in Job : PersistAbandoned(p, j)
  BY <1>0, NobodyLost
<1>2. /\ "stall" \notin Faults /\ "db" \notin Faults /\ "withdraw" \notin Faults
      /\ Faults \cap {"retry", "db", "drop"} = {}
  OBVIOUS
<1>3. CASE Requests
  BY <1>1, <1>2, <1>3, RequestsTidy
<1>4. CASE Processes
  BY <1>1, <1>2, <1>4, ProcessesTidy
<1>5. CASE Administration
  BY <1>1, <1>2, <1>5, AdministrationTidy
<1>6. ASSUME NEW w \in Worker, Claim(w) \/ PollNothing(w) \/ Beat(w) \/ RunJob(w)
      PROVE  Tidy'
  <2>1. CASE Claim(w)
    BY <1>1, <2>1, ClaimTidy
  <2>2. CASE Beat(w)
    BY <1>1, <2>2, BeatTidy
  <2>3. CASE Finish(w) \/ FinishFailed(w)
    BY <1>1, <1>2, <2>3, EndTidy
  <2>4. CASE RunPass(w, "run") \/ RunPass(w, "again")
    BY <1>1, <2>4, PassTidy
  <2>5. CASE \/ PollNothing(w) \/ Persist(w) \/ Settle(w)
             \/ Checkpoint(w, "begin", "run") \/ Checkpoint(w, "check", "finish")
    BY <1>1, <1>2, <2>5, BetweenTidy
  <2>6. QED
    BY <1>6, <2>1, <2>2, <2>3, <2>4, <2>5 DEF RunJob
<1>7. CASE UNCHANGED vars
  <2>1. UNCHANGED <<job, worker, req, wanted, eligible, device, entity>>
    BY <1>7 DEF vars, tableVars, procVars, personVars
  <2>2. QED
    BY <1>1, <2>1, StillFrame DEF RowsFall
<1>8. QED
  BY <1>3, <1>4, <1>5, <1>6, <1>7 DEF Next, Workers

\* When nothing is left to do for a person shown as synced by the last row, the
\* reader holds the last request: a request made while a row waits or runs is
\* never lost, whatever is canceled or deleted.
THEOREM SyncedHoldsLastRequest ==
  ASSUME OneKeyPerTarget,
         Faults \cap {"stall", "retry", "db", "drop", "withdraw"} = {}
  PROVE  Spec /\ []OneCallPerTarget => []SyncedIsCurrent
<1>0. Faults \cap {"stall", "retry"} = {}
  OBVIOUS
<1>1. RaceInv /\ OneCallPerTarget' /\ [Next]_vars => RaceInv'
  BY <1>0, RaceStep
<1>2. RaceInv /\ OneCallPerTarget /\ (NoProcessLost => Tidy) /\ [Next]_vars
        => (NoProcessLost => Tidy)'
  BY TidyStep
<1>3. (NoProcessLost => Tidy) => SyncedIsCurrent
  <2> SUFFICES ASSUME NoProcessLost, Tidy, NEW t \in Target, Quiet(t), entity[t] = "synced",
                      NEW j \in NewestOf(t), job[j].st = "done"
               PROVE  device[t] = wanted[t]
    BY DEF SyncedIsCurrent
  <2>1. job[j].ver = wanted[t]
    BY DEF Tidy, LastInv, Quiet
  <2>2. device[t] = job[j].ver
    BY DEF Tidy, RowShows
  <2>3. QED
    BY <2>1, <2>2
<1>4. Init => (NoProcessLost => Tidy)
  BY InitTidy
<1>5. QED
  BY <1>1, <1>2, <1>3, <1>4, InitRace, PTL DEF Spec
=============================================================================
