--------------------------- MODULE DeviceSyncQueue ---------------------------
(***************************************************************************)
(* The people who ask for a sync, the loops of the worker, the reaper, the *)
(* shutdown of a process and the administration of the queue, all sharing  *)
(* the job table of DeviceSyncJobs.  Jobs are of kind `face.person`, the   *)
(* only kind whose end is written back on a person (`entity`).             *)
(*                                                                         *)
(* Each action is the code between two awaits: at most one statement.      *)
(***************************************************************************)
EXTENDS DeviceSyncJobs, FiniteSets

CONSTANTS
  Worker,       \* loops of the workers
  ProcOf,       \* the process a loop runs in
  Requester,    \* concurrent HTTP requests or listeners that enqueue
  MaxRequests,  \* bound: requests per target
  Reconciled,   \* the plain dedupe keys of registrations: those of the timer
  Faults        \* what the environment may do in this instance

FaultKinds == {"crash", "stop", "stall", "cancel", "clear", "retry", "withdraw", "db", "drop",
               "drop_admin"}

ASSUME QueueAssumption ==
  /\ ProcOf \in [Worker -> Proc]
  /\ MaxRequests \in Nat
  /\ Reconciled \subseteq Key
  /\ Faults \subseteq FaultKinds

VARIABLES
  proc,         \* life of each process
  worker,       \* local state of each loop
  abandoned,    \* per process: rows maintain() ended and has yet to persist
  req,          \* local state of each enqueue call
  admin,        \* local state of the administrator's call
  wanted,       \* number of the last request made for a target
  entity,       \* device_sync_status of the person a target stands for
  eligible,     \* the person is still active with the same face
  device        \* request whose state the reader holds

procVars   == <<proc, worker, abandoned>>
personVars == <<wanted, entity, eligible, device>>
vars == <<tableVars, procVars, req, admin, personVars>>

WorkerPc == {"idle", "polling", "exited", "begin", "run", "again", "persist",
             "check", "finish", "end", "settle"}
Busy     == WorkerPc \ {"idle", "polling", "exited"}
Outcome  == {"none", "synced", "sync_failed", "canceled"}

WorkerState == [pc : WorkerPc, job : Job \cup {None}, ver : Nat, out : Outcome]
Resting(pc) == [pc |-> pc, job |-> None, ver |-> 0, out |-> "none"]

RequestPc    == {"idle", "listed", "find", "merge", "insert", "refind", "remerge"}
RequestState == [pc : RequestPc, key : Key \cup {None}, ver : Nat, job : Job \cup {None}]
NoRequest    == [pc |-> "idle", key |-> None, ver |-> 0, job |-> None]

AdminState == [pc : {"idle", "queued", "running", "persist"}, job : Job \cup {None},
               todo : SUBSET Job]
NoAdmin    == [pc |-> "idle", job |-> None, todo |-> {}]

Alive    == {"up", "draining", "released"}
LifeOf(w) == proc[ProcOf[w]]
WorkersOf(p) == {w \in Worker : ProcOf[w] = p}

TypeOK ==
  /\ job \in [Job -> Row]
  /\ claims \in Nat
  /\ proc \in [Proc -> Alive \cup {"down"}]
  /\ worker \in [Worker -> WorkerState]
  /\ \A w \in Worker :
       /\ worker[w].pc \in Busy => worker[w].job \in Job
       /\ worker[w].pc = "persist" => worker[w].out \in {"synced", "sync_failed"}
  /\ abandoned \in [Proc -> SUBSET Job]
  /\ req \in [Requester -> RequestState]
  /\ \A r \in Requester : /\ req[r].pc # "idle" => req[r].key \in Key
                          /\ req[r].pc \in {"merge", "remerge"} => req[r].job \in Job
  /\ admin \in AdminState
  /\ admin.pc \in {"queued", "running"} => admin.job \in Job
  /\ wanted \in [Target -> Nat]
  /\ entity \in [Target -> {"none", "pending_sync", "synced", "sync_failed"}]
  /\ eligible \in [Target -> BOOLEAN]
  /\ device \in [Target -> Nat]

Init ==
  /\ TableInit
  /\ proc = [p \in Proc |-> "up"]
  /\ worker = [w \in Worker |-> Resting("idle")]
  /\ abandoned = [p \in Proc |-> {}]
  /\ req = [r \in Requester |-> NoRequest]
  /\ admin = NoAdmin
  /\ wanted = [t \in Target |-> 0]
  /\ entity = [t \in Target |-> "none"]
  /\ eligible = [t \in Target |-> TRUE]
  /\ device = [t \in Target |-> 0]

\* persistFacePerson: the status of the person, whoever writes it.
PersistPerson(t, status) == entity' = [entity EXCEPT ![t] = status]

-----------------------------------------------------------------------------
(* Enqueue: DeviceSyncQueueService.enqueue and its callers. *)

\* Bound: a call starts only if the table has a row left for each call in flight.
RowLeft == Cardinality({q \in Requester : req[q].pc # "idle"})
             < Cardinality({j \in Job : job[j].st = "none"})

\* The caller marks the person as pending and captures its present state.
Ask(r, k) ==
  LET t == TargetOf[k] IN
  /\ req[r].pc = "idle" /\ RowLeft
  /\ wanted[t] < MaxRequests
  /\ wanted' = [wanted EXCEPT ![t] = @ + 1]
  /\ PersistPerson(t, "pending_sync")
  /\ req' = [req EXCEPT ![r] = [pc |-> "find", key |-> k, ver |-> wanted[t] + 1, job |-> None]]
  /\ UNCHANGED <<tableVars, procVars, admin, eligible, device>>

\* Reprocess a failed or canceled job: its own payload goes in again.
Retry(r, j) ==
  /\ "retry" \in Faults
  /\ req[r].pc = "idle" /\ RowLeft
  /\ job[j].st \in {"failed", "canceled"}
  /\ req' = [req EXCEPT ![r] = [pc |-> "find", key |-> job[j].key, ver |-> job[j].ver,
                                job |-> None]]
  /\ UNCHANGED <<tableVars, procVars, admin, personVars>>

\* The persons who are registrations; members, students and guests have no timer.
Registrations == {TargetOf[k] : k \in Reconciled}

\* Mutant: the timer is for what failed, not for what is pending.
ListedFailures(k) == eligible[TargetOf[k]] /\ entity[TargetOf[k]] = "sync_failed"

\* listApprovedRegistrationsPendingDeviceSync, for the clients that have someone
\* pending.  A `synced` registration is listed too if a reader of it failed.
Listed(k) ==
  /\ eligible[TargetOf[k]]
  /\ \E t \in Registrations : eligible[t] /\ entity[t] = "pending_sync"

\* FaceSyncListener.reconcilePending, at boot and every RECONCILE_INTERVAL_MS:
\* the list is read first, its registrations are asked for one after another.
ReconcileReads(r, k) ==
  /\ k \in Reconciled
  /\ req[r].pc = "idle" /\ RowLeft
  /\ Listed(k)
  /\ req' = [req EXCEPT ![r] = [NoRequest EXCEPT !.pc = "listed", !.key = k]]
  /\ UNCHANGED <<tableVars, procVars, admin, personVars>>

\* enqueueApprovedRegistrationJob reads the person again, who may have left.
ReconcileAsks(r) ==
  LET t == TargetOf[req[r].key] IN
  /\ req[r].pc = "listed"
  /\ \/ /\ eligible[t]
        /\ PersistPerson(t, "pending_sync")
        /\ req' = [req EXCEPT ![r].pc = "find", ![r].ver = wanted[t]]
     \/ /\ ~eligible[t]
        /\ req' = [req EXCEPT ![r] = NoRequest]
        /\ UNCHANGED entity
  /\ UNCHANGED <<tableVars, procVars, admin, wanted, eligible, device>>

\* Mutant: a running twin answers the request, as if it were still queued.
FindActiveOrRunning(r) ==
  /\ req[r].pc = "find"
  /\ \/ \E j \in QueuedTwins(req[r].key) :
          req' = [req EXCEPT ![r].pc = "merge", ![r].job = j]
     \/ /\ QueuedTwins(req[r].key) = {}
        /\ req' = [req EXCEPT ![r] = IF RunningTwins(req[r].key) # {} THEN NoRequest
                                     ELSE [@ EXCEPT !.pc = "insert"]]
  /\ UNCHANGED <<tableVars, procVars, admin, personVars>>

\* findActiveJobByDedupe, first time: a queued twin is merged, else insert.
FindActive(r) ==
  /\ req[r].pc = "find"
  /\ \/ \E j \in QueuedTwins(req[r].key) :
          req' = [req EXCEPT ![r].pc = "merge", ![r].job = j]
     \/ /\ QueuedTwins(req[r].key) = {}
        /\ req' = [req EXCEPT ![r].pc = "insert"]
  /\ UNCHANGED <<tableVars, procVars, admin, personVars>>

MergeQueued(r) ==
  /\ req[r].pc = "merge"
  /\ \/ /\ UpdateQueuedJobPayload(req[r].job, req[r].ver)
        /\ req' = [req EXCEPT ![r] = NoRequest]
     \/ /\ job[req[r].job].st # "queued"        \* claimed or canceled meanwhile
        /\ req' = [req EXCEPT ![r].pc = "insert", ![r].job = None]
        /\ UNCHANGED tableVars
  /\ UNCHANGED <<procVars, admin, personVars>>

InsertOrCatch(r) ==
  /\ req[r].pc = "insert"
  /\ \/ /\ \E j \in Job : InsertJob(j, req[r].key, req[r].ver)
        /\ req' = [req EXCEPT ![r] = NoRequest]
     \/ /\ \/ QueuedTwins(req[r].key) # {}      \* unique violation
           \/ "db" \in Faults
        /\ req' = [req EXCEPT ![r].pc = "refind"]
        /\ UNCHANGED tableVars
  /\ UNCHANGED <<procVars, admin, personVars>>

\* The catch: look again; a running twin answers the request, nothing throws.
FindRaced(r) ==
  LET k == req[r].key IN
  /\ req[r].pc = "refind"
  /\ \/ \E j \in QueuedTwins(k) :
          /\ req' = [req EXCEPT ![r].pc = "remerge", ![r].job = j]
          /\ UNCHANGED entity
     \/ /\ QueuedTwins(k) = {}
        /\ req' = [req EXCEPT ![r] = NoRequest]
        /\ IF RunningTwins(k) # {} THEN UNCHANGED entity
           ELSE PersistPerson(TargetOf[k], "sync_failed")
  /\ UNCHANGED <<tableVars, procVars, admin, wanted, eligible, device>>

MergeRaced(r) ==
  /\ req[r].pc = "remerge"
  /\ \/ UpdateQueuedJobPayload(req[r].job, req[r].ver)
     \/ job[req[r].job].st # "queued" /\ UNCHANGED tableVars
  /\ req' = [req EXCEPT ![r] = NoRequest]
  /\ UNCHANGED <<procVars, admin, personVars>>

\* The process that serves the call dies.
DropRequest(r) ==
  /\ "drop" \in Faults
  /\ req[r].pc # "idle"
  /\ req' = [req EXCEPT ![r] = NoRequest]
  /\ UNCHANGED <<tableVars, procVars, admin, personVars>>

Request(r) ==
  \/ ReconcileAsks(r)
  \/ FindActive(r) \/ MergeQueued(r) \/ InsertOrCatch(r) \/ FindRaced(r) \/ MergeRaced(r)

-----------------------------------------------------------------------------
(* The loops of the worker: DeviceSyncWorkerService.loop and runJob. *)

\* What a loop does when its job is over: poll again, or leave while stopping.
AfterJob(w) == IF LifeOf(w) = "up" THEN Resting("idle") ELSE Resting("exited")

Claim(w) ==
  /\ \/ worker[w].pc = "idle" /\ LifeOf(w) = "up"
     \/ worker[w].pc = "polling" /\ LifeOf(w) \in Alive
  /\ \E j \in Job :
       /\ ClaimNextJob(ProcOf[w], j)
       /\ worker' = [worker EXCEPT ![w] = [pc |-> "begin", job |-> j, ver |-> job[j].ver,
                                           out |-> "none"]]
  /\ UNCHANGED <<proc, abandoned, req, admin, personVars>>

\* The poll that was in flight at the shutdown finds nothing.
PollNothing(w) ==
  /\ worker[w].pc = "polling" /\ LifeOf(w) \in Alive
  /\ \A j \in Job : ~Claimable(j)
  /\ worker' = [worker EXCEPT ![w] = Resting("exited")]
  /\ UNCHANGED <<tableVars, proc, abandoned, req, admin, personVars>>

Beat(w) ==
  /\ worker[w].pc \in Busy /\ LifeOf(w) \in Alive
  /\ ~job[worker[w].job].fresh
  /\ HeartbeatJob(ProcOf[w], worker[w].job)
  /\ UNCHANGED <<procVars, req, admin, personVars>>

At(w, pc) == worker[w].pc = pc /\ LifeOf(w) \in Alive
GoTo(w, pc, out) == worker' = [worker EXCEPT ![w].pc = pc, ![w].out = out]

\* Both checkpoints: a cancel request throws JobCanceledError.
Checkpoint(w, pc, next) ==
  /\ At(w, pc)
  /\ IF job[worker[w].job].cancel THEN GoTo(w, "end", "canceled")
     ELSE GoTo(w, next, worker[w].out)
  /\ UNCHANGED <<tableVars, proc, abandoned, req, admin, personVars>>

\* runFacePerson up to the outcome of a pass over the readers.  A person who
\* left, or whose approval is pending, is skipped and nothing is persisted; a
\* transient failure earns one more pass.
RunPass(w, pc) ==
  LET t == TargetOfJob(worker[w].job) IN
  /\ At(w, pc)
  /\ \/ /\ ~eligible[t]
        /\ GoTo(w, "check", "none")
        /\ UNCHANGED device
     \/ /\ eligible[t]
        /\ GoTo(w, "end", "sync_failed")            \* the handler throws
        /\ UNCHANGED device
     \/ /\ eligible[t]
        /\ GoTo(w, "persist", "synced")
        /\ device' = [device EXCEPT ![t] = worker[w].ver]
     \/ /\ eligible[t]
        /\ \/ pc = "run" /\ GoTo(w, "again", "none")
           \/ GoTo(w, "persist", "sync_failed")
        /\ \/ UNCHANGED device
           \/ device' = [device EXCEPT ![t] = worker[w].ver]
  /\ UNCHANGED <<tableVars, proc, abandoned, req, admin, wanted, entity, eligible>>

Persist(w) ==
  /\ At(w, "persist")
  /\ \/ /\ PersistPerson(TargetOfJob(worker[w].job), worker[w].out)
        /\ GoTo(w, "check", worker[w].out)
     \/ /\ "db" \in Faults
        /\ GoTo(w, "end", "sync_failed")
        /\ UNCHANGED entity
  /\ UNCHANGED <<tableVars, proc, abandoned, req, admin, wanted, eligible, device>>

\* finish(done): the answer of the statement is ignored.
Finish(w) ==
  /\ At(w, "finish")
  /\ \/ /\ \/ FinishJob(ProcOf[w], worker[w].job, "done", "none")
           \/ ~Owned(ProcOf[w], worker[w].job) /\ UNCHANGED tableVars
        /\ worker' = [worker EXCEPT ![w] = AfterJob(w)]
     \/ /\ "db" \in Faults
        /\ GoTo(w, "end", "sync_failed")
        /\ UNCHANGED tableVars
  /\ UNCHANGED <<proc, abandoned, req, admin, personVars>>

\* The catch of runJob: finish(failed | canceled), and persist only if owned.
FinishFailed(w) ==
  LET status == IF worker[w].out = "canceled" THEN "canceled" ELSE "failed"
      error  == IF worker[w].out = "canceled" THEN "canceled" ELSE "error"
  IN
  /\ At(w, "end")
  /\ \/ /\ FinishJob(ProcOf[w], worker[w].job, status, error)
        /\ GoTo(w, "settle", worker[w].out)
     \/ /\ \/ ~Owned(ProcOf[w], worker[w].job)
           \/ "db" \in Faults
        /\ worker' = [worker EXCEPT ![w] = AfterJob(w)]
        /\ UNCHANGED tableVars
  /\ UNCHANGED <<proc, abandoned, req, admin, personVars>>

\* persistFailedFacePerson: its own failure is logged and forgotten.
Settle(w) ==
  /\ At(w, "settle")
  /\ \/ PersistPerson(TargetOfJob(worker[w].job), "sync_failed")
     \/ "db" \in Faults /\ UNCHANGED entity
  /\ worker' = [worker EXCEPT ![w] = AfterJob(w)]
  /\ UNCHANGED <<tableVars, proc, abandoned, req, admin, wanted, eligible, device>>

RunJob(w) ==
  \/ Checkpoint(w, "begin", "run")
  \/ RunPass(w, "run") \/ RunPass(w, "again")
  \/ Persist(w)
  \/ Checkpoint(w, "check", "finish")
  \/ Finish(w) \/ FinishFailed(w) \/ Settle(w)

-----------------------------------------------------------------------------
(* Leases, the reaper, shutdown and crash. *)

\* A live loop of the owner is executing the job, so its timer beats.
Beating(j) ==
  \E w \in Worker : /\ worker[w].job = j
                    /\ worker[w].pc \in Busy
                    /\ LifeOf(w) \in Alive
                    /\ Owned(ProcOf[w], j)

Expire(j) ==
  /\ ~Beating(j)
  /\ LeaseExpires(j)
  /\ UNCHANGED <<procVars, req, admin, personVars>>

\* The owner lives but its heartbeats do not arrive for STALE_AFTER_SEC.
Stall(j) ==
  /\ "stall" \in Faults
  /\ Beating(j)
  /\ LeaseExpires(j)
  /\ UNCHANGED <<procVars, req, admin, personVars>>

\* maintain(): recover the stale rows, remember those that ended for good.
Reap(p) ==
  /\ proc[p] = "up"
  /\ abandoned[p] = {}
  /\ RecoverRunningJobs(StaleRunning, FALSE)
  /\ abandoned' = [abandoned EXCEPT ![p] = {j \in StaleRunning : job'[j].st # "queued"}]
  /\ UNCHANGED <<proc, worker, req, admin, personVars>>

\* Mutant: only failed rows are persisted after the recovery.
PersistAbandonedFailures(p, j) ==
  /\ proc[p] \in Alive
  /\ j \in abandoned[p]
  /\ abandoned' = [abandoned EXCEPT ![p] = @ \ {j}]
  /\ IF job[j].st # "failed" \/ job[j].err = "superseded" THEN UNCHANGED entity
     ELSE PersistPerson(TargetOfJob(j), "sync_failed")
  /\ UNCHANGED <<tableVars, proc, worker, req, admin, wanted, eligible, device>>

\* persistAbandoned: rows are read again; superseded and deleted ones are left.
PersistAbandoned(p, j) ==
  /\ proc[p] \in Alive
  /\ j \in abandoned[p]
  /\ abandoned' = [abandoned EXCEPT ![p] = @ \ {j}]
  /\ IF job[j].st = "gone" \/ job[j].err = "superseded" THEN UNCHANGED entity
     ELSE PersistPerson(TargetOfJob(j), "sync_failed")
  /\ UNCHANGED <<tableVars, proc, worker, req, admin, wanted, eligible, device>>

SomeoneElseUp(p) == \E q \in Proc \ {p} : proc[q] = "up"

\* SIGTERM: a waiting loop either sees it or has a poll in flight.
Stop(p) ==
  /\ "stop" \in Faults
  /\ proc[p] = "up" /\ SomeoneElseUp(p)
  /\ proc' = [proc EXCEPT ![p] = "draining"]
  /\ \E polling \in SUBSET {w \in WorkersOf(p) : worker[w].pc = "idle"} :
       worker' = [w \in Worker |->
                    IF w \in polling THEN Resting("polling")
                    ELSE IF w \in WorkersOf(p) /\ worker[w].pc = "idle"
                    THEN Resting("exited") ELSE worker[w]]
  /\ UNCHANGED <<tableVars, abandoned, req, admin, personVars>>

\* The memory of a process that ends is lost, whatever its loops were doing.
Vanish(p) ==
  /\ proc' = [proc EXCEPT ![p] = "down"]
  /\ worker' = [w \in Worker |-> IF w \in WorkersOf(p) THEN Resting("exited") ELSE worker[w]]
  /\ abandoned' = [abandoned EXCEPT ![p] = {}]
  /\ UNCHANGED <<tableVars, req, admin, personVars>>

Drained(p) ==
  /\ proc[p] = "draining"
  /\ \A w \in WorkersOf(p) : worker[w].pc = "exited"
  /\ Vanish(p)

\* SHUTDOWN_GRACE_MS are over: the jobs of this worker id go back to the queue.
GraceOver(p) ==
  /\ proc[p] = "draining"
  /\ \E w \in WorkersOf(p) : worker[w].pc # "exited"
  /\ RecoverRunningJobs(RunningOf(p), TRUE)
  /\ proc' = [proc EXCEPT ![p] = "released"]
  /\ UNCHANGED <<worker, abandoned, req, admin, personVars>>

\* Until the process is gone its loops keep running.
Exit(p) == proc[p] = "released" /\ Vanish(p)

Crash(p) ==
  /\ "crash" \in Faults
  /\ proc[p] \in Alive /\ SomeoneElseUp(p)
  /\ Vanish(p)

-----------------------------------------------------------------------------
(* Administration of the queue: DeviceSyncAdminService. *)

\* cancel(): the row is read before any statement is chosen.
CancelRead(j) ==
  /\ "cancel" \in Faults
  /\ admin.pc = "idle"
  /\ job[j].st \notin {"none", "gone"}
  /\ admin' = [NoAdmin EXCEPT !.pc = IF job[j].st = "queued" THEN "queued" ELSE "running",
                              !.job = j]
  /\ UNCHANGED <<tableVars, procVars, req, personVars>>

CancelOne ==
  /\ admin.pc = "queued"
  /\ CancelQueuedJobs({admin.job})
  /\ admin' = IF job[admin.job].st = "queued"
              THEN [admin EXCEPT !.pc = "persist", !.todo = {admin.job}]
              ELSE [admin EXCEPT !.pc = "running"]
  /\ UNCHANGED <<procVars, req, personVars>>

CancelRunning ==
  /\ admin.pc = "running"
  /\ \/ RequestCancelRunningJob(admin.job)
     \/ job[admin.job].st # "running" /\ UNCHANGED tableVars   \* 'ja terminou'
  /\ admin' = NoAdmin
  /\ UNCHANGED <<procVars, req, personVars>>

CancelQueued ==
  LET queued == {j \in Job : job[j].st = "queued"} IN
  /\ "cancel" \in Faults
  /\ admin.pc = "idle"
  /\ queued # {}
  /\ CancelQueuedJobs(queued)
  /\ admin' = [NoAdmin EXCEPT !.pc = "persist", !.todo = queued]
  /\ UNCHANGED <<procVars, req, personVars>>

PersistCanceled(j) ==
  /\ admin.pc = "persist"
  /\ j \in admin.todo
  /\ PersistPerson(TargetOfJob(j), "sync_failed")
  /\ admin' = IF admin.todo = {j} THEN NoAdmin ELSE [admin EXCEPT !.todo = @ \ {j}]
  /\ UNCHANGED <<tableVars, procVars, req, wanted, eligible, device>>

DropAdmin ==
  /\ "drop_admin" \in Faults
  /\ admin.pc # "idle"
  /\ admin' = NoAdmin
  /\ UNCHANGED <<tableVars, procVars, req, personVars>>

\* clearFailed() removes the failures; retention removes what ended long ago.
ClearFailed ==
  /\ "clear" \in Faults
  /\ \E j \in Job : job[j].st = "failed"
  /\ DeleteJobs({j \in Job : job[j].st = "failed"})
  /\ UNCHANGED <<procVars, req, admin, personVars>>

Purge(j) ==
  /\ "clear" \in Faults
  /\ job[j].st \in Ended
  /\ DeleteJobs({j})
  /\ UNCHANGED <<procVars, req, admin, personVars>>

Withdraw(t) ==
  /\ "withdraw" \in Faults
  /\ eligible[t]
  /\ eligible' = [eligible EXCEPT ![t] = FALSE]
  /\ UNCHANGED <<tableVars, procVars, req, admin, wanted, entity, device>>

-----------------------------------------------------------------------------

Requests == \E r \in Requester :
  \/ \E k \in Key : Ask(r, k) \/ ReconcileReads(r, k)
  \/ \E j \in Job : Retry(r, j)
  \/ Request(r)
  \/ DropRequest(r)

Workers == \E w \in Worker : Claim(w) \/ PollNothing(w) \/ Beat(w) \/ RunJob(w)

Processes ==
  \/ \E j \in Job : Expire(j) \/ Stall(j)
  \/ \E p \in Proc :
       \/ Reap(p) \/ Stop(p) \/ Drained(p) \/ GraceOver(p) \/ Exit(p) \/ Crash(p)
       \/ \E j \in Job : PersistAbandoned(p, j)

Administration ==
  \/ \E j \in Job : CancelRead(j) \/ PersistCanceled(j) \/ Purge(j)
  \/ CancelOne \/ CancelRunning \/ CancelQueued \/ DropAdmin \/ ClearFailed
  \/ \E t \in Target : Withdraw(t)

Next == Requests \/ Workers \/ Processes \/ Administration

Spec == Init /\ [][Next]_vars

\* What keeps going: calls that were accepted, loops that poll and run their
\* job, the passing of time, the maintenance timer and the shutdown's clock.
Fairness ==
  /\ \A r \in Requester : WF_vars(Request(r))
  /\ \A w \in Worker : WF_vars(Claim(w) \/ PollNothing(w) \/ RunJob(w))
  /\ \A j \in Job : WF_vars(Expire(j))
  /\ \A p \in Proc : /\ WF_vars(Reap(p))
                     /\ WF_vars(Drained(p) \/ GraceOver(p) \/ Exit(p))
                     /\ \A j \in Job : WF_vars(PersistAbandoned(p, j))
  /\ WF_vars(CancelOne \/ CancelRunning \/ \E j \in Job : PersistCanceled(j))

FairSpec == Spec /\ Fairness

\* The timer comes round for a registration that stays pending, and the process
\* that serves a call does not die every time.
TimerFairness ==
  /\ \A k \in Reconciled :
       WF_vars(\E r \in Requester :
                 entity[TargetOf[k]] = "pending_sync" /\ ReconcileReads(r, k))
  /\ <>[][\A r \in Requester : ~DropRequest(r)]_vars

TimerSpec == FairSpec /\ TimerFairness

-----------------------------------------------------------------------------
(* Safety of the table. *)

\* recoverRunningJobs puts rows back without looking at the unique index while
\* enqueue inserts beside it: two queued rows of one dedupe key would make the
\* whole UPDATE of the reaper fail, and every abandoned job with it.
OneQueuedPerDedupe ==
  \A i, j \in Job : job[i].st = "queued" /\ job[j].st = "queued" /\ job[i].key = job[j].key
                      => i = j

\* Whatever loops claim, crash, stall and are recovered, a kind and target never
\* have two running rows (claimNextDeviceSyncJob).
OneRunningPerTarget ==
  \A i, j \in Job : /\ job[i].st = "running" /\ job[j].st = "running"
                    /\ TargetOfJob(i) = TargetOfJob(j)
                    => i = j

\* A row that waits can be run to its end: no lease is left on it, no cancel
\* request is pending (it would cancel a run nobody asked to cancel) and an
\* attempt is left (recoverRunningJobs refunds, ends or requeues).
QueuedIsRunnable ==
  \A j \in Job : job[j].st = "queued" =>
    job[j].by = None /\ ~job[j].cancel /\ job[j].attempts < MaxAttempts

\* An ended row never runs again: neither a late finish, a late cancel, a merge
\* nor the reaper brings it back; a retry is another row.
EndedIsFinal ==
  [][\A j \in Job : job[j].st \in Ended => job'[j].st \in {job[j].st, "gone"}]_vars

\* Ending a row as superseded is silent for the person, so the row that replaces
\* it is really there: its dedupe key still waits in the queue.
SupersededHasSuccessor ==
  [][\A j \in Job : job'[j].err = "superseded" /\ job[j].err # "superseded"
       => \E i \in Job : job'[i].st = "queued" /\ job'[i].key = job[j].key]_vars

-----------------------------------------------------------------------------
(* The person and the reader. *)

\* What can still write the outcome of a pending person: an enqueue that has
\* not met its queued twin (the timer's own included), a job that waits, a run
\* that has not persisted yet, a failure about to be persisted by the loop, the
\* reaper or the administrator.
WillSettle(t) ==
  \/ \E r \in Requester : /\ req[r].pc \in {"listed", "find", "merge", "insert"}
                          /\ TargetOf[req[r].key] = t
  \/ \E j \in Job : job[j].st \in Live /\ TargetOfJob(j) = t
  \/ \E w \in Worker : worker[w].pc = "settle" /\ TargetOfJob(worker[w].job) = t
  \/ \E p \in Proc : \E j \in abandoned[p] : job[j].err # "superseded" /\ TargetOfJob(j) = t
  \/ \E j \in admin.todo : TargetOfJob(j) = t

\* 'Cadastro nao pode ficar "pendente" para sempre': a pending person always
\* has something left that will settle it, the timer of registrations included.
PendingWillSettle ==
  \A t \in Target : entity[t] = "pending_sync" /\ eligible[t]
                       => WillSettle(t) \/ t \in Registrations

\* Nobody is working for the target.
Quiet(t) ==
  /\ ~WillSettle(t)
  /\ \A r \in Requester : req[r].pc # "idle" => TargetOf[req[r].key] # t
  /\ \A w \in Worker : worker[w].pc \in Busy => TargetOfJob(worker[w].job) # t

NoProcessLost == \A p \in Proc : proc[p] = "up"

\* The last row made for a target, if any.
NewestOf(t) ==
  {j \in Job : /\ job[j].key # None /\ TargetOfJob(j) = t
               /\ \A i \in Job : job[i].key # None /\ TargetOfJob(i) = t => i <= j}

\* When the dust settles, a person shown as synced by its last job has its last
\* requested state in the reader: enqueueing while a job waits or runs never
\* loses the newer request.
SyncedIsCurrent ==
  NoProcessLost =>
    \A t \in Target :
      /\ Quiet(t) /\ entity[t] = "synced"
      /\ \E j \in NewestOf(t) : job[j].st = "done"
      => device[t] = wanted[t]

\* An older state never overwrites a newer one in the reader: the runs of a
\* target follow each other in the order of their requests, crashes included,
\* except while a process that gave its jobs back has not yet exited.
DeviceNeverGoesBack ==
  [][(\A p \in Proc : proc[p] # "released")
       => \A t \in Target : device'[t] >= device[t]]_vars

-----------------------------------------------------------------------------
(* Liveness. *)

\* Every job that was accepted ends, through crashes, stalls and shutdowns.
EveryJobEnds == \A j \in Job : job[j].st \in Live ~> job[j].st \in Ended \cup {"gone"}

\* A pending person is told an outcome.
PendingIsSettled ==
  \A t \in Target : entity[t] = "pending_sync" /\ eligible[t]
                      ~> entity[t] # "pending_sync" \/ ~eligible[t]

\* A pending registration is told an outcome even when the process that owed it
\* one died, its call was dropped or its last write failed: the timer asks again,
\* as long as the table of the instance has a row left.
RegistrationIsSettled ==
  \A t \in Registrations : entity[t] = "pending_sync" /\ eligible[t]
                              ~> \/ entity[t] # "pending_sync" \/ ~eligible[t]
                                 \/ \A j \in Job : job[j].st # "none"
=============================================================================
