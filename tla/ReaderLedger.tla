---------------------------- MODULE ReaderLedger ----------------------------
(***************************************************************************)
(* What one reader holds and what `person_reader_sync` says it holds, with *)
(* everyone who changes either: the jobs that sync a person, the job that  *)
(* rebuilds the reader and removes the people its age policy excludes, the *)
(* listener that asks for that job every day, the operators who edit the   *)
(* policy, force a rebuild or wipe the reader, and crashes.                *)
(*                                                                         *)
(* The job table is the part of DeviceSyncQueue a handler can see: jobs of *)
(* one reader run one by one in the order of their rows, as do the jobs of *)
(* one person; a job whose process dies is queued again.  The access of a  *)
(* face that needs consent is in FaceAccess: here everybody is consented.  *)
(***************************************************************************)
EXTENDS Naturals, Sequences

CONSTANTS
  Person,     \* people with a face and a photo
  Rekeyed,    \* those whose every photo has a key of its own (registrations)
  MaxEvents,  \* bound: changes made by people, failures and crashes
  Races,      \* what else may happen, see each name where it is used
  None

Rebuild   == "rebuild"
Actor     == Person \cup {Rebuild}
Race      == {"policy", "photo", "birth", "empty", "resync", "crash", "seed"}

ASSUME LedgerAssumption ==
  /\ Rekeyed \subseteq Person
  /\ MaxEvents \in Nat
  /\ Races \subseteq Race
  /\ Rebuild \notin Person /\ None \notin Actor /\ None \notin Nat

VARIABLES
  reader,     \* facial_readers: active, minimum age, version and state of the policy
  minor,      \* the person is below the minimum age, or has no readable birth date
  photo,      \* number of the person's photo
  summary,    \* device_sync_status of the person
  device,     \* the photo the reader holds of the person, or None
  rows,       \* people with a row 'synced' in person_reader_sync
  asked,      \* payload of the queued face.person job of the person, or None
  jobs,       \* queued face.reader jobs, oldest first
  rebuild,    \* local state of the face.reader job that runs
  sync,       \* local state of the sync each job runs
  desk,       \* request of an operator between two of its awaits
  tick,       \* version the listener has read and not yet asked for
  lost,       \* the reader was emptied and the ledger does not know it
  corrected,  \* turned into minors by a correction and not taken off since
  events      \* changes, failures and crashes so far

people   == <<minor, photo, summary>>
ledger   == <<device, rows>>
queue    == <<asked, jobs>>
office   == <<desk, tick>>
ghosts   == <<lost, corrected>>
vars == <<reader, people, ledger, queue, rebuild, sync, office, ghosts, events>>

JobRow == [ver : Nat \cup {None}, force : BOOLEAN, begun : BOOLEAN]
NoJob  == [ver |-> None, force |-> FALSE, begun |-> FALSE]
Nobody == [p \in Person |-> None]

Quiet == [pc |-> "idle", job |-> NoJob, todo |-> {}, bad |-> FALSE,
          list |-> Nobody, who |-> None]
Idle  == [pc |-> "idle", photo |-> None, reset |-> FALSE, again |-> FALSE, out |-> "ok"]
AtDesk(at, ver, force) == [at |-> at, ver |-> ver, force |-> force]
NoDesk == AtDesk("none", None, FALSE)

Policy    == {"applied", "pending", "failed"}
ReaderRow == [active : BOOLEAN, limit : BOOLEAN, ver : Nat, st : Policy, today : BOOLEAN]
Request   == [photo : Nat, reset : BOOLEAN]
RebuildPc == {"idle", "purge", "removing", "forgetting", "reset", "list", "next",
              "syncing", "failing"}
RebuildState ==
  [pc : RebuildPc, job : JobRow, todo : SUBSET Person, bad : BOOLEAN,
   list : [Person -> Nat \cup {None}], who : Person \cup {None}]
SyncPc    == {"idle", "read", "remove", "forget", "reset", "plan", "write", "record", "end"}
Outcome   == {"ok", "failed", "nobody"}
SyncState ==
  [pc : SyncPc, photo : Nat \cup {None}, reset : BOOLEAN, again : BOOLEAN, out : Outcome]
DeskAt    == {"none", "enqueue", "rebuild", "wipe"}
DeskState == [at : DeskAt, ver : Nat \cup {None}, force : BOOLEAN]
Summary   == {"pending", "synced", "sync_failed"}

TypeOK ==
  /\ reader \in ReaderRow
  /\ minor \in [Person -> BOOLEAN] /\ photo \in [Person -> Nat]
  /\ summary \in [Person -> Summary]
  /\ device \in [Person -> Nat \cup {None}] /\ rows \in SUBSET Person
  /\ asked \in [Person -> Request \cup {None}] /\ jobs \in Seq(JobRow)
  /\ rebuild \in RebuildState /\ sync \in [Actor -> SyncState]
  /\ desk \in DeskState /\ tick \in Nat \cup {None}
  /\ lost \in BOOLEAN /\ corrected \in SUBSET Person
  /\ events \in 0 .. MaxEvents

\* A reader in use that never had an age policy, or a new one created with it.
Init ==
  /\ \/ reader = [active |-> TRUE, limit |-> FALSE, ver |-> 0, st |-> "applied",
                  today |-> TRUE]
     \/ reader = [active |-> TRUE, limit |-> TRUE, ver |-> 1, st |-> "pending",
                  today |-> FALSE]
  /\ minor \in [Person -> BOOLEAN]
  /\ photo = [p \in Person |-> 0]
  /\ rows \in SUBSET Person /\ (reader.limit => rows = {})
  /\ device = [p \in Person |-> IF p \in rows THEN 0 ELSE None]
  /\ summary = [p \in Person |-> IF p \in rows THEN "synced" ELSE "sync_failed"]
  /\ asked = [p \in Person |-> None] /\ jobs = <<>>
  /\ rebuild = Quiet /\ sync = [a \in Actor |-> Idle]
  /\ desk = (IF reader.limit THEN AtDesk("enqueue", 1, FALSE) ELSE NoDesk)
  /\ tick = None /\ lost = FALSE /\ corrected = {}
  /\ events = 0

-----------------------------------------------------------------------------
(* The age policy, the queue and the gate.                                 *)

Allowed(p) == reader.limit => ~ minor[p]

\* enqueue(): a queued job of the same dedupe key stands for this one.
Enqueued(ver, force) ==
  IF \E i \in DOMAIN jobs : jobs[i].ver = ver /\ jobs[i].force = force THEN jobs
  ELSE Append(jobs, [ver |-> ver, force |-> force, begun |-> FALSE])


Running == {p \in Person : sync[p].pc # "idle"}
           \cup (IF rebuild.pc = "idle" THEN {} ELSE {Rebuild})

\* The gate of the reader is held from the removal of a face to the removal of
\* its row; a write is a single step.
GateFree == rebuild.pc # "forgetting" /\ \A a \in Actor : sync[a].pc # "forget"

Who(a) == IF a = Rebuild THEN rebuild.who ELSE a

\* A job is about to do something to p that it decided on before.
InFlight(p) ==
  \/ sync[p].pc # "idle" \/ rebuild.who = p
  \/ p \in rebuild.todo \/ (rebuild.list[p] # None /\ p \notin Rekeyed)

Calm(kind) == kind \in Races \/ \A p \in Person : ~ InFlight(p)
CalmFor(p, kind) == kind \in Races \/ ~ InFlight(p)

TakeOff(p) ==
  /\ device' = [device EXCEPT ![p] = None]
  /\ corrected' = corrected \ {p}

Event == events < MaxEvents /\ events' = events + 1
Fine == UNCHANGED events

-----------------------------------------------------------------------------
(* syncPersonOnReaders() for this reader, in a job of the person or in the *)
(* rebuild.                                                                *)

SyncIs(a, pc) == sync[a].pc = pc
SyncTo(a, pc, out) == sync' = [sync EXCEPT ![a].pc = pc, ![a].out = out]

SyncReads(a) ==
  /\ SyncIs(a, "read")
  /\ LET pc == IF ~ reader.active THEN "end"
                ELSE IF ~ Allowed(Who(a)) THEN "remove"
                ELSE IF sync[a].reset /\ ~ sync[a].again THEN "reset" ELSE "plan"
     IN  SyncTo(a, pc, IF reader.active THEN "ok" ELSE "nobody")
  /\ Fine /\ UNCHANGED <<reader, people, ledger, queue, rebuild, office, ghosts>>

\* removePersonFromReaders() of the readers whose policy excludes the person.
SyncRemoves(a) ==
  /\ SyncIs(a, "remove") /\ GateFree
  /\ \/ TakeOff(Who(a)) /\ SyncTo(a, "forget", "ok") /\ Fine /\ UNCHANGED rows
     \/ Event /\ rows' = rows \ {Who(a)} /\ SyncTo(a, "end", "failed")
        /\ UNCHANGED <<device, corrected>>
  /\ UNCHANGED <<reader, people, queue, rebuild, office, lost>>

\* Without a readable birth date the outcome is a failure although it is off.
SyncForgets(a) ==
  /\ SyncIs(a, "forget")
  /\ rows' = rows \ {Who(a)}
  /\ \E out \in {"ok", "failed"} : SyncTo(a, "end", out)
  /\ Fine /\ UNCHANGED <<reader, people, device, queue, rebuild, office, ghosts>>

SyncResets(a) ==
  /\ SyncIs(a, "reset")
  /\ rows' = rows \ {Who(a)}
  /\ SyncTo(a, "plan", "ok")
  /\ Fine /\ UNCHANGED <<reader, people, device, queue, rebuild, office, ghosts>>

\* planPersonReaderSync().  "seed": without rows, a reader that the error of the
\* last, partial sync does not name counts as synced.
SyncPlans(a) ==
  /\ SyncIs(a, "plan")
  /\ \/ SyncTo(a, IF Who(a) \in rows THEN "end" ELSE "write", "ok") /\ UNCHANGED rows
     \/ /\ "seed" \in Races /\ a # Rebuild /\ Who(a) \notin rows
        /\ rows' = rows \cup {Who(a)} /\ SyncTo(a, "end", "ok")
  /\ Fine /\ UNCHANGED <<reader, people, device, queue, rebuild, office, ghosts>>

SyncWrites(a) ==
  /\ SyncIs(a, "write") /\ GateFree
  /\ \/ device' = [device EXCEPT ![Who(a)] = sync[a].photo]
        /\ SyncTo(a, "record", "ok") /\ Fine
     \/ Event /\ SyncTo(a, "record", "failed") /\ UNCHANGED device
  /\ UNCHANGED <<reader, people, rows, queue, rebuild, office, ghosts>>

SyncRecordsAnyway(a) ==
  /\ SyncIs(a, "record")
  /\ rows' = rows \cup {Who(a)}
  /\ SyncTo(a, "end", sync[a].out)
  /\ Fine /\ UNCHANGED <<reader, people, device, queue, rebuild, office, ghosts>>

SyncRecords(a) ==
  /\ SyncIs(a, "record")
  /\ rows' = IF sync[a].out = "ok" THEN rows \cup {Who(a)} ELSE rows \ {Who(a)}
  /\ SyncTo(a, "end", sync[a].out)
  /\ Fine /\ UNCHANGED <<reader, people, device, queue, rebuild, office, ghosts>>

SyncStep(a) ==
  \/ SyncReads(a)  \/ SyncRemoves(a) \/ SyncForgets(a) \/ SyncResets(a)
  \/ SyncPlans(a)  \/ SyncWrites(a)  \/ SyncRecords(a)

-----------------------------------------------------------------------------
(* The job of a person: runFacePerson().                                   *)

Summarize(p, outcome) == summary' = [summary EXCEPT ![p] = outcome]

\* The photo is read when the job starts; under its key is the photo of the
\* request, or the last one.
PersonStarts(p) ==
  /\ asked[p] # None /\ SyncIs(p, "idle")
  /\ asked' = [asked EXCEPT ![p] = None]
  /\ \/ /\ sync' = [sync EXCEPT ![p] =
              [Idle EXCEPT !.pc = "read", !.reset = asked[p].reset,
                           !.photo = IF p \in Rekeyed THEN asked[p].photo ELSE photo[p]]]
        /\ Fine /\ UNCHANGED summary
     \/ Event /\ Summarize(p, "sync_failed") /\ UNCHANGED sync
  /\ UNCHANGED <<reader, minor, photo, ledger, jobs, rebuild, office, ghosts>>

\* shouldRetryIncompleteFaceSync(): a second pass, without the reset.
PersonRetries(p) ==
  /\ SyncIs(p, "end") /\ sync[p].out = "failed" /\ ~ sync[p].again
  /\ sync' = [sync EXCEPT ![p].pc = "read", ![p].again = TRUE]
  /\ Fine /\ UNCHANGED <<reader, people, ledger, queue, rebuild, office, ghosts>>

\* The outcome is persisted; a face refused as similar is not tried again.
PersonEnds(p) ==
  /\ SyncIs(p, "end")
  /\ Summarize(p, IF sync[p].out = "ok" THEN "synced" ELSE "sync_failed")
  /\ sync' = [sync EXCEPT ![p] = Idle]
  /\ Fine /\ UNCHANGED <<reader, minor, photo, ledger, queue, rebuild, office, ghosts>>

PersonStep(p) == PersonStarts(p) \/ PersonRetries(p) \/ PersonEnds(p)

-----------------------------------------------------------------------------
(* The job of the reader: runFaceReader().                                 *)

At(pc) == rebuild.pc = pc
Go(pc) == rebuild' = [rebuild EXCEPT !.pc = pc]

RebuildStarts ==
  /\ At("idle") /\ jobs # <<>>
  /\ rebuild' = [Quiet EXCEPT !.pc = "purge", !.job = Head(jobs)]
  /\ jobs' = Tail(jobs)
  /\ Fine /\ UNCHANGED <<reader, people, ledger, asked, sync, office, ghosts>>

\* A forced rebuild begins without rows, once.
AfterPurge == IF rebuild.job.force /\ ~ rebuild.job.begun THEN "reset" ELSE "list"

\* purgeIneligibleFacesFromReader(): everybody known is looked at.
PurgeReads ==
  /\ At("purge")
  /\ rebuild' = IF ~ reader.active THEN [rebuild EXCEPT !.pc = "failing"]
                 ELSE IF ~ reader.limit THEN [rebuild EXCEPT !.pc = AfterPurge]
                 ELSE [rebuild EXCEPT !.pc = "removing",
                                      !.todo = {p \in Person : minor[p]}]
  /\ Fine /\ UNCHANGED <<reader, people, ledger, queue, sync, office, ghosts>>

\* By the birth dates read at the start.
PurgeRemoves(p) ==
  /\ At("removing") /\ p \in rebuild.todo
  /\ \/ /\ GateFree /\ TakeOff(p)
        /\ rebuild' = [rebuild EXCEPT !.pc = "forgetting", !.who = p]
        /\ Fine /\ UNCHANGED rows
     \/ /\ GateFree /\ Event
        /\ rows' = rows \ {p}
        /\ rebuild' = [rebuild EXCEPT !.todo = @ \ {p}, !.bad = TRUE]
        /\ UNCHANGED <<device, corrected>>
  /\ UNCHANGED <<reader, people, queue, sync, office, lost>>

PurgeForgets ==
  /\ At("forgetting")
  /\ rows' = rows \ {rebuild.who}
  /\ rebuild' = [rebuild EXCEPT !.pc = "removing", !.todo = @ \ {rebuild.who}, !.who = None]
  /\ Fine /\ UNCHANGED <<reader, people, device, queue, sync, office, ghosts>>

PurgeEnds ==
  /\ At("removing") /\ rebuild.todo = {}
  /\ Go(IF rebuild.bad THEN "failing" ELSE AfterPurge)
  /\ Fine /\ UNCHANGED <<reader, people, ledger, queue, sync, office, ghosts>>

ForceResets ==
  /\ At("reset")
  /\ rows' = {}
  /\ Go("list")
  /\ Fine /\ UNCHANGED <<reader, people, device, queue, sync, office, ghosts>>

\* listPeopleToSync()
Lists ==
  /\ At("list")
  /\ rebuild' = [rebuild EXCEPT !.pc = "next", !.list =
                  [p \in Person |-> IF p \notin rows /\ Allowed(p) THEN photo[p] ELSE None]]
  /\ Fine /\ UNCHANGED <<reader, people, ledger, queue, sync, office, ghosts>>

Processed(p) == [rebuild EXCEPT !.list[p] = None, !.job.begun = TRUE]

\* One person of the list; one whose photo has another key by now is passed over.
Takes(p) ==
  /\ At("next") /\ rebuild.list[p] # None
  /\ \/ /\ p \in Rekeyed /\ rebuild.list[p] # photo[p]
        /\ rebuild' = Processed(p) /\ Fine /\ UNCHANGED sync
     \/ /\ p \in Rekeyed => rebuild.list[p] = photo[p]
        /\ rebuild' = [rebuild EXCEPT !.pc = "syncing", !.who = p]
        /\ sync' = [sync EXCEPT ![Rebuild] = [Idle EXCEPT !.pc = "read", !.photo = photo[p]]]
        /\ Fine
     \/ /\ p \in Rekeyed => rebuild.list[p] = photo[p]
        /\ Event /\ Go("failing") /\ UNCHANGED sync
  /\ UNCHANGED <<reader, people, ledger, queue, office, ghosts>>

\* The first person that fails ends the job.
Synced ==
  /\ At("syncing") /\ SyncIs(Rebuild, "end")
  /\ sync' = [sync EXCEPT ![Rebuild] = Idle]
  /\ IF sync[Rebuild].out = "ok"
     THEN /\ rebuild' = [Processed(rebuild.who) EXCEPT !.pc = "next", !.who = None]
          /\ Summarize(rebuild.who, "synced")
     ELSE rebuild' = [rebuild EXCEPT !.pc = "failing", !.who = None] /\ UNCHANGED summary
  /\ Fine /\ UNCHANGED <<reader, minor, photo, ledger, queue, office, ghosts>>

MarkedAnyVersion(st) == [reader EXCEPT !.st = st, !.today = st = "applied"]

\* updateReaderAgePolicyStatus(): only of the version the job was asked for.
Marked(st) ==
  IF rebuild.job.ver = reader.ver
  THEN [reader EXCEPT !.st = st, !.today = st = "applied"] ELSE reader

Applies ==
  /\ At("next") /\ rebuild.list = Nobody
  /\ reader' = Marked("applied")
  /\ rebuild' = Quiet
  /\ Fine /\ UNCHANGED <<people, ledger, queue, sync, office, ghosts>>

Fails ==
  /\ At("failing")
  /\ reader' = Marked("failed")
  /\ rebuild' = Quiet
  /\ Fine /\ UNCHANGED <<people, ledger, queue, sync, office, ghosts>>

RebuildStep ==
  \/ RebuildStarts \/ PurgeReads \/ PurgeForgets \/ PurgeEnds \/ ForceResets
  \/ Lists \/ Synced \/ Applies \/ Fails
  \/ \E p \in Person : PurgeRemoves(p) \/ Takes(p)

-----------------------------------------------------------------------------
(* The listener of the module: every five minutes.                         *)

ListenerReadsApplied ==
  /\ tick = None /\ reader.active
  /\ reader.limit /\ reader.st = "applied" /\ ~ reader.today
  /\ tick' = reader.ver
  /\ Fine /\ UNCHANGED <<reader, people, ledger, queue, rebuild, sync, desk, ghosts>>

ListenerReads ==
  /\ tick = None /\ reader.active
  /\ reader.limit \/ reader.st # "applied"
  /\ ~ (reader.st = "applied" /\ reader.today)
  /\ tick' = reader.ver
  /\ Fine /\ UNCHANGED <<reader, people, ledger, queue, rebuild, sync, desk, ghosts>>

ListenerAsks ==
  /\ tick # None
  /\ jobs' = Enqueued(tick, FALSE)
  /\ tick' = None
  /\ Fine /\ UNCHANGED <<reader, people, ledger, asked, rebuild, sync, desk, ghosts>>

DayPasses ==
  /\ reader.today
  /\ reader' = [reader EXCEPT !.today = FALSE]
  /\ Fine /\ UNCHANGED <<people, ledger, queue, rebuild, sync, office, ghosts>>

\* Nobody comes of age between two steps of a job.
Birthday(p) ==
  /\ minor[p] /\ ~ InFlight(p)
  /\ minor' = [minor EXCEPT ![p] = FALSE]
  /\ Fine /\ UNCHANGED <<reader, photo, summary, ledger, queue, rebuild, sync, office, ghosts>>

-----------------------------------------------------------------------------
(* Operators of the reader.                                                *)

\* ReadersService.update(), up to its enqueue.
UpdateReader(active, limit) ==
  LET needed == limit # reader.limit \/ (active /\ ~ reader.active)
  IN  /\ <<active, limit>> # <<reader.active, reader.limit>>
      /\ desk = NoDesk /\ Calm("policy") /\ Event
      /\ reader' = IF needed
                    THEN [active |-> active, limit |-> limit, ver |-> reader.ver + 1,
                          st |-> "pending", today |-> FALSE]
                    ELSE [reader EXCEPT !.active = active]
      /\ desk' = IF needed /\ active THEN AtDesk("enqueue", reader.ver + 1, FALSE) ELSE desk
      /\ UNCHANGED <<people, ledger, queue, rebuild, sync, tick, ghosts>>

\* enqueueReaderRebuildJob(): refused while a face job of the client is active.
RequestRebuild(force) ==
  /\ desk = NoDesk /\ reader.active /\ Event
  /\ Running = {} /\ jobs = <<>> /\ asked = Nobody
  /\ desk' = AtDesk(IF force THEN "rebuild" ELSE "enqueue", None, force)
  /\ UNCHANGED <<reader, people, ledger, queue, rebuild, sync, tick, ghosts>>

\* The rows of the reader are deleted: before a forced rebuild, after a wipe.
DeskForgets ==
  /\ desk.at \in {"rebuild", "wipe"}
  /\ rows' = {} /\ lost' = FALSE
  /\ desk' = IF desk.at = "rebuild" THEN AtDesk("enqueue", None, TRUE) ELSE NoDesk
  /\ Fine /\ UNCHANGED <<reader, people, device, queue, rebuild, sync, tick, corrected>>

DeskAsks ==
  /\ desk.at = "enqueue"
  /\ jobs' = Enqueued(desk.ver, desk.force)
  /\ desk' = NoDesk
  /\ Fine /\ UNCHANGED <<reader, people, ledger, asked, rebuild, sync, tick, ghosts>>

\* The reader is replaced by an empty one.
Replaced ==
  /\ Calm("empty") /\ Event /\ device # Nobody
  /\ device' = Nobody /\ lost' = TRUE
  /\ UNCHANGED <<reader, people, rows, queue, rebuild, sync, office, corrected>>

\* wipeAll(), outside the gate; the rows stay when the reader kept somebody.
Wipes ==
  /\ desk = NoDesk /\ reader.active /\ Calm("empty") /\ Event /\ device # Nobody
  /\ \E kept \in SUBSET {p \in Person : device[p] # None} :
       /\ device' = [p \in Person |-> IF p \in kept THEN device[p] ELSE None]
       /\ desk' = IF kept = {} THEN AtDesk("wipe", None, FALSE) ELSE NoDesk
  /\ lost' = TRUE
  /\ UNCHANGED <<reader, people, rows, queue, rebuild, sync, tick, corrected>>

\* cancel-queued for the client, or the cancel of a rebuild seen at a checkpoint.
Cancels ==
  /\ Event
  /\ \/ /\ jobs # <<>> \/ asked # Nobody
        /\ jobs' = <<>> /\ asked' = Nobody
        /\ summary' = [p \in Person |-> IF asked[p] = None THEN summary[p] ELSE "sync_failed"]
        /\ UNCHANGED rebuild
     \/ At("next") /\ Go("failing") /\ UNCHANGED <<queue, summary>>
  /\ UNCHANGED <<reader, minor, photo, ledger, sync, office, ghosts>>

-----------------------------------------------------------------------------
(* Operators of people.                                                    *)

\* enqueuePersonSync(): the payload of a queued job is replaced.
Asks(p, reset) ==
  /\ asked' = [asked EXCEPT ![p] = [photo |-> photo'[p], reset |-> reset]]
  /\ Summarize(p, "pending")

ChangePhoto(p) ==
  /\ CalmFor(p, "photo") /\ Event
  /\ photo' = [photo EXCEPT ![p] = @ + 1]
  /\ Asks(p, TRUE)
  /\ UNCHANGED <<reader, minor, ledger, jobs, rebuild, sync, office, ghosts>>

CorrectBirthDate(p) ==
  /\ CalmFor(p, "birth") /\ Event
  /\ minor' = [minor EXCEPT ![p] = ~ @]
  /\ corrected' = IF minor[p] THEN corrected \ {p} ELSE corrected \cup {p}
  /\ UNCHANGED photo /\ Asks(p, TRUE)
  /\ UNCHANGED <<reader, ledger, jobs, rebuild, sync, office, lost>>

\* Asked for again, from the start or where it stopped.  "resync": a request to
\* go on comes before the rows of an earlier photo are gone, because the request
\* to start over still waits (and is replaced), was cancelled or failed.
Resync(p, reset) ==
  /\ Event
  /\ "resync" \in Races \/ reset \/ (p \in rows => device[p] = photo[p])
  /\ UNCHANGED <<minor, photo>> /\ Asks(p, reset)
  /\ UNCHANGED <<reader, ledger, jobs, rebuild, sync, office, ghosts>>

-----------------------------------------------------------------------------
(* The process dies: what it held in memory is gone, its jobs wait again   *)
(* unless a newer one of the same key waits already.                       *)

Crash ==
  /\ Running # {} \/ desk # NoDesk
  /\ "crash" \in Races \/ GateFree
  /\ Event
  /\ jobs' = IF \/ At("idle")
                 \/ \E i \in DOMAIN jobs : /\ jobs[i].ver = rebuild.job.ver
                                            /\ jobs[i].force = rebuild.job.force
              THEN jobs ELSE <<rebuild.job>> \o jobs
  /\ asked' = [p \in Person |->
                IF SyncIs(p, "idle") \/ asked[p] # None THEN asked[p]
                ELSE [photo |-> sync[p].photo, reset |-> sync[p].reset]]
  /\ rebuild' = Quiet /\ sync' = [a \in Actor |-> Idle]
  /\ desk' = NoDesk /\ tick' = None
  /\ UNCHANGED <<reader, people, ledger, ghosts>>

-----------------------------------------------------------------------------

Worker == RebuildStep \/ (\E a \in Actor : SyncStep(a)) \/ \E p \in Person : PersonStep(p)
Desk == DeskForgets \/ DeskAsks
Listener == ListenerReads \/ ListenerAsks
World ==
  \/ \E active, limit \in BOOLEAN : UpdateReader(active, limit)
  \/ \E force \in BOOLEAN : RequestRebuild(force)
  \/ Replaced \/ Wipes \/ Cancels \/ Crash \/ DayPasses
  \/ \E p \in Person : \/ ChangePhoto(p) \/ CorrectBirthDate(p) \/ Birthday(p)
                          \/ \E reset \in BOOLEAN : Resync(p, reset)

Next == Worker \/ Desk \/ Listener \/ World
Spec == Init /\ [][Next]_vars

FairSpec ==
  /\ Spec
  /\ WF_vars(RebuildStep \/ SyncStep(Rebuild))
  /\ \A p \in Person : WF_vars(PersonStep(p) \/ SyncStep(p))
  /\ WF_vars(Desk) /\ WF_vars(Listener) /\ WF_vars(DayPasses)

-----------------------------------------------------------------------------

\* Their face is off and their row is about to go.
Leaving == {Who(a) : a \in {b \in Actor : SyncIs(b, "forget")}}
           \cup (IF At("forgetting") THEN {rebuild.who} ELSE {})

\* "Progresso por dispositivo (fonte de verdade)": a person who waits for nothing
\* and is shown as synced, and whose row says that this reader has the face, has
\* the current photo on the reader, whichever of the jobs, the purge or an operator
\* wrote last.  A reader that was emptied without the rows is known to be off.
LedgerIsTrue ==
  ~ lost => \A p \in rows \ Leaving :
    summary[p] = "synced" /\ asked[p] = None /\ SyncIs(p, "idle") /\ Allowed(p)
      => device[p] = photo[p]

\* A minimum age shown as applied is applied: nobody below it is on the reader,
\* whatever jobs of earlier versions of the policy end late, fail or run again.
\* A person whose birth date was corrected is off with the job that correction asks for.
AppliedIsClean ==
  reader.st = "applied" /\ reader.limit
    => \A p \in Person : minor[p] /\ device[p] # None => p \in corrected

Settled ==
  reader.active /\ reader.limit /\ ~ lost
    => \A p \in Person : device[p] # None <=> ~ minor[p]

\* Once people leave it alone, a reader with a minimum age holds exactly the people
\* old enough: lost requests, failed purges and writes, cancelled jobs, crashes and
\* birthdays are made up for by the job the listener asks for every day.
ReaderSettles == <>[]Settled
=============================================================================
