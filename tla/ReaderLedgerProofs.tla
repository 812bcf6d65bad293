------------------------- MODULE ReaderLedgerProofs -------------------------
(***************************************************************************)
(* Proofs about ReaderLedger, for any people and any bound on what happens *)
(* to them: types; that a minimum age shown as applied is applied as long  *)
(* as neither the policy nor a birth date is edited in the middle of a job *)
(* (which the rest of Races does not touch); and that the rows of the      *)
(* ledger are true as long as nothing of Races happens.                    *)
(***************************************************************************)
EXTENDS ReaderLedger, SequenceTheorems, TLAPS

(* Versions somebody may have read of the policy.                          *)
Versions == (0 .. reader.ver) \cup {None}

VersionInv ==
  /\ \A i \in DOMAIN jobs : jobs[i].ver \in Versions
  /\ rebuild.job.ver \in Versions /\ tick \in Versions /\ desk.ver \in Versions

(* The rebuild syncs the person it works on; a sync has a photo.           *)
WhoInv ==
  /\ sync[Rebuild].pc # "idle" => rebuild.pc = "syncing"
  /\ rebuild.pc \in {"syncing", "forgetting"} => rebuild.who \in Person
  /\ \A a \in Actor : sync[a].pc # "idle" => sync[a].photo \in Nat

(* A sync that goes on towards its write was let in by the policy.         *)
Bound == {"reset", "plan", "write", "record"}
WriteInv == \A a \in Actor : sync[a].pc \in Bound => Allowed(Who(a))

(* People the reader holds although they are too young.                    *)
Dirty == {p \in Person : minor[p] /\ device[p] # None} \ corrected

(* Faces the purge has still to remove.                                    *)
StillToRemove == IF rebuild.pc = "forgetting" THEN rebuild.todo \ {rebuild.who}
                 ELSE rebuild.todo

(* What a rebuild of the current version has achieved so far.              *)
PurgeInv ==
  reader.limit /\ rebuild.job.ver = reader.ver =>
    /\ rebuild.pc \in {"removing", "forgetting"} /\ ~ rebuild.bad => Dirty \subseteq StillToRemove
    /\ rebuild.pc \in {"reset", "list", "next", "syncing"} => Dirty = {}

CleanInv == reader.limit /\ reader.st = "applied" => Dirty = {}

LedgerInv == VersionInv /\ WriteInv /\ PurgeInv /\ CleanInv

-----------------------------------------------------------------------------
(* Types.                                                                  *)

Typed == TypeOK /\ WhoInv

LEMMA ActorHasSync == Person \subseteq Actor /\ Rebuild \in Actor
BY DEF Actor

LEMMA SyncToIsTyped ==
  ASSUME TypeOK, NEW a \in Actor, NEW pc \in SyncPc, NEW out \in Outcome, SyncTo(a, pc, out)
  PROVE  /\ sync' \in [Actor -> SyncState]
         /\ sync'[a].pc = pc /\ sync'[a].photo = sync[a].photo
         /\ \A b \in Actor \ {a} : sync'[b] = sync[b]
<1>1. sync \in [Actor -> SyncState]
  BY DEF TypeOK
<1> DEFINE new == [sync[a] EXCEPT !.pc = pc, !.out = out]
<1>2. sync' = [sync EXCEPT ![a] = new]
  BY <1>1 DEF SyncTo, SyncState
<1>3. new \in SyncState /\ new.pc = pc /\ new.photo = sync[a].photo
  BY <1>1 DEF SyncState
<1> QED
  BY <1>1, <1>2, <1>3

LEMMA EnqueuedIsTyped ==
  ASSUME TypeOK, NEW ver \in Nat \cup {None}, NEW force \in BOOLEAN
  PROVE  Enqueued(ver, force) \in Seq(JobRow)
<1>1. jobs \in Seq(JobRow)
  BY DEF TypeOK
<1>2. [ver |-> ver, force |-> force, begun |-> FALSE] \in JobRow
  BY DEF JobRow
<1>3. Append(jobs, [ver |-> ver, force |-> force, begun |-> FALSE]) \in Seq(JobRow)
  BY <1>1, <1>2, AppendProperties
<1> QED
  BY <1>1, <1>3 DEF Enqueued

LEMMA MarkedIsTyped ==
  ASSUME TypeOK, NEW st \in Policy PROVE Marked(st) \in ReaderRow
BY DEF TypeOK, Marked, ReaderRow

LEMMA GoIsTyped ==
  ASSUME TypeOK, NEW pc \in RebuildPc, Go(pc) PROVE rebuild' \in RebuildState
BY DEF TypeOK, Go, RebuildState

LEMMA QuietIsTyped == Quiet \in RebuildState /\ Idle \in SyncState /\ NoDesk \in DeskState
BY DEF Quiet, RebuildState, NoJob, JobRow, Nobody, RebuildPc, Idle, SyncState, SyncPc,
       Outcome, NoDesk, AtDesk, DeskState, DeskAt

LEMMA WhoIsAPerson ==
  ASSUME WhoInv, NEW a \in Actor, sync[a].pc # "idle" PROVE Who(a) \in Person
BY DEF WhoInv, Who, Actor

LEMMA TypeSync == ASSUME Typed, NEW a \in Actor, SyncStep(a) PROVE Typed'
<1> USE DEF Typed, people, ledger, queue, office, ghosts, Fine, Event
<1>0. TypeOK /\ WhoInv /\ sync[a] \in SyncState
  BY DEF TypeOK
<1> SUFFICES /\ \E pc \in SyncPc, out \in Outcome : SyncTo(a, pc, out)
             /\ sync[a].pc # "idle" /\ UNCHANGED rebuild
             /\ reader' = reader /\ minor' = minor /\ photo' = photo /\ summary' = summary
             /\ device' \in [Person -> Nat \cup {None}] /\ rows' \in SUBSET Person
             /\ UNCHANGED <<asked, jobs, desk, tick, lost>>
             /\ corrected' \in SUBSET Person /\ events' \in 0 .. MaxEvents
  <2>1. PICK pc \in SyncPc, out \in Outcome : SyncTo(a, pc, out)
    OBVIOUS
  <2>2. /\ sync' \in [Actor -> SyncState]
        /\ sync'[a].photo = sync[a].photo /\ \A b \in Actor \ {a} : sync'[b] = sync[b]
    BY <1>0, <2>1, SyncToIsTyped
  <2>3. TypeOK'
    BY <1>0, <2>2 DEF TypeOK
  <2>4. WhoInv'
    BY <1>0, <2>2, ActorHasSync DEF WhoInv
  <2> QED
    BY <2>3, <2>4
<1>1. CASE SyncReads(a)
  <2> DEFINE pc == IF ~ reader.active THEN "end"
                   ELSE IF ~ Allowed(Who(a)) THEN "remove"
                   ELSE IF sync[a].reset /\ ~ sync[a].again THEN "reset" ELSE "plan"
             out == IF reader.active THEN "ok" ELSE "nobody"
  <2>1. SyncTo(a, pc, out)
    BY <1>1 DEF SyncReads
  <2>2. pc \in SyncPc /\ out \in Outcome
    BY DEF SyncPc, Outcome
  <2> QED
    BY <1>0, <1>1, <2>1, <2>2 DEF SyncReads, SyncIs, TypeOK
<1>2. CASE SyncRemoves(a)
  BY <1>0, <1>2, LedgerAssumption, WhoIsAPerson DEF SyncRemoves, SyncIs, SyncPc, Outcome, SyncState, TypeOK, TakeOff
<1>3. CASE SyncForgets(a)
  BY <1>0, <1>3, LedgerAssumption, WhoIsAPerson DEF SyncForgets, SyncIs, SyncPc, Outcome, SyncState, TypeOK
<1>4. CASE SyncResets(a)
  BY <1>0, <1>4, LedgerAssumption, WhoIsAPerson DEF SyncResets, SyncIs, SyncPc, Outcome, SyncState, TypeOK
<1>5. CASE SyncPlans(a)
  BY <1>0, <1>5, LedgerAssumption, WhoIsAPerson DEF SyncPlans, SyncIs, SyncPc, Outcome, SyncState, TypeOK
<1>6. CASE SyncWrites(a)
  <2>1. \E out \in Outcome : SyncTo(a, "record", out)
    BY <1>6 DEF SyncWrites, Outcome
  <2>2. device' \in [Person -> Nat \cup {None}]
    BY <1>0, <1>6 DEF SyncWrites, SyncState, TypeOK
  <2>3. events' \in 0 .. MaxEvents
    BY <1>0, <1>6, LedgerAssumption DEF SyncWrites, TypeOK
  <2> QED
    BY <1>0, <1>6, <2>1, <2>2, <2>3 DEF SyncWrites, SyncIs, SyncPc, TypeOK
<1>7. CASE SyncRecords(a)
  <2>1. sync[a].out \in Outcome /\ SyncTo(a, "end", sync[a].out)
    BY <1>0, <1>7 DEF SyncRecords, SyncState
  <2>2. sync[a].pc # "idle" /\ Who(a) \in Person
    BY <1>0, <1>7, WhoIsAPerson DEF SyncRecords, SyncIs
  <2>3. rows' \in SUBSET Person
    BY <1>0, <1>7, <2>2 DEF SyncRecords, TypeOK
  <2> QED
    BY <1>0, <1>7, <2>1, <2>2, <2>3 DEF SyncRecords, SyncPc, TypeOK
<1> QED
  BY <1>1, <1>2, <1>3, <1>4, <1>5, <1>6, <1>7 DEF SyncStep

LEMMA ProcessedIsTyped ==
  ASSUME TypeOK, NEW p
  PROVE  Processed(p) \in RebuildState /\ Processed(p).pc = rebuild.pc
<1> DEFINE due == [rebuild.list EXCEPT ![p] = None]
           row == [rebuild.job EXCEPT !.begun = TRUE]
<1>1. rebuild \in RebuildState
  BY DEF TypeOK
<1>2. due \in [Person -> Nat \cup {None}] /\ row \in JobRow
  BY <1>1 DEF RebuildState, JobRow
<1>3. Processed(p) = [rebuild EXCEPT !.list = due, !.job = row]
  BY <1>1 DEF Processed, RebuildState
<1> QED
  BY <1>1, <1>2, <1>3 DEF RebuildState

LEMMA TypePerson == ASSUME Typed, NEW p \in Person, PersonStep(p) PROVE Typed'
<1> USE ActorHasSync DEF Typed, people, ledger, queue, office, ghosts, Fine, Event
<1>0. TypeOK /\ WhoInv /\ p \in Actor /\ sync[p] \in SyncState /\ p # Rebuild
  BY LedgerAssumption DEF TypeOK
<1> SUFFICES /\ \E new \in SyncState : /\ new.pc # "idle" => new.photo \in Nat
                                     /\ sync' = [sync EXCEPT ![p] = new]
             /\ UNCHANGED rebuild
             /\ reader' = reader /\ minor' = minor /\ photo' = photo
             /\ summary' \in [Person -> Summary]
             /\ asked' \in [Person -> Request \cup {None}]
             /\ UNCHANGED <<device, rows, jobs, desk, tick, lost, corrected>>
             /\ events' \in 0 .. MaxEvents
  BY <1>0 DEF TypeOK, WhoInv
<1>1. CASE PersonStarts(p)
  <2> DEFINE new == [Idle EXCEPT !.pc = "read", !.reset = asked[p].reset,
                       !.photo = IF p \in Rekeyed THEN asked[p].photo ELSE photo[p]]
  <2>1. asked[p] \in Request /\ photo[p] \in Nat
    BY <1>0, <1>1 DEF PersonStarts, TypeOK
  <2>2. new \in SyncState /\ new.photo \in Nat
    BY <2>1, QuietIsTyped DEF Request, SyncState, SyncPc
  <2>3. asked' \in [Person -> Request \cup {None}]
    BY <1>0, <1>1 DEF PersonStarts, TypeOK
  <2>4. \E x \in SyncState : /\ x.pc # "idle" => x.photo \in Nat
                             /\ sync' = [sync EXCEPT ![p] = x]
    <3>1. CASE sync' = [sync EXCEPT ![p] = new]
      BY <2>2, <3>1
    <3>2. CASE UNCHANGED sync
      <4>1. sync' = [sync EXCEPT ![p] = sync[p]]
        BY <1>0, <3>2 DEF TypeOK
      <4> QED
        BY <1>0, <4>1 DEF WhoInv
    <3> QED
      BY <1>1, <3>1, <3>2 DEF PersonStarts
  <2>5. events' \in 0 .. MaxEvents
    <3>1. events' = events \/ (events < MaxEvents /\ events' = events + 1)
      BY <1>1 DEF PersonStarts
    <3> QED
      BY <1>0, <3>1, LedgerAssumption DEF TypeOK
  <2>6. summary' \in [Person -> Summary]
    <3>1. summary' = summary \/ summary' = [summary EXCEPT ![p] = "sync_failed"]
      BY <1>1 DEF PersonStarts, Summarize
    <3> QED
      BY <1>0, <3>1 DEF TypeOK, Summary
  <2> QED
    BY <1>1, <2>3, <2>4, <2>5, <2>6 DEF PersonStarts
<1>2. CASE PersonRetries(p)
  <2> DEFINE new == [sync[p] EXCEPT !.pc = "read", !.again = TRUE]
  <2>1. sync' = [sync EXCEPT ![p] = new]
    BY <1>0, <1>2 DEF PersonRetries, TypeOK
  <2>2. new \in SyncState /\ new.photo = sync[p].photo /\ sync[p].pc # "idle"
    BY <1>0, <1>2 DEF PersonRetries, SyncIs, SyncState, SyncPc
  <2> QED
    BY <1>0, <1>2, <2>1, <2>2 DEF PersonRetries, TypeOK, WhoInv
<1>3. CASE PersonEnds(p)
  <2>1. summary' \in [Person -> Summary]
    BY <1>0, <1>3 DEF PersonEnds, TypeOK, Summarize, Summary
  <2>2. Idle.pc = "idle" /\ sync' = [sync EXCEPT ![p] = Idle]
    BY <1>3 DEF PersonEnds, Idle
  <2> QED
    BY <1>0, <1>3, <2>1, <2>2, QuietIsTyped DEF PersonEnds, TypeOK
<1> QED
  BY <1>1, <1>2, <1>3 DEF PersonStep

LEMMA TypeRebuild == ASSUME Typed, RebuildStep PROVE Typed'
<1> USE ActorHasSync DEF Typed, people, ledger, queue, office, ghosts, Fine, Event
<1>0. TypeOK /\ WhoInv /\ rebuild \in RebuildState /\ Rebuild \in Actor
  BY DEF TypeOK
<1>1. CASE RebuildStarts
  <2>1. Head(jobs) \in JobRow /\ jobs' \in Seq(JobRow)
    BY <1>0, <1>1, HeadTailProperties DEF RebuildStarts, TypeOK
  <2>2. rebuild' \in RebuildState /\ rebuild'.pc = "purge"
    BY <1>1, <2>1, QuietIsTyped DEF RebuildStarts, RebuildState, RebuildPc
  <2>3. sync[Rebuild].pc = "idle"
    BY <1>0, <1>1 DEF RebuildStarts, At, WhoInv
  <2> QED
    BY <1>0, <1>1, <2>1, <2>2, <2>3 DEF RebuildStarts, TypeOK, WhoInv
<1>2. CASE PurgeReads
  <2>1. rebuild' \in RebuildState /\ rebuild'.pc \in {"failing", "reset", "list", "removing"}
    BY <1>0, <1>2 DEF PurgeReads, AfterPurge, RebuildState, RebuildPc
  <2>2. sync[Rebuild].pc = "idle"
    BY <1>0, <1>2 DEF PurgeReads, At, WhoInv
  <2> QED
    BY <1>0, <1>2, <2>1, <2>2 DEF PurgeReads, TypeOK, WhoInv
<1>3. CASE PurgeForgets
  <2>1. rebuild' \in RebuildState /\ rebuild'.pc = "removing"
    BY <1>0, <1>3 DEF PurgeForgets, RebuildState, RebuildPc
  <2>2. sync[Rebuild].pc = "idle"
    BY <1>0, <1>3 DEF PurgeForgets, At, WhoInv
  <2> QED
    BY <1>0, <1>3, <2>1, <2>2 DEF PurgeForgets, TypeOK, WhoInv
<1>4. CASE PurgeEnds
  <2>1. rebuild' \in RebuildState /\ rebuild'.pc \in {"failing", "reset", "list"}
    BY <1>0, <1>4 DEF PurgeEnds, Go, AfterPurge, RebuildState, RebuildPc
  <2>2. sync[Rebuild].pc = "idle"
    BY <1>0, <1>4 DEF PurgeEnds, At, WhoInv
  <2> QED
    BY <1>0, <1>4, <2>1, <2>2 DEF PurgeEnds, TypeOK, WhoInv
<1>5. CASE ForceResets
  <2>1. rebuild' \in RebuildState /\ rebuild'.pc = "list"
    BY <1>0, <1>5 DEF ForceResets, Go, RebuildState, RebuildPc
  <2>2. sync[Rebuild].pc = "idle"
    BY <1>0, <1>5 DEF ForceResets, At, WhoInv
  <2> QED
    BY <1>0, <1>5, <2>1, <2>2 DEF ForceResets, TypeOK, WhoInv
<1>6. CASE Lists
  <2> DEFINE due == [p \in Person |-> IF p \notin rows /\ Allowed(p) THEN photo[p] ELSE None]
  <2>0. due \in [Person -> Nat \cup {None}]
    BY <1>0 DEF TypeOK
  <2>1. rebuild' \in RebuildState /\ rebuild'.pc = "next"
    BY <1>0, <1>6, <2>0 DEF Lists, RebuildState, RebuildPc
  <2>2. sync[Rebuild].pc = "idle"
    BY <1>0, <1>6 DEF Lists, At, WhoInv
  <2> QED
    BY <1>0, <1>6, <2>1, <2>2 DEF Lists, TypeOK, WhoInv
<1>7. CASE Synced
  <2>1. rebuild' \in RebuildState /\ rebuild'.pc \in {"next", "failing"}
    <3>1. CASE sync[Rebuild].out = "ok"
      <4> DEFINE done == Processed(rebuild.who)
      <4>1. done \in RebuildState
        BY <1>0, ProcessedIsTyped
      <4>2. rebuild' = [done EXCEPT !.pc = "next", !.who = None]
        BY <1>7, <3>1 DEF Synced
      <4> QED
        BY <4>1, <4>2 DEF RebuildState, RebuildPc
    <3>2. CASE sync[Rebuild].out # "ok"
      BY <1>0, <1>7, <3>2 DEF Synced, RebuildState, RebuildPc
    <3> QED
      BY <3>1, <3>2
  <2>2. sync' = [sync EXCEPT ![Rebuild] = Idle]
    BY <1>7 DEF Synced
  <2>3. /\ sync' \in [Actor -> SyncState] /\ sync'[Rebuild].pc = "idle"
        /\ \A b \in Actor \ {Rebuild} : sync'[b] = sync[b]
    BY <1>0, <2>2, QuietIsTyped DEF TypeOK, Idle
  <2>4. summary' \in [Person -> Summary]
    BY <1>0, <1>7 DEF Synced, Summarize, Summary, TypeOK
  <2> QED
    BY <1>0, <1>7, <2>1, <2>3, <2>4 DEF Synced, TypeOK, WhoInv
<1>8. CASE Applies
  <2>1. rebuild' \in RebuildState /\ rebuild'.pc = "idle"
    BY <1>8, QuietIsTyped DEF Applies, Quiet
  <2>2. sync[Rebuild].pc = "idle"
    BY <1>0, <1>8 DEF Applies, At, WhoInv
  <2>3. reader' \in ReaderRow
    BY <1>0, <1>8, MarkedIsTyped DEF Applies, Policy
  <2> QED
    BY <1>0, <1>8, <2>1, <2>2, <2>3 DEF Applies, TypeOK, WhoInv
<1>9. CASE Fails
  <2>1. rebuild' \in RebuildState /\ rebuild'.pc = "idle"
    BY <1>9, QuietIsTyped DEF Fails, Quiet
  <2>2. sync[Rebuild].pc = "idle"
    BY <1>0, <1>9 DEF Fails, At, WhoInv
  <2>3. reader' \in ReaderRow
    BY <1>0, <1>9, MarkedIsTyped DEF Fails, Policy
  <2> QED
    BY <1>0, <1>9, <2>1, <2>2, <2>3 DEF Fails, TypeOK, WhoInv
<1>10. ASSUME NEW p \in Person, PurgeRemoves(p) PROVE Typed'
  <2>1. rebuild' \in RebuildState
    BY <1>0, <1>10 DEF PurgeRemoves, RebuildState, RebuildPc
  <2>2. sync[Rebuild].pc = "idle" /\ (rebuild'.pc = "forgetting" => rebuild'.who \in Person)
    BY <1>0, <1>10 DEF PurgeRemoves, At, WhoInv, RebuildState
  <2>3. rebuild'.pc \in {"forgetting", "removing"}
    BY <1>0, <1>10 DEF PurgeRemoves, At, RebuildState
  <2>4. device' = device \/ device' = [device EXCEPT ![p] = None]
    BY <1>10 DEF PurgeRemoves, TakeOff
  <2>5. device' \in [Person -> Nat \cup {None}]
    BY <1>0, <2>4 DEF TypeOK
  <2>6. rows' \in SUBSET Person /\ corrected' \in SUBSET Person
    BY <1>0, <1>10 DEF PurgeRemoves, TakeOff, TypeOK
  <2>7. events' = events \/ (events < MaxEvents /\ events' = events + 1)
    BY <1>10 DEF PurgeRemoves
  <2>8. events' \in 0 .. MaxEvents
    BY <1>0, <2>7, LedgerAssumption DEF TypeOK
  <2> QED
    BY <1>0, <1>10, <2>1, <2>2, <2>3, <2>5, <2>6, <2>8 DEF PurgeRemoves, TypeOK, WhoInv
<1>11. ASSUME NEW p \in Person, Takes(p) PROVE Typed'
  <2>0. sync[Rebuild].pc = "idle" /\ events' \in 0 .. MaxEvents
    BY <1>0, <1>11, LedgerAssumption DEF Takes, At, WhoInv, TypeOK
  <2>1. CASE rebuild' = Processed(p) /\ UNCHANGED sync
    <3>1. rebuild' \in RebuildState /\ rebuild'.pc = rebuild.pc
      BY <1>0, <2>1, ProcessedIsTyped
    <3> QED
      BY <1>0, <1>11, <2>0, <2>1, <3>1 DEF Takes, At, TypeOK, WhoInv
  <2>2. CASE /\ rebuild' = [rebuild EXCEPT !.pc = "syncing", !.who = p]
             /\ sync' = [sync EXCEPT ![Rebuild] = [Idle EXCEPT !.pc = "read", !.photo = photo[p]]]
    <3>1. rebuild' \in RebuildState /\ rebuild'.pc = "syncing" /\ rebuild'.who \in Person
      BY <1>0, <2>2 DEF RebuildState, RebuildPc
    <3> DEFINE new == [Idle EXCEPT !.pc = "read", !.photo = photo[p]]
    <3>2. new \in SyncState /\ new.photo \in Nat
      BY <1>0, QuietIsTyped DEF TypeOK, SyncState, SyncPc
    <3>3. /\ sync' \in [Actor -> SyncState] /\ sync'[Rebuild] = new
          /\ \A b \in Actor \ {Rebuild} : sync'[b] = sync[b]
      BY <1>0, <2>2, <3>2 DEF TypeOK
    <3> QED
      BY <1>0, <1>11, <2>0, <3>1, <3>2, <3>3 DEF Takes, TypeOK, WhoInv
  <2>3. CASE Go("failing") /\ UNCHANGED sync
    <3>1. rebuild' \in RebuildState /\ rebuild'.pc = "failing"
      BY <1>0, <2>3 DEF Go, RebuildState, RebuildPc
    <3> QED
      BY <1>0, <1>11, <2>0, <2>3, <3>1 DEF Takes, TypeOK, WhoInv
  <2> QED
    BY <1>11, <2>1, <2>2, <2>3 DEF Takes
<1> QED
  BY <1>1, <1>2, <1>3, <1>4, <1>5, <1>6, <1>7, <1>8, <1>9, <1>10, <1>11 DEF RebuildStep

LEMMA TypeInit == ASSUME Init PROVE Typed
<1> USE LedgerAssumption DEF Init
<1>1. reader \in ReaderRow
  <2>1. CASE reader = [active |-> TRUE, limit |-> FALSE, ver |-> 0, st |-> "applied",
                       today |-> TRUE]
    BY <2>1 DEF ReaderRow, Policy
  <2>2. CASE reader = [active |-> TRUE, limit |-> TRUE, ver |-> 1, st |-> "pending",
                       today |-> FALSE]
    BY <2>2 DEF ReaderRow, Policy
  <2> QED
    BY <2>1, <2>2
<1>2. device \in [Person -> Nat \cup {None}] /\ photo \in [Person -> Nat]
  OBVIOUS
<1>3. summary \in [Person -> Summary]
  BY DEF Summary
<1>4. asked \in [Person -> Request \cup {None}] /\ jobs \in Seq(JobRow)
  OBVIOUS
<1>5. rebuild \in RebuildState /\ sync \in [Actor -> SyncState]
  BY QuietIsTyped
<1>6. desk \in DeskState
  BY DEF NoDesk, AtDesk, DeskState, DeskAt
<1>7. WhoInv
  <2>1. rebuild.pc = "idle" /\ \A a \in Actor : sync[a].pc = "idle"
    BY DEF Idle, Quiet
  <2> QED
    BY <2>1, ActorHasSync DEF WhoInv
<1>8. minor \in [Person -> BOOLEAN] /\ rows \in SUBSET Person
  OBVIOUS
<1>9. tick \in Nat \cup {None} /\ corrected \in SUBSET Person
  OBVIOUS
<1>10. lost \in BOOLEAN
  BY Zenon
<1>11. events \in 0 .. MaxEvents
  OBVIOUS
<1> HIDE DEF Init
<1> QED
  BY <1>1, <1>2, <1>3, <1>4, <1>5, <1>6, <1>7, <1>8, <1>9, <1>10, <1>11 DEF Typed, TypeOK

LEMMA TypeDesk == ASSUME Typed, Desk PROVE Typed'
<1> USE DEF Typed, people, ledger, queue, office, ghosts, Fine
<1>0. TypeOK /\ WhoInv
  OBVIOUS
<1>1. CASE DeskForgets
  <2>1. desk' \in DeskState
    BY <1>1, LedgerAssumption DEF DeskForgets, AtDesk, NoDesk, DeskState, DeskAt
  <2> QED
    BY <1>0, <1>1, <2>1 DEF DeskForgets, TypeOK, WhoInv
<1>2. CASE DeskAsks
  <2>1. jobs' \in Seq(JobRow)
    BY <1>0, <1>2, EnqueuedIsTyped DEF DeskAsks, TypeOK, DeskState
  <2> QED
    BY <1>0, <1>2, <2>1, QuietIsTyped DEF DeskAsks, TypeOK, WhoInv
<1> QED
  BY <1>1, <1>2 DEF Desk

LEMMA TypeListener == ASSUME Typed, Listener PROVE Typed'
<1> USE DEF Typed, people, ledger, queue, office, ghosts, Fine
<1>0. TypeOK /\ WhoInv
  OBVIOUS
<1>1. CASE ListenerReads
  <2>1. tick' \in Nat \cup {None}
    BY <1>0, <1>1 DEF ListenerReads, TypeOK, ReaderRow
  <2> QED
    BY <1>0, <1>1, <2>1 DEF ListenerReads, TypeOK, WhoInv
<1>2. CASE ListenerAsks
  <2>1. jobs' \in Seq(JobRow)
    BY <1>0, <1>2, EnqueuedIsTyped DEF ListenerAsks, TypeOK
  <2> QED
    BY <1>0, <1>2, <2>1 DEF ListenerAsks, TypeOK, WhoInv
<1> QED
  BY <1>1, <1>2 DEF Listener

LEMMA AsksIsTyped ==
  ASSUME TypeOK, NEW p \in Person, NEW reset \in BOOLEAN, photo' \in [Person -> Nat],
         Asks(p, reset)
  PROVE  asked' \in [Person -> Request \cup {None}] /\ summary' \in [Person -> Summary]
<1>1. [photo |-> photo'[p], reset |-> reset] \in Request
  BY DEF Request
<1> QED
  BY <1>1 DEF Asks, Summarize, TypeOK, Summary

LEMMA EventIsTyped == ASSUME TypeOK, Event PROVE events' \in 0 .. MaxEvents
BY LedgerAssumption DEF TypeOK, Event

LEMMA TypeWorld == ASSUME Typed, World PROVE Typed'
<1> USE DEF Typed, people, ledger, queue, office, ghosts, Fine
<1>0. TypeOK /\ WhoInv
  OBVIOUS
<1>1. ASSUME NEW active \in BOOLEAN, NEW limit \in BOOLEAN, UpdateReader(active, limit)
      PROVE  Typed'
  <2>0. reader \in ReaderRow /\ reader.ver + 1 \in Nat
    BY <1>0 DEF TypeOK, ReaderRow
  <2>1. reader' \in ReaderRow
    <3>1. CASE reader' = [active |-> active, limit |-> limit, ver |-> reader.ver + 1,
                          st |-> "pending", today |-> FALSE]
      BY <2>0, <3>1 DEF ReaderRow, Policy
    <3>2. CASE reader' = [reader EXCEPT !.active = active]
      BY <2>0, <3>2 DEF ReaderRow
    <3> QED
      BY <1>1, <3>1, <3>2 DEF UpdateReader
  <2>2. desk' \in DeskState
    BY <1>0, <1>1, <2>0 DEF UpdateReader, TypeOK, DeskState, AtDesk, DeskAt
  <2>3. Event
    BY <1>1 DEF UpdateReader
  <2> QED
    BY <1>0, <1>1, <2>1, <2>2, <2>3, EventIsTyped DEF UpdateReader, TypeOK, WhoInv
<1>2. ASSUME NEW force \in BOOLEAN, RequestRebuild(force) PROVE Typed'
  <2>1. desk' \in DeskState
    BY <1>2 DEF RequestRebuild, DeskState, AtDesk, DeskAt
  <2>2. Event
    BY <1>2 DEF RequestRebuild
  <2> QED
    BY <1>0, <1>2, <2>1, <2>2, EventIsTyped DEF RequestRebuild, TypeOK, WhoInv
<1>3. CASE Replaced
  <2>1. Event /\ device' \in [Person -> Nat \cup {None}]
    BY <1>3 DEF Replaced, Nobody
  <2> QED
    BY <1>0, <1>3, <2>1, EventIsTyped DEF Replaced, TypeOK, WhoInv
<1>4. CASE Wipes
  <2>1. PICK kept \in SUBSET {p \in Person : device[p] # None} :
          /\ device' = [p \in Person |-> IF p \in kept THEN device[p] ELSE None]
          /\ desk' = IF kept = {} THEN AtDesk("wipe", None, FALSE) ELSE NoDesk
    BY <1>4 DEF Wipes
  <2>2. device' \in [Person -> Nat \cup {None}]
    BY <1>0, <2>1 DEF TypeOK
  <2>3. desk' \in DeskState
    BY <2>1 DEF NoDesk, AtDesk, DeskState, DeskAt
  <2>4. Event
    BY <1>4 DEF Wipes
  <2> QED
    BY <1>0, <1>4, <2>2, <2>3, <2>4, EventIsTyped DEF Wipes, TypeOK, WhoInv
<1>5. CASE Cancels
  <2>1. events' \in 0 .. MaxEvents
    BY <1>0, <1>5, EventIsTyped DEF Cancels
  <2>2. CASE /\ jobs' = <<>> /\ asked' = Nobody
             /\ summary' = [p \in Person |-> IF asked[p] = None THEN summary[p] ELSE "sync_failed"]
             /\ UNCHANGED rebuild
    <3>1. jobs' \in Seq(JobRow) /\ asked' \in [Person -> Request \cup {None}]
      BY <2>2 DEF Nobody
    <3>2. summary' \in [Person -> Summary]
      BY <1>0, <2>2 DEF TypeOK, Summary
    <3> QED
      BY <1>0, <1>5, <2>1, <2>2, <3>1, <3>2 DEF Cancels, TypeOK, WhoInv
  <2>3. CASE At("next") /\ Go("failing") /\ UNCHANGED <<queue, summary>>
    <3>1. rebuild' \in RebuildState /\ rebuild'.pc = "failing" /\ sync[Rebuild].pc = "idle"
      BY <1>0, <2>3, GoIsTyped DEF At, Go, RebuildPc, RebuildState, WhoInv, TypeOK
    <3> QED
      BY <1>0, <1>5, <2>1, <2>3, <3>1 DEF Cancels, TypeOK, WhoInv
  <2> QED
    BY <1>5, <2>2, <2>3 DEF Cancels
<1>6. CASE Crash
  <2>1. rebuild.job \in JobRow
    BY <1>0 DEF TypeOK, RebuildState
  <2>2. jobs' \in Seq(JobRow)
    <3>1. jobs' = jobs \/ jobs' = <<rebuild.job>> \o jobs
      BY <1>6 DEF Crash
    <3>2. <<rebuild.job>> \o jobs \in Seq(JobRow)
      BY <1>0, <2>1, ConcatProperties DEF TypeOK
    <3> QED
      BY <1>0, <3>1, <3>2 DEF TypeOK
  <2>3. asked' \in [Person -> Request \cup {None}]
    <3> DEFINE again(p) == [photo |-> sync[p].photo, reset |-> sync[p].reset]
    <3>1. \A p \in Person : sync[p].pc # "idle" => again(p) \in Request
      BY <1>0, ActorHasSync DEF TypeOK, WhoInv, SyncState, Request
    <3>2. asked' = [p \in Person |-> IF SyncIs(p, "idle") \/ asked[p] # None THEN asked[p]
                                     ELSE again(p)]
      BY <1>6 DEF Crash
    <3>3. asked \in [Person -> Request \cup {None}]
      BY <1>0 DEF TypeOK
    <3> HIDE DEF again
    <3> QED
      BY <3>1, <3>2, <3>3 DEF SyncIs
  <2>4. rebuild' = Quiet /\ sync' = [a \in Actor |-> Idle] /\ desk' = NoDesk /\ tick' = None
    BY <1>6 DEF Crash
  <2>5. rebuild' \in RebuildState /\ sync' \in [Actor -> SyncState] /\ desk' \in DeskState
    BY <2>4, QuietIsTyped
  <2>6. WhoInv'
    BY <2>4, LedgerAssumption DEF WhoInv, Quiet, Idle, Actor
  <2>7. Event
    BY <1>6 DEF Crash
  <2> QED
    BY <1>0, <1>6, <2>2, <2>3, <2>4, <2>5, <2>6, <2>7, EventIsTyped DEF Crash, TypeOK
<1>7. CASE DayPasses
  <2>1. reader' \in ReaderRow
    BY <1>0, <1>7 DEF DayPasses, TypeOK, ReaderRow
  <2> QED
    BY <1>0, <1>7, <2>1 DEF DayPasses, TypeOK, WhoInv
<1>8. ASSUME NEW p \in Person, ChangePhoto(p) PROVE Typed'
  <2>0. photo \in [Person -> Nat] /\ photo' = [photo EXCEPT ![p] = photo[p] + 1]
    BY <1>0, <1>8 DEF ChangePhoto, TypeOK
  <2>1. photo' \in [Person -> Nat] /\ Event /\ Asks(p, TRUE)
    <3>1. Event /\ Asks(p, TRUE)
      BY <1>8 DEF ChangePhoto
    <3>2. photo' \in [Person -> Nat]
      BY <2>0
    <3> QED
      BY <3>1, <3>2
  <2>2. asked' \in [Person -> Request \cup {None}] /\ summary' \in [Person -> Summary]
    BY <1>0, <2>1, AsksIsTyped
  <2> QED
    BY <1>0, <1>8, <2>1, <2>2, EventIsTyped DEF ChangePhoto, TypeOK, WhoInv
<1>9. ASSUME NEW p \in Person, CorrectBirthDate(p) PROVE Typed'
  <2>1. photo' \in [Person -> Nat] /\ Event /\ Asks(p, TRUE)
    BY <1>0, <1>9 DEF CorrectBirthDate, TypeOK
  <2>2. asked' \in [Person -> Request \cup {None}] /\ summary' \in [Person -> Summary]
    BY <1>0, <2>1, AsksIsTyped
  <2>3. minor' \in [Person -> BOOLEAN] /\ corrected' \in SUBSET Person
    BY <1>0, <1>9 DEF CorrectBirthDate, TypeOK
  <2> QED
    BY <1>0, <1>9, <2>1, <2>2, <2>3, EventIsTyped DEF CorrectBirthDate, TypeOK, WhoInv
<1>10. ASSUME NEW p \in Person, Birthday(p) PROVE Typed'
  <2>1. minor' \in [Person -> BOOLEAN]
    BY <1>0, <1>10 DEF Birthday, TypeOK
  <2> QED
    BY <1>0, <1>10, <2>1 DEF Birthday, TypeOK, WhoInv
<1>11. ASSUME NEW p \in Person, NEW reset \in BOOLEAN, Resync(p, reset) PROVE Typed'
  <2>1. photo' \in [Person -> Nat] /\ Event /\ Asks(p, reset)
    BY <1>0, <1>11 DEF Resync, TypeOK
  <2>2. asked' \in [Person -> Request \cup {None}] /\ summary' \in [Person -> Summary]
    BY <1>0, <2>1, AsksIsTyped
  <2> QED
    BY <1>0, <1>11, <2>1, <2>2, EventIsTyped DEF Resync, TypeOK, WhoInv
<1> QED
  BY <1>1, <1>2, <1>3, <1>4, <1>5, <1>6, <1>7, <1>8, <1>9, <1>10, <1>11 DEF World

LEMMA TypeStep == ASSUME Typed, [Next]_vars PROVE Typed'
<1>1. CASE Next
  BY <1>1, TypeSync, TypePerson, TypeRebuild, TypeDesk, TypeListener, TypeWorld DEF Next, Worker
<1>2. CASE UNCHANGED vars
  BY <1>2 DEF Typed, TypeOK, WhoInv, vars, people, ledger, queue, office, ghosts
<1> QED
  BY <1>1, <1>2

(* Every reachable state has the types of ReaderLedger: a rebuild works on *)
(* somebody it listed, a sync in progress has a photo, versions are        *)
(* numbers.                                                                *)
THEOREM LedgerTypeCorrect == Spec => []TypeOK
<1>1. Typed => TypeOK
  BY DEF Typed
<1> QED
  BY TypeInit, TypeStep, <1>1, PTL DEF Spec

-----------------------------------------------------------------------------
(* Versions that were read are never ahead of the one of the reader.       *)

LEMMA JobsOfLarger ==
  ASSUME TypeOK, VersionInv, NEW ver \in Versions, NEW force \in BOOLEAN
  PROVE  \A i \in DOMAIN Enqueued(ver, force) : Enqueued(ver, force)[i].ver \in Versions
<1> DEFINE row == [ver |-> ver, force |-> force, begun |-> FALSE]
           more == Append(jobs, row)
<1>1. jobs \in Seq(JobRow)
  BY DEF TypeOK
<1>2. row.ver = ver
  OBVIOUS
<1>3. Enqueued(ver, force) \in {jobs, more}
  BY DEF Enqueued
<1>4. row \in JobRow \cup {row}
  OBVIOUS
<1> HIDE DEF row
<1>5. jobs \in Seq(JobRow \cup {row})
  BY <1>1
<1>6. \A i \in DOMAIN more : more[i] = row \/ (i \in DOMAIN jobs /\ more[i] = jobs[i])
  BY <1>4, <1>5, AppendProperties
<1>7. \A i \in DOMAIN more : more[i].ver \in Versions
  BY <1>2, <1>6 DEF VersionInv
<1> HIDE DEF more
<1> QED
  BY <1>3, <1>7 DEF VersionInv

LEMMA VersionByParts ==
  ASSUME TypeOK, TypeOK', reader'.ver >= reader.ver,
         \A i \in DOMAIN jobs' : jobs'[i].ver \in Versions,
         rebuild'.job.ver \in Versions, tick' \in Versions, desk'.ver \in Versions'
  PROVE  VersionInv'
<1>1. Versions \subseteq Versions'
  BY DEF TypeOK, ReaderRow, Versions
<1> QED
  BY <1>1 DEF VersionInv

LEMMA VersionStep == ASSUME TypeOK, TypeOK', VersionInv, [Next]_vars PROVE VersionInv'
<1> USE DEF people, ledger, queue, office, ghosts
<1>0. /\ reader \in ReaderRow /\ reader.ver \in Nat /\ None \in Versions /\ None \in Versions'
      /\ \A i \in DOMAIN jobs : jobs[i].ver \in Versions
      /\ rebuild.job.ver \in Versions /\ tick \in Versions /\ desk.ver \in Versions
  BY DEF TypeOK, ReaderRow, VersionInv, Versions
<1> DEFINE Same == /\ reader'.ver = reader.ver
                   /\ rebuild'.job.ver \in {rebuild.job.ver, None}
                   /\ UNCHANGED <<jobs, tick, desk>>
<1>1. ASSUME Same PROVE VersionInv'
  <2>1. reader'.ver >= reader.ver /\ Versions' = Versions
    BY <1>0, <1>1 DEF Versions
  <2> QED
    BY <1>0, <1>1, <2>1, VersionByParts
<1>2. CASE UNCHANGED vars
  BY <1>1, <1>2 DEF vars
<1>3. ASSUME NEW a \in Actor, SyncStep(a) PROVE VersionInv'
  BY <1>1, <1>3 DEF SyncStep, SyncReads, SyncRemoves, SyncForgets, SyncResets, SyncPlans,
     SyncWrites, SyncRecords
<1>4. ASSUME NEW p \in Person, PersonStep(p) PROVE VersionInv'
  BY <1>1, <1>4 DEF PersonStep, PersonStarts, PersonRetries, PersonEnds
<1>5. CASE RebuildStep
  <2>1. CASE RebuildStarts
    <3>1. Head(jobs).ver \in Versions /\ rebuild'.job = Head(jobs)
      BY <1>0, <2>1, HeadTailProperties DEF RebuildStarts, TypeOK, Quiet
    <3>2. \A i \in DOMAIN jobs' : i + 1 \in DOMAIN jobs /\ jobs'[i] = jobs[i + 1]
      BY <2>1, HeadTailProperties DEF RebuildStarts, TypeOK
    <3> QED
      BY <1>0, <2>1, <3>1, <3>2, VersionByParts DEF RebuildStarts, Versions
  <2>2. CASE Applies \/ Fails
    <3>1. reader'.ver = reader.ver
      BY <1>0, <2>2 DEF Applies, Fails, Marked, ReaderRow
    <3>2. rebuild'.job.ver = None
      BY <2>2 DEF Applies, Fails, Quiet, NoJob
    <3> QED
      BY <1>1, <2>2, <3>1, <3>2 DEF Applies, Fails
  <2>3. CASE ~ RebuildStarts /\ ~ Applies /\ ~ Fails
    <3>1. rebuild \in RebuildState
      BY DEF TypeOK
    <3>2. \A p : Processed(p).job.ver = rebuild.job.ver
      BY <3>1 DEF Processed, RebuildState, JobRow
    <3>3. UNCHANGED <<reader, jobs, tick, desk>>
      BY <1>5, <2>3 DEF RebuildStep, PurgeReads, PurgeForgets, PurgeEnds, ForceResets, Lists,
         Synced, PurgeRemoves, Takes
    <3>4. rebuild'.job.ver = rebuild.job.ver
      <4>1. CASE PurgeReads \/ PurgeForgets \/ PurgeEnds \/ ForceResets \/ Lists
        BY <3>1, <4>1 DEF PurgeReads, PurgeForgets, PurgeEnds, ForceResets, Lists, Go, RebuildState
      <4>2. CASE Synced
        <5> DEFINE done == Processed(rebuild.who)
        <5>1. done \in RebuildState /\ done.job.ver = rebuild.job.ver
          BY <3>2, ProcessedIsTyped
        <5>2. rebuild' = [done EXCEPT !.pc = "next", !.who = None]
              \/ rebuild' = [rebuild EXCEPT !.pc = "failing", !.who = None]
          BY <4>2 DEF Synced
        <5> HIDE DEF done
        <5> QED
          BY <3>1, <5>1, <5>2 DEF RebuildState
      <4>3. ASSUME NEW p \in Person, PurgeRemoves(p) PROVE rebuild'.job.ver = rebuild.job.ver
        BY <3>1, <4>3 DEF PurgeRemoves, RebuildState
      <4>4. ASSUME NEW p \in Person, Takes(p) PROVE rebuild'.job.ver = rebuild.job.ver
        BY <3>1, <3>2, <4>4 DEF Takes, Go, RebuildState
      <4> QED
        BY <1>5, <2>3, <4>1, <4>2, <4>3, <4>4 DEF RebuildStep
    <3> QED
      BY <1>1, <3>3, <3>4
  <2> QED
    BY <2>1, <2>2, <2>3
<1>6. CASE Desk
  <2>1. CASE DeskForgets
    BY <1>0, <2>1, VersionByParts DEF DeskForgets, AtDesk, NoDesk
  <2>2. CASE DeskAsks
    <3>1. desk.force \in BOOLEAN /\ reader'.ver >= reader.ver
      BY <1>0, <2>2 DEF DeskAsks, TypeOK, DeskState
    <3>2. \A i \in DOMAIN jobs' : jobs'[i].ver \in Versions
      BY <1>0, <2>2, <3>1, JobsOfLarger DEF DeskAsks
    <3> QED
      BY <1>0, <2>2, <3>1, <3>2, VersionByParts DEF DeskAsks, AtDesk, NoDesk
  <2> QED
    BY <1>6, <2>1, <2>2 DEF Desk
<1>7. CASE Listener
  <2>1. CASE ListenerReads
    BY <1>0, <2>1, VersionByParts DEF ListenerReads, Versions
  <2>2. CASE ListenerAsks
    <3>1. \A i \in DOMAIN jobs' : jobs'[i].ver \in Versions
      BY <1>0, <2>2, JobsOfLarger DEF ListenerAsks
    <3>2. Versions' = Versions /\ reader'.ver >= reader.ver
      BY <1>0, <2>2 DEF ListenerAsks, Versions
    <3> QED
      BY <1>0, <2>2, <3>1, <3>2, VersionByParts DEF ListenerAsks
  <2> QED
    BY <1>7, <2>1, <2>2 DEF Listener
<1>8. CASE World
  <2>1. ASSUME NEW active \in BOOLEAN, NEW limit \in BOOLEAN, UpdateReader(active, limit)
        PROVE  VersionInv'
    <3>1. reader'.ver \in {reader.ver, reader.ver + 1}
      BY <1>0, <2>1 DEF UpdateReader, ReaderRow
    <3>2. desk' = desk \/ (desk'.ver = reader.ver + 1 /\ reader'.ver = reader.ver + 1)
      BY <1>0, <2>1 DEF UpdateReader, AtDesk
    <3>3. reader'.ver >= reader.ver /\ desk'.ver \in Versions'
      BY <1>0, <3>1, <3>2 DEF Versions
    <3> QED
      BY <1>0, <2>1, <3>3, VersionByParts DEF UpdateReader
  <2>2. ASSUME NEW force \in BOOLEAN, RequestRebuild(force) PROVE VersionInv'
    BY <1>0, <2>2, VersionByParts DEF RequestRebuild, AtDesk
  <2>3. CASE Wipes
    BY <1>0, <2>3, VersionByParts DEF Wipes, AtDesk, NoDesk
  <2>4. CASE Cancels
    <3>1. rebuild'.job.ver = rebuild.job.ver
      BY <2>4 DEF Cancels, Go, TypeOK, RebuildState
    <3>2. jobs' = jobs \/ jobs' = <<>>
      BY <2>4 DEF Cancels
    <3>3. Versions' = Versions /\ reader'.ver >= reader.ver
      BY <1>0, <2>4 DEF Cancels, Versions
    <3> QED
      BY <1>0, <2>4, <3>1, <3>2, <3>3, VersionByParts DEF Cancels
  <2>5. CASE Crash
    <3>1. rebuild'.job.ver = None /\ desk'.ver = None /\ tick' = None
      BY <2>5 DEF Crash, Quiet, NoJob, NoDesk, AtDesk
    <3>2. \A i \in DOMAIN jobs' : jobs'[i].ver \in Versions
      <4>1. jobs' = jobs \/ jobs' = <<rebuild.job>> \o jobs
        BY <2>5 DEF Crash
      <4>2. <<rebuild.job>> \in Seq(JobRow) /\ jobs \in Seq(JobRow)
        BY DEF TypeOK, RebuildState
      <4>3. \A i \in DOMAIN (<<rebuild.job>> \o jobs) :
              \/ (<<rebuild.job>> \o jobs)[i] = rebuild.job
              \/ i - 1 \in DOMAIN jobs /\ (<<rebuild.job>> \o jobs)[i] = jobs[i - 1]
        BY <4>2, ConcatProperties
      <4> QED
        BY <1>0, <4>1, <4>3
    <3>3. reader'.ver >= reader.ver
      BY <1>0, <2>5 DEF Crash
    <3> QED
      BY <1>0, <3>1, <3>2, <3>3, VersionByParts
  <2>6. CASE Replaced \/ DayPasses
    BY <1>0, <1>1, <2>6 DEF Replaced, DayPasses, ReaderRow
  <2>7. ASSUME NEW p \in Person,
               \/ ChangePhoto(p) \/ CorrectBirthDate(p) \/ Birthday(p)
               \/ \E reset \in BOOLEAN : Resync(p, reset)
        PROVE  VersionInv'
    BY <1>1, <2>7 DEF ChangePhoto, CorrectBirthDate, Birthday, Resync
  <2> QED
    BY <1>8, <2>1, <2>2, <2>3, <2>4, <2>5, <2>6, <2>7 DEF World
<1> QED
  BY <1>2, <1>3, <1>4, <1>5, <1>6, <1>7, <1>8 DEF Next, Worker

-----------------------------------------------------------------------------
(* A sync that goes on towards its write is still let in.                  *)

Undisturbed == Races \cap {"policy", "birth"} = {}

LEMMA WriteByParts ==
  ASSUME WriteInv,
         \A a \in Actor : sync'[a].pc \in Bound =>
           \/ sync[a].pc \in Bound /\ (Allowed(Who(a)) => Allowed(Who(a))')
           \/ Allowed(Who(a))'
  PROVE  WriteInv'
BY DEF WriteInv

LEMMA IdleIsUnbound ==
  ASSUME Typed, NEW p \in Person, ~ InFlight(p), NEW a \in Actor, sync[a].pc # "idle"
  PROVE  Who(a) # p
BY DEF Typed, WhoInv, InFlight, Who, Actor

LEMMA WriteStep ==
  ASSUME Undisturbed, Typed, WriteInv, [Next]_vars PROVE WriteInv'
<1> USE LedgerAssumption DEF people, ledger, queue, office, ghosts
<1>0. /\ TypeOK /\ WhoInv /\ reader \in ReaderRow /\ rebuild \in RebuildState
      /\ sync \in [Actor -> SyncState] /\ minor \in [Person -> BOOLEAN]
      /\ Person \subseteq Actor /\ Rebuild \in Actor
      /\ \A a \in Actor : sync[a].pc # "idle" => Who(a) \in Person
  BY ActorHasSync, WhoIsAPerson DEF Typed, TypeOK
<1>1. ASSUME UNCHANGED <<reader, minor, sync>>, rebuild'.who = rebuild.who PROVE WriteInv'
  BY <1>1, WriteByParts DEF Allowed, Who
<1>2. CASE UNCHANGED vars
  BY <1>1, <1>2 DEF vars
<1>3. ASSUME NEW a \in Actor, SyncStep(a) PROVE WriteInv'
  <2>1. UNCHANGED <<reader, minor, rebuild>>
    BY <1>3 DEF SyncStep, SyncReads, SyncRemoves, SyncForgets, SyncResets, SyncPlans,
       SyncWrites, SyncRecords
  <2>2. \A b \in Actor \ {a} : sync'[b] = sync[b]
    BY <1>0, <1>3 DEF SyncStep, SyncReads, SyncRemoves, SyncForgets, SyncResets, SyncPlans,
       SyncWrites, SyncRecords, SyncTo
  <2>3. sync'[a].pc \in Bound => sync[a].pc \in Bound \/ Allowed(Who(a))
    BY <1>0, <1>3 DEF SyncStep, SyncReads, SyncRemoves, SyncForgets, SyncResets, SyncPlans,
       SyncWrites, SyncRecords, SyncTo, SyncIs, Bound, SyncState
  <2> QED
    BY <2>1, <2>2, <2>3, WriteByParts DEF Allowed, Who
<1>4. ASSUME NEW p \in Person, PersonStep(p) PROVE WriteInv'
  <2>1. UNCHANGED <<reader, minor, rebuild>>
    BY <1>4 DEF PersonStep, PersonStarts, PersonRetries, PersonEnds
  <2>2. \A b \in Actor \ {p} : sync'[b] = sync[b]
    BY <1>0, <1>4 DEF PersonStep, PersonStarts, PersonRetries, PersonEnds
  <2>3. sync'[p].pc \in Bound => sync[p].pc \in Bound
    <3> DEFINE new == [Idle EXCEPT !.pc = "read", !.reset = asked[p].reset,
                         !.photo = IF p \in Rekeyed THEN asked[p].photo ELSE photo[p]]
    <3>1. new.pc = "read" /\ Idle.pc = "idle"
      BY DEF Idle
    <3> HIDE DEF new
    <3>2. CASE PersonStarts(p)
      <4>1. sync' = [sync EXCEPT ![p] = new] \/ sync' = sync
        BY <3>2 DEF PersonStarts, new
      <4> QED
        BY <1>0, <3>1, <4>1 DEF Bound
    <3>3. CASE PersonRetries(p)
      <4>1. sync'[p].pc = "read"
        BY <1>0, <3>3 DEF PersonRetries, SyncState
      <4> QED
        BY <4>1 DEF Bound
    <3>4. CASE PersonEnds(p)
      BY <1>0, <3>1, <3>4 DEF PersonEnds, Bound
    <3> QED
      BY <1>4, <3>2, <3>3, <3>4 DEF PersonStep
  <2> QED
    BY <2>1, <2>2, <2>3, WriteByParts DEF Allowed, Who
<1>5. CASE RebuildStep
  <2>1. UNCHANGED minor /\ reader'.limit = reader.limit
    BY <1>0, <1>5 DEF RebuildStep, RebuildStarts, PurgeReads, PurgeForgets, PurgeEnds,
       ForceResets, Lists, Synced, Applies, Fails, Marked, PurgeRemoves, Takes, ReaderRow
  <2>2. \A p \in Person : sync'[p] = sync[p]
    BY <1>0, <1>5 DEF RebuildStep, RebuildStarts, PurgeReads, PurgeForgets, PurgeEnds,
       ForceResets, Lists, Synced, Applies, Fails, PurgeRemoves, Takes
  <2>3. sync'[Rebuild].pc \notin Bound
    <3>1. CASE rebuild.pc # "syncing"
      <4>1. sync[Rebuild].pc = "idle"
        BY <1>0, <3>1 DEF WhoInv
      <4>2. sync'[Rebuild].pc \in {"idle", "read"}
        <5>1. ASSUME NEW p \in Person, Takes(p) PROVE sync'[Rebuild].pc \in {"idle", "read"}
          <6> DEFINE new == [Idle EXCEPT !.pc = "read", !.photo = photo[p]]
          <6>1. new.pc = "read"
            BY DEF Idle
          <6>2. sync' = [sync EXCEPT ![Rebuild] = new] \/ sync' = sync
            BY <5>1 DEF Takes
          <6> HIDE DEF new
          <6> QED
            BY <1>0, <4>1, <6>1, <6>2
        <5>2. CASE \A p \in Person : ~ Takes(p)
          BY <1>0, <1>5, <3>1, <4>1, <5>2 DEF RebuildStep, RebuildStarts, PurgeReads,
             PurgeForgets, PurgeEnds, ForceResets, Lists, Synced, Applies, Fails, PurgeRemoves, At
        <5> QED
          BY <5>1, <5>2
      <4> QED
        BY <4>2 DEF Bound
    <3>2. CASE rebuild.pc = "syncing"
      <4>1. Synced
        BY <1>5, <3>2 DEF RebuildStep, RebuildStarts, PurgeReads, PurgeForgets, PurgeEnds,
           ForceResets, Lists, Applies, Fails, PurgeRemoves, Takes, At
      <4> QED
        BY <1>0, <4>1 DEF Synced, Idle, Bound
    <3> QED
      BY <3>1, <3>2
  <2> QED
    BY <1>0, <2>1, <2>2, <2>3, WriteByParts DEF Allowed, Who, Actor
<1>6. CASE Desk \/ Listener
  BY <1>1, <1>6 DEF Desk, DeskForgets, DeskAsks, Listener, ListenerReads, ListenerAsks
<1>7. CASE World
  <2>1. ASSUME NEW active \in BOOLEAN, NEW limit \in BOOLEAN, UpdateReader(active, limit)
        PROVE  WriteInv'
    <3>1. UNCHANGED <<minor, sync, rebuild>> /\ \A p \in Person : ~ InFlight(p)
      BY <2>1 DEF UpdateReader, Calm, Undisturbed
    <3>2. \A a \in Actor : sync[a].pc = "idle"
      BY <1>0, <3>1, IdleIsUnbound
    <3> QED
      BY <3>1, <3>2, WriteByParts DEF Bound
  <2>2. CASE Replaced \/ Wipes \/ DayPasses \/ \E force \in BOOLEAN : RequestRebuild(force)
    <3>1. UNCHANGED <<minor, sync, rebuild>> /\ reader'.limit = reader.limit
      BY <1>0, <2>2 DEF Replaced, Wipes, DayPasses, RequestRebuild, ReaderRow
    <3> QED
      BY <3>1, WriteByParts DEF Allowed, Who
  <2>3. CASE Cancels
    BY <1>0, <1>1, <2>3 DEF Cancels, Go, RebuildState
  <2>4. CASE Crash
    BY <2>4, WriteByParts DEF Crash, Idle, Bound
  <2>5. ASSUME NEW p \in Person, CorrectBirthDate(p) \/ Birthday(p) PROVE WriteInv'
    <3>1. /\ UNCHANGED <<reader, sync, rebuild>> /\ ~ InFlight(p)
          /\ \A q \in Person \ {p} : minor'[q] = minor[q]
      BY <1>0, <2>5 DEF CorrectBirthDate, Birthday, CalmFor, Undisturbed
    <3>2. \A a \in Actor : sync[a].pc # "idle" => Who(a) \in Person \ {p}
      BY <1>0, <3>1, IdleIsUnbound
    <3> QED
      BY <3>1, <3>2, WriteByParts DEF Allowed, Who, Bound
  <2>6. ASSUME NEW p \in Person, ChangePhoto(p) \/ \E reset \in BOOLEAN : Resync(p, reset)
        PROVE  WriteInv'
    BY <1>1, <2>6 DEF ChangePhoto, Resync
  <2> QED
    BY <1>7, <2>1, <2>2, <2>3, <2>4, <2>5, <2>6 DEF World
<1> QED
  BY <1>2, <1>3, <1>4, <1>5, <1>6, <1>7 DEF Next, Worker

-----------------------------------------------------------------------------
(* A purge leaves nobody it should have removed, and nothing brings them   *)
(* back while its version of the policy stands.                            *)

SameRule == reader'.limit = reader.limit /\ reader'.ver = reader.ver /\ reader'.st = reader.st

LEMMA CleanByParts ==
  ASSUME PurgeInv, CleanInv, SameRule, UNCHANGED rebuild,
         reader.limit => Dirty' \subseteq Dirty
  PROVE  PurgeInv' /\ CleanInv'
BY DEF PurgeInv, CleanInv, SameRule, StillToRemove

LEMMA RemovedIsClean ==
  ASSUME TypeOK, NEW p \in Person, TakeOff(p), UNCHANGED minor
  PROVE  Dirty' \subseteq Dirty \ {p}
BY LedgerAssumption DEF TypeOK, TakeOff, Dirty

LEMMA CleanStepSync ==
  ASSUME Typed, WriteInv, PurgeInv, CleanInv, NEW a \in Actor, SyncStep(a)
  PROVE  PurgeInv' /\ CleanInv'
<1> USE DEF people, ledger, queue, office, ghosts
<1>1. UNCHANGED <<reader, minor, rebuild>>
  BY DEF SyncStep, SyncReads, SyncRemoves, SyncForgets, SyncResets, SyncPlans, SyncWrites,
     SyncRecords
<1>2. SUFFICES ASSUME reader.limit PROVE Dirty' \subseteq Dirty
  BY <1>1, CleanByParts DEF SameRule
<1>3. CASE UNCHANGED <<device, corrected>>
  BY <1>1, <1>3 DEF Dirty
<1>4. CASE SyncRemoves(a) /\ TakeOff(Who(a))
  <2>1. Who(a) \in Person
    BY <1>4, WhoIsAPerson DEF SyncRemoves, SyncIs, Typed
  <2> QED
    BY <1>1, <1>4, <2>1, RemovedIsClean DEF Typed
<1>5. CASE SyncWrites(a)
  <2>1. Who(a) \in Person /\ ~ minor[Who(a)]
    BY <1>2, <1>5, WhoIsAPerson DEF SyncWrites, SyncIs, Typed, WriteInv, Bound, Allowed
  <2>2. UNCHANGED corrected /\ \A p \in Person \ {Who(a)} : device'[p] = device[p]
    BY <1>5 DEF SyncWrites, Typed, TypeOK
  <2> QED
    BY <1>1, <2>1, <2>2 DEF Dirty
<1> QED
  BY <1>3, <1>4, <1>5 DEF SyncStep, SyncReads, SyncRemoves, SyncForgets, SyncResets, SyncPlans,
     SyncRecords

LEMMA CleanStepRebuild ==
  ASSUME Typed, PurgeInv, CleanInv, RebuildStep
  PROVE  PurgeInv' /\ CleanInv'
<1> USE LedgerAssumption DEF people, ledger, queue, office, ghosts
<1>0. /\ TypeOK /\ reader \in ReaderRow /\ rebuild \in RebuildState /\ reader.ver \in Nat
  BY DEF Typed, TypeOK, ReaderRow
<1>1. CASE RebuildStarts
  BY <1>1 DEF RebuildStarts, Quiet, PurgeInv, CleanInv, Dirty
<1>2. CASE PurgeReads
  <2>1. UNCHANGED reader /\ Dirty' = Dirty
    BY <1>2 DEF PurgeReads, Dirty
  <2>2. CleanInv'
    BY <2>1 DEF CleanInv
  <2>3. ASSUME reader.limit, reader.active
        PROVE  rebuild'.pc = "removing" /\ Dirty \subseteq rebuild'.todo
    BY <1>0, <1>2, <2>3 DEF PurgeReads, RebuildState, Dirty
  <2>4. reader.limit /\ ~ reader.active => rebuild'.pc = "failing"
    BY <1>0, <1>2 DEF PurgeReads, RebuildState
  <2>5. PurgeInv'
    BY <1>0, <2>1, <2>3, <2>4 DEF PurgeInv, StillToRemove, ReaderRow
  <2> QED
    BY <2>2, <2>5
<1>3. CASE PurgeForgets
  BY <1>0, <1>3 DEF PurgeForgets, At, PurgeInv, CleanInv, Dirty, StillToRemove, RebuildState
<1>4. CASE PurgeEnds
  BY <1>0, <1>4 DEF PurgeEnds, At, Go, AfterPurge, PurgeInv, CleanInv, Dirty, StillToRemove,
     RebuildState
<1>5. CASE ForceResets
  BY <1>0, <1>5 DEF ForceResets, At, Go, PurgeInv, CleanInv, Dirty, RebuildState
<1>6. CASE Lists
  BY <1>0, <1>6 DEF Lists, At, PurgeInv, CleanInv, Dirty, RebuildState
<1>7. CASE Synced
  <2>1. rebuild'.pc \in {"next", "failing"} /\ rebuild'.job.ver = rebuild.job.ver
    <3> DEFINE done == Processed(rebuild.who)
    <3>1. done \in RebuildState
      BY <1>0, ProcessedIsTyped
    <3>2. done.job.ver = rebuild.job.ver
      BY <1>0 DEF Processed, RebuildState, JobRow
    <3>3. rebuild' = [done EXCEPT !.pc = "next", !.who = None]
          \/ rebuild' = [rebuild EXCEPT !.pc = "failing", !.who = None]
      BY <1>7 DEF Synced
    <3> HIDE DEF done
    <3> QED
      BY <1>0, <3>1, <3>2, <3>3 DEF RebuildState
  <2>2. UNCHANGED reader /\ Dirty' = Dirty /\ rebuild.pc = "syncing"
    BY <1>7 DEF Synced, Dirty, At
  <2> QED
    BY <2>1, <2>2 DEF PurgeInv, CleanInv
<1>8. CASE Applies
  <2>1. rebuild'.job.ver = None /\ reader'.ver = reader.ver /\ reader'.limit = reader.limit
    BY <1>0, <1>8 DEF Applies, Quiet, NoJob, Marked, ReaderRow
  <2>2. PurgeInv'
    BY <1>0, <2>1 DEF PurgeInv
  <2>3. Dirty' = Dirty /\ (rebuild.job.ver = reader.ver /\ reader.limit => Dirty = {})
    BY <1>8 DEF Applies, Dirty, PurgeInv, At
  <2>4. rebuild.job.ver # reader.ver => reader' = reader
    BY <1>8 DEF Applies, Marked
  <2> QED
    BY <2>1, <2>2, <2>3, <2>4 DEF CleanInv
<1>9. CASE Fails
  <2>1. rebuild'.job.ver = None /\ reader'.ver = reader.ver /\ reader'.limit = reader.limit
    BY <1>0, <1>9 DEF Fails, Quiet, NoJob, Marked, ReaderRow
  <2>2. PurgeInv'
    BY <1>0, <2>1 DEF PurgeInv
  <2>3. Dirty' = Dirty /\ (reader' = reader \/ reader'.st = "failed")
    BY <1>0, <1>9 DEF Fails, Dirty, Marked, ReaderRow
  <2> QED
    BY <2>2, <2>3 DEF CleanInv
<1>10. ASSUME NEW p \in Person, PurgeRemoves(p) PROVE PurgeInv' /\ CleanInv'
  <2>1. UNCHANGED <<reader, minor>> /\ rebuild.pc = "removing"
    BY <1>10 DEF PurgeRemoves, At
  <2>2. CASE TakeOff(p) /\ rebuild' = [rebuild EXCEPT !.pc = "forgetting", !.who = p]
    <3>1. Dirty' \subseteq Dirty \ {p}
      BY <1>0, <2>1, <2>2, RemovedIsClean
    <3>2. /\ rebuild'.pc = "forgetting" /\ rebuild'.bad = rebuild.bad
          /\ rebuild'.job = rebuild.job /\ rebuild'.todo = rebuild.todo /\ rebuild'.who = p
      BY <1>0, <2>2 DEF RebuildState
    <3> QED
      BY <2>1, <3>1, <3>2 DEF PurgeInv, CleanInv, StillToRemove
  <2>3. CASE UNCHANGED <<device, corrected>>
             /\ rebuild' = [rebuild EXCEPT !.todo = @ \ {p}, !.bad = TRUE]
    <3>1. rebuild'.pc = "removing" /\ rebuild'.bad /\ Dirty' = Dirty
      BY <1>0, <2>1, <2>3 DEF RebuildState, Dirty
    <3> QED
      BY <2>1, <3>1 DEF PurgeInv, CleanInv
  <2> QED
    BY <1>10, <2>2, <2>3 DEF PurgeRemoves
<1>11. ASSUME NEW p \in Person, Takes(p) PROVE PurgeInv' /\ CleanInv'
  <2>1. UNCHANGED reader /\ Dirty' = Dirty /\ rebuild.pc = "next"
    BY <1>11 DEF Takes, At, Dirty
  <2>2. Processed(p).job.ver = rebuild.job.ver /\ Processed(p).pc = rebuild.pc
    BY <1>0 DEF Processed, RebuildState, JobRow
  <2>3. rebuild'.pc \in {"next", "syncing", "failing"} /\ rebuild'.job.ver = rebuild.job.ver
    BY <1>0, <1>11, <2>1, <2>2 DEF Takes, Go, RebuildState
  <2> QED
    BY <2>1, <2>3 DEF PurgeInv, CleanInv
<1> QED
  BY <1>1, <1>2, <1>3, <1>4, <1>5, <1>6, <1>7, <1>8, <1>9, <1>10, <1>11 DEF RebuildStep

LEMMA CleanStepWorld ==
  ASSUME Typed, VersionInv, PurgeInv, CleanInv, World
  PROVE  PurgeInv' /\ CleanInv'
<1> USE LedgerAssumption DEF people, ledger, queue, office, ghosts
<1>0. /\ TypeOK /\ reader \in ReaderRow /\ rebuild \in RebuildState /\ reader.ver \in Nat
      /\ rebuild.job.ver \in Versions
  BY DEF Typed, TypeOK, ReaderRow, VersionInv
<1>1. ASSUME NEW active \in BOOLEAN, NEW limit \in BOOLEAN, UpdateReader(active, limit)
      PROVE  PurgeInv' /\ CleanInv'
  <2>1. UNCHANGED rebuild /\ Dirty' = Dirty
    BY <1>1 DEF UpdateReader, Dirty
  <2>2. CASE reader' = [active |-> active, limit |-> limit, ver |-> reader.ver + 1,
                        st |-> "pending", today |-> FALSE]
    <3>1. rebuild'.job.ver # reader'.ver /\ reader'.st = "pending"
      BY <1>0, <2>1, <2>2 DEF Versions
    <3> QED
      BY <3>1 DEF PurgeInv, CleanInv
  <2>3. CASE reader' = [reader EXCEPT !.active = active]
    BY <1>0, <2>1, <2>3, CleanByParts DEF SameRule, ReaderRow
  <2> QED
    BY <1>1, <2>2, <2>3 DEF UpdateReader
<1>2. CASE Replaced \/ Wipes
  <2>1. UNCHANGED <<reader, minor, rebuild, corrected>>
        /\ \A p \in Person : device'[p] = device[p] \/ device'[p] = None
    BY <1>2 DEF Replaced, Wipes, Nobody
  <2>2. Dirty' \subseteq Dirty
    BY <2>1 DEF Dirty
  <2> QED
    BY <2>1, <2>2, CleanByParts DEF SameRule
<1>3. CASE DayPasses \/ \E force \in BOOLEAN : RequestRebuild(force)
  <2>1. SameRule /\ UNCHANGED rebuild /\ Dirty' = Dirty
    BY <1>0, <1>3 DEF DayPasses, RequestRebuild, SameRule, Dirty, ReaderRow
  <2> QED
    BY <2>1, CleanByParts
<1>4. CASE Cancels
  <2>1. UNCHANGED reader /\ Dirty' = Dirty
    BY <1>4 DEF Cancels, Dirty
  <2>2. UNCHANGED rebuild \/ rebuild'.pc = "failing"
    BY <1>0, <1>4 DEF Cancels, Go, RebuildState
  <2> QED
    BY <2>1, <2>2 DEF PurgeInv, CleanInv, StillToRemove
<1>5. CASE Crash
  <2>1. UNCHANGED reader /\ Dirty' = Dirty /\ rebuild'.pc = "idle"
    BY <1>5 DEF Crash, Dirty, Quiet
  <2> QED
    BY <2>1 DEF PurgeInv, CleanInv
<1>6. ASSUME NEW p \in Person, CorrectBirthDate(p) PROVE PurgeInv' /\ CleanInv'
  <2>1. UNCHANGED <<reader, rebuild, device>>
    BY <1>6 DEF CorrectBirthDate
  <2>2. CASE minor[p]
    <3>1. ~ minor'[p] /\ corrected' = corrected \ {p}
          /\ \A q \in Person \ {p} : minor'[q] = minor[q]
      BY <1>0, <1>6, <2>2 DEF CorrectBirthDate, TypeOK
    <3>2. Dirty' \subseteq Dirty
      BY <2>1, <3>1 DEF Dirty
    <3> QED
      BY <2>1, <3>2, CleanByParts DEF SameRule
  <2>3. CASE ~ minor[p]
    <3>1. corrected' = corrected \cup {p} /\ \A q \in Person \ {p} : minor'[q] = minor[q]
      BY <1>0, <1>6, <2>3 DEF CorrectBirthDate, TypeOK
    <3>2. Dirty' \subseteq Dirty
      BY <2>1, <3>1 DEF Dirty
    <3> QED
      BY <2>1, <3>2, CleanByParts DEF SameRule
  <2> QED
    BY <2>2, <2>3
<1>7. ASSUME NEW p \in Person, Birthday(p) PROVE PurgeInv' /\ CleanInv'
  <2>1. UNCHANGED <<reader, rebuild, device, corrected>>
        /\ \A q \in Person : minor'[q] => minor[q]
    BY <1>0, <1>7 DEF Birthday, TypeOK
  <2>2. Dirty' \subseteq Dirty
    BY <2>1 DEF Dirty
  <2> QED
    BY <2>1, <2>2, CleanByParts DEF SameRule
<1>8. ASSUME NEW p \in Person, ChangePhoto(p) \/ \E reset \in BOOLEAN : Resync(p, reset)
      PROVE  PurgeInv' /\ CleanInv'
  <2>1. UNCHANGED <<reader, rebuild>> /\ Dirty' = Dirty
    BY <1>8 DEF ChangePhoto, Resync, Dirty
  <2> QED
    BY <2>1, CleanByParts DEF SameRule
<1> QED
  BY <1>1, <1>2, <1>3, <1>4, <1>5, <1>6, <1>7, <1>8 DEF World

LEMMA LedgerStep ==
  ASSUME Undisturbed, Typed, Typed', LedgerInv, [Next]_vars PROVE LedgerInv'
<1>1. VersionInv' /\ WriteInv'
  BY VersionStep, WriteStep DEF LedgerInv, Typed
<1>2. PurgeInv' /\ CleanInv'
  <2>1. CASE \E a \in Actor : SyncStep(a)
    BY <2>1, CleanStepSync DEF LedgerInv
  <2>2. CASE RebuildStep
    BY <2>2, CleanStepRebuild DEF LedgerInv
  <2>3. CASE World
    BY <2>3, CleanStepWorld DEF LedgerInv
  <2>4. CASE (\E p \in Person : PersonStep(p)) \/ Desk \/ Listener \/ UNCHANGED vars
    <3>1. UNCHANGED <<reader, rebuild, minor, device, corrected>>
      BY <2>4 DEF PersonStep, PersonStarts, PersonRetries, PersonEnds, Desk, DeskForgets,
         DeskAsks, Listener, ListenerReads, ListenerAsks, vars, people, ledger, queue, office,
         ghosts
    <3>2. Dirty' = Dirty
      BY <3>1 DEF Dirty
    <3> QED
      BY <3>1, <3>2, CleanByParts DEF LedgerInv, SameRule
  <2> QED
    BY <2>1, <2>2, <2>3, <2>4 DEF Next, Worker
<1> QED
  BY <1>1, <1>2 DEF LedgerInv

LEMMA LedgerInit == ASSUME Init PROVE LedgerInv
<1> USE LedgerAssumption DEF Init
<1>1. VersionInv
  <2>0. DOMAIN jobs = {} /\ None \in Versions
    BY DEF Versions
  <2>1. rebuild.job.ver = None /\ tick = None
    BY DEF Quiet, NoJob
  <2>2. desk.ver \in Versions
    <3>1. CASE reader.limit
      BY <3>1 DEF AtDesk, Versions
    <3>2. CASE ~ reader.limit
      BY <3>2 DEF NoDesk, AtDesk, Versions
    <3> QED
      BY <3>1, <3>2
  <2> HIDE DEF Init
  <2> QED
    BY <2>0, <2>1, <2>2 DEF VersionInv
<1>2. WriteInv
  BY DEF WriteInv, Bound, Idle
<1>3. PurgeInv
  BY DEF PurgeInv, Quiet
<1>4. CleanInv
  BY DEF CleanInv
<1> QED
  BY <1>1, <1>2, <1>3, <1>4 DEF LedgerInv

(* A minimum age the reader shows as applied is applied, whoever syncs,    *)
(* wipes, rebuilds, cancels or crashes, and whichever job of an earlier    *)
(* version of the policy ends last, as long as the policy and the birth    *)
(* dates are left alone while a job is busy with somebody.                 *)
THEOREM AppliedPolicyHolds ==
  ASSUME Races \cap {"policy", "birth"} = {} PROVE Spec => []AppliedIsClean
<1>1. Init => Typed /\ LedgerInv
  BY TypeInit, LedgerInit
<1>2. Typed /\ LedgerInv /\ [Next]_vars => Typed' /\ LedgerInv'
  BY TypeStep, LedgerStep DEF Undisturbed
<1>3. Typed /\ LedgerInv => AppliedIsClean
  BY DEF LedgerInv, CleanInv, Dirty, AppliedIsClean
<1> QED
  BY <1>1, <1>2, <1>3, PTL DEF Spec

-----------------------------------------------------------------------------
(* Rows that are true.  Everybody who is busy with a person carries the    *)
(* current photo, and agrees with the policy on whether the person is let  *)
(* in; a row whose photo is not on the reader waits for a reset.           *)

SyncPhotoInv == \A a \in Actor : sync[a].pc # "idle" => sync[a].photo = photo[Who(a)]
AskedPhotoInv == \A p \in Person : asked[p] # None => asked[p].photo = photo[p]

(* The list of a rebuild is out of date only for those with a key per photo. *)
ListInv ==
  /\ \A p \in Person : rebuild.list[p] # None =>
       rebuild.list[p] <= photo[p] /\ (p \notin Rekeyed => rebuild.list[p] = photo[p])
  /\ rebuild.pc = "syncing" => rebuild.list[rebuild.who] = photo[rebuild.who]

OffInv ==
  /\ \A a \in Actor : sync[a].pc = "remove" => ~ Allowed(Who(a))
  /\ \A p \in rebuild.todo : ~ Allowed(p)

RecordInv ==
  \A a \in Actor : sync[a].pc = "record" /\ sync[a].out = "ok"
                    => device[Who(a)] = photo[Who(a)]

(* A row for a photo that is not on the reader.                            *)
Late(p) == p \in rows \ Leaving /\ device[p] # photo[p]

(* A sync that has still to delete the rows, or that ended without a look at them. *)
ToReset(s) ==
  /\ s.reset /\ ~ s.again
  /\ s.pc \in {"read", "remove", "reset"} \/ (s.pc = "end" /\ s.out = "nobody")

WaitsForReset(p) ==
  /\ summary[p] # "synced" /\ rebuild.list[p] # photo[p]
  /\ asked[p] # None => asked[p].reset
  /\ sync[p].pc # "idle" => ToReset(sync[p])

LateInv == ~ lost => \A p \in Person : Late(p) => WaitsForReset(p)

BusyInv == SyncPhotoInv /\ AskedPhotoInv /\ ListInv /\ OffInv /\ RecordInv
TrueInv == WriteInv /\ BusyInv /\ LateInv

LEMMA LeavingIs ==
  ASSUME NEW p
  PROVE  p \in Leaving <=> \/ \E a \in Actor : sync[a].pc = "forget" /\ Who(a) = p
                           \/ rebuild.pc = "forgetting" /\ rebuild.who = p
BY DEF Leaving, SyncIs, At

LEMMA LeavingWillBe ==
  ASSUME NEW p
  PROVE  p \in Leaving' <=> \/ \E a \in Actor : sync'[a].pc = "forget" /\ Who(a)' = p
                            \/ rebuild'.pc = "forgetting" /\ rebuild'.who = p
BY DEF Leaving, SyncIs, At

LEMMA LateGoesOn ==
  ASSUME ~ lost, LateInv, NEW p \in Person, Late(p), photo'[p] = photo[p],
         rebuild'.list[p] \in {rebuild.list[p], None}, photo[p] # None,
         asked'[p] \in {asked[p], None},
         sync'[p] = sync[p] \/ sync'[p].pc = "idle",
         summary'[p] \in {summary[p], "sync_failed"}
  PROVE  WaitsForReset(p)'
<1>1. WaitsForReset(p)
  BY DEF LateInv
<1> QED
  BY <1>1 DEF WaitsForReset

LEMMA TrueInit == ASSUME Init PROVE TrueInv
<1> USE ActorHasSync
<1>0. /\ \A a \in Actor : sync[a].pc = "idle" /\ rebuild.todo = {} /\ rebuild.pc = "idle"
      /\ \A p \in Person : rebuild.list[p] = None /\ asked[p] = None
  BY DEF Init, Idle, Quiet, Nobody
<1>1. WriteInv
  BY LedgerInit DEF LedgerInv
<1>2. BusyInv
  BY <1>0 DEF BusyInv, SyncPhotoInv, AskedPhotoInv, ListInv, OffInv, RecordInv
<1>3. \A p \in Person : ~ Late(p)
  BY DEF Init, Late
<1> QED
  BY <1>1, <1>2, <1>3 DEF TrueInv, LateInv

(* A step of one sync.                                                     *)

LEMMA SyncStepFrame ==
  ASSUME Typed, NEW a \in Actor, SyncStep(a)
  PROVE  /\ UNCHANGED <<reader, minor, photo, summary, asked, rebuild, lost>>
         /\ sync[a].pc # "idle" /\ Who(a) \in Person
         /\ \A b \in Actor \ {a} : sync'[b] = sync[b]
         /\ sync'[a] = [sync[a] EXCEPT !.pc = sync'[a].pc, !.out = sync'[a].out]
         /\ \A b \in Actor : Who(b)' = Who(b)
         /\ \A p \in Person \ {Who(a)} :
              device'[p] = device[p] /\ (p \in rows' <=> p \in rows)
<1> USE DEF people, ledger, queue, office, ghosts
<1>0. sync \in [Actor -> SyncState] /\ device \in [Person -> Nat \cup {None}]
  BY DEF Typed, TypeOK
<1>1. /\ UNCHANGED <<reader, minor, photo, summary, asked, rebuild, lost>>
      /\ sync[a].pc # "idle"
  BY DEF SyncStep, SyncReads, SyncRemoves, SyncForgets, SyncResets, SyncPlans, SyncWrites,
     SyncRecords, SyncIs
<1>2. Who(a) \in Person
  BY <1>1, WhoIsAPerson DEF Typed
<1>3. \E pc, out : SyncTo(a, pc, out)
  BY DEF SyncStep, SyncReads, SyncRemoves, SyncForgets, SyncResets, SyncPlans, SyncWrites,
     SyncRecords
<1>4. /\ \A b \in Actor \ {a} : sync'[b] = sync[b]
      /\ sync'[a] = [sync[a] EXCEPT !.pc = sync'[a].pc, !.out = sync'[a].out]
  BY <1>0, <1>3 DEF SyncTo, SyncState
<1>5. \A b \in Actor : Who(b)' = Who(b)
  BY <1>1 DEF Who
<1>6. \A p \in Person \ {Who(a)} : device'[p] = device[p] /\ (p \in rows' <=> p \in rows)
  BY <1>0 DEF SyncStep, SyncReads, SyncRemoves, SyncForgets, SyncResets, SyncPlans,
     SyncWrites, SyncRecords, TakeOff
<1> QED
  BY <1>1, <1>2, <1>4, <1>5, <1>6

LEMMA BusyStepSync ==
  ASSUME Typed, WriteInv, BusyInv, Races = {}, NEW a \in Actor, SyncStep(a)
  PROVE  BusyInv'
<1> USE DEF people, ledger, queue, office, ghosts
<1> DEFINE p == Who(a)
<1>0. /\ sync \in [Actor -> SyncState] /\ device \in [Person -> Nat \cup {None}]
      /\ sync[a] \in SyncState
  BY DEF Typed, TypeOK
<1>1. /\ UNCHANGED <<reader, minor, photo, asked, rebuild>>
      /\ sync[a].pc # "idle" /\ p \in Person
      /\ \A b \in Actor \ {a} : sync'[b] = sync[b]
      /\ sync'[a].photo = sync[a].photo
      /\ \A b \in Actor : Who(b)' = Who(b)
      /\ \A q \in Person \ {p} : device'[q] = device[q]
  BY <1>0, SyncStepFrame DEF SyncState
<1>2. \A q : Allowed(q)' = Allowed(q)
  BY <1>1 DEF Allowed
<1>3. SyncPhotoInv' /\ AskedPhotoInv' /\ ListInv'
  BY <1>1 DEF BusyInv, SyncPhotoInv, AskedPhotoInv, ListInv
<1>4. OffInv'
  <2>1. sync'[a].pc = "remove" => ~ Allowed(p)
    BY <1>0 DEF SyncStep, SyncReads, SyncRemoves, SyncForgets, SyncResets, SyncPlans, SyncWrites,
       SyncRecords, SyncTo, SyncIs, SyncState
  <2> QED
    BY <1>1, <1>2, <2>1 DEF BusyInv, OffInv
<1>5. RecordInv'
  <2>1. CASE SyncWrites(a)
    <3>1. CASE device' = [device EXCEPT ![p] = sync[a].photo]
      <4>1. device'[p] = photo[p]
        BY <1>0, <1>1, <3>1 DEF BusyInv, SyncPhotoInv
      <4> QED
        BY <1>1, <4>1, WhoIsAPerson DEF RecordInv, BusyInv, Typed
    <3>2. CASE UNCHANGED device /\ sync'[a].out = "failed"
      BY <1>1, <3>2 DEF RecordInv, BusyInv
    <3> QED
      BY <1>0, <2>1, <3>1, <3>2 DEF SyncWrites, SyncTo, SyncState
  <2>2. CASE SyncRemoves(a)
    <3>1. ~ Allowed(p) /\ sync'[a].pc # "record"
      BY <1>0, <2>2 DEF SyncRemoves, SyncIs, SyncTo, SyncState, BusyInv, OffInv
    <3>2. \A b \in Actor : sync[b].pc = "record" => Who(b) \in Person \ {p}
      BY <3>1, WhoIsAPerson DEF WriteInv, Bound, Typed
    <3> QED
      BY <1>1, <3>1, <3>2 DEF RecordInv, BusyInv
  <2>3. CASE UNCHANGED device /\ sync'[a].pc # "record"
    BY <1>1, <2>3 DEF RecordInv, BusyInv
  <2>4. ASSUME ~ SyncWrites(a), ~ SyncRemoves(a) PROVE UNCHANGED device /\ sync'[a].pc # "record"
    BY <1>0, <2>4 DEF SyncStep, SyncReads, SyncForgets, SyncResets, SyncPlans, SyncRecords,
       SyncTo, SyncState
  <2> QED
    BY <2>1, <2>2, <2>3, <2>4
<1> QED
  BY <1>3, <1>4, <1>5 DEF BusyInv

LEMMA LateStepSync ==
  ASSUME Typed, WriteInv, BusyInv, LateInv, Races = {}, NEW a \in Actor, SyncStep(a)
  PROVE  LateInv'
<1> USE LedgerAssumption DEF people, ledger, queue, office, ghosts
<1> DEFINE p == Who(a)
<1>0. /\ sync \in [Actor -> SyncState] /\ device \in [Person -> Nat \cup {None}]
      /\ sync[a] \in SyncState /\ photo \in [Person -> Nat] /\ Person \subseteq Actor
  BY ActorHasSync DEF Typed, TypeOK
<1>1. /\ UNCHANGED <<reader, minor, photo, summary, asked, rebuild, lost>>
      /\ sync[a].pc # "idle" /\ p \in Person
      /\ \A b \in Actor \ {a} : sync'[b] = sync[b]
      /\ sync'[a] = [sync[a] EXCEPT !.pc = sync'[a].pc, !.out = sync'[a].out]
      /\ \A b \in Actor : Who(b)' = Who(b)
      /\ \A q \in Person \ {p} : device'[q] = device[q] /\ (q \in rows' <=> q \in rows)
  BY SyncStepFrame
<1>2. SUFFICES ASSUME ~ lost, NEW q \in Person, Late(q)' PROVE WaitsForReset(q)'
  BY <1>1 DEF LateInv
<1>3. ASSUME q # p PROVE WaitsForReset(q)'
  <2>1. q \in Leaving => q \in Leaving'
    BY <1>1, <1>3, LeavingIs, LeavingWillBe
  <2>2. Late(q)
    BY <1>1, <1>2, <1>3, <2>1 DEF Late
  <2>3. a # q
    BY <1>3 DEF Who
  <2> QED
    BY <1>0, <1>1, <1>2, <2>2, <2>3, LateGoesOn
<1>4. ASSUME q = p PROVE WaitsForReset(q)'
  <2>1. p \in rows' /\ p \notin Leaving' /\ device'[p] # photo[p]
    BY <1>1, <1>2, <1>4 DEF Late
  <2>2. sync'[a].pc # "forget"
    BY <1>1, <2>1, LeavingWillBe
  <2>3. ~ SyncRemoves(a) /\ ~ SyncForgets(a) /\ ~ SyncResets(a)
    BY <1>0, <2>1, <2>2 DEF SyncRemoves, SyncForgets, SyncResets, SyncTo, SyncState
  <2>4. SyncReads(a) \/ SyncPlans(a) \/ SyncWrites(a) \/ SyncRecords(a)
    BY <2>3 DEF SyncStep
  <2>5. sync[a].pc # "forget"
    BY <2>4 DEF SyncReads, SyncPlans, SyncWrites, SyncRecords, SyncIs
  <2>6. p \notin Leaving
    BY <1>1, <2>1, <2>5, LeavingIs, LeavingWillBe
  <2>7. p \in rows
    <3>1. CASE SyncRecords(a)
      BY <2>1, <3>1 DEF SyncRecords, SyncIs, BusyInv, RecordInv
    <3>2. CASE SyncReads(a) \/ SyncPlans(a) \/ SyncWrites(a)
      BY <2>1, <3>2 DEF SyncReads, SyncPlans, SyncWrites
    <3> QED
      BY <2>4, <3>1, <3>2
  <2>8. device[p] # photo[p]
    <3>1. CASE SyncWrites(a)
      BY <1>0, <1>1, <2>1, <3>1 DEF SyncWrites, BusyInv, SyncPhotoInv
    <3>2. CASE SyncReads(a) \/ SyncPlans(a) \/ SyncRecords(a)
      BY <2>1, <3>2 DEF SyncReads, SyncPlans, SyncRecords
    <3> QED
      BY <2>4, <3>1, <3>2
  <2>9. Late(p) /\ WaitsForReset(p)
    BY <1>1, <1>2, <2>6, <2>7, <2>8 DEF Late, LateInv
  <2>10. CASE a = Rebuild
    BY <1>0, <1>1, <1>2, <1>4, <2>9, <2>10, LateGoesOn DEF Actor
  <2>11. CASE a # Rebuild
    <3>1. a = p /\ ToReset(sync[a])
      BY <1>1, <2>9, <2>11 DEF Who, WaitsForReset
    <3>2. SyncReads(a)
      BY <2>4, <3>1 DEF ToReset, SyncPlans, SyncWrites, SyncRecords, SyncIs
    <3>3. /\ sync[a].reset /\ ~ sync[a].again
          /\ sync'[a].reset = sync[a].reset /\ sync'[a].again = sync[a].again
      BY <1>0, <1>1, <3>1 DEF ToReset, SyncState
    <3>4. sync'[a].pc \in {"remove", "reset"} \/ (sync'[a].pc = "end" /\ sync'[a].out = "nobody")
      BY <1>0, <3>2, <3>3 DEF SyncReads, SyncTo, SyncState
    <3>5. ToReset(sync'[a])
      BY <3>3, <3>4 DEF ToReset
    <3> QED
      BY <1>1, <1>4, <2>9, <3>1, <3>5 DEF WaitsForReset
  <2> QED
    BY <2>10, <2>11
<1> QED
  BY <1>3, <1>4

(* A step of the job of a person.                                          *)

LEMMA BusyStepPerson ==
  ASSUME Typed, WriteInv, BusyInv, LateInv, NEW p \in Person, PersonStep(p)
  PROVE  BusyInv' /\ LateInv'
<1> USE ActorHasSync, LedgerAssumption DEF people, ledger, queue, office, ghosts
<1>0. /\ sync \in [Actor -> SyncState] /\ sync[p] \in SyncState /\ photo \in [Person -> Nat]
      /\ asked \in [Person -> Request \cup {None}] /\ summary \in [Person -> Summary]
      /\ p \in Actor /\ p # Rebuild
  BY DEF Typed, TypeOK
<1>1. UNCHANGED <<reader, minor, photo, device, rows, rebuild, lost>>
  BY DEF PersonStep, PersonStarts, PersonRetries, PersonEnds
<1>2. \A b \in Actor \ {p} : sync'[b] = sync[b]
  BY <1>0 DEF PersonStep, PersonStarts, PersonRetries, PersonEnds
<1>3. \A q \in Person \ {p} : asked'[q] = asked[q] /\ summary'[q] = summary[q]
  BY <1>0 DEF PersonStep, PersonStarts, PersonRetries, PersonEnds, Summarize
<1>4. asked'[p] \in {asked[p], None}
  BY <1>0 DEF PersonStep, PersonStarts, PersonRetries, PersonEnds
<1>5. sync'[p].pc \in {"idle", "read"} /\ sync[p].pc \in {"idle", "end"}
  <2> DEFINE new == [Idle EXCEPT !.pc = "read", !.reset = asked[p].reset,
                       !.photo = IF p \in Rekeyed THEN asked[p].photo ELSE photo[p]]
  <2>1. new.pc = "read" /\ Idle.pc = "idle"
    BY DEF Idle
  <2>2. PersonStarts(p) => sync[p].pc = "idle" /\ sync' \in {sync, [sync EXCEPT ![p] = new]}
    BY DEF PersonStarts, SyncIs
  <2> HIDE DEF new
  <2>3. PersonStarts(p) => sync[p].pc = "idle" /\ sync'[p].pc \in {"idle", "read"}
    BY <1>0, <2>1, <2>2
  <2> QED
    BY <1>0, <2>1, <2>3 DEF PersonStep, PersonRetries, PersonEnds, SyncIs, SyncState
<1>6. sync'[p].pc = "read" => sync'[p].photo = photo[p]
  <2>1. CASE PersonStarts(p)
    <3> DEFINE own == IF p \in Rekeyed THEN asked[p].photo ELSE photo[p]
               new == [Idle EXCEPT !.pc = "read", !.reset = asked[p].reset, !.photo = own]
    <3>1. own = photo[p] /\ new.photo = own
      BY <2>1 DEF PersonStarts, BusyInv, AskedPhotoInv, Idle
    <3>2. sync[p].pc = "idle" /\ sync' \in {sync, [sync EXCEPT ![p] = new]}
      BY <2>1 DEF PersonStarts, SyncIs
    <3> HIDE DEF new
    <3> QED
      BY <1>0, <3>1, <3>2
  <2>2. CASE PersonRetries(p)
    BY <1>0, <2>2 DEF PersonRetries, SyncIs, SyncState, BusyInv, SyncPhotoInv, Who
  <2>3. CASE PersonEnds(p)
    BY <1>0, <2>3 DEF PersonEnds, Idle
  <2> QED
    BY <2>1, <2>2, <2>3 DEF PersonStep
<1>7. \A b \in Actor : Who(b)' = Who(b)
  BY <1>1 DEF Who
<1>8. \A q : Allowed(q)' = Allowed(q)
  BY <1>1 DEF Allowed
<1>9. BusyInv'
  <2>1. Who(p) = p
    BY <1>0 DEF Who
  <2>2. SyncPhotoInv' /\ AskedPhotoInv' /\ ListInv'
    BY <1>1, <1>2, <1>3, <1>4, <1>5, <1>6, <1>7, <2>1
       DEF BusyInv, SyncPhotoInv, AskedPhotoInv, ListInv
  <2>3. OffInv' /\ RecordInv'
    BY <1>1, <1>2, <1>5, <1>7, <1>8 DEF BusyInv, OffInv, RecordInv
  <2> QED
    BY <2>2, <2>3 DEF BusyInv
<1>10. LateInv'
  <2> SUFFICES ASSUME ~ lost, NEW q \in Person, Late(q)' PROVE WaitsForReset(q)'
    BY <1>1 DEF LateInv
  <2>1. q \in Leaving => q \in Leaving'
    BY <1>1, <1>2, <1>5, <1>7, LeavingIs, LeavingWillBe
  <2>2. Late(q)
    BY <1>1, <2>1 DEF Late
  <2>3. CASE q # p
    <3>1. photo[q] # None /\ sync'[q] = sync[q]
      BY <1>0, <1>2, <2>3
    <3> QED
      BY <1>1, <1>3, <2>2, <2>3, <3>1, LateGoesOn
  <2>4. CASE q = p
    <3>1. WaitsForReset(p)
      BY <2>2, <2>4 DEF LateInv
    <3>2. CASE PersonStarts(p)
      <4> DEFINE own == IF p \in Rekeyed THEN asked[p].photo ELSE photo[p]
                 new == [Idle EXCEPT !.pc = "read", !.reset = asked[p].reset, !.photo = own]
      <4>1. asked[p].reset
        BY <3>1, <3>2 DEF WaitsForReset, PersonStarts
      <4>2. ToReset(new)
        BY <4>1 DEF ToReset, Idle
      <4>3. sync' = sync \/ sync' = [sync EXCEPT ![p] = new]
        BY <3>2 DEF PersonStarts
      <4>4. sync'[p].pc # "idle" => ToReset(sync'[p])
        <5> HIDE DEF new
        <5> QED
          BY <1>0, <3>1, <4>2, <4>3 DEF WaitsForReset
      <4>5. summary'[p] \in {summary[p], "sync_failed"} /\ asked'[p] = None
        BY <1>0, <3>2 DEF PersonStarts, Summarize
      <4> QED
        BY <1>1, <2>4, <3>1, <4>4, <4>5 DEF WaitsForReset
    <3>3. CASE PersonRetries(p)
      BY <3>1, <3>3 DEF PersonRetries, SyncIs, WaitsForReset, ToReset
    <3>4. CASE PersonEnds(p)
      <4>1. sync[p].out = "nobody"
        BY <3>1, <3>4 DEF PersonEnds, SyncIs, WaitsForReset, ToReset
      <4>2. summary'[p] = "sync_failed" /\ sync'[p].pc = "idle" /\ asked' = asked
        BY <1>0, <3>4, <4>1 DEF PersonEnds, Summarize, Idle
      <4> QED
        BY <1>1, <2>4, <3>1, <4>2 DEF WaitsForReset
    <3> QED
      BY <3>2, <3>3, <3>4 DEF PersonStep
  <2> QED
    BY <2>3, <2>4
<1> QED
  BY <1>9, <1>10

(* A step of the rebuild.                                                  *)

LEMMA ProcessedIs ==
  ASSUME TypeOK, NEW p \in Person
  PROVE  /\ Processed(p).pc = rebuild.pc /\ Processed(p).todo = rebuild.todo
         /\ Processed(p).who = rebuild.who
         /\ Processed(p).list = [rebuild.list EXCEPT ![p] = None]
         /\ Processed(p).list[p] = None
         /\ \A q \in Person \ {p} : Processed(p).list[q] = rebuild.list[q]
<1>1. rebuild \in RebuildState /\ rebuild.list \in [Person -> Nat \cup {None}]
  BY DEF TypeOK, RebuildState
<1>2. Processed(p) = [rebuild EXCEPT !.list = [rebuild.list EXCEPT ![p] = None],
                                     !.job = [rebuild.job EXCEPT !.begun = TRUE]]
  BY <1>1 DEF Processed, RebuildState
<1>3. /\ Processed(p).pc = rebuild.pc /\ Processed(p).todo = rebuild.todo
      /\ Processed(p).who = rebuild.who
      /\ Processed(p).list = [rebuild.list EXCEPT ![p] = None]
  BY <1>1, <1>2 DEF RebuildState
<1> QED
  BY <1>1, <1>3

(* A job begins, and ends, with nothing to do.                             *)
LEMMA QuietIs ==
  ASSUME RebuildStarts \/ Applies \/ Fails
  PROVE  /\ rebuild'.pc \in {"purge", "idle"} /\ rebuild'.todo = {}
         /\ \A p \in Person : rebuild'.list[p] = None
<1>1. /\ Quiet \in RebuildState /\ Quiet.pc = "idle" /\ Quiet.todo = {}
      /\ \A p \in Person : Quiet.list[p] = None
  BY QuietIsTyped DEF Quiet, Nobody
<1>2. CASE RebuildStarts
  <2>1. rebuild' = [Quiet EXCEPT !.pc = "purge", !.job = Head(jobs)]
    BY <1>2 DEF RebuildStarts
  <2> QED
    BY <1>1, <2>1 DEF RebuildState
<1>3. CASE Applies \/ Fails
  BY <1>1, <1>3 DEF Applies, Fails
<1> QED
  BY <1>2, <1>3

(* What one step does to the local state of the rebuild.                   *)
LEMMA RebuildFrame ==
  ASSUME Typed, WriteInv, BusyInv, RebuildStep
  PROVE  /\ UNCHANGED <<minor, photo, asked, lost>> /\ reader'.limit = reader.limit
         /\ \A p \in Person : sync'[p] = sync[p]
         /\ sync'[Rebuild].pc \in {"idle", "read"}
         /\ sync[Rebuild].pc \in {"idle", "end"}
         /\ sync'[Rebuild].pc # "idle" =>
              rebuild'.who \in Person /\ sync'[Rebuild].photo = photo[rebuild'.who]
<1> USE LedgerAssumption DEF people, ledger, queue, office, ghosts
<1>0. /\ TypeOK /\ reader \in ReaderRow /\ rebuild \in RebuildState
      /\ sync \in [Actor -> SyncState] /\ Person \subseteq Actor /\ Rebuild \in Actor
  BY ActorHasSync DEF Typed, TypeOK
<1>1. UNCHANGED <<minor, photo, asked, lost>> /\ reader'.limit = reader.limit
  BY <1>0 DEF RebuildStep, RebuildStarts, PurgeReads, PurgeForgets, PurgeEnds, ForceResets,
     Lists, Synced, Applies, Fails, Marked, PurgeRemoves, Takes, ReaderRow
<1>2. CASE Synced
  <2>1. sync[Rebuild].pc = "end" /\ sync'[Rebuild].pc = "idle"
    BY <1>0, <1>2 DEF Synced, SyncIs, Idle
  <2>2. \A p \in Person : sync'[p] = sync[p]
    BY <1>0, <1>2 DEF Synced
  <2> QED
    BY <1>1, <2>1, <2>2
<1>3. ASSUME NEW p \in Person, Takes(p)
      PROVE  /\ \A q \in Person : sync'[q] = sync[q]
             /\ sync'[Rebuild].pc \in {"idle", "read"} /\ sync[Rebuild].pc = "idle"
             /\ sync'[Rebuild].pc # "idle" =>
                  rebuild'.who \in Person /\ sync'[Rebuild].photo = photo[rebuild'.who]
  <2> DEFINE new == [Idle EXCEPT !.pc = "read", !.photo = photo[p]]
  <2>1. new.pc = "read" /\ new.photo = photo[p]
    BY DEF Idle
  <2>2. sync[Rebuild].pc = "idle"
    BY <1>3 DEF Takes, At, Typed, WhoInv
  <2>3. \/ sync' = sync
        \/ /\ rebuild' = [rebuild EXCEPT !.pc = "syncing", !.who = p]
           /\ sync' = [sync EXCEPT ![Rebuild] = new]
    BY <1>3 DEF Takes
  <2> HIDE DEF new
  <2> QED
    BY <1>0, <2>1, <2>2, <2>3 DEF RebuildState
<1>4. ASSUME ~ Synced, \A p \in Person : ~ Takes(p)
      PROVE  sync' = sync /\ sync[Rebuild].pc = "idle"
  <2>1. sync' = sync /\ rebuild.pc # "syncing"
    BY <1>4 DEF RebuildStep, RebuildStarts, PurgeReads, PurgeForgets, PurgeEnds, ForceResets,
       Lists, Applies, Fails, PurgeRemoves, At
  <2> QED
    BY <2>1 DEF Typed, WhoInv
<1> QED
  BY <1>1, <1>2, <1>3, <1>4

LEMMA ListStepRebuild == ASSUME Typed, WriteInv, BusyInv, RebuildStep PROVE ListInv'
<1> USE LedgerAssumption DEF people, ledger, queue, office, ghosts
<1>0. TypeOK /\ rebuild \in RebuildState /\ photo \in [Person -> Nat] /\ ListInv
  BY DEF Typed, TypeOK, BusyInv
<1>1. photo' = photo
  BY RebuildFrame
<1>2. CASE /\ rebuild'.pc # "syncing"
           /\ \A p \in Person : rebuild'.list[p] \in {rebuild.list[p], None}
  BY <1>0, <1>1, <1>2 DEF ListInv
<1>3. CASE RebuildStarts \/ Applies \/ Fails
  <2>1. rebuild'.pc \in {"purge", "idle"} /\ \A p \in Person : rebuild'.list[p] = None
    BY <1>3, QuietIs
  <2> QED
    BY <1>2, <2>1
<1>4. CASE PurgeReads \/ PurgeForgets \/ PurgeEnds \/ ForceResets
  <2>1. rebuild'.pc # "syncing" /\ rebuild'.list = rebuild.list
    BY <1>0, <1>4 DEF PurgeReads, PurgeForgets, PurgeEnds, ForceResets, Go, AfterPurge,
       RebuildState
  <2> QED
    BY <1>2, <2>1
<1>5. CASE Lists
  <2>1. /\ rebuild'.pc = "next"
        /\ \A p \in Person : rebuild'.list[p] \in {photo[p], None}
    BY <1>0, <1>5 DEF Lists, RebuildState
  <2> QED
    BY <1>0, <1>1, <2>1 DEF ListInv
<1>6. CASE Synced
  <2> DEFINE done == Processed(rebuild.who)
  <2>1. rebuild.who \in Person
    BY <1>6 DEF Synced, At, Typed, WhoInv
  <2>2. done \in RebuildState /\ done.list = [rebuild.list EXCEPT ![rebuild.who] = None]
    BY <1>0, <2>1, ProcessedIs, ProcessedIsTyped
  <2>3. rebuild' = [done EXCEPT !.pc = "next", !.who = None]
        \/ rebuild' = [rebuild EXCEPT !.pc = "failing", !.who = None]
    BY <1>6 DEF Synced
  <2> HIDE DEF done
  <2>4. rebuild'.pc \in {"next", "failing"} /\ rebuild'.list \in {done.list, rebuild.list}
    BY <1>0, <2>2, <2>3 DEF RebuildState
  <2> QED
    BY <1>0, <1>2, <2>2, <2>4 DEF RebuildState
<1>7. ASSUME NEW p \in Person, PurgeRemoves(p) PROVE ListInv'
  <2>1. rebuild'.pc # "syncing" /\ rebuild'.list = rebuild.list
    BY <1>0, <1>7 DEF PurgeRemoves, At, RebuildState
  <2> QED
    BY <1>2, <2>1
<1>8. ASSUME NEW p \in Person, Takes(p) PROVE ListInv'
  <2>0. rebuild.pc = "next" /\ rebuild.list[p] # None
    BY <1>8 DEF Takes, At
  <2>1. CASE rebuild' = Processed(p)
    <3>1. rebuild'.pc = rebuild.pc /\ rebuild'.list = [rebuild.list EXCEPT ![p] = None]
      BY <1>0, <2>1, ProcessedIs
    <3> QED
      BY <1>0, <1>2, <2>0, <3>1 DEF RebuildState
  <2>2. CASE /\ p \in Rekeyed => rebuild.list[p] = photo[p]
             /\ rebuild' = [rebuild EXCEPT !.pc = "syncing", !.who = p]
    <3>1. rebuild'.who = p /\ rebuild'.list = rebuild.list /\ rebuild.list[p] = photo[p]
      BY <1>0, <2>0, <2>2 DEF RebuildState, ListInv
    <3> QED
      BY <1>0, <1>1, <3>1 DEF ListInv
  <2>3. CASE Go("failing")
    <3>1. rebuild'.pc = "failing" /\ rebuild'.list = rebuild.list
      BY <1>0, <2>3 DEF Go, RebuildState
    <3> QED
      BY <1>2, <3>1
  <2> QED
    BY <1>8, <2>1, <2>2, <2>3 DEF Takes
<1> QED
  BY <1>3, <1>4, <1>5, <1>6, <1>7, <1>8 DEF RebuildStep

LEMMA TodoStepRebuild ==
  ASSUME Typed, WriteInv, BusyInv, RebuildStep
  PROVE  \A p \in rebuild'.todo : ~ Allowed(p)'
<1> USE DEF people, ledger, queue, office, ghosts
<1>0. /\ TypeOK /\ rebuild \in RebuildState
      /\ UNCHANGED minor /\ reader'.limit = reader.limit
      /\ \A p \in rebuild.todo : ~ Allowed(p)
  BY RebuildFrame DEF Typed, TypeOK, BusyInv, OffInv
<1>1. \A p : Allowed(p)' <=> Allowed(p)
  BY <1>0 DEF Allowed
<1>2. CASE rebuild'.todo \subseteq rebuild.todo
  BY <1>0, <1>1, <1>2
<1>3. CASE RebuildStarts \/ Applies \/ Fails
  BY <1>3, QuietIs
<1>4. CASE PurgeReads
  <2>1. rebuild'.todo = rebuild.todo
        \/ (reader.limit /\ rebuild'.todo = {p \in Person : minor[p]})
    BY <1>0, <1>4 DEF PurgeReads, RebuildState
  <2> QED
    BY <1>1, <1>2, <2>1 DEF Allowed
<1>5. CASE PurgeForgets \/ PurgeEnds \/ ForceResets \/ Lists
  BY <1>0, <1>2, <1>5 DEF PurgeForgets, PurgeEnds, ForceResets, Lists, Go, RebuildState
<1>6. CASE Synced
  <2> DEFINE done == Processed(rebuild.who)
  <2>1. rebuild.who \in Person
    BY <1>6 DEF Synced, At, Typed, WhoInv
  <2>2. done \in RebuildState /\ done.todo = rebuild.todo
    BY <1>0, <2>1, ProcessedIs, ProcessedIsTyped
  <2>3. rebuild' = [done EXCEPT !.pc = "next", !.who = None]
        \/ rebuild' = [rebuild EXCEPT !.pc = "failing", !.who = None]
    BY <1>6 DEF Synced
  <2> HIDE DEF done
  <2> QED
    BY <1>0, <1>2, <2>2, <2>3 DEF RebuildState
<1>7. ASSUME NEW p \in Person, PurgeRemoves(p) PROVE rebuild'.todo \subseteq rebuild.todo
  BY <1>0, <1>7 DEF PurgeRemoves, RebuildState
<1>8. ASSUME NEW p \in Person, Takes(p) PROVE rebuild'.todo \subseteq rebuild.todo
  <2>1. Processed(p).todo = rebuild.todo
    BY <1>0, ProcessedIs
  <2> QED
    BY <1>0, <1>8, <2>1 DEF Takes, Go, RebuildState
<1> QED
  BY <1>2, <1>3, <1>4, <1>5, <1>6, <1>7, <1>8 DEF RebuildStep

LEMMA BusyStepRebuild == ASSUME Typed, WriteInv, BusyInv, RebuildStep PROVE BusyInv'
<1> USE LedgerAssumption DEF people, ledger, queue, office, ghosts
<1>0. /\ UNCHANGED <<minor, photo, asked>> /\ reader'.limit = reader.limit
      /\ \A p \in Person : sync'[p] = sync[p]
      /\ sync'[Rebuild].pc \in {"idle", "read"}
      /\ sync'[Rebuild].pc # "idle" => sync'[Rebuild].photo = photo[rebuild'.who]
  BY RebuildFrame
<1>1. /\ \A p \in Person : Who(p) = p /\ Who(p)' = p
      /\ Who(Rebuild)' = rebuild'.who
      /\ \A a \in Actor : a = Rebuild \/ a \in Person
  BY DEF Who, Actor
<1>2. SyncPhotoInv' /\ AskedPhotoInv'
  BY <1>0, <1>1, ActorHasSync DEF BusyInv, SyncPhotoInv, AskedPhotoInv
<1>3. ListInv'
  BY ListStepRebuild
<1>4. OffInv'
  <2>1. \A p : Allowed(p)' <=> Allowed(p)
    BY <1>0 DEF Allowed
  <2>2. \A a \in Actor : sync'[a].pc = "remove" => ~ Allowed(Who(a))'
    <3> SUFFICES ASSUME NEW a \in Actor, sync'[a].pc = "remove" PROVE ~ Allowed(Who(a))'
      OBVIOUS
    <3>1. a \in Person /\ sync[a].pc = "remove"
      BY <1>0, <1>1
    <3>2. ~ Allowed(a)
      BY <1>1, <3>1, ActorHasSync DEF BusyInv, OffInv
    <3> QED
      BY <1>1, <2>1, <3>1, <3>2 DEF Allowed
  <2> QED
    BY <2>2, TodoStepRebuild DEF OffInv
<1>5. RecordInv'
  <2> SUFFICES ASSUME NEW a \in Actor, sync'[a].pc = "record", sync'[a].out = "ok"
               PROVE  device'[Who(a)'] = photo'[Who(a)']
    BY DEF RecordInv, Who
  <2>1. a \in Person /\ sync[a] = sync'[a]
    BY <1>0, <1>1
  <2>2. device[a] = photo[a] /\ Allowed(a)
    BY <1>1, <2>1, ActorHasSync DEF BusyInv, RecordInv, WriteInv, Bound
  <2>3. device'[a] = device[a]
    <3>1. ASSUME NEW p \in Person, PurgeRemoves(p) PROVE device'[a] = device[a]
      <4>1. p # a
        BY <2>2, <3>1 DEF PurgeRemoves, BusyInv, OffInv
      <4> QED
        BY <2>1, <3>1, <4>1 DEF PurgeRemoves, TakeOff, Typed, TypeOK
    <3> QED
      BY <3>1 DEF RebuildStep, RebuildStarts, PurgeReads, PurgeForgets, PurgeEnds,
         ForceResets, Lists, Synced, Applies, Fails, Takes
  <2> QED
    BY <1>0, <1>1, <2>1, <2>2, <2>3
<1> QED
  BY <1>2, <1>3, <1>4, <1>5 DEF BusyInv

LEMMA LateStepRebuild ==
  ASSUME Typed, WriteInv, BusyInv, LateInv, RebuildStep PROVE LateInv'
<1> USE LedgerAssumption DEF people, ledger, queue, office, ghosts
<1>0. /\ TypeOK /\ rebuild \in RebuildState /\ photo \in [Person -> Nat]
      /\ summary \in [Person -> Summary] /\ device \in [Person -> Nat \cup {None}]
  BY DEF Typed, TypeOK
<1>1. /\ UNCHANGED <<photo, asked, lost>> /\ \A p \in Person : sync'[p] = sync[p]
      /\ sync[Rebuild].pc # "forget" /\ sync'[Rebuild].pc # "forget"
  BY RebuildFrame
<1>2. SUFFICES ASSUME ~ lost, NEW q \in Person, Late(q)' PROVE WaitsForReset(q)'
  BY <1>1 DEF LateInv
<1>3. q \in rows' /\ q \notin Leaving' /\ device'[q] # photo[q] /\ photo[q] \in Nat
  BY <1>0, <1>1, <1>2 DEF Late
<1>4. /\ ~ \E p \in Person : sync[p].pc = "forget" /\ p = q
      /\ ~ (rebuild'.pc = "forgetting" /\ rebuild'.who = q)
  <2>1. \A p \in Person : Who(p)' = p /\ p \in Actor
    BY DEF Who, Actor
  <2> QED
    BY <1>1, <1>3, <2>1, LeavingWillBe
<1>5. ~ (rebuild.pc = "forgetting" /\ rebuild.who = q) => q \notin Leaving
  BY <1>1, <1>4, LeavingIs DEF Who, Actor
<1>6. ASSUME ~ (rebuild.pc = "forgetting" /\ rebuild.who = q), q \in rows,
             device'[q] = device[q]
      PROVE  Late(q) /\ WaitsForReset(q)
  BY <1>2, <1>3, <1>5, <1>6 DEF Late, LateInv
<1>7. ASSUME Late(q), rebuild'.list[q] \in {rebuild.list[q], None},
             summary'[q] = summary[q]
      PROVE  WaitsForReset(q)'
  BY <1>1, <1>2, <1>3, <1>7, LateGoesOn
<1>8. CASE RebuildStarts \/ Applies \/ Fails \/ PurgeReads \/ PurgeEnds
  <2>0. UNCHANGED <<device, rows, summary>> /\ rebuild.pc # "forgetting"
    BY <1>8 DEF RebuildStarts, Applies, Fails, PurgeReads, PurgeEnds, At
  <2>1. rebuild'.list[q] \in {rebuild.list[q], None}
    <3>1. CASE PurgeReads \/ PurgeEnds
      BY <1>0, <3>1 DEF PurgeReads, PurgeEnds, Go, RebuildState
    <3> QED
      BY <1>8, <3>1, QuietIs
  <2> QED
    BY <1>3, <1>6, <1>7, <2>0, <2>1
<1>9. CASE PurgeForgets
  <2>1. /\ UNCHANGED <<device, summary>> /\ rows' = rows \ {rebuild.who}
        /\ rebuild'.list = rebuild.list
    BY <1>0, <1>9 DEF PurgeForgets, RebuildState
  <2> QED
    BY <1>3, <1>6, <1>7, <2>1
<1>10. CASE ForceResets
  BY <1>3, <1>10 DEF ForceResets
<1>11. CASE Lists
  <2>1. /\ UNCHANGED <<device, rows, summary>> /\ rebuild.pc # "forgetting"
        /\ (q \in rows => rebuild'.list[q] = None)
    BY <1>0, <1>11 DEF Lists, At, RebuildState
  <2> QED
    BY <1>3, <1>6, <1>7, <2>1
<1>12. CASE Synced
  <2> DEFINE done == Processed(rebuild.who)
  <2>1. UNCHANGED <<device, rows>> /\ rebuild.pc = "syncing" /\ rebuild.who \in Person
    BY <1>12 DEF Synced, At, Typed, WhoInv
  <2>2. Late(q) /\ WaitsForReset(q)
    BY <1>3, <1>6, <2>1
  <2>3. q # rebuild.who
    BY <2>1, <2>2 DEF WaitsForReset, BusyInv, ListInv
  <2>4. summary'[q] = summary[q]
    BY <1>0, <1>12, <2>3 DEF Synced, Summarize
  <2>5. done \in RebuildState /\ done.list[q] = rebuild.list[q]
    BY <1>0, <2>1, <2>3, ProcessedIs, ProcessedIsTyped
  <2>6. rebuild' = [done EXCEPT !.pc = "next", !.who = None]
        \/ rebuild' = [rebuild EXCEPT !.pc = "failing", !.who = None]
    BY <1>12 DEF Synced
  <2> HIDE DEF done
  <2>7. rebuild'.list[q] = rebuild.list[q]
    BY <1>0, <2>5, <2>6 DEF RebuildState
  <2> QED
    BY <1>7, <2>2, <2>4, <2>7
<1>13. ASSUME NEW p \in Person, PurgeRemoves(p) PROVE WaitsForReset(q)'
  <2>1. /\ UNCHANGED summary /\ rebuild.pc = "removing" /\ rebuild'.list = rebuild.list
    BY <1>0, <1>13 DEF PurgeRemoves, At, RebuildState
  <2>2. CASE TakeOff(p) /\ UNCHANGED rows
             /\ rebuild' = [rebuild EXCEPT !.pc = "forgetting", !.who = p]
    <3>1. q # p
      BY <1>0, <1>4, <2>2 DEF RebuildState
    <3>2. device'[q] = device[q] /\ q \in rows
      BY <1>0, <1>3, <2>2, <3>1 DEF TakeOff
    <3> QED
      BY <1>6, <1>7, <2>1, <3>2
  <2>3. CASE rows' = rows \ {p} /\ UNCHANGED device
    BY <1>3, <1>6, <1>7, <2>1, <2>3
  <2> QED
    BY <1>13, <2>2, <2>3 DEF PurgeRemoves
<1>14. ASSUME NEW p \in Person, Takes(p) PROVE WaitsForReset(q)'
  <2>1. UNCHANGED <<device, rows, summary>> /\ rebuild.pc = "next"
    BY <1>14 DEF Takes, At
  <2>2. \A r \in Person : Processed(p).list[r] \in {rebuild.list[r], None}
    <3>1. Processed(p).list = [rebuild.list EXCEPT ![p] = None]
      BY <1>0, ProcessedIs
    <3>2. rebuild.list \in [Person -> Nat \cup {None}]
      BY <1>0 DEF RebuildState
    <3> QED
      BY <3>1, <3>2
  <2>3. rebuild'.list[q] \in {rebuild.list[q], None}
    BY <1>0, <1>14, <2>2 DEF Takes, Go, RebuildState
  <2> QED
    BY <1>3, <1>6, <1>7, <2>1, <2>3
<1> QED
  BY <1>8, <1>9, <1>10, <1>11, <1>12, <1>13, <1>14 DEF RebuildStep

(* People and operators, between the steps of the jobs.                    *)

(* Nothing of what the invariant speaks of changes, but for rows that go.  *)
LEMMA BusyKept ==
  ASSUME BusyInv, LateInv, UNCHANGED <<minor, photo, asked, summary, device, rebuild, sync>>,
         reader'.limit = reader.limit, rows' \subseteq rows, ~ lost' => rows' = {} \/ ~ lost
  PROVE  BusyInv' /\ LateInv'
<1>1. /\ \A a : Who(a)' = Who(a)
      /\ \A p : Allowed(p)' <=> Allowed(p)
      /\ Leaving' = Leaving
  BY DEF Who, Allowed, Leaving, SyncIs, At
<1>2. BusyInv'
  BY <1>1 DEF BusyInv, SyncPhotoInv, AskedPhotoInv, ListInv, OffInv, RecordInv
<1>3. LateInv'
  <2> SUFFICES ASSUME ~ lost', NEW p \in Person, Late(p)' PROVE WaitsForReset(p)'
    BY DEF LateInv
  <2>1. Late(p) /\ ~ lost
    BY <1>1 DEF Late
  <2> QED
    BY <2>1 DEF LateInv, WaitsForReset
<1> QED
  BY <1>2, <1>3

(* Nobody is busy: everybody who carries a photo has put it down.          *)
LEMMA CalmIsIdle ==
  ASSUME Typed, \A p \in Person : ~ InFlight(p)
  PROVE  (\A a \in Actor : sync[a].pc = "idle") /\ rebuild.todo = {} /\ rebuild.pc # "syncing"
<1>1. \A a \in Actor : sync[a].pc = "idle"
  BY IdleIsUnbound, WhoIsAPerson DEF Typed
<1>2. rebuild.todo \subseteq Person
  BY DEF Typed, TypeOK, RebuildState
<1> QED
  BY <1>1, <1>2 DEF InFlight, Typed, WhoInv

LEMMA CalmStep ==
  ASSUME Typed, WriteInv, BusyInv, LateInv, Races = {},
         \/ \E active, limit \in BOOLEAN : UpdateReader(active, limit)
         \/ Replaced \/ Wipes
  PROVE  BusyInv' /\ LateInv'
<1> USE DEF people, ledger, queue, office, ghosts
<1>1. /\ \A p \in Person : ~ InFlight(p)
      /\ UNCHANGED <<minor, photo, summary, rows, asked, rebuild, sync>>
      /\ (device' = device /\ lost' = lost) \/ lost'
  BY DEF UpdateReader, Replaced, Wipes, Calm
<1>2. (\A a \in Actor : sync[a].pc = "idle") /\ rebuild.todo = {} /\ rebuild.pc # "syncing"
  BY <1>1, CalmIsIdle
<1>3. BusyInv'
  BY <1>1, <1>2 DEF BusyInv, SyncPhotoInv, AskedPhotoInv, ListInv, OffInv, RecordInv
<1>4. LateInv'
  <2> SUFFICES ASSUME ~ lost', NEW p \in Person, Late(p)' PROVE WaitsForReset(p)'
    BY DEF LateInv
  <2>1. Leaving' = Leaving
    BY <1>1 DEF Leaving, SyncIs, At, Who
  <2>2. Late(p) /\ ~ lost
    BY <1>1, <2>1 DEF Late
  <2> QED
    BY <1>1, <2>2 DEF LateInv, WaitsForReset
<1> QED
  BY <1>3, <1>4

LEMMA CancelStep ==
  ASSUME Typed, BusyInv, LateInv, Cancels PROVE BusyInv' /\ LateInv'
<1> USE LedgerAssumption DEF people, ledger, queue, office, ghosts
<1>0. rebuild \in RebuildState /\ photo \in [Person -> Nat] /\ summary \in [Person -> Summary]
  BY DEF Typed, TypeOK
<1>1. UNCHANGED <<reader, minor, photo, device, rows, sync, lost>>
  BY DEF Cancels
<1>2. /\ rebuild'.who = rebuild.who /\ rebuild'.list = rebuild.list
      /\ rebuild'.todo = rebuild.todo
      /\ rebuild'.pc = rebuild.pc \/ (rebuild.pc = "next" /\ rebuild'.pc = "failing")
  BY <1>0 DEF Cancels, Go, At, RebuildState
<1>3. \A p \in Person : /\ asked'[p] \in {asked[p], None}
                        /\ summary'[p] \in {summary[p], "sync_failed"}
  BY <1>0 DEF Cancels, Nobody
<1>4. /\ \A a : Who(a)' = Who(a)
      /\ \A p : Allowed(p)' <=> Allowed(p)
      /\ Leaving' = Leaving
  BY <1>1, <1>2 DEF Who, Allowed, Leaving, SyncIs, At
<1>5. BusyInv'
  BY <1>1, <1>2, <1>3, <1>4 DEF BusyInv, SyncPhotoInv, AskedPhotoInv, ListInv, OffInv, RecordInv
<1>6. LateInv'
  <2> SUFFICES ASSUME ~ lost, NEW p \in Person, Late(p)' PROVE WaitsForReset(p)'
    BY <1>1 DEF LateInv
  <2>1. Late(p) /\ photo[p] # None
    BY <1>0, <1>1, <1>4 DEF Late
  <2> QED
    BY <1>1, <1>2, <1>3, <2>1, LateGoesOn
<1> QED
  BY <1>5, <1>6

LEMMA CrashStep ==
  ASSUME Typed, BusyInv, LateInv, Races = {}, Crash PROVE BusyInv' /\ LateInv'
<1> USE LedgerAssumption DEF people, ledger, queue, office, ghosts
<1>0. photo \in [Person -> Nat] /\ Person \subseteq Actor
  BY ActorHasSync DEF Typed, TypeOK
<1>1. UNCHANGED <<reader, minor, photo, summary, device, rows, lost>> /\ GateFree
  BY DEF Crash
<1>2. /\ \A a \in Actor : sync'[a].pc = "idle"
      /\ rebuild'.pc = "idle" /\ rebuild'.todo = {}
      /\ \A p \in Person : rebuild'.list[p] = None
  BY DEF Crash, Idle, Quiet, Nobody
<1>3. \A p \in Person :
        \/ asked'[p] = asked[p]
        \/ /\ sync[p].pc # "idle" /\ asked'[p].photo = sync[p].photo
           /\ asked'[p].reset = sync[p].reset
  BY DEF Crash, SyncIs
<1>4. BusyInv'
  <2>1. \A p \in Person : sync[p].pc # "idle" => sync[p].photo = photo[p]
    BY <1>0 DEF BusyInv, SyncPhotoInv, Who
  <2>2. AskedPhotoInv'
    BY <1>1, <1>3, <2>1 DEF BusyInv, AskedPhotoInv
  <2> QED
    BY <1>2, <2>2 DEF BusyInv, SyncPhotoInv, ListInv, OffInv, RecordInv
<1>5. LateInv'
  <2> SUFFICES ASSUME ~ lost, NEW p \in Person, Late(p)' PROVE WaitsForReset(p)'
    BY <1>1 DEF LateInv
  <2>1. p \notin Leaving
    BY <1>1, LeavingIs DEF GateFree
  <2>2. Late(p)
    BY <1>1, <2>1 DEF Late
  <2>3. WaitsForReset(p)
    BY <2>2 DEF LateInv
  <2>4. asked'[p] # None => asked'[p].reset
    BY <1>3, <2>3 DEF WaitsForReset, ToReset
  <2> QED
    BY <1>0, <1>1, <1>2, <2>3, <2>4 DEF WaitsForReset
<1> QED
  BY <1>4, <1>5

LEMMA PhotoStep ==
  ASSUME Typed, BusyInv, LateInv, Races = {}, NEW p \in Person, ChangePhoto(p)
  PROVE  BusyInv' /\ LateInv'
<1> USE LedgerAssumption DEF people, ledger, queue, office, ghosts
<1>0. /\ photo \in [Person -> Nat] /\ asked \in [Person -> Request \cup {None}]
      /\ summary \in [Person -> Summary] /\ rebuild \in RebuildState
      /\ rebuild.list \in [Person -> Nat \cup {None}]
  BY DEF Typed, TypeOK, RebuildState
<1>1. /\ UNCHANGED <<reader, minor, device, rows, rebuild, sync, lost>> /\ ~ InFlight(p)
      /\ photo' = [photo EXCEPT ![p] = photo[p] + 1] /\ Asks(p, TRUE)
  BY DEF ChangePhoto, CalmFor
<1>2. /\ photo'[p] = photo[p] + 1 /\ \A q \in Person \ {p} : photo'[q] = photo[q]
      /\ asked'[p].photo = photo'[p] /\ asked'[p].reset /\ summary'[p] = "pending"
      /\ \A q \in Person \ {p} : asked'[q] = asked[q] /\ summary'[q] = summary[q]
  BY <1>0, <1>1 DEF Asks, Summarize
<1>3. /\ \A a : Who(a)' = Who(a)
      /\ \A q : Allowed(q)' <=> Allowed(q)
      /\ Leaving' = Leaving
  BY <1>1 DEF Who, Allowed, Leaving, SyncIs, At
<1>4. \A a \in Actor : sync[a].pc # "idle" => Who(a) \in Person \ {p}
  BY <1>1, IdleIsUnbound, WhoIsAPerson DEF Typed
<1>5. BusyInv'
  <2>1. SyncPhotoInv' /\ RecordInv'
    BY <1>1, <1>2, <1>3, <1>4 DEF BusyInv, SyncPhotoInv, RecordInv
  <2>2. AskedPhotoInv'
    BY <1>2 DEF BusyInv, AskedPhotoInv
  <2>3. OffInv'
    BY <1>1, <1>3 DEF BusyInv, OffInv
  <2>4. ListInv'
    <3>1. rebuild.list[p] # None => p \in Rekeyed /\ rebuild.list[p] <= photo'[p]
      BY <1>0, <1>1, <1>2 DEF InFlight, BusyInv, ListInv
    <3>2. rebuild.pc = "syncing" => rebuild.who \in Person \ {p}
      BY <1>1 DEF InFlight, Typed, WhoInv
    <3> QED
      BY <1>1, <1>2, <3>1, <3>2 DEF BusyInv, ListInv
  <2> QED
    BY <2>1, <2>2, <2>3, <2>4 DEF BusyInv
<1>6. LateInv'
  <2> SUFFICES ASSUME ~ lost, NEW q \in Person, Late(q)' PROVE WaitsForReset(q)'
    BY <1>1 DEF LateInv
  <2>1. CASE q = p
    <3>1. rebuild.list[p] # photo'[p]
      BY <1>0, <1>2 DEF BusyInv, ListInv
    <3>2. sync[p].pc = "idle"
      BY <1>1 DEF InFlight
    <3> QED
      BY <1>1, <1>2, <2>1, <3>1, <3>2 DEF WaitsForReset
  <2>2. CASE q # p
    <3>1. Late(q) /\ photo[q] # None
      BY <1>0, <1>1, <1>2, <1>3, <2>2 DEF Late
    <3> QED
      BY <1>1, <1>2, <2>2, <3>1, LateGoesOn
  <2> QED
    BY <2>1, <2>2
<1> QED
  BY <1>5, <1>6

LEMMA AskStep ==
  ASSUME Typed, BusyInv, LateInv, Races = {}, NEW p \in Person,
         \/ CorrectBirthDate(p) \/ Birthday(p)
         \/ \E reset \in BOOLEAN : Resync(p, reset)
  PROVE  BusyInv' /\ LateInv'
<1> USE LedgerAssumption DEF people, ledger, queue, office, ghosts
<1>0. /\ photo \in [Person -> Nat] /\ asked \in [Person -> Request \cup {None}]
      /\ summary \in [Person -> Summary] /\ minor \in [Person -> BOOLEAN]
      /\ rebuild \in RebuildState /\ rebuild.todo \subseteq Person
  BY DEF Typed, TypeOK, RebuildState
<1>1. UNCHANGED <<reader, photo, device, rows, rebuild, sync, lost>>
  BY DEF CorrectBirthDate, Birthday, Resync
<1>2. \A q \in Person \ {p} :
        minor'[q] = minor[q] /\ asked'[q] = asked[q] /\ summary'[q] = summary[q]
  BY <1>0 DEF CorrectBirthDate, Birthday, Resync, Asks, Summarize
<1>3. \/ asked'[p] = asked[p] /\ summary'[p] = summary[p]
      \/ /\ asked'[p].photo = photo[p] /\ summary'[p] = "pending"
         /\ asked'[p].reset \/ (p \in rows => device[p] = photo[p])
  <2>1. CASE Birthday(p)
    BY <2>1 DEF Birthday
  <2>2. CASE CorrectBirthDate(p)
    BY <1>0, <1>1, <2>2 DEF CorrectBirthDate, Asks, Summarize
  <2>3. ASSUME NEW reset \in BOOLEAN, Resync(p, reset)
        PROVE  /\ asked'[p].photo = photo[p] /\ summary'[p] = "pending"
               /\ asked'[p].reset \/ (p \in rows => device[p] = photo[p])
    BY <1>0, <1>1, <2>3 DEF Resync, Asks, Summarize
  <2> QED
    BY <2>1, <2>2, <2>3
<1>4. ~ InFlight(p) \/ minor' = minor
  BY DEF CorrectBirthDate, Birthday, Resync, CalmFor
<1>5. (\A a : Who(a)' = Who(a)) /\ Leaving' = Leaving
  BY <1>1 DEF Who, Leaving, SyncIs, At
<1>6. BusyInv'
  <2>1. SyncPhotoInv' /\ RecordInv' /\ ListInv' /\ AskedPhotoInv'
    BY <1>1, <1>2, <1>3, <1>5 DEF BusyInv, SyncPhotoInv, RecordInv, ListInv, AskedPhotoInv
  <2>2. OffInv'
    <3>1. CASE minor' = minor
      BY <1>1, <1>5, <3>1 DEF BusyInv, OffInv, Allowed
    <3>2. CASE ~ InFlight(p)
      <4>1. \A a \in Actor : sync[a].pc # "idle" => Who(a) \in Person \ {p}
        BY <3>2, IdleIsUnbound, WhoIsAPerson DEF Typed
      <4>2. rebuild.todo \subseteq Person \ {p}
        BY <1>0, <3>2 DEF InFlight
      <4>3. \A q \in Person \ {p} : Allowed(q)' <=> Allowed(q)
        BY <1>1, <1>2 DEF Allowed
      <4> QED
        BY <1>1, <1>5, <4>1, <4>2, <4>3 DEF BusyInv, OffInv, Allowed
    <3> QED
      BY <1>4, <3>1, <3>2
  <2> QED
    BY <2>1, <2>2 DEF BusyInv
<1>7. LateInv'
  <2> SUFFICES ASSUME ~ lost, NEW q \in Person, Late(q)' PROVE WaitsForReset(q)'
    BY <1>1 DEF LateInv
  <2>1. Late(q) /\ WaitsForReset(q)
    BY <1>1, <1>5 DEF Late, LateInv
  <2>2. CASE q = p
    BY <1>1, <1>3, <2>1, <2>2 DEF WaitsForReset, Late
  <2>3. CASE q # p
    BY <1>1, <1>2, <2>1, <2>3 DEF WaitsForReset
  <2> QED
    BY <2>2, <2>3
<1> QED
  BY <1>6, <1>7

LEMMA TrueStep ==
  ASSUME Races = {}, Typed, TrueInv, [Next]_vars PROVE TrueInv'
<1> USE DEF people, ledger, queue, office, ghosts
<1>0. TypeOK /\ reader \in ReaderRow
  BY DEF Typed, TypeOK
<1>1. WriteInv'
  BY WriteStep DEF TrueInv, Undisturbed
<1>2. BusyInv' /\ LateInv'
  <2>1. CASE \E a \in Actor : SyncStep(a)
    BY <2>1, BusyStepSync, LateStepSync DEF TrueInv
  <2>2. CASE \E p \in Person : PersonStep(p)
    BY <2>2, BusyStepPerson DEF TrueInv
  <2>3. CASE RebuildStep
    BY <2>3, BusyStepRebuild, LateStepRebuild DEF TrueInv
  <2>4. CASE Desk \/ Listener \/ UNCHANGED vars
    <3>1. /\ UNCHANGED <<reader, minor, photo, asked, summary, device, rebuild, sync>>
          /\ rows' = {} \/ (rows' = rows /\ lost' = lost)
      <4>1. CASE DeskForgets
        BY <4>1 DEF DeskForgets
      <4>2. CASE DeskAsks \/ Listener
        BY <4>2 DEF DeskAsks, Listener, ListenerReads, ListenerAsks
      <4>3. CASE UNCHANGED vars
        BY <4>3 DEF vars
      <4> QED
        BY <2>4, <4>1, <4>2, <4>3 DEF Desk
    <3>2. rows' \subseteq rows /\ (~ lost' => rows' = {} \/ ~ lost)
      BY <3>1
    <3> QED
      BY <3>1, <3>2, BusyKept DEF TrueInv
  <2>5. CASE World
    <3>1. CASE (\E active, limit \in BOOLEAN : UpdateReader(active, limit))
               \/ Replaced \/ Wipes
      BY <3>1, CalmStep DEF TrueInv
    <3>2. CASE DayPasses \/ \E force \in BOOLEAN : RequestRebuild(force)
      <4>1. /\ UNCHANGED <<minor, photo, asked, summary, device, rows, rebuild, sync, lost>>
            /\ reader'.limit = reader.limit
        BY <1>0, <3>2 DEF DayPasses, RequestRebuild, ReaderRow
      <4> QED
        BY <4>1, BusyKept DEF TrueInv
    <3>3. CASE Cancels \/ Crash
      BY <3>3, CancelStep, CrashStep DEF TrueInv
    <3>4. ASSUME NEW p \in Person,
                 \/ ChangePhoto(p) \/ CorrectBirthDate(p) \/ Birthday(p)
                 \/ \E reset \in BOOLEAN : Resync(p, reset)
          PROVE  BusyInv' /\ LateInv'
      BY <3>4, PhotoStep, AskStep DEF TrueInv
    <3> QED
      BY <2>5, <3>1, <3>2, <3>3, <3>4 DEF World
  <2> QED
    BY <2>1, <2>2, <2>3, <2>4, <2>5 DEF Next, Worker
<1> QED
  BY <1>1, <1>2 DEF TrueInv

(* A row 'synced' of a person who waits for nothing and is shown as synced *)
(* stands for the current photo on the reader, for any people, photos and  *)
(* bound, when nothing of Races happens: each of its members is a way the  *)
(* code makes the row lie.  Rebuilds, purges, refused faces, removed       *)
(* people, cancels, crashes outside the gate and emptied readers may come  *)
(* in any order.                                                           *)
THEOREM LedgerHolds == ASSUME Races = {} PROVE Spec => []LedgerIsTrue
<1>1. Init => Typed /\ TrueInv
  BY TypeInit, TrueInit
<1>2. Typed /\ TrueInv /\ [Next]_vars => Typed' /\ TrueInv'
  BY TypeStep, TrueStep
<1>3. Typed /\ TrueInv => LedgerIsTrue
  <2> SUFFICES ASSUME TrueInv, ~ lost, NEW p \in rows \ Leaving, summary[p] = "synced",
                      p \in Person, device[p] # photo[p]
               PROVE  FALSE
    BY DEF LedgerIsTrue, Typed, TypeOK
  <2>1. WaitsForReset(p)
    BY DEF TrueInv, LateInv, Late
  <2> QED
    BY <2>1 DEF WaitsForReset
<1> QED
  BY <1>1, <1>2, <1>3, PTL DEF Spec

=============================================================================
