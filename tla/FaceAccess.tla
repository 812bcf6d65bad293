----------------------------- MODULE FaceAccess -----------------------------
(***************************************************************************)
(* The face of one registration on the readers of its client, and everyone *)
(* who may put it there or take it away: the approval of the registration, *)
(* the consents of adults for minors and visitors (`Domain`), the syncs    *)
(* under the advisory lock of the face, the removal job, the maintenance   *)
(* tick, the administrator, and the triggers of drizzle/0093.              *)
(*                                                                         *)
(* A database transaction that waits for nothing but locks is one action,  *)
(* enabled when its locks are free.  The two that talk to readers with a   *)
(* lock in their hands, a sync and the removal job, take many steps.       *)
(***************************************************************************)
EXTENDS Naturals, FiniteSets

CONSTANTS
  Domain,     \* the approval policies in use: subset of {"child", "visitor"}
  Adult,      \* adults of the unit who may consent
  Reader,     \* active readers of the client
  Syncer,     \* syncs that may be in flight
  Approver,   \* calls of approveShared that may be in flight
  MaxEdits,   \* bound: changes made by people and crashes
  Overlap,    \* which edits may be made while a sync is in flight
  None

Removal  == "removal"
EditKind == {"protect", "lift", "remove"}

ASSUME FaceAccessAssumption ==
  /\ Domain \subseteq {"child", "visitor"}
  /\ MaxEdits \in Nat
  /\ Overlap \subseteq EditKind
  /\ Removal \notin Syncer /\ None \notin Syncer \cup {Removal}

VARIABLES
  status,     \* registrations.status
  active,     \* registrations.is_active: FALSE is a soft deletion
  enable,     \* clients.enable_child_approve, enable_visitor_approve
  subject,    \* the person is a minor, a visitor
  required,   \* *_approval_required
  pending,    \* *_approval_removal_pending
  intent,     \* *_approval_requested_at is set
  consents,   \* adults whose consent is not revoked
  approver,   \* where each call of approveShared is
  admin,      \* a rejection or deletion by an administrator in progress
  faceLock,   \* holder of pg_advisory_xact_lock(client, face)
  sync,       \* local state of each sync
  job,        \* a face.remove job is queued
  removal,    \* local state of the removal job that runs
  onReader,   \* readers that hold the face
  edits       \* bounded number of edits

registration == <<status, active, required, pending, intent>>
client       == <<enable, subject>>
syncVars     == <<sync, faceLock>>
removalVars  == <<job, removal>>
vars == <<registration, client, consents, approver, admin, syncVars, removalVars,
          onReader, edits>>

Status   == {"draft", "approved", "blocked", "rejected"}
Admitted == {"approved", "blocked"}
SyncPc   == {"idle", "asked", "locking", "writing", "open"}

TypeOK ==
  /\ status \in Status /\ active \in BOOLEAN
  /\ enable \in [Domain -> BOOLEAN] /\ subject \in [Domain -> BOOLEAN]
  /\ required \in [Domain -> BOOLEAN] /\ pending \in [Domain -> BOOLEAN]
  /\ intent \in [Domain -> BOOLEAN]
  /\ consents \in [Domain -> SUBSET Adult]
  /\ approver \in [Approver -> {"idle", "cleared", "approved", "queued"}]
  /\ admin \in [why : {"none", "rejected", "deleted"}, todo : SUBSET Reader]
  /\ faceLock \in Syncer \cup {Removal, None}
  /\ sync \in [Syncer -> [pc : SyncPc, todo : SUBSET Reader]]
  /\ job \in BOOLEAN
  /\ removal \in [pc : {"idle", "claimed", "row", "removing"}, todo : SUBSET Reader]
  /\ onReader \in SUBSET Reader
  /\ edits \in 0 .. MaxEdits

Never  == [d \in Domain |-> FALSE]
Idle   == [pc |-> "idle", todo |-> {}]
NoAdmin == [why |-> "none", todo |-> {}]

Init ==
  /\ status = "draft" /\ active = TRUE
  /\ enable \in [Domain -> BOOLEAN] /\ subject \in [Domain -> BOOLEAN]
  /\ required \in {r \in [Domain -> BOOLEAN] : \A d \in Domain : r[d] => subject[d]}
  /\ pending = Never /\ intent = Never
  /\ consents = [d \in Domain |-> {}]
  /\ approver = [p \in Approver |-> "idle"]
  /\ admin = NoAdmin
  /\ faceLock = None
  /\ sync = [s \in Syncer |-> Idle]
  /\ job = FALSE /\ removal = Idle
  /\ onReader = {}
  /\ edits = 0

-----------------------------------------------------------------------------
(* The policy.                                                             *)

Needs(d) == enable[d] /\ required[d] /\ subject[d]

Missing == {d \in Domain : Needs(d) /\ consents[d] = {}}

PendingAny == \E d \in Domain : pending[d]

Allows(d) ==
  /\ ~ (PendingAny /\ (~ active \/ status = "rejected"))
  /\ Needs(d) => active /\ status \in Admitted /\ consents[d] # {}

FaceAllowed == \A d \in Domain : Allows(d)

(* Somebody keeps the row of the registration locked only while the        *)
(* removal job talks to readers.                                           *)
RowFree  == removal.pc \notin {"row", "removing"}
FaceFree == faceLock = None
NoLocks  == TRUE   \* mutant: consents take no lock
BothFree == RowFree /\ FaceFree

Idling(s)  == sync[s].pc = "idle"
Unlocked(s) == sync[s].pc = "open"

(* Changes made by people.  Those of a kind that is not in Overlap are not *)
(* made while a sync is in flight (an unlocked one, for "protect").        *)
Edit == edits < MaxEdits /\ edits' = edits + 1
Calm(kind) ==
  \/ kind \in Overlap
  \/ \A s \in Syncer : IF kind = "protect" THEN ~ Unlocked(s) ELSE Idling(s)

-----------------------------------------------------------------------------
(* Approval of the registration: approveShared().                          *)

(* deferApproval() of both domains; what is missing is asked for.          *)
ApproveAsk(p) ==
  /\ approver[p] = "idle"
  /\ status \in {"draft", "rejected"}
  /\ \/ /\ Missing # {} /\ active /\ RowFree
        /\ intent' = [d \in Domain |-> intent[d] \/ d \in Missing]
        /\ UNCHANGED approver
     \/ /\ Missing = {}
        /\ approver' = [approver EXCEPT ![p] = "cleared"]
        /\ UNCHANGED intent
  /\ UNCHANGED <<status, active, required, pending, client, consents, admin, syncVars,
                 removalVars, onReader, edits>>

(* approveRegistration(): nobody looks at the consents again.              *)
ApproveCommit(p) ==
  /\ approver[p] = "cleared" /\ RowFree
  /\ IF status \in {"draft", "rejected"}
     THEN /\ status' = "approved"
          /\ approver' = [approver EXCEPT ![p] = "approved"]
     ELSE /\ approver' = [approver EXCEPT ![p] = "idle"]
          /\ UNCHANGED status
  /\ UNCHANGED <<active, required, pending, intent, client, consents, admin, syncVars,
                 removalVars, onReader, edits>>

(* enqueueApprovedRegistrationJob() asserts that the face is allowed; when *)
(* it throws, the intention stays for the maintenance tick.                *)
ApproveEnqueue(p) ==
  /\ approver[p] = "approved"
  /\ approver' = [approver EXCEPT ![p] =
                    IF active /\ status \in Admitted /\ FaceAllowed THEN "queued" ELSE "idle"]
  /\ UNCHANGED <<registration, client, consents, admin, syncVars, removalVars, onReader, edits>>

(* clearApprovalIntent(), after the e-mail to the person has been sent.    *)
ApproveClear(p) ==
  /\ approver[p] = "queued" /\ RowFree
  /\ intent' = Never
  /\ approver' = [approver EXCEPT ![p] = "idle"]
  /\ UNCHANGED <<status, active, required, pending, client, consents, admin, syncVars,
                 removalVars, onReader, edits>>

-----------------------------------------------------------------------------
(* Consents.                                                               *)

(* accept(): the face is locked before the consent is inserted.            *)
Accept(d, a) ==
  /\ a \notin consents[d]
  /\ Needs(d) /\ active
  /\ status = "rejected" => intent[d]
  /\ BothFree
  /\ consents' = [consents EXCEPT ![d] = @ \cup {a}]
  /\ UNCHANGED <<registration, client, approver, admin, syncVars, removalVars, onReader, edits>>

\* Mutants: the removal is forgotten; a newer intention is wiped; a status of its own.
RejectUnflagged(d, left) ==
  IF Needs(d) /\ left = {} /\ status # "rejected"
  THEN status' = "rejected" /\ intent' = Never /\ UNCHANGED pending
  ELSE UNCHANGED <<status, pending, intent>>
RejectAgain(d, left) ==
  IF Needs(d) /\ left = {}
  THEN status' = "rejected" /\ pending' = [pending EXCEPT ![d] = TRUE] /\ intent' = Never
  ELSE UNCHANGED <<status, pending, intent>>
RejectAsRevoked(d, left) ==
  IF Needs(d) /\ left = {}
  THEN status' = "revoked" /\ UNCHANGED <<pending, intent>>
  ELSE UNCHANGED <<status, pending, intent>>

(* rejectIfUnauthorized() when `left` are the consents of d that remain.   *)
(* The intention to approve again a registration that is rejected already  *)
(* is not touched.                                                         *)
RejectUnless(d, left) ==
  IF Needs(d) /\ left = {} /\ status # "rejected"
  THEN /\ status' = "rejected"
       /\ pending' = [pending EXCEPT ![d] = TRUE]
       /\ intent' = Never
  ELSE UNCHANGED <<status, pending, intent>>

(* revokeOwn() and revokeAdmin(), which both end in revocations.revoke().  *)
Revoke(d, a) ==
  /\ a \in consents[d] /\ BothFree
  /\ Edit
  /\ consents' = [consents EXCEPT ![d] = @ \ {a}]
  /\ RejectUnless(d, consents[d] \ {a})
  /\ UNCHANGED <<active, required, client, approver, admin, syncVars, removalVars, onReader>>

(* Trigger invalidate_person_approvals on the row of an adult, or          *)
(* invalidate_member_host_approvals on the member: the adult left the unit *)
(* or is no longer approved, active or the same person.                    *)
HostGone(a) ==
  /\ \E d \in Domain : a \in consents[d]
  /\ BothFree
  /\ Edit
  /\ pending' = [d \in Domain |-> pending[d] \/ a \in consents[d]]
  /\ consents' = [d \in Domain |-> consents[d] \ {a}]
  /\ UNCHANGED <<status, active, required, intent, client, approver, admin, syncVars,
                 removalVars, onReader>>

(* What the trigger does to the row of a person who changes unit or class. *)
Invalidated == {d \in Domain : consents[d] # {}}
LocksFree   == RowFree /\ (Invalidated # {} => FaceFree)

UnitChange ==
  /\ Invalidated # {} /\ LocksFree
  /\ Edit
  /\ pending' = [d \in Domain |-> pending[d] \/ d \in Invalidated]
  /\ consents' = [d \in Domain |-> {}]
  /\ UNCHANGED <<status, active, required, intent, client, approver, admin, syncVars,
                 removalVars, onReader>>

(* The person becomes a visitor, or ceases to be one.                      *)
Enrolls == ~ subject["visitor"] /\ enable["visitor"]

Reclassify ==
  /\ LocksFree
  /\ Edit
  /\ IF subject["visitor"] THEN Calm("lift") ELSE Calm("protect")
  /\ subject' = [subject EXCEPT !["visitor"] = ~ @]
  /\ consents' = [d \in Domain |-> {}]
  /\ required' = [d \in Domain |-> required[d] \/ (d = "visitor" /\ Enrolls)]
  /\ pending' = [d \in Domain |-> \/ pending[d] \/ d \in Invalidated
                                  \/ d = "visitor" /\ Enrolls]
  /\ intent' = IF Enrolls THEN Never ELSE intent
  /\ UNCHANGED <<status, active, enable, approver, admin, syncVars, removalVars, onReader>>

-----------------------------------------------------------------------------
(* Who needs consent.                                                      *)

(* A birthday makes a minor an adult.  An edit of birth_date may turn the  *)
(* person into a minor again; nothing locks the face for it.               *)
ComeOfAge ==
  /\ subject["child"]
  /\ Edit /\ Calm("lift")
  /\ subject' = [subject EXCEPT !["child"] = FALSE]
  /\ UNCHANGED <<registration, enable, consents, approver, admin, syncVars, removalVars, onReader>>

CorrectBirthDate ==
  /\ ~ subject["child"] /\ RowFree
  /\ Edit
  /\ subject' = [subject EXCEPT !["child"] = TRUE]
  /\ UNCHANGED <<registration, enable, consents, approver, admin, syncVars, removalVars, onReader>>

(* Trigger reconcile_enabled_person_approvals.                             *)
Enable(d) ==
  /\ ~ enable[d]
  /\ BothFree \/ \A e \in Domain : ~ required[e]
  /\ Edit
  /\ enable' = [enable EXCEPT ![d] = TRUE]
  /\ pending' = [pending EXCEPT ![d] = @ \/ /\ required[d] /\ status \in Admitted
                                            /\ d = "visitor" => subject[d]]
  /\ UNCHANGED <<status, active, required, intent, subject, consents, approver, admin,
                 syncVars, removalVars, onReader>>

Disable(d) ==
  /\ enable[d]
  /\ Edit /\ Calm("lift")
  /\ enable' = [enable EXCEPT ![d] = FALSE]
  /\ UNCHANGED <<registration, subject, consents, approver, admin, syncVars, removalVars, onReader>>

(* regularize(): a person approved before the policy existed enters it.    *)
(* Of the visitor's policy, it also makes the person a visitor, and then   *)
(* the trigger withdraws the consents there are.                           *)
Regularize(d) ==
  /\ enable[d] /\ active /\ status = "approved" /\ ~ required[d]
  /\ d = "child" => subject[d]
  /\ BothFree
  /\ Edit /\ Calm("protect")
  /\ required' = [required EXCEPT ![d] = TRUE]
  /\ status' = "rejected"
  /\ intent' = Never
  /\ subject' = [subject EXCEPT ![d] = TRUE]
  /\ LET withdrawn == IF subject[d] THEN {} ELSE Invalidated IN
       /\ pending' = [e \in Domain |-> pending[e] \/ e = d \/ e \in withdrawn]
       /\ consents' = [e \in Domain |-> IF e \in withdrawn THEN {} ELSE consents[e]]
  /\ UNCHANGED <<active, enable, approver, admin, syncVars, removalVars, onReader>>

-----------------------------------------------------------------------------
(* The administrator.  Nothing here takes the lock of the face.            *)

Block ==
  /\ active /\ status \in {"draft", "approved"} /\ RowFree
  /\ Edit
  /\ status' = "blocked"
  /\ UNCHANGED <<active, required, pending, intent, client, consents, approver, admin,
                 syncVars, removalVars, onReader>>

Unblock ==
  /\ active /\ status = "blocked" /\ RowFree
  /\ Edit
  /\ status' = "approved"
  /\ UNCHANGED <<active, required, pending, intent, client, consents, approver, admin,
                 syncVars, removalVars, onReader>>

(* rejectShared() and softDeleteShared() check the row, take the face off  *)
(* reader by reader, and only then write the row.                          *)
AdminStart(why) ==
  /\ admin = NoAdmin
  /\ active /\ RowFree
  /\ Edit /\ Calm("remove")
  /\ \/ /\ why = "rejected" /\ status \in {"draft", "approved"}
        /\ intent' = [d \in Domain |-> intent[d] /\ d = "child" /\ ~ required[d]]
     \/ /\ why = "deleted" /\ status = "approved"
        /\ UNCHANGED intent
  /\ admin' = [why |-> why, todo |-> IF status = "approved" THEN Reader ELSE {}]
  /\ UNCHANGED <<status, active, required, pending, client, consents, approver, syncVars,
                 removalVars, onReader>>

AdminRemove(r) ==
  /\ r \in admin.todo
  /\ admin' = [admin EXCEPT !.todo = @ \ {r}]
  /\ onReader' = onReader \ {r}
  /\ UNCHANGED <<registration, client, consents, approver, syncVars, removalVars, edits>>

(* requireAll: a reader that does not answer fails the whole request.      *)
AdminFail ==
  /\ admin.todo # {}
  /\ admin' = NoAdmin
  /\ UNCHANGED <<registration, client, consents, approver, syncVars, removalVars, onReader, edits>>

AdminEnd ==
  /\ admin.why # "none" /\ admin.todo = {} /\ RowFree
  /\ admin' = NoAdmin
  /\ \/ /\ admin.why = "rejected" /\ active /\ status \in {"draft", "approved"}
        /\ status' = "rejected" /\ intent' = Never
        /\ UNCHANGED active
     \/ /\ admin.why = "rejected" /\ ~ (active /\ status \in {"draft", "approved"})
        /\ UNCHANGED <<status, active, intent>>
     \/ /\ admin.why = "deleted"
        /\ active' = FALSE
        /\ UNCHANGED <<status, intent>>
  /\ UNCHANGED <<required, pending, client, consents, approver, syncVars, removalVars,
                 onReader, edits>>

Restore ==
  /\ ~ active /\ RowFree
  /\ Edit
  /\ active' = TRUE
  /\ UNCHANGED <<status, required, pending, intent, client, consents, approver, admin,
                 syncVars, removalVars, onReader>>

-----------------------------------------------------------------------------
(* A sync of the face: syncApprovedRegistration() and withFaceAccess().    *)

SyncStart(s) ==
  /\ Idling(s)
  /\ active /\ status \in Admitted /\ FaceAllowed
  /\ admin = NoAdmin \/ "remove" \in Overlap
  /\ sync' = [sync EXCEPT ![s] = [pc |-> "asked", todo |-> {}]]
  /\ UNCHANGED <<registration, client, consents, approver, admin, faceLock, removalVars,
                 onReader, edits>>

\* Mutant: only the policies of the client are looked at.
TrackedByPolicy == \E d \in Domain : enable[d]

(* Of a person whom no policy touches, the lock is not taken.              *)
Tracked == \E d \in Domain : enable[d] \/ required[d] \/ pending[d]

SyncRows(s) ==
  /\ sync[s].pc = "asked"
  /\ sync' = [sync EXCEPT ![s] = IF Tracked THEN [pc |-> "locking", todo |-> {}]
                                            ELSE [pc |-> "open", todo |-> Reader]]
  /\ UNCHANGED <<registration, client, consents, approver, admin, faceLock, removalVars,
                 onReader, edits>>

SyncLock(s) ==
  /\ sync[s].pc = "locking" /\ FaceFree
  /\ IF FaceAllowed
     THEN /\ sync' = [sync EXCEPT ![s] = [pc |-> "writing", todo |-> Reader]]
          /\ faceLock' = s
     ELSE /\ sync' = [sync EXCEPT ![s] = Idle]
          /\ UNCHANGED faceLock
  /\ UNCHANGED <<registration, client, consents, approver, admin, removalVars, onReader, edits>>

(* The reader takes the face, or does not.                                 *)
SyncWrite(s, r) ==
  /\ r \in sync[s].todo
  /\ sync' = [sync EXCEPT ![s].todo = @ \ {r}]
  /\ \/ onReader' = onReader \cup {r}
     \/ UNCHANGED onReader
  /\ UNCHANGED <<registration, client, consents, approver, admin, faceLock, removalVars, edits>>

(* The work is over, or its process died: the lock goes with its session.  *)
SyncOver(s) ==
  /\ sync' = [sync EXCEPT ![s] = Idle]
  /\ faceLock' = IF faceLock = s THEN None ELSE faceLock
  /\ UNCHANGED <<registration, client, consents, approver, admin, removalVars, onReader>>

SyncEnd(s) ==
  /\ sync[s].pc \in {"writing", "open"} /\ sync[s].todo = {}
  /\ SyncOver(s)
  /\ UNCHANGED edits

SyncCrash(s) ==
  /\ ~ Idling(s) /\ Edit
  /\ SyncOver(s)

-----------------------------------------------------------------------------
(* The removal job: ChildApprovalRemovalService.                           *)

\* Mutant: only registrations that are still admitted are looked at.
RemovalEnqueueAdmitted ==
  /\ PendingAny /\ ~ job /\ removal = Idle /\ status \in Admitted
  /\ job' = TRUE
  /\ UNCHANGED <<registration, client, consents, approver, admin, syncVars, removal, onReader,
                 edits>>

(* enqueue(), by the listener of a change or by the maintenance tick.  An  *)
(* enqueue while the job runs is merged into the row that is running.      *)
RemovalEnqueue ==
  /\ PendingAny /\ ~ job /\ removal = Idle
  /\ job' = TRUE
  /\ UNCHANGED <<registration, client, consents, approver, admin, syncVars, removal, onReader,
                 edits>>

RemovalStart ==
  /\ job /\ removal = Idle
  /\ job' = FALSE
  /\ removal' = [pc |-> "claimed", todo |-> {}]
  /\ UNCHANGED <<registration, client, consents, approver, admin, syncVars, onReader, edits>>

RemovalLockRow ==
  /\ removal.pc = "claimed"
  /\ removal' = IF PendingAny THEN [pc |-> "row", todo |-> {}] ELSE Idle
  /\ UNCHANGED <<registration, client, consents, approver, admin, syncVars, job, onReader, edits>>

RemovalLockFace ==
  /\ removal.pc = "row" /\ FaceFree
  /\ IF FaceAllowed
     THEN /\ pending' = Never /\ removal' = Idle
          /\ UNCHANGED faceLock
     ELSE /\ removal' = [pc |-> "removing", todo |-> Reader]
          /\ faceLock' = Removal
          /\ UNCHANGED pending
  /\ UNCHANGED <<status, active, required, intent, client, consents, approver, admin, sync, job,
                 onReader, edits>>

\* Mutant: requireAll is not asked for.
RemovalCommitsEarly ==
  /\ removal.pc = "removing"
  /\ pending' = Never /\ removal' = Idle /\ faceLock' = None
  /\ UNCHANGED <<status, active, required, intent, client, consents, approver, admin, sync, job,
                 onReader, edits>>

RemoveReader(r) ==
  /\ removal.pc = "removing" /\ r \in removal.todo
  /\ removal' = [removal EXCEPT !.todo = @ \ {r}]
  /\ onReader' = onReader \ {r}
  /\ UNCHANGED <<registration, client, consents, approver, admin, syncVars, job, edits>>

RemovalCommit ==
  /\ removal.pc = "removing" /\ removal.todo = {}
  /\ pending' = Never /\ removal' = Idle /\ faceLock' = None
  /\ UNCHANGED <<status, active, required, intent, client, consents, approver, admin, sync, job,
                 onReader, edits>>

(* A reader fails or has no credentials, or the process dies: the          *)
(* transaction rolls back.  The queue tries again, until it gives up.      *)
RemovalStops ==
  /\ removal.pc # "idle" /\ removal' = Idle
  /\ job' \in BOOLEAN
  /\ faceLock' = IF faceLock = Removal THEN None ELSE faceLock
  /\ UNCHANGED <<registration, client, consents, approver, admin, sync, onReader, edits>>

(* purgeIneligibleFacesFromReader(), of a rebuild or of a change of age    *)
(* policy, under the lock of the face: removeIfUnauthorized().             *)
Purge(r) ==
  /\ r \in onReader /\ FaceFree /\ ~ FaceAllowed
  /\ onReader' = onReader \ {r}
  /\ UNCHANGED <<registration, client, consents, approver, admin, syncVars, removalVars, edits>>

-----------------------------------------------------------------------------
(* The maintenance tick, every minute, and the listener of an acceptance.  *)

TickReject(d) ==
  /\ Needs(d) /\ consents[d] = {} /\ status \in Admitted
  /\ active \/ pending[d]
  /\ BothFree
  /\ RejectUnless(d, {})
  /\ UNCHANGED <<active, required, client, consents, approver, admin, syncVars, removalVars,
                 onReader, edits>>

Answered(d) == required[d] /\ active /\ intent[d] /\ (consents[d] # {} \/ ~ Needs(d))

\* Mutant: a rejected registration is not taken up again.
CompleteDraft(p, d) == Answered(d) /\ status = "draft" /\ ApproveAsk(p)

(* completeChildApproval(), completeVisitorApproval()                      *)
Complete(p, d) == Answered(d) /\ ApproveAsk(p)

(* A registration that was approved already is only synced again.          *)
Resync(d) ==
  /\ Answered(d) /\ status \in Admitted /\ FaceAllowed /\ RowFree
  /\ intent' = [intent EXCEPT ![d] = FALSE]
  /\ UNCHANGED <<status, active, required, pending, client, consents, approver, admin, syncVars,
                 removalVars, onReader, edits>>

-----------------------------------------------------------------------------
(* The services of visitor-approvals are twins of those of child-approvals.*)
VisitorAccept(a)  == Accept("visitor", a)
VisitorRevoke(a)  == Revoke("visitor", a)
VisitorRegularize == Regularize("visitor")
VisitorReject     == TickReject("visitor")
VisitorAnswer     == Resync("visitor") \/ \E p \in Approver : Complete(p, "visitor")

-----------------------------------------------------------------------------
Approval ==
  \E p \in Approver :
    ApproveAsk(p) \/ ApproveCommit(p) \/ ApproveEnqueue(p) \/ ApproveClear(p)

Child ==
  /\ "child" \in Domain
  /\ \/ \E a \in Adult : Accept("child", a) \/ Revoke("child", a)
     \/ Regularize("child") \/ TickReject("child") \/ Resync("child")
     \/ \E p \in Approver : Complete(p, "child")
     \/ ComeOfAge \/ CorrectBirthDate

Visitor ==
  /\ "visitor" \in Domain
  /\ \/ \E a \in Adult : VisitorAccept(a) \/ VisitorRevoke(a)
     \/ VisitorRegularize \/ VisitorReject \/ VisitorAnswer
     \/ Reclassify

Policy ==
  \/ \E a \in Adult : HostGone(a)
  \/ UnitChange
  \/ \E d \in Domain : Enable(d) \/ Disable(d)

Admin ==
  \/ Block \/ Unblock \/ Restore
  \/ \E why \in {"rejected", "deleted"} : AdminStart(why)
  \/ \E r \in Reader : AdminRemove(r)
  \/ AdminFail \/ AdminEnd

Syncing ==
  \E s \in Syncer :
    \/ SyncStart(s) \/ SyncRows(s) \/ SyncLock(s) \/ SyncEnd(s) \/ SyncCrash(s)
    \/ \E r \in Reader : SyncWrite(s, r)

Removing ==
  \/ RemovalEnqueue \/ RemovalStart \/ RemovalLockRow \/ RemovalLockFace
  \/ \E r \in Reader : RemoveReader(r) \/ Purge(r)
  \/ RemovalCommit \/ RemovalStops

Next == Approval \/ Child \/ Visitor \/ Policy \/ Admin \/ Syncing \/ Removing

Spec == Init /\ [][Next]_vars

(* The tick is a timer; syncs and jobs are run by workers and end.  Who    *)
(* waits for a lock of the database waits in a queue, and gets it (SF).    *)
(* The removal of one reader may fail again and again, but a reader that   *)
(* is asked for ever answers in the end (SF).                              *)
Fairness ==
  /\ SF_vars(\E d \in Domain : TickReject(d))
  /\ \A p \in Approver :
       /\ WF_vars(\E d \in Domain : Complete(p, d))
       /\ SF_vars(ApproveCommit(p) \/ ApproveEnqueue(p) \/ ApproveClear(p))
  /\ \A s \in Syncer : WF_vars(SyncRows(s) \/ SyncLock(s) \/ SyncEnd(s)
                                 \/ \E r \in Reader : SyncWrite(s, r))
  /\ WF_vars(RemovalEnqueue) /\ WF_vars(RemovalStart \/ RemovalCommit)
  /\ SF_vars(RemovalLockRow) /\ SF_vars(RemovalLockFace)
  /\ \A r \in Reader : SF_vars(RemoveReader(r))

FairSpec == Spec /\ Fairness

-----------------------------------------------------------------------------
(* Properties.                                                             *)

(* A face that is on a reader without authorization is always owed a       *)
(* removal that a restart cannot forget: a flag of the row is set, or the  *)
(* next tick will reject the registration and set one.                     *)
AccessIsOwed ==
  onReader # {} /\ ~ FaceAllowed =>
    PendingAny \/ (active /\ status \in Admitted /\ Missing # {})

(* A removal never runs against a person whom the missing adult has        *)
(* authorized meanwhile ("nunca remover um acesso válido").                *)
ValidAccessKept ==
  removal.pc = "removing" =>
    \/ PendingAny /\ (~ active \/ status = "rejected")
    \/ \E d \in Domain : required[d] /\ (consents[d] = {} \/ status \notin Admitted)

(* While the removal job talks to the readers, no sync of the face has     *)
(* readers left to write: withFaceAccess() serializes them.                *)
Serialized == removal.pc = "removing" => \A s \in Syncer : sync[s].todo = {}

(* The flag of a removal falls only when the face is off every reader, or  *)
(* may be there.                                                           *)
FlagFallsWhenDone ==
  [][PendingAny /\ (\A d \in Domain : ~ pending'[d]) => onReader = {} \/ FaceAllowed]_vars

(* An intention to approve that still waits for an adult is only given up  *)
(* by a rejection or by a change of class; a reconciler that finds the     *)
(* registration rejected already does not wipe it.                         *)
IntentKept ==
  [][\A d \in Domain :
        intent[d] /\ ~ intent'[d] /\ status' = "rejected" =>
          \/ status # "rejected"
          \/ subject' # subject]_vars

(* A face without authorization leaves every reader, whatever fails on the *)
(* way, unless somebody authorizes it again.                               *)
UnauthorizedFaceLeaves ==
  \A r \in Reader : (r \in onReader /\ ~ FaceAllowed) ~> (r \notin onReader \/ FaceAllowed)

(* An approval that waited for adults is completed once they have all      *)
(* answered, though nobody asks again.                                     *)
AnsweredIsApproved ==
  \A d \in Domain :
    (Answered(d) /\ Missing = {}) ~>
      (~ Answered(d) \/ Missing # {} \/ status \in Admitted)

=============================================================================
