-------------------------- MODULE FaceAccessProofs --------------------------
(***************************************************************************)
(* Proofs about FaceAccess, for any policies, adults, readers, syncs and   *)
(* calls: types, and the safety of access as long as nobody edits the      *)
(* person in the middle of a sync (Overlap = {}).                          *)
(***************************************************************************)
EXTENDS FaceAccess, TLAPS

(* The lock of the face is held by who is where the code holds it.         *)
LockHeld ==
  /\ \A s \in Syncer : (sync[s].pc = "writing") <=> (faceLock = s)
  /\ (removal.pc = "removing") <=> (faceLock = Removal)

(* Only a sync that was let in has readers left to write.                  *)
TodoIsOwn == \A s \in Syncer : sync[s].todo # {} => sync[s].pc \in {"writing", "open"}

(* A removal works for a flag, and goes through all readers.               *)
RemovalInv ==
  /\ removal.pc \in {"row", "removing"} => PendingAny
  /\ removal.pc = "removing" => onReader \subseteq removal.todo

(* An administrator who removes a face meets no sync.                      *)
AdminInv ==
  IF admin.why = "none" THEN admin.todo = {}
  ELSE onReader \subseteq admin.todo /\ \A s \in Syncer : Idling(s)

(* Who loses admission during a sync is in the policy that took it.        *)
FlightInv ==
  \A s \in Syncer : ~ Idling(s) =>
    /\ active /\ status # "draft"
    /\ status \in Admitted \/ \E d \in Domain : Needs(d)

(* A person whose face is being written is admitted; without the lock of   *)
(* the face, no policy has touched the person.                             *)
WriteInv ==
  \A s \in Syncer :
    /\ sync[s].pc = "writing" => status \in Admitted
    /\ sync[s].pc = "open" =>
         status \in Admitted /\ \A d \in Domain : ~ required[d] /\ ~ pending[d]

ConsentInv == \A d \in Domain : consents[d] # {} => required[d]

(* A face on a reader belongs to an admitted person or is flagged.         *)
PresentInv ==
  onReader # {} => /\ status # "draft"
                   /\ PendingAny \/ (active /\ status \in Admitted)

AccessInv ==
  /\ LockHeld /\ TodoIsOwn /\ RemovalInv /\ AdminInv /\ FlightInv
  /\ WriteInv /\ ConsentInv /\ PresentInv /\ ValidAccessKept

-----------------------------------------------------------------------------
(* Types.                                                                  *)

LEMMA TypeInit == Init => TypeOK
<1> SUFFICES ASSUME Init PROVE TypeOK
  OBVIOUS
<1>1. /\ pending \in [Domain -> BOOLEAN] /\ intent \in [Domain -> BOOLEAN]
      /\ required \in [Domain -> BOOLEAN]
  BY DEF Init, Never
<1>2. /\ sync \in [Syncer -> [pc : SyncPc, todo : SUBSET Reader]]
      /\ removal \in [pc : {"idle", "claimed", "row", "removing"}, todo : SUBSET Reader]
  BY DEF Init, SyncPc, Idle
<1>3. /\ consents \in [Domain -> SUBSET Adult]
      /\ admin \in [why : {"none", "rejected", "deleted"}, todo : SUBSET Reader]
  BY DEF Init, NoAdmin
<1>4. edits \in 0 .. MaxEdits
  BY FaceAccessAssumption DEF Init
<1> QED
  BY <1>1, <1>2, <1>3, <1>4 DEF Init, TypeOK, Status

(* A rejection with a repair set leaves the registration well-typed.       *)
LEMMA RejectTyped ==
  ASSUME TypeOK, NEW d \in Domain, NEW S, RejectUnless(d, S)
  PROVE  /\ status' \in Status
         /\ pending' \in [Domain -> BOOLEAN] /\ intent' \in [Domain -> BOOLEAN]
<1>1. CASE Needs(d) /\ S = {} /\ status # "rejected"
  BY <1>1 DEF RejectUnless, TypeOK, Status, Never
<1>2. CASE ~ (Needs(d) /\ S = {} /\ status # "rejected")
  BY <1>2 DEF RejectUnless, TypeOK
<1> QED
  BY <1>1, <1>2

LEMMA TypeStep == TypeOK /\ [Next]_vars => TypeOK'
<1> SUFFICES ASSUME TypeOK, [Next]_vars PROVE TypeOK'
  OBVIOUS
<1>1. ASSUME NEW p \in Approver, ApproveAsk(p) PROVE TypeOK'
  BY <1>1 DEF TypeOK, Status, SyncPc, ApproveAsk, client, syncVars, removalVars
<1>2. ASSUME NEW p \in Approver, ApproveCommit(p) PROVE TypeOK'
  BY <1>2 DEF TypeOK, Status, SyncPc, ApproveCommit, client, syncVars, removalVars
<1>3. ASSUME NEW p \in Approver, ApproveEnqueue(p) PROVE TypeOK'
  BY <1>3 DEF TypeOK, Status, SyncPc, ApproveEnqueue, Admitted, registration, client,
     syncVars, removalVars
<1>4. ASSUME NEW p \in Approver, ApproveClear(p) PROVE TypeOK'
  BY <1>4 DEF TypeOK, Status, SyncPc, ApproveClear, Never, client, syncVars,
     removalVars
<1>5. ASSUME NEW d \in Domain, NEW a \in Adult, Accept(d, a) PROVE TypeOK'
  BY <1>5 DEF TypeOK, Status, SyncPc, Accept, registration, client, syncVars,
     removalVars
<1>6. ASSUME NEW d \in Domain, NEW a \in Adult, Revoke(d, a) PROVE TypeOK'
  <2>1. /\ status' \in Status
        /\ pending' \in [Domain -> BOOLEAN] /\ intent' \in [Domain -> BOOLEAN]
    BY <1>6, RejectTyped DEF Revoke
  <2>2. edits' \in 0 .. MaxEdits /\ consents' \in [Domain -> SUBSET Adult]
    BY <1>6, FaceAccessAssumption DEF Revoke, Edit, TypeOK
  <2> QED
    BY <1>6, <2>1, <2>2 DEF Revoke, TypeOK, client, syncVars, removalVars
<1>7. ASSUME NEW d \in Domain, Regularize(d) PROVE TypeOK'
  BY <1>7, FaceAccessAssumption DEF TypeOK, Status, SyncPc, Regularize, Edit, Never,
     syncVars, removalVars
<1>8. ASSUME NEW d \in Domain, TickReject(d) PROVE TypeOK'
  <2>1. /\ status' \in Status
        /\ pending' \in [Domain -> BOOLEAN] /\ intent' \in [Domain -> BOOLEAN]
    BY <1>8, RejectTyped DEF TickReject
  <2> QED
    BY <1>8, <2>1 DEF TickReject, TypeOK, client, syncVars, removalVars
<1>9. ASSUME NEW d \in Domain, Resync(d) PROVE TypeOK'
  BY <1>9 DEF TypeOK, Status, SyncPc, Resync, Admitted, client, syncVars, removalVars
<1>10. ASSUME NEW a \in Adult, HostGone(a) PROVE TypeOK'
  BY <1>10, FaceAccessAssumption DEF TypeOK, Status, SyncPc, HostGone, Edit, client,
     syncVars, removalVars
<1>11. ASSUME UnitChange PROVE TypeOK'
  BY <1>11, FaceAccessAssumption DEF TypeOK, Status, SyncPc, UnitChange, Edit, client,
     syncVars, removalVars
<1>12. ASSUME "visitor" \in Domain, Reclassify PROVE TypeOK'
  BY <1>12, FaceAccessAssumption DEF TypeOK, Status, SyncPc, Reclassify, Edit, Never,
     syncVars, removalVars
<1>13. ASSUME "child" \in Domain, ComeOfAge PROVE TypeOK'
  BY <1>13, FaceAccessAssumption DEF TypeOK, Status, SyncPc, ComeOfAge, Edit,
     registration, syncVars, removalVars
<1>14. ASSUME "child" \in Domain, CorrectBirthDate PROVE TypeOK'
  BY <1>14, FaceAccessAssumption DEF TypeOK, Status, SyncPc, CorrectBirthDate, Edit,
     registration, syncVars, removalVars
<1>15. ASSUME NEW d \in Domain, Enable(d) PROVE TypeOK'
  BY <1>15, FaceAccessAssumption DEF TypeOK, Status, SyncPc, Enable, Edit, Admitted,
     syncVars, removalVars
<1>16. ASSUME NEW d \in Domain, Disable(d) PROVE TypeOK'
  BY <1>16, FaceAccessAssumption DEF TypeOK, Status, SyncPc, Disable, Edit,
     registration, syncVars, removalVars
<1>17. ASSUME Block PROVE TypeOK'
  BY <1>17, FaceAccessAssumption DEF TypeOK, Status, SyncPc, Block, Edit, client,
     syncVars, removalVars
<1>18. ASSUME Unblock PROVE TypeOK'
  BY <1>18, FaceAccessAssumption DEF TypeOK, Status, SyncPc, Unblock, Edit, client,
     syncVars, removalVars
<1>19. ASSUME Restore PROVE TypeOK'
  BY <1>19, FaceAccessAssumption DEF TypeOK, Status, SyncPc, Restore, Edit, client,
     syncVars, removalVars
<1>20. ASSUME NEW why \in {"rejected", "deleted"}, AdminStart(why) PROVE TypeOK'
  <2>1. intent' \in [Domain -> BOOLEAN]
    <3>1. CASE intent' = [d \in Domain |-> intent[d] /\ d = "child" /\ ~ required[d]]
      BY <3>1
    <3>2. CASE UNCHANGED intent
      BY <3>2 DEF TypeOK
    <3> QED
      BY <1>20, <3>1, <3>2 DEF AdminStart
  <2>2. admin' \in [why : {"none", "rejected", "deleted"}, todo : SUBSET Reader]
    BY <1>20 DEF AdminStart, TypeOK
  <2>3. edits' \in 0 .. MaxEdits
    BY <1>20, FaceAccessAssumption DEF AdminStart, Edit, TypeOK
  <2> QED
    BY <1>20, <2>1, <2>2, <2>3 DEF AdminStart, TypeOK, client, syncVars, removalVars
<1>21. ASSUME NEW r \in Reader, AdminRemove(r) PROVE TypeOK'
  BY <1>21 DEF TypeOK, Status, SyncPc, AdminRemove, registration, client, syncVars,
     removalVars
<1>22. ASSUME AdminFail PROVE TypeOK'
  BY <1>22 DEF TypeOK, Status, SyncPc, AdminFail, NoAdmin, registration, client,
     syncVars, removalVars
<1>23. ASSUME AdminEnd PROVE TypeOK'
  BY <1>23 DEF TypeOK, Status, SyncPc, AdminEnd, Never, NoAdmin, client, syncVars,
     removalVars
<1>24. ASSUME NEW s \in Syncer, SyncStart(s) PROVE TypeOK'
  BY <1>24 DEF TypeOK, Status, SyncPc, SyncStart, NoAdmin, Admitted, registration,
     client, removalVars
<1>25. ASSUME NEW s \in Syncer, SyncRows(s) PROVE TypeOK'
  BY <1>25 DEF TypeOK, Status, SyncPc, SyncRows, registration, client, removalVars
<1>26. ASSUME NEW s \in Syncer, SyncLock(s) PROVE TypeOK'
  BY <1>26 DEF TypeOK, Status, SyncPc, SyncLock, Idle, registration, client,
     removalVars
<1>27. ASSUME NEW s \in Syncer, NEW r \in Reader, SyncWrite(s, r) PROVE TypeOK'
  BY <1>27 DEF TypeOK, Status, SyncPc, SyncWrite, registration, client, removalVars
<1>28. ASSUME NEW s \in Syncer, SyncEnd(s) PROVE TypeOK'
  BY <1>28 DEF TypeOK, Status, SyncPc, SyncEnd, SyncOver, Idle, registration, client,
     removalVars
<1>29. ASSUME NEW s \in Syncer, SyncCrash(s) PROVE TypeOK'
  BY <1>29, FaceAccessAssumption DEF TypeOK, Status, SyncPc, SyncCrash, SyncOver,
     Edit, Idle, registration, client, removalVars
<1>30. ASSUME RemovalEnqueue PROVE TypeOK'
  BY <1>30 DEF TypeOK, Status, SyncPc, RemovalEnqueue, Idle, registration, client,
     syncVars
<1>31. ASSUME RemovalStart PROVE TypeOK'
  BY <1>31 DEF TypeOK, Status, SyncPc, RemovalStart, Idle, registration, client,
     syncVars
<1>32. ASSUME RemovalLockRow PROVE TypeOK'
  BY <1>32 DEF TypeOK, Status, SyncPc, RemovalLockRow, Idle, registration, client,
     syncVars
<1>33. ASSUME RemovalLockFace PROVE TypeOK'
  <2>1. CASE FaceAllowed
    <3>1. removal' = Idle /\ pending' = Never /\ UNCHANGED faceLock
      BY <1>33, <2>1 DEF RemovalLockFace
    <3>2. /\ Idle \in [pc : {"idle", "claimed", "row", "removing"}, todo : SUBSET Reader]
          /\ Never \in [Domain -> BOOLEAN]
      BY DEF Idle, Never
    <3> QED
      BY <1>33, <3>1, <3>2 DEF RemovalLockFace, TypeOK, client
  <2>2. CASE ~ FaceAllowed
    <3>1. /\ removal' \in [pc : {"idle", "claimed", "row", "removing"}, todo : SUBSET Reader]
          /\ faceLock' \in Syncer \cup {Removal, None}
      BY <1>33, <2>2 DEF RemovalLockFace
    <3> QED
      BY <1>33, <2>2, <3>1 DEF RemovalLockFace, TypeOK, client
  <2> QED
    BY <2>1, <2>2
<1>34. ASSUME NEW r \in Reader, RemoveReader(r) PROVE TypeOK'
  BY <1>34 DEF TypeOK, Status, SyncPc, RemoveReader, registration, client, syncVars
<1>35. ASSUME RemovalCommit PROVE TypeOK'
  BY <1>35 DEF TypeOK, Status, SyncPc, RemovalCommit, Never, Idle, client
<1>36. ASSUME RemovalStops PROVE TypeOK'
  BY <1>36 DEF TypeOK, Status, SyncPc, RemovalStops, Idle, registration, client
<1>37. ASSUME NEW r \in Reader, Purge(r) PROVE TypeOK'
  BY <1>37 DEF TypeOK, Status, SyncPc, Purge, registration, client, syncVars,
     removalVars
<1>38. CASE Approval
  BY <1>38, <1>1, <1>2, <1>3, <1>4 DEF Approval
<1>39. CASE Child
  BY <1>39, <1>5, <1>6, <1>7, <1>8, <1>9, <1>1, <1>13, <1>14 DEF Child, Complete
<1>40. CASE Visitor
  BY <1>40, <1>5, <1>6, <1>7, <1>8, <1>9, <1>1, <1>12 DEF Visitor, VisitorAccept,
     VisitorRevoke, VisitorRegularize, VisitorReject, VisitorAnswer, Complete
<1>41. CASE Policy
  BY <1>41, <1>10, <1>11, <1>15, <1>16 DEF Policy
<1>42. CASE Admin
  BY <1>42, <1>17, <1>18, <1>19, <1>20, <1>21, <1>22, <1>23 DEF Admin
<1>43. CASE Syncing
  BY <1>43, <1>24, <1>25, <1>26, <1>28, <1>29, <1>27 DEF Syncing
<1>44. CASE Removing
  BY <1>44, <1>30, <1>31, <1>32, <1>33, <1>34, <1>37, <1>35, <1>36 DEF Removing
<1>45. CASE UNCHANGED vars
  BY <1>45 DEF TypeOK, vars, registration, client, syncVars, removalVars
<1> QED
  BY <1>38, <1>39, <1>40, <1>41, <1>42, <1>43, <1>44, <1>45 DEF Next

-----------------------------------------------------------------------------
(* The invariant of access.                                                *)

LEMMA AccessInit == Init => AccessInv
  BY FaceAccessAssumption
  DEF Init, AccessInv, LockHeld, TodoIsOwn, RemovalInv, AdminInv, FlightInv, WriteInv,
      ConsentInv, PresentInv, ValidAccessKept, Idling, Never, Idle, NoAdmin

(* Which variables each part of the invariant speaks of.                   *)
LEMMA Frame ==
  ASSUME AccessInv
  PROVE
    /\ UNCHANGED <<sync, removal, faceLock>> => LockHeld'
    /\ UNCHANGED <<sync>> => TodoIsOwn'
    /\ UNCHANGED <<removal, pending, onReader>> => RemovalInv'
    /\ UNCHANGED <<admin, onReader, sync>> => AdminInv'
    /\ UNCHANGED <<sync, active, status, enable, required, subject>> => FlightInv'
    /\ UNCHANGED <<sync, status, required, pending>> => WriteInv'
    /\ UNCHANGED <<consents, required>> => ConsentInv'
    /\ UNCHANGED <<onReader, status, pending, active>> => PresentInv'
    /\ UNCHANGED <<removal, pending, active, status, required, consents>> => ValidAccessKept'
<1>1. UNCHANGED <<sync, removal, faceLock>> => LockHeld'
  BY DEF AccessInv, LockHeld
<1>2. UNCHANGED <<sync>> => TodoIsOwn'
  BY DEF AccessInv, TodoIsOwn
<1>3. UNCHANGED <<removal, pending, onReader>> => RemovalInv'
  BY DEF AccessInv, RemovalInv, PendingAny
<1>4. UNCHANGED <<admin, onReader, sync>> => AdminInv'
  BY DEF AccessInv, AdminInv, Idling
<1>5. UNCHANGED <<sync, active, status, enable, required, subject>> => FlightInv'
  BY DEF AccessInv, FlightInv, Idling, Needs
<1>6. UNCHANGED <<sync, status, required, pending>> => WriteInv'
  BY DEF AccessInv, WriteInv
<1>7. UNCHANGED <<consents, required>> => ConsentInv'
  BY DEF AccessInv, ConsentInv
<1>8. UNCHANGED <<onReader, status, pending, active>> => PresentInv'
  BY DEF AccessInv, PresentInv, PendingAny
<1>9. UNCHANGED <<removal, pending, active, status, required, consents>> => ValidAccessKept'
  BY DEF AccessInv, ValidAccessKept, PendingAny
<1> QED
  BY <1>1, <1>2, <1>3, <1>4, <1>5, <1>6, <1>7, <1>8, <1>9

LEMMA AccessStep ==
  ASSUME Overlap = {}, TypeOK, AccessInv, [Next]_vars
  PROVE  AccessInv'
<1>1. ASSUME NEW p \in Approver, ApproveAsk(p) PROVE AccessInv'
  BY <1>1, Frame DEF AccessInv, ApproveAsk, client, syncVars, removalVars
<1>2. ASSUME NEW p \in Approver, ApproveCommit(p) PROVE AccessInv'
  <2>1. FlightInv'
    BY <1>2 DEF AccessInv, FlightInv, ApproveCommit, Needs, Idling, Admitted, client,
       syncVars
  <2>2. WriteInv'
    BY <1>2 DEF AccessInv, WriteInv, ApproveCommit, Admitted, syncVars
  <2>3. PresentInv'
    BY <1>2 DEF AccessInv, PresentInv, ApproveCommit, PendingAny, Admitted
  <2>4. ValidAccessKept'
    BY <1>2 DEF AccessInv, ValidAccessKept, ApproveCommit, RowFree, removalVars
  <2> QED
    BY <1>2, <2>1, <2>2, <2>3, <2>4, Frame DEF AccessInv, ApproveCommit, client,
       syncVars, removalVars
<1>3. ASSUME NEW p \in Approver, ApproveEnqueue(p) PROVE AccessInv'
  BY <1>3, Frame DEF AccessInv, ApproveEnqueue, registration, client, syncVars,
     removalVars
<1>4. ASSUME NEW p \in Approver, ApproveClear(p) PROVE AccessInv'
  BY <1>4, Frame DEF AccessInv, ApproveClear, client, syncVars, removalVars
<1>5. ASSUME NEW d \in Domain, NEW a \in Adult, Accept(d, a) PROVE AccessInv'
  <2>1. ConsentInv'
    BY <1>5 DEF AccessInv, ConsentInv, Accept, Needs, registration
  <2>2. ValidAccessKept'
    BY <1>5 DEF AccessInv, ValidAccessKept, Accept, RowFree, BothFree, removalVars
  <2> QED
    BY <1>5, <2>1, <2>2, Frame DEF AccessInv, Accept, registration, client, syncVars,
       removalVars
<1>6. ASSUME NEW d \in Domain, NEW a \in Adult, Revoke(d, a) PROVE AccessInv'
  <2>1. RemovalInv'
    BY <1>6 DEF AccessInv, RemovalInv, Revoke, RejectUnless, RowFree, BothFree,
       removalVars
  <2>2. FlightInv'
    BY <1>6 DEF AccessInv, FlightInv, Revoke, RejectUnless, Needs, Idling, client,
       syncVars
  <2>3. WriteInv'
    BY <1>6, FaceAccessAssumption DEF AccessInv, WriteInv, LockHeld, Revoke,
       RejectUnless, FaceFree, BothFree, Needs, syncVars
  <2>4. ConsentInv'
    BY <1>6 DEF AccessInv, ConsentInv, Revoke, RejectUnless
  <2>5. PresentInv'
    BY <1>6 DEF AccessInv, PresentInv, TypeOK, Revoke, RejectUnless, PendingAny
  <2>6. ValidAccessKept'
    BY <1>6 DEF AccessInv, ValidAccessKept, Revoke, RejectUnless, Needs, PendingAny,
       Admitted, removalVars
  <2> QED
    BY <1>6, <2>1, <2>2, <2>3, <2>4, <2>5, <2>6, Frame DEF AccessInv, Revoke,
       RejectUnless, client, syncVars, removalVars
<1>7. ASSUME NEW d \in Domain, Regularize(d) PROVE AccessInv'
  <2>1. RemovalInv'
    BY <1>7 DEF AccessInv, RemovalInv, Regularize, RowFree, BothFree, removalVars
  <2>2. FlightInv'
    BY <1>7 DEF AccessInv, FlightInv, TypeOK, Regularize, Needs
  <2>3. WriteInv'
    BY <1>7, FaceAccessAssumption DEF AccessInv, WriteInv, LockHeld, Regularize,
       FaceFree, BothFree, Calm, Unlocked, syncVars
  <2>4. ConsentInv'
    BY <1>7 DEF AccessInv, ConsentInv, Regularize
  <2>5. PresentInv'
    BY <1>7 DEF AccessInv, PresentInv, TypeOK, Regularize, PendingAny
  <2>6. ValidAccessKept'
    BY <1>7 DEF AccessInv, ValidAccessKept, Regularize, Admitted, removalVars
  <2> QED
    BY <1>7, <2>1, <2>2, <2>3, <2>4, <2>5, <2>6, Frame DEF AccessInv, Regularize,
       syncVars, removalVars
<1>8. ASSUME NEW d \in Domain, TickReject(d) PROVE AccessInv'
  <2>1. RemovalInv'
    BY <1>8 DEF AccessInv, RemovalInv, TickReject, RejectUnless, RowFree, BothFree,
       removalVars
  <2>2. FlightInv'
    BY <1>8 DEF AccessInv, FlightInv, TickReject, RejectUnless, Needs, Idling, client,
       syncVars
  <2>3. WriteInv'
    BY <1>8, FaceAccessAssumption DEF AccessInv, WriteInv, LockHeld, TickReject,
       RejectUnless, FaceFree, BothFree, Needs, syncVars
  <2>4. PresentInv'
    BY <1>8 DEF AccessInv, PresentInv, TypeOK, TickReject, RejectUnless, PendingAny
  <2>5. ValidAccessKept'
    BY <1>8 DEF AccessInv, ValidAccessKept, TickReject, RejectUnless, Needs
  <2> QED
    BY <1>8, <2>1, <2>2, <2>3, <2>4, <2>5, Frame DEF AccessInv, TickReject,
       RejectUnless, client, syncVars, removalVars
<1>9. ASSUME NEW d \in Domain, Resync(d) PROVE AccessInv'
  BY <1>9, Frame DEF AccessInv, Resync, client, syncVars, removalVars
<1>10. ASSUME NEW a \in Adult, HostGone(a) PROVE AccessInv'
  <2>1. RemovalInv'
    BY <1>10 DEF AccessInv, RemovalInv, HostGone, RowFree, BothFree, removalVars
  <2>2. WriteInv'
    BY <1>10 DEF AccessInv, WriteInv, ConsentInv, HostGone, syncVars
  <2>3. ConsentInv'
    BY <1>10 DEF AccessInv, ConsentInv, HostGone, TypeOK
  <2>4. PresentInv'
    BY <1>10 DEF AccessInv, PresentInv, TypeOK, HostGone, PendingAny
  <2>5. ValidAccessKept'
    BY <1>10 DEF AccessInv, ValidAccessKept, HostGone, RowFree, BothFree, removalVars
  <2> QED
    BY <1>10, <2>1, <2>2, <2>3, <2>4, <2>5, Frame DEF AccessInv, HostGone, client,
       syncVars, removalVars
<1>11. ASSUME UnitChange PROVE AccessInv'
  <2>1. RemovalInv'
    BY <1>11 DEF AccessInv, RemovalInv, UnitChange, RowFree, LocksFree, removalVars
  <2>2. WriteInv'
    BY <1>11 DEF AccessInv, WriteInv, ConsentInv, TypeOK, UnitChange, Invalidated,
       syncVars
  <2>3. ConsentInv'
    BY <1>11 DEF AccessInv, ConsentInv, UnitChange
  <2>4. PresentInv'
    BY <1>11 DEF AccessInv, PresentInv, TypeOK, UnitChange, PendingAny
  <2>5. ValidAccessKept'
    BY <1>11 DEF AccessInv, ValidAccessKept, UnitChange, RowFree, LocksFree,
       removalVars
  <2> QED
    BY <1>11, <2>1, <2>2, <2>3, <2>4, <2>5, Frame DEF AccessInv, UnitChange, client,
       syncVars, removalVars
<1>12. ASSUME "visitor" \in Domain, Reclassify PROVE AccessInv'
  <2>1. RemovalInv'
    BY <1>12 DEF AccessInv, RemovalInv, Reclassify, PendingAny, removalVars
  <2>2. FlightInv'
    BY <1>12 DEF AccessInv, FlightInv, TypeOK, Reclassify, Needs, Calm, Idling,
       syncVars
  <2>3. WriteInv'
    BY <1>12 DEF AccessInv, WriteInv, Reclassify, Calm, Unlocked, Idling, syncVars
  <2>4. ConsentInv'
    BY <1>12 DEF AccessInv, ConsentInv, Reclassify
  <2>5. PresentInv'
    BY <1>12 DEF AccessInv, PresentInv, Reclassify, PendingAny
  <2>6. ValidAccessKept'
    BY <1>12 DEF AccessInv, ValidAccessKept, Reclassify, RowFree, LocksFree,
       removalVars
  <2> QED
    BY <1>12, <2>1, <2>2, <2>3, <2>4, <2>5, <2>6, Frame DEF AccessInv, Reclassify,
       syncVars, removalVars
<1>13. ASSUME "child" \in Domain, ComeOfAge PROVE AccessInv'
  <2>1. FlightInv'
    BY <1>13 DEF AccessInv, FlightInv, ComeOfAge, Calm, Idling, syncVars
  <2> QED
    BY <1>13, <2>1, Frame DEF AccessInv, ComeOfAge, registration, syncVars,
       removalVars
<1>14. ASSUME "child" \in Domain, CorrectBirthDate PROVE AccessInv'
  <2>1. FlightInv'
    BY <1>14 DEF AccessInv, FlightInv, CorrectBirthDate, Needs, Idling, registration,
       syncVars
  <2> QED
    BY <1>14, <2>1, Frame DEF AccessInv, CorrectBirthDate, registration, syncVars,
       removalVars
<1>15. ASSUME NEW d \in Domain, Enable(d) PROVE AccessInv'
  <2>1. RemovalInv'
    BY <1>15 DEF AccessInv, RemovalInv, TypeOK, Enable, PendingAny, removalVars
  <2>2. FlightInv'
    BY <1>15 DEF AccessInv, FlightInv, Enable, Needs, Idling, syncVars
  <2>3. WriteInv'
    BY <1>15 DEF AccessInv, WriteInv, TypeOK, Enable, syncVars
  <2>4. PresentInv'
    BY <1>15 DEF AccessInv, PresentInv, TypeOK, Enable, PendingAny
  <2>5. ValidAccessKept'
    BY <1>15 DEF AccessInv, ValidAccessKept, TypeOK, Enable, PendingAny, removalVars
  <2> QED
    BY <1>15, <2>1, <2>2, <2>3, <2>4, <2>5, Frame DEF AccessInv, Enable, syncVars,
       removalVars
<1>16. ASSUME NEW d \in Domain, Disable(d) PROVE AccessInv'
  <2>1. FlightInv'
    BY <1>16 DEF AccessInv, FlightInv, Disable, Calm, Idling, syncVars
  <2> QED
    BY <1>16, <2>1, Frame DEF AccessInv, Disable, registration, syncVars, removalVars
<1>17. ASSUME Block PROVE AccessInv'
  <2>1. FlightInv'
    BY <1>17 DEF AccessInv, FlightInv, Block, Admitted
  <2>2. WriteInv'
    BY <1>17 DEF AccessInv, WriteInv, Block, Admitted, syncVars
  <2>3. PresentInv'
    BY <1>17 DEF AccessInv, PresentInv, Block, Admitted
  <2>4. ValidAccessKept'
    BY <1>17 DEF AccessInv, ValidAccessKept, Block, RowFree, removalVars
  <2> QED
    BY <1>17, <2>1, <2>2, <2>3, <2>4, Frame DEF AccessInv, Block, client, syncVars,
       removalVars
<1>18. ASSUME Unblock PROVE AccessInv'
  <2>1. FlightInv'
    BY <1>18 DEF AccessInv, FlightInv, Unblock, Admitted
  <2>2. WriteInv'
    BY <1>18 DEF AccessInv, WriteInv, Unblock, Admitted, syncVars
  <2>3. PresentInv'
    BY <1>18 DEF AccessInv, PresentInv, Unblock, Admitted
  <2>4. ValidAccessKept'
    BY <1>18 DEF AccessInv, ValidAccessKept, Unblock, Admitted, removalVars
  <2> QED
    BY <1>18, <2>1, <2>2, <2>3, <2>4, Frame DEF AccessInv, Unblock, client, syncVars,
       removalVars
<1>19. ASSUME Restore PROVE AccessInv'
  <2>1. FlightInv'
    BY <1>19 DEF AccessInv, FlightInv, Restore, Idling, syncVars
  <2>2. PresentInv'
    BY <1>19 DEF AccessInv, PresentInv, Restore, PendingAny
  <2>3. ValidAccessKept'
    BY <1>19 DEF AccessInv, ValidAccessKept, Restore, RowFree, removalVars
  <2> QED
    BY <1>19, <2>1, <2>2, <2>3, Frame DEF AccessInv, Restore, client, syncVars,
       removalVars
<1>20. ASSUME NEW why \in {"rejected", "deleted"}, AdminStart(why) PROVE AccessInv'
  <2>1. AdminInv'
    BY <1>20 DEF AccessInv, AdminInv, PresentInv, TypeOK, AdminStart, Calm, Idling,
       syncVars
  <2> QED
    BY <1>20, <2>1, Frame DEF AccessInv, AdminStart, client, syncVars, removalVars
<1>21. ASSUME NEW r \in Reader, AdminRemove(r) PROVE AccessInv'
  <2>1. RemovalInv'
    BY <1>21 DEF AccessInv, RemovalInv, AdminRemove, PendingAny, registration,
       removalVars
  <2>2. AdminInv'
    BY <1>21 DEF AccessInv, AdminInv, AdminRemove, Idling, syncVars
  <2>3. PresentInv'
    BY <1>21 DEF AccessInv, PresentInv, AdminRemove, PendingAny, registration
  <2> QED
    BY <1>21, <2>1, <2>2, <2>3, Frame DEF AccessInv, AdminRemove, registration,
       client, syncVars, removalVars
<1>22. ASSUME AdminFail PROVE AccessInv'
  <2>1. AdminInv'
    BY <1>22 DEF AccessInv, AdminInv, AdminFail, NoAdmin
  <2> QED
    BY <1>22, <2>1, Frame DEF AccessInv, AdminFail, registration, client, syncVars,
       removalVars
<1>23. ASSUME AdminEnd PROVE AccessInv'
  <2>1. AdminInv'
    BY <1>23 DEF AccessInv, AdminInv, AdminEnd, NoAdmin
  <2>2. FlightInv'
    BY <1>23 DEF AccessInv, FlightInv, AdminInv, AdminEnd, Idling, syncVars
  <2>3. WriteInv'
    BY <1>23 DEF AccessInv, WriteInv, AdminInv, AdminEnd, Idling, syncVars
  <2>4. PresentInv'
    BY <1>23 DEF AccessInv, PresentInv, AdminInv, AdminEnd
  <2>5. ValidAccessKept'
    BY <1>23 DEF AccessInv, ValidAccessKept, AdminEnd, PendingAny, Admitted,
       removalVars
  <2> QED
    BY <1>23, <2>1, <2>2, <2>3, <2>4, <2>5, Frame DEF AccessInv, AdminEnd, client,
       syncVars, removalVars
<1>24. ASSUME NEW s \in Syncer, SyncStart(s) PROVE AccessInv'
  <2>1. LockHeld'
    BY <1>24 DEF AccessInv, LockHeld, SyncStart, Idling, removalVars
  <2>2. TodoIsOwn'
    BY <1>24 DEF AccessInv, TodoIsOwn, SyncStart
  <2>3. AdminInv'
    BY <1>24 DEF AccessInv, AdminInv, SyncStart, NoAdmin
  <2>4. FlightInv'
    BY <1>24 DEF AccessInv, FlightInv, SyncStart, Admitted, registration
  <2>5. WriteInv'
    BY <1>24 DEF AccessInv, WriteInv, SyncStart, registration
  <2> QED
    BY <1>24, <2>1, <2>2, <2>3, <2>4, <2>5, Frame DEF AccessInv, SyncStart,
       registration, client, removalVars
<1>25. ASSUME NEW s \in Syncer, SyncRows(s) PROVE AccessInv'
  <2>1. LockHeld'
    BY <1>25 DEF AccessInv, LockHeld, SyncRows, removalVars
  <2>2. TodoIsOwn'
    BY <1>25 DEF AccessInv, TodoIsOwn, SyncRows
  <2>3. AdminInv'
    BY <1>25 DEF AccessInv, AdminInv, SyncRows, Idling
  <2>4. FlightInv'
    BY <1>25 DEF AccessInv, FlightInv, SyncRows, Needs, Idling, registration, client
  <2>5. WriteInv'
    BY <1>25 DEF AccessInv, WriteInv, FlightInv, TypeOK, SyncRows, Needs, Tracked,
       Idling, registration
  <2> QED
    BY <1>25, <2>1, <2>2, <2>3, <2>4, <2>5, Frame DEF AccessInv, SyncRows,
       registration, client, removalVars
<1>26. ASSUME NEW s \in Syncer, SyncLock(s) PROVE AccessInv'
  <2>1. LockHeld'
    BY <1>26, FaceAccessAssumption DEF AccessInv, LockHeld, TypeOK, SyncLock,
       FaceFree, Idle, removalVars
  <2>2. TodoIsOwn'
    BY <1>26 DEF AccessInv, TodoIsOwn, TypeOK, SyncLock, Idle
  <2>3. AdminInv'
    BY <1>26 DEF AccessInv, AdminInv, SyncLock, Idling
  <2>4. FlightInv'
    BY <1>26 DEF AccessInv, FlightInv, SyncLock, Needs, Idling, registration, client
  <2>5. WriteInv'
    BY <1>26 DEF AccessInv, WriteInv, LockHeld, FlightInv, TypeOK, SyncLock, Allows,
       FaceAllowed, Idling, Idle, registration
  <2> QED
    BY <1>26, <2>1, <2>2, <2>3, <2>4, <2>5, Frame DEF AccessInv, SyncLock,
       registration, client, removalVars
<1>27. ASSUME NEW s \in Syncer, NEW r \in Reader, SyncWrite(s, r) PROVE AccessInv'
  <2>1. LockHeld'
    BY <1>27 DEF AccessInv, LockHeld, SyncWrite, removalVars
  <2>2. TodoIsOwn'
    BY <1>27 DEF AccessInv, TodoIsOwn, SyncWrite
  <2>3. RemovalInv'
    BY <1>27, FaceAccessAssumption DEF AccessInv, RemovalInv, LockHeld, TodoIsOwn,
       WriteInv, SyncWrite, PendingAny, registration, removalVars
  <2>4. AdminInv'
    BY <1>27 DEF AccessInv, AdminInv, TodoIsOwn, SyncWrite, Idling
  <2>5. FlightInv'
    BY <1>27 DEF AccessInv, FlightInv, SyncWrite, Needs, Idling, registration, client
  <2>6. WriteInv'
    BY <1>27 DEF AccessInv, WriteInv, SyncWrite, registration
  <2>7. PresentInv'
    BY <1>27 DEF AccessInv, PresentInv, TodoIsOwn, FlightInv, WriteInv, SyncWrite,
       Idling, registration
  <2> QED
    BY <1>27, <2>1, <2>2, <2>3, <2>4, <2>5, <2>6, <2>7, Frame DEF AccessInv,
       SyncWrite, registration, client, removalVars
<1>28. ASSUME NEW s \in Syncer, SyncEnd(s) PROVE AccessInv'
  <2>1. LockHeld'
    BY <1>28, FaceAccessAssumption DEF AccessInv, LockHeld, TypeOK, SyncEnd, SyncOver,
       Idle, removalVars
  <2>2. TodoIsOwn'
    BY <1>28 DEF AccessInv, TodoIsOwn, SyncEnd, SyncOver, Idle
  <2>3. AdminInv'
    BY <1>28 DEF AccessInv, AdminInv, SyncEnd, SyncOver, Idling
  <2>4. FlightInv'
    BY <1>28 DEF AccessInv, FlightInv, SyncEnd, SyncOver, Needs, Idling, registration,
       client
  <2>5. WriteInv'
    BY <1>28 DEF AccessInv, WriteInv, SyncEnd, SyncOver, Idle, registration
  <2> QED
    BY <1>28, <2>1, <2>2, <2>3, <2>4, <2>5, Frame DEF AccessInv, SyncEnd, SyncOver,
       registration, client, removalVars
<1>29. ASSUME NEW s \in Syncer, SyncCrash(s) PROVE AccessInv'
  <2>1. LockHeld'
    BY <1>29, FaceAccessAssumption DEF AccessInv, LockHeld, TypeOK, SyncCrash,
       SyncOver, Idle, removalVars
  <2>2. TodoIsOwn'
    BY <1>29 DEF AccessInv, TodoIsOwn, SyncCrash, SyncOver, Idle
  <2>3. AdminInv'
    BY <1>29 DEF AccessInv, AdminInv, SyncCrash, SyncOver
  <2>4. FlightInv'
    BY <1>29 DEF AccessInv, FlightInv, SyncCrash, SyncOver, Needs, registration,
       client
  <2>5. WriteInv'
    BY <1>29 DEF AccessInv, WriteInv, SyncCrash, SyncOver, Idle, registration
  <2> QED
    BY <1>29, <2>1, <2>2, <2>3, <2>4, <2>5, Frame DEF AccessInv, SyncCrash, SyncOver,
       registration, client, removalVars
<1>30. ASSUME RemovalEnqueue PROVE AccessInv'
  BY <1>30, Frame DEF AccessInv, RemovalEnqueue, registration, client, syncVars
<1>31. ASSUME RemovalStart PROVE AccessInv'
  <2>1. LockHeld'
    BY <1>31 DEF AccessInv, LockHeld, RemovalStart, Idle, syncVars
  <2>2. RemovalInv'
    BY <1>31 DEF AccessInv, RemovalInv, RemovalStart
  <2>3. ValidAccessKept'
    BY <1>31 DEF AccessInv, ValidAccessKept, RemovalStart
  <2> QED
    BY <1>31, <2>1, <2>2, <2>3, Frame DEF AccessInv, RemovalStart, registration,
       client, syncVars
<1>32. ASSUME RemovalLockRow PROVE AccessInv'
  <2>1. LockHeld'
    BY <1>32 DEF AccessInv, LockHeld, RemovalLockRow, Idle, syncVars
  <2>2. RemovalInv'
    BY <1>32 DEF AccessInv, RemovalInv, RemovalLockRow, PendingAny, Idle, registration
  <2>3. ValidAccessKept'
    BY <1>32 DEF AccessInv, ValidAccessKept, RemovalLockRow, Idle
  <2> QED
    BY <1>32, <2>1, <2>2, <2>3, Frame DEF AccessInv, RemovalLockRow, registration,
       client, syncVars
<1>33. ASSUME RemovalLockFace PROVE AccessInv'
  <2>1. LockHeld'
    BY <1>33, FaceAccessAssumption DEF AccessInv, LockHeld, RemovalLockFace, FaceFree,
       Idle
  <2>2. RemovalInv'
    BY <1>33 DEF AccessInv, RemovalInv, TypeOK, RemovalLockFace, PendingAny, Idle
  <2>3. WriteInv'
    BY <1>33 DEF AccessInv, WriteInv, RemovalLockFace, Never
  <2>4. PresentInv'
    <3>1. CASE FaceAllowed
      BY <1>33, <3>1
      DEF AccessInv, PresentInv, RemovalInv, ConsentInv, RemovalLockFace, TypeOK,
          PendingAny, FaceAllowed, Allows, Status, Admitted
    <3>2. CASE ~ FaceAllowed
      BY <1>33, <3>2 DEF AccessInv, PresentInv, RemovalLockFace, PendingAny
    <3> QED
      BY <3>1, <3>2
  <2>5. ValidAccessKept'
    BY <1>33 DEF AccessInv, ValidAccessKept, RemovalInv, RemovalLockFace, Needs,
       PendingAny, Allows, FaceAllowed, Idle
  <2> QED
    BY <1>33, <2>1, <2>2, <2>3, <2>4, <2>5, Frame DEF AccessInv, RemovalLockFace,
       client
<1>34. ASSUME NEW r \in Reader, RemoveReader(r) PROVE AccessInv'
  <2>1. LockHeld'
    BY <1>34 DEF AccessInv, LockHeld, RemoveReader, syncVars
  <2>2. RemovalInv'
    BY <1>34 DEF AccessInv, RemovalInv, RemoveReader, PendingAny, registration
  <2>3. AdminInv'
    BY <1>34 DEF AccessInv, AdminInv, RemoveReader, Idling, syncVars
  <2>4. PresentInv'
    BY <1>34 DEF AccessInv, PresentInv, RemoveReader, PendingAny, registration
  <2>5. ValidAccessKept'
    BY <1>34 DEF AccessInv, ValidAccessKept, RemoveReader, PendingAny, registration
  <2> QED
    BY <1>34, <2>1, <2>2, <2>3, <2>4, <2>5, Frame DEF AccessInv, RemoveReader,
       registration, client, syncVars
<1>35. ASSUME RemovalCommit PROVE AccessInv'
  <2>1. LockHeld'
    BY <1>35, FaceAccessAssumption DEF AccessInv, LockHeld, RemovalCommit, Idle
  <2>2. RemovalInv'
    BY <1>35 DEF AccessInv, RemovalInv, RemovalCommit, Idle
  <2>3. WriteInv'
    BY <1>35 DEF AccessInv, WriteInv, RemovalCommit, Never
  <2>4. PresentInv'
    BY <1>35 DEF AccessInv, PresentInv, RemovalInv, RemovalCommit
  <2>5. ValidAccessKept'
    BY <1>35 DEF AccessInv, ValidAccessKept, RemovalCommit, Idle
  <2> QED
    BY <1>35, <2>1, <2>2, <2>3, <2>4, <2>5, Frame DEF AccessInv, RemovalCommit, client
<1>36. ASSUME RemovalStops PROVE AccessInv'
  <2>1. LockHeld'
    BY <1>36, FaceAccessAssumption DEF AccessInv, LockHeld, RemovalStops, Idle
  <2>2. RemovalInv'
    BY <1>36 DEF AccessInv, RemovalInv, RemovalStops, Idle
  <2>3. ValidAccessKept'
    BY <1>36 DEF AccessInv, ValidAccessKept, RemovalStops, Idle
  <2> QED
    BY <1>36, <2>1, <2>2, <2>3, Frame DEF AccessInv, RemovalStops, registration,
       client
<1>37. ASSUME NEW r \in Reader, Purge(r) PROVE AccessInv'
  <2>1. RemovalInv'
    BY <1>37 DEF AccessInv, RemovalInv, Purge, PendingAny, registration, removalVars
  <2>2. AdminInv'
    BY <1>37 DEF AccessInv, AdminInv, Purge, Idling, syncVars
  <2>3. PresentInv'
    BY <1>37 DEF AccessInv, PresentInv, Purge, PendingAny, registration
  <2> QED
    BY <1>37, <2>1, <2>2, <2>3, Frame DEF AccessInv, Purge, registration, client,
       syncVars, removalVars
<1>38. CASE Approval
  BY <1>38, <1>1, <1>2, <1>3, <1>4 DEF Approval
<1>39. CASE Child
  BY <1>39, <1>5, <1>6, <1>7, <1>8, <1>9, <1>1, <1>13, <1>14 DEF Child, Complete
<1>40. CASE Visitor
  BY <1>40, <1>5, <1>6, <1>7, <1>8, <1>9, <1>1, <1>12 DEF Visitor, VisitorAccept,
     VisitorRevoke, VisitorRegularize, VisitorReject, VisitorAnswer, Complete
<1>41. CASE Policy
  BY <1>41, <1>10, <1>11, <1>15, <1>16 DEF Policy
<1>42. CASE Admin
  BY <1>42, <1>17, <1>18, <1>19, <1>20, <1>21, <1>22, <1>23 DEF Admin
<1>43. CASE Syncing
  BY <1>43, <1>24, <1>25, <1>26, <1>28, <1>29, <1>27 DEF Syncing
<1>44. CASE Removing
  BY <1>44, <1>30, <1>31, <1>32, <1>33, <1>34, <1>37, <1>35, <1>36 DEF Removing
<1>45. CASE UNCHANGED vars
  BY <1>45, Frame DEF AccessInv, vars, registration, client, syncVars, removalVars
<1> QED
  BY <1>38, <1>39, <1>40, <1>41, <1>42, <1>43, <1>44, <1>45 DEF Next

-----------------------------------------------------------------------------
(* Theorems.                                                               *)

(* Every state is well-typed, whatever is edited during a sync.            *)
THEOREM TypeCorrect == Spec => []TypeOK
  BY TypeInit, TypeStep, PTL DEF Spec

LEMMA AccessAlways == ASSUME Overlap = {} PROVE Spec => [](TypeOK /\ AccessInv)
<1>1. TypeOK /\ AccessInv /\ [Next]_vars => TypeOK' /\ AccessInv'
  BY TypeStep, AccessStep
<1> QED
  BY TypeInit, AccessInit, <1>1, PTL DEF Spec

(* An unauthorized face of an admitted person is missing a consent: the    *)
(* tick finds it.                                                          *)
LEMMA OwedByInv == TypeOK /\ AccessInv => AccessIsOwed
<1> SUFFICES ASSUME TypeOK, AccessInv, onReader # {}, ~ FaceAllowed, ~ PendingAny
             PROVE  active /\ status \in Admitted /\ Missing # {}
  BY DEF AccessIsOwed
<1>1. active /\ status \in Admitted
  BY DEF AccessInv, PresentInv
<1>2. PICK d \in Domain : ~ Allows(d)
  BY DEF FaceAllowed
<1>3. Needs(d) /\ consents[d] = {}
  BY <1>1, <1>2 DEF Allows
<1> QED
  BY <1>1, <1>3 DEF Missing

(* A face that is on a reader without authorization is owed a removal by a *)
(* flag of the row or by the next tick, in a database that survives any    *)
(* crash, if nobody edits the person in the middle of a sync.              *)
THEOREM RemovalIsOwed == ASSUME Overlap = {} PROVE Spec => []AccessIsOwed
  BY AccessAlways, OwedByInv, PTL

(* The removal job never talks to the readers about a person who has been  *)
(* authorized since: the consent and the job take the same locks.          *)
THEOREM AccessIsKept == ASSUME Overlap = {} PROVE Spec => []ValidAccessKept
<1>1. AccessInv => ValidAccessKept
  BY DEF AccessInv
<1> QED
  BY AccessAlways, <1>1, PTL

LEMMA SerializedByInv == TypeOK /\ AccessInv => Serialized
<1> SUFFICES ASSUME TypeOK, AccessInv, removal.pc = "removing",
                    NEW s \in Syncer, sync[s].todo # {}
             PROVE  FALSE
  BY DEF Serialized
<1>1. faceLock = Removal /\ PendingAny
  BY DEF AccessInv, LockHeld, RemovalInv
<1>2. sync[s].pc # "writing"
  BY <1>1, FaceAccessAssumption DEF AccessInv, LockHeld
<1>3. sync[s].pc = "open"
  BY <1>2 DEF AccessInv, TodoIsOwn
<1> QED
  BY <1>1, <1>3 DEF AccessInv, WriteInv, PendingAny

(* While a removal takes the face off the readers, no sync puts it there:  *)
(* the lock of the face keeps away those that take it, and no sync that    *)
(* took none is under way once a policy has touched the person.            *)
THEOREM SyncAndRemovalExclude == ASSUME Overlap = {} PROVE Spec => []Serialized
  BY AccessAlways, SerializedByInv, PTL

LEMMA OnlyRemovalClears ==
  ASSUME TypeOK, [Next]_vars, PendingAny, \A d \in Domain : ~ pending'[d]
  PROVE  RemovalLockFace \/ RemovalCommit
<1>1. PICK e \in Domain : pending[e] /\ ~ pending'[e]
  BY DEF PendingAny
<1> SUFFICES ASSUME ~ RemovalLockFace, ~ RemovalCommit PROVE FALSE
  OBVIOUS
<1>2. ~ Approval
  BY <1>1 DEF Approval, ApproveAsk, ApproveCommit, ApproveEnqueue, ApproveClear,
     registration, TypeOK
<1>3. ~ Child
  BY <1>1 DEF Child, Accept, Revoke, Regularize, TickReject, Resync, Complete,
     ApproveAsk, ComeOfAge, CorrectBirthDate, RejectUnless, registration, TypeOK
<1>4. ~ Visitor
  BY <1>1 DEF Visitor, VisitorAccept, VisitorRevoke, VisitorRegularize,
     VisitorReject, VisitorAnswer, Accept, Revoke, Regularize, TickReject, Resync,
     Complete, ApproveAsk, Reclassify, RejectUnless, registration, TypeOK
<1>5. ~ Policy
  BY <1>1 DEF Policy, HostGone, UnitChange, Enable, Disable, registration, TypeOK
<1>6. ~ Admin
  BY <1>1 DEF Admin, Block, Unblock, Restore, AdminStart, AdminRemove, AdminFail,
     AdminEnd, registration, TypeOK
<1>7. ~ Syncing
  BY <1>1 DEF Syncing, SyncStart, SyncRows, SyncLock, SyncEnd, SyncCrash, SyncOver,
     SyncWrite, registration, TypeOK
<1>8. ~ Removing
  BY <1>1 DEF Removing, RemovalEnqueue, RemovalStart, RemovalLockRow, RemoveReader,
     Purge, RemovalStops, registration, TypeOK
<1> QED
  BY <1>1, <1>2, <1>3, <1>4, <1>5, <1>6, <1>7, <1>8 DEF Next, vars, registration

(* The flag of a removal falls only when the face is off every reader or   *)
(* may be there: a removal that fails half way leaves it standing.         *)
THEOREM FlagIsKept == ASSUME Overlap = {} PROVE Spec => FlagFallsWhenDone
<1>1. ASSUME TypeOK, AccessInv, [Next]_vars
      PROVE  PendingAny /\ (\A d \in Domain : ~ pending'[d]) => onReader = {} \/ FaceAllowed
  <2> SUFFICES ASSUME PendingAny, \A d \in Domain : ~ pending'[d]
               PROVE  onReader = {} \/ FaceAllowed
    OBVIOUS
  <2>1. RemovalLockFace \/ RemovalCommit
    BY <1>1, OnlyRemovalClears
  <2>2. CASE RemovalLockFace
    BY <2>2 DEF RemovalLockFace, PendingAny
  <2>3. CASE RemovalCommit
    BY <1>1, <2>3 DEF RemovalCommit, AccessInv, RemovalInv
  <2> QED
    BY <2>1, <2>2, <2>3
<1> QED
  BY AccessAlways, <1>1, PTL DEF Spec, FlagFallsWhenDone

-----------------------------------------------------------------------------
(* The intention to approve.                                               *)

(* A call that has approved the registration has still to wipe what it was *)
(* asked for; of a registration that was rejected since, nothing is left.  *)
WipeInv ==
  \A p \in Approver : approver[p] \in {"approved", "queued"} =>
    /\ status # "draft"
    /\ status = "rejected" => intent = Never

(* What a step may do to the status and the intention: nobody makes a      *)
(* draft, and who rejects wipes; an intention is noted by a call that is   *)
(* idle; a call approves when it commits.                                  *)
Rejects == status' = "rejected" /\ status # "rejected"
Gentle ==
  /\ status' # status => status' # "draft"
  /\ Rejects => intent' = Never
  /\ \/ Rejects \/ \A d \in Domain : intent'[d] => intent[d]
     \/ \E p \in Approver : approver[p] = "idle" /\ approver' = approver
  /\ \A p \in Approver : approver'[p] \in {"approved", "queued"} =>
       approver[p] \in {"approved", "queued"} \/ status' = "approved"

(* Who gives an intention up: a rejection, a change of class, a sync of a  *)
(* registration that is admitted, an administrator on the way to reject    *)
(* one that is not rejected yet, or the call that wipes it at its end.     *)
Wiped ==
  \A d \in Domain : intent[d] /\ ~ intent'[d] =>
    \/ status # "rejected" \/ status' # "rejected" \/ subject' # subject
    \/ \E p \in Approver : ApproveClear(p)

LEMMA ApprovalIsGentle == ASSUME TypeOK, Approval PROVE Gentle /\ Wiped
<1>1. ASSUME NEW p \in Approver, ApproveAsk(p) PROVE Gentle /\ Wiped
  BY <1>1 DEF ApproveAsk, Gentle, Wiped, Rejects, TypeOK
<1>2. ASSUME NEW p \in Approver, ApproveCommit(p) PROVE Gentle /\ Wiped
  BY <1>2 DEF ApproveCommit, Gentle, Wiped, Rejects, TypeOK
<1>3. ASSUME NEW p \in Approver, ApproveEnqueue(p) PROVE Gentle /\ Wiped
  BY <1>3 DEF ApproveEnqueue, registration, Gentle, Wiped, Rejects, TypeOK
<1>4. ASSUME NEW p \in Approver, ApproveClear(p) PROVE Gentle /\ Wiped
  BY <1>4 DEF ApproveClear, Never, Gentle, Wiped, Rejects, TypeOK
<1> QED
  BY <1>1, <1>2, <1>3, <1>4 DEF Approval

LEMMA RejectIsGentle ==
  ASSUME TypeOK, NEW d \in Domain, NEW S, RejectUnless(d, S), approver' = approver
  PROVE  Gentle /\ Wiped
<1>1. CASE status' = "rejected" /\ status # "rejected" /\ intent' = Never
  BY <1>1 DEF Gentle, Wiped, Rejects
<1>2. CASE UNCHANGED <<status, intent>>
  BY <1>2 DEF Gentle, Wiped, Rejects
<1> QED
  BY <1>1, <1>2 DEF RejectUnless

LEMMA ConsentIsGentle ==
  ASSUME TypeOK, NEW d \in Domain,
         \/ \E a \in Adult : Accept(d, a) \/ Revoke(d, a)
         \/ Regularize(d) \/ TickReject(d) \/ Resync(d)
         \/ \E p \in Approver : Complete(p, d)
  PROVE  Gentle /\ Wiped
<1>1. ASSUME NEW a \in Adult, Accept(d, a) PROVE Gentle /\ Wiped
  BY <1>1 DEF Accept, registration, Gentle, Wiped, Rejects
<1>2. ASSUME NEW a \in Adult, Revoke(d, a) PROVE Gentle /\ Wiped
  BY <1>2, RejectIsGentle DEF Revoke
<1>3. CASE Regularize(d)
  BY <1>3 DEF Regularize, Gentle, Wiped, Rejects
<1>4. CASE TickReject(d)
  BY <1>4, RejectIsGentle DEF TickReject
<1>5. CASE Resync(d)
  BY <1>5 DEF Resync, Admitted, Gentle, Wiped, Rejects, TypeOK
<1>6. ASSUME NEW p \in Approver, Complete(p, d) PROVE Gentle /\ Wiped
  BY <1>6, ApprovalIsGentle DEF Complete, Approval
<1> QED
  BY <1>1, <1>2, <1>3, <1>4, <1>5, <1>6

LEMMA AdminIsGentle == ASSUME TypeOK, Admin PROVE Gentle /\ Wiped
<1>1. CASE Block \/ Unblock \/ Restore
  BY <1>1 DEF Block, Unblock, Restore, Gentle, Wiped, Rejects
<1>2. ASSUME NEW why \in {"rejected", "deleted"}, AdminStart(why) PROVE Gentle /\ Wiped
  BY <1>2 DEF AdminStart, Gentle, Wiped, Rejects, TypeOK
<1>3. CASE AdminFail \/ \E r \in Reader : AdminRemove(r)
  BY <1>3 DEF AdminFail, AdminRemove, registration, Gentle, Wiped, Rejects
<1>4. CASE AdminEnd
  BY <1>4 DEF AdminEnd, Gentle, Wiped, Rejects
<1> QED
  BY <1>1, <1>2, <1>3, <1>4 DEF Admin

LEMMA StepIsGentle == ASSUME TypeOK, [Next]_vars PROVE Gentle /\ Wiped
<1>1. CASE Child
  <2>1. CASE ComeOfAge \/ CorrectBirthDate
    BY <2>1 DEF ComeOfAge, CorrectBirthDate, registration, Gentle, Wiped, Rejects
  <2> QED
    BY <1>1, <2>1, ConsentIsGentle DEF Child
<1>2. CASE Visitor
  <2>1. ASSUME Reclassify, "visitor" \in Domain PROVE Gentle /\ Wiped
    <3>1. subject' # subject
      BY <2>1 DEF Reclassify, TypeOK
    <3> QED
      BY <2>1, <3>1 DEF Reclassify, Never, Gentle, Wiped, Rejects, TypeOK
  <2> QED
    BY <1>2, <2>1, ConsentIsGentle
       DEF Visitor, VisitorAccept, VisitorRevoke, VisitorRegularize, VisitorReject, VisitorAnswer
<1>3. CASE Policy
  BY <1>3 DEF Policy, HostGone, UnitChange, Enable, Disable, registration, Gentle, Wiped, Rejects
<1>4. CASE Syncing
  BY <1>4 DEF Syncing, SyncStart, SyncRows, SyncLock, SyncEnd, SyncCrash, SyncOver,
     SyncWrite, registration, Gentle, Wiped, Rejects
<1>5. CASE Removing
  BY <1>5 DEF Removing, RemovalEnqueue, RemovalStart, RemovalLockRow, RemovalLockFace,
     RemoveReader, RemovalCommit, RemovalStops, Purge, registration, Gentle, Wiped, Rejects
<1>6. CASE UNCHANGED vars
  BY <1>6 DEF vars, registration, Gentle, Wiped, Rejects
<1> QED
  BY <1>1, <1>2, <1>3, <1>4, <1>5, <1>6, ApprovalIsGentle, AdminIsGentle DEF Next

LEMMA WipeStep ==
  ASSUME \A p, q \in Approver : p = q, TypeOK, TypeOK', WipeInv, [Next]_vars
  PROVE  WipeInv'
<1> SUFFICES ASSUME NEW p \in Approver, approver'[p] \in {"approved", "queued"}
             PROVE  status' # "draft" /\ (status' = "rejected" => intent' = Never)
  BY DEF WipeInv
<1>1. Gentle
  BY StepIsGentle
<1>2. CASE status' = "approved"
  BY <1>2
<1>3. CASE approver[p] \in {"approved", "queued"} /\ Rejects
  BY <1>1, <1>3 DEF Gentle, Rejects
<1>4. CASE approver[p] \in {"approved", "queued"} /\ ~ Rejects
  <2>1. status' # "draft"
    BY <1>1, <1>4 DEF Gentle, WipeInv
  <2>2. ASSUME status' = "rejected" PROVE intent' = Never
    <3>1. \A d \in Domain : intent'[d] => intent[d]
      BY <1>1, <1>4 DEF Gentle
    <3>2. intent = Never
      BY <1>4, <2>2 DEF WipeInv, Rejects
    <3>3. \A d \in Domain : intent'[d] = FALSE
      BY <3>1, <3>2 DEF Never, TypeOK
    <3> QED
      BY <3>3 DEF Never, TypeOK
  <2> QED
    BY <2>1, <2>2
<1> QED
  BY <1>1, <1>2, <1>3, <1>4 DEF Gentle

(* When calls of approveShared() for a registration follow each other, an  *)
(* intention to approve a rejected registration again is given up by a     *)
(* change of class only: neither the reconcilers, which find it rejected   *)
(* already, nor the end of an earlier approval wipe it.                    *)
THEOREM IntentionsAreKept == ASSUME \A p, q \in Approver : p = q PROVE Spec => IntentKept
<1>1. Init => TypeOK /\ WipeInv
  BY TypeInit DEF Init, WipeInv
<1>2. TypeOK /\ WipeInv /\ [Next]_vars => TypeOK' /\ WipeInv'
  BY TypeStep, WipeStep
<1>3. ASSUME TypeOK, WipeInv, [Next]_vars
      PROVE  \A d \in Domain :
               intent[d] /\ ~ intent'[d] /\ status' = "rejected" =>
                 \/ status # "rejected"
                 \/ subject' # subject
  <2> SUFFICES ASSUME NEW d \in Domain, intent[d], ~ intent'[d],
                      status' = "rejected", status = "rejected", subject' = subject
               PROVE  FALSE
    OBVIOUS
  <2>1. PICK p \in Approver : ApproveClear(p)
    BY <1>3, StepIsGentle DEF Wiped
  <2>2. intent = Never
    BY <1>3, <2>1 DEF ApproveClear, WipeInv
  <2> QED
    BY <2>2 DEF Never
<1> QED
  BY <1>1, <1>2, <1>3, PTL DEF Spec, IntentKept

=============================================================================
