-------------------------- MODULE ApprovalRequests --------------------------
(***************************************************************************)
(* How the adults of a unit are asked for the consent that FaceAccess      *)
(* counts: the requests with a secret link (requestEmails), the outbox     *)
(* that mails them under a lease (dispatch, claim, finish), their          *)
(* acceptance, expiry and replacement, and the end of a consent by the     *)
(* adult, the administrator or the adult's leaving the unit.               *)
(*                                                                         *)
(* One person.  The row of the person is locked by every transaction that  *)
(* changes its requests or consents; only an acceptance holds that lock    *)
(* for long, while it waits for the lock of the face.                      *)
(***************************************************************************)
EXTENDS Naturals, FiniteSets

CONSTANTS
  Adult,      \* adults who may live in the unit
  Request,    \* identifiers of rows of *_approval_requests
  Asker,      \* calls of requestEmails that may be in flight
  Sender,     \* loops of dispatch
  MaxTries,   \* e-mail attempts of one request (8)
  Limited,    \* recipients are rate limited (visitors)
  Overlap,    \* {"expire"}: a link may expire between a check and its use
  MaxEdits,   \* bound: changes made by people, expiries and crashes
  None

ASSUME ApprovalRequestsAssumption ==
  /\ MaxTries \in Nat \ {0} /\ MaxEdits \in Nat
  /\ Limited \in BOOLEAN /\ Overlap \subseteq {"expire"}
  /\ None \notin Request \cup Adult

VARIABLES
  needs,      \* needsChildApproval(client, child) and child.isActive
  stage,      \* status of the person; "renewed" is rejected with an intention
  eligible,   \* approved adults of the unit with e-mail and CPF
  req,        \* the rows
  consent,    \* the consent given through each request
  rowLock,    \* the request whose acceptance holds the row of the person
  asker,      \* local state of each requestEmails
  sender,     \* local state of each dispatch loop
  link,       \* links that reached their adult
  edits

rows == <<req, consent>>
person == <<needs, stage, eligible>>
vars == <<person, rows, rowLock, asker, sender, link, edits>>

Row == [adult : Adult \cup {None}, accepted : BOOLEAN, canceled : BOOLEAN, expired : BOOLEAN,
        mail : {"due", "later", "sent"}, lease : {"none", "held", "lapsed"},
        tries : 0 .. MaxTries]

TypeOK ==
  /\ needs \in BOOLEAN
  /\ stage \in {"draft", "admitted", "dropped", "renewed"}
  /\ eligible \in SUBSET Adult
  /\ req \in [Request -> Row]
  /\ consent \in [Request -> {"none", "active", "revoked"}]
  /\ rowLock \in Request \cup {None}
  /\ asker \in [Asker -> [todo : SUBSET Adult, who : Adult \cup {None}, again : BOOLEAN,
                          seen : [Adult -> Request \cup {None}]]]
  /\ sender \in [Sender -> [pc : {"idle", "claimed", "sent", "failed"},
                            req : Request \cup {None}]]
  /\ link \in SUBSET Request
  /\ edits \in 0 .. MaxEdits

Unused == [adult |-> None, accepted |-> FALSE, canceled |-> FALSE, expired |-> FALSE,
           mail |-> "due", lease |-> "none", tries |-> 0]
NoAsk  == [todo |-> {}, who |-> None, again |-> FALSE, seen |-> [a \in Adult |-> None]]
NoMail == [pc |-> "idle", req |-> None]

Init ==
  /\ needs = TRUE /\ stage = "draft"
  /\ eligible \in SUBSET Adult
  /\ req = [q \in Request |-> Unused]
  /\ consent = [q \in Request |-> "none"]
  /\ rowLock = None
  /\ asker = [i \in Asker |-> NoAsk]
  /\ sender = [s \in Sender |-> NoMail]
  /\ link = {} /\ edits = 0

-----------------------------------------------------------------------------
Of(a)      == {q \in Request : req[q].adult = a}
Open(q)    == req[q].adult # None /\ ~ req[q].accepted /\ ~ req[q].canceled
ActiveOf(a) == {q \in Of(a) : consent[q] = "active"}
Active     == {q \in Request : consent[q] = "active"}
Fresh      == {q \in Request : req[q].adult = None}
Asking     == needs /\ stage # "dropped"
NoRowLock  == TRUE   \* mutant: the row of the person is not locked
RowFree    == rowLock = None
Edit       == edits < MaxEdits /\ edits' = edits + 1

-----------------------------------------------------------------------------
(* requestEmails(): the requests are read once, then adult by adult the    *)
(* consents are read and the request is kept, sent again or replaced.      *)

Ask(i, again) ==
  /\ asker[i] = NoAsk
  /\ Asking
  /\ again \/ Active = {}
  /\ asker' = [asker EXCEPT ![i] =
       [todo |-> eligible, who |-> None, again |-> again,
        seen |-> [a \in Adult |->
                    IF \E q \in Of(a) : Open(q) THEN CHOOSE q \in Of(a) : Open(q) ELSE None]]]

TickAsks(i) == /\ Ask(i, FALSE)
               /\ UNCHANGED <<person, rows, rowLock, sender, link, edits>>
Resend(i)   == /\ Edit /\ Ask(i, TRUE)
               /\ UNCHANGED <<person, rows, rowLock, sender, link>>

\* Mutant: only the request is looked at, not the consent.
LookAtRequests(i, a) ==
  /\ a \in asker[i].todo /\ asker[i].who = None
  /\ LET q == asker[i].seen[a]
         keep == q # None /\ ~ req[q].expired
     IN asker' = [asker EXCEPT ![i].todo = @ \ {a}, ![i].who = IF keep THEN None ELSE a]
  /\ UNCHANGED <<person, rows, rowLock, sender, link, edits>>

(* An adult who has consented, or whose open request is good, is passed    *)
(* over; a resend puts that request back into the outbox, whatever has     *)
(* become of it since it was read.                                         *)
Look(i, a) ==
  /\ a \in asker[i].todo /\ asker[i].who = None
  /\ LET q == asker[i].seen[a]
         keep == q # None /\ ~ req[q].expired
         outbox == ActiveOf(a) = {} /\ keep /\ asker[i].again
     IN /\ asker' = [asker EXCEPT ![i].todo = @ \ {a},
                                  ![i].who = IF ActiveOf(a) # {} \/ keep THEN None ELSE a]
        /\ outbox => rowLock # q
        /\ req' = IF outbox THEN [req EXCEPT ![q].mail = "due", ![q].tries = 0] ELSE req
  /\ UNCHANGED <<person, consent, rowLock, sender, link, edits>>

(* The transaction: cancel what was open when it was read, insert a new    *)
(* request unless there is an open one (partial unique index).             *)
Replace(i) ==
  LET a == asker[i].who
      old == asker[i].seen[a]
      still == {q \in Of(a) : Open(q) /\ q # old}
  IN /\ a # None /\ RowFree
     /\ \E n \in Fresh :
          req' = [q \in Request |->
                    IF q = old THEN [req[q] EXCEPT !.canceled = TRUE]
                    ELSE IF q = n /\ still = {} THEN [Unused EXCEPT !.adult = a]
                    ELSE req[q]]
     /\ asker' = [asker EXCEPT ![i].who = None]
     /\ UNCHANGED <<person, consent, rowLock, sender, link, edits>>

(* recipientLimitReached(): the adult is passed over this time.            *)
PassOver(i) ==
  /\ Limited /\ asker[i].who # None
  /\ asker' = [asker EXCEPT ![i].who = None]
  /\ UNCHANGED <<person, rows, rowLock, sender, link, edits>>

AskEnds(i) ==
  /\ asker[i] # NoAsk /\ asker[i].todo = {} /\ asker[i].who = None
  /\ asker' = [asker EXCEPT ![i] = NoAsk]
  /\ UNCHANGED <<person, rows, rowLock, sender, link, edits>>

-----------------------------------------------------------------------------
(* The outbox: dispatch(), claim() and finish().                           *)

\* Mutants: attempts are not counted; a lease that lapsed is never taken over.
ClaimableForever(q) ==
  Open(q) /\ rowLock # q /\ req[q].mail = "due" /\ req[q].lease # "held"
ClaimableOnce(q) ==
  Open(q) /\ rowLock # q /\ req[q].mail = "due" /\ req[q].tries < MaxTries /\ req[q].lease = "none"

Claimable(q) ==
  /\ Open(q) /\ rowLock # q
  /\ req[q].mail = "due" /\ req[q].tries < MaxTries /\ req[q].lease # "held"

Claim(s, q) ==
  /\ sender[s] = NoMail
  /\ Claimable(q)
  /\ req' = [req EXCEPT ![q].lease = "held", ![q].tries = @ + 1]
  /\ sender' = [sender EXCEPT ![s] = [pc |-> "claimed", req |-> q]]
  /\ UNCHANGED <<person, consent, rowLock, asker, link, edits>>

Deliverable(q) == needs /\ req[q].adult \in eligible /\ ~ req[q].expired

(* A request that went stale is canceled; nobody looks at it again.        *)
CancelStale(s) ==
  LET q == sender[s].req IN
  /\ sender[s].pc = "claimed" /\ ~ Deliverable(q) /\ rowLock # q
  /\ req' = [req EXCEPT ![q].canceled = TRUE, ![q].lease = "none"]
  /\ sender' = [sender EXCEPT ![s] = NoMail]
  /\ UNCHANGED <<person, consent, rowLock, asker, link, edits>>

(* The mail arrives, or not; an error may be reported though it arrived.   *)
Send(s) ==
  LET q == sender[s].req IN
  /\ sender[s].pc = "claimed" /\ Deliverable(q)
  /\ \E pc \in {"sent", "failed"} :
       /\ sender' = [sender EXCEPT ![s].pc = pc]
       /\ link' \in IF pc = "sent" THEN {link \cup {q}} ELSE {link, link \cup {q}}
  /\ UNCHANGED <<person, rows, rowLock, asker, edits>>

(* finish() writes the row whoever holds its lease by now.                 *)
Finish(s) ==
  LET q == sender[s].req IN
  /\ sender[s].pc \in {"sent", "failed"} /\ rowLock # q
  /\ req' = [req EXCEPT ![q].lease = "none",
                        ![q].mail = IF sender[s].pc = "sent" THEN "sent" ELSE "later"]
  /\ sender' = [sender EXCEPT ![s] = NoMail]
  /\ UNCHANGED <<person, consent, rowLock, asker, link, edits>>

SenderCrash(s) ==
  /\ sender[s] # NoMail /\ Edit
  /\ sender' = [sender EXCEPT ![s] = NoMail]
  /\ UNCHANGED <<person, rows, rowLock, asker, link>>

LeaseLapses(q) ==
  /\ req[q].lease = "held"
  /\ req' = [req EXCEPT ![q].lease = "lapsed"]
  /\ UNCHANGED <<person, consent, rowLock, asker, sender, link, edits>>

DueAgain(q) ==
  /\ req[q].mail = "later"
  /\ req' = [req EXCEPT ![q].mail = "due"]
  /\ UNCHANGED <<person, consent, rowLock, asker, sender, link, edits>>

-----------------------------------------------------------------------------
(* The adult.                                                              *)

(* accept(): checks under the lock of the row, then waits for the face.    *)
AcceptCheck(q) ==
  /\ q \in link /\ RowFree
  /\ Open(q) /\ ~ req[q].expired
  /\ Asking /\ req[q].adult \in eligible
  /\ rowLock' = q
  /\ UNCHANGED <<person, rows, asker, sender, link, edits>>

(* A second active consent of the same adult is dropped by its index.      *)
AcceptCommit ==
  LET q == rowLock IN
  /\ q # None
  /\ consent' = IF ActiveOf(req[q].adult) = {} THEN [consent EXCEPT ![q] = "active"]
                                               ELSE consent
  /\ req' = [req EXCEPT ![q].accepted = TRUE]
  /\ rowLock' = None
  /\ UNCHANGED <<person, asker, sender, link, edits>>

AcceptFails ==
  /\ ~ RowFree /\ Edit
  /\ rowLock' = None
  /\ UNCHANGED <<person, rows, asker, sender, link>>

CancelOpen(which) ==
  req' = [q \in Request |-> IF q \in which /\ Open(q) THEN [req[q] EXCEPT !.canceled = TRUE]
                                                      ELSE req[q]]

(* rejectIfUnauthorized() when `left` are the consents that remain.        *)
DropUnless(left) ==
  IF needs /\ left = {} /\ stage \in {"draft", "admitted"}
  THEN stage' = "dropped" /\ CancelOpen(Request)
  ELSE UNCHANGED <<stage, req>>

RevokeAny(q) ==
  /\ consent[q] = "active" /\ RowFree /\ Edit
  /\ consent' = [consent EXCEPT ![q] = "revoked"]
  /\ DropUnless(Active \ {q})
  /\ UNCHANGED <<needs, eligible, rowLock, asker, sender, link>>

RevokeOwn(q)   == q \in link /\ ~ req[q].canceled /\ RevokeAny(q)
RevokeAdmin(q) == RevokeAny(q)

-----------------------------------------------------------------------------
(* The adult leaves the unit, or comes to it; triggers of drizzle/0093.    *)
HostGone(a) ==
  /\ a \in eligible /\ RowFree /\ Edit
  /\ eligible' = eligible \ {a}
  /\ consent' = [q \in Request |-> IF q \in ActiveOf(a) THEN "revoked" ELSE consent[q]]
  /\ CancelOpen(Of(a))
  /\ UNCHANGED <<needs, stage, rowLock, asker, sender, link>>

HostComes(a) ==
  /\ a \notin eligible /\ Edit
  /\ eligible' = eligible \cup {a}
  /\ UNCHANGED <<needs, stage, rows, rowLock, asker, sender, link>>

(* 30 days pass, or the administrator switches the policy.                 *)
Calm(q) == "expire" \in Overlap \/ (rowLock # q /\ \A s \in Sender :
                                      sender[s].req = q => sender[s].pc # "claimed")

Expire(q) ==
  /\ req[q].adult # None /\ ~ req[q].expired /\ Calm(q) /\ Edit
  /\ req' = [req EXCEPT ![q].expired = TRUE]
  /\ UNCHANGED <<person, consent, rowLock, asker, sender, link>>

SwitchPolicy ==
  /\ Edit /\ \A q \in Request : Calm(q)
  /\ needs' = ~ needs
  /\ UNCHANGED <<stage, eligible, rows, rowLock, asker, sender, link>>

-----------------------------------------------------------------------------
(* The registration, as far as asking depends on it: FaceAccess has the    *)
(* whole of it.                                                            *)
Approved ==
  /\ stage \in {"draft", "renewed"} /\ (Active # {} \/ ~ needs) /\ RowFree
  /\ stage' = "admitted"
  /\ UNCHANGED <<needs, eligible, rows, rowLock, asker, sender, link, edits>>

TickRejects ==
  /\ stage = "admitted" /\ needs /\ Active = {} /\ RowFree
  /\ DropUnless({})
  /\ UNCHANGED <<needs, eligible, consent, rowLock, asker, sender, link, edits>>

(* deferApproval(): an administrator takes a rejected person up again.     *)
Renew ==
  /\ stage = "dropped" /\ needs /\ Edit
  /\ stage' = "renewed"
  /\ UNCHANGED <<needs, eligible, rows, rowLock, asker, sender, link>>

-----------------------------------------------------------------------------
Next ==
  \/ \E i \in Asker : \/ TickAsks(i) \/ Resend(i) \/ Replace(i) \/ PassOver(i) \/ AskEnds(i)
                      \/ \E a \in Adult : Look(i, a)
  \/ \E s \in Sender : \/ CancelStale(s) \/ Send(s) \/ Finish(s) \/ SenderCrash(s)
                       \/ \E q \in Request : Claim(s, q)
  \/ \E q \in Request : \/ LeaseLapses(q) \/ DueAgain(q) \/ AcceptCheck(q)
                        \/ RevokeOwn(q) \/ RevokeAdmin(q) \/ Expire(q)
  \/ AcceptCommit \/ AcceptFails
  \/ \E a \in Adult : HostGone(a) \/ HostComes(a)
  \/ SwitchPolicy \/ Approved \/ TickRejects \/ Renew

Spec == Init /\ [][Next]_vars

(* The tick asks every minute and dispatches; time passes; a transaction   *)
(* that waits for a lock gets it; a recipient's limit is over in an hour.  *)
Fairness ==
  /\ \A i \in Asker :
       /\ WF_vars(TickAsks(i)) /\ WF_vars(AskEnds(i))
       /\ WF_vars(\E a \in Adult : Look(i, a))
       /\ SF_vars(Replace(i))
  /\ \A s \in Sender :
       /\ WF_vars(\E q \in Request : Claim(s, q))
       /\ WF_vars(CancelStale(s) \/ Send(s) \/ Finish(s))
  /\ \A q \in Request : WF_vars(LeaseLapses(q)) /\ WF_vars(DueAgain(q))
  /\ WF_vars(AcceptCommit)

FairSpec == Spec /\ Fairness

-----------------------------------------------------------------------------
(* Properties.                                                             *)

(* "Posso revogar meu aceite pelo mesmo link": who has accepted through a  *)
(* link can revoke through it as long as the consent stands.               *)
LinkRevokes ==
  \A q \in Request :
    req[q].accepted /\ consent[q] # "revoked" => consent[q] = "active" /\ ~ req[q].canceled

(* No consent outlives the adult's right to give it, though the adult may  *)
(* leave at any moment of an acceptance.                                   *)
ConsentsAreEligible == \A q \in Active : req[q].adult \in eligible

(* While a person waits and nobody has consented, every eligible adult     *)
(* gets a link that works, unless the mail failed as often as it is tried, *)
(* whatever crashes, is mailed late or expires on the way.                 *)
Reached(a) ==
  \/ \E q \in Of(a) : Open(q) /\ (q \in link \/ req[q].tries = MaxTries)
  \/ Fresh = {}

EveryAdultIsAsked ==
  \A a \in Adult :
    (Asking /\ a \in eligible /\ Active = {}) ~>
      (Reached(a) \/ ~ Asking \/ a \notin eligible \/ Active # {})

=============================================================================
