----------------------- MODULE ApprovalRequestsProofs -----------------------
(***************************************************************************)
(* Proofs about ApprovalRequests, for any adults, requests, loops of the   *)
(* outbox, attempts and edits: types; that no consent outlives the adult's *)
(* right to give it; and, as long as one call of requestEmails runs at a   *)
(* time and no link expires between a check and its use, that who accepted *)
(* through a link can revoke through it.                                   *)
(***************************************************************************)
EXTENDS ApprovalRequests, TLAPS

(* A row nobody has used has no consent.                                   *)
FreshInv == \A q \in Request : req[q].adult = None => consent[q] = "none"

(* An acceptance that waits for the face is of a request of an adult of    *)
(* the unit, and nobody cancels it.                                        *)
LockInv == rowLock # None => Open(rowLock) /\ req[rowLock].adult \in eligible

(* Nor has it expired.                                                     *)
GoodInv == rowLock # None => ~ req[rowLock].expired /\ needs

(* Consents follow acceptances.                                            *)
ConsentInv == \A q \in Request : consent[q] # "none" => req[q].accepted

(* An adult has one open request, and none with a consent.                 *)
OneOpenInv ==
  /\ \A q, r \in Request : Open(q) /\ Open(r) /\ req[q].adult = req[r].adult => q = r
  /\ \A q, r \in Request : Open(q) /\ consent[r] = "active" => req[q].adult # req[r].adult

(* What requestEmails has read of an adult it has not dealt with is what   *)
(* is open.                                                                *)
TodoInv(i) ==
  /\ \A a \in Adult : asker[i].seen[a] # None => req[asker[i].seen[a]].adult = a
  /\ \A q \in Request : Open(q) /\ req[q].adult \in asker[i].todo =>
       q = asker[i].seen[req[q].adult]

(* Whom it is about to ask has no good request and no consent.             *)
WhoInv(i) ==
  asker[i].who # None =>
    /\ asker[i].who \notin asker[i].todo
    /\ \A q \in Request : req[q].adult = asker[i].who =>
         /\ Open(q) => req[q].expired /\ q = asker[i].seen[asker[i].who]
         /\ consent[q] # "active"

SeenInv == \A i \in Asker : TodoInv(i) /\ WhoInv(i)

(* A request that was accepted while its mail is prepared was good.        *)
SenderInv ==
  \A s \in Sender : \A q \in Request :
    sender[s].pc = "claimed" /\ sender[s].req = q /\ consent[q] = "active" =>
      needs /\ ~ req[q].expired

-----------------------------------------------------------------------------
(* Types.                                                                  *)

(* Who mails has a request.                                                *)
Typed ==
  /\ TypeOK
  /\ \A s \in Sender : sender[s].pc # "idle" => sender[s].req \in Request

AskRow  == [todo : SUBSET Adult, who : Adult \cup {None}, again : BOOLEAN,
            seen : [Adult -> Request \cup {None}]]
MailRow == [pc : {"idle", "claimed", "sent", "failed"}, req : Request \cup {None}]

LEMMA TypeInit == ASSUME Init PROVE Typed
<1> USE ApprovalRequestsAssumption
<1>1. Unused \in Row
  BY DEF Unused, Row
<1>2. NoAsk \in AskRow
  BY DEF NoAsk, AskRow
<1>3. NoMail \in MailRow /\ NoMail.pc = "idle"
  BY DEF NoMail, MailRow
<1>4. req \in [Request -> Row] /\ asker \in [Asker -> AskRow] /\ sender \in [Sender -> MailRow]
  BY <1>1, <1>2, <1>3 DEF Init
<1>5. /\ needs \in BOOLEAN /\ stage \in {"draft", "admitted", "dropped", "renewed"}
      /\ eligible \in SUBSET Adult /\ consent \in [Request -> {"none", "active", "revoked"}]
      /\ rowLock \in Request \cup {None} /\ link \in SUBSET Request /\ edits \in 0 .. MaxEdits
  BY DEF Init
<1>6. \A s \in Sender : sender[s].pc = "idle"
  BY <1>3 DEF Init
<1> QED
  BY <1>4, <1>5, <1>6 DEF Typed, TypeOK, AskRow, MailRow

LEMMA TypeAsk ==
  ASSUME Typed, NEW i \in Asker,
         TickAsks(i) \/ Resend(i) \/ Replace(i) \/ PassOver(i) \/ AskEnds(i)
           \/ \E a \in Adult : Look(i, a)
  PROVE  Typed'
<1> USE ApprovalRequestsAssumption DEF rows, person
<1>0. /\ TypeOK /\ req \in [Request -> Row] /\ asker \in [Asker -> AskRow]
      /\ asker[i] \in AskRow
  BY DEF Typed, TypeOK, AskRow
<1>1. UNCHANGED <<needs, stage, eligible, consent, rowLock, sender, link>>
  BY DEF TickAsks, Resend, Replace, PassOver, AskEnds, Look
<1>2. SUFFICES req' \in [Request -> Row] /\ asker' \in [Asker -> AskRow]
               /\ edits' \in 0 .. MaxEdits
  <2>1. TypeOK'
    BY <1>0, <1>1, <1>2 DEF TypeOK, AskRow
  <2> QED
    BY <1>1, <2>1 DEF Typed
<1>3. ASSUME NEW again \in BOOLEAN, Ask(i, again) PROVE asker' \in [Asker -> AskRow]
  <2> DEFINE seen == [a \in Adult |-> IF \E q \in Of(a) : Open(q)
                                      THEN CHOOSE q \in Of(a) : Open(q) ELSE None]
  <2>1. seen \in [Adult -> Request \cup {None}]
    BY DEF Of
  <2>2. asker' = [asker EXCEPT ![i] = [todo |-> eligible, who |-> None, again |-> again,
                                       seen |-> seen]]
    BY <1>3 DEF Ask
  <2> HIDE DEF seen
  <2>3. [todo |-> eligible, who |-> None, again |-> again, seen |-> seen] \in AskRow
    BY <1>0, <2>1 DEF AskRow, TypeOK
  <2> QED
    BY <1>0, <2>2, <2>3
<1>4. CASE TickAsks(i)
  BY <1>0, <1>3, <1>4 DEF TickAsks, TypeOK
<1>5. CASE Resend(i)
  <2>1. edits' \in 0 .. MaxEdits /\ req' = req
    BY <1>0, <1>5 DEF Resend, Edit, TypeOK
  <2>2. asker' \in [Asker -> AskRow]
    BY <1>3, <1>5 DEF Resend
  <2> QED
    BY <1>0, <2>1, <2>2
<1>6. CASE Replace(i)
  <2>1. PICK n \in Fresh :
          req' = [q \in Request |->
                    IF q = asker[i].seen[asker[i].who] THEN [req[q] EXCEPT !.canceled = TRUE]
                    ELSE IF q = n /\ {r \in Of(asker[i].who) :
                                        Open(r) /\ r # asker[i].seen[asker[i].who]} = {}
                         THEN [Unused EXCEPT !.adult = asker[i].who]
                    ELSE req[q]]
    BY <1>6 DEF Replace
  <2>2. asker[i].who \in Adult
    BY <1>0, <1>6 DEF Replace, AskRow
  <2>3. [Unused EXCEPT !.adult = asker[i].who] \in Row
    <3>1. Unused \in Row
      BY DEF Unused, Row
    <3> QED
      BY <2>2, <3>1 DEF Row
  <2>4. \A q \in Request : req[q] \in Row /\ [req[q] EXCEPT !.canceled = TRUE] \in Row
    BY ZenonT(30), <1>0 DEF Row
  <2>5. req' \in [Request -> Row]
    BY <2>1, <2>3, <2>4
  <2>6. asker' \in [Asker -> AskRow]
    BY <1>0, <1>6 DEF Replace, AskRow
  <2> QED
    BY <1>0, <1>6, <2>5, <2>6 DEF Replace, TypeOK
<1>7. CASE PassOver(i)
  BY <1>0, <1>7 DEF PassOver, AskRow, TypeOK
<1>8. CASE AskEnds(i)
  <2>1. NoAsk \in AskRow
    BY DEF NoAsk, AskRow
  <2> QED
    BY <1>0, <1>8, <2>1 DEF AskEnds, TypeOK
<1>9. CASE \E a \in Adult : Look(i, a)
  <2>1. PICK a \in Adult : Look(i, a)
    BY <1>9
  <2> DEFINE q == asker[i].seen[a]
             who == IF ActiveOf(a) # {} \/ (q # None /\ ~ req[q].expired) THEN None ELSE a
             outbox == ActiveOf(a) = {} /\ (q # None /\ ~ req[q].expired) /\ asker[i].again
  <2>2. /\ asker' = [asker EXCEPT ![i].todo = @ \ {a}, ![i].who = who]
        /\ req' = IF outbox THEN [req EXCEPT ![q].mail = "due", ![q].tries = 0] ELSE req
        /\ edits' = edits
    BY <2>1 DEF Look
  <2>3. who \in Adult \cup {None} /\ (outbox => q \in Request)
    BY <1>0 DEF AskRow
  <2> HIDE DEF who, outbox, q
  <2>4. asker' \in [Asker -> AskRow]
    BY <1>0, <2>2, <2>3 DEF AskRow
  <2>5. req' \in [Request -> Row]
    <3>1. CASE outbox
      <4>1. req' = [req EXCEPT ![q] = [req[q] EXCEPT !.mail = "due", !.tries = 0]]
        BY <1>0, <2>2, <2>3, <3>1
      <4>2. [req[q] EXCEPT !.mail = "due", !.tries = 0] \in Row
        <5>1. req[q] \in Row /\ 0 \in 0 .. MaxTries
          BY <1>0, <2>3, <3>1
        <5> QED
          BY <5>1 DEF Row
      <4> QED
        BY <1>0, <4>1, <4>2
    <3>2. CASE ~ outbox
      BY <1>0, <2>2, <3>2
    <3> QED
      BY <3>1, <3>2
  <2> QED
    BY <1>0, <2>2, <2>4, <2>5 DEF TypeOK
<1> QED
  BY <1>4, <1>5, <1>6, <1>7, <1>8, <1>9

LEMMA TypeMail ==
  ASSUME Typed, NEW s \in Sender,
         CancelStale(s) \/ Send(s) \/ Finish(s) \/ SenderCrash(s)
           \/ \E q \in Request : Claim(s, q)
  PROVE  Typed'
<1> USE ApprovalRequestsAssumption DEF rows, person
<1>0. /\ TypeOK /\ req \in [Request -> Row] /\ sender \in [Sender -> MailRow]
      /\ sender[s] \in MailRow /\ NoMail \in MailRow /\ NoMail.pc = "idle"
      /\ \A r \in Sender : sender[r].pc # "idle" => sender[r].req \in Request
  BY DEF Typed, TypeOK, MailRow, NoMail
<1>1. UNCHANGED <<needs, stage, eligible, consent, rowLock, asker>>
  BY DEF Claim, CancelStale, Send, Finish, SenderCrash
<1>2. SUFFICES /\ req' \in [Request -> Row] /\ sender' \in [Sender -> MailRow]
               /\ link' \in SUBSET Request /\ edits' \in 0 .. MaxEdits
               /\ sender'[s].pc # "idle" => sender'[s].req \in Request
               /\ \A r \in Sender \ {s} : sender'[r] = sender[r]
  <2>1. TypeOK'
    BY <1>0, <1>1, <1>2 DEF TypeOK, MailRow
  <2> QED
    BY <1>0, <1>2, <2>1 DEF Typed
<1>3. CASE CancelStale(s)
  <2> DEFINE q == sender[s].req
  <2>1. q \in Request
    BY <1>0, <1>3 DEF CancelStale
  <2>2. /\ req' = [req EXCEPT ![q].canceled = TRUE, ![q].lease = "none"]
        /\ sender' = [sender EXCEPT ![s] = NoMail]
        /\ UNCHANGED <<link, edits>>
    BY <1>3 DEF CancelStale
  <2> HIDE DEF q
  <2>3. req[q] \in Row
    BY <1>0, <2>1
  <2>4. [req[q] EXCEPT !.canceled = TRUE, !.lease = "none"] \in Row
    BY <2>3 DEF Row
  <2>5. req' = [req EXCEPT ![q] = [req[q] EXCEPT !.canceled = TRUE, !.lease = "none"]]
    BY <1>0, <2>1, <2>2
  <2> QED
    BY <1>0, <2>1, <2>2, <2>4, <2>5 DEF TypeOK
<1>4. CASE Send(s)
  <2> DEFINE q == sender[s].req
  <2>1. q \in Request
    BY <1>0, <1>4 DEF Send
  <2>2. PICK pc \in {"sent", "failed"} :
          /\ sender' = [sender EXCEPT ![s].pc = pc]
          /\ link' \in IF pc = "sent" THEN {link \cup {q}} ELSE {link, link \cup {q}}
    BY <1>4 DEF Send
  <2>3. UNCHANGED <<req, edits>>
    BY <1>4 DEF Send
  <2> HIDE DEF q
  <2>4. link' \in SUBSET Request
    BY <1>0, <2>1, <2>2 DEF TypeOK
  <2>5. sender' \in [Sender -> MailRow] /\ \A r \in Sender \ {s} : sender'[r] = sender[r]
    BY <1>0, <2>2 DEF MailRow
  <2>6. sender'[s].req \in Request
    BY <1>0, <2>1, <2>2 DEF q, MailRow
  <2> QED
    BY <1>0, <2>3, <2>4, <2>5, <2>6 DEF TypeOK
<1>5. CASE Finish(s)
  <2> DEFINE q == sender[s].req
             mail == IF sender[s].pc = "sent" THEN "sent" ELSE "later"
  <2>1. q \in Request
    BY <1>0, <1>5 DEF Finish
  <2>2. /\ req' = [req EXCEPT ![q].lease = "none", ![q].mail = mail]
        /\ sender' = [sender EXCEPT ![s] = NoMail]
        /\ UNCHANGED <<link, edits>>
    BY <1>5 DEF Finish
  <2>3. req[q] \in Row /\ mail \in {"sent", "later"}
    BY <1>0, <2>1
  <2> HIDE DEF q, mail
  <2>4. [req[q] EXCEPT !.lease = "none", !.mail = mail] \in Row
    BY <2>3 DEF Row
  <2>5. req' = [req EXCEPT ![q] = [req[q] EXCEPT !.lease = "none", !.mail = mail]]
    BY <1>0, <2>1, <2>2
  <2> QED
    BY <1>0, <2>1, <2>2, <2>4, <2>5 DEF TypeOK
<1>6. CASE SenderCrash(s)
  BY <1>0, <1>6 DEF SenderCrash, Edit, TypeOK
<1>7. CASE \E q \in Request : Claim(s, q)
  <2>1. PICK q \in Request : Claim(s, q)
    BY <1>7
  <2>2. /\ req' = [req EXCEPT ![q].lease = "held", ![q].tries = @ + 1]
        /\ sender' = [sender EXCEPT ![s] = [pc |-> "claimed", req |-> q]]
        /\ UNCHANGED <<link, edits>> /\ req[q].tries < MaxTries
    BY <2>1 DEF Claim, Claimable
  <2>3. req[q] \in Row
    BY <1>0
  <2>4. req[q].tries + 1 \in 0 .. MaxTries
    BY <2>2, <2>3 DEF Row
  <2>5. [req[q] EXCEPT !.lease = "held", !.tries = @ + 1] \in Row
    BY <2>3, <2>4 DEF Row
  <2>6. req' = [req EXCEPT ![q] = [req[q] EXCEPT !.lease = "held", !.tries = @ + 1]]
    BY <1>0, <2>2
  <2>7. [pc |-> "claimed", req |-> q] \in MailRow
    BY DEF MailRow
  <2> QED
    BY <1>0, <2>2, <2>5, <2>6, <2>7 DEF TypeOK
<1> QED
  BY <1>3, <1>4, <1>5, <1>6, <1>7

LEMMA CancelIsTyped ==
  ASSUME Typed, NEW which, CancelOpen(which) PROVE req' \in [Request -> Row]
<1>1. req \in [Request -> Row]
  BY DEF Typed, TypeOK
<1>2. \A q \in Request : [req[q] EXCEPT !.canceled = TRUE] \in Row
  BY <1>1 DEF Row
<1> QED
  BY <1>1, <1>2 DEF CancelOpen

LEMMA DropIsTyped ==
  ASSUME Typed, NEW left, DropUnless(left)
  PROVE  /\ req' \in [Request -> Row]
         /\ stage' \in {"draft", "admitted", "dropped", "renewed"}
BY CancelIsTyped DEF DropUnless, Typed, TypeOK

LEMMA TypeRow ==
  ASSUME Typed, NEW q \in Request,
         LeaseLapses(q) \/ DueAgain(q) \/ AcceptCheck(q) \/ RevokeOwn(q) \/ RevokeAdmin(q)
           \/ Expire(q)
  PROVE  Typed'
<1> USE ApprovalRequestsAssumption DEF rows, person
<1>0. /\ TypeOK /\ req \in [Request -> Row] /\ req[q] \in Row
      /\ \A r \in Sender : sender[r].pc # "idle" => sender[r].req \in Request
  BY DEF Typed, TypeOK
<1>1. UNCHANGED <<needs, eligible, asker, sender, link>>
  BY DEF LeaseLapses, DueAgain, AcceptCheck, RevokeOwn, RevokeAdmin, RevokeAny, Expire
<1>2. SUFFICES /\ req' \in [Request -> Row] /\ edits' \in 0 .. MaxEdits
               /\ stage' \in {"draft", "admitted", "dropped", "renewed"}
               /\ consent' \in [Request -> {"none", "active", "revoked"}]
               /\ rowLock' \in Request \cup {None}
  <2>1. TypeOK'
    BY <1>0, <1>1, <1>2 DEF TypeOK
  <2> QED
    BY <1>0, <1>1, <2>1 DEF Typed
<1>3. CASE LeaseLapses(q)
  <2>1. req' = [req EXCEPT ![q] = [req[q] EXCEPT !.lease = "lapsed"]]
    BY <1>0, <1>3 DEF LeaseLapses
  <2>2. [req[q] EXCEPT !.lease = "lapsed"] \in Row
    BY <1>0 DEF Row
  <2> QED
    BY <1>0, <1>3, <2>1, <2>2 DEF LeaseLapses, TypeOK
<1>4. CASE DueAgain(q)
  <2>1. req' = [req EXCEPT ![q] = [req[q] EXCEPT !.mail = "due"]]
    BY <1>0, <1>4 DEF DueAgain
  <2>2. [req[q] EXCEPT !.mail = "due"] \in Row
    BY <1>0 DEF Row
  <2> QED
    BY <1>0, <1>4, <2>1, <2>2 DEF DueAgain, TypeOK
<1>5. CASE AcceptCheck(q)
  BY <1>0, <1>5 DEF AcceptCheck, TypeOK
<1>6. CASE RevokeAny(q)
  <2>1. DropUnless(Active \ {q}) /\ consent' = [consent EXCEPT ![q] = "revoked"]
        /\ rowLock' = rowLock
    BY <1>6 DEF RevokeAny
  <2>2. edits' \in 0 .. MaxEdits
    BY <1>0, <1>6 DEF RevokeAny, Edit, TypeOK
  <2> QED
    BY <1>0, <2>1, <2>2, DropIsTyped DEF TypeOK
<1>7. CASE Expire(q)
  <2>1. req' = [req EXCEPT ![q] = [req[q] EXCEPT !.expired = TRUE]]
    BY <1>0, <1>7 DEF Expire
  <2>2. [req[q] EXCEPT !.expired = TRUE] \in Row
    BY <1>0 DEF Row
  <2> QED
    BY <1>0, <1>7, <2>1, <2>2 DEF Expire, Edit, TypeOK
<1> QED
  BY <1>3, <1>4, <1>5, <1>6, <1>7 DEF RevokeOwn, RevokeAdmin

LEMMA TypePerson ==
  ASSUME Typed,
         \/ AcceptCommit \/ AcceptFails
         \/ \E a \in Adult : HostGone(a) \/ HostComes(a)
         \/ SwitchPolicy \/ Approved \/ TickRejects \/ Renew
  PROVE  Typed'
<1> USE ApprovalRequestsAssumption DEF rows, person
<1>0. /\ TypeOK /\ req \in [Request -> Row]
      /\ \A r \in Sender : sender[r].pc # "idle" => sender[r].req \in Request
  BY DEF Typed, TypeOK
<1>1. UNCHANGED <<asker, sender, link>>
  BY DEF AcceptCommit, AcceptFails, HostGone, HostComes, SwitchPolicy, Approved, TickRejects, Renew
<1>2. SUFFICES /\ req' \in [Request -> Row] /\ edits' \in 0 .. MaxEdits
               /\ stage' \in {"draft", "admitted", "dropped", "renewed"}
               /\ needs' \in BOOLEAN /\ eligible' \in SUBSET Adult
               /\ consent' \in [Request -> {"none", "active", "revoked"}]
               /\ rowLock' \in Request \cup {None}
  <2>1. TypeOK'
    BY <1>0, <1>1, <1>2 DEF TypeOK
  <2> QED
    BY <1>0, <1>1, <2>1 DEF Typed
<1>3. CASE AcceptCommit
  <2>1. rowLock \in Request /\ req[rowLock] \in Row
    BY <1>0, <1>3 DEF AcceptCommit, TypeOK
  <2>2. req' = [req EXCEPT ![rowLock] = [req[rowLock] EXCEPT !.accepted = TRUE]]
    BY <1>0, <1>3, <2>1 DEF AcceptCommit
  <2>3. [req[rowLock] EXCEPT !.accepted = TRUE] \in Row
    BY <2>1 DEF Row
  <2>4. req' \in [Request -> Row]
    BY <1>0, <2>1, <2>2, <2>3
  <2> QED
    BY <1>0, <1>3, <2>4 DEF AcceptCommit, TypeOK
<1>4. CASE AcceptFails
  BY <1>0, <1>4 DEF AcceptFails, Edit, TypeOK
<1>5. CASE \E a \in Adult : HostGone(a)
  <2>1. PICK a \in Adult : HostGone(a)
    BY <1>5
  <2>2. req' \in [Request -> Row]
    BY <2>1, CancelIsTyped DEF HostGone
  <2> QED
    BY <1>0, <2>1, <2>2 DEF HostGone, Edit, TypeOK
<1>6. CASE \E a \in Adult : HostComes(a)
  BY <1>0, <1>6 DEF HostComes, Edit, TypeOK
<1>7. CASE SwitchPolicy
  <2>1. needs' \in BOOLEAN
    BY <1>7 DEF SwitchPolicy
  <2> QED
    BY <1>0, <1>7, <2>1 DEF SwitchPolicy, Edit, TypeOK
<1>8. CASE Approved
  BY <1>0, <1>8 DEF Approved, TypeOK
<1>9. CASE TickRejects
  <2>1. DropUnless({}) /\ UNCHANGED <<needs, eligible, consent, rowLock, edits>>
    BY <1>9 DEF TickRejects
  <2> QED
    BY <1>0, <2>1, DropIsTyped DEF TypeOK
<1>10. CASE Renew
  BY <1>0, <1>10 DEF Renew, Edit, TypeOK
<1> QED
  BY <1>3, <1>4, <1>5, <1>6, <1>7, <1>8, <1>9, <1>10

LEMMA TypeStep == ASSUME Typed, [Next]_vars PROVE Typed'
<1>1. CASE UNCHANGED vars
  BY <1>1 DEF Typed, TypeOK, vars, person, rows
<1> QED
  BY <1>1, TypeAsk, TypeMail, TypeRow, TypePerson DEF Next

(* Types, and a loop of the outbox that mails has a request.               *)
THEOREM AlwaysTyped == Spec => []Typed
<1>1. Init => Typed
  BY TypeInit
<1>2. Typed /\ [Next]_vars => Typed'
  BY TypeStep
<1> QED
  BY <1>1, <1>2, PTL DEF Spec

(* Every reachable state has its types; in particular no request is mailed *)
(* more often than the outbox tries.                                       *)
THEOREM RequestsTypeCorrect == Spec => []TypeOK
<1>1. Typed => TypeOK
  BY DEF Typed
<1> QED
  BY <1>1, AlwaysTyped, PTL

-----------------------------------------------------------------------------
(* What most steps leave of the requests and consents: nobody accepts,     *)
(* nobody is asked.                                                        *)

Same(q) ==
  /\ req'[q].adult = req[q].adult /\ req'[q].accepted = req[q].accepted
  /\ req[q].canceled => req'[q].canceled
  /\ req[q].expired => req'[q].expired

Keeps(q) == consent'[q] = consent[q] \/ (consent[q] = "active" /\ consent'[q] = "revoked")

Quiet == \A q \in Request : Same(q) /\ Keeps(q)

(* Nothing but what is open is canceled.                                   *)
Harmless == \A q \in Request : req'[q].canceled => req[q].canceled \/ ~ req[q].accepted

(* No link expires.                                                        *)
Lasting == \A q \in Request : req'[q].expired => req[q].expired

LEMMA NothingIsQuiet ==
  ASSUME UNCHANGED rows PROVE Quiet /\ Harmless /\ Lasting
BY DEF rows, Quiet, Same, Keeps, Harmless, Lasting

LEMMA CancelIsQuiet ==
  ASSUME Typed, NEW which, CancelOpen(which)
  PROVE  (\A q \in Request : Same(q)) /\ Harmless /\ Lasting
<1>1. req \in [Request -> Row]
  BY DEF Typed, TypeOK
<1>2. ASSUME NEW q \in Request
      PROVE  Same(q) /\ (req'[q].canceled => req[q].canceled \/ ~ req[q].accepted)
             /\ (req'[q].expired => req[q].expired)
  <2>1. CASE Open(q) /\ q \in which
    <3>1. req'[q] = [req[q] EXCEPT !.canceled = TRUE] /\ req[q] \in Row
      BY <1>1, <2>1 DEF CancelOpen
    <3>2. /\ req'[q].adult = req[q].adult /\ req'[q].accepted = req[q].accepted
          /\ req'[q].expired = req[q].expired /\ req'[q].canceled
      BY <3>1 DEF Row
    <3> QED
      BY <2>1, <3>2 DEF Same, Open
  <2>2. CASE ~ (Open(q) /\ q \in which)
    <3>1. req'[q] = req[q]
      BY <2>2 DEF CancelOpen
    <3> QED
      BY <3>1 DEF Same
  <2> QED
    BY <2>1, <2>2
<1> QED
  BY <1>2 DEF Harmless, Lasting

LEMMA DropIsQuiet ==
  ASSUME Typed, NEW left, DropUnless(left)
  PROVE  (\A q \in Request : Same(q)) /\ Harmless /\ Lasting
<1>1. CASE CancelOpen(Request)
  BY <1>1, CancelIsQuiet
<1>2. CASE req' = req
  BY <1>2 DEF Same, Harmless, Lasting
<1> QED
  BY <1>1, <1>2 DEF DropUnless

(* One row changes.                                                        *)
LEMMA OneRowIsQuiet ==
  ASSUME Typed, NEW q \in Request, NEW row, req' = [req EXCEPT ![q] = row],
         row.adult = req[q].adult, row.accepted = req[q].accepted,
         req[q].canceled => row.canceled, req[q].expired => row.expired, UNCHANGED consent
  PROVE  Quiet
<1>1. req'[q] = row /\ \A r \in Request \ {q} : req'[r] = req[r]
  BY DEF Typed, TypeOK
<1> QED
  BY <1>1 DEF Quiet, Same, Keeps

(* Its mail, lease or attempts change.                                     *)
LEMMA MailIsQuiet ==
  ASSUME Typed, NEW q \in Request, NEW row, req' = [req EXCEPT ![q] = row],
         row.adult = req[q].adult, row.accepted = req[q].accepted,
         row.canceled = req[q].canceled, row.expired = req[q].expired, UNCHANGED consent
  PROVE  Quiet /\ Harmless /\ Lasting
<1>1. req'[q] = row /\ \A r \in Request \ {q} : req'[r] = req[r]
  BY DEF Typed, TypeOK
<1>2. \A r \in Request : /\ req'[r].adult = req[r].adult /\ req'[r].accepted = req[r].accepted
                         /\ req'[r].canceled = req[r].canceled
                         /\ req'[r].expired = req[r].expired
  BY <1>1
<1> QED
  BY <1>2 DEF Quiet, Same, Keeps, Harmless, Lasting

LEMMA LookIsQuiet ==
  ASSUME Typed, NEW i \in Asker, NEW a \in Adult, Look(i, a)
  PROVE  Quiet /\ Harmless /\ Lasting
<1> DEFINE q == asker[i].seen[a]
           outbox == ActiveOf(a) = {} /\ (q # None /\ ~ req[q].expired) /\ asker[i].again
<1>1. req' = (IF outbox THEN [req EXCEPT ![q].mail = "due", ![q].tries = 0] ELSE req)
      /\ consent' = consent
  BY DEF Look
<1>2. outbox => q \in Request
  BY DEF Typed, TypeOK
<1> HIDE DEF q, outbox
<1>3. CASE outbox
  <2> DEFINE row == [req[q] EXCEPT !.mail = "due", !.tries = 0]
  <2>1. req \in [Request -> Row] /\ q \in Request /\ req[q] \in Row
    BY <1>2, <1>3 DEF Typed, TypeOK
  <2>2. req' = [req EXCEPT ![q] = row]
    BY <1>1, <1>3, <2>1
  <2>3. /\ row.adult = req[q].adult /\ row.accepted = req[q].accepted
        /\ row.canceled = req[q].canceled /\ row.expired = req[q].expired
    BY <2>1 DEF Row
  <2> HIDE DEF row
  <2> QED
    BY <1>1, <2>1, <2>2, <2>3, MailIsQuiet
<1>4. CASE ~ outbox
  BY <1>1, <1>4, NothingIsQuiet DEF rows
<1> QED
  BY <1>3, <1>4

LEMMA OutboxIsQuiet ==
  ASSUME Typed, NEW s \in Sender, Send(s) \/ Finish(s) \/ SenderCrash(s)
                                    \/ \E q \in Request : Claim(s, q)
  PROVE  Quiet /\ Harmless /\ Lasting
<1> USE DEF rows
<1>0. /\ req \in [Request -> Row]
      /\ sender[s].pc # "idle" => sender[s].req \in Request
  BY DEF Typed, TypeOK
<1>1. CASE Send(s) \/ SenderCrash(s)
  BY <1>1, NothingIsQuiet DEF Send, SenderCrash
<1>2. CASE Finish(s)
  <2> DEFINE q == sender[s].req
             row == [req[q] EXCEPT !.lease = "none",
                                   !.mail = IF sender[s].pc = "sent" THEN "sent" ELSE "later"]
  <2>1. q \in Request /\ req[q] \in Row
    BY <1>0, <1>2 DEF Finish
  <2>2. req' = [req EXCEPT ![q] = row] /\ consent' = consent
    BY <1>0, <1>2, <2>1 DEF Finish
  <2>3. /\ row.adult = req[q].adult /\ row.accepted = req[q].accepted
        /\ row.canceled = req[q].canceled /\ row.expired = req[q].expired
    BY <2>1 DEF Row
  <2> HIDE DEF row, q
  <2> QED
    BY <2>1, <2>2, <2>3, MailIsQuiet
<1>3. CASE \E q \in Request : Claim(s, q)
  <2>1. PICK q \in Request : Claim(s, q)
    BY <1>3
  <2> DEFINE row == [req[q] EXCEPT !.lease = "held", !.tries = @ + 1]
  <2>2. req' = [req EXCEPT ![q] = row] /\ consent' = consent /\ req[q] \in Row
    BY <1>0, <2>1 DEF Claim
  <2>3. /\ row.adult = req[q].adult /\ row.accepted = req[q].accepted
        /\ row.canceled = req[q].canceled /\ row.expired = req[q].expired
    BY <2>2 DEF Row
  <2> HIDE DEF row
  <2> QED
    BY <2>2, <2>3, MailIsQuiet
<1> QED
  BY <1>1, <1>2, <1>3

LEMMA StaleIsQuiet ==
  ASSUME Typed, NEW s \in Sender, CancelStale(s)
  PROVE  /\ Quiet /\ Lasting /\ sender[s].req \in Request
         /\ \A q \in Request : req'[q].canceled => req[q].canceled \/ q = sender[s].req
<1> DEFINE q == sender[s].req
           row == [req[q] EXCEPT !.canceled = TRUE, !.lease = "none"]
<1>1. req \in [Request -> Row] /\ q \in Request /\ req[q] \in Row
  BY DEF Typed, TypeOK, CancelStale
<1>2. req' = [req EXCEPT ![q] = row] /\ consent' = consent
  BY <1>1 DEF CancelStale
<1>3. /\ row.adult = req[q].adult /\ row.accepted = req[q].accepted
      /\ row.canceled /\ row.expired = req[q].expired
  BY <1>1 DEF Row
<1> HIDE DEF row, q
<1>4. Quiet
  BY <1>1, <1>2, <1>3, OneRowIsQuiet
<1>5. req'[q] = row /\ \A r \in Request \ {q} : req'[r] = req[r]
  BY <1>1, <1>2
<1> QED
  BY <1>1, <1>3, <1>4, <1>5 DEF Lasting, q

LEMMA RowIsQuiet ==
  ASSUME Typed, NEW q \in Request,
         LeaseLapses(q) \/ DueAgain(q) \/ AcceptCheck(q) \/ RevokeAny(q) \/ Expire(q)
  PROVE  Quiet /\ Harmless /\ (Lasting \/ Expire(q))
<1> USE DEF rows
<1>0. req \in [Request -> Row] /\ req[q] \in Row
  BY DEF Typed, TypeOK
<1>1. CASE LeaseLapses(q) \/ DueAgain(q)
  <2>1. PICK row \in {[req[q] EXCEPT !.lease = "lapsed"], [req[q] EXCEPT !.mail = "due"]} :
          req' = [req EXCEPT ![q] = row]
    BY <1>0, <1>1 DEF LeaseLapses, DueAgain
  <2>2. consent' = consent
    BY <1>1 DEF LeaseLapses, DueAgain
  <2>3. /\ row.adult = req[q].adult /\ row.accepted = req[q].accepted
        /\ row.canceled = req[q].canceled /\ row.expired = req[q].expired
    BY <1>0 DEF Row
  <2> QED
    BY <2>1, <2>2, <2>3, MailIsQuiet
<1>2. CASE AcceptCheck(q)
  BY <1>2, NothingIsQuiet DEF AcceptCheck
<1>3. CASE RevokeAny(q)
  <2>1. (\A r \in Request : Same(r)) /\ Harmless /\ Lasting
    BY <1>3, DropIsQuiet DEF RevokeAny
  <2>2. \A r \in Request : Keeps(r)
    BY <1>3 DEF RevokeAny, Keeps, Typed, TypeOK
  <2> QED
    BY <2>1, <2>2 DEF Quiet
<1>4. CASE Expire(q)
  <2> DEFINE row == [req[q] EXCEPT !.expired = TRUE]
  <2>1. req' = [req EXCEPT ![q] = row] /\ consent' = consent
    BY <1>0, <1>4 DEF Expire
  <2>2. /\ row.adult = req[q].adult /\ row.accepted = req[q].accepted
        /\ row.canceled = req[q].canceled /\ row.expired
    BY <1>0 DEF Row
  <2> HIDE DEF row
  <2>3. Quiet
    BY <2>1, <2>2, OneRowIsQuiet
  <2>4. req'[q] = row /\ \A r \in Request \ {q} : req'[r] = req[r]
    BY <1>0, <2>1
  <2>5. \A r \in Request : req'[r].canceled = req[r].canceled
    BY <2>2, <2>4
  <2>6. Harmless
    BY <2>5 DEF Harmless
  <2> QED
    BY <1>4, <2>3, <2>6
<1> QED
  BY <1>1, <1>2, <1>3, <1>4

LEMMA PersonIsQuiet ==
  ASSUME Typed,
         \/ AcceptFails \/ \E a \in Adult : HostGone(a) \/ HostComes(a)
         \/ SwitchPolicy \/ Approved \/ TickRejects \/ Renew
  PROVE  Quiet /\ Harmless /\ Lasting
<1> USE DEF rows
<1>1. CASE \/ AcceptFails \/ \E a \in Adult : HostComes(a)
           \/ SwitchPolicy \/ Approved \/ Renew
  BY <1>1, NothingIsQuiet DEF AcceptFails, HostComes, SwitchPolicy, Approved, Renew
<1>2. CASE \E a \in Adult : HostGone(a)
  <2>1. PICK a \in Adult : HostGone(a)
    BY <1>2
  <2>2. (\A q \in Request : Same(q)) /\ Harmless /\ Lasting
    BY <2>1, CancelIsQuiet DEF HostGone
  <2>3. \A q \in Request : Keeps(q)
    BY <2>1 DEF HostGone, Keeps, ActiveOf
  <2> QED
    BY <2>2, <2>3 DEF Quiet
<1>3. CASE TickRejects
  <2>1. (\A q \in Request : Same(q)) /\ Harmless /\ Lasting
    BY <1>3, DropIsQuiet DEF TickRejects
  <2>2. \A q \in Request : Keeps(q)
    BY <1>3 DEF TickRejects, Keeps
  <2> QED
    BY <2>1, <2>2 DEF Quiet
<1> QED
  BY <1>1, <1>2, <1>3

LEMMA AskIsQuiet ==
  ASSUME Typed, NEW i \in Asker,
         TickAsks(i) \/ Resend(i) \/ PassOver(i) \/ AskEnds(i) \/ \E a \in Adult : Look(i, a)
  PROVE  Quiet /\ Harmless /\ Lasting
BY LookIsQuiet, NothingIsQuiet DEF TickAsks, Resend, PassOver, AskEnds

(* Row q after the replacement of `old` by row n, for adult a.             *)
Replaced(q, n, a, old) ==
  /\ q = old => /\ req'[q].adult = req[q].adult /\ req'[q].accepted = req[q].accepted
                /\ req'[q].expired = req[q].expired /\ req'[q].canceled
  /\ q # old /\ q = n => req'[q] = req[q] \/ (/\ req'[q].adult = a /\ ~ req'[q].accepted
                                              /\ ~ req'[q].canceled /\ ~ req'[q].expired)
  /\ q # old /\ q # n => req'[q] = req[q]

LEMMA ReplaceIs ==
  ASSUME Typed, NEW i \in Asker, Replace(i)
  PROVE  /\ asker[i].who \in Adult
         /\ \E n \in Request :
              /\ req[n].adult = None
              /\ \A q \in Request : Replaced(q, n, asker[i].who, asker[i].seen[asker[i].who])
<1> DEFINE a == asker[i].who
           old == asker[i].seen[a]
           still == {q \in Of(a) : Open(q) /\ q # old}
<1>0. req \in [Request -> Row] /\ a \in Adult
  BY DEF Typed, TypeOK, Replace
<1>1. PICK n \in Fresh :
        req' = [q \in Request |-> IF q = old THEN [req[q] EXCEPT !.canceled = TRUE]
                                  ELSE IF q = n /\ still = {} THEN [Unused EXCEPT !.adult = a]
                                  ELSE req[q]]
  BY DEF Replace
<1>2. n \in Request /\ req[n].adult = None
  BY DEF Fresh
<1>3. /\ [Unused EXCEPT !.adult = a].adult = a /\ [Unused EXCEPT !.adult = a].accepted = FALSE
      /\ [Unused EXCEPT !.adult = a].canceled = FALSE
      /\ [Unused EXCEPT !.adult = a].expired = FALSE
  BY DEF Unused
<1> HIDE DEF old, still, a
<1>4. ASSUME NEW q \in Request PROVE Replaced(q, n, a, old)
  <2>1. CASE q = old
    <3>1. req'[q] = [req[q] EXCEPT !.canceled = TRUE] /\ req[q] \in Row
      BY <1>0, <1>1, <2>1
    <3>2. /\ req'[q].adult = req[q].adult /\ req'[q].accepted = req[q].accepted
          /\ req'[q].expired = req[q].expired /\ req'[q].canceled
      BY <3>1 DEF Row
    <3> QED
      BY <2>1, <3>2 DEF Replaced
  <2>2. CASE q # old /\ q = n /\ still = {}
    <3>1. req'[q] = [Unused EXCEPT !.adult = a]
      BY <1>1, <2>2
    <3> QED
      BY <1>3, <2>2, <3>1 DEF Replaced
  <2>3. CASE q # old /\ (q = n => still # {})
    <3>1. req'[q] = req[q]
      BY <1>1, <2>3
    <3> QED
      BY <2>3, <3>1 DEF Replaced
  <2> QED
    BY <2>1, <2>2, <2>3
<1> QED
  BY <1>0, <1>2, <1>4 DEF a, old

LEMMA CommitIs ==
  ASSUME Typed, AcceptCommit
  PROVE  /\ rowLock \in Request /\ rowLock' = None
         /\ \A q \in Request :
              /\ req'[q].adult = req[q].adult /\ req'[q].canceled = req[q].canceled
              /\ req'[q].expired = req[q].expired
              /\ IF q = rowLock THEN req'[q].accepted ELSE req'[q].accepted = req[q].accepted
              /\ consent'[q] = consent[q] \/ (q = rowLock /\ consent'[q] = "active")
         /\ (\A q \in Request : req[q].adult = req[rowLock].adult => consent[q] # "active")
              => consent'[rowLock] = "active"
<1>0. /\ req \in [Request -> Row] /\ consent \in [Request -> {"none", "active", "revoked"}]
      /\ rowLock \in Request
  BY DEF Typed, TypeOK, AcceptCommit
<1> DEFINE row == [req[rowLock] EXCEPT !.accepted = TRUE]
<1>1. /\ row.adult = req[rowLock].adult /\ row.canceled = req[rowLock].canceled
      /\ row.expired = req[rowLock].expired /\ row.accepted
  <2>1. req[rowLock] \in Row
    BY <1>0
  <2> QED
    BY <2>1 DEF Row
<1>2. req' = [req EXCEPT ![rowLock] = row] /\ rowLock' = None
  BY <1>0 DEF AcceptCommit
<1> HIDE DEF row
<1>3. req'[rowLock] = row /\ \A q \in Request \ {rowLock} : req'[q] = req[q]
  BY <1>0, <1>2
<1>4. \A q \in Request : consent'[q] = consent[q] \/ (q = rowLock /\ consent'[q] = "active")
  BY <1>0 DEF AcceptCommit
<1>5. (\A q \in Request : req[q].adult = req[rowLock].adult => consent[q] # "active")
        => consent'[rowLock] = "active"
  BY <1>0 DEF AcceptCommit, ActiveOf, Of
<1> QED
  BY <1>0, <1>1, <1>2, <1>3, <1>4, <1>5

-----------------------------------------------------------------------------
(* Consents are of adults of the unit.                                     *)

Base == Typed /\ FreshInv /\ LockInv /\ ConsentsAreEligible

LEMMA QuietIsBase ==
  ASSUME Base, Quiet, LockInv',
         \A q \in Request : consent'[q] = "active" => req[q].adult \in eligible'
  PROVE  FreshInv' /\ ConsentsAreEligible'
<1>1. FreshInv'
  BY DEF Base, Quiet, Same, Keeps, FreshInv
<1>2. ConsentsAreEligible'
  BY DEF Base, Quiet, Same, ConsentsAreEligible, Active
<1> QED
  BY <1>1, <1>2

LEMMA BaseStep == ASSUME Base, [Next]_vars PROVE Base'
<1> USE DEF person, rows
<1>0. /\ Typed /\ TypeOK /\ FreshInv /\ LockInv /\ ConsentsAreEligible
      /\ \A q \in Request : consent[q] = "active" => req[q].adult \in eligible
  BY DEF Base, Typed, ConsentsAreEligible, Active
<1>1. Typed' /\ req \in [Request -> Row]
  BY <1>0, TypeStep DEF TypeOK
<1>2. SUFFICES FreshInv' /\ LockInv' /\ ConsentsAreEligible'
  BY <1>1 DEF Base
<1>3. ASSUME Quiet, eligible \subseteq eligible', LockInv'
      PROVE  FreshInv' /\ LockInv' /\ ConsentsAreEligible'
  <2>1. \A q \in Request : consent'[q] = "active" => req[q].adult \in eligible'
    BY <1>0, <1>3 DEF Quiet, Keeps
  <2> QED
    BY <1>3, <2>1, QuietIsBase
<1>4. ASSUME Quiet, eligible \subseteq eligible', rowLock' = rowLock,
             rowLock # None => (req'[rowLock].canceled => req[rowLock].canceled)
      PROVE  FreshInv' /\ LockInv' /\ ConsentsAreEligible'
  <2>1. LockInv'
    BY <1>0, <1>4 DEF Quiet, Same, LockInv, Open, TypeOK
  <2> QED
    BY <1>3, <1>4, <2>1
<1>5. ASSUME Quiet, eligible \subseteq eligible', rowLock' = None
      PROVE  FreshInv' /\ LockInv' /\ ConsentsAreEligible'
  BY <1>3, <1>5 DEF LockInv
<1>6. rowLock # None => Open(rowLock) /\ rowLock \in Request /\ ~ req[rowLock].accepted
  BY <1>0 DEF LockInv, TypeOK, Open
<1>7. ASSUME NEW i \in Asker,
             TickAsks(i) \/ Resend(i) \/ PassOver(i) \/ AskEnds(i) \/ \E a \in Adult : Look(i, a)
      PROVE  FreshInv' /\ LockInv' /\ ConsentsAreEligible'
  <2>1. UNCHANGED <<eligible, rowLock>>
    BY <1>7 DEF TickAsks, Resend, PassOver, AskEnds, Look
  <2>2. Quiet
    BY <1>0, <1>7, AskIsQuiet
  <2>3. CASE UNCHANGED req
    BY <1>4, <2>1, <2>2, <2>3
  <2>4. CASE \E a \in Adult : Look(i, a)
    <3>1. PICK a \in Adult : Look(i, a)
      BY <2>4
    <3>2. rowLock # None => req'[rowLock] = req[rowLock]
      <4> DEFINE q == asker[i].seen[a]
      <4>1. req' = req \/ (rowLock # q /\ req' = [req EXCEPT ![q].mail = "due", ![q].tries = 0])
        BY <3>1 DEF Look
      <4> HIDE DEF q
      <4> QED
        BY <1>1, <1>6, <4>1
    <3> QED
      BY <1>4, <2>1, <2>2, <3>2
  <2> QED
    BY <1>7, <2>3, <2>4 DEF TickAsks, Resend, PassOver, AskEnds
<1>8. ASSUME NEW i \in Asker, Replace(i) PROVE FreshInv' /\ LockInv' /\ ConsentsAreEligible'
  <2> DEFINE a == asker[i].who
             old == asker[i].seen[a]
  <2>1. a \in Adult
    BY <1>0, <1>8, ReplaceIs
  <2>2. PICK n \in Request : /\ req[n].adult = None
                             /\ \A q \in Request : Replaced(q, n, a, old)
    BY <1>0, <1>8, ReplaceIs
  <2>3. UNCHANGED <<eligible, consent, rowLock>> /\ rowLock = None
    BY <1>8 DEF Replace, RowFree
  <2> HIDE DEF a, old
  <2>4. \A q \in Request : req'[q].adult = req[q].adult \/ (q = n /\ req'[q].adult = a)
    BY <2>2 DEF Replaced
  <2>5. FreshInv'
    BY <1>0, <2>1, <2>2, <2>3, <2>4, ApprovalRequestsAssumption DEF FreshInv
  <2>6. ConsentsAreEligible'
    BY <1>0, <2>2, <2>3, <2>4 DEF ConsentsAreEligible, Active, FreshInv
  <2>7. LockInv'
    BY <2>3 DEF LockInv
  <2> QED
    BY <2>5, <2>6, <2>7
<1>9. ASSUME NEW s \in Sender
      PROVE /\ Send(s) \/ Finish(s) \/ SenderCrash(s) \/ (\E q \in Request : Claim(s, q)) =>
                 FreshInv' /\ LockInv' /\ ConsentsAreEligible'
            /\ CancelStale(s) => FreshInv' /\ LockInv' /\ ConsentsAreEligible'
  <2>1. ASSUME Send(s) \/ Finish(s) \/ SenderCrash(s) \/ (\E q \in Request : Claim(s, q))
        PROVE  FreshInv' /\ LockInv' /\ ConsentsAreEligible'
    <3>1. UNCHANGED <<eligible, rowLock>>
      BY <2>1 DEF Send, Finish, SenderCrash, Claim
    <3>2. Quiet /\ Harmless
      BY <1>0, <2>1, OutboxIsQuiet
    <3>3. rowLock # None => (req'[rowLock].canceled => req[rowLock].canceled)
      <4>1. CASE Send(s) \/ SenderCrash(s)
        BY <4>1 DEF Send, SenderCrash
      <4>2. CASE Finish(s)
        BY <1>6, <4>2, <1>1 DEF Finish
      <4>3. CASE \E q \in Request : Claim(s, q)
        BY <1>6, <4>3, <1>1 DEF Claim, Claimable
      <4> QED
        BY <2>1, <4>1, <4>2, <4>3
    <3> QED
      BY <1>4, <3>1, <3>2, <3>3
  <2>2. ASSUME CancelStale(s) PROVE FreshInv' /\ LockInv' /\ ConsentsAreEligible'
    <3>1. UNCHANGED <<eligible, rowLock>> /\ rowLock # sender[s].req
      BY <2>2 DEF CancelStale
    <3>2. Quiet /\ \A q \in Request : req'[q].canceled => req[q].canceled \/ q = sender[s].req
      BY <1>0, <2>2, StaleIsQuiet
    <3> QED
      BY <1>4, <1>6, <3>1, <3>2
  <2> QED
    BY <2>1, <2>2
<1>10. ASSUME NEW q \in Request, LeaseLapses(q) \/ DueAgain(q) \/ Expire(q) \/ AcceptCheck(q)
                                   \/ RevokeAny(q)
       PROVE  FreshInv' /\ LockInv' /\ ConsentsAreEligible'
  <2>1. Quiet /\ eligible' = eligible
    BY <1>0, <1>10, RowIsQuiet
       DEF LeaseLapses, DueAgain, Expire, AcceptCheck, RevokeAny
  <2>2. CASE LeaseLapses(q) \/ DueAgain(q) \/ Expire(q)
    <3>1. rowLock' = rowLock
      BY <2>2 DEF LeaseLapses, DueAgain, Expire
    <3>2. \A r \in Request : req'[r].canceled = req[r].canceled
      <4>1. req[q] \in Row /\ req \in [Request -> Row]
        BY <1>0 DEF TypeOK
      <4>2. PICK row \in {[req[q] EXCEPT !.lease = "lapsed"], [req[q] EXCEPT !.mail = "due"],
                          [req[q] EXCEPT !.expired = TRUE]} : req' = [req EXCEPT ![q] = row]
        BY <2>2, <4>1 DEF LeaseLapses, DueAgain, Expire
      <4>3. row.canceled = req[q].canceled
        BY <4>1 DEF Row
      <4> QED
        BY <4>1, <4>2, <4>3
    <3> QED
      BY <1>4, <1>6, <2>1, <3>1, <3>2
  <2>3. CASE AcceptCheck(q)
    <3>1. LockInv'
      BY <2>3 DEF AcceptCheck, LockInv, Open
    <3> QED
      BY <1>3, <2>1, <3>1
  <2>4. CASE RevokeAny(q)
    <3>1. rowLock' = None
      BY <2>4 DEF RevokeAny, RowFree
    <3> QED
      BY <1>5, <2>1, <3>1
  <2> QED
    BY <1>10, <2>2, <2>3, <2>4
<1>11. CASE AcceptCommit
  <2>1. /\ rowLock \in Request /\ rowLock' = None /\ eligible' = eligible
        /\ \A q \in Request :
             /\ req'[q].adult = req[q].adult
             /\ consent'[q] = consent[q] \/ (q = rowLock /\ consent'[q] = "active")
    BY <1>0, <1>11, CommitIs DEF AcceptCommit
  <2>2. rowLock # None
    BY <1>11 DEF AcceptCommit
  <2>3. req[rowLock].adult \in eligible /\ req[rowLock].adult # None
    BY <1>0, <2>2 DEF LockInv, Open
  <2>4. FreshInv'
    BY <1>0, <2>1, <2>3 DEF FreshInv
  <2>5. ConsentsAreEligible'
    BY <1>0, <2>1, <2>3 DEF ConsentsAreEligible, Active
  <2> QED
    BY <2>1, <2>4, <2>5 DEF LockInv
<1>12. CASE \/ AcceptFails \/ \E a \in Adult : HostGone(a) \/ HostComes(a)
            \/ SwitchPolicy \/ Approved \/ TickRejects \/ Renew
  <2>1. Quiet
    BY <1>0, <1>12, PersonIsQuiet
  <2>2. CASE AcceptFails
    BY <1>5, <2>1, <2>2 DEF AcceptFails
  <2>3. CASE \E a \in Adult : HostGone(a)
    <3>1. PICK a \in Adult : HostGone(a)
      BY <2>3
    <3>2. rowLock' = None /\ eligible' = eligible \ {a}
      BY <3>1 DEF HostGone, RowFree
    <3>3. \A q \in Request : consent'[q] = "active" => req[q].adult \in eligible'
      BY <1>0, <3>1, <3>2 DEF HostGone, ActiveOf, Of
    <3> QED
      BY <2>1, <3>2, <3>3, QuietIsBase DEF LockInv
  <2>4. CASE \/ \E a \in Adult : HostComes(a)
             \/ SwitchPolicy \/ Approved \/ Renew
    <3>1. UNCHANGED <<req, rowLock>> /\ eligible \subseteq eligible'
      BY <2>4 DEF HostComes, SwitchPolicy, Approved, Renew
    <3> QED
      BY <1>4, <2>1, <3>1
  <2>5. CASE TickRejects
    BY <1>5, <2>1, <2>5 DEF TickRejects, RowFree
  <2> QED
    BY <1>12, <2>2, <2>3, <2>4, <2>5
<1>13. CASE UNCHANGED vars
  <2>1. Quiet
    BY <1>13, NothingIsQuiet DEF vars
  <2> QED
    BY <1>4, <1>13, <2>1 DEF vars
<1> QED
  BY <1>7, <1>8, <1>9, <1>10, <1>11, <1>12, <1>13 DEF Next, RevokeOwn, RevokeAdmin

THEOREM AlwaysBase == Spec => []Base
<1>1. Init => Base
  <2> SUFFICES ASSUME Init PROVE Base
    OBVIOUS
  <2>1. consent = [q \in Request |-> "none"] /\ rowLock = None
    BY DEF Init
  <2> QED
    BY <2>1, TypeInit DEF Base, FreshInv, LockInv, ConsentsAreEligible, Active
<1>2. Base /\ [Next]_vars => Base'
  BY BaseStep
<1> QED
  BY <1>1, <1>2, PTL DEF Spec

(* No consent outlives the adult's right to give it: an adult who leaves   *)
(* waits until an acceptance is over, and takes every consent along.       *)
THEOREM ConsentsStayEligible == Spec => []ConsentsAreEligible
<1>1. Base => ConsentsAreEligible
  BY DEF Base
<1> QED
  BY <1>1, AlwaysBase, PTL

-----------------------------------------------------------------------------
(* Who accepted through a link can revoke through it.                      *)

(* One call of requestEmails at a time, and no link expires between a      *)
(* check and its use.                                                      *)
Alone == Overlap = {} /\ \A i, j \in Asker : i = j

Linked == Base /\ GoodInv /\ ConsentInv /\ OneOpenInv /\ SeenInv /\ SenderInv /\ LinkRevokes

LEMMA QuietIsLinked ==
  ASSUME Linked, Quiet,
         \A q \in Request : req'[q].canceled =>
           req[q].canceled \/ ~ req[q].accepted \/ consent[q] # "active"
  PROVE  ConsentInv' /\ OneOpenInv' /\ LinkRevokes'
<1>1. ASSUME NEW q \in Request
      PROVE  /\ Open(q)' => Open(q)
             /\ consent'[q] = "active" => consent[q] = "active"
             /\ consent'[q] # "none" => consent[q] # "none"
             /\ req'[q].adult = req[q].adult /\ req'[q].accepted = req[q].accepted
             /\ consent'[q] = consent[q] \/ consent'[q] = "revoked"
  BY DEF Quiet, Same, Keeps, Open
<1>2. ConsentInv'
  BY <1>1 DEF Linked, ConsentInv
<1>3. OneOpenInv'
  <2>1. ASSUME NEW q \in Request, NEW r \in Request, Open(q)', Open(r)',
               req'[q].adult = req'[r].adult
        PROVE  q = r
    BY <1>1, <2>1 DEF Linked, OneOpenInv
  <2>2. ASSUME NEW q \in Request, NEW r \in Request, Open(q)', consent'[r] = "active"
        PROVE  req'[q].adult # req'[r].adult
    BY <1>1, <2>2 DEF Linked, OneOpenInv
  <2> QED
    BY <2>1, <2>2 DEF OneOpenInv
<1>4. LinkRevokes'
  BY <1>1 DEF Linked, LinkRevokes
<1> QED
  BY <1>2, <1>3, <1>4

LEMMA QuietIsSeen == ASSUME Linked, Quiet, UNCHANGED asker PROVE SeenInv'
<1>0. Typed /\ SeenInv
  BY DEF Linked, Base
<1>1. ASSUME NEW q \in Request
      PROVE  /\ Open(q)' => Open(q)
             /\ consent'[q] = "active" => consent[q] = "active"
             /\ req'[q].adult = req[q].adult
             /\ req[q].expired => req'[q].expired
  BY DEF Quiet, Same, Keeps, Open
<1>2. \A i \in Asker, a \in Adult : asker[i].seen[a] # None => asker[i].seen[a] \in Request
  <2>1. asker \in [Asker -> AskRow]
    BY <1>0 DEF Typed, TypeOK, AskRow
  <2> QED
    BY <2>1 DEF AskRow
<1>3. ASSUME NEW i \in Asker PROVE TodoInv(i)'
  <2>1. TodoInv(i)
    BY <1>0 DEF SeenInv
  <2> QED
    BY <1>1, <1>2, <2>1 DEF TodoInv
<1>4. ASSUME NEW i \in Asker PROVE WhoInv(i)'
  <2>1. WhoInv(i)
    BY <1>0 DEF SeenInv
  <2> QED
    BY <1>1, <2>1 DEF WhoInv
<1> QED
  BY <1>3, <1>4 DEF SeenInv

(* As long as nothing expires and the policy stays.                        *)
LEMMA LastingIsGood ==
  ASSUME Linked, Quiet, Lasting, UNCHANGED needs,
         rowLock' \in {rowLock, None},
         \A s \in Sender : sender'[s].pc = "claimed" =>
           sender'[s] = sender[s] \/ consent[sender'[s].req] # "active"
  PROVE  GoodInv' /\ SenderInv'
<1>0. Typed /\ GoodInv /\ SenderInv
  BY DEF Linked, Base
<1>1. GoodInv'
  <2>1. rowLock' # None => rowLock' = rowLock /\ rowLock \in Request
    BY <1>0 DEF Typed, TypeOK
  <2> QED
    BY <1>0, <2>1 DEF GoodInv, Lasting
<1>2. SenderInv'
  <2> SUFFICES ASSUME NEW s \in Sender, NEW q \in Request, sender'[s].pc = "claimed",
                      sender'[s].req = q, consent'[q] = "active"
               PROVE  needs' /\ ~ req'[q].expired
    BY DEF SenderInv
  <2>1. consent[q] = "active" /\ (req'[q].expired => req[q].expired)
    BY DEF Quiet, Keeps, Lasting
  <2>2. sender'[s] = sender[s]
    BY <2>1
  <2> QED
    BY <1>0, <2>1, <2>2 DEF SenderInv
<1> QED
  BY <1>1, <1>2

LEMMA HarmlessIsFine ==
  ASSUME Harmless
  PROVE  \A q \in Request : req'[q].canceled =>
           req[q].canceled \/ ~ req[q].accepted \/ consent[q] # "active"
BY DEF Harmless

Rest == GoodInv /\ ConsentInv /\ OneOpenInv /\ SeenInv /\ SenderInv /\ LinkRevokes

LEMMA MailIsLinked ==
  ASSUME Linked, NEW s \in Sender,
         CancelStale(s) \/ Send(s) \/ Finish(s) \/ SenderCrash(s)
           \/ \E q \in Request : Claim(s, q)
  PROVE  Rest'
<1> USE DEF person, rows
<1>0. Typed /\ TypeOK /\ sender \in [Sender -> MailRow] /\ NoMail.pc = "idle"
      /\ ConsentInv /\ SenderInv /\ LinkRevokes /\ ConsentsAreEligible
  BY DEF Linked, Base, Typed, TypeOK, MailRow, NoMail
<1>1. UNCHANGED <<needs, rowLock, asker>>
  BY DEF Claim, CancelStale, Send, Finish, SenderCrash
<1>2. Quiet /\ Lasting
  BY <1>0, StaleIsQuiet, OutboxIsQuiet
<1>3. \A q \in Request : req'[q].canceled =>
        req[q].canceled \/ ~ req[q].accepted \/ consent[q] # "active"
  <2>1. CASE CancelStale(s)
    <3> DEFINE q == sender[s].req
    <3>1. /\ q \in Request
          /\ \A r \in Request : req'[r].canceled => req[r].canceled \/ r = q
      BY <1>0, <2>1, StaleIsQuiet
    <3>2. sender[s].pc = "claimed" /\ ~ (needs /\ req[q].adult \in eligible /\ ~ req[q].expired)
      BY <2>1 DEF CancelStale, Deliverable
    <3> HIDE DEF q
    <3>3. consent[q] = "active" => needs /\ ~ req[q].expired /\ req[q].adult \in eligible
      BY <1>0, <3>1, <3>2 DEF SenderInv, ConsentsAreEligible, Active, q
    <3> QED
      BY <3>1, <3>2, <3>3
  <2>2. CASE ~ CancelStale(s)
    <3>1. Harmless
      BY <1>0, <2>2, OutboxIsQuiet
    <3> QED
      BY <3>1, HarmlessIsFine
  <2> QED
    BY <2>1, <2>2
<1>4. \A r \in Sender : sender'[r].pc = "claimed" =>
        sender'[r] = sender[r] \/ consent[sender'[r].req] # "active"
  <2>1. CASE CancelStale(s) \/ Finish(s) \/ SenderCrash(s)
    <3>1. sender' = [sender EXCEPT ![s] = NoMail]
      BY <2>1 DEF CancelStale, Finish, SenderCrash
    <3> QED
      BY <1>0, <3>1
  <2>2. CASE Send(s)
    <3>1. PICK pc \in {"sent", "failed"} : sender' = [sender EXCEPT ![s].pc = pc]
      BY <2>2 DEF Send
    <3>2. sender'[s].pc = pc /\ \A r \in Sender \ {s} : sender'[r] = sender[r]
      BY <1>0, <3>1 DEF MailRow
    <3> QED
      BY <3>2
  <2>3. CASE \E q \in Request : Claim(s, q)
    <3>1. PICK q \in Request : Claim(s, q)
      BY <2>3
    <3>2. consent[q] = "none"
      BY <1>0, <3>1 DEF Claim, Claimable, Open, ConsentInv
    <3>3. sender' = [sender EXCEPT ![s] = [pc |-> "claimed", req |-> q]]
      BY <3>1 DEF Claim
    <3> QED
      BY <1>0, <3>2, <3>3
  <2> QED
    BY <2>1, <2>2, <2>3
<1>5. ConsentInv' /\ OneOpenInv' /\ LinkRevokes'
  BY <1>2, <1>3, QuietIsLinked
<1>6. SeenInv'
  BY <1>1, <1>2, QuietIsSeen
<1>7. GoodInv' /\ SenderInv'
  BY <1>1, <1>2, <1>4, LastingIsGood
<1> QED
  BY <1>5, <1>6, <1>7 DEF Rest

LEMMA RowIsLinked ==
  ASSUME Alone, Linked, NEW q \in Request,
         LeaseLapses(q) \/ DueAgain(q) \/ AcceptCheck(q) \/ RevokeAny(q) \/ Expire(q)
  PROVE  Rest'
<1> USE DEF person, rows
<1>0. Typed /\ TypeOK /\ GoodInv /\ SenderInv
  BY DEF Linked, Base, Typed
<1>1. UNCHANGED <<needs, asker, sender>>
  BY DEF LeaseLapses, DueAgain, AcceptCheck, RevokeAny, Expire
<1>2. Quiet /\ Harmless /\ (Lasting \/ Expire(q))
  BY <1>0, RowIsQuiet
<1>3. ConsentInv' /\ OneOpenInv' /\ LinkRevokes' /\ SeenInv'
  BY <1>1, <1>2, HarmlessIsFine, QuietIsLinked, QuietIsSeen
<1>4. CASE Lasting /\ ~ AcceptCheck(q)
  <2>1. rowLock' \in {rowLock, None}
    BY <1>4 DEF LeaseLapses, DueAgain, RevokeAny, Expire
  <2>2. GoodInv' /\ SenderInv'
    BY <1>1, <1>2, <1>4, <2>1, LastingIsGood
  <2> QED
    BY <1>3, <2>2 DEF Rest
<1>5. CASE AcceptCheck(q)
  <2>1. GoodInv'
    BY <1>5 DEF AcceptCheck, GoodInv, Asking
  <2>2. SenderInv'
    BY <1>0, <1>5 DEF AcceptCheck, SenderInv
  <2> QED
    BY <1>3, <2>1, <2>2 DEF Rest
<1>6. CASE Expire(q)
  <2>1. rowLock # q /\ \A s \in Sender : sender[s].req = q => sender[s].pc # "claimed"
    BY <1>6 DEF Expire, Calm, Alone
  <2>2. \A r \in Request \ {q} : req'[r] = req[r]
    BY <1>0, <1>6 DEF Expire, TypeOK
  <2>3. UNCHANGED <<rowLock, consent>> /\ rowLock \in Request \cup {None}
    BY <1>0, <1>6 DEF Expire, TypeOK
  <2>4. GoodInv'
    BY <1>0, <1>1, <2>1, <2>2, <2>3 DEF GoodInv
  <2>5. SenderInv'
    BY <1>0, <1>1, <2>1, <2>2, <2>3 DEF SenderInv
  <2> QED
    BY <1>3, <2>4, <2>5 DEF Rest
<1> QED
  BY <1>2, <1>4, <1>5, <1>6

LEMMA PersonIsLinked ==
  ASSUME Alone, Linked,
         \/ AcceptFails \/ \E a \in Adult : HostGone(a) \/ HostComes(a)
         \/ SwitchPolicy \/ Approved \/ TickRejects \/ Renew
  PROVE  Rest'
<1> USE DEF person, rows
<1>0. Typed /\ TypeOK
  BY DEF Linked, Base, Typed
<1>1. UNCHANGED <<asker, sender>>
  BY DEF AcceptFails, HostGone, HostComes, SwitchPolicy, Approved, TickRejects, Renew
<1>2. Quiet /\ Harmless /\ Lasting
  BY <1>0, PersonIsQuiet
<1>3. ConsentInv' /\ OneOpenInv' /\ LinkRevokes' /\ SeenInv'
  BY <1>1, <1>2, HarmlessIsFine, QuietIsLinked, QuietIsSeen
<1>4. CASE ~ SwitchPolicy
  <2>1. rowLock' \in {rowLock, None} /\ UNCHANGED needs
    BY <1>4 DEF AcceptFails, HostGone, HostComes, Approved, TickRejects, Renew
  <2>2. GoodInv' /\ SenderInv'
    BY <1>1, <1>2, <2>1, LastingIsGood
  <2> QED
    BY <1>3, <2>2 DEF Rest
<1>5. CASE SwitchPolicy
  <2>1. \A q \in Request : rowLock # q /\ \A s \in Sender :
                             sender[s].req = q => sender[s].pc # "claimed"
    BY <1>5 DEF SwitchPolicy, Calm, Alone
  <2>2. rowLock' = rowLock /\ rowLock \in Request \cup {None}
    BY <1>0, <1>5 DEF SwitchPolicy, TypeOK
  <2>3. GoodInv' /\ SenderInv'
    BY <1>1, <2>1, <2>2 DEF GoodInv, SenderInv
  <2> QED
    BY <1>3, <2>3 DEF Rest
<1> QED
  BY <1>4, <1>5

LEMMA AskIsLinked ==
  ASSUME Alone, Linked, NEW i \in Asker,
         TickAsks(i) \/ Resend(i) \/ PassOver(i) \/ AskEnds(i) \/ \E a \in Adult : Look(i, a)
  PROVE  Rest'
<1>0. Typed /\ SeenInv /\ OneOpenInv /\ asker \in [Asker -> AskRow]
  BY DEF Linked, Base, Typed, TypeOK, AskRow
<1>1. UNCHANGED <<needs, rowLock, sender, consent>>
  BY DEF TickAsks, Resend, PassOver, AskEnds, Look, Ask, person, rows
<1>2. Quiet /\ Harmless /\ Lasting
  BY <1>0, AskIsQuiet
<1>3. ConsentInv' /\ OneOpenInv' /\ LinkRevokes'
  BY <1>2, HarmlessIsFine, QuietIsLinked
<1>4. GoodInv' /\ SenderInv'
  BY <1>1, <1>2, LastingIsGood
<1>5. ASSUME NEW q \in Request
      PROVE  /\ Open(q)' => Open(q)
             /\ req'[q].adult = req[q].adult
             /\ req[q].expired => req'[q].expired
  BY <1>2 DEF Quiet, Same, Open
<1>6. asker[i] \in AskRow /\ TodoInv(i) /\ WhoInv(i)
  BY <1>0 DEF SeenInv
<1>7. TodoInv(i)' /\ WhoInv(i)'
  <2>1. CASE TickAsks(i) \/ Resend(i)
    <3> DEFINE found == [a \in Adult |-> IF \E q \in Of(a) : Open(q)
                                         THEN CHOOSE q \in Of(a) : Open(q) ELSE None]
    <3>0. PICK again \in BOOLEAN : Ask(i, again)
      BY <2>1 DEF TickAsks, Resend
    <3>1. asker'[i].who = None /\ asker'[i].seen = found
      <4>1. asker' = [asker EXCEPT ![i] = [todo |-> eligible, who |-> None, again |-> again,
                                           seen |-> found]]
        BY <3>0 DEF Ask
      <4> HIDE DEF found
      <4> QED
        BY <1>0, <4>1
    <3>2. ASSUME NEW a \in Adult, found[a] # None PROVE req[found[a]].adult = a
      BY <3>2 DEF Of
    <3>3. ASSUME NEW q \in Request, Open(q), req[q].adult \in Adult
          PROVE  q = found[req[q].adult]
      <4> DEFINE a == req[q].adult
                 c == CHOOSE r \in Of(a) : Open(r)
      <4>1. q \in Of(a)
        BY DEF Of
      <4>2. c \in Of(a) /\ Open(c)
        BY <3>3, <4>1
      <4>3. c \in Request /\ req[c].adult = req[q].adult
        BY <4>2 DEF Of
      <4> HIDE DEF c
      <4>4. c = q
        BY <1>0, <3>3, <4>2, <4>3 DEF OneOpenInv
      <4> QED
        BY <3>3, <4>1, <4>4 DEF c
    <3> HIDE DEF found
    <3>4. asker'[i].todo \subseteq Adult
      BY <1>0, <2>1 DEF TickAsks, Resend, Ask, Typed, TypeOK
    <3>5. \A a \in Adult : found[a] # None => found[a] \in Request
      BY DEF found, Of
    <3>6. TodoInv(i)'
      BY <1>5, <3>1, <3>2, <3>3, <3>4, <3>5 DEF TodoInv
    <3> QED
      BY <3>1, <3>6 DEF WhoInv
  <2>2. CASE PassOver(i)
    <3>1. /\ asker'[i].who = None /\ asker'[i].todo = asker[i].todo
          /\ asker'[i].seen = asker[i].seen
      BY <1>0, <2>2 DEF PassOver, AskRow
    <3>2. \A a \in Adult : asker[i].seen[a] # None => asker[i].seen[a] \in Request
      BY <1>6 DEF AskRow
    <3> QED
      BY <1>5, <1>6, <3>1, <3>2 DEF TodoInv, WhoInv
  <2>3. CASE AskEnds(i)
    <3>1. /\ asker'[i].who = None /\ asker'[i].todo = {}
          /\ asker'[i].seen = [a \in Adult |-> None]
      BY <1>0, <2>3 DEF AskEnds, NoAsk
    <3> QED
      BY <3>1 DEF TodoInv, WhoInv
  <2>4. ASSUME NEW a \in Adult, Look(i, a) PROVE TodoInv(i)' /\ WhoInv(i)'
    <3> DEFINE old == asker[i].seen[a]
               keep == old # None /\ ~ req[old].expired
               who == IF ActiveOf(a) # {} \/ keep THEN None ELSE a
    <3>1. a \in asker[i].todo
          /\ asker' = [asker EXCEPT ![i].todo = @ \ {a}, ![i].who = who]
      BY <2>4 DEF Look
    <3> HIDE DEF who
    <3>2. /\ asker'[i].who = who /\ asker'[i].todo = asker[i].todo \ {a}
          /\ asker'[i].seen = asker[i].seen
      BY <1>0, <3>1 DEF AskRow
    <3>3. \A b \in Adult : asker[i].seen[b] # None => asker[i].seen[b] \in Request
      BY <1>6 DEF AskRow
    <3>4. TodoInv(i)'
      BY <1>5, <1>6, <3>2, <3>3 DEF TodoInv
    <3>5. WhoInv(i)'
      <4> SUFFICES ASSUME who # None,  NEW q \in Request, req'[q].adult = who
                   PROVE  /\ Open(q)' => req'[q].expired /\ q = asker[i].seen[who]
                          /\ consent'[q] # "active" /\ who \notin asker'[i].todo
        BY <3>2 DEF WhoInv, who
      <4>1. who = a /\ ActiveOf(a) = {} /\ ~ keep
        BY DEF who
      <4>2. req[q].adult = a
        BY <1>5, <4>1
      <4>3. consent'[q] # "active"
        BY <1>1, <4>1, <4>2 DEF ActiveOf, Of
      <4>4. Open(q) => q = old /\ req[q].expired
        <5>1. Open(q) => q = old
          BY <1>6, <3>1, <4>2 DEF TodoInv
        <5>2. q # None
          BY ApprovalRequestsAssumption
        <5> QED
          BY <4>1, <5>1, <5>2
      <4> QED
        BY <1>5, <3>2, <4>1, <4>3, <4>4
    <3> QED
      BY <3>4, <3>5
  <2> QED
    BY <2>1, <2>2, <2>3, <2>4
<1>8. SeenInv'
  BY <1>7 DEF SeenInv, Alone
<1> QED
  BY <1>3, <1>4, <1>8 DEF Rest

LEMMA ReplaceIsLinked == ASSUME Alone, Linked, NEW i \in Asker, Replace(i) PROVE Rest'
<1> DEFINE a == asker[i].who
           old == asker[i].seen[a]
<1>0. /\ Typed /\ FreshInv /\ ConsentInv /\ OneOpenInv /\ TodoInv(i) /\ WhoInv(i)
      /\ SenderInv /\ LinkRevokes
      /\ asker \in [Asker -> AskRow] /\ asker[i] \in AskRow
  BY DEF Linked, Base, Typed, TypeOK, AskRow, SeenInv
<1>1. a \in Adult
  BY <1>0, ReplaceIs
<1>2. PICK n \in Request : /\ req[n].adult = None
                           /\ \A q \in Request : Replaced(q, n, a, old)
  BY <1>0, ReplaceIs
<1>3. UNCHANGED <<needs, consent, rowLock, sender>> /\ rowLock = None
  BY DEF Replace, RowFree, person
<1>4. /\ asker'[i].who = None /\ asker'[i].todo = asker[i].todo
      /\ asker'[i].seen = asker[i].seen
  BY <1>0 DEF Replace, AskRow
<1>5. a # None /\ consent[n] = "none"
  BY <1>0, <1>1, <1>2, ApprovalRequestsAssumption DEF FreshInv
<1>6. /\ a \notin asker[i].todo
      /\ \A q \in Request : req[q].adult = a =>
           (Open(q) => q = old) /\ consent[q] # "active"
      /\ old # None => req[old].adult = a
  BY <1>0, <1>1, <1>5 DEF WhoInv, TodoInv
<1>7. \A q \in Request : q = old => q # None
  BY ApprovalRequestsAssumption
<1> HIDE DEF a, old
<1>8. ASSUME NEW q \in Request
      PROVE  \/ /\ req'[q].adult = req[q].adult /\ req'[q].accepted = req[q].accepted
                /\ req'[q].expired = req[q].expired
                /\ q = old => req'[q].canceled
                /\ q # old => req'[q].canceled = req[q].canceled
             \/ /\ q = n /\ q # old /\ req'[q].adult = a /\ ~ req'[q].accepted
                /\ ~ req'[q].canceled /\ ~ req'[q].expired
  BY <1>2 DEF Replaced
<1>9. ASSUME NEW q \in Request, Open(q)'
      PROVE  \/ Open(q) /\ q # old /\ req'[q].adult = req[q].adult
             \/ q = n /\ req'[q].adult = a
  BY <1>8, <1>9 DEF Open
<1>10. ConsentInv'
  BY <1>0, <1>3, <1>5, <1>8 DEF ConsentInv
<1>11. OneOpenInv'
  <2>1. ASSUME NEW q \in Request, NEW r \in Request, Open(q)', Open(r)',
               req'[q].adult = req'[r].adult
        PROVE  q = r
    BY <1>0, <1>6, <1>9, <2>1 DEF OneOpenInv
  <2>2. ASSUME NEW q \in Request, NEW r \in Request, Open(q)', consent'[r] = "active"
        PROVE  req'[q].adult # req'[r].adult
    <3>1. consent[r] = "active" /\ r # n /\ req'[r].adult = req[r].adult
      BY <1>3, <1>5, <1>8, <2>2
    <3> QED
      BY <1>0, <1>6, <1>9, <2>2, <3>1 DEF OneOpenInv
  <2> QED
    BY <2>1, <2>2 DEF OneOpenInv
<1>12. SeenInv'
  <2>1. \A b \in Adult : asker[i].seen[b] # None => asker[i].seen[b] \in Request
    BY <1>0 DEF AskRow
  <2>2. \A b \in Adult : asker[i].seen[b] # None => req'[asker[i].seen[b]].adult = b
    <3> SUFFICES ASSUME NEW b \in Adult, asker[i].seen[b] # None
                 PROVE  req'[asker[i].seen[b]].adult = b
      OBVIOUS
    <3>1. req[asker[i].seen[b]].adult = b /\ asker[i].seen[b] \in Request /\ b # None
      BY <1>0, <2>1, ApprovalRequestsAssumption DEF TodoInv
    <3> QED
      BY <1>2, <1>8, <3>1
  <2>3. TodoInv(i)'
    BY <1>0, <1>4, <1>6, <1>9, <2>2 DEF TodoInv
  <2>4. WhoInv(i)'
    BY <1>4 DEF WhoInv
  <2> QED
    BY <2>3, <2>4 DEF SeenInv, Alone
<1>13. GoodInv'
  BY <1>3 DEF GoodInv
<1>14. SenderInv'
  BY <1>0, <1>3, <1>5, <1>8 DEF SenderInv
<1>15. LinkRevokes'
  BY <1>0, <1>3, <1>6, <1>7, <1>8 DEF LinkRevokes
<1> QED
  BY <1>10, <1>11, <1>12, <1>13, <1>14, <1>15 DEF Rest

LEMMA CommitIsLinked == ASSUME Alone, Linked, AcceptCommit PROVE Rest'
<1> DEFINE q == rowLock
<1>0. /\ Typed /\ LockInv /\ GoodInv /\ ConsentInv /\ OneOpenInv /\ SeenInv
      /\ SenderInv /\ LinkRevokes
  BY DEF Linked, Base
<1>1. /\ q \in Request /\ rowLock' = None
      /\ \A r \in Request :
           /\ req'[r].adult = req[r].adult /\ req'[r].canceled = req[r].canceled
           /\ req'[r].expired = req[r].expired
           /\ r = q => req'[r].accepted
           /\ r # q => req'[r].accepted = req[r].accepted /\ consent'[r] = consent[r]
      /\ (\A r \in Request : req[r].adult = req[q].adult => consent[r] # "active")
           => consent'[q] = "active"
  BY <1>0, CommitIs
<1>2. UNCHANGED <<needs, asker, sender>>
  BY DEF AcceptCommit, person
<1>3. Open(q) /\ ~ req[q].expired /\ needs
  BY <1>0 DEF AcceptCommit, LockInv, GoodInv
<1> HIDE DEF q
<1>4. consent'[q] = "active"
  BY <1>0, <1>1, <1>3 DEF OneOpenInv
<1>5. \A r \in Request : Open(r)' => Open(r) /\ r # q
  BY <1>1 DEF Open
<1>6. ConsentInv'
  BY <1>0, <1>1 DEF ConsentInv
<1>7. OneOpenInv'
  <2>1. ASSUME NEW p \in Request, NEW r \in Request, Open(p)', Open(r)',
               req'[p].adult = req'[r].adult
        PROVE  p = r
    BY <1>0, <1>1, <1>5, <2>1 DEF OneOpenInv
  <2>2. ASSUME NEW p \in Request, NEW r \in Request, Open(p)', consent'[r] = "active"
        PROVE  req'[p].adult # req'[r].adult
    BY <1>0, <1>1, <1>3, <1>5, <2>2 DEF OneOpenInv
  <2> QED
    BY <2>1, <2>2 DEF OneOpenInv
<1>8. SeenInv'
  <2>1. \A i \in Asker, a \in Adult : asker[i].seen[a] # None => asker[i].seen[a] \in Request
    <3>1. asker \in [Asker -> AskRow]
      BY <1>0 DEF Typed, TypeOK, AskRow
    <3> QED
      BY <3>1 DEF AskRow
  <2>2. ASSUME NEW i \in Asker PROVE TodoInv(i)'
    <3>1. TodoInv(i)
      BY <1>0 DEF SeenInv
    <3> QED
      BY <1>1, <1>2, <1>5, <2>1, <3>1 DEF TodoInv
  <2>3. ASSUME NEW i \in Asker PROVE WhoInv(i)'
    <3>1. WhoInv(i)
      BY <1>0 DEF SeenInv
    <3>2. asker[i].who # None => req[q].adult # asker[i].who
      BY <1>1, <1>3, <3>1 DEF WhoInv
    <3> QED
      BY <1>1, <1>2, <1>5, <3>1, <3>2 DEF WhoInv
  <2> QED
    BY <2>2, <2>3 DEF SeenInv
<1>9. GoodInv'
  BY <1>1 DEF GoodInv
<1>10. SenderInv'
  BY <1>0, <1>1, <1>2, <1>3 DEF SenderInv
<1>11. LinkRevokes'
  BY <1>0, <1>1, <1>3, <1>4 DEF LinkRevokes, Open
<1> QED
  BY <1>6, <1>7, <1>8, <1>9, <1>10, <1>11 DEF Rest

LEMMA LinkedStep == ASSUME Alone, Linked, [Next]_vars PROVE Linked'
<1>1. Base'
  BY BaseStep DEF Linked
<1>2. Rest'
  <2>1. CASE UNCHANGED vars
    <3>1. Quiet /\ Harmless /\ Lasting
      BY <2>1, NothingIsQuiet DEF vars, rows
    <3>2. UNCHANGED <<asker, needs, rowLock, sender>>
      BY <2>1 DEF vars, person
    <3>3. ConsentInv' /\ OneOpenInv' /\ LinkRevokes' /\ SeenInv' /\ GoodInv' /\ SenderInv'
      BY <3>1, <3>2, HarmlessIsFine, QuietIsLinked, QuietIsSeen, LastingIsGood
    <3> QED
      BY <3>3 DEF Rest
  <2>2. CASE Next
    BY <2>2, AskIsLinked, ReplaceIsLinked, CommitIsLinked, MailIsLinked, RowIsLinked,
       PersonIsLinked DEF Next, RevokeOwn, RevokeAdmin
  <2> QED
    BY <2>1, <2>2
<1> QED
  BY <1>1, <1>2 DEF Linked, Rest

THEOREM AlwaysLinked == ASSUME Alone PROVE Spec => []Linked
<1>1. Init => Linked
  <2> SUFFICES ASSUME Init PROVE Linked
    OBVIOUS
  <2>1. /\ req = [q \in Request |-> Unused] /\ consent = [q \in Request |-> "none"]
        /\ rowLock = None /\ asker = [i \in Asker |-> NoAsk]
        /\ sender = [s \in Sender |-> NoMail]
    BY DEF Init
  <2>2. \A q \in Request : ~ Open(q) /\ consent[q] = "none" /\ ~ req[q].accepted
    BY <2>1 DEF Open, Unused
  <2>3. Base
    BY <2>1, TypeInit DEF Base, FreshInv, LockInv, ConsentsAreEligible, Active
  <2>4. SeenInv
    BY <2>1 DEF SeenInv, TodoInv, WhoInv, NoAsk
  <2>5. SenderInv
    BY <2>2 DEF SenderInv
  <2>6. GoodInv /\ ConsentInv /\ OneOpenInv /\ LinkRevokes
    BY <2>1, <2>2 DEF GoodInv, ConsentInv, OneOpenInv, LinkRevokes
  <2> QED
    BY <2>3, <2>4, <2>5, <2>6 DEF Linked
<1>2. Linked /\ [Next]_vars => Linked'
  BY LinkedStep
<1> QED
  BY <1>1, <1>2, PTL DEF Spec

(* Who accepted through a link can revoke through it: an acceptance leaves *)
(* its consent, and nothing cancels its row as long as the consent stands, *)
(* when one call of requestEmails runs at a time and no link expires       *)
(* between the check of it and its use.                                    *)
THEOREM AcceptanceCanBeRevoked == ASSUME Alone PROVE Spec => []LinkRevokes
<1>1. Linked => LinkRevokes
  BY DEF Linked
<1> QED
  BY <1>1, AlwaysLinked, PTL
=============================================================================
